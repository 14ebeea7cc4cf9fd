--------------------------- MODULE InputDelivery ---------------------------
(***************************************************************************)
(* What a chat promises about its inputs, without lanes, outbox, attachment *)
(* or daemon.  An accepted input waits in one FIFO, becomes the foreground  *)
(* when it is the first to wait and nothing else is, crosses to a provider  *)
(* at most once, while it is the foreground or else after its delivery was  *)
(* called uncertain, and gets exactly one fate.                             *)
(* Only a notice may return, once per attempt and ahead of everything that  *)
(* waits.  ChatActor implements this specification.                         *)
(***************************************************************************)
EXTENDS Naturals, Sequences

CONSTANTS Inputs, Notices, RedeliveryLimit, NoOp

VARIABLES waiting, owner, fate, sent
vars == <<waiting, owner, fate, sent>>

Ops == Inputs \X (0 .. RedeliveryLimit)
Waits(op) == \E i \in DOMAIN waiting : waiting[i] = op
Known(op) == Waits(op) \/ owner = op \/ fate[op] # "open"

Init ==
    /\ waiting = <<>> /\ owner = NoOp
    /\ fate = [op \in Ops |-> "open"]
    /\ sent = [op \in Ops |-> 0]

\* Of the inputs q that wait, the first may become the free foreground.
Promote(q, current) ==
    \/ waiting' = q /\ owner' = current
    \/ current = NoOp /\ q # <<>> /\ owner' = Head(q) /\ waiting' = Tail(q)

Accept(i) ==
    /\ ~Known(<<i, 0>>)
    /\ Promote(Append(waiting, <<i, 0>>), owner)
    /\ UNCHANGED <<fate, sent>>

\* Refused and withdrawn are said only of an input that never crossed, answered
\* and interrupted only of one that did; "uncertain" and "presumed" of either.
Settle(op, f) ==
    /\ fate[op] = "open" /\ fate' = [fate EXCEPT ![op] = f]
    /\ f \in {"refused", "withdrawn"} => sent[op] = 0
    /\ f \in {"answered", "interrupted"} => sent[op] = 1
    /\ UNCHANGED sent

SettleOwner(f) ==
    /\ owner # NoOp /\ Settle(owner, f)
    /\ \/ Promote(waiting, NoOp)
       \/ LET next == <<owner[1], owner[2] + 1>> IN
          /\ owner[1] \in Notices /\ owner[2] < RedeliveryLimit /\ ~Known(next)
          /\ f \notin {"refused", "withdrawn"}
          /\ Promote(<<next>> \o waiting, NoOp)

Without(i) == SubSeq(waiting, 1, i - 1) \o SubSeq(waiting, i + 1, Len(waiting))
SettleWaiting(i, f) ==
    /\ f \in {"refused", "withdrawn"} /\ Settle(waiting[i], f)
    /\ Promote(Without(i), owner)

Proceed ==
    /\ owner = NoOp /\ waiting # <<>>
    /\ owner' = Head(waiting) /\ waiting' = Tail(waiting)
    /\ UNCHANGED <<fate, sent>>

Send(op) ==
    /\ sent[op] = 0 /\ (owner = op \/ fate[op] = "uncertain")
    /\ sent' = [sent EXCEPT ![op] = 1]
    /\ UNCHANGED <<waiting, owner, fate>>

Next ==
    \/ \E i \in Inputs : Accept(i)
    \/ \E f \in {"answered", "presumed", "interrupted", "uncertain", "refused", "withdrawn"} :
         \/ SettleOwner(f)
         \/ \E i \in DOMAIN waiting : SettleWaiting(i, f)
    \/ Proceed
    \/ \E op \in Ops : Send(op)

Spec == Init /\ [][Next]_vars
=============================================================================
