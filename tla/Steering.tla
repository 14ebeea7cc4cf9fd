------------------------------ MODULE Steering ------------------------------
(***************************************************************************)
(* Steering: directions given to a turn while it runs (internal/chat,      *)
(* steer commands; provider_delivery.go).  A direction is recorded durably *)
(* under the actor's mutex (Steer); without it ExecuteSteer claims it,     *)
(* sends it to the job that runs then and reports the answer, beside the   *)
(* other directions and beside the ordered stream of provider events.      *)
(*                                                                         *)
(* A direction is a row of the staged queue, an agent's message with a     *)
(* FIFO identity, or else live text of the composer; it stands for its     *)
(* operation id.  A turn stands for the operation it answers: an input or  *)
(* an agent's direction that was refused and queued.                       *)
(***************************************************************************)
EXTENDS Naturals, Sequences, SequencesExt

CONSTANTS Inputs,        \* operations of ordinary inputs
          Steers,        \* operations of directions
          Staged,        \* those that are rows of the staged queue
          Agents,        \* those an agent sent (chat.send, delivery=steer)
          None,          \* no turn
          MaxFaults      \* bound: timeouts, broken connections, restarts

ASSUME SteeringAssumption ==
    /\ Inputs \cap Steers = {} /\ None \notin Inputs \union Steers
    /\ Staged \subseteq Steers /\ Agents \subseteq Steers \ Staged
    /\ MaxFaults \in Nat

VARIABLES chat,       \* the actor's durable state
          call,       \* per direction: the step of its ExecuteSteer
          job,        \* the manager's running job: turn, input seen, marks
          asked,      \* requests the provider has not looked at
          held,       \* directions it accepted and has not taken
          taken,      \* operations it took, in order (history)
          events,     \* the lane's ordered event stream
          begun,      \* turns that were started (history)
          steered,    \* directions in the order they were recorded (history)
          cut,        \* requests a broken connection ended (history)
          faults
providerVars == <<job, asked, held, taken>>
vars == <<chat, call, providerVars, events, begun, steered, cut, faults>>

Ops == Inputs \union Steers
NoTurn == [op |-> None, consumed |-> FALSE]
NoJob == [op |-> None, input |-> FALSE, marks |-> {}]
Statuses == {"dispatching", "accepted", "uncertain"}
Pending == [op : Steers, turn : Ops, status : Statuses]
Row == [op : Ops, turn : Ops,
        state : {"input", "applied", "accepted", "uncertain"}]
Event == [kind : {"input", "steer", "end", "lost"}, op : Ops \union {None},
          marks : SUBSET Steers]

TypeOK ==
    /\ chat \in [fg : [op : Ops \union {None}, consumed : BOOLEAN],
                 pending : Seq(Pending),
                 effect : [Steers -> {"none", "pending", "dispatched", "accepted",
                           "consumed", "completed", "ambiguous", "failed"}],
                 ledger : Seq(Row), staged : SUBSET Staged, queue : Seq(Agents)]
    /\ call \in [Steers -> {"idle", "claimed", "sent", "accepted", "refused", "unknown"}]
    /\ job \in [op : Ops \union {None}, input : BOOLEAN, marks : SUBSET Steers]
    /\ asked \subseteq Steers /\ held \subseteq Steers /\ taken \in Seq(Ops)
    /\ events \in Seq(Event)
    /\ begun \subseteq Ops /\ steered \in Seq(Steers) /\ cut \subseteq Steers
    /\ faults \in 0..MaxFaults

Init ==
    /\ chat = [fg |-> NoTurn, pending |-> <<>>, effect |-> [s \in Steers |-> "none"],
               ledger |-> <<>>, staged |-> Staged, queue |-> <<>>]
    /\ call = [s \in Steers |-> "idle"]
    /\ job = NoJob /\ asked = {} /\ held = {} /\ taken = <<>> /\ events = <<>>
    /\ begun = {} /\ steered = <<>> /\ cut = {} /\ faults = 0

-----------------------------------------------------------------------------
(* The reducer.  c is the chat. *)

Running(c) == c.fg.op # None
Place(c, s) == SelectInSeq(c.pending, LAMBDA p : p.op = s)
IsPending(c, s) == Place(c, s) # 0
Fault == faults < MaxFaults /\ faults' = faults + 1

\* reduceSteer: recorded behind the others; a staged row leaves its queue.
Recorded(c, s) ==
    [c EXCEPT !.pending = Append(@, [op |-> s, turn |-> c.fg.op, status |-> "dispatching"]),
              !.effect[s] = "pending", !.staged = @ \ {s}]

\* removePendingSteer.
Removed(c, s) == [c EXCEPT !.pending = RemoveAt(@, Place(c, s))]

\* reduceSteerAdmitted.
Admitted(c, s) ==
    IF IsPending(c, s)
    THEN [c EXCEPT !.pending[Place(c, s)].status = "accepted", !.effect[s] = "accepted"]
    ELSE c

\* (mutant) a refused direction of an agent is queued and stays pending.
RefusedKept(c, s) ==
    IF ~IsPending(c, s) THEN c
    ELSE IF s \in Staged
    THEN [Removed(c, s) EXCEPT !.staged = @ \union {s}, !.effect[s] = "failed"]
    ELSE IF s \in Agents
    THEN [c EXCEPT !.queue = Append(@, s), !.effect[s] = "completed"]
    ELSE [Removed(c, s) EXCEPT !.effect[s] = "failed"]

\* reduceSteerFailed, definite: back to the staged queue, into the FIFO of the
\* agents, or back to the composer.
Refused(c, s) ==
    IF ~IsPending(c, s) THEN c
    ELSE IF s \in Staged
    THEN [Removed(c, s) EXCEPT !.staged = @ \union {s}, !.effect[s] = "failed"]
    ELSE IF s \in Agents
    THEN [Removed(c, s) EXCEPT !.queue = Append(@, s), !.effect[s] = "completed"]
    ELSE [Removed(c, s) EXCEPT !.effect[s] = "failed"]

\* (mutant) the direction takes the status of its effect.
UnknownAmbiguous(c, s) ==
    IF IsPending(c, s)
    THEN [c EXCEPT !.pending[Place(c, s)].status = "ambiguous", !.effect[s] = "ambiguous"]
    ELSE c

\* (mutant) an answer that did not come is taken for a refusal.
UnknownRefused(c, s) == Refused(c, s)

\* reduceSteerFailed, ambiguous: it stays pending and is never sent again.
Unknown(c, s) ==
    IF IsPending(c, s)
    THEN [c EXCEPT !.pending[Place(c, s)].status = "uncertain", !.effect[s] = "ambiguous"]
    ELSE c

\* reduceInputConsumed of the foreground's input.  A turn of a queued direction
\* is taken for that direction, whose effect is completed: nothing is written.
InputConsumed(c) ==
    IF c.fg.consumed \/ (c.fg.op \in Steers /\ c.effect[c.fg.op] \in {"consumed", "completed"})
    THEN c
    ELSE [c EXCEPT !.fg.consumed = TRUE,
                   !.ledger = Append(@, [op |-> c.fg.op, turn |-> c.fg.op,
                                         state |-> "input"])]

\* The ledger's rows of pending directions, shown[status] what they say.
Rows(pending, shown) ==
    [i \in DOMAIN pending |-> [op |-> pending[i].op, turn |-> pending[i].turn,
                               state |-> shown[pending[i].status]]]
AsApplied == [status \in Statuses |-> "applied"]
AsAnswered == [status \in Statuses |-> IF status = "accepted" THEN "accepted"
                                                            ELSE "uncertain"]
OpsOf(pending) == {p.op : p \in ToSet(pending)}

\* (mutant) the directions before s stay pending.
AppliedAlone(c, s) ==
    LET i == InputConsumed(c)
        rows == Rows(<<c.pending[Place(c, s)]>>, AsApplied)
    IN [Removed(i, s) EXCEPT !.ledger = @ \o rows, !.effect[s] = "consumed"]

\* reduceInputConsumed of a pending direction: the turn's input and every
\* direction before it were consumed too.
Applied(c, s) ==
    LET i == InputConsumed(c)
        first == SubSeq(c.pending, 1, Place(c, s))
    IN [i EXCEPT !.pending = SubSeq(@, Place(c, s) + 1, Len(@)),
                 !.ledger = @ \o Rows(first, AsApplied),
                 !.effect = [t \in Steers |-> IF t \in OpsOf(first) THEN "consumed" ELSE @[t]]]

\* markLateConsumedSteer.
AppliedLate(c, s) ==
    [c EXCEPT !.effect[s] = "completed",
              !.ledger = [i \in DOMAIN @ |->
                  IF @[i].op = s /\ @[i].state \in {"accepted", "uncertain"}
                  THEN [@[i] EXCEPT !.state = "applied"] ELSE @[i]]]

\* A receipt the reducer accepts, and what it makes of it.
Fits(c, s) == IsPending(c, s) \/ c.effect[s] \in {"consumed", "completed", "ambiguous"}
SteerConsumed(c, s) ==
    IF IsPending(c, s) THEN Applied(c, s)
    ELSE IF c.effect[s] = "ambiguous" THEN AppliedLate(c, s)
    ELSE c

\* (mutant) what may have been consumed is shown as applied.
UnconsumedApplied(c) ==
    [c EXCEPT !.pending = <<>>,
              !.ledger = @ \o Rows(c.pending, AsApplied),
              !.effect = [t \in Steers |-> IF t \in OpsOf(c.pending) THEN "ambiguous" ELSE @[t]]]

\* appendUnconsumedSteerAtTerminal and the loop around it.
Unconsumed(c) ==
    [c EXCEPT !.pending = <<>>,
              !.ledger = @ \o Rows(c.pending, AsAnswered),
              !.effect = [t \in Steers |-> IF t \in OpsOf(c.pending) THEN "ambiguous" ELSE @[t]]]

\* (mutant) only the first direction is settled with its turn.
EndedFirst(c, marks) ==
    LET d == InputConsumed(c)
        rest == IF d.pending = <<>> THEN <<>> ELSE Tail(d.pending)
    IN [Unconsumed([d EXCEPT !.pending = SubSeq(@, 1, Len(@) - Len(rest))])
          EXCEPT !.pending = rest, !.fg = NoTurn]

\* reduceTurnTerminated: the receipts it carries, the input, and the rest.
Ended(c, marks) ==
    LET open == {s \in marks : IsPending(c, s)}
        last == CHOOSE s \in open : \A t \in open : Place(c, t) <= Place(c, s)
        d == InputConsumed(IF open = {} THEN c ELSE Applied(c, last))
    IN [Unconsumed(d) EXCEPT !.fg = NoTurn,
          !.effect = [t \in Steers |->
              IF @[t] = "consumed" THEN "completed" ELSE @[t]]]

\* terminalizeInterruptedForeground: an input without a receipt gets its row.
Interrupted(c) ==
    LET row == [op |-> c.fg.op, turn |-> c.fg.op, state |-> "input"]
        d == IF c.fg.consumed THEN c ELSE [c EXCEPT !.ledger = Append(@, row)]
    IN IF Running(c) THEN [Unconsumed(d) EXCEPT !.fg = NoTurn] ELSE c

\* RecoverOutbox: what was sent is ambiguous; the turn is retired.
Recovered(c) ==
    Interrupted([c EXCEPT !.effect = [s \in Steers |->
        IF @[s] \in {"dispatched", "accepted", "consumed"} THEN "ambiguous" ELSE @[s]]])

-----------------------------------------------------------------------------
(* The actor and ExecuteSteer. *)

\* drive: the next queued input becomes the foreground and its job starts.
StartTurn(op) ==
    /\ ~Running(chat) /\ job = NoJob /\ events = <<>>
    /\ IF chat.queue # <<>> THEN op = Head(chat.queue) ELSE op \in Inputs \ begun
    /\ chat' = [chat EXCEPT !.fg = [op |-> op, consumed |-> FALSE],
                            !.queue = IF @ # <<>> THEN Tail(@) ELSE @]
    /\ job' = [NoJob EXCEPT !.op = op]
    /\ begun' = begun \union {op}
    /\ UNCHANGED <<call, asked, held, taken, events, steered, cut, faults>>

\* Steer (provider_chat_runtime.go) and steerQueuedLocked.
Steer(s) ==
    /\ Running(chat) /\ chat.effect[s] = "none"
    /\ chat' = Recorded(chat, s) /\ steered' = Append(steered, s)
    /\ UNCHANGED <<call, providerVars, events, begun, cut, faults>>

\* ClaimEffect of a direction that is still pending, by ExecuteSteer or Drain.
Claim(s) ==
    /\ chat.effect[s] = "pending" /\ IsPending(chat, s)
    /\ chat' = [chat EXCEPT !.effect[s] = "dispatched"]
    /\ call' = [call EXCEPT ![s] = "claimed"]
    /\ UNCHANGED <<providerVars, events, begun, steered, cut, faults>>

\* Bridge.Steer: to whatever job runs now, or refused.
Send(s) ==
    /\ call[s] = "claimed"
    /\ IF job # NoJob
       THEN call' = [call EXCEPT ![s] = "sent"] /\ asked' = asked \union {s}
       ELSE call' = [call EXCEPT ![s] = "refused"] /\ UNCHANGED asked
    /\ UNCHANGED <<chat, job, held, taken, events, begun, steered, cut, faults>>

\* No answer in time; the request stays with the provider.
Timeout(s) ==
    /\ call[s] = "sent" /\ Fault
    /\ call' = [call EXCEPT ![s] = "unknown"]
    /\ UNCHANGED <<chat, providerVars, events, begun, steered, cut>>

\* executeSteer commits the answer.
Report(s) ==
    /\ \/ call[s] = "accepted" /\ chat' = Admitted(chat, s)
       \/ call[s] = "refused" /\ chat' = Refused(chat, s)
       \/ call[s] = "unknown" /\ chat' = Unknown(chat, s)
    /\ call' = [call EXCEPT ![s] = "idle"]
    /\ UNCHANGED <<providerVars, events, begun, steered, cut, faults>>

-----------------------------------------------------------------------------
(* The provider and its connection. *)

\* The provider took charge of a request: it holds the direction or used it.
Accepted(s) == s \in held \/ s \in ToSet(taken)

Accept(s) ==
    /\ s \in asked /\ asked' = asked \ {s} /\ held' = held \union {s}
    /\ UNCHANGED <<chat, call, job, taken, events, begun, steered, cut, faults>>

\* Its answer arrives, perhaps after the direction was used; one that comes
\* after the timeout finds nobody.
Reply(s) ==
    /\ call[s] = "sent" /\ Accepted(s)
    /\ call' = [call EXCEPT ![s] = "accepted"]
    /\ UNCHANGED <<chat, providerVars, events, begun, steered, cut, faults>>

Reject(s) ==
    /\ s \in asked /\ asked' = asked \ {s}
    /\ call' = [call EXCEPT ![s] = IF @ = "sent" THEN "refused" ELSE @]
    /\ UNCHANGED <<chat, job, held, taken, events, begun, steered, cut, faults>>

Told(kind, op, marks) == Append(events, [kind |-> kind, op |-> op, marks |-> marks])

\* The input of the job is consumed.
TakeInput ==
    /\ job # NoJob /\ ~job.input
    /\ job' = [job EXCEPT !.input = TRUE]
    /\ taken' = Append(taken, job.op)
    /\ events' = Told("input", job.op, {})
    /\ UNCHANGED <<chat, call, asked, held, begun, steered, cut, faults>>

\* A direction is consumed: in a job, which marks it (markSteerConsumed), or
\* between two jobs, where the notification finds none.
Take(s) ==
    /\ s \in held /\ held' = held \ {s}
    /\ taken' = Append(taken, s)
    /\ IF job = NoJob THEN UNCHANGED <<job, events>>
       ELSE job.input /\ job' = [job EXCEPT !.marks = @ \union {s}]
            /\ events' = Told("steer", s, {})
    /\ UNCHANGED <<chat, call, asked, begun, steered, cut, faults>>

\* The job ends; its terminal carries the marks.
EndJob ==
    /\ job # NoJob
    /\ job' = NoJob /\ events' = Told("end", job.op, job.marks)
    /\ UNCHANGED <<chat, call, asked, held, taken, begun, steered, cut, faults>>

\* The connection breaks: open requests fail with an error that is no timeout
\* and so is read as a refusal; the stream closes with the loss.
Break ==
    /\ Running(chat) /\ (\A i \in DOMAIN events : events[i].kind # "lost") /\ Fault
    /\ call' = [s \in Steers |-> IF call[s] = "sent" THEN "refused" ELSE call[s]]
    /\ cut' = cut \union {s \in Steers : call[s] = "sent"}
    /\ job' = NoJob /\ asked' = {} /\ held' = {}
    /\ taken' \in {taken} \union {Append(taken, s) : s \in held}
    /\ events' = Told("lost", None, {})
    /\ UNCHANGED <<chat, begun, steered>>

\* The actor commits the next event; one it refuses fails the lane.
Receive ==
    /\ events # <<>>
    /\ LET e == Head(events)
           isFor == Running(chat) /\ chat.fg.op = e.op
           fits == CASE e.kind = "steer" -> Fits(chat, e.op)
                     [] e.kind = "end" -> isFor /\ \A s \in e.marks : Fits(chat, s)
                     [] e.kind = "input" -> isFor
                     [] e.kind = "lost" -> FALSE
       IN IF fits
          THEN /\ chat' = CASE e.kind = "input" -> InputConsumed(chat)
                            [] e.kind = "steer" -> SteerConsumed(chat, e.op)
                            [] e.kind = "end" -> Ended(chat, e.marks)
               /\ events' = Tail(events) /\ UNCHANGED <<job, asked, held>>
          ELSE /\ chat' = Interrupted(chat)
               /\ events' = <<>> /\ job' = NoJob /\ asked' = {} /\ held' = {}
    /\ UNCHANGED <<call, taken, begun, steered, cut, faults>>

\* The daemon restarts, and the processes of its providers with it.
Restart ==
    /\ Fault
    /\ chat' = Recovered(chat)
    /\ call' = [s \in Steers |-> "idle"] /\ events' = <<>>
    /\ job' = NoJob /\ asked' = {} /\ held' = {}
    /\ taken' \in {taken} \union {Append(taken, s) : s \in held}
    /\ UNCHANGED <<begun, steered, cut>>

-----------------------------------------------------------------------------
Next ==
    \/ \E op \in Ops : StartTurn(op)
    \/ \E s \in Steers : Steer(s) \/ Claim(s) \/ Send(s) \/ Timeout(s) \/ Report(s)
                         \/ Accept(s) \/ Reply(s) \/ Reject(s) \/ Take(s)
    \/ TakeInput \/ EndJob \/ Break \/ Receive \/ Restart

Spec == Init /\ [][Next]_vars

-----------------------------------------------------------------------------
(* Properties. *)

RowsOf(s) == {i \in DOMAIN chat.ledger : chat.ledger[i].op = s}
TakenAt(s) == SelectInSeq(taken, LAMBDA op : op = s)
IsTaken(s) == TakenAt(s) # 0

\* A recorded direction has one owner: the pending list, one row of the
\* ledger, the staged queue it came from, the FIFO with the turns it started,
\* or the composer it was returned to.
OneOwner ==
    \A s \in Steers : chat.effect[s] # "none" =>
        LET returned == chat.effect[s] = "failed"
            queued == s \in ToSet(chat.queue) \union begun
        IN /\ (IsPending(chat, s) \/ RowsOf(s) # {}) => ~returned
           /\ IsPending(chat, s) => RowsOf(s) = {} /\ ~queued
           /\ IsPending(chat, s) \/ RowsOf(s) # {} \/ returned \/ queued
           /\ s \in Staged => (returned <=> s \in chat.staged)
           /\ \A i, j \in RowsOf(s) : i = j

\* No direction outlives the turn it was given to.
PendingOwned == \A p \in ToSet(chat.pending) : p.turn = chat.fg.op

\* What the ledger shows as applied the provider took, unless it took a later
\* direction first: that one's receipt vouches for those before it, also for
\* one that was overtaken on its way and never arrived.
AppliedWasTaken ==
    \A i \in DOMAIN chat.ledger : chat.ledger[i].state = "applied" =>
        LET s == chat.ledger[i].op
            before == SubSeq(steered, 1, SelectInSeq(steered, LAMBDA t : t = s))
        IN IsTaken(s) \/ \E t \in ToSet(taken) \cap Steers : t \notin ToSet(before)

\* The provider takes an operation at most once, and never a direction that
\* was returned or queued, unless the connection broke under its request.
TakenOnce ==
    /\ \A i, j \in DOMAIN taken : taken[i] = taken[j] => i = j \/ taken[i] \in cut
    /\ \A s \in Steers \ cut :
         (chat.effect[s] = "failed" \/ s \in ToSet(chat.queue)) =>
            ~IsTaken(s) /\ s \notin asked \union held

\* The ledger keeps the order in which directions were given, and the input
\* of their turn before them; only a turn whose input is itself a refused
\* direction has no row of its input.
InOrder ==
    \A i \in DOMAIN chat.ledger : LET r == chat.ledger[i] IN
        /\ r.state = "applied" /\ r.turn \in Inputs =>
              \E j \in 1..i : chat.ledger[j].op = r.turn
        /\ \A j \in DOMAIN chat.ledger :
              LET t == chat.ledger[j] IN
              /\ "input" \notin {r.state, t.state}
              /\ SelectInSeq(steered, LAMBDA o : o = t.op)
                   < SelectInSeq(steered, LAMBDA o : o = r.op)
              => j < i

\* Every receipt on its way is one the reducer accepts: a refused one would
\* fail the lane.  A connection that broke under the request is the exception.
ReceiptsFit ==
    \A i \in DOMAIN events : events[i].kind \in {"steer", "end"} =>
        \A s \in ({events[i].op} \union events[i].marks) \cap (Steers \ cut) : Fits(chat, s)
=============================================================================
