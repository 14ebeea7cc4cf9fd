---------------------------- MODULE ChatReducer ----------------------------
(***************************************************************************)
(* The durable chat actor as a pure function of its state, after           *)
(* internal/chat/reducer.go and state.go.  One operator per command: it    *)
(* takes the committed chat record and returns the next one, with every    *)
(* call the command's handler makes (settling, driving the FIFO, recording *)
(* effects in the outbox) already applied.  The coordinator that feeds     *)
(* commands to it and executes its effects is ChatActor.                   *)
(*                                                                         *)
(* Data that no rule here tells apart is left out: message texts, ledger   *)
(* rows (only the terminal fate of each input is kept), model and mode     *)
(* selections, permissions, steering, context import.                      *)
(***************************************************************************)
EXTENDS Naturals, Sequences, FiniteSets

CONSTANTS
    Lanes,            \* provider lanes of one chat
    Deferred,         \* lanes whose native thread exists only once it consumed an input
    Inputs,           \* inputs people and agents submit
    Notices,          \* the inputs that are notices of an agent (NoticeKind # "")
    RedeliveryLimit,  \* noticeRedeliveryLimit, 3 in the code
    NoLane,           \* "" for a lane id
    NoOp              \* nil foreground

ASSUME ChatAssumption ==
    /\ IsFiniteSet(Lanes)
    /\ Deferred \subseteq Lanes
    /\ Notices \subseteq Inputs
    /\ RedeliveryLimit \in Nat
    /\ NoLane \notin Lanes
    /\ NoOp \notin Inputs \X (0 .. RedeliveryLimit)

\* An operation is an input and its redelivery attempt: the suffix
\* "-redelivery-<k>" of the operation id, 0 for the submitted one.
Ops == Inputs \X (0 .. RedeliveryLimit)

Phases   == {"unselected", "absent", "creating", "detached", "resuming",
             "ready", "running", "blocked"}
Statuses == {"pending", "dispatched", "accepted", "consumed", "ambiguous",
             "completed", "failed"}
Kinds    == {"create", "resume", "start", "stop"}

\* What the ledger finally says of an input: consumed and answered by its turn,
\* consumed as far as the end of its turn tells (nobody reported it before),
\* interrupted after its consumption, of uncertain delivery, refused before
\* admission, or withdrawn by its owner before admission.
Fates == {"open", "answered", "presumed", "interrupted", "uncertain", "refused", "withdrawn"}

\* An outbox entry; kind, lane, op and gen make up its id.  gen is the
\* connection or create generation, or the ordinal of a Stop of op's turn.
\* Only a start and a Stop name an operation.
Entry == {e \in [kind : Kinds, lane : Lanes, op : Ops \union {NoOp}, gen : Nat,
                 status : Statuses, recon : BOOLEAN] :
             e.op = NoOp <=> e.kind \in {"create", "resume"}}

\* A native thread id is a positive number, 0 is none.
Chat == [phase    : [Lanes -> Phases],
         thread   : [Lanes -> Nat],      \* LaneState.Thread
         cand     : [Lanes -> Nat],      \* LaneState.Provision
         gen      : [Lanes -> Nat],      \* ConnectionGeneration
         cgen     : [Lanes -> Nat],      \* CreateGeneration
         attached : [Lanes -> BOOLEAN],  \* Attachment # nil
         violated : SUBSET Lanes,        \* LastError = ErrorProtocolViolation
         desired  : Lanes \union {NoLane},
         active   : Lanes \union {NoLane},
         lane     : [Ops -> Lanes \union {NoLane}],  \* NoLane: op not in Operations
         queue    : Seq(Ops),
         fg       : Ops \union {NoOp},   \* Foreground
         running  : BOOLEAN,             \* admitted: status running, native turn known
         consumed : BOOLEAN,             \* Foreground.UserConsumed
         stopping : BOOLEAN,             \* PendingCancel # nil
         fate     : [Ops -> Fates],
         outbox   : Seq(Entry)]

InitialChat ==
    [phase |-> [l \in Lanes |-> "unselected"], thread |-> [l \in Lanes |-> 0],
     cand |-> [l \in Lanes |-> 0], gen |-> [l \in Lanes |-> 0],
     cgen |-> [l \in Lanes |-> 0], attached |-> [l \in Lanes |-> FALSE], violated |-> {},
     desired |-> NoLane, active |-> NoLane, lane |-> [op \in Ops |-> NoLane],
     queue |-> <<>>, fg |-> NoOp, running |-> FALSE, consumed |-> FALSE,
     stopping |-> FALSE, fate |-> [op \in Ops |-> "open"], outbox |-> <<>>]

QueuedOps(c) == {c.queue[i] : i \in DOMAIN c.queue}
FgLane(c)    == IF c.fg = NoOp THEN NoLane ELSE c.lane[c.fg]

(***************************************************************************)
(* The outbox.                                                             *)
(***************************************************************************)
CreateEffect(l, g, recon) ==
    [kind |-> "create", lane |-> l, op |-> NoOp, gen |-> g, status |-> "pending", recon |-> recon]
ResumeEffect(l, g) ==
    [kind |-> "resume", lane |-> l, op |-> NoOp, gen |-> g, status |-> "pending", recon |-> FALSE]
StartEffect(l, op) ==
    [kind |-> "start", lane |-> l, op |-> op, gen |-> 0, status |-> "pending", recon |-> FALSE]
StopEffect(l, op, k) ==
    [kind |-> "stop", lane |-> l, op |-> op, gen |-> k, status |-> "pending", recon |-> FALSE]

SameEffect(e, f) == e.kind = f.kind /\ e.lane = f.lane /\ e.op = f.op /\ e.gen = f.gen

\* An effect whose id was recorded before is dropped without a word.
Record(box, e) ==
    IF \E i \in DOMAIN box : SameEffect(box[i], e) THEN box ELSE Append(box, e)

Mark(box, ids, status) ==
    [i \in DOMAIN box |-> IF i \in ids THEN [box[i] EXCEPT !.status = status] ELSE box[i]]

Creates(c, l, g) == {i \in DOMAIN c.outbox :
    c.outbox[i].kind = "create" /\ c.outbox[i].lane = l /\ c.outbox[i].gen = g}
Resumes(c, l, g) == {i \in DOMAIN c.outbox :
    c.outbox[i].kind = "resume" /\ c.outbox[i].lane = l /\ c.outbox[i].gen = g}
Starts(c, op) == {i \in DOMAIN c.outbox : c.outbox[i].kind = "start" /\ c.outbox[i].op = op}
Stops(c, op)  == {i \in DOMAIN c.outbox : c.outbox[i].kind = "stop" /\ c.outbox[i].op = op}

Has(c, ids, status) == \E i \in ids : c.outbox[i].status = status
PendingOpen(c, l, kind) ==
    \E i \in DOMAIN c.outbox : /\ c.outbox[i].kind = kind
                               /\ c.outbox[i].lane = l
                               /\ c.outbox[i].status = "pending"

(***************************************************************************)
(* Driving the FIFO: the lane of the head of the queue, or the selected    *)
(* lane of an idle chat, is opened, or the head becomes the foreground.    *)
(***************************************************************************)
OpenByCreate(c, l, g, recon) ==
    [c EXCEPT !.phase[l] = "creating", !.cgen[l] = g, !.violated = @ \ {l},
              !.outbox = Record(@, CreateEffect(l, g, recon))]
\* (mutant) the resume is recorded under the generation that was lost.
OpenByOldResume(c, l, g) ==
    [c EXCEPT !.phase[l] = "resuming", !.gen[l] = g, !.violated = @ \ {l},
              !.outbox = Record(@, ResumeEffect(l, c.gen[l]))]
OpenByResume(c, l, g) ==
    [c EXCEPT !.phase[l] = "resuming", !.gen[l] = g, !.violated = @ \ {l},
              !.outbox = Record(@, ResumeEffect(l, g))]

BeginForeground(c, l, phase) ==
    [c EXCEPT !.queue = Tail(@), !.fg = Head(c.queue), !.running = FALSE, !.consumed = FALSE,
              !.active = l, !.phase[l] = phase,
              !.outbox = Record(@, StartEffect(l, Head(c.queue)))]

\* (mutant) the selected lane is driven, not the lane of the head.
DriveSelected(c) == c.desired
DriveTarget(c) == IF c.queue # <<>> THEN c.lane[Head(c.queue)] ELSE c.desired

\* covered: whether the lane's context coverage has reached the ledger head,
\* which an idle chat asks before it makes a ready lane the active one.
DriveLane(c, l, covered) ==
    CASE c.phase[l] = "absent" /\ (l \notin Deferred \/ c.queue # <<>>) ->
             OpenByCreate(c, l, c.cgen[l] + 1, c.cand[l] # 0)
      [] c.phase[l] = "detached" -> OpenByResume(c, l, c.gen[l] + 1)
      [] c.phase[l] = "ready" /\ c.queue # <<>> -> BeginForeground(c, l, "running")
      [] c.phase[l] = "ready" /\ c.queue = <<>> /\ covered -> [c EXCEPT !.active = l]
      [] c.phase[l] = "creating" /\ c.cand[l] # 0 /\ c.queue # <<>> ->
             BeginForeground(c, l, "creating")
      [] OTHER -> c

Drive(c, covered) ==
    IF c.fg # NoOp \/ DriveTarget(c) = NoLane THEN c ELSE DriveLane(c, DriveTarget(c), covered)

DriveQueued(c) == IF c.queue = <<>> THEN c ELSE Drive(c, TRUE)

(***************************************************************************)
(* Commands of the user.                                                   *)
(***************************************************************************)
SelectLane(c, l, covered) ==
    LET revived == IF c.phase[l] = "unselected" \/ (c.phase[l] = "blocked" /\ c.cand[l] = 0)
                   THEN [c EXCEPT !.phase[l] = "absent"] ELSE c
        chosen  == [revived EXCEPT !.desired = l]
    IN  IF c.fg # NoOp THEN chosen ELSE Drive(chosen, covered)

CanSubmit(c, op, l) == c.lane[op] = NoLane /\ c.phase[l] # "unselected"
Submit(c, op, l, covered) ==
    LET revived == IF c.phase[l] = "blocked" THEN [c EXCEPT !.phase[l] = "absent"] ELSE c
    IN  Drive([revived EXCEPT !.lane[op] = l, !.queue = Append(@, op)], covered)

RemoveFirst(q, i) == SubSeq(q, 1, i - 1) \o SubSeq(q, i + 1, Len(q))
FirstOf(q, S) == CHOOSE i \in DOMAIN q : q[i] \in S /\ \A j \in 1 .. (i - 1) : q[j] \notin S

ClearForeground(c) ==
    [c EXCEPT !.fg = NoOp, !.running = FALSE, !.consumed = FALSE]

\* CancelPendingTurn: the input is still queued, or it is the foreground and
\* the provider has not admitted it.
\* (mutant) an admitted turn may be withdrawn too.
CanWithdrawAlways(c, op) == op \in QueuedOps(c) \/ c.fg = op
CanWithdraw(c, op) == op \in QueuedOps(c) \/ (c.fg = op /\ ~c.running)
Withdraw(c, op, covered) ==
    LET l == c.lane[op]
        dropped ==
          IF c.fg = op
          THEN ClearForeground(
                 [c EXCEPT !.outbox = Mark(@, Starts(c, op), "failed"),
                           !.phase[l] = IF @ = "running" THEN "ready" ELSE @])
          ELSE [c EXCEPT !.queue = RemoveFirst(@, FirstOf(@, {op}))]
    IN  Drive([dropped EXCEPT !.fate[op] = "withdrawn"], covered)

CanStop(c) == c.fg # NoOp /\ c.running /\ ~c.stopping
StopTurn(c) ==
    [c EXCEPT !.stopping = TRUE,
              !.outbox = Record(@, StopEffect(c.lane[c.fg], c.fg, Cardinality(Stops(c, c.fg)) + 1))]

\* The Stop that PendingCancel names is the last one of the foreground turn.
CurrentStop(c) == {i \in Stops(c, c.fg) : \A j \in Stops(c, c.fg) : j <= i}
StopAcknowledged(c) == [c EXCEPT !.outbox = Mark(@, CurrentStop(c), "accepted")]
StopFailed(c) == [c EXCEPT !.outbox = Mark(@, CurrentStop(c), "failed"), !.stopping = FALSE]

(***************************************************************************)
(* Settling the foreground.                                                *)
(***************************************************************************)
\* requeueInterruptedNotice: a notice nobody stopped goes back to the head of
\* the queue under the id of its next attempt, a bounded number of times.
NextAttempt(op) == <<op[1], op[2] + 1>>
\* (mutant) the next attempt waits behind everybody else.
RequeuedLast(c) ==
    IF /\ c.fg # NoOp /\ c.fg[1] \in Notices /\ ~c.stopping
       /\ c.fg[2] < RedeliveryLimit /\ c.lane[NextAttempt(c.fg)] = NoLane
    THEN [c EXCEPT !.lane[NextAttempt(c.fg)] = c.lane[c.fg],
                   !.queue = Append(@, NextAttempt(c.fg))]
    ELSE c
\* (mutant) the same operation waits again.
RequeuedItself(c) ==
    IF c.fg # NoOp /\ c.fg[1] \in Notices /\ ~c.stopping
    THEN [c EXCEPT !.queue = <<c.fg>> \o @] ELSE c
Requeued(c) ==
    IF /\ c.fg # NoOp /\ c.fg[1] \in Notices /\ ~c.stopping
       /\ ~(c.running /\ Stops(c, c.fg) # {})
       /\ c.fg[2] < RedeliveryLimit /\ c.lane[NextAttempt(c.fg)] = NoLane
    THEN [c EXCEPT !.lane[NextAttempt(c.fg)] = c.lane[c.fg],
                   !.queue = <<NextAttempt(c.fg)>> \o @]
    ELSE c

\* terminalizeInterruptedForeground: the turn of the foreground ends without a
\* terminal result of the provider.
Interrupted(c) ==
    LET l == c.lane[c.fg]
        live(i) == c.outbox[i].status \in {"pending", "dispatched"}
        box1 == Mark(c.outbox, {i \in Starts(c, c.fg) : live(i)}, "ambiguous")
        box2 == Mark(box1, {i \in DOMAIN c.outbox : c.outbox[i].kind = "resume"
                                          /\ c.outbox[i].lane = l /\ live(i)}, "failed")
        box3 == IF ~c.stopping THEN box2
                ELSE Mark(box2, {i \in CurrentStop(c) : c.outbox[i].status \in
                                   {"pending", "dispatched", "accepted", "consumed"}}, "ambiguous")
    IN  ClearForeground(
          [c EXCEPT !.outbox = box3, !.stopping = FALSE,
                    !.fate[c.fg] = IF c.consumed THEN "interrupted" ELSE "uncertain"])

\* The phase of a lane whose attachment is gone.
\* (mutant) the phase older builds left a lost lane in.
UnattachedBroken(c, l) == IF c.thread[l] = 0 THEN "absent" ELSE "broken"
Unattached(c, l) == IF c.thread[l] = 0 THEN "absent" ELSE "detached"

(***************************************************************************)
(* Receipts of the coordinator: opening a lane.                            *)
(***************************************************************************)
CanOpen(c, l, t) ==
    /\ c.phase[l] \in {"creating", "resuming"}
    /\ c.thread[l] \in {0, t} /\ c.cand[l] \in {0, t}
LaneOpened(c, l, g, t, covered) ==
    LET opened == [c EXCEPT !.thread[l] = t, !.cand[l] = 0, !.gen[l] = g, !.attached[l] = TRUE,
                            !.violated = @ \ {l}, !.phase[l] = "ready",
                            !.outbox = IF c.phase[l] = "creating"
                                       THEN Mark(@, Creates(c, l, c.cgen[l]), "completed")
                                       ELSE Mark(@, Resumes(c, l, g), "completed")]
    IN  IF FgLane(c) = l /\ ~c.running THEN [opened EXCEPT !.phase[l] = "running"]
        ELSE Drive(opened, covered)

\* previousAbsent: the provider proved that the earlier candidate is gone.
CanProvision(c, l, t, previousAbsent) ==
    /\ c.phase[l] = "creating" /\ c.thread[l] = 0
    /\ c.cand[l] \in {0, t} \/ previousAbsent
    /\ FgLane(c) \in {NoLane, l}
LaneProvisioned(c, l, g, t, previousAbsent) ==
    LET candidate == [c EXCEPT !.cand[l] = t, !.gen[l] = g, !.attached[l] = TRUE,
                               !.violated = @ \ {l},
                               !.outbox = Mark(@, Creates(c, l, c.cgen[l]), "completed")]
    IN  CASE c.fg # NoOp /\ previousAbsent ->
                 [candidate EXCEPT !.running = FALSE, !.consumed = FALSE,
                                   !.outbox = Mark(@, Starts(c, c.fg), "pending")]
          [] c.fg = NoOp /\ c.queue # <<>> /\ DriveTarget(c) = l ->
                 BeginForeground(candidate, l, "creating")
          [] OTHER -> candidate

\* settleWaitingTurnAfterLaneFailure: exactly one waiting input is refused,
\* the foreground that waits for this lane or the first queued one of the lane.
\* (mutant) only the queue is looked at.
SettleWaitingQueued(c, l) ==
    LET waiting == {op \in QueuedOps(c) : c.lane[op] = l}
        i == FirstOf(c.queue, waiting)
    IN  IF c.fg # NoOp \/ waiting = {} THEN c
        ELSE [c EXCEPT !.queue = RemoveFirst(@, i), !.fate[c.queue[i]] = "refused"]
SettleWaiting(c, l) ==
    LET waiting == {op \in QueuedOps(c) : c.lane[op] = l}
        i == FirstOf(c.queue, waiting)
    IN  CASE c.fg # NoOp /\ (c.lane[c.fg] # l \/ c.running) -> c
          [] c.fg # NoOp /\ c.lane[c.fg] = l /\ ~c.running ->
                 ClearForeground([c EXCEPT !.outbox = Mark(@, Starts(c, c.fg), "failed"),
                                           !.fate[c.fg] = "refused"])
          [] c.fg = NoOp /\ waiting = {} -> c
          [] OTHER -> [c EXCEPT !.queue = RemoveFirst(@, i), !.fate[c.queue[i]] = "refused"]

\* revertFailedProviderSwitch: a selection of a lane that never established
\* returns to the established active lane.
Reselected(c, l) ==
    IF /\ c.thread[l] = 0 /\ c.desired = l
       /\ c.active \in Lanes \ {l} /\ c.thread[c.active] # 0
    THEN [c EXCEPT !.desired = c.active] ELSE c

CanFailOpen(c, l) == c.phase[l] \in {"creating", "resuming"}
\* (mutant) a failed resume gives the thread up, for a fresh create.
LaneOpenFailedForgets(c, l, ambiguous) ==
    SettleWaiting([c EXCEPT !.phase[l] = "absent", !.thread[l] = 0,
                            !.outbox = Mark(@, Resumes(c, l, c.gen[l]), "failed")], l)
LaneOpenFailed(c, l, ambiguous) ==
    LET failed == [c EXCEPT
          !.phase[l] = IF c.thread[l] = 0 /\ c.cand[l] = 0 /\ ambiguous THEN "blocked"
                       ELSE Unattached(c, l),
          !.outbox = Mark(@, IF c.thread[l] = 0 THEN Creates(c, l, c.cgen[l])
                             ELSE Resumes(c, l, c.gen[l]),
                          IF ambiguous THEN "ambiguous" ELSE "failed")]
    IN  Reselected(SettleWaiting(failed, l), l)

(***************************************************************************)
(* Receipts of the coordinator: the turn of the foreground.                *)
(***************************************************************************)
\* (mutant) a lane without a thread runs like any other.
TurnAdmittedPlain(c) ==
    [c EXCEPT !.running = TRUE, !.phase[c.lane[c.fg]] = "running",
              !.outbox = Mark(@, Starts(c, c.fg), "accepted")]
\* (mutant) the adapter's acceptance counts as the provider's consumption.
TurnAdmittedConsumed(c) ==
    [c EXCEPT !.running = TRUE, !.consumed = TRUE,
              !.phase[c.lane[c.fg]] = IF c.cand[c.lane[c.fg]] # 0 THEN "creating" ELSE "running",
              !.outbox = Mark(@, Starts(c, c.fg), "consumed")]
TurnAdmitted(c) ==
    LET l == c.lane[c.fg] IN
    [c EXCEPT !.running = TRUE, !.phase[l] = IF c.cand[l] # 0 THEN "creating" ELSE "running",
              !.outbox = Mark(@, Starts(c, c.fg), "accepted")]

TurnAmbiguous(c) ==
    LET l == c.lane[c.fg] IN
    DriveQueued(Interrupted([c EXCEPT !.phase[l] = Unattached(c, l),
                                      !.outbox = Mark(@, Starts(c, c.fg), "ambiguous")]))

TurnRefused(c) ==
    LET l == c.lane[c.fg] IN
    DriveQueued(ClearForeground([c EXCEPT !.phase[l] = Unattached(c, l), !.fate[c.fg] = "refused",
                                          !.outbox = Mark(@, Starts(c, c.fg), "failed")]))

TurnDeferred(c, op) ==
    IF c.fg = op /\ ~c.running
    THEN [c EXCEPT !.outbox = Mark(@, {i \in Starts(c, op) : c.outbox[i].status = "dispatched"},
                                   "pending")]
    ELSE c

\* t: the thread a first receipt establishes, 0 when it carries none.
CanConsume(c, op, t) ==
    /\ c.fg = op
    /\ IF t # 0 THEN c.cand[c.lane[op]] = t /\ c.thread[c.lane[op]] = 0 ELSE c.cand[c.lane[op]] = 0
InputConsumed(c, t) ==
    LET l == c.lane[c.fg]
        owned == IF t = 0 THEN c
                 ELSE [c EXCEPT !.thread[l] = t, !.cand[l] = 0, !.phase[l] = "running"]
    IN  IF c.consumed THEN owned
        ELSE [owned EXCEPT !.consumed = TRUE, !.outbox = Mark(@, Starts(c, c.fg), "consumed")]

\* The terminal result of the turn.  interrupted: the daemon's own shutdown
\* ended it (StopReasonDaemonStopping).  On an established lane the terminal
\* stands for the receipt that did not come.
TurnTerminated(c, interrupted, covered) ==
    LET l == c.lane[c.fg]
        kept == IF interrupted THEN Requeued(c) ELSE c
        unreceipted == [Interrupted(kept) EXCEPT
                          !.phase[l] = "creating",
                          !.outbox = Mark(@, Starts(c, c.fg), "completed")]
        answered == ClearForeground(
          [InputConsumed(kept, 0) EXCEPT
             !.phase[l] = "ready", !.stopping = FALSE,
             !.fate[c.fg] = IF c.consumed THEN "answered" ELSE "presumed",
             !.outbox = Mark(IF c.stopping THEN Mark(@, CurrentStop(c), "completed") ELSE @,
                             Starts(c, c.fg), "completed")])
    IN  Drive(IF c.cand[l] # 0 /\ ~c.consumed THEN unreceipted ELSE answered, covered)

(***************************************************************************)
(* Losing the attachment of a lane.                                        *)
(***************************************************************************)
\* (mutant) the turn is sent again once the lane is back.
HostLostResends(c, l, g) ==
    LET gone == [c EXCEPT !.attached[l] = FALSE, !.gen[l] = @ + 1, !.phase[l] = Unattached(c, l)]
    IN  CASE g # c.gen[l] -> c
          [] g = c.gen[l] /\ FgLane(c) = l /\ c.thread[l] # 0 ->
                 OpenByResume([gone EXCEPT !.running = FALSE, !.consumed = FALSE, !.stopping = FALSE,
                                           !.outbox = Mark(@, Starts(c, c.fg), "pending")],
                              l, gone.gen[l])
          [] OTHER -> DriveQueued(gone)
\* A protocol failure has settled the foreground already, and the loss that
\* follows it only drives the queue.  With a foreground on the lane that would
\* be a chat Validate refuses, and nothing is committed.
HostLost(c, l, g) ==
    LET gone == [c EXCEPT !.attached[l] = FALSE, !.gen[l] = @ + 1,
                          !.phase[l] = IF c.cand[l] # 0 THEN "absent" ELSE Unattached(c, l)]
        neverSent == ~c.running /\ Has(c, Starts(c, c.fg), "pending")
        fresh == IF c.cgen[l] >= gone.gen[l] THEN c.cgen[l] + 1 ELSE gone.gen[l]
        cut == Interrupted(Requeued([gone EXCEPT
                                       !.outbox = Mark(@, Starts(c, c.fg), "ambiguous")]))
    IN  CASE g # c.gen[l] -> c
          [] g = c.gen[l] /\ FgLane(c) # l -> DriveQueued(gone)
          [] g = c.gen[l] /\ FgLane(c) = l /\ l \in c.violated -> c
          [] /\ g = c.gen[l] /\ FgLane(c) = l /\ l \notin c.violated
             /\ neverSent /\ c.cand[l] # 0 ->
                 [OpenByCreate(gone, l, fresh, TRUE) EXCEPT !.gen[l] = fresh]
          [] /\ g = c.gen[l] /\ FgLane(c) = l /\ l \notin c.violated
             /\ neverSent /\ c.cand[l] = 0 /\ c.thread[l] # 0 ->
                 OpenByResume(gone, l, gone.gen[l])
          [] OTHER -> DriveQueued(cut)

\* (mutant) a lane that broke its protocol starts over with a fresh thread.
LaneProtocolFailedForgets(c, l, g) ==
    LET gone == [c EXCEPT !.attached[l] = FALSE, !.phase[l] = "absent", !.thread[l] = 0]
    IN  CASE g # c.gen[l] -> c
          [] g = c.gen[l] /\ FgLane(c) # l -> DriveQueued(gone)
          [] OTHER -> DriveQueued(Interrupted(gone))
Violated(c, l) == [c EXCEPT !.attached[l] = FALSE, !.phase[l] = Unattached(c, l),
                            !.violated = @ \union {l}]
LaneProtocolFailed(c, l, g) ==
    LET gone == Violated(c, l)
    IN  CASE g # c.gen[l] -> c
          [] g = c.gen[l] /\ FgLane(c) # l -> DriveQueued(gone)
          [] OTHER -> DriveQueued(Interrupted([gone EXCEPT
                                    !.outbox = Mark(@, Starts(c, c.fg), "ambiguous")]))

\* The transport health event of an adapter that could not report something:
\* the same failure, committed while the attachment is still up.  Nothing is
\* driven unless it ends a turn.
LaneUnhealthy(c, l) ==
    LET undone == {i \in Starts(c, c.fg) : c.outbox[i].status \notin {"completed", "failed"}}
    IN  IF FgLane(c) # l THEN Violated(c, l)
        ELSE DriveQueued(Interrupted([Violated(c, l) EXCEPT !.outbox = Mark(@, undone, "ambiguous")]))

(***************************************************************************)
(* RecoverOutbox: what a restarted daemon makes of the stored chat.        *)
(***************************************************************************)
RecoveredEntry(c, e) ==
    CASE e.kind = "create" /\ e.status \in {"dispatched", "accepted", "consumed"} ->
             IF c.thread[e.lane] # 0 THEN [e EXCEPT !.status = "completed", !.recon = FALSE]
             ELSE [e EXCEPT !.status = "pending", !.recon = TRUE]
      [] e.kind = "resume" /\ e.status = "dispatched" -> [e EXCEPT !.status = "failed"]
      [] \/ e.kind = "resume" /\ e.status \in {"accepted", "consumed"}
         \/ e.kind \in {"start", "stop"} /\ e.status \in {"dispatched", "accepted", "consumed"} ->
             [e EXCEPT !.status = "ambiguous"]
      [] OTHER -> e

\* retireRestartedForeground: only an input whose start was never dispatched
\* stays in the foreground.
Retires(c) == c.fg # NoOp /\ ~(~c.running /\ Has(c, Starts(c, c.fg), "pending"))
RetiredForeground(c) ==
    LET l == c.lane[c.fg] IN
    IF Retires(c)
    THEN Interrupted(Requeued([c EXCEPT !.phase[l] = IF c.cand[l] # 0 THEN "absent"
                                                     ELSE Unattached(c, l)]))
    ELSE c

\* The lane pass.  Waits: an input still needs the lane, so a candidate is
\* verified again or, for the foreground, an exact thread is resumed.
FgWaits(c, l) == FgLane(c) = l /\ ~c.running
Reverified(c, l) ==
    /\ c.cand[l] # 0 /\ ~PendingOpen(c, l, "create")
    /\ FgWaits(c, l) \/ \E op \in QueuedOps(c) : c.lane[op] = l
\* (mutant) no resume is recorded for the lane of the waiting foreground.
ReresumedNever(c, l) == FALSE
Reresumed(c, l) ==
    /\ c.cand[l] = 0 /\ c.thread[l] # 0 /\ c.phase[l] # "creating" /\ FgWaits(c, l)
    /\ ~PendingOpen(c, l, "create") /\ ~PendingOpen(c, l, "resume")

RecoveredCgen(c, l) ==
    IF Reverified(c, l) THEN IF c.cgen[l] + 1 <= c.gen[l] THEN c.gen[l] + 1 ELSE c.cgen[l] + 1
    ELSE c.cgen[l]
RecoveredGen(c, l) ==
    CASE Reverified(c, l) -> RecoveredCgen(c, l)
      [] Reresumed(c, l) -> c.gen[l] + 1
      [] OTHER -> c.gen[l]
\* (mutant) the lane of the waiting foreground is detached like the others.
RecoveredPhaseDetached(c, l) ==
    CASE c.phase[l] = "unselected" -> "unselected"
      [] c.phase[l] # "unselected" /\ c.thread[l] = 0 ->
             IF PendingOpen(c, l, "create") \/ Reverified(c, l) THEN "creating" ELSE "absent"
      [] OTHER -> IF PendingOpen(c, l, "resume") THEN "resuming" ELSE "detached"
RecoveredPhase(c, l) ==
    CASE c.phase[l] = "unselected" -> "unselected"
      [] c.phase[l] # "unselected" /\ PendingOpen(c, l, "create") -> "creating"
      [] c.phase[l] # "unselected" /\ ~PendingOpen(c, l, "create") /\ c.thread[l] = 0 ->
             IF Reverified(c, l) THEN "creating" ELSE "absent"
      [] OTHER ->
             IF PendingOpen(c, l, "resume") \/ FgWaits(c, l) THEN "resuming" ELSE "detached"

\* New effects of the lane pass, in some order of the lanes (a Go map is walked).
RecoveryEffect(c, l) ==
    IF Reverified(c, l) THEN CreateEffect(l, RecoveredCgen(c, l), TRUE)
    ELSE ResumeEffect(l, RecoveredGen(c, l))
NeedsEffect(c) == {l \in Lanes : Reverified(c, l) \/ Reresumed(c, l)}
Orders(S) == {f \in [1 .. Cardinality(S) -> S] : \A i, j \in DOMAIN f : f[i] = f[j] => i = j}

\* (mutant) the interrupted foreground is dispatched again.
RereadResends(c) ==
    [c EXCEPT !.running = FALSE, !.consumed = FALSE, !.stopping = FALSE,
              !.outbox = [i \in DOMAIN @ |-> IF i \in Starts(c, c.fg)
                              THEN [@[i] EXCEPT !.status = "pending"] ELSE RecoveredEntry(c, @[i])]]
Reread(c) == RetiredForeground(
    [c EXCEPT !.outbox = [i \in DOMAIN @ |-> RecoveredEntry(c, c.outbox[i])]])

\* order lists NeedsEffect(Reread(c)).
RecoverOutbox(c, order) ==
    LET mid  == Reread(c)
        back == [mid EXCEPT !.phase  = [l \in Lanes |-> RecoveredPhase(mid, l)],
                            !.cgen   = [l \in Lanes |-> RecoveredCgen(mid, l)],
                            !.gen    = [l \in Lanes |-> RecoveredGen(mid, l)],
                            !.outbox = @ \o [i \in DOMAIN order |-> RecoveryEffect(mid, order[i])]]
    IN  IF c.fg # NoOp /\ mid.fg = NoOp THEN DriveQueued(back) ELSE back

(***************************************************************************)
(* What the engine may claim (outboxEntryExecutable), and the part of      *)
(* State.Validate that every command must leave true.                      *)
(***************************************************************************)
Executable(c, e) ==
    LET l == e.lane IN
    /\ e.status = "pending"
    /\ CASE e.kind = "create" -> c.phase[l] = "creating"
         [] e.kind = "resume" -> c.phase[l] = "resuming"
         [] e.kind = "start" ->
                /\ \/ c.phase[l] = "running"
                   \/ c.phase[l] = "creating" /\ c.cand[l] # 0
                /\ c.cand[l] = 0 \/ c.attached[l]
                /\ c.fg = e.op /\ ~c.running
         [] OTHER -> c.stopping /\ c.fg = e.op

Valid(c) ==
    /\ \A l \in Lanes :
         /\ c.thread[l] # 0 => c.phase[l] # "creating" /\ c.cand[l] = 0
         /\ c.cand[l] # 0 => l \in Deferred /\ c.phase[l] \in {"absent", "creating", "blocked"}
    /\ c.fg # NoOp =>
         LET l == c.lane[c.fg] IN
         \/ c.phase[l] = "running"
         \/ c.phase[l] = "creating" /\ c.cand[l] # 0
         \/ c.phase[l] = "resuming" /\ ~c.running
    /\ c.stopping => c.fg # NoOp
=============================================================================
