--------------------------- MODULE ChatOwnerProofs ---------------------------
(***************************************************************************)
(* Where an input is: waiting in the FIFO, in the foreground, or settled.  *)
(* Whatever a command of the reducer does to lanes and outbox, it moves    *)
(* inputs in one of a few ways, and each of them keeps every accepted      *)
(* input in exactly one place.                                             *)
(***************************************************************************)
EXTENDS ChatActorProofs

(***************************************************************************)
(* The moves.                                                              *)
(***************************************************************************)
\* No input moves.
Stays(c, d) == d.queue = c.queue /\ d.fg = c.fg /\ d.lane = c.lane /\ d.fate = c.fate
Same(c, d)  == Stays(c, d) /\ d.running = c.running /\ d.consumed = c.consumed

\* The head of the queue becomes the free foreground.
Begins(c, d) ==
    /\ c.fg = NoOp /\ c.queue # <<>>
    /\ d.fg = Head(c.queue) /\ d.queue = Tail(c.queue)
    /\ d.lane = c.lane /\ d.fate = c.fate /\ ~d.running /\ ~d.consumed
Drives(c, d) == Same(c, d) \/ Begins(c, d)

\* The foreground is settled.
Ends(c, d, f) ==
    /\ c.fg # NoOp /\ d.fg = NoOp /\ d.fate = [c.fate EXCEPT ![c.fg] = f]
    /\ d.queue = c.queue /\ d.lane = c.lane /\ ~d.running /\ ~d.consumed
Settles(c, d, f) == \E m : Ends(c, m, f) /\ Drives(m, d)

\* The next attempt of a notice goes to the head of the queue, and then its
\* last attempt is settled.
Returns(c, d) ==
    LET next == NextAttempt(c.fg) IN
    /\ c.fg # NoOp /\ c.fg[1] \in Notices /\ c.fg[2] < RedeliveryLimit /\ c.lane[next] = NoLane
    /\ d.lane = [c.lane EXCEPT ![next] = c.lane[c.fg]] /\ d.queue = <<next>> \o c.queue
    /\ d.fg = c.fg /\ d.fate = c.fate /\ d.running = c.running /\ d.consumed = c.consumed
SettlesReturning(c, d, f) == \E m : Returns(c, m) /\ Settles(m, d, f)

\* The i-th waiting input is settled without ever running.
Drops(c, d, i, f) ==
    /\ i \in 1 .. Len(c.queue)
    /\ d.queue = RemoveFirst(c.queue, i) /\ d.fate = [c.fate EXCEPT ![c.queue[i]] = f]
    /\ d.fg = c.fg /\ d.lane = c.lane /\ d.running = c.running /\ d.consumed = c.consumed
SettlesWaiting(c, d, f) == \E m, i : Drops(c, m, i, f) /\ Drives(m, d)

\* A new operation joins the queue.
Joins(c, d, op, l) ==
    /\ c.lane[op] = NoLane
    /\ d.lane = [c.lane EXCEPT ![op] = l] /\ d.queue = Append(c.queue, op)
    /\ d.fg = c.fg /\ d.fate = c.fate /\ d.running = c.running /\ d.consumed = c.consumed
Accepts(c, d, op, l) == \E m : Joins(c, m, op, l) /\ Drives(m, d)

(***************************************************************************)
(* How each command moves inputs.                                          *)
(***************************************************************************)
\* drive starts the head of the queue or moves nothing.
LEMMA DriveMoves ==
    ASSUME NEW c \in Placed, NEW covered
    PROVE  Drives(c, Drive(c, covered))
<1>1. c \in Chat
  BY DEF Placed
<1>2. \A l, g, r : Same(c, OpenByCreate(c, l, g, r)) /\ Same(c, OpenByResume(c, l, g))
  BY <1>1 DEF OpenByCreate, OpenByResume, Same, Stays, Chat
<1>3. \A l, phase : c.fg = NoOp /\ c.queue # <<>> => Begins(c, BeginForeground(c, l, phase))
  BY <1>1 DEF BeginForeground, Begins, Chat
<1>4. \A l : Same(c, [c EXCEPT !.active = l]) /\ Same(c, c)
  BY <1>1 DEF Same, Stays, Chat
<1>5. ASSUME NEW l, c.fg = NoOp
      PROVE  Drives(c, DriveLane(c, l, covered))
  <2>. HIDE DEF Placed
  <2>. QED  BY <1>2, <1>3, <1>4, <1>5 DEF DriveLane, Drives
<1>. QED  BY <1>4, <1>5 DEF Drive, Drives

\* So does driveQueued.
LEMMA DriveQueuedMoves ==
    ASSUME NEW c \in Placed
    PROVE  Drives(c, DriveQueued(c))
BY DriveMoves DEF DriveQueued, Drives, Same, Stays

\* A move, then a drive.
LEMMA SettlesDriven ==
    ASSUME NEW c, NEW f, NEW m \in Placed, Ends(c, m, f)
    PROVE  /\ Settles(c, DriveQueued(m), f)
           /\ \A covered : Settles(c, Drive(m, covered), f)
           /\ Settles(c, m, f)
BY DriveMoves, DriveQueuedMoves DEF Settles, Drives, Same, Stays

\* Changes of other fields before or after a move.
LEMMA SameMoves ==
    ASSUME NEW c, NEW d, NEW e, NEW f
    PROVE  /\ Same(c, d) /\ Drives(d, e) => Drives(c, e)
           /\ Same(c, d) /\ Ends(d, e, f) => Ends(c, e, f)
           /\ Ends(c, d, f) /\ Same(d, e) => Ends(c, e, f)
           /\ Same(c, d) /\ Returns(d, e) => Returns(c, e)
           /\ Same(c, d) /\ Same(d, e) => Same(c, e)
           /\ Same(c, c)
BY DEF Same, Stays, Drives, Begins, Ends, Returns

\* SelectLane.
LEMMA SelectLaneMoves ==
    ASSUME NEW c \in Placed, NEW l \in Lanes, NEW covered \in BOOLEAN
    PROVE  Drives(c, SelectLane(c, l, covered))
<1>. DEFINE revived == IF c.phase[l] = "unselected" \/ (c.phase[l] = "blocked" /\ c.cand[l] = 0)
                       THEN [c EXCEPT !.phase[l] = "absent"] ELSE c
            chosen  == [revived EXCEPT !.desired = l]
<1>1. c \in Chat
  BY DEF Placed
<1>2. chosen \in Chat /\ Same(c, chosen)
  BY <1>1 DEF Chat, Phases, Same, Stays
<1>3. SelectLane(c, l, covered) = IF c.fg # NoOp THEN chosen ELSE Drive(chosen, covered)
  BY DEF SelectLane
<1>. HIDE DEF chosen
<1>4. chosen \in Placed
  BY <1>2, Frame DEF Same, Stays
<1>. QED  BY <1>2, <1>3, <1>4, DriveMoves, SameMoves DEF Drives

\* Submit reserves the operation and appends it.
LEMMA SubmitMoves ==
    ASSUME NEW c \in Placed, NEW op \in Ops, NEW l \in Lanes, NEW covered \in BOOLEAN,
           CanSubmit(c, op, l)
    PROVE  Accepts(c, Submit(c, op, l, covered), op, l)
<1>. DEFINE revived == IF c.phase[l] = "blocked" THEN [c EXCEPT !.phase[l] = "absent"] ELSE c
            next == [revived EXCEPT !.lane[op] = l, !.queue = Append(@, op)]
<1>1. c \in Chat /\ c.queue \in Seq(Ops)
  BY DEF Placed, Chat
<1>2. Append(c.queue, op) \in Seq(Ops)
  BY <1>1
<1>3. next \in Chat /\ Joins(c, next, op, l)
  BY <1>1, <1>2 DEF Chat, Phases, Joins, CanSubmit
<1>4. next \in Placed
  <2>. HIDE DEF next
  <2>1. \A o \in Ops : c.lane[o] \in Lanes \/ o = op => next.lane[o] \in Lanes
    BY <1>1, <1>3 DEF Chat, Joins
  <2>2. \A i \in 1 .. Len(next.queue) : next.lane[next.queue[i]] \in Lanes
    <3>. TAKE i \in 1 .. Len(next.queue)
    <3>1. next.queue = Append(c.queue, op) /\ Len(next.queue) = Len(c.queue) + 1
      BY <1>1, <1>3 DEF Joins
    <3>2. CASE i \in 1 .. Len(c.queue)
      <4>1. next.queue[i] = c.queue[i] /\ c.queue[i] \in Ops
        BY <1>1, <3>1, <3>2
      <4>. QED  BY <2>1, <4>1, <3>2 DEF Placed
    <3>3. CASE i = Len(c.queue) + 1
      BY <1>1, <2>1, <3>1, <3>3
    <3>. QED  BY <1>1, <3>1, <3>2, <3>3
  <2>3. next.fg # NoOp => next.lane[next.fg] \in Lanes
    BY <1>1, <1>3, <2>1 DEF Placed, Chat, Joins
  <2>. QED  BY <1>3, <2>2, <2>3 DEF Placed
<1>5. Submit(c, op, l, covered) = Drive(next, covered)
  BY DEF Submit
<1>. QED  BY <1>3, <1>4, <1>5, DriveMoves DEF Accepts

\* The foreground of c is gone, and nothing else of its inputs.
Cleared(c, d) == /\ d.queue = c.queue /\ d.lane = c.lane /\ d.fate = c.fate
                 /\ d.fg = NoOp /\ ~d.running /\ ~d.consumed

\* Clearing the foreground.
LEMMA ClearMoves ==
    ASSUME NEW c \in Chat
    PROVE  Cleared(c, ClearForeground(c))
BY DEF Cleared, ClearForeground, Chat

\* A cleared foreground is settled with the fate recorded before.
LEMMA ClearEnds ==
    ASSUME NEW c, NEW d \in Chat, NEW f, c.fg # NoOp, d.queue = c.queue,
           d.lane = c.lane, d.fate = [c.fate EXCEPT ![c.fg] = f]
    PROVE  Ends(c, ClearForeground(d), f)
BY ClearMoves DEF Ends, Cleared

\* Withdraw settles the unadmitted foreground or a waiting input.
LEMMA WithdrawMoves ==
    ASSUME NEW c \in Placed, NEW op \in Ops, CanWithdraw(c, op), NEW covered \in BOOLEAN,
           c.fg \notin QueuedOps(c)
    PROVE  \/ ~c.running /\ Settles(c, Withdraw(c, op, covered), "withdrawn")
           \/ SettlesWaiting(c, Withdraw(c, op, covered), "withdrawn")
<1>. DEFINE l == c.lane[op]
            box == Mark(c.outbox, Starts(c, op), "failed")
            unbegun == [c EXCEPT !.outbox = box,
                                 !.phase[l] = IF @ = "running" THEN "ready" ELSE @]
            first == FirstOf(c.queue, {op})
            rest == [c EXCEPT !.queue = RemoveFirst(c.queue, first)]
            dropped == IF c.fg = op THEN ClearForeground(unbegun) ELSE rest
            settled == [dropped EXCEPT !.fate[op] = "withdrawn"]
<1>1. c \in Chat /\ c.queue \in Seq(Ops) /\ op # NoOp /\ "withdrawn" \in Fates
  BY NoOpIsNoOp DEF Placed, Chat, Fates
<1>2. Withdraw(c, op, covered) = Drive(settled, covered)
  BY DEF Withdraw
<1>3. box \in Seq(Entry)
  BY <1>1, MarkType DEF Chat, Statuses
<1>4. ASSUME c.fg = op
      PROVE  settled \in Placed /\ ~c.running /\ Ends(c, settled, "withdrawn")
  <2>1. l \in Lanes
    BY <1>1, <1>4 DEF Placed
  <2>. HIDE DEF box, l
  <2>2. /\ unbegun \in Chat /\ Same(c, unbegun)
    BY <1>1, <1>3, <2>1 DEF Chat, Phases, Same, Stays
  <2>. HIDE DEF unbegun
  <2>3. unbegun \in Placed
    BY <2>2, Frame DEF Same, Stays
  <2>4. dropped = ClearForeground(unbegun)
    BY <1>4
  <2>. HIDE DEF dropped
  <2>5. dropped \in Placed /\ Cleared(c, dropped)
    BY <2>2, <2>3, <2>4, ClearPlaced, ClearMoves DEF Cleared, Same, Stays
  <2>6. settled \in Placed
    BY <1>1, <2>5, FatePlaced
  <2>7. Ends(c, settled, "withdrawn")
    BY <1>1, <1>4, <2>5 DEF Ends, Cleared, Placed, Chat
  <2>. QED  BY <1>4, <2>6, <2>7 DEF CanWithdraw
<1>5. ASSUME c.fg # op
      PROVE  settled \in Placed /\ Drops(c, settled, first, "withdrawn")
  <2>1. first \in 1 .. Len(c.queue) /\ c.queue[first] = op
    BY <1>1, <1>5, FirstOfIn DEF CanWithdraw, QueuedOps
  <2>. HIDE DEF first
  <2>2. rest \in Placed
    BY <2>1, RemovePlaced
  <2>3. /\ rest.queue = RemoveFirst(c.queue, first) /\ rest.fg = c.fg /\ rest.lane = c.lane
        /\ rest.fate = c.fate /\ rest.running = c.running /\ rest.consumed = c.consumed
    BY <1>1 DEF Chat
  <2>. HIDE DEF rest
  <2>4. settled = [rest EXCEPT !.fate[op] = "withdrawn"]
    BY <1>5
  <2>5. settled \in Placed
    BY <1>1, <2>2, <2>4, FatePlaced
  <2>. HIDE DEF settled, dropped
  <2>6. /\ settled.queue = rest.queue /\ settled.fg = rest.fg /\ settled.lane = rest.lane
        /\ settled.running = rest.running /\ settled.consumed = rest.consumed
        /\ settled.fate = [rest.fate EXCEPT ![op] = "withdrawn"]
    BY <2>2, <2>4 DEF Placed, Chat
  <2>. QED  BY <2>1, <2>3, <2>5, <2>6 DEF Drops
<1>. HIDE DEF settled, first, dropped
<1>6. Drives(settled, Drive(settled, covered))
  BY <1>4, <1>5, DriveMoves
<1>. QED  BY <1>2, <1>4, <1>5, <1>6 DEF Settles, SettlesWaiting

\* The Stop of a turn moves no input.
LEMMA StopMoves ==
    ASSUME NEW c \in Placed
    PROVE  Same(c, StopTurn(c)) /\ Same(c, StopAcknowledged(c)) /\ Same(c, StopFailed(c))
BY DEF StopTurn, StopAcknowledged, StopFailed, Same, Stays, Placed, Chat

\* requeueInterruptedNotice lets the next attempt return or does nothing.
LEMMA RequeuedMoves ==
    ASSUME NEW c \in Placed
    PROVE  Same(c, Requeued(c)) \/ Returns(c, Requeued(c))
BY DEF Requeued, Same, Stays, Returns, Placed, Chat

\* What the ledger says of a turn that was cut.
CutFate(c) == IF c.consumed THEN "interrupted" ELSE "uncertain"

\* terminalizeInterruptedForeground.
LEMMA InterruptedMoves ==
    ASSUME NEW c \in Placed, c.fg # NoOp
    PROVE  Ends(c, Interrupted(c), CutFate(c))
<1>. DEFINE l == c.lane[c.fg]
            live(i) == c.outbox[i].status \in {"pending", "dispatched"}
            box1 == Mark(c.outbox, {i \in Starts(c, c.fg) : live(i)}, "ambiguous")
            box2 == Mark(box1, {i \in DOMAIN c.outbox : c.outbox[i].kind = "resume"
                                              /\ c.outbox[i].lane = l /\ live(i)}, "failed")
            box3 == IF ~c.stopping THEN box2
                    ELSE Mark(box2, {i \in CurrentStop(c) : c.outbox[i].status \in
                                   {"pending", "dispatched", "accepted", "consumed"}}, "ambiguous")
            cut == [c EXCEPT !.outbox = box3, !.stopping = FALSE,
                             !.fate[c.fg] = IF c.consumed THEN "interrupted" ELSE "uncertain"]
<1>1. c \in Chat /\ {"ambiguous", "failed"} \subseteq Statuses
  BY DEF Placed, Statuses
<1>2. box1 \in Seq(Entry)
  BY <1>1, MarkType DEF Chat
<1>. HIDE DEF box1
<1>3. box2 \in Seq(Entry)
  BY <1>1, <1>2, MarkType
<1>. HIDE DEF box2
<1>4. box3 \in Seq(Entry)
  BY <1>1, <1>3, MarkType
<1>5. Interrupted(c) = ClearForeground(cut)
  BY DEF Interrupted, box1, box2
<1>. HIDE DEF box3
<1>6. /\ cut \in Chat /\ cut.queue = c.queue /\ cut.lane = c.lane
      /\ cut.fate = [c.fate EXCEPT ![c.fg] = CutFate(c)]
  BY <1>1, <1>4 DEF Chat, Fates, CutFate
<1>. HIDE DEF cut
<1>. QED  BY <1>5, <1>6, ClearEnds

\* The same after changes of other fields, and then a drive.
LEMMA InterruptedSettles ==
    ASSUME NEW c \in Placed, NEW d \in Placed, c.fg # NoOp, Same(c, d)
    PROVE  Settles(c, DriveQueued(Interrupted(d)), CutFate(c))
<1>1. Ends(d, Interrupted(d), CutFate(c))
  BY InterruptedMoves DEF Same, Stays, CutFate
<1>2. Ends(c, Interrupted(d), CutFate(c))
  BY <1>1, SameMoves
<1>. QED  BY <1>2, InterruptedPlaced, SettlesDriven

\* LaneOpened.
LEMMA LaneOpenedMoves ==
    ASSUME NEW c \in Placed, NEW l \in Lanes, NEW g \in Nat, NEW t \in Nat,
           NEW covered \in BOOLEAN
    PROVE  Drives(c, LaneOpened(c, l, g, t, covered))
<1>. DEFINE box == IF c.phase[l] = "creating" THEN Mark(c.outbox, Creates(c, l, c.cgen[l]), "completed")
                   ELSE Mark(c.outbox, Resumes(c, l, g), "completed")
            opened == [c EXCEPT !.thread[l] = t, !.cand[l] = 0, !.gen[l] = g, !.attached[l] = TRUE,
                                !.violated = @ \ {l}, !.phase[l] = "ready", !.outbox = box]
            running == [opened EXCEPT !.phase[l] = "running"]
<1>1. c \in Chat /\ box \in Seq(Entry)
  BY MarkType DEF Placed, Chat, Statuses
<1>2. LaneOpened(c, l, g, t, covered) =
        IF FgLane(c) = l /\ ~c.running THEN running ELSE Drive(opened, covered)
  BY DEF LaneOpened
<1>. HIDE DEF box
<1>3. opened \in Chat /\ Same(c, opened)
  BY <1>1 DEF Chat, Phases, Same, Stays
<1>. HIDE DEF opened
<1>4. Same(opened, running)
  BY <1>3 DEF Chat, Same, Stays
<1>. HIDE DEF running
<1>5. opened \in Placed
  BY <1>3, Frame DEF Same, Stays
<1>. QED  BY <1>2, <1>3, <1>4, <1>5, DriveMoves, SameMoves DEF Drives

\* LaneProvisioned sends the foreground of a lane whose earlier candidate is
\* gone again, starts the head of the queue, or moves nothing.
Replays(c, d) == Stays(c, d) /\ c.fg # NoOp /\ ~d.running /\ ~d.consumed

\* LaneProvisioned.
LEMMA LaneProvisionedMoves ==
    ASSUME NEW c \in Placed, NEW l \in Lanes, NEW g \in Nat, NEW t \in Nat, NEW absent \in BOOLEAN
    PROVE  \/ Drives(c, LaneProvisioned(c, l, g, t, absent))
           \/ absent /\ Replays(c, LaneProvisioned(c, l, g, t, absent))
<1>. DEFINE box == Mark(c.outbox, Creates(c, l, c.cgen[l]), "completed")
            candidate == [c EXCEPT !.cand[l] = t, !.gen[l] = g, !.attached[l] = TRUE,
                                   !.violated = @ \ {l}, !.outbox = box]
            again == [candidate EXCEPT !.running = FALSE, !.consumed = FALSE,
                                       !.outbox = Mark(@, Starts(c, c.fg), "pending")]
            begun == BeginForeground(candidate, l, "creating")
<1>1. c \in Chat /\ box \in Seq(Entry)
  BY MarkType DEF Placed, Chat, Statuses
<1>2. \/ LaneProvisioned(c, l, g, t, absent) = candidate
      \/ c.fg # NoOp /\ absent /\ LaneProvisioned(c, l, g, t, absent) = again
      \/ c.fg = NoOp /\ c.queue # <<>> /\ LaneProvisioned(c, l, g, t, absent) = begun
  BY DEF LaneProvisioned
<1>. HIDE DEF box
<1>3. candidate \in Chat /\ Same(c, candidate)
  BY <1>1 DEF Chat, Phases, Same, Stays
<1>. HIDE DEF candidate
<1>4. c.fg # NoOp => Replays(c, again)
  BY <1>3 DEF Chat, Same, Stays, Replays
<1>5. c.fg = NoOp /\ c.queue # <<>> => Begins(c, begun)
  BY <1>3 DEF Chat, Same, Stays, Begins, BeginForeground
<1>. HIDE DEF again, begun
<1>. QED  BY <1>2, <1>3, <1>4, <1>5 DEF Drives

\* settleWaitingTurnAfterLaneFailure refuses the waiting foreground of the
\* lane or its first queued input, or moves nothing.
Refuses(c, d) ==
    \/ Same(c, d)
    \/ ~c.running /\ Ends(c, d, "refused")
    \/ \E i : Drops(c, d, i, "refused")

\* SettleWaiting.
LEMMA SettleWaitingMoves ==
    ASSUME NEW c \in Placed, NEW l \in Lanes
    PROVE  Refuses(c, SettleWaiting(c, l))
<1>. DEFINE waiting == {op \in QueuedOps(c) : c.lane[op] = l}
            first == FirstOf(c.queue, waiting)
            box == Mark(c.outbox, Starts(c, c.fg), "failed")
            refused == [c EXCEPT !.outbox = box, !.fate[c.fg] = "refused"]
            passed == [c EXCEPT !.queue = RemoveFirst(@, first), !.fate[c.queue[first]] = "refused"]
<1>1. c \in Chat /\ c.queue \in Seq(Ops) /\ box \in Seq(Entry)
  BY MarkType DEF Placed, Chat, Statuses
<1>2. \/ SettleWaiting(c, l) = c
      \/ c.fg # NoOp /\ ~c.running /\ SettleWaiting(c, l) = ClearForeground(refused)
      \/ waiting # {} /\ SettleWaiting(c, l) = passed
  BY DEF SettleWaiting
<1>3. c.fg # NoOp => Ends(c, ClearForeground(refused), "refused")
  <2>. HIDE DEF box
  <2>1. /\ refused \in Chat /\ refused.queue = c.queue /\ refused.lane = c.lane
        /\ refused.fate = [c.fate EXCEPT ![c.fg] = "refused"]
    BY <1>1 DEF Chat, Fates
  <2>. HIDE DEF refused
  <2>. QED  BY <2>1, ClearEnds
<1>4. waiting # {} => Drops(c, passed, first, "refused")
  <2>1. waiting # {} => first \in 1 .. Len(c.queue)
    BY <1>1, FirstOfIn DEF QueuedOps
  <2>. HIDE DEF first, waiting
  <2>. QED  BY <1>1, <2>1 DEF Drops, Chat
<1>. HIDE DEF refused, passed, waiting, first
<1>. QED  BY <1>2, <1>3, <1>4, SameMoves DEF Refuses

\* LaneOpenFailed.
LEMMA LaneOpenFailedMoves ==
    ASSUME NEW c \in Placed, NEW l \in Lanes, NEW ambiguous \in BOOLEAN
    PROVE  Refuses(c, LaneOpenFailed(c, l, ambiguous))
<1>. DEFINE box == Mark(c.outbox, IF c.thread[l] = 0 THEN Creates(c, l, c.cgen[l])
                                  ELSE Resumes(c, l, c.gen[l]),
                        IF ambiguous THEN "ambiguous" ELSE "failed")
            phase == IF c.thread[l] = 0 /\ c.cand[l] = 0 /\ ambiguous THEN "blocked"
                     ELSE Unattached(c, l)
            failed == [c EXCEPT !.phase[l] = phase, !.outbox = box]
            settled == SettleWaiting(failed, l)
<1>1. c \in Chat /\ box \in Seq(Entry) /\ phase \in Phases
  BY MarkType, UnattachedType DEF Placed, Chat, Statuses, Phases
<1>2. LaneOpenFailed(c, l, ambiguous) = Reselected(settled, l)
  BY DEF LaneOpenFailed
<1>. HIDE DEF box, phase
<1>3. failed \in Chat /\ Same(c, failed)
  BY <1>1 DEF Chat, Same, Stays
<1>. HIDE DEF failed
<1>4. failed \in Placed
  BY <1>3, Frame DEF Same, Stays
<1>5. Refuses(c, settled)
  <2>1. Refuses(failed, settled)
    BY <1>4, SettleWaitingMoves
  <2>. HIDE DEF settled
  <2>. QED  BY <1>3, <2>1 DEF Refuses, Same, Stays, Ends, Drops
<1>6. settled \in Chat
  BY <1>4, SettleWaitingPlaced DEF Placed
<1>. HIDE DEF settled
<1>7. Same(settled, Reselected(settled, l))
  BY <1>6 DEF Reselected, Chat, Same, Stays
<1>. QED  BY <1>2, <1>5, <1>7 DEF Refuses, Same, Stays, Ends, Drops

\* TurnAdmitted only says that the foreground runs.
Admits(c, d) == Stays(c, d) /\ d.running /\ d.consumed = c.consumed

\* TurnAdmitted.
LEMMA TurnAdmittedMoves ==
    ASSUME NEW c \in Placed
    PROVE  Admits(c, TurnAdmitted(c))
BY DEF TurnAdmitted, Admits, Stays, Placed, Chat

\* TurnAdmissionFailed of an ambiguous start.
LEMMA TurnAmbiguousMoves ==
    ASSUME NEW c \in Placed, c.fg # NoOp
    PROVE  Settles(c, TurnAmbiguous(c), CutFate(c))
<1>. DEFINE l == c.lane[c.fg]
            box == Mark(c.outbox, Starts(c, c.fg), "ambiguous")
            d == [c EXCEPT !.phase[l] = Unattached(c, l), !.outbox = box]
<1>1. c \in Chat /\ box \in Seq(Entry) /\ Unattached(c, l) \in Phases
  BY MarkType, UnattachedType DEF Placed, Chat, Statuses
<1>2. TurnAmbiguous(c) = DriveQueued(Interrupted(d))
  BY DEF TurnAmbiguous
<1>. HIDE DEF box, l
<1>3. d \in Chat /\ Same(c, d)
  BY <1>1 DEF Chat, Same, Stays
<1>. HIDE DEF d
<1>4. d \in Placed
  BY <1>3, Frame DEF Same, Stays
<1>. QED  BY <1>2, <1>3, <1>4, InterruptedSettles

\* TurnAdmissionFailed of a refused start.
LEMMA TurnRefusedMoves ==
    ASSUME NEW c \in Placed, c.fg # NoOp
    PROVE  Settles(c, TurnRefused(c), "refused")
<1>. DEFINE l == c.lane[c.fg]
            box == Mark(c.outbox, Starts(c, c.fg), "failed")
            d == [c EXCEPT !.phase[l] = Unattached(c, l), !.fate[c.fg] = "refused", !.outbox = box]
<1>1. c \in Chat /\ box \in Seq(Entry) /\ Unattached(c, l) \in Phases
  BY MarkType, UnattachedType DEF Placed, Chat, Statuses
<1>2. TurnRefused(c) = DriveQueued(ClearForeground(d))
  BY DEF TurnRefused
<1>. HIDE DEF box, l
<1>3. /\ d \in Chat /\ d.queue = c.queue /\ d.fg = c.fg /\ d.lane = c.lane
      /\ d.fate = [c.fate EXCEPT ![c.fg] = "refused"]
  BY <1>1 DEF Chat, Fates
<1>. HIDE DEF d
<1>4. ClearForeground(d) \in Placed /\ Ends(c, ClearForeground(d), "refused")
  BY <1>3, Frame, ClearPlaced, ClearEnds
<1>. QED  BY <1>2, <1>4, SettlesDriven

\* TurnStartDeferred.
LEMMA TurnDeferredMoves ==
    ASSUME NEW c \in Placed, NEW op
    PROVE  Same(c, TurnDeferred(c, op))
BY DEF TurnDeferred, Same, Stays, Placed, Chat

\* InputConsumed only says that the provider has the input.
Consumes(c, d) == Stays(c, d) /\ d.running = c.running /\ d.consumed

\* InputConsumed.
LEMMA InputConsumedMoves ==
    ASSUME NEW c \in Placed, NEW t \in Nat
    PROVE  Consumes(c, InputConsumed(c, t))
BY DEF InputConsumed, Consumes, Stays, Placed, Chat

\* TurnTerminated: with the receipt the turn was answered, without the first
\* receipt of a candidate its delivery stays uncertain, and on an established
\* lane the terminal stands for the receipt.
LEMMA TurnTerminatedMoves ==
    ASSUME NEW c \in Placed, c.fg # NoOp, NEW interrupted \in BOOLEAN, NEW covered \in BOOLEAN
    PROVE  \E f \in {"answered", "presumed", "uncertain"} :
             /\ f = "answered" => c.consumed
             /\ \/ Settles(c, TurnTerminated(c, interrupted, covered), f)
                \/ SettlesReturning(c, TurnTerminated(c, interrupted, covered), f)
<1>. DEFINE l == c.lane[c.fg]
            kept == IF interrupted THEN Requeued(c) ELSE c
            cut == Interrupted(kept)
            box == Mark(cut.outbox, Starts(c, c.fg), "completed")
            unreceipted == [cut EXCEPT !.phase[l] = "creating", !.outbox = box]
            heard == InputConsumed(kept, 0)
            fate == IF c.consumed THEN "answered" ELSE "presumed"
            box1 == IF c.stopping THEN Mark(heard.outbox, CurrentStop(c), "completed") ELSE heard.outbox
            box2 == Mark(box1, Starts(c, c.fg), "completed")
            settled == [heard EXCEPT !.phase[l] = "ready", !.stopping = FALSE, !.fate[c.fg] = fate,
                                     !.outbox = box2]
            answered == ClearForeground(settled)
            cutBefore == c.cand[l] # 0 /\ ~c.consumed
            ended == IF cutBefore THEN unreceipted ELSE answered
            f == IF cutBefore THEN "uncertain" ELSE fate
<1>1. kept \in Placed /\ (Same(c, kept) \/ Returns(c, kept))
  BY RequeuedPlaced, RequeuedMoves, SameMoves
<1>2. TurnTerminated(c, interrupted, covered) = Drive(ended, covered)
  BY DEF TurnTerminated
<1>. HIDE DEF kept
<1>3. kept.fg = c.fg /\ kept.consumed = c.consumed
  BY <1>1 DEF Same, Stays, Returns
<1>4. "completed" \in Statuses /\ {"creating", "ready"} \subseteq Phases /\ fate \in Fates
  BY DEF Statuses, Phases, Fates
<1>5. unreceipted \in Placed /\ Ends(kept, unreceipted, CutFate(c))
  <2>1. cut \in Placed /\ Ends(kept, cut, CutFate(c))
    BY <1>1, <1>3, InterruptedPlaced, InterruptedMoves DEF CutFate
  <2>. HIDE DEF cut, l
  <2>2. cut \in Chat /\ box \in Seq(Entry)
    BY <1>4, <2>1, MarkType DEF Placed, Chat
  <2>. HIDE DEF box
  <2>3. unreceipted \in Chat /\ Same(cut, unreceipted)
    BY <1>4, <2>2 DEF Chat, Same, Stays
  <2>. HIDE DEF unreceipted
  <2>. QED  BY <2>1, <2>3, Frame, SameMoves DEF Same, Stays
<1>6. heard \in Placed /\ Stays(kept, heard)
  BY <1>1, PresumedPlaced, InputConsumedMoves DEF Consumes
<1>. HIDE DEF heard
<1>7. box2 \in Seq(Entry)
  <2>1. box1 \in Seq(Entry)
    BY <1>6, <1>4, MarkType DEF Placed, Chat
  <2>. HIDE DEF box1
  <2>. QED  BY <1>4, <2>1, MarkType
<1>. HIDE DEF box1, box2, fate, unreceipted, l
<1>8. answered \in Placed /\ Ends(kept, answered, fate)
  <2>1. /\ settled \in Chat /\ settled.queue = heard.queue /\ settled.fg = heard.fg
        /\ settled.lane = heard.lane /\ settled.fate = [heard.fate EXCEPT ![c.fg] = fate]
    BY <1>4, <1>6, <1>7 DEF Placed, Chat
  <2>. HIDE DEF settled
  <2>2. /\ settled.queue = kept.queue /\ settled.fg = kept.fg /\ settled.lane = kept.lane
        /\ settled.fate = [kept.fate EXCEPT ![kept.fg] = fate]
    BY <1>3, <1>6, <2>1 DEF Stays
  <2>. QED  BY <1>1, <1>3, <1>6, <2>1, <2>2, Frame, ClearPlaced, ClearEnds
<1>9. cutBefore => CutFate(c) = "uncertain"
  BY DEF CutFate
<1>. HIDE DEF answered, cutBefore
<1>10. ended \in Placed /\ Ends(kept, ended, f)
  BY <1>5, <1>8, <1>9
<1>. HIDE DEF ended
<1>11. Settles(kept, TurnTerminated(c, interrupted, covered), f)
  BY <1>2, <1>10, SettlesDriven
<1>14. f \in {"answered", "presumed", "uncertain"} /\ (f = "answered" => c.consumed)
  BY DEF fate
<1>12. CASE Returns(c, kept)
  BY <1>11, <1>12, <1>14 DEF SettlesReturning
<1>13. CASE Same(c, kept)
  <2>1. Settles(c, TurnTerminated(c, interrupted, covered), f)
    BY <1>11, <1>13, SameMoves DEF Settles
  <2>. QED  BY <2>1, <1>14
<1>. QED  BY <1>1, <1>12, <1>13

\* The turn of the foreground is cut, and a notice may return.
Cuts(c, d) == Settles(c, d, CutFate(c)) \/ SettlesReturning(c, d, CutFate(c))

\* requeueInterruptedNotice, terminalizeInterruptedForeground and a drive,
\* after changes of other fields.
LEMMA CutMoves ==
    ASSUME NEW c \in Placed, NEW d \in Placed, c.fg # NoOp, Same(c, d)
    PROVE  Cuts(c, DriveQueued(Interrupted(Requeued(d))))
<1>. DEFINE kept == Requeued(d)
            e == DriveQueued(Interrupted(kept))
<1>1. kept \in Placed /\ (Same(d, kept) \/ Returns(d, kept))
  BY RequeuedPlaced, RequeuedMoves
<1>. HIDE DEF kept
<1>2. kept.fg # NoOp /\ CutFate(kept) = CutFate(c)
  BY <1>1 DEF Same, Stays, Returns, CutFate
<1>3. Settles(kept, e, CutFate(c))
  BY <1>1, <1>2, InterruptedSettles, SameMoves
<1>. HIDE DEF e
<1>4. Same(d, kept) => Settles(c, e, CutFate(c))
  BY <1>3, SameMoves DEF Settles
<1>5. Returns(d, kept) => SettlesReturning(c, e, CutFate(c))
  BY <1>3, SameMoves DEF SettlesReturning
<1>. QED  BY <1>1, <1>4, <1>5 DEF Cuts, e, kept

\* HostLost cuts the turn of the lost lane, unless its start was never sent.
LEMMA HostLostMoves ==
    ASSUME NEW c \in Placed, NEW l \in Lanes, NEW g
    PROVE  \/ Drives(c, HostLost(c, l, g))
           \/ g = c.gen[l] /\ FgLane(c) = l /\ Cuts(c, HostLost(c, l, g))
<1>. DEFINE phase == IF c.cand[l] # 0 THEN "absent" ELSE Unattached(c, l)
            next == c.gen[l] + 1
            gone == [c EXCEPT !.attached[l] = FALSE, !.gen[l] = next, !.phase[l] = phase]
            fresh == IF c.cgen[l] >= gone.gen[l] THEN c.cgen[l] + 1 ELSE gone.gen[l]
            box == Mark(gone.outbox, Starts(c, c.fg), "ambiguous")
            uncertain == [gone EXCEPT !.outbox = box]
            cut == Interrupted(Requeued(uncertain))
            reopened == [OpenByCreate(gone, l, fresh, TRUE) EXCEPT !.gen[l] = fresh]
            resumed == OpenByResume(gone, l, gone.gen[l])
<1>1. c \in Chat /\ phase \in Phases /\ c.gen \in [Lanes -> Nat] /\ next \in Nat
  <2>1. phase \in Phases
    BY UnattachedType DEF Phases
  <2>. HIDE DEF phase
  <2>2. c \in Chat /\ c.gen \in [Lanes -> Nat]
    BY DEF Placed, Chat
  <2>. QED  BY <2>1, <2>2
<1>2. \/ HostLost(c, l, g) = c
      \/ HostLost(c, l, g) = DriveQueued(gone)
      \/ HostLost(c, l, g) = reopened
      \/ HostLost(c, l, g) = resumed
      \/ g = c.gen[l] /\ FgLane(c) = l /\ HostLost(c, l, g) = DriveQueued(cut)
  BY DEF HostLost
<1>. HIDE DEF phase, next
<1>3. gone \in Chat /\ Same(c, gone)
  BY <1>1 DEF Chat, Same, Stays
<1>. HIDE DEF gone
<1>4. gone \in Placed
  BY <1>3, Frame DEF Same, Stays
<1>5. Same(gone, reopened)
  <2>. HIDE DEF fresh
  <2>. QED  BY <1>3 DEF OpenByCreate, Same, Stays, Chat
<1>6. Same(gone, resumed)
  BY <1>3 DEF OpenByResume, Same, Stays, Chat
<1>7. uncertain \in Placed /\ Same(c, uncertain)
  <2>1. box \in Seq(Entry)
    BY <1>3, MarkType DEF Chat, Statuses
  <2>. HIDE DEF box
  <2>2. uncertain \in Chat /\ Same(gone, uncertain)
    BY <1>3, <2>1 DEF Chat, Same, Stays
  <2>. HIDE DEF uncertain
  <2>. QED  BY <1>3, <1>4, <2>2, Frame, SameMoves DEF Same, Stays
<1>. HIDE DEF uncertain, reopened, resumed
<1>8. FgLane(c) = l => Cuts(c, DriveQueued(cut))
  BY <1>7, CutMoves, NoOpIsNoOp DEF FgLane
<1>. HIDE DEF cut
<1>9. Drives(c, DriveQueued(gone))
  BY <1>3, <1>4, DriveQueuedMoves, SameMoves
<1>. QED  BY <1>2, <1>3, <1>5, <1>6, <1>8, <1>9, SameMoves DEF Drives

\* A lane that fails by its protocol moves no input.
LEMMA ViolatedMoves ==
    ASSUME NEW c \in Placed, NEW l \in Lanes
    PROVE  Same(c, Violated(c, l))
<1>1. c \in Chat /\ Unattached(c, l) \in Phases
  BY UnattachedType DEF Placed
<1>. QED  BY <1>1 DEF Violated, Chat, Same, Stays

\* LaneProtocolFailed cuts the turn of the lane.
LEMMA LaneProtocolFailedMoves ==
    ASSUME NEW c \in Placed, NEW l \in Lanes, NEW g
    PROVE  \/ Drives(c, LaneProtocolFailed(c, l, g))
           \/ /\ g = c.gen[l] /\ FgLane(c) = l
              /\ Settles(c, LaneProtocolFailed(c, l, g), CutFate(c))
<1>. DEFINE gone == Violated(c, l)
            box == Mark(gone.outbox, Starts(c, c.fg), "ambiguous")
            uncertain == [gone EXCEPT !.outbox = box]
<1>1. gone \in Placed /\ gone \in Chat /\ Same(c, gone)
  BY ViolatedPlaced, ViolatedMoves
<1>2. \/ LaneProtocolFailed(c, l, g) = c
      \/ LaneProtocolFailed(c, l, g) = DriveQueued(gone)
      \/ /\ g = c.gen[l] /\ FgLane(c) = l
         /\ LaneProtocolFailed(c, l, g) = DriveQueued(Interrupted(uncertain))
  BY DEF LaneProtocolFailed
<1>. HIDE DEF gone
<1>3. box \in Seq(Entry)
  BY <1>1, MarkType DEF Chat, Statuses
<1>. HIDE DEF box
<1>4. uncertain \in Chat /\ Same(gone, uncertain)
  BY <1>1, <1>3 DEF Chat, Same, Stays
<1>. HIDE DEF uncertain
<1>5. uncertain \in Placed /\ Same(c, uncertain)
  BY <1>1, <1>4, Frame, SameMoves DEF Same, Stays
<1>6. FgLane(c) = l => Settles(c, DriveQueued(Interrupted(uncertain)), CutFate(c))
  BY <1>5, InterruptedSettles, NoOpIsNoOp DEF FgLane
<1>7. Drives(c, DriveQueued(gone))
  BY <1>1, DriveQueuedMoves, SameMoves
<1>. QED  BY <1>2, <1>6, <1>7, SameMoves DEF Drives

\* So does the transport health event.
LEMMA LaneUnhealthyMoves ==
    ASSUME NEW c \in Placed, NEW l \in Lanes
    PROVE  \/ Same(c, LaneUnhealthy(c, l))
           \/ FgLane(c) = l /\ Settles(c, LaneUnhealthy(c, l), CutFate(c))
<1>. DEFINE gone == Violated(c, l)
            undone == {i \in Starts(c, c.fg) : c.outbox[i].status \notin {"completed", "failed"}}
            box == Mark(gone.outbox, undone, "ambiguous")
            uncertain == [gone EXCEPT !.outbox = box]
<1>1. gone \in Placed /\ gone \in Chat /\ Same(c, gone)
  BY ViolatedPlaced, ViolatedMoves
<1>2. \/ LaneUnhealthy(c, l) = gone
      \/ FgLane(c) = l /\ LaneUnhealthy(c, l) = DriveQueued(Interrupted(uncertain))
  BY DEF LaneUnhealthy
<1>. HIDE DEF gone, undone
<1>3. box \in Seq(Entry)
  BY <1>1, MarkType DEF Chat, Statuses
<1>. HIDE DEF box
<1>4. uncertain \in Chat /\ Same(gone, uncertain)
  BY <1>1, <1>3 DEF Chat, Same, Stays
<1>. HIDE DEF uncertain
<1>5. uncertain \in Placed /\ Same(c, uncertain)
  BY <1>1, <1>4, Frame, SameMoves DEF Same, Stays
<1>6. FgLane(c) = l => Settles(c, DriveQueued(Interrupted(uncertain)), CutFate(c))
  BY <1>5, InterruptedSettles, NoOpIsNoOp DEF FgLane
<1>. QED  BY <1>1, <1>2, <1>6

\* The foreground after the first half of a recovery: kept because its start
\* was never sent, or cut.
CutsOnly(c, d) == \/ Ends(c, d, CutFate(c))
                  \/ \E m : Returns(c, m) /\ Ends(m, d, CutFate(c))

\* Reread.
LEMMA RereadMoves ==
    ASSUME NEW c \in Placed
    PROVE  \/ (c.fg # NoOp => ~c.running) /\ Same(c, Reread(c))
           \/ CutsOnly(c, Reread(c))
<1>. DEFINE box == [i \in DOMAIN c.outbox |-> RecoveredEntry(c, c.outbox[i])]
            seen == [c EXCEPT !.outbox = box]
            l == seen.lane[seen.fg]
            phase == IF seen.cand[l] # 0 THEN "absent" ELSE Unattached(seen, l)
            shut == [seen EXCEPT !.phase[l] = phase]
            kept == Requeued(shut)
<1>1. c \in Chat /\ c.outbox \in Seq(Entry)
  BY DEF Placed, Chat
<1>2. box \in Seq(Entry)
  <2>1. \A i \in 1 .. Len(c.outbox) : RecoveredEntry(c, c.outbox[i]) \in Entry
    BY <1>1, RecoveredEntryType
  <2>2. box = [i \in 1 .. Len(c.outbox) |-> RecoveredEntry(c, c.outbox[i])]
    BY <1>1
  <2>. QED  BY <1>1, <2>1, <2>2, Len(c.outbox) \in Nat
<1>3. Reread(c) = RetiredForeground(seen)
  BY <1>1 DEF Reread
<1>. HIDE DEF box
<1>4. seen \in Chat /\ Same(c, seen)
  BY <1>1, <1>2 DEF Chat, Same, Stays
<1>. HIDE DEF seen
<1>5. seen \in Placed
  BY <1>4, Frame DEF Same, Stays
<1>6. phase \in Phases
  BY UnattachedType DEF Phases
<1>7. \/ (seen.fg # NoOp => ~seen.running) /\ RetiredForeground(seen) = seen
      \/ seen.fg # NoOp /\ RetiredForeground(seen) = Interrupted(kept)
  BY DEF RetiredForeground, Retires
<1>. HIDE DEF phase, l
<1>8. shut \in Chat /\ Same(seen, shut)
  BY <1>4, <1>6 DEF Chat, Same, Stays
<1>. HIDE DEF shut
<1>9. shut \in Placed /\ Same(c, shut)
  BY <1>4, <1>5, <1>8, Frame, SameMoves DEF Same, Stays
<1>10. kept \in Placed /\ (Same(c, kept) \/ Returns(c, kept))
  BY <1>9, RequeuedPlaced, RequeuedMoves, SameMoves
<1>. HIDE DEF kept
<1>11. c.fg # NoOp => Ends(kept, Interrupted(kept), CutFate(c))
  <2>1. kept.fg = c.fg /\ CutFate(kept) = CutFate(c)
    BY <1>10 DEF Same, Stays, Returns, CutFate
  <2>. QED  BY <1>10, <2>1, InterruptedMoves
<1>12. c.fg # NoOp => CutsOnly(c, Interrupted(kept))
  BY <1>10, <1>11, SameMoves DEF CutsOnly
<1>. QED  BY <1>3, <1>4, <1>7, <1>12 DEF Same, Stays

\* RecoverOutbox.
LEMMA RecoverOutboxMoves ==
    ASSUME NEW c \in Placed, NEW order \in Orders(NeedsEffect(Reread(c)))
    PROVE  \/ (c.fg # NoOp => ~c.running) /\ Same(c, RecoverOutbox(c, order))
           \/ Cuts(c, RecoverOutbox(c, order))
<1>. DEFINE mid == Reread(c)
            new == [i \in DOMAIN order |-> RecoveryEffect(mid, order[i])]
            phases == [l \in Lanes |-> RecoveredPhase(mid, l)]
            cgens == [l \in Lanes |-> RecoveredCgen(mid, l)]
            gens == [l \in Lanes |-> RecoveredGen(mid, l)]
            back == [mid EXCEPT !.phase = phases, !.cgen = cgens, !.gen = gens,
                                !.outbox = @ \o new]
<1>1. /\ mid \in Placed
      /\ \/ (c.fg # NoOp => ~c.running) /\ Same(c, mid)
         \/ CutsOnly(c, mid)
  BY RereadPlaced, RereadMoves
<1>2. RecoverOutbox(c, order) = IF c.fg # NoOp /\ mid.fg = NoOp THEN DriveQueued(back) ELSE back
  BY DEF RecoverOutbox
<1>3. order \in [1 .. Cardinality(NeedsEffect(mid)) -> NeedsEffect(mid)]
  BY DEF Orders
<1>. HIDE DEF mid
<1>4. back \in Chat /\ Same(mid, back)
  <2>0. mid \in Chat
    BY <1>1 DEF Placed
  <2>1. new \in Seq(Entry)
    BY <1>3, <2>0, RecoveryEffectsType
  <2>2. mid.outbox \o new \in Seq(Entry)
    BY <1>1, <2>1, ConcatProperties DEF Placed, Chat
  <2>3. phases \in [Lanes -> Phases] /\ cgens \in [Lanes -> Nat] /\ gens \in [Lanes -> Nat]
    BY <2>0, RecoveredTypes
  <2>. HIDE DEF new, phases, cgens, gens
  <2>. QED  BY <1>1, <2>2, <2>3 DEF Placed, Chat, Same, Stays
<1>. HIDE DEF back
<1>5. back \in Placed
  BY <1>1, <1>4, Frame DEF Same, Stays
<1>6. CASE Same(c, mid) /\ (c.fg # NoOp => ~c.running)
  BY <1>2, <1>4, <1>6, SameMoves DEF Same, Stays
<1>7. CASE CutsOnly(c, mid)
  <2>1. c.fg # NoOp /\ mid.fg = NoOp
    BY <1>7 DEF CutsOnly, Ends, Returns
  <2>2. RecoverOutbox(c, order) = DriveQueued(back) /\ Drives(back, DriveQueued(back))
    BY <1>2, <1>5, <2>1, DriveQueuedMoves
  <2>3. \A m : Ends(m, mid, CutFate(c)) => Settles(m, DriveQueued(back), CutFate(c))
    BY <1>4, <2>2, SameMoves DEF Settles
  <2>. QED  BY <1>7, <2>2, <2>3 DEF CutsOnly, Cuts, SettlesReturning
<1>. QED  BY <1>1, <1>6, <1>7

(***************************************************************************)
(* Every move keeps every accepted input in one place.                     *)
(***************************************************************************)
Closed == Fates \ {"open"}

\* A waiting input, and the foreground, is an accepted one that is not
\* settled; nothing waits twice or waits while it runs; an accepted input
\* that is not settled waits or runs.
Owned(c) ==
    /\ c.queue \in Seq(Ops) /\ c.fg \in Ops \union {NoOp}
    /\ c.lane \in [Ops -> Lanes \union {NoLane}] /\ c.fate \in [Ops -> Fates]
    /\ \A i, j \in 1 .. Len(c.queue) : c.queue[i] = c.queue[j] => i = j
    /\ \A i \in 1 .. Len(c.queue) :
         c.queue[i] # c.fg /\ c.lane[c.queue[i]] # NoLane /\ c.fate[c.queue[i]] = "open"
    /\ c.fg # NoOp => c.lane[c.fg] # NoLane /\ c.fate[c.fg] = "open"
    /\ \A op \in Ops : c.lane[op] = NoLane => c.fate[op] = "open"
    /\ \A op \in Ops : c.lane[op] # NoLane /\ c.fate[op] = "open" =>
         op = c.fg \/ \E i \in 1 .. Len(c.queue) : c.queue[i] = op

\* No input moves.
LEMMA StaysOwned ==
    ASSUME NEW c, NEW d, Owned(c), Stays(c, d)
    PROVE  Owned(d)
BY DEF Owned, Stays

\* The head of the queue becomes the foreground.
LEMMA DrivesOwned ==
    ASSUME NEW c, NEW d, Owned(c), Drives(c, d)
    PROVE  Owned(d)
<1>1. CASE Same(c, d)
  BY <1>1, StaysOwned DEF Same
<1>2. CASE Begins(c, d)
  <2>. DEFINE q == c.queue
              t == Tail(c.queue)
  <2>1. q \in Seq(Ops) /\ q # <<>>
    BY <1>2 DEF Owned, Begins
  <2>2. /\ t \in Seq(Ops) /\ Len(t) = Len(q) - 1 /\ Len(q) \in Nat \ {0}
        /\ Head(q) \in Ops /\ Head(q) = q[1]
        /\ \A i \in 1 .. Len(t) : t[i] = q[i + 1] /\ i + 1 \in 1 .. Len(q)
    BY <2>1, HeadTailProperties
  <2>3. d.queue = t /\ d.fg = Head(q) /\ d.lane = c.lane /\ d.fate = c.fate /\ c.fg = NoOp
    BY <1>2 DEF Begins
  <2>4. \A i \in 1 .. Len(t) : t[i] # Head(q)
    BY <2>2 DEF Owned
  <2>5. \A i, j \in 1 .. Len(t) : t[i] = t[j] => i = j
    <3>. TAKE i, j \in 1 .. Len(t)
    <3>. HAVE t[i] = t[j]
    <3>1. i + 1 = j + 1
      BY <2>2 DEF Owned
    <3>. QED  BY <3>1
  <2>6. ASSUME NEW i \in 1 .. Len(q)
        PROVE  q[i] = Head(q) \/ \E k \in 1 .. Len(t) : t[k] = q[i]
    <3>1. CASE i = 1
      BY <2>2, <3>1
    <3>2. CASE i # 1
      <4>1. i - 1 \in 1 .. Len(t) /\ t[i - 1] = q[i]
        BY <2>2, <3>2
      <4>. QED  BY <4>1
    <3>. QED  BY <3>1, <3>2
  <2>7. ASSUME NEW op \in Ops, c.lane[op] # NoLane, c.fate[op] = "open"
        PROVE  op = Head(q) \/ \E i \in 1 .. Len(t) : t[i] = op
    <3>1. PICK i \in 1 .. Len(q) : q[i] = op
      BY <2>3, <2>7, NoOpIsNoOp DEF Owned
    <3>. HIDE DEF q, t
    <3>. QED  BY <2>6, <3>1
  <2>8. 1 \in 1 .. Len(q)
    BY <2>2
  <2>9. /\ c.lane[Head(q)] # NoLane /\ c.fate[Head(q)] = "open"
        /\ \A i \in 1 .. Len(t) : c.lane[t[i]] # NoLane /\ c.fate[t[i]] = "open"
    BY <2>2, <2>8 DEF Owned
  <2>. HIDE DEF q, t
  <2>. QED  BY <2>2, <2>3, <2>4, <2>5, <2>7, <2>9 DEF Owned
<1>. QED  BY <1>1, <1>2 DEF Drives

\* The foreground is settled.
LEMMA EndsOwned ==
    ASSUME NEW c, NEW d, NEW f \in Closed, Owned(c), Ends(c, d, f)
    PROVE  Owned(d)
<1>1. /\ d.queue = c.queue /\ d.fg = NoOp /\ d.lane = c.lane /\ c.fg \in Ops
      /\ d.fate = [c.fate EXCEPT ![c.fg] = f] /\ c.fate \in [Ops -> Fates] /\ f \in Fates /\ f # "open"
  BY DEF Ends, Owned, Closed
<1>2. /\ d.fate \in [Ops -> Fates] /\ d.fate[c.fg] = f
      /\ \A op \in Ops \ {c.fg} : d.fate[op] = c.fate[op]
  BY <1>1
<1>3. \A i \in 1 .. Len(c.queue) : c.queue[i] \in Ops \ {c.fg}
  BY DEF Owned
<1>. QED  BY <1>1, <1>2, <1>3, NoOpIsNoOp DEF Owned

\* The foreground is settled, and the next head follows.
LEMMA SettlesOwned ==
    ASSUME NEW c, NEW d, NEW f \in Closed, Owned(c), Settles(c, d, f)
    PROVE  Owned(d)
BY EndsOwned, DrivesOwned DEF Settles

\* The next attempt of a notice, unknown so far, waits first.
LEMMA ReturnsOwned ==
    ASSUME NEW c, NEW d, Owned(c), Returns(c, d)
    PROVE  Owned(d)
<1>. DEFINE next == NextAttempt(c.fg)
            q == <<next>> \o c.queue
<1>1. /\ c.fg \in Ops /\ next \in Ops /\ next # c.fg
      /\ c.lane[next] = NoLane /\ c.lane[c.fg] \in Lanes
  <2>1. c.fg \in Ops /\ c.fg[2] < RedeliveryLimit /\ c.lane[next] = NoLane
    BY DEF Returns, Owned
  <2>2. next \in Ops /\ next # c.fg
    BY <2>1, ChatAssumption DEF Ops, NextAttempt
  <2>3. c.lane[c.fg] \in Lanes
    BY <2>1, NoOpIsNoOp DEF Owned
  <2>. QED  BY <2>1, <2>2, <2>3
<1>2. /\ d.queue = q /\ d.fg = c.fg /\ d.fate = c.fate
      /\ d.lane = [c.lane EXCEPT ![next] = c.lane[c.fg]]
  BY DEF Returns
<1>. HIDE DEF next
<1>3. /\ q \in Seq(Ops) /\ Len(q) = Len(c.queue) + 1 /\ q[1] = next
      /\ \A i \in 1 .. Len(q) : i # 1 => i - 1 \in 1 .. Len(c.queue) /\ q[i] = c.queue[i - 1]
      /\ \A i \in 1 .. Len(c.queue) : i + 1 \in 1 .. Len(q) /\ q[i + 1] = c.queue[i]
  <2>1. <<next>> \in Seq(Ops) /\ Len(<<next>>) = 1 /\ <<next>>[1] = next /\ c.queue \in Seq(Ops)
    BY <1>1 DEF Owned
  <2>. QED  BY <2>1, ConcatProperties
<1>. HIDE DEF q
<1>4. /\ d.lane \in [Ops -> Lanes \union {NoLane}] /\ d.lane[next] # NoLane
      /\ \A op \in Ops : c.lane[op] # NoLane => d.lane[op] # NoLane
      /\ \A op \in Ops \ {next} : d.lane[op] = c.lane[op]
  BY <1>1, <1>2, NoOpIsNoOp DEF Owned
<1>5. c.fate[next] = "open" /\ \A i \in 1 .. Len(c.queue) : c.queue[i] \in Ops /\ c.queue[i] # next
  BY <1>1 DEF Owned
<1>6. ASSUME NEW i \in 1 .. Len(q), NEW j \in 1 .. Len(q), q[i] = q[j]
      PROVE  i = j
  <2>1. CASE i # 1 /\ j # 1
    <3>1. /\ i - 1 \in 1 .. Len(c.queue) /\ q[i] = c.queue[i - 1]
          /\ j - 1 \in 1 .. Len(c.queue) /\ q[j] = c.queue[j - 1]
      BY <1>3, <2>1
    <3>0. \A k, m \in 1 .. Len(c.queue) : c.queue[k] = c.queue[m] => k = m
      BY DEF Owned
    <3>2. i - 1 = j - 1
      BY <1>6, <3>0, <3>1
    <3>. QED  BY <3>2
  <2>. QED  BY <1>3, <1>5, <1>6, <2>1
<1>7. ASSUME NEW i \in 1 .. Len(q)
      PROVE  q[i] # c.fg /\ d.lane[q[i]] # NoLane /\ c.fate[q[i]] = "open"
  <2>1. CASE i = 1
    BY <1>1, <1>3, <1>4, <1>5, <2>1
  <2>2. CASE i # 1
    <3>1. i - 1 \in 1 .. Len(c.queue) /\ q[i] = c.queue[i - 1]
      BY <1>3, <2>2
    <3>2. q[i] \in Ops /\ q[i] # c.fg /\ c.lane[q[i]] # NoLane /\ c.fate[q[i]] = "open"
      BY <1>5, <3>1 DEF Owned
    <3>. QED  BY <1>4, <3>2
  <2>. QED  BY <2>1, <2>2
<1>8. ASSUME NEW op \in Ops, d.lane[op] # NoLane, c.fate[op] = "open"
      PROVE  op = c.fg \/ \E i \in 1 .. Len(q) : q[i] = op
  <2>1. CASE op = next
    <3>1. 1 \in 1 .. Len(q)
      BY <1>3 DEF Owned
    <3>. QED  BY <1>3, <2>1, <3>1
  <2>2. CASE op # next
    <3>1. op = c.fg \/ \E i \in 1 .. Len(c.queue) : c.queue[i] = op
      BY <1>4, <1>8, <2>2 DEF Owned
    <3>. QED  BY <1>3, <3>1
  <2>. QED  BY <2>1, <2>2
<1>. QED  BY <1>1, <1>2, <1>3, <1>4, <1>6, <1>7, <1>8 DEF Owned

\* A waiting input is settled.
LEMMA DropsOwned ==
    ASSUME NEW c, NEW d, NEW i, NEW f \in Closed, Owned(c), Drops(c, d, i, f)
    PROVE  Owned(d)
<1>. DEFINE q == RemoveFirst(c.queue, i)
            op == c.queue[i]
<1>1. /\ c.queue \in Seq(Ops) /\ i \in 1 .. Len(c.queue) /\ Len(c.queue) \in Nat /\ op \in Ops
      /\ d.queue = q /\ d.fg = c.fg /\ d.lane = c.lane
      /\ d.fate = [c.fate EXCEPT ![op] = f]
      /\ c.fate \in [Ops -> Fates] /\ f \in Fates /\ f # "open" /\ op # c.fg
  BY DEF Drops, Owned, Closed
<1>2. /\ q \in Seq(Ops) /\ Len(q) = Len(c.queue) - 1
      /\ \A j \in 1 .. Len(q) : q[j] = IF j < i THEN c.queue[j] ELSE c.queue[j + 1]
  BY <1>1, RemoveFirstType
<1>. HIDE DEF q
<1>3. ASSUME NEW j \in 1 .. Len(q)
      PROVE  \E k \in 1 .. Len(c.queue) : k # i /\ q[j] = c.queue[k] /\ k = (IF j < i THEN j ELSE j + 1)
  BY <1>1, <1>2
<1>4. ASSUME NEW k \in 1 .. Len(c.queue), k # i
      PROVE  \E j \in 1 .. Len(q) : q[j] = c.queue[k]
  <2>1. CASE k < i
    <3>1. k \in 1 .. Len(q) /\ q[k] = c.queue[k]
      BY <1>1, <1>2, <2>1
    <3>. QED  BY <3>1
  <2>2. CASE ~(k < i)
    <3>1. k - 1 \in 1 .. Len(q) /\ ~(k - 1 < i) /\ k - 1 + 1 = k
      BY <1>1, <1>2, <1>4, <2>2
    <3>2. q[k - 1] = c.queue[k]
      BY <1>2, <3>1
    <3>. QED  BY <3>1, <3>2
  <2>. QED  BY <2>1, <2>2
<1>5. \A j \in 1 .. Len(q) : /\ q[j] # op /\ q[j] # c.fg /\ q[j] \in Ops
                              /\ c.lane[q[j]] # NoLane /\ c.fate[q[j]] = "open"
  BY <1>1, <1>3 DEF Owned
<1>6. ASSUME NEW j \in 1 .. Len(q), NEW k \in 1 .. Len(q), q[j] = q[k]
      PROVE  j = k
  <2>1. (IF j < i THEN j ELSE j + 1) = (IF k < i THEN k ELSE k + 1)
    BY <1>3, <1>6 DEF Owned
  <2>. QED  BY <1>1, <2>1
<1>7. /\ d.fate \in [Ops -> Fates] /\ d.fate[op] = f /\ \A o \in Ops \ {op} : d.fate[o] = c.fate[o]
  BY <1>1
<1>8. ASSUME NEW o \in Ops, c.lane[o] # NoLane, d.fate[o] = "open"
      PROVE  o = c.fg \/ \E j \in 1 .. Len(q) : q[j] = o
  <2>1. o # op /\ c.fate[o] = "open"
    BY <1>1, <1>7, <1>8
  <2>2. o = c.fg \/ \E k \in 1 .. Len(c.queue) : k # i /\ c.queue[k] = o
    BY <1>8, <2>1 DEF Owned
  <2>. QED  BY <1>4, <2>2
<1>9. c.lane[op] # NoLane
  BY <1>1 DEF Owned
<1>. HIDE DEF op
<1>10. /\ \A o \in Ops : c.lane[o] = NoLane => d.fate[o] = "open"
       /\ c.fg # NoOp => d.fate[c.fg] = "open"
       /\ \A j \in 1 .. Len(q) : d.fate[q[j]] = "open"
  BY <1>1, <1>5, <1>7, <1>9 DEF Owned
<1>. QED  BY <1>1, <1>2, <1>5, <1>6, <1>7, <1>8, <1>10 DEF Owned

\* An operation nobody knew joins the queue.
LEMMA JoinsOwned ==
    ASSUME NEW c, NEW d, NEW op \in Ops, NEW l \in Lanes, Owned(c), Joins(c, d, op, l)
    PROVE  Owned(d)
<1>. DEFINE q == Append(c.queue, op)
<1>1. /\ c.queue \in Seq(Ops) /\ d.queue = q /\ d.fg = c.fg /\ d.fate = c.fate
      /\ d.lane = [c.lane EXCEPT ![op] = l] /\ c.lane[op] = NoLane
  BY DEF Joins, Owned
<1>2. /\ q \in Seq(Ops) /\ Len(q) = Len(c.queue) + 1 /\ q[Len(c.queue) + 1] = op
      /\ \A i \in 1 .. Len(c.queue) : q[i] = c.queue[i]
      /\ Len(c.queue) \in Nat
  BY <1>1
<1>. HIDE DEF q
<1>3. /\ d.lane \in [Ops -> Lanes \union {NoLane}] /\ d.lane[op] # NoLane
      /\ \A o \in Ops : c.lane[o] # NoLane => d.lane[o] # NoLane
      /\ \A o \in Ops \ {op} : d.lane[o] = c.lane[o]
  BY <1>1, NoOpIsNoOp DEF Owned
<1>4. /\ c.fate[op] = "open" /\ op # c.fg
      /\ \A i \in 1 .. Len(c.queue) : c.queue[i] \in Ops /\ c.queue[i] # op
  BY <1>1, NoOpIsNoOp DEF Owned
<1>5. \A i \in 1 .. Len(q) : i \in 1 .. Len(c.queue) \/ i = Len(c.queue) + 1
  BY <1>2
<1>6. \A i, j \in 1 .. Len(q) : q[i] = q[j] => i = j
  BY <1>2, <1>4, <1>5 DEF Owned
<1>7. \A i \in 1 .. Len(q) : q[i] # c.fg /\ d.lane[q[i]] # NoLane /\ c.fate[q[i]] = "open"
  BY <1>2, <1>3, <1>4, <1>5 DEF Owned
<1>8. ASSUME NEW o \in Ops, d.lane[o] # NoLane, c.fate[o] = "open"
      PROVE  o = c.fg \/ \E i \in 1 .. Len(q) : q[i] = o
  <2>1. /\ Len(c.queue) + 1 \in 1 .. Len(q)
        /\ \A i \in 1 .. Len(c.queue) : i \in 1 .. Len(q)
    BY <1>2
  <2>. QED  BY <1>2, <1>3, <1>8, <2>1 DEF Owned
<1>. QED  BY <1>1, <1>2, <1>3, <1>6, <1>7, <1>8 DEF Owned

(***************************************************************************)
(* Every step of the daemon makes one of these moves.                      *)
(***************************************************************************)
\* The moves a step can make, whatever their conditions.
Moves(c, d) ==
    \/ Drives(c, d) \/ Stays(c, d)
    \/ \E op \in Ops, l \in Lanes : Accepts(c, d, op, l)
    \/ \E f \in Closed : Settles(c, d, f) \/ SettlesReturning(c, d, f) \/ SettlesWaiting(c, d, f)

\* A move keeps every accepted input in one place.
LEMMA MovesOwned ==
    ASSUME NEW c, NEW d, Owned(c), Moves(c, d)
    PROVE  Owned(d)
BY StaysOwned, DrivesOwned, JoinsOwned, SettlesOwned, ReturnsOwned, DropsOwned
   DEF Moves, Accepts, SettlesReturning, SettlesWaiting

\* The fates that moves give are closed ones.
LEMMA FatesClosed ==
    /\ {"answered", "presumed", "interrupted", "uncertain", "refused", "withdrawn"} \subseteq Closed
    /\ \A c : CutFate(c) \in Closed
BY DEF Closed, Fates, CutFate

\* A cut, or the refusal of a waiting input, is a move.
LEMMA CutsAreMoves ==
    ASSUME NEW c, NEW d, Cuts(c, d) \/ Refuses(c, d)
    PROVE  Moves(c, d)
<1>1. CASE Cuts(c, d)
  BY <1>1, FatesClosed DEF Cuts, Moves
<1>2. CASE Refuses(c, d)
  <2>1. Drives(d, d) /\ "refused" \in Closed
    BY FatesClosed DEF Drives, Same, Stays
  <2>2. ASSUME Ends(c, d, "refused")  PROVE Settles(c, d, "refused")
    BY <2>1, <2>2 DEF Settles
  <2>3. ASSUME NEW i, Drops(c, d, i, "refused")  PROVE SettlesWaiting(c, d, "refused")
    BY <2>1, <2>3 DEF SettlesWaiting
  <2>. QED  BY <1>2, <2>1, <2>2, <2>3 DEF Moves, Refuses, Drives
<1>. QED  BY <1>1, <1>2

\* A command that changes other fields only, or nothing.
LEMMA SameIsMove ==
    ASSUME NEW c, NEW d, Same(c, d) \/ d = c
    PROVE  Moves(c, d)
BY DEF Moves, Same, Stays

\* Marking effects of the outbox moves no input.
LEMMA OutboxSame ==
    ASSUME NEW c \in Placed, NEW box
    PROVE  Same(c, [c EXCEPT !.outbox = box])
BY DEF Same, Stays, Placed, Chat

\* The commands of the user and the Stop executor.
LEMMA UsersMove ==
    ASSUME IInv, Owned(chat), Users \/ Stopper
    PROVE  Moves(chat, chat')
<1>. chat \in Placed
  BY DEF IInv
<1>1. ASSUME NEW l \in Lanes, Select(l)  PROVE Moves(chat, chat')
  BY <1>1, SelectLaneMoves DEF Select, Command, Moves
<1>2. ASSUME NEW i \in Inputs, NEW l \in Lanes, SubmitInput(i, l)  PROVE Moves(chat, chat')
  <2>1. <<i, 0>> \in Ops
    BY ChatAssumption DEF Ops
  <2>. QED  BY <1>2, <2>1, SubmitMoves DEF SubmitInput, Command, Moves
<1>3. ASSUME NEW op \in Ops, WithdrawInput(op)  PROVE Moves(chat, chat')
  <2>1. PICK covered \in BOOLEAN : CanWithdraw(chat, op) /\ chat' = Withdraw(chat, op, covered)
    BY <1>3 DEF WithdrawInput, Command
  <2>2. chat.fg \notin QueuedOps(chat)
    BY DEF Owned, QueuedOps
  <2>. QED  BY <2>1, <2>2, WithdrawMoves, FatesClosed DEF Moves
<1>4. CASE Stop \/ StopDelivered \/ StopRejected
  BY <1>4, StopMoves, SameIsMove DEF Stop, Command, StopDelivered, StopRejected
<1>5. CASE ClaimStop
  BY <1>5, OutboxSame, SameIsMove DEF ClaimStop
<1>. QED  BY <1>1, <1>2, <1>3, <1>4, <1>5 DEF Users, Stopper

\* A failed open call.
LEMMA OpenFailureMoves ==
    ASSUME chat \in Placed, NEW l \in Lanes, NEW ambiguous \in BOOLEAN, OpenFailure(l, ambiguous)
    PROVE  Moves(chat, chat')
BY LaneOpenFailedMoves, CutsAreMoves, SameIsMove DEF OpenFailure

\* The loss of an attachment.
LEMMA HostLostIsMove ==
    ASSUME NEW c \in Placed, NEW l \in Lanes, NEW g
    PROVE  /\ Moves(c, HostLost(c, l, g)) /\ Moves(c, LaneProtocolFailed(c, l, g))
           /\ Moves(c, LaneUnhealthy(c, l))
<1>1. Moves(c, HostLost(c, l, g)) /\ Moves(c, LaneProtocolFailed(c, l, g))
  BY HostLostMoves, LaneProtocolFailedMoves, CutsAreMoves DEF Moves, Cuts
<1>2. Moves(c, LaneUnhealthy(c, l))
  BY LaneUnhealthyMoves, CutsAreMoves, SameIsMove DEF Cuts
<1>. QED  BY <1>1, <1>2

\* The report of an opened lane.
LEMMA ReportMoves ==
    ASSUME IInv, exec.lane \in Lanes, NEW opens \in BOOLEAN, NEW opened,
           Moves(chat, opened), ReportOpened(opens, opened)
    PROVE  Moves(chat, chat')
BY OpenFailureMoves, SameIsMove DEF IInv, ReportOpened

\* The steps that open a lane.
LEMMA OpenerMoves ==
    ASSUME IInv, Opener
    PROVE  Moves(chat, chat')
<1>. chat \in Placed /\ ActorOK
  BY DEF IInv
<1>0. /\ exec.kind # "none" => exec.lane \in Lanes
      /\ exec.at = "bound" => exec.kind = "create"
      /\ exec.gen \in Nat /\ {exec.recon, exec.absent} \subseteq BOOLEAN
      /\ \A l \in Lanes : bind[l].id \in Nat
  BY DEF ActorOK
<1>1. CASE RetireAttachment
  BY <1>0, <1>1, SameIsMove, HostLostIsMove DEF RetireAttachment, Detached
<1>2. CASE CreateMinted \/ CreateReattached
  BY <1>2, SameIsMove DEF CreateMinted, CreateReattached
<1>3. CASE CreateRefused \/ CreateFailed \/ CreateUncertain \/ ResumeFailed
  <2>1. exec.lane \in Lanes /\ \E ambiguous \in BOOLEAN : OpenFailure(exec.lane, ambiguous)
    BY <1>0, <1>3 DEF CreateRefused, CreateFailed, CreateUncertain, ResumeFailed, Creating, Resuming
  <2>. QED  BY <2>1, OpenFailureMoves
<1>4. CASE ReportCreated
  <2>. DEFINE l == exec.lane
  <2>1. l \in Lanes /\ bind[l].id \in Nat /\ exec.absent \in BOOLEAN /\ exec.gen \in Nat
    BY <1>0, <1>4 DEF ReportCreated
  <2>2. PICK covered \in BOOLEAN :
          IF bind[l].committed
          THEN ReportOpened(CanOpen(chat, l, bind[l].id),
                            LaneOpened(chat, l, exec.gen, bind[l].id, covered))
          ELSE ReportOpened(CanProvision(chat, l, bind[l].id, exec.absent),
                            LaneProvisioned(chat, l, exec.gen, bind[l].id, exec.absent))
    BY <1>4 DEF ReportCreated
  <2>3. /\ Moves(chat, LaneOpened(chat, l, exec.gen, bind[l].id, covered))
        /\ Moves(chat, LaneProvisioned(chat, l, exec.gen, bind[l].id, exec.absent))
    BY <2>1, LaneOpenedMoves, LaneProvisionedMoves DEF Moves, Replays
  <2>4. /\ CanOpen(chat, l, bind[l].id) \in BOOLEAN
        /\ CanProvision(chat, l, bind[l].id, exec.absent) \in BOOLEAN
    BY DEF CanOpen, CanProvision
  <2>. QED  BY <2>1, <2>2, <2>3, <2>4, ReportMoves
<1>5. CASE ReportResumed
  <2>. DEFINE l == exec.lane
  <2>1. l \in Lanes /\ chat.thread[l] \in Nat /\ exec.gen \in Nat
    BY <1>0, <1>5 DEF ReportResumed, Resuming, Placed, Chat
  <2>2. PICK covered \in BOOLEAN :
          ReportOpened(CanOpen(chat, l, chat.thread[l]),
                       LaneOpened(chat, l, exec.gen, chat.thread[l], covered))
    BY <1>5 DEF ReportResumed
  <2>3. Moves(chat, LaneOpened(chat, l, exec.gen, chat.thread[l], covered))
    BY <2>1, LaneOpenedMoves DEF Moves
  <2>4. CanOpen(chat, l, chat.thread[l]) \in BOOLEAN
    BY DEF CanOpen
  <2>. QED  BY <2>1, <2>2, <2>3, <2>4, ReportMoves
<1>. QED  BY <1>1, <1>2, <1>3, <1>4, <1>5 DEF Opener

\* The steps that start a turn.
LEMMA StarterMoves ==
    ASSUME IInv, Starter
    PROVE  Moves(chat, chat')
<1>. chat \in Placed /\ ActorOK
  BY DEF IInv
<1>1. exec.kind = "start" => exec.op # NoOp
  BY NoOpIsNoOp DEF ActorOK
<1>2. CASE StartUnattached \/ StartCalled \/ AdmissionReturned
  BY <1>2, TurnDeferredMoves, SameIsMove DEF StartUnattached, StartCalled, AdmissionReturned
<1>3. CASE CommitAdmission
  BY <1>3, TurnAdmittedMoves DEF CommitAdmission, Admits, Moves
<1>4. CASE StartFailed
  BY <1>1, <1>4, TurnDeferredMoves, TurnRefusedMoves, SameIsMove, FatesClosed
  DEF StartFailed, Starting, Moves
<1>5. CASE StartUncertain
  BY <1>1, <1>5, TurnAmbiguousMoves, FatesClosed DEF StartUncertain, Starting, Admissible, Moves
<1>. QED  BY <1>2, <1>3, <1>4, <1>5 DEF Starter

\* The worker of a turn.
LEMMA WorkerMoves ==
    ASSUME IInv, Owned(chat), NEW l \in Lanes, Worker(l), worker[l].at # "none" => worker[l].op # NoOp
    PROVE  Moves(chat, chat')
<1>. chat \in Placed /\ ActorOK
  BY DEF IInv
<1>1. CASE WritePrompt(l) \/ TakeInput(l)
  BY <1>1, SameIsMove DEF WritePrompt, TakeInput
<1>2. CASE ConfirmInput(l)
  <2>1. PICK t \in Nat : chat' = InputConsumed(chat, t) \/ ProtocolFailed(l)
    BY <1>2 DEF ConfirmInput, Event, ActorOK
  <2>2. Stays(chat, InputConsumed(chat, t))
    BY InputConsumedMoves DEF Consumes
  <2>. QED  BY <2>1, <2>2, HostLostIsMove DEF ProtocolFailed, Moves
<1>3. CASE EndTurn(l)
  <2>1. CASE ProtocolFailed(l)
    BY <2>1, HostLostIsMove DEF ProtocolFailed
  <2>2. CASE ~ProtocolFailed(l)
    <3>1. PICK interrupted \in {FALSE, closing}, covered \in BOOLEAN :
            chat' = TurnTerminated(chat, interrupted, covered)
      BY <1>3, <2>2 DEF EndTurn, Event
    <3>2. interrupted \in BOOLEAN /\ chat.fg # NoOp
      BY <1>3, <2>2, <3>1 DEF EndTurn, ActorOK
    <3>. QED  BY <3>1, <3>2, TurnTerminatedMoves, FatesClosed DEF Moves
  <2>. QED  BY <2>1, <2>2
<1>. QED  BY <1>1, <1>2, <1>3 DEF Worker

\* A busy worker has a turn's operation.
Working == \A l \in Lanes : worker[l].at # "none" => worker[l].op # NoOp

\* Every step makes a move.
LEMMA NextMoves ==
    ASSUME IInv, Owned(chat), Working, [Next]_vars
    PROVE  Moves(chat, chat')
<1>. chat \in Placed /\ lost \subseteq Lanes \X Nat
  BY DEF IInv, ActorOK
<1>1. CASE Users \/ Stopper
  BY <1>1, UsersMove
<1>2. CASE Claim
  BY <1>2, OutboxSame, SameIsMove DEF Claim
<1>3. CASE DrainSettled \/ Close \/ UNCHANGED vars
  BY <1>3, SameIsMove DEF DrainSettled, Close, vars
<1>4. CASE Opener \/ Starter
  BY <1>4, OpenerMoves, StarterMoves
<1>5. ASSUME NEW l \in Lanes, Worker(l)  PROVE Moves(chat, chat')
  BY <1>5, WorkerMoves DEF Working
<1>6. ASSUME NEW l \in Lanes, Breaks(l) \/ Teardown(l)  PROVE Moves(chat, chat')
  BY <1>6, SameIsMove, HostLostIsMove
  DEF Breaks, DetachLane, StreamClosed, CloseStream, EventRefused, HealthFailed, ProtocolFailed,
      Teardown, Detached, Event
<1>7. ASSUME NEW loss \in lost, LossCommitted(loss)  PROVE Moves(chat, chat')
  BY <1>7, HostLostIsMove DEF LossCommitted, Event
<1>8. CASE Restart
  <2>1. PICK order \in Orders(NeedsEffect(Reread(chat))) : chat' = RecoverOutbox(chat, order)
    BY <1>8 DEF Restart
  <2>. QED  BY <2>1, RecoverOutboxMoves, CutsAreMoves, SameIsMove
<1>. QED  BY <1>1, <1>2, <1>3, <1>4, <1>5, <1>6, <1>7, <1>8 DEF Next, Drainer

\* A worker starts with the operation of the effect in hand.
LEMMA NextWorking ==
    ASSUME IInv, Working, [Next]_vars
    PROVE  Working'
<1>. worker \in [Lanes -> [op : Ops \union {NoOp}, at : WorkerStages]] /\ ActorOK
  BY DEF IInv, ActorOK
<1>1. CASE UNCHANGED worker
  BY <1>1 DEF Working
<1>2. ASSUME NEW l \in Lanes, Release(l)  PROVE Working'
  BY <1>2 DEF Working, Release, Nobody
<1>3. CASE CommitAdmission
  BY <1>3, NoOpIsNoOp DEF CommitAdmission, Starting, Working, ActorOK
<1>4. ASSUME NEW l \in Lanes, Worker(l)  PROVE Working'
  <2>1. /\ worker[l].at # "none"
        /\ \/ UNCHANGED worker
           \/ \E at \in WorkerStages : worker' = [worker EXCEPT ![l].at = at]
           \/ worker' = [worker EXCEPT ![l] = Nobody]
    BY <1>4 DEF Worker, WritePrompt, TakeInput, ConfirmInput, EndTurn, WorkerStages
  <2>. QED  BY <1>1, <2>1 DEF Working, Nobody
<1>5. CASE RetireAttachment
  BY <1>1, <1>2, <1>5 DEF RetireAttachment, ActorOK, laneVars
<1>6. ASSUME NEW l \in Lanes, Breaks(l) \/ Teardown(l)  PROVE Working'
  BY <1>1, <1>2, <1>6 DEF Breaks, DetachLane, StreamClosed, CloseStream, EventRefused, HealthFailed,
     Teardown
<1>7. CASE Restart
  BY <1>7 DEF Restart, Working, Nobody
<1>8. CASE Users \/ Stopper \/ Close \/ Claim \/ DrainSettled \/ UNCHANGED vars
           \/ \E loss \in lost : LossCommitted(loss)
  BY <1>1, <1>8 DEF Users, Select, SubmitInput, WithdrawInput, Stop, Command, Stopper, ClaimStop,
     StopDelivered, StopRejected, Close, Claim, DrainSettled, LossCommitted, laneVars,
     vars
<1>9. CASE Opener /\ ~RetireAttachment
  BY <1>1, <1>9 DEF Opener, CreateMinted, CreateReattached, CreateRefused, CreateFailed,
     CreateUncertain, ReportCreated, ReportResumed, ResumeFailed, laneVars
<1>10. CASE Starter /\ ~CommitAdmission
  BY <1>1, <1>10 DEF Starter, StartUnattached, StartCalled, AdmissionReturned, StartFailed,
     StartUncertain, laneVars
<1>. QED  BY <1>3, <1>4, <1>5, <1>6, <1>7, <1>8, <1>9, <1>10 DEF Next, Drainer

\* At first nothing is accepted.
LEMMA OwnedInit == Init => Owned(chat) /\ Working
BY NoOpIsNoOp DEF Init, InitialChat, Owned, Working, Nobody, Fates

\* Every accepted input is in one place, in every reachable state.
LEMMA OwnedInvariance == Spec => [](Owned(chat) /\ Working)
<1>1. IInv /\ Owned(chat) /\ Working /\ [Next]_vars => Owned(chat)' /\ Working'
  <2>. SUFFICES ASSUME IInv, Owned(chat), Working, [Next]_vars  PROVE Owned(chat') /\ Working'
    OBVIOUS
  <2>. QED  BY NextMoves, MovesOwned, NextWorking
<1>. QED  BY <1>1, OwnedInit, Invariance, PTL DEF Spec

\* One place of a waiting input, none of any other.
LEMMA PlacesCount ==
    ASSUME Owned(chat), NEW op \in Ops
    PROVE  Cardinality(Places(op)) =
             IF \E i \in 1 .. Len(chat.queue) : chat.queue[i] = op THEN 1 ELSE 0
<1>1. DOMAIN chat.queue = 1 .. Len(chat.queue)
  BY DEF Owned
<1>2. ASSUME NEW i \in 1 .. Len(chat.queue), chat.queue[i] = op
      PROVE  Places(op) = {i}
  BY <1>1, <1>2 DEF Places, Owned
<1>3. ASSUME ~\E i \in 1 .. Len(chat.queue) : chat.queue[i] = op
      PROVE  Places(op) = {}
  BY <1>1, <1>3 DEF Places
<1>. QED  BY <1>2, <1>3, FS_EmptySet, FS_Singleton

\* An operation the chat accepted is owned exactly once in every reachable
\* state: it waits, or is the foreground, or is settled.  No command, receipt,
\* fault or restart drops an input or runs it twice.
THEOREM OwnedOnce == Spec => []OneOwner
<1>1. Owned(chat) => OneOwner
  <2>. SUFFICES ASSUME Owned(chat), NEW op \in Ops
                PROVE  LET waits == Cardinality(Places(op))
                           runs  == IF chat.fg = op THEN 1 ELSE 0
                           done  == IF chat.fate[op] = "open" THEN 0 ELSE 1
                       IN  waits + runs + done = IF chat.lane[op] = NoLane THEN 0 ELSE 1
    BY DEF OneOwner
  <2>1. op # NoOp
    BY NoOpIsNoOp
  <2>2. CASE \E i \in 1 .. Len(chat.queue) : chat.queue[i] = op
    <3>1. chat.fg # op /\ chat.fate[op] = "open" /\ chat.lane[op] # NoLane
      BY <2>2 DEF Owned
    <3>. QED  BY <2>2, <3>1, PlacesCount
  <2>3. CASE chat.fg = op /\ ~\E i \in 1 .. Len(chat.queue) : chat.queue[i] = op
    <3>1. chat.fate[op] = "open" /\ chat.lane[op] # NoLane
      BY <2>1, <2>3 DEF Owned
    <3>. QED  BY <2>3, <3>1, PlacesCount
  <2>4. CASE chat.fg # op /\ ~\E i \in 1 .. Len(chat.queue) : chat.queue[i] = op
    <3>1. chat.fate[op] = "open" <=> chat.lane[op] = NoLane
      BY <2>4 DEF Owned
    <3>. QED  BY <2>4, <3>1, PlacesCount
  <2>. QED  BY <2>2, <2>3, <2>4
<1>. QED  BY <1>1, OwnedInvariance, PTL
=============================================================================
