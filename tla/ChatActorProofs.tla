--------------------------- MODULE ChatActorProofs --------------------------
(***************************************************************************)
(* Theorems about the running chat of ChatActor, for every set of lanes    *)
(* and inputs and every bound.                                             *)
(***************************************************************************)
EXTENDS ChatActor, ChatReducerProofs

\* What the coordinator, the lanes and the binding store look like, and that
\* an effect in hand is a known one.
ActorOK ==
    /\ host \in [Lanes -> Nat]
    /\ worker \in [Lanes -> [op : Ops \union {NoOp}, at : WorkerStages]]
    /\ failing \in [Lanes -> Failures]
    /\ exec \in [kind : {"none", "create", "resume", "start"}, lane : Lanes \union {NoLane},
                 op : Ops \union {NoOp}, gen : Nat, recon : BOOLEAN,
                 at : Stages, absent : BOOLEAN]
    /\ exec.kind # "none" => exec.lane \in Lanes
    /\ exec.kind = "start" => exec.op \in Ops
    /\ exec.at = "claimed" => exec.kind # "none"
    /\ exec.at = "bound" => exec.kind = "create"
    /\ lost \subseteq Lanes \X Nat
    /\ {draining, wake, closing} \subseteq BOOLEAN
    /\ bind \in [Lanes -> [id : Nat, committed : BOOLEAN]]
    /\ minted \in [Lanes -> Nat]
    /\ sent \in [Ops -> Nat]
    /\ used \subseteq Lanes \X Nat
    /\ spent \in [faults : Nat, restarts : Nat, stops : Nat]

\* The inductive invariant.
IInv == chat \in Placed /\ ActorOK

\* The inductive invariant implies the type invariant.
LEMMA IInvTypeOK == IInv => TypeOK
BY DEF IInv, ActorOK, TypeOK, Placed

\* The inductive invariant holds initially.
LEMMA IInvInit == Init => IInv
<1>. SUFFICES ASSUME Init PROVE IInv
  OBVIOUS
<1>1. InitialChat \in Chat
  BY DEF InitialChat, Chat, Phases, Fates
<1>2. InitialChat.queue = <<>> /\ InitialChat.fg = NoOp
  BY DEF InitialChat
<1>3. InitialChat \in Placed
  <2>. HIDE DEF InitialChat
  <2>. QED  BY <1>1, <1>2 DEF Placed
<1>4. ActorOK
  BY NoOpIsNoOp DEF Init, ActorOK, Idle, Nobody, Stages, WorkerStages, Failures
<1>. QED  BY <1>3, <1>4 DEF Init, IInv

(***************************************************************************)
(* Every step takes the chat to a placed one and keeps its threads.        *)
(***************************************************************************)
\* A step that leaves the chat alone.
LEMMA StayKept ==
    ASSUME NEW c \in Placed
    PROVE  c \in Placed /\ Kept(c, c)
BY DEF Kept

\* The loss of an attachment, current or stale, as the coordinator reports it.
LEMMA DetachedPlaced ==
    ASSUME chat \in Placed, NEW l \in Lanes
    PROVE  Detached(l) \in Placed /\ Kept(chat, Detached(l))
BY StayKept, HostLostPlaced DEF Detached

\* The end of an attachment whose event the reducer refused.
LEMMA ProtocolFailedPlaced ==
    ASSUME chat \in Placed, NEW l \in Lanes, ProtocolFailed(l)
    PROVE  chat' \in Placed /\ Kept(chat, chat')
BY LaneProtocolFailedPlaced DEF ProtocolFailed

\* A failed open call, settled or not.
LEMMA OpenFailurePlaced ==
    ASSUME chat \in Placed, NEW l \in Lanes, NEW ambiguous \in BOOLEAN, OpenFailure(l, ambiguous)
    PROVE  chat' \in Placed /\ Kept(chat, chat')
BY StayKept, LaneOpenFailedPlaced DEF OpenFailure

\* Claiming effects of the outbox.
LEMMA MarkPlaced ==
    ASSUME NEW c \in Placed, NEW ids,
           NEW d, d = [c EXCEPT !.outbox = Mark(c.outbox, ids, "dispatched")]
    PROVE  d \in Placed /\ Kept(c, d)
<1>1. c \in Chat /\ Mark(c.outbox, ids, "dispatched") \in Seq(Entry)
  BY MarkType DEF Placed, Chat, Statuses
<1>2. /\ d \in Chat /\ d.queue = c.queue /\ d.fg = c.fg /\ d.lane = c.lane
      /\ d.thread = c.thread
  BY <1>1 DEF Chat
<1>. QED  BY <1>2, Frame, SameThread

\* The commands of the user.
LEMMA UsersPlaced ==
    ASSUME IInv, Users
    PROVE  chat' \in Placed /\ Kept(chat, chat')
<1>. chat \in Placed
  BY DEF IInv
<1>1. ASSUME NEW l \in Lanes, Select(l)  PROVE chat' \in Placed /\ Kept(chat, chat')
  BY <1>1, SelectLanePlaced DEF Select, Command
<1>2. ASSUME NEW i \in Inputs, NEW l \in Lanes, SubmitInput(i, l)
      PROVE  chat' \in Placed /\ Kept(chat, chat')
  <2>1. <<i, 0>> \in Ops
    BY ChatAssumption DEF Ops
  <2>. QED  BY <1>2, <2>1, SubmitPlaced DEF SubmitInput, Command
<1>3. ASSUME NEW op \in Ops, WithdrawInput(op)  PROVE chat' \in Placed /\ Kept(chat, chat')
  BY <1>3, WithdrawPlaced DEF WithdrawInput, Command
<1>4. ASSUME Stop  PROVE chat' \in Placed /\ Kept(chat, chat')
  BY <1>4, StopPlaced DEF Stop, Command
<1>. QED  BY <1>1, <1>2, <1>3, <1>4 DEF Users

\* The Stop executor.
LEMMA StopperPlaced ==
    ASSUME IInv, Stopper
    PROVE  chat' \in Placed /\ Kept(chat, chat')
<1>. chat \in Placed
  BY DEF IInv
<1>1. CASE ClaimStop
  <2>1. chat' = [chat EXCEPT !.outbox = Mark(chat.outbox, CurrentStop(chat), "dispatched")]
    BY <1>1 DEF ClaimStop
  <2>. QED  BY <2>1, MarkPlaced
<1>2. CASE StopDelivered
  BY <1>2, StopAnsweredPlaced DEF StopDelivered
<1>3. CASE StopRejected
  BY <1>3, StopAnsweredPlaced DEF StopRejected
<1>. QED  BY <1>1, <1>2, <1>3 DEF Stopper

\* The report of an opened lane, accepted or refused.
LEMMA ReportPlaced ==
    ASSUME IInv, exec.lane \in Lanes, NEW opens \in BOOLEAN, NEW opened,
           opens => opened \in Placed /\ Kept(chat, opened), ReportOpened(opens, opened)
    PROVE  chat' \in Placed /\ Kept(chat, chat')
<1>. chat \in Placed
  BY DEF IInv
<1>1. CASE opens
  BY <1>1 DEF ReportOpened
<1>2. CASE ~opens
  BY <1>2, OpenFailurePlaced, StayKept DEF ReportOpened
<1>. QED  BY <1>1, <1>2

\* The steps that open a lane.
LEMMA OpenerPlaced ==
    ASSUME IInv, Opener
    PROVE  chat' \in Placed /\ Kept(chat, chat')
<1>. chat \in Placed /\ ActorOK
  BY DEF IInv
<1>0. /\ exec.kind # "none" => exec.lane \in Lanes
      /\ exec.at = "bound" => exec.kind = "create"
      /\ exec.gen \in Nat /\ {exec.recon, exec.absent} \subseteq BOOLEAN
      /\ \A l \in Lanes : bind[l].id \in Nat
  BY DEF ActorOK
<1>1. CASE RetireAttachment
  BY <1>0, <1>1, StayKept, DetachedPlaced DEF RetireAttachment
<1>2. CASE CreateMinted \/ CreateReattached
  BY <1>2, StayKept DEF CreateMinted, CreateReattached
<1>3. CASE CreateRefused
  BY <1>0, <1>3, OpenFailurePlaced DEF CreateRefused, Creating
<1>4. CASE CreateFailed
  BY <1>0, <1>4, OpenFailurePlaced DEF CreateFailed, Creating
<1>5. CASE CreateUncertain
  BY <1>0, <1>5, OpenFailurePlaced DEF CreateUncertain, Creating
<1>6. CASE ReportCreated
  <2>. DEFINE l == exec.lane
  <2>1. l \in Lanes /\ bind[l].id \in Nat /\ exec.absent \in BOOLEAN
    BY <1>0, <1>6 DEF ReportCreated
  <2>2. PICK covered \in BOOLEAN :
          IF bind[l].committed
          THEN ReportOpened(CanOpen(chat, l, bind[l].id),
                            LaneOpened(chat, l, exec.gen, bind[l].id, covered))
          ELSE ReportOpened(CanProvision(chat, l, bind[l].id, exec.absent),
                            LaneProvisioned(chat, l, exec.gen, bind[l].id, exec.absent))
    BY <1>6 DEF ReportCreated
  <2>3. CanOpen(chat, l, bind[l].id) =>
          /\ LaneOpened(chat, l, exec.gen, bind[l].id, covered) \in Placed
          /\ Kept(chat, LaneOpened(chat, l, exec.gen, bind[l].id, covered))
    BY <1>0, <2>1, LaneOpenedPlaced
  <2>4. /\ LaneProvisioned(chat, l, exec.gen, bind[l].id, exec.absent) \in Placed
        /\ Kept(chat, LaneProvisioned(chat, l, exec.gen, bind[l].id, exec.absent))
    BY <1>0, <2>1, LaneProvisionedPlaced
  <2>5. /\ CanOpen(chat, l, bind[l].id) \in BOOLEAN
        /\ CanProvision(chat, l, bind[l].id, exec.absent) \in BOOLEAN
    BY DEF CanOpen, CanProvision
  <2>. QED  BY <2>1, <2>2, <2>3, <2>4, <2>5, ReportPlaced
<1>7. CASE ReportResumed
  <2>. DEFINE l == exec.lane
  <2>1. l \in Lanes /\ chat.thread[l] \in Nat
    BY <1>0, <1>7 DEF ReportResumed, Resuming, Placed, Chat
  <2>2. PICK covered \in BOOLEAN :
          ReportOpened(CanOpen(chat, l, chat.thread[l]),
                       LaneOpened(chat, l, exec.gen, chat.thread[l], covered))
    BY <1>7 DEF ReportResumed
  <2>3. CanOpen(chat, l, chat.thread[l]) =>
          /\ LaneOpened(chat, l, exec.gen, chat.thread[l], covered) \in Placed
          /\ Kept(chat, LaneOpened(chat, l, exec.gen, chat.thread[l], covered))
    BY <1>0, <2>1, LaneOpenedPlaced
  <2>4. CanOpen(chat, l, chat.thread[l]) \in BOOLEAN
    BY DEF CanOpen
  <2>. QED  BY <2>1, <2>2, <2>3, <2>4, ReportPlaced
<1>8. CASE ResumeFailed
  BY <1>0, <1>8, OpenFailurePlaced DEF ResumeFailed, Resuming
<1>. QED  BY <1>1, <1>2, <1>3, <1>4, <1>5, <1>6, <1>7, <1>8 DEF Opener

\* The steps that start a turn.
LEMMA StarterPlaced ==
    ASSUME IInv, Starter
    PROVE  chat' \in Placed /\ Kept(chat, chat')
<1>. chat \in Placed
  BY DEF IInv
<1>1. CASE StartUnattached
  BY <1>1, StayKept, TurnDeferredPlaced DEF StartUnattached
<1>2. CASE StartCalled \/ AdmissionReturned
  BY <1>2, StayKept DEF StartCalled, AdmissionReturned
<1>3. CASE CommitAdmission
  BY <1>3, TurnAdmittedPlaced DEF CommitAdmission
<1>4. CASE StartFailed
  BY <1>4, StayKept, TurnDeferredPlaced, TurnRefusedPlaced DEF StartFailed
<1>5. CASE StartUncertain
  BY <1>5, TurnAmbiguousPlaced DEF StartUncertain
<1>. QED  BY <1>1, <1>2, <1>3, <1>4, <1>5 DEF Starter

\* The draining goroutine.
LEMMA DrainerPlaced ==
    ASSUME IInv, Drainer
    PROVE  chat' \in Placed /\ Kept(chat, chat')
<1>. chat \in Placed
  BY DEF IInv
<1>1. CASE Claim
  <2>1. PICK i \in Claimable :
          chat' = [chat EXCEPT !.outbox = Mark(chat.outbox, {i}, "dispatched")]
    BY <1>1 DEF Claim
  <2>. QED  BY <2>1, MarkPlaced
<1>2. CASE DrainSettled
  BY <1>2, StayKept DEF DrainSettled
<1>. QED  BY <1>1, <1>2, OpenerPlaced, StarterPlaced DEF Drainer

\* The worker of an admitted turn.
LEMMA WorkerPlaced ==
    ASSUME IInv, NEW l \in Lanes, Worker(l)
    PROVE  chat' \in Placed /\ Kept(chat, chat')
<1>. chat \in Placed
  BY DEF IInv
<1>1. CASE WritePrompt(l) \/ TakeInput(l)
  BY <1>1, StayKept DEF WritePrompt, TakeInput
<1>2. CASE ConfirmInput(l)
  <2>. DEFINE t == IF chat.cand[l] = 0 THEN 0 ELSE bind[l].id
  <2>1. t \in Nat
    BY DEF IInv, ActorOK
  <2>2. CASE Current(l) /\ CanConsume(chat, worker[l].op, t)
    BY <1>2, <2>1, <2>2, InputConsumedPlaced DEF ConfirmInput, Event
  <2>3. CASE ~(Current(l) /\ CanConsume(chat, worker[l].op, t))
    <3>1. ProtocolFailed(l)
      BY <1>2, <2>3 DEF ConfirmInput
    <3>. QED  BY <3>1, ProtocolFailedPlaced
  <2>. QED  BY <2>2, <2>3
<1>3. CASE EndTurn(l)
  <2>1. CASE Current(l) /\ chat.fg = worker[l].op
    <3>1. PICK interrupted \in {FALSE, closing}, covered \in BOOLEAN :
            chat' = TurnTerminated(chat, interrupted, covered)
      BY <1>3, <2>1 DEF EndTurn, Event
    <3>2. interrupted \in BOOLEAN
      BY <3>1 DEF IInv, ActorOK
    <3>. QED  BY <3>1, <3>2, TurnTerminatedPlaced
  <2>2. CASE ~(Current(l) /\ chat.fg = worker[l].op)
    <3>1. ProtocolFailed(l)
      BY <1>3, <2>2 DEF EndTurn
    <3>. QED  BY <3>1, ProtocolFailedPlaced
  <2>. QED  BY <2>1, <2>2
<1>. QED  BY <1>1, <1>2, <1>3 DEF Worker

\* The faults of a lane.
LEMMA BreaksPlaced ==
    ASSUME IInv, NEW l \in Lanes, Breaks(l)
    PROVE  chat' \in Placed /\ Kept(chat, chat')
<1>. chat \in Placed
  BY DEF IInv
<1>1. CASE DetachLane(l)
  BY <1>1, StayKept, DetachedPlaced DEF DetachLane, Event
<1>2. CASE StreamClosed(l)
  BY <1>2, StayKept DEF StreamClosed, CloseStream
<1>3. CASE EventRefused(l)
  BY <1>3, ProtocolFailedPlaced DEF EventRefused
<1>4. CASE HealthFailed(l)
  BY <1>4, LaneUnhealthyPlaced DEF HealthFailed, Event
<1>. QED  BY <1>1, <1>2, <1>3, <1>4 DEF Breaks

\* The end of a failing lane.
LEMMA TeardownPlaced ==
    ASSUME IInv, NEW l \in Lanes, Teardown(l)
    PROVE  chat' \in Placed /\ Kept(chat, chat')
BY StayKept DEF IInv, Teardown, CloseStream

\* Every step takes a placed chat to a placed one and loses no thread.
LEMMA NextPlaced ==
    ASSUME IInv, [Next]_vars
    PROVE  chat' \in Placed /\ Kept(chat, chat')
<1>. chat \in Placed
  BY DEF IInv
<1>1. ASSUME NEW loss \in lost, LossCommitted(loss)
      PROVE  chat' \in Placed /\ Kept(chat, chat')
  <2>1. loss[1] \in Lanes
    BY DEF IInv, ActorOK
  <2>. QED  BY <1>1, <2>1, HostLostPlaced DEF LossCommitted, Event
<1>2. CASE Close
  BY <1>2, StayKept DEF Close
<1>3. CASE Restart
  <2>1. PICK order \in Orders(NeedsEffect(Reread(chat))) : chat' = RecoverOutbox(chat, order)
    BY <1>3 DEF Restart
  <2>. QED  BY <2>1, RecoverOutboxPlaced
<1>4. CASE UNCHANGED vars
  BY <1>4, StayKept DEF vars
<1>. QED
  BY <1>1, <1>2, <1>3, <1>4, UsersPlaced, StopperPlaced, DrainerPlaced, WorkerPlaced, BreaksPlaced,
     TeardownPlaced
  DEF Next

(***************************************************************************)
(* Every step keeps the rest of the inductive invariant.                   *)
(***************************************************************************)
\* The commands of the user only wake the drain.
LEMMA UsersOK ==
    ASSUME IInv, Users
    PROVE  ActorOK'
<1>1. /\ UNCHANGED <<host, worker, failing, exec, lost, draining, closing, nativeVars>>
      /\ wake' = TRUE
      /\ spent' = spent \/ spent' = [spent EXCEPT !.stops = @ + 1]
  BY DEF Users, Select, SubmitInput, WithdrawInput, Stop, Command, laneVars
<1>2. spent' \in [faults : Nat, restarts : Nat, stops : Nat]
  BY <1>1 DEF IInv, ActorOK
<1>. QED  BY <1>1, <1>2 DEF IInv, ActorOK, nativeVars

\* The Stop executor changes the chat alone.
LEMMA StopperOK ==
    ASSUME IInv, Stopper
    PROVE  ActorOK'
<1>1. /\ UNCHANGED <<host, worker, failing, drainVars, lost, closing, nativeVars>>
      /\ spent' = spent \/ spent' = [spent EXCEPT !.faults = @ + 1]
  BY DEF Stopper, ClaimStop, StopDelivered, StopRejected, Fault, laneVars
<1>2. spent' \in [faults : Nat, restarts : Nat, stops : Nat]
  BY <1>1 DEF IInv, ActorOK
<1>. QED  BY <1>1, <1>2 DEF IInv, ActorOK, nativeVars, drainVars

\* ExecuteNext returns with nothing in hand.
LEMMA ReturnOK ==
    ASSUME ActorOK, NEW failed \in BOOLEAN, Return(failed)
    PROVE  /\ exec' = Idle /\ draining' \in BOOLEAN
           /\ exec' \in [kind : {"none", "create", "resume", "start"}, lane : Lanes \union {NoLane},
                          op : Ops \union {NoOp}, gen : Nat, recon : BOOLEAN,
                          at : Stages, absent : BOOLEAN]
           /\ exec'.kind = "none" /\ exec'.at = "idle"
BY DEF Return, Idle, Stages

\* A fault is counted.
LEMMA FaultOK ==
    ASSUME ActorOK, Fault
    PROVE  spent' \in [faults : Nat, restarts : Nat, stops : Nat]
BY DEF Fault, ActorOK

\* A failed open call leaves the coordinator idle.
LEMMA OpenFailureOK ==
    ASSUME ActorOK, NEW l, NEW ambiguous, OpenFailure(l, ambiguous),
           UNCHANGED <<host, worker, failing, lost, wake, closing, minted, sent, used>>,
           bind' \in [Lanes -> [id : Nat, committed : BOOLEAN]],
           spent' \in [faults : Nat, restarts : Nat, stops : Nat]
    PROVE  ActorOK'
<1>1. Return(~closing)
  BY DEF OpenFailure
<1>. QED  BY <1>1, ReturnOK DEF ActorOK

\* The report of an opened lane attaches it or discards it.
LEMMA ReportOK ==
    ASSUME ActorOK, exec.lane \in Lanes, NEW opens \in BOOLEAN, NEW opened,
           ReportOpened(opens, opened), UNCHANGED <<worker, failing, lost, wake, closing, nativeVars, spent>>
    PROVE  ActorOK'
<1>1. \E failed \in BOOLEAN : Return(failed)
  BY DEF ReportOpened, OpenFailure
<1>2. host' = [host EXCEPT ![exec.lane] = exec.gen] \/ host' = [host EXCEPT ![exec.lane] = 0]
  BY DEF ReportOpened
<1>3. host \in [Lanes -> Nat] /\ exec.gen \in Nat
  BY DEF ActorOK
<1>4. host' \in [Lanes -> Nat]
  BY <1>2, <1>3
<1>. QED  BY <1>1, <1>4, ReturnOK DEF ActorOK, nativeVars

\* Releasing an attachment.
LEMMA ReleaseOK ==
    ASSUME ActorOK, NEW l, Release(l)
    PROVE  /\ host' \in [Lanes -> Nat]
           /\ worker' \in [Lanes -> [op : Ops \union {NoOp}, at : WorkerStages]]
           /\ failing' \in [Lanes -> Failures]
BY DEF ActorOK, Release, Nobody, WorkerStages, Failures

\* The steps that open a lane.
LEMMA OpenerOK ==
    ASSUME IInv, Opener
    PROVE  ActorOK'
<1>. ActorOK
  BY DEF IInv
<1>1. CASE RetireAttachment
  <2>1. /\ exec' = [exec EXCEPT !.at = "calling"]
        /\ UNCHANGED <<host, worker, failing>> \/ Release(exec.lane)
        /\ wake' = wake \/ wake' = (wake \/ host[exec.lane] = chat.gen[exec.lane])
        /\ lost' = lost \/ lost' = lost \union {<<exec.lane, host[exec.lane]>>}
        /\ UNCHANGED <<draining, closing, nativeVars, spent>> /\ exec.kind # "none"
    BY <1>1 DEF RetireAttachment, laneVars
  <2>2. /\ host' \in [Lanes -> Nat] /\ wake' \in BOOLEAN
        /\ worker' \in [Lanes -> [op : Ops \union {NoOp}, at : WorkerStages]]
        /\ failing' \in [Lanes -> Failures]
    BY <2>1, ReleaseOK DEF ActorOK
  <2>3. lost' \subseteq Lanes \X Nat
    BY <2>1 DEF ActorOK
  <2>. QED  BY <2>1, <2>2, <2>3 DEF ActorOK, nativeVars, Stages
<1>2. CASE CreateMinted
  <2>. DEFINE l == exec.lane
  <2>1. /\ minted' = [minted EXCEPT ![l] = @ + 1]
        /\ bind' = [bind EXCEPT ![l] = [id |-> minted[l] + 1, committed |-> l \notin Deferred]]
        /\ exec' = [exec EXCEPT !.at = "bound", !.absent = Vanished(l)]
        /\ UNCHANGED <<host, worker, failing, lost, draining, wake, closing, sent, used, spent>>
        /\ exec.kind = "create"
    BY <1>2 DEF CreateMinted, Creating, laneVars
  <2>2. l \in Lanes
    BY <2>1 DEF ActorOK
  <2>3. bind' \in [Lanes -> [id : Nat, committed : BOOLEAN]] /\ minted' \in [Lanes -> Nat]
    BY <2>1, <2>2 DEF ActorOK
  <2>4. Vanished(l) \in BOOLEAN
    BY <2>2 DEF Vanished, ActorOK
  <2>. QED  BY <2>1, <2>3, <2>4 DEF ActorOK, Stages
<1>3. CASE CreateReattached
  <2>1. /\ bind' = [bind EXCEPT ![exec.lane].committed = TRUE]
        /\ exec' = [exec EXCEPT !.at = "bound"]
        /\ UNCHANGED <<host, worker, failing, lost, draining, wake, closing, minted, sent, used, spent>>
        /\ exec.kind = "create"
    BY <1>3 DEF CreateReattached, Creating, laneVars
  <2>2. bind' \in [Lanes -> [id : Nat, committed : BOOLEAN]]
    BY <2>1 DEF ActorOK
  <2>. QED  BY <2>1, <2>2 DEF ActorOK, Stages
<1>4. CASE CreateRefused
  BY <1>4, OpenFailureOK DEF CreateRefused, nativeVars, laneVars, ActorOK
<1>5. CASE CreateFailed
  BY <1>5, FaultOK, OpenFailureOK DEF CreateFailed, nativeVars, laneVars, ActorOK
<1>6. CASE CreateUncertain
  <2>1. bind' \in [Lanes -> [id : Nat, committed : BOOLEAN]]
    BY <1>6 DEF CreateUncertain, ActorOK
  <2>. QED  BY <1>6, <2>1, FaultOK, OpenFailureOK DEF CreateUncertain, laneVars
<1>7. CASE ReportCreated
  <2>1. exec.lane \in Lanes
    BY <1>7 DEF ReportCreated, ActorOK
  <2>2. \E opens \in BOOLEAN : \E opened : ReportOpened(opens, opened)
    BY <1>7 DEF ReportCreated, CanOpen, CanProvision
  <2>3. UNCHANGED <<worker, failing, lost, wake, closing, nativeVars, spent>>
    BY <1>7 DEF ReportCreated
  <2>. QED  BY <2>1, <2>2, <2>3, ReportOK
<1>8. CASE ReportResumed
  <2>1. exec.lane \in Lanes
    BY <1>8 DEF ReportResumed, Resuming, ActorOK
  <2>2. \E opens \in BOOLEAN : \E opened : ReportOpened(opens, opened)
    BY <1>8 DEF ReportResumed, CanOpen
  <2>3. UNCHANGED <<worker, failing, lost, wake, closing, nativeVars, spent>>
    BY <1>8 DEF ReportResumed
  <2>. QED  BY <2>1, <2>2, <2>3, ReportOK
<1>9. CASE ResumeFailed
  BY <1>9, FaultOK, OpenFailureOK DEF ResumeFailed, nativeVars, laneVars, ActorOK
<1>. QED  BY <1>1, <1>2, <1>3, <1>4, <1>5, <1>6, <1>7, <1>8, <1>9 DEF Opener

\* The steps that start a turn.
LEMMA StarterOK ==
    ASSUME IInv, Starter
    PROVE  ActorOK'
<1>. ActorOK
  BY DEF IInv
<1>1. CASE StartCalled
  BY <1>1 DEF StartCalled, ActorOK, Stages, nativeVars, laneVars
<1>2. CASE CommitAdmission
  <2>1. /\ worker' = [worker EXCEPT ![exec.lane] = [op |-> exec.op, at |-> "admitted"]]
        /\ exec' = [exec EXCEPT !.at = "returning"]
        /\ UNCHANGED <<host, failing, lost, draining, wake, closing, nativeVars, spent>>
    BY <1>2 DEF CommitAdmission
  <2>2. worker' \in [Lanes -> [op : Ops \union {NoOp}, at : WorkerStages]]
    BY <2>1 DEF ActorOK, WorkerStages
  <2>. QED  BY <2>1, <2>2 DEF ActorOK, Stages, nativeVars
<1>3. CASE StartUnattached \/ AdmissionReturned \/ StartFailed \/ StartUncertain
  <2>1. UNCHANGED <<host, worker, failing, lost, wake, closing, nativeVars>>
    BY <1>3 DEF StartUnattached, AdmissionReturned, StartFailed, StartUncertain, laneVars
  <2>2. spent' \in [faults : Nat, restarts : Nat, stops : Nat]
    BY <1>3, FaultOK DEF StartUnattached, AdmissionReturned, StartFailed, StartUncertain, ActorOK
  <2>3. \E failed \in BOOLEAN : Return(failed)
    BY <1>3 DEF StartUnattached, AdmissionReturned, StartFailed, StartUncertain
  <2>. QED  BY <2>1, <2>2, <2>3, ReturnOK DEF ActorOK, nativeVars
<1>. QED  BY <1>1, <1>2, <1>3 DEF Starter

\* The draining goroutine claims an effect of the outbox, so a known one.
LEMMA DrainerOK ==
    ASSUME IInv, Drainer
    PROVE  ActorOK'
<1>. ActorOK
  BY DEF IInv
<1>1. CASE Claim
  <2>1. PICK i \in Claimable :
          LET e == chat.outbox[i] IN
          exec' = [kind |-> e.kind, lane |-> e.lane, op |-> e.op, gen |-> e.gen,
                   recon |-> e.recon, at |-> "claimed", absent |-> FALSE]
    BY <1>1 DEF Claim
  <2>2. chat.outbox[i] \in Entry /\ chat.outbox[i].kind # "stop"
    BY <2>1 DEF Claimable, IInv, Placed, Chat
  <2>3. /\ exec' \in [kind : {"none", "create", "resume", "start"}, lane : Lanes \union {NoLane},
                       op : Ops \union {NoOp}, gen : Nat, recon : BOOLEAN,
                       at : Stages, absent : BOOLEAN]
        /\ exec'.lane \in Lanes /\ exec'.kind # "none" /\ exec'.at = "claimed"
        /\ exec'.kind = "start" => exec'.op \in Ops
    BY <2>1, <2>2 DEF Entry, Kinds, Stages
  <2>4. {draining', wake'} \subseteq BOOLEAN
    BY <1>1 DEF Claim, ActorOK
  <2>. QED  BY <1>1, <2>3, <2>4 DEF Claim, ActorOK, nativeVars, laneVars
<1>2. CASE DrainSettled
  BY <1>2 DEF DrainSettled, ActorOK, nativeVars, laneVars
<1>. QED  BY <1>1, <1>2, OpenerOK, StarterOK DEF Drainer

\* The failure of a lane whose event the reducer refused.
LEMMA ProtocolFailedOK ==
    ASSUME ActorOK, NEW l, ProtocolFailed(l)
    PROVE  UNCHANGED <<host, wake>> /\ failing' \in [Lanes -> Failures]
BY DEF ProtocolFailed, ActorOK, Failures

\* The worker of an admitted turn.
LEMMA WorkerOK ==
    ASSUME IInv, NEW l \in Lanes, Worker(l)
    PROVE  ActorOK'
<1>. ActorOK
  BY DEF IInv
<1>1. CASE WritePrompt(l)
  <2>1. /\ worker' = [worker EXCEPT ![l].at = "sent"]
        /\ sent' = [sent EXCEPT ![worker[l].op] = @ + 1]
        /\ UNCHANGED <<host, failing, drainVars, lost, closing, bind, minted, used, spent>>
    BY <1>1 DEF WritePrompt
  <2>2. worker' \in [Lanes -> [op : Ops \union {NoOp}, at : WorkerStages]]
    BY <2>1 DEF ActorOK, WorkerStages
  <2>3. sent' \in [Ops -> Nat]
    <3>. DEFINE op == worker[l].op
                count == sent[op] + 1
    <3>1. sent \in [Ops -> Nat]
      BY DEF ActorOK
    <3>2. op \in Ops => count \in Nat
      BY <3>1
    <3>3. sent' = [sent EXCEPT ![op] = count]
      BY <2>1
    <3>. HIDE DEF op, count
    <3>. QED  BY <3>1, <3>2, <3>3
  <2>. QED  BY <2>1, <2>2, <2>3 DEF ActorOK, drainVars
<1>2. CASE TakeInput(l)
  <2>1. /\ worker' = [worker EXCEPT ![l].at = "taken"]
        /\ used' = used \union {<<l, bind[l].id>>}
        /\ bind' = [bind EXCEPT ![l].committed = TRUE]
        /\ UNCHANGED <<host, failing, drainVars, lost, closing, minted, sent, spent>>
    BY <1>2 DEF TakeInput
  <2>2. worker' \in [Lanes -> [op : Ops \union {NoOp}, at : WorkerStages]]
    BY <2>1 DEF ActorOK, WorkerStages
  <2>3. bind' \in [Lanes -> [id : Nat, committed : BOOLEAN]] /\ used' \subseteq Lanes \X Nat
    <3>1. bind \in [Lanes -> [id : Nat, committed : BOOLEAN]] /\ used \subseteq Lanes \X Nat
      BY DEF ActorOK
    <3>2. bind' \in [Lanes -> [id : Nat, committed : BOOLEAN]]
      BY <2>1, <3>1
    <3>3. <<l, bind[l].id>> \in Lanes \X Nat
      BY <3>1
    <3>. QED  BY <2>1, <3>1, <3>2, <3>3
  <2>. QED  BY <2>1, <2>2, <2>3 DEF ActorOK, drainVars
<1>3. CASE ConfirmInput(l) \/ EndTurn(l)
  <2>1. /\ ProtocolFailed(l) \/ (UNCHANGED <<host, failing>> /\ wake' = TRUE)
        /\ \/ UNCHANGED worker
           \/ worker' = [worker EXCEPT ![l].at = "receipted"]
           \/ worker' = [worker EXCEPT ![l] = Nobody]
    BY <1>3 DEF ConfirmInput, EndTurn, Event
  <2>2. UNCHANGED <<exec, lost, draining, closing, nativeVars, spent>>
    BY <1>3 DEF ConfirmInput, EndTurn
  <2>3. host' \in [Lanes -> Nat] /\ failing' \in [Lanes -> Failures] /\ wake' \in BOOLEAN
    BY <2>1, ProtocolFailedOK DEF ActorOK
  <2>4. worker' \in [Lanes -> [op : Ops \union {NoOp}, at : WorkerStages]]
    <3>1. worker \in [Lanes -> [op : Ops \union {NoOp}, at : WorkerStages]]
      BY DEF ActorOK
    <3>2. Nobody \in [op : Ops \union {NoOp}, at : WorkerStages] /\ "receipted" \in WorkerStages
      BY DEF Nobody, WorkerStages
    <3>. QED  BY <2>1, <3>1, <3>2
  <2>. QED  BY <2>2, <2>3, <2>4 DEF ActorOK, nativeVars
<1>. QED  BY <1>1, <1>2, <1>3 DEF Worker

\* The event stream of an attachment closes.
LEMMA CloseStreamOK ==
    ASSUME ActorOK, NEW l \in Lanes, CloseStream(l),
           spent' \in [faults : Nat, restarts : Nat, stops : Nat]
    PROVE  ActorOK'
<1>1. Release(l) /\ UNCHANGED <<drainVars, closing, nativeVars>>
  BY DEF CloseStream
<1>2. lost' \subseteq Lanes \X Nat
  BY DEF CloseStream, ActorOK
<1>. QED  BY <1>1, <1>2, ReleaseOK DEF ActorOK, nativeVars, drainVars

\* The faults of a lane.
LEMMA BreaksOK ==
    ASSUME IInv, NEW l \in Lanes, Breaks(l)
    PROVE  ActorOK'
<1>. ActorOK
  BY DEF IInv
<1>1. CASE DetachLane(l)
  <2>1. spent' \in [faults : Nat, restarts : Nat, stops : Nat]
    BY <1>1, FaultOK DEF DetachLane, ActorOK
  <2>2. Release(l) /\ wake' \in BOOLEAN /\ UNCHANGED <<exec, lost, draining, closing, nativeVars>>
    BY <1>1 DEF DetachLane, Event, ActorOK
  <2>. QED  BY <2>1, <2>2, ReleaseOK DEF ActorOK, nativeVars
<1>2. CASE StreamClosed(l)
  BY <1>2, CloseStreamOK, FaultOK DEF StreamClosed
<1>3. CASE EventRefused(l)
  <2>1. ProtocolFailed(l) /\ Fault
        /\ UNCHANGED <<worker, exec, lost, draining, closing, nativeVars>>
    BY <1>3 DEF EventRefused
  <2>. QED  BY <2>1, ProtocolFailedOK, FaultOK DEF ActorOK, nativeVars
<1>4. CASE HealthFailed(l)
  <2>1. /\ Fault /\ wake' = TRUE /\ failing' = [failing EXCEPT ![l] = "health"]
        /\ UNCHANGED <<host, worker, exec, lost, draining, closing, nativeVars>>
    BY <1>4 DEF HealthFailed, Event
  <2>. QED  BY <2>1, FaultOK DEF ActorOK, nativeVars, Failures
<1>. QED  BY <1>1, <1>2, <1>3, <1>4 DEF Breaks

\* The end of a failing lane.
LEMMA TeardownOK ==
    ASSUME IInv, NEW l \in Lanes, Teardown(l)
    PROVE  ActorOK'
<1>. ActorOK
  BY DEF IInv
<1>1. CASE Release(l) /\ UNCHANGED <<chat, drainVars, lost, closing, nativeVars, spent>>
  BY <1>1, ReleaseOK DEF ActorOK, nativeVars, drainVars
<1>2. CASE CloseStream(l) /\ UNCHANGED spent
  BY <1>2, CloseStreamOK DEF ActorOK
<1>. QED  BY <1>1, <1>2 DEF Teardown

\* Every step keeps the process state well formed.
LEMMA NextOK ==
    ASSUME IInv, [Next]_vars
    PROVE  ActorOK'
<1>. ActorOK
  BY DEF IInv
<1>1. ASSUME NEW loss \in lost, LossCommitted(loss)  PROVE ActorOK'
  BY <1>1 DEF LossCommitted, Event, ActorOK, nativeVars, laneVars
<1>2. CASE Close
  BY <1>2 DEF Close, ActorOK, nativeVars, laneVars, drainVars
<1>3. CASE Restart
  <2>1. spent' \in [faults : Nat, restarts : Nat, stops : Nat]
    BY <1>3 DEF Restart, ActorOK
  <2>2. worker' \in [Lanes -> [op : Ops \union {NoOp}, at : WorkerStages]]
    BY <1>3 DEF Restart, Nobody, WorkerStages
  <2>3. failing' \in [Lanes -> Failures]
    BY <1>3 DEF Restart, Failures
  <2>. QED  BY <1>3, <2>1, <2>2, <2>3 DEF Restart, ActorOK, Idle, Stages, nativeVars
<1>4. CASE UNCHANGED vars
  BY <1>4 DEF vars, ActorOK
<1>. QED
  BY <1>1, <1>2, <1>3, <1>4, UsersOK, StopperOK, DrainerOK, WorkerOK, BreaksOK, TeardownOK
  DEF Next

(***************************************************************************)
(* The theorems.                                                           *)
(***************************************************************************)
\* The inductive invariant holds in every reachable state.
THEOREM Invariance == Spec => []IInv
<1>1. Init => IInv
  BY IInvInit
<1>2. IInv /\ [Next]_vars => IInv'
  <2>. SUFFICES ASSUME IInv, [Next]_vars  PROVE IInv'
    OBVIOUS
  <2>. QED  BY NextPlaced, NextOK DEF IInv
<1>. QED  BY <1>1, <1>2, PTL DEF Spec

\* Every variable has its type: the stored chat stays a well-formed record
\* through every command, receipt, fault and recovery, and the coordinator
\* never holds an effect whose lane or operation is unknown.
THEOREM TypeCorrect == Spec => []TypeOK
BY Invariance, IInvTypeOK, PTL

\* No receipt, failure, selection or restart replaces or forgets the native
\* thread of an established lane.
THEOREM ThreadsKept == Spec => ThreadKept
<1>1. IInv /\ [Next]_vars =>
        [\A l \in Lanes : chat.thread[l] # 0 => chat'.thread[l] = chat.thread[l]]_vars
  <2>. SUFFICES ASSUME IInv, [Next]_vars
                PROVE  \A l \in Lanes : chat.thread[l] # 0 => chat'.thread[l] = chat.thread[l]
    OBVIOUS
  <2>. QED  BY NextPlaced DEF Kept
<1>. QED  BY <1>1, Invariance, PTL DEF Spec, ThreadKept

(***************************************************************************)
(* The conversation of a lane stays with one native thread: of the threads *)
(* created for it, at most one ever takes an input.                        *)
(***************************************************************************)
Opens == exec.kind \in {"create", "resume"}

\* The inductive invariant.  A thread that took an input is the one the lane
\* is bound to, and committed; a worker has an attached lane, an attached lane
\* a bound thread; while a lane is being opened it is not attached.
Threads ==
    /\ \A u \in used : bind[u[1]].id = u[2] /\ bind[u[1]].committed
    /\ \A l \in Lanes : bind[l].committed => bind[l].id # 0
    /\ \A l \in Lanes : host[l] # 0 => bind[l].id # 0
    /\ \A l \in Lanes : worker[l].at # "none" \/ failing[l] # "no" => host[l] # 0
    /\ Opens /\ exec.at \in {"calling", "bound"} => host[exec.lane] = 0
    /\ exec.at = "bound" => bind[exec.lane].id # 0

\* Nothing is bound, attached or used at first.
LEMMA ThreadsInit == Init => Threads
BY DEF Init, Threads, Nobody, Idle, Opens

\* Steps that leave the bindings, the attachments and the effect in hand alone.
LEMMA ThreadsFrame ==
    ASSUME Threads, UNCHANGED <<host, worker, failing, exec, bind, used>>
    PROVE  Threads'
BY DEF Threads, Opens

\* Steps that release an attachment and touch no binding.
LEMMA ThreadsRelease ==
    ASSUME IInv, Threads, NEW l \in Lanes, Release(l), UNCHANGED <<exec, bind, used>>
    PROVE  Threads'
BY DEF IInv, ActorOK, Threads, Release, Nobody, Opens

\* Steps that let the effect in hand go and touch no attachment; a binding
\* they remove is that of the lane being opened, which no input used.
LEMMA ThreadsReturn ==
    ASSUME IInv, Threads, NEW failed, Return(failed), UNCHANGED <<worker, failing, used>>,
           \/ UNCHANGED <<host, bind>>
           \/ /\ exec.lane \in Lanes /\ UNCHANGED host
              /\ host[exec.lane] = 0 /\ \A u \in used : u[1] # exec.lane
              /\ bind' = [bind EXCEPT ![exec.lane] = [id |-> 0, committed |-> FALSE]]
    PROVE  Threads'
<1>1. exec' = Idle
  BY DEF Return
<1>2. CASE UNCHANGED <<host, bind>>
  BY <1>1, <1>2 DEF Threads, Idle, Opens
<1>3. CASE /\ exec.lane \in Lanes /\ UNCHANGED host
           /\ host[exec.lane] = 0 /\ \A u \in used : u[1] # exec.lane
           /\ bind' = [bind EXCEPT ![exec.lane] = [id |-> 0, committed |-> FALSE]]
  <2>1. bind \in [Lanes -> [id : Nat, committed : BOOLEAN]] /\ used \subseteq Lanes \X Nat
    BY DEF IInv, ActorOK
  <2>2. ~bind'[exec.lane].committed /\ \A k \in Lanes \ {exec.lane} : bind'[k] = bind[k]
    BY <1>3, <2>1
  <2>3. \A u \in used : u[1] \in Lanes \ {exec.lane}
    BY <1>3, <2>1
  <2>. QED  BY <1>1, <1>3, <2>2, <2>3 DEF Threads, Idle, Opens
<1>. QED  BY <1>2, <1>3

\* An open call may not replace a binding whose thread took an input.
LEMMA MintUnused ==
    ASSUME IInv, Threads, NEW l \in Lanes, MayMint(l)
    PROVE  \A u \in used : u[1] # l
<1>. SUFFICES ASSUME NEW u \in used, u[1] = l  PROVE FALSE
  OBVIOUS
<1>1. bind[l].id = u[2] /\ bind[l].committed /\ bind[l].id # 0
  BY DEF Threads
<1>. QED  BY <1>1 DEF MayMint, Bound, Vanished

\* The attachment of a lane that was opened has the thread that opened it.
LEMMA ThreadsReport ==
    ASSUME IInv, Threads, exec.lane \in Lanes, bind[exec.lane].id # 0, host[exec.lane] = 0,
           NEW opens, NEW opened, ReportOpened(opens, opened),
           UNCHANGED <<worker, failing, bind, used>>
    PROVE  Threads'
<1>1. exec' = Idle
  BY DEF ReportOpened, OpenFailure, Return
<1>2. host' = [host EXCEPT ![exec.lane] = exec.gen] \/ host' = [host EXCEPT ![exec.lane] = 0]
  BY DEF ReportOpened
<1>3. host \in [Lanes -> Nat]
  BY DEF IInv, ActorOK
<1>4. \A l \in Lanes : l # exec.lane => host'[l] = host[l]
  BY <1>2, <1>3
<1>. QED  BY <1>1, <1>4 DEF Threads, Idle, Opens

\* The steps that open a lane.
LEMMA OpenerThreads ==
    ASSUME IInv, Threads, Opener
    PROVE  Threads'
<1>0. /\ exec.kind # "none" => exec.lane \in Lanes
      /\ exec.at = "bound" => exec.kind = "create"
      /\ bind \in [Lanes -> [id : Nat, committed : BOOLEAN]]
      /\ exec \in [kind : {"none", "create", "resume", "start"}, lane : Lanes \union {NoLane},
                   op : Ops \union {NoOp}, gen : Nat, recon : BOOLEAN,
                   at : Stages, absent : BOOLEAN]
      /\ host \in [Lanes -> Nat] /\ minted \in [Lanes -> Nat]
  BY DEF IInv, ActorOK
<1>1. CASE RetireAttachment
  <2>1. /\ exec' = [exec EXCEPT !.at = "calling"] /\ UNCHANGED <<bind, used>>
        /\ exec.lane \in Lanes
        /\ \/ host[exec.lane] = 0 /\ UNCHANGED <<host, worker, failing>>
           \/ Release(exec.lane)
    BY <1>0, <1>1 DEF RetireAttachment, nativeVars, laneVars
  <2>2. host'[exec.lane] = 0 /\ exec'.lane = exec.lane /\ exec'.at = "calling"
    BY <1>0, <2>1 DEF Release
  <2>3. \A k \in Lanes : host'[k] # 0 => host[k] # 0
    BY <1>0, <2>1 DEF Release
  <2>4. \A k \in Lanes : worker'[k].at # "none" \/ failing'[k] # "no" => host'[k] # 0
    <3>1. CASE UNCHANGED <<host, worker, failing>>
      BY <3>1 DEF Threads
    <3>2. CASE Release(exec.lane)
      <4>1. /\ worker \in [Lanes -> [op : Ops \union {NoOp}, at : WorkerStages]]
            /\ failing \in [Lanes -> Failures]
        BY DEF IInv, ActorOK
      <4>2. /\ worker'[exec.lane].at = "none" /\ failing'[exec.lane] = "no"
            /\ \A k \in Lanes : k # exec.lane =>
                 worker'[k] = worker[k] /\ failing'[k] = failing[k] /\ host'[k] = host[k]
        BY <1>0, <2>1, <3>2, <4>1 DEF Release, Nobody
      <4>. QED  BY <4>2 DEF Threads
    <3>. QED  BY <2>1, <3>1, <3>2
  <2>. QED  BY <2>1, <2>2, <2>3, <2>4 DEF Threads
<1>2. CASE CreateMinted
  <2>. DEFINE l == exec.lane
  <2>1. /\ l \in Lanes /\ MayMint(l) /\ Creating /\ UNCHANGED <<host, worker, failing, used>>
        /\ bind' = [bind EXCEPT ![l] = [id |-> minted[l] + 1, committed |-> l \notin Deferred]]
        /\ exec' = [exec EXCEPT !.at = "bound", !.absent = Vanished(l)]
    BY <1>0, <1>2 DEF CreateMinted, Creating, laneVars
  <2>2. \A u \in used : u[1] # l
    BY <2>1, MintUnused
  <2>3. minted[l] + 1 # 0 /\ host[l] = 0 /\ exec'.at = "bound" /\ exec'.lane = l
    BY <1>0, <2>1 DEF Creating, Threads, Opens
  <2>4. bind'[l].id # 0 /\ \A k \in Lanes \ {l} : bind'[k] = bind[k]
    BY <1>0, <2>1, <2>3
  <2>5. \A u \in used : u[1] \in Lanes \ {l}
    BY <2>2 DEF IInv, ActorOK
  <2>. HIDE DEF l
  <2>. QED  BY <2>1, <2>3, <2>4, <2>5 DEF Threads
<1>3. CASE CreateReattached
  <2>. DEFINE l == exec.lane
  <2>1. /\ l \in Lanes /\ Creating /\ Bound(l) /\ UNCHANGED <<host, worker, failing, used>>
        /\ bind' = [bind EXCEPT ![l].committed = TRUE]
        /\ exec' = [exec EXCEPT !.at = "bound"]
    BY <1>0, <1>3 DEF CreateReattached, Creating, laneVars
  <2>2. host[l] = 0 /\ exec'.at = "bound" /\ exec'.lane = l
    BY <1>0, <2>1 DEF Creating, Threads, Opens
  <2>3. /\ bind'[l].id # 0 /\ bind'[l].committed
        /\ \A k \in Lanes : bind'[k].id = bind[k].id /\ (bind[k].committed => bind'[k].committed)
        /\ \A k \in Lanes : k # l => bind'[k] = bind[k]
    BY <1>0, <2>1 DEF Bound
  <2>4. \A u \in used : u[1] \in Lanes
    BY DEF IInv, ActorOK
  <2>. HIDE DEF l
  <2>. QED  BY <2>1, <2>2, <2>3, <2>4 DEF Threads
<1>4. CASE CreateRefused \/ CreateFailed \/ ResumeFailed
  <2>1. Return(~closing) /\ UNCHANGED <<host, worker, failing, bind, used>>
    BY <1>4 DEF CreateRefused, CreateFailed, ResumeFailed, OpenFailure, nativeVars, laneVars
  <2>. QED  BY <2>1, ThreadsReturn
<1>5. CASE CreateUncertain
  <2>1. /\ Return(~closing) /\ UNCHANGED <<host, worker, failing, used>> /\ MayMint(exec.lane)
        /\ bind' = [bind EXCEPT ![exec.lane] = [id |-> 0, committed |-> FALSE]] /\ Creating
    BY <1>5 DEF CreateUncertain, OpenFailure, laneVars
  <2>2. exec.lane \in Lanes /\ host[exec.lane] = 0
    BY <1>0, <2>1 DEF Creating, Threads, Opens
  <2>. QED  BY <2>1, <2>2, MintUnused, ThreadsReturn
<1>6. CASE ReportCreated
  <2>1. exec.lane \in Lanes /\ bind[exec.lane].id # 0 /\ host[exec.lane] = 0
    BY <1>0, <1>6 DEF ReportCreated, Threads, Opens
  <2>2. \E opens, opened : ReportOpened(opens, opened)
    BY <1>6 DEF ReportCreated
  <2>. QED  BY <1>6, <2>1, <2>2, ThreadsReport DEF ReportCreated, nativeVars
<1>7. CASE ReportResumed
  <2>1. exec.lane \in Lanes /\ bind[exec.lane].committed /\ host[exec.lane] = 0
    BY <1>0, <1>7 DEF ReportResumed, Resuming, Threads, Opens
  <2>2. \E opens, opened : ReportOpened(opens, opened)
    BY <1>7 DEF ReportResumed
  <2>3. bind[exec.lane].id # 0
    BY <2>1 DEF Threads
  <2>. QED  BY <1>7, <2>1, <2>2, <2>3, ThreadsReport DEF ReportResumed, nativeVars
<1>. QED  BY <1>1, <1>2, <1>3, <1>4, <1>5, <1>6, <1>7 DEF Opener

\* The steps that start a turn: a worker starts on an attached lane.
LEMMA StarterThreads ==
    ASSUME IInv, Threads, Starter
    PROVE  Threads'
<1>1. CASE StartCalled
  <2>1. UNCHANGED <<host, worker, failing, bind, used>> /\ exec' = [exec EXCEPT !.at = "calling"]
        /\ exec.kind = "start"
    BY <1>1 DEF StartCalled, nativeVars, laneVars
  <2>. QED  BY <2>1 DEF Threads, IInv, ActorOK, Opens
<1>2. CASE CommitAdmission
  <2>1. /\ UNCHANGED <<host, failing, bind, used>> /\ exec' = [exec EXCEPT !.at = "returning"]
        /\ exec.kind = "start" /\ host[exec.lane] # 0
        /\ worker' = [worker EXCEPT ![exec.lane] = [op |-> exec.op, at |-> "admitted"]]
    BY <1>2 DEF CommitAdmission, Starting, Admissible, nativeVars
  <2>. QED  BY <2>1 DEF Threads, IInv, ActorOK, Opens
<1>3. CASE StartUnattached \/ AdmissionReturned \/ StartFailed \/ StartUncertain
  <2>1. UNCHANGED <<host, worker, failing, bind, used>> /\ \E failed : Return(failed)
    BY <1>3 DEF StartUnattached, AdmissionReturned, StartFailed, StartUncertain, nativeVars,
                laneVars
  <2>. QED  BY <2>1, ThreadsReturn
<1>. QED  BY <1>1, <1>2, <1>3 DEF Starter

\* The worker of a turn: the thread that takes the input is the bound one.
LEMMA WorkerThreads ==
    ASSUME IInv, Threads, NEW l \in Lanes, Worker(l)
    PROVE  Threads'
<1>0. /\ bind \in [Lanes -> [id : Nat, committed : BOOLEAN]]
      /\ worker \in [Lanes -> [op : Ops \union {NoOp}, at : WorkerStages]]
  BY DEF IInv, ActorOK
<1>1. CASE WritePrompt(l)
  <2>1. /\ worker[l].at # "none" /\ worker' = [worker EXCEPT ![l].at = "sent"]
        /\ UNCHANGED <<host, failing, exec, bind, used>>
    BY <1>1 DEF WritePrompt, drainVars
  <2>. QED  BY <1>0, <2>1 DEF Threads, Opens
<1>2. CASE TakeInput(l)
  <2>1. /\ worker[l].at # "none" /\ worker' = [worker EXCEPT ![l].at = "taken"]
        /\ used' = used \union {<<l, bind[l].id>>}
        /\ bind' = [bind EXCEPT ![l].committed = TRUE]
        /\ UNCHANGED <<host, failing, exec>>
    BY <1>2 DEF TakeInput, drainVars
  <2>2. host[l] # 0 /\ bind[l].id # 0
    BY <2>1 DEF Threads
  <2>3. /\ bind'[l].committed
        /\ \A k \in Lanes : bind'[k].id = bind[k].id /\ (bind[k].committed => bind'[k].committed)
        /\ \A k \in Lanes : k # l => bind'[k] = bind[k]
    BY <1>0, <2>1
  <2>4. \A u \in used : u[1] \in Lanes
    BY DEF IInv, ActorOK
  <2>5. \A u \in used' : bind'[u[1]].id = u[2] /\ bind'[u[1]].committed
    BY <2>1, <2>3, <2>4 DEF Threads
  <2>6. \A k \in Lanes : worker'[k].at # "none" \/ failing[k] # "no" => host[k] # 0
    <3>1. \A k \in Lanes : worker'[k].at # "none" => worker[k].at # "none" \/ k = l
      BY <1>0, <2>1
    <3>. QED  BY <2>2, <3>1 DEF Threads
  <2>7. /\ \A k \in Lanes : bind'[k].committed => bind'[k].id # 0
        /\ \A k \in Lanes : host[k] # 0 => bind'[k].id # 0
    BY <2>2, <2>3 DEF Threads
  <2>8. exec.at = "bound" => bind'[exec.lane].id # 0
    BY <2>3 DEF Threads, IInv, ActorOK
  <2>. QED  BY <2>1, <2>5, <2>6, <2>7, <2>8 DEF Threads, Opens
<1>3. CASE ConfirmInput(l) \/ EndTurn(l)
  <2>1. UNCHANGED <<exec, bind, used>>
    BY <1>3 DEF ConfirmInput, EndTurn, nativeVars
  <2>2. /\ UNCHANGED host /\ worker[l].at # "none"
        /\ \/ UNCHANGED worker
           \/ worker' = [worker EXCEPT ![l].at = "receipted"]
           \/ worker' = [worker EXCEPT ![l] = Nobody]
        /\ UNCHANGED failing \/ failing' = [failing EXCEPT ![l] = "protocol"]
    BY <1>3 DEF ConfirmInput, EndTurn, ProtocolFailed
  <2>3. \A k \in Lanes : worker'[k].at # "none" \/ failing'[k] # "no" => host'[k] # 0
    <3>1. failing \in [Lanes -> Failures] /\ host[l] # 0
      BY <2>2 DEF IInv, ActorOK, Threads
    <3>2. \A k \in Lanes : /\ worker'[k].at # "none" => worker[k].at # "none" \/ k = l
                           /\ failing'[k] # "no" => failing[k] # "no" \/ k = l
      BY <1>0, <2>2, <3>1 DEF Nobody
    <3>3. host' = host
      BY <2>2
    <3>. QED  BY <3>1, <3>2, <3>3 DEF Threads
  <2>4. UNCHANGED <<host, exec, bind, used>>
    BY <2>1, <2>2
  <2>. QED  BY <2>3, <2>4 DEF Threads, Opens
<1>. QED  BY <1>1, <1>2, <1>3 DEF Worker

\* Every step keeps the invariant.
LEMMA NextThreads ==
    ASSUME IInv, Threads, [Next]_vars
    PROVE  Threads'
<1>1. CASE Users \/ Stopper \/ Close \/ UNCHANGED vars
  <2>1. UNCHANGED <<host, worker, failing, exec, bind, used>>
    BY <1>1 DEF Users, Select, SubmitInput, WithdrawInput, Stop, Command, Stopper, ClaimStop,
                StopDelivered, StopRejected, Close, vars, nativeVars, laneVars, drainVars
  <2>. QED  BY <2>1, ThreadsFrame
<1>2. CASE Claim
  <2>1. UNCHANGED <<host, worker, failing, bind, used>> /\ exec'.at = "claimed"
    BY <1>2 DEF Claim, nativeVars, laneVars
  <2>. QED  BY <2>1 DEF Threads
<1>3. CASE DrainSettled
  BY <1>3, ThreadsFrame DEF DrainSettled, nativeVars, laneVars
<1>4. ASSUME NEW l \in Lanes, Breaks(l) \/ Teardown(l)  PROVE Threads'
  <2>1. CASE DetachLane(l) \/ StreamClosed(l) \/ Teardown(l)
    <3>1. Release(l) /\ UNCHANGED <<exec, bind, used>>
      BY <2>1 DEF DetachLane, StreamClosed, Teardown, CloseStream, nativeVars, drainVars
    <3>. QED  BY <3>1, ThreadsRelease
  <2>2. CASE EventRefused(l) \/ HealthFailed(l)
    <3>1. /\ UNCHANGED <<host, worker, exec, bind, used>> /\ host[l] # 0
          /\ \E f : failing' = [failing EXCEPT ![l] = f]
      BY <2>2 DEF EventRefused, HealthFailed, ProtocolFailed, Current, nativeVars
    <3>2. failing \in [Lanes -> Failures]
      BY DEF IInv, ActorOK
    <3>3. \A k \in Lanes : failing'[k] # "no" => failing[k] # "no" \/ k = l
      BY <3>1, <3>2
    <3>. QED  BY <3>1, <3>3 DEF Threads, Opens
  <2>. QED  BY <1>4, <2>1, <2>2 DEF Breaks
<1>5. ASSUME NEW loss \in lost, LossCommitted(loss)  PROVE Threads'
  BY <1>5, ThreadsFrame DEF LossCommitted, nativeVars, laneVars
<1>6. CASE Restart
  BY <1>6 DEF Restart, Threads, Nobody, Idle, Opens, nativeVars
<1>. QED
  BY <1>1, <1>2, <1>3, <1>4, <1>5, <1>6, OpenerThreads, StarterThreads, WorkerThreads
  DEF Next, Drainer

\* The invariant holds in every reachable state.
LEMMA ThreadsInvariance == Spec => []Threads
<1>1. IInv /\ Threads /\ [Next]_vars => Threads'
  BY NextThreads
<1>. QED  BY <1>1, ThreadsInit, Invariance, PTL DEF Spec

\* Of all native threads created for a lane, at most one ever took an input,
\* through every failed create, lost attachment and restart.
THEOREM ThreadOnce == Spec => []OneThread
<1>1. Threads => OneThread
  BY DEF Threads, OneThread
<1>. QED  BY <1>1, ThreadsInvariance, PTL
=============================================================================
