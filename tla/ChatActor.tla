----------------------------- MODULE ChatActor -----------------------------
(***************************************************************************)
(* One chat of the daemon while it runs: the durable actor of ChatReducer, *)
(* the coordinator that executes its outbox (internal/chat/coordinator.go  *)
(* and engine.go), the provider lanes it attaches (internal/acp/           *)
(* provider_runtime.go) and the durable store of native bindings           *)
(* (provider_lane_store.go).  Commands of the user, the one draining       *)
(* goroutine, the Stop executor, the event forwarder of each lane, the     *)
(* turn's worker, Close and the restart of the daemon interleave.          *)
(*                                                                         *)
(* chat and bind survive a restart; everything else is process memory,     *)
(* except minted, sent and used, which record what the providers have seen.*)
(***************************************************************************)
EXTENDS ChatReducer

CONSTANTS
    MaxFaults,    \* failures of providers, connections, calls and events
    MaxRestarts,  \* crashes and orderly restarts of the daemon
    MaxStops,     \* Stop requests of a turn
    MaxCreates    \* create generations a user may bring about, per lane

ASSUME BoundsAssumption ==
    {MaxFaults, MaxRestarts, MaxStops, MaxCreates} \subseteq Nat

VARIABLES
    chat,      \* the committed state of the chat engine
    host,      \* coordinator.generations: generation of the attached lane, 0 for none
    worker,    \* the turn a lane's provider works on, and how far it got
    failing,   \* a lane whose failure is committed while its attachment is still up
    exec,      \* the effect that ExecuteNext holds
    lost,      \* closed event streams whose HostLost is not committed yet
    draining,  \* a Drain is between two ExecuteNext calls or inside one
    wake,      \* the effectWake channel holds a token
    closing,   \* coordinator.stopping
    bind,      \* nativeSessions: the thread bound to a lane and ThreadCommitted
    minted,    \* native threads created so far, per lane
    sent,      \* prompts written to a provider, per operation
    used,      \* native threads that took an input
    spent      \* how much of each bound has been used up

nativeVars == <<bind, minted, sent, used>>
laneVars   == <<host, worker, failing>>
drainVars  == <<exec, draining, wake>>
vars == <<chat, host, worker, failing, exec, lost, draining, wake, closing,
          bind, minted, sent, used, spent>>

Nobody == [op |-> NoOp, at |-> "none"]
Idle   == [kind |-> "none", lane |-> NoLane, op |-> NoOp, gen |-> 0, recon |-> FALSE,
           at |-> "idle", absent |-> FALSE]
Stages == {"idle", "claimed", "calling", "bound", "returning"}
WorkerStages == {"none", "admitted", "sent", "taken", "receipted"}

\* protocol: LaneProtocolFailed is committed and the forwarder has returned; it
\* has yet to discard the lane.  health: the adapter's transport health event is
\* committed, and the adapter has yet to close the session and the stream.
Failures == {"no", "protocol", "health"}

TypeOK ==
    /\ chat \in Chat
    /\ host \in [Lanes -> Nat]
    /\ worker \in [Lanes -> [op : Ops \union {NoOp}, at : WorkerStages]]
    /\ failing \in [Lanes -> Failures]
    /\ exec \in [kind : {"none", "create", "resume", "start"}, lane : Lanes \union {NoLane},
                 op : Ops \union {NoOp}, gen : Nat, recon : BOOLEAN,
                 at : Stages, absent : BOOLEAN]
    /\ exec.kind # "none" => exec.lane \in Lanes
    /\ exec.kind = "start" => exec.op \in Ops
    /\ lost \subseteq Lanes \X Nat
    /\ {draining, wake, closing} \subseteq BOOLEAN
    /\ bind \in [Lanes -> [id : Nat, committed : BOOLEAN]]
    /\ minted \in [Lanes -> Nat]
    /\ sent \in [Ops -> Nat]
    /\ used \subseteq Lanes \X Nat
    /\ spent \in [faults : Nat, restarts : Nat, stops : Nat]

Init ==
    /\ chat = InitialChat
    /\ host = [l \in Lanes |-> 0]
    /\ worker = [l \in Lanes |-> Nobody]
    /\ failing = [l \in Lanes |-> "no"]
    /\ exec = Idle
    /\ lost = {}
    /\ draining = FALSE /\ wake = FALSE /\ closing = FALSE
    /\ bind = [l \in Lanes |-> [id |-> 0, committed |-> FALSE]]
    /\ minted = [l \in Lanes |-> 0]
    /\ sent = [op \in Ops |-> 0]
    /\ used = {}
    /\ spent = [faults |-> 0, restarts |-> 0, stops |-> 0]

Fault == spent.faults < MaxFaults /\ spent' = [spent EXCEPT !.faults = @ + 1]

(***************************************************************************)
(* Commands of the user.  Each one is committed and wakes the drain.       *)
(***************************************************************************)
Command(next) ==
    /\ ~closing
    /\ chat' = next /\ wake' = TRUE
    /\ UNCHANGED <<laneVars, exec, lost, draining, closing, nativeVars>>

\* A selection, new or repeated, with the bound on the creates it brings about.
\* One that changes nothing only wakes the drain again, and is left out.
Select(l) == \E covered \in BOOLEAN :
    LET next == SelectLane(chat, l, covered) IN
    /\ next # chat
    /\ \A k \in Lanes : next.cgen[k] = chat.cgen[k] \/ next.cgen[k] <= MaxCreates
    /\ Command(next)
    /\ UNCHANGED spent

\* People address the selected lane, agents and notices the lane they answer.
SubmitInput(i, l) ==
    /\ CanSubmit(chat, <<i, 0>>, l)
    /\ Command(Submit(chat, <<i, 0>>, l, TRUE))
    /\ UNCHANGED spent

WithdrawInput(op) == \E covered \in BOOLEAN :
    /\ CanWithdraw(chat, op)
    /\ spent.stops < MaxStops /\ spent' = [spent EXCEPT !.stops = @ + 1]
    /\ Command(Withdraw(chat, op, covered))

Stop ==
    /\ CanStop(chat)
    /\ spent.stops < MaxStops /\ spent' = [spent EXCEPT !.stops = @ + 1]
    /\ Command(StopTurn(chat))

(***************************************************************************)
(* ExecuteCancel runs beside the drain.                                    *)
(***************************************************************************)
StopIs(status) == chat.stopping /\ Has(chat, CurrentStop(chat), status)

ClaimStop ==
    /\ ~closing /\ StopIs("pending")
    /\ chat' = [chat EXCEPT !.outbox = Mark(@, CurrentStop(chat), "dispatched")]
    /\ UNCHANGED <<laneVars, drainVars, lost, closing, nativeVars, spent>>

StopDelivered ==
    /\ StopIs("dispatched") /\ host[FgLane(chat)] # 0
    /\ chat' = StopAcknowledged(chat)
    /\ UNCHANGED <<laneVars, drainVars, lost, closing, nativeVars, spent>>

StopRejected ==
    /\ StopIs("dispatched")
    /\ \/ host[FgLane(chat)] = 0 /\ UNCHANGED spent
       \/ host[FgLane(chat)] # 0 /\ Fault
    /\ chat' = StopFailed(chat)
    /\ UNCHANGED <<laneVars, drainVars, lost, closing, nativeVars>>

(***************************************************************************)
(* Drain and ExecuteNext: claim the first executable effect of the outbox. *)
(***************************************************************************)
Claimable == {i \in DOMAIN chat.outbox :
    chat.outbox[i].kind # "stop" /\ Executable(chat, chat.outbox[i])}

Claim ==
    /\ exec = Idle /\ (draining \/ wake) /\ ~closing
    /\ \E i \in Claimable :
         /\ \A j \in Claimable : i <= j
         /\ chat' = [chat EXCEPT !.outbox = Mark(@, {i}, "dispatched")]
         /\ LET e == chat.outbox[i] IN
            exec' = [kind |-> e.kind, lane |-> e.lane, op |-> e.op, gen |-> e.gen,
                     recon |-> e.recon, at |-> "claimed", absent |-> FALSE]
    /\ draining' = TRUE /\ wake' = (wake /\ draining)
    /\ UNCHANGED <<laneVars, lost, closing, nativeVars, spent>>

DrainSettled ==
    /\ exec = Idle /\ (draining \/ wake)
    /\ closing \/ Claimable = {}
    /\ draining' = FALSE /\ wake' = FALSE
    /\ UNCHANGED <<chat, laneVars, exec, lost, closing, nativeVars, spent>>

\* ExecuteNext returns; an error ends the Drain.
Return(failed) == exec' = Idle /\ draining' = ~failed

\* The event LaneDetached of the attachment of l, if its generation is current.
Detached(l) == IF host[l] = chat.gen[l] THEN HostLost(chat, l, host[l]) ELSE chat
\* (mutant) a lost attachment leaves the turn's worker behind.
ReleaseHost(l) == /\ host' = [host EXCEPT ![l] = 0]
                  /\ failing' = [failing EXCEPT ![l] = "no"] /\ UNCHANGED worker
Release(l)  == /\ host' = [host EXCEPT ![l] = 0] /\ worker' = [worker EXCEPT ![l] = Nobody]
               /\ failing' = [failing EXCEPT ![l] = "no"]

\* retireLaneAttachment, before an open call.  The adapter of a failing lane
\* swallows the event LaneDetached; after a health event it may still pass, or
\* the forwarder sees the stream close before the lane is forgotten.
RetireAttachment == LET l == exec.lane IN
    /\ exec.at = "claimed" /\ exec.kind \in {"create", "resume"}
    /\ exec' = [exec EXCEPT !.at = "calling"]
    /\ \/ host[l] = 0 /\ UNCHANGED <<chat, laneVars, lost, wake>>
       \/ /\ host[l] # 0 /\ failing[l] # "protocol"
          /\ chat' = Detached(l) /\ wake' = (wake \/ host[l] = chat.gen[l])
          /\ Release(l) /\ UNCHANGED lost
       \/ /\ host[l] # 0 /\ failing[l] # "no"
          /\ \/ UNCHANGED lost
             \/ failing[l] = "health" /\ lost' = lost \union {<<l, host[l]>>}
          /\ Release(l) /\ UNCHANGED <<chat, wake>>
    /\ UNCHANGED <<draining, closing, nativeVars, spent>>

\* applyLaneFailure: a failure that Close causes settles nothing.
OpenFailure(l, ambiguous) ==
    /\ chat' = IF ~closing /\ CanFailOpen(chat, l) THEN LaneOpenFailed(chat, l, ambiguous) ELSE chat
    /\ Return(~closing)

(***************************************************************************)
(* managerLaneFactory.Create.  A deferred candidate nothing was sent to    *)
(* is natively absent; the binding is removed before its replacement is    *)
(* created.                                                                *)
(***************************************************************************)
Creating   == exec.at = "calling" /\ exec.kind = "create"
Bound(l)   == bind[l].id # 0
Vanished(l) == Bound(l) /\ ~bind[l].committed /\ <<l, bind[l].id>> \notin used
\* (mutant) every candidate counts as absent.
MayMintAgain(l) == IF exec.recon THEN l \in Deferred ELSE ~Bound(l)
MayMint(l) == IF exec.recon THEN l \in Deferred /\ (~Bound(l) \/ Vanished(l)) ELSE ~Bound(l)

CreateMinted == LET l == exec.lane IN
    /\ Creating /\ MayMint(l)
    /\ minted' = [minted EXCEPT ![l] = @ + 1]
    /\ bind' = [bind EXCEPT ![l] = [id |-> minted[l] + 1, committed |-> l \notin Deferred]]
    /\ exec' = [exec EXCEPT !.at = "bound", !.absent = Vanished(l)]
    /\ UNCHANGED <<chat, laneVars, lost, draining, wake, closing, sent, used, spent>>

CreateReattached == LET l == exec.lane IN
    /\ Creating /\ exec.recon /\ Bound(l) /\ ~Vanished(l)
    /\ bind' = [bind EXCEPT ![l].committed = TRUE]
    /\ exec' = [exec EXCEPT !.at = "bound"]
    /\ UNCHANGED <<chat, laneVars, lost, draining, wake, closing, minted, sent, used, spent>>

\* An established binding may not enter create; a create whose binding was
\* never written is not repeated unless the lane is deferred.
CreateRefused == LET l == exec.lane IN
    /\ Creating /\ (exec.recon \equiv ~Bound(l)) /\ ~MayMint(l)
    /\ OpenFailure(l, exec.recon)
    /\ UNCHANGED <<laneVars, lost, wake, closing, nativeVars, spent>>

CreateFailed == LET l == exec.lane IN
    /\ Creating /\ Fault
    /\ OpenFailure(l, FALSE)
    /\ UNCHANGED <<laneVars, lost, wake, closing, nativeVars>>

\* session/new failed: a thread may exist that no binding names.
CreateUncertain == LET l == exec.lane IN
    /\ Creating /\ MayMint(l) /\ Fault
    /\ bind' = [bind EXCEPT ![l] = [id |-> 0, committed |-> FALSE]]
    /\ OpenFailure(l, TRUE)
    /\ UNCHANGED <<laneVars, lost, wake, closing, minted, sent, used>>

\* The attached lane is reported; a report the actor refuses discards it.
ReportOpened(opens, opened) == LET l == exec.lane IN
    IF opens
    THEN /\ chat' = opened /\ Return(FALSE)
         /\ host' = [host EXCEPT ![l] = exec.gen]
    ELSE /\ IF exec.kind = "create" THEN OpenFailure(l, FALSE)
                                    ELSE chat' = chat /\ Return(TRUE)
         /\ host' = [host EXCEPT ![l] = 0]

ReportCreated == LET l == exec.lane IN
    /\ exec.at = "bound"
    /\ \E covered \in BOOLEAN :
         IF bind[l].committed
         THEN ReportOpened(CanOpen(chat, l, bind[l].id),
                           LaneOpened(chat, l, exec.gen, bind[l].id, covered))
         ELSE ReportOpened(CanProvision(chat, l, bind[l].id, exec.absent),
                           LaneProvisioned(chat, l, exec.gen, bind[l].id, exec.absent))
    /\ UNCHANGED <<worker, failing, lost, wake, closing, nativeVars, spent>>

(***************************************************************************)
(* managerLaneFactory.Resume: the exact thread, or a failure.              *)
(***************************************************************************)
Resuming == exec.at = "calling" /\ exec.kind = "resume"

ReportResumed == LET l == exec.lane IN
    /\ Resuming /\ bind[l] = [id |-> chat.thread[l], committed |-> TRUE]
    /\ \E covered \in BOOLEAN :
         ReportOpened(CanOpen(chat, l, chat.thread[l]),
                      LaneOpened(chat, l, exec.gen, chat.thread[l], covered))
    /\ UNCHANGED <<worker, failing, lost, wake, closing, nativeVars, spent>>

ResumeFailed ==
    /\ Resuming /\ Fault
    /\ OpenFailure(exec.lane, FALSE)
    /\ UNCHANGED <<laneVars, lost, wake, closing, nativeVars>>

(***************************************************************************)
(* StartTurn.  The admission is committed before the worker starts, and    *)
(* observed a second time when the call returns.                           *)
(***************************************************************************)
StartUnattached ==
    /\ exec.at = "claimed" /\ exec.kind = "start" /\ host[exec.lane] = 0
    /\ chat' = IF closing THEN TurnDeferred(chat, exec.op) ELSE chat
    /\ Return(~closing)
    /\ UNCHANGED <<laneVars, lost, wake, closing, nativeVars, spent>>

StartCalled ==
    /\ exec.at = "claimed" /\ exec.kind = "start" /\ host[exec.lane] # 0
    /\ exec' = [exec EXCEPT !.at = "calling"]
    /\ UNCHANGED <<chat, laneVars, lost, draining, wake, closing, nativeVars, spent>>

Starting == exec.at = "calling" /\ exec.kind = "start"
Admissible == host[exec.lane] # 0 /\ failing[exec.lane] = "no" /\ chat.fg = exec.op

CommitAdmission ==
    /\ Starting /\ Admissible
    /\ chat' = TurnAdmitted(chat)
    /\ worker' = [worker EXCEPT ![exec.lane] = [op |-> exec.op, at |-> "admitted"]]
    /\ exec' = [exec EXCEPT !.at = "returning"]
    /\ UNCHANGED <<host, failing, lost, draining, wake, closing, nativeVars, spent>>

AdmissionReturned ==
    /\ exec.at = "returning"
    /\ Return(~(chat.fg = exec.op /\ chat.running))
    /\ UNCHANGED <<chat, laneVars, lost, wake, closing, nativeVars, spent>>

\* StartTurn returns an error: of the call, of the lost attachment, or of the
\* admission that the actor refused.
StartFailed ==
    /\ Starting
    /\ \/ ~Admissible /\ UNCHANGED spent
       \/ Admissible /\ Fault
    /\ CASE chat.fate[exec.op] = "withdrawn" -> chat' = chat /\ Return(FALSE)
         [] chat.fate[exec.op] # "withdrawn" /\ closing ->
                chat' = TurnDeferred(chat, exec.op) /\ Return(FALSE)
         [] OTHER -> /\ chat' = IF chat.fg = exec.op THEN TurnRefused(chat) ELSE chat
                     /\ Return(chat.fg # exec.op)
    /\ UNCHANGED <<laneVars, lost, wake, closing, nativeVars>>

StartUncertain ==
    /\ Starting /\ Admissible /\ Fault
    /\ chat' = TurnAmbiguous(chat) /\ Return(FALSE)
    /\ UNCHANGED <<laneVars, lost, wake, closing, nativeVars>>

(***************************************************************************)
(* The worker of an admitted turn, and its lane's events.  The forwarder   *)
(* commits an event before the adapter goes on, then wakes the drain.  An  *)
(* event the reducer refuses fails the lane and wakes nobody.  Until its   *)
(* attachment is down the turn of a failing lane runs on, unheard: its     *)
(* prompt may still be written, and taken.                                 *)
(***************************************************************************)
Current(l) == host[l] # 0 /\ host[l] = chat.gen[l]
Event(next) == chat' = next /\ wake' = TRUE

ProtocolFailed(l) ==
    /\ chat' = LaneProtocolFailed(chat, l, host[l])
    /\ failing' = [failing EXCEPT ![l] = "protocol"]
    /\ UNCHANGED <<host, wake>>

WritePrompt(l) ==
    /\ worker[l].at = "admitted"
    /\ worker' = [worker EXCEPT ![l].at = "sent"]
    /\ sent' = [sent EXCEPT ![worker[l].op] = @ + 1]
    /\ UNCHANGED <<chat, host, failing, drainVars, lost, closing, bind, minted, used, spent>>

TakeInput(l) ==
    /\ worker[l].at = "sent"
    /\ worker' = [worker EXCEPT ![l].at = "taken"]
    /\ used' = used \union {<<l, bind[l].id>>}
    /\ bind' = [bind EXCEPT ![l].committed = TRUE]
    /\ UNCHANGED <<chat, host, failing, drainVars, lost, closing, minted, sent, spent>>

ConfirmInput(l) ==
    LET t == IF chat.cand[l] = 0 THEN 0 ELSE bind[l].id IN
    /\ worker[l].at = "taken" /\ failing[l] = "no"
    /\ IF Current(l) /\ CanConsume(chat, worker[l].op, t)
       THEN /\ Event(InputConsumed(chat, t))
            /\ worker' = [worker EXCEPT ![l].at = "receipted"]
            /\ UNCHANGED <<host, failing>>
       ELSE ProtocolFailed(l) /\ UNCHANGED worker
    /\ UNCHANGED <<exec, lost, draining, closing, nativeVars, spent>>

EndTurn(l) ==
    /\ worker[l].at # "none" /\ failing[l] = "no"
    /\ worker' = [worker EXCEPT ![l] = Nobody]
    /\ IF Current(l) /\ chat.fg = worker[l].op
       THEN /\ \E interrupted \in {FALSE, closing}, covered \in BOOLEAN :
                 Event(TurnTerminated(chat, interrupted, covered))
            /\ UNCHANGED <<host, failing>>
       ELSE ProtocolFailed(l)
    /\ UNCHANGED <<exec, lost, draining, closing, nativeVars, spent>>

(***************************************************************************)
(* Faults of a lane, and the end of a failing one.                         *)
(***************************************************************************)
DetachLane(l) ==
    /\ host[l] # 0 /\ failing[l] # "protocol"
    /\ \/ closing /\ UNCHANGED spent
       \/ ~closing /\ Fault
    /\ IF Current(l) THEN Event(Detached(l)) ELSE UNCHANGED <<chat, wake>>
    /\ Release(l)
    /\ UNCHANGED <<exec, lost, draining, closing, nativeVars>>

\* The event stream closes; the forwarder forgets the lane before it commits
\* the loss.
CloseStream(l) ==
    /\ lost' = lost \union {<<l, host[l]>>}
    /\ Release(l)
    /\ UNCHANGED <<chat, drainVars, closing, nativeVars>>
StreamClosed(l) == host[l] # 0 /\ failing[l] = "no" /\ Fault /\ CloseStream(l)

LossCommitted(loss) ==
    /\ lost' = lost \ {loss}
    /\ Event(HostLost(chat, loss[1], loss[2]))
    /\ UNCHANGED <<laneVars, exec, draining, closing, nativeVars, spent>>

EventRefused(l) ==
    /\ host[l] # 0 /\ failing[l] = "no" /\ Fault
    /\ ProtocolFailed(l)
    /\ UNCHANGED <<worker, exec, lost, draining, closing, nativeVars>>

\* rejectFrozenProtocol: the adapter could not report an event, refuses all
\* later ones and says so; what follows is in the background.
HealthFailed(l) ==
    /\ Current(l) /\ failing[l] = "no" /\ Fault
    /\ Event(LaneUnhealthy(chat, l))
    /\ failing' = [failing EXCEPT ![l] = "health"]
    /\ UNCHANGED <<host, worker, exec, lost, draining, closing, nativeVars>>

\* discardLane, or the adapter's own close of the session and the stream.
Teardown(l) ==
    \/ /\ failing[l] = "protocol" /\ Release(l)
       /\ UNCHANGED <<chat, drainVars, lost, closing, nativeVars, spent>>
    \/ failing[l] = "health" /\ CloseStream(l) /\ UNCHANGED spent

(***************************************************************************)
(* The daemon: an orderly Close, and a restart after Close or after a      *)
(* crash at any moment.  NewEngine opens no chat whose recovered state     *)
(* Validate refuses: nothing happens to it any more, and it is left out.   *)
(***************************************************************************)
Close ==
    /\ ~closing /\ spent.restarts < MaxRestarts
    /\ closing' = TRUE
    /\ UNCHANGED <<chat, laneVars, drainVars, lost, nativeVars, spent>>

Restart ==
    /\ spent.restarts < MaxRestarts /\ spent' = [spent EXCEPT !.restarts = @ + 1]
    /\ \E order \in Orders(NeedsEffect(Reread(chat))) :
         chat' = RecoverOutbox(chat, order) /\ Valid(chat')
    /\ host' = [l \in Lanes |-> 0] /\ worker' = [l \in Lanes |-> Nobody]
    /\ failing' = [l \in Lanes |-> "no"] /\ exec' = Idle /\ lost' = {}
    /\ draining' = FALSE /\ wake' = TRUE /\ closing' = FALSE
    /\ UNCHANGED nativeVars

Users  == \/ \E l \in Lanes : Select(l)
          \/ \E i \in Inputs, l \in Lanes : SubmitInput(i, l)
          \/ \E op \in Ops : WithdrawInput(op)
          \/ Stop
Stopper == ClaimStop \/ StopDelivered \/ StopRejected
Opener == \/ RetireAttachment \/ CreateMinted \/ CreateReattached \/ CreateRefused
          \/ CreateFailed \/ CreateUncertain \/ ReportCreated \/ ReportResumed \/ ResumeFailed
Starter == \/ StartUnattached \/ StartCalled \/ CommitAdmission \/ AdmissionReturned
           \/ StartFailed \/ StartUncertain
Worker(l) == WritePrompt(l) \/ TakeInput(l) \/ ConfirmInput(l) \/ EndTurn(l)
Breaks(l) == DetachLane(l) \/ StreamClosed(l) \/ EventRefused(l) \/ HealthFailed(l)

Drainer == Claim \/ DrainSettled \/ Opener \/ Starter

Next ==
    \/ Users \/ Stopper \/ Drainer
    \/ \E l \in Lanes : Worker(l) \/ Breaks(l) \/ Teardown(l)
    \/ \E loss \in lost : LossCommitted(loss)
    \/ Close \/ Restart

Spec == Init /\ [][Next]_vars

\* The draining goroutine, the Stop executor, the forwarders and the turns run
\* on.  Nobody has to use the chat, and nothing has to fail, close or restart.
Fairness ==
    /\ WF_vars(Drainer) /\ WF_vars(Stopper)
    /\ \A l \in Lanes : WF_vars(Worker(l)) /\ WF_vars(Teardown(l))
    /\ WF_vars(\E loss \in lost : LossCommitted(loss))

FairSpec == Spec /\ Fairness

(***************************************************************************)
(* Safety.                                                                 *)
(***************************************************************************)
\* Every committed state passes State.Validate (state.go), so no command,
\* receipt or restart is ever refused because an earlier one left a state
\* behind that cannot be saved.
ValidState == Valid(chat)

\* An input crosses to a provider at most once under its operation id: no
\* restart, lost connection, ambiguous start or replaced candidate resends it.
SentOnce == \A op \in Ops : sent[op] <= 1

\* What the ledger says was refused or withdrawn before admission never
\* reached a provider.
RefusedNeverSent ==
    \A op \in Ops : chat.fate[op] \in {"refused", "withdrawn"} => sent[op] = 0

\* What the ledger says the provider consumed was sent to it: acceptance by
\* the adapter is never taken for consumption by the provider.  The exception
\* has a fate of its own: where the end of the turn is all the ledger has
\* ("presumed"), the turn may have ended before its prompt was written.
ConsumedWasSent ==
    /\ chat.consumed => sent[chat.fg] = 1
    /\ \A op \in Ops : chat.fate[op] \in {"answered", "interrupted"} => sent[op] = 1

\* A reserved operation is owned exactly once: it waits in the FIFO, or is the
\* foreground, or is settled; nothing is dropped and nothing runs twice.
Places(op) == {i \in DOMAIN chat.queue : chat.queue[i] = op}
OneOwner == \A op \in Ops :
    LET waits == Cardinality(Places(op))
        runs  == IF chat.fg = op THEN 1 ELSE 0
        done  == IF chat.fate[op] = "open" THEN 0 ELSE 1
    IN  waits + runs + done = IF chat.lane[op] = NoLane THEN 0 ELSE 1

\* The conversation of a lane never moves to a second native thread: of all
\* threads created for it, at most one ever took an input.
OneThread == \A u, v \in used : u[1] = v[1] => u[2] = v[2]

\* A provider works only on the admitted foreground of this chat: whatever
\* ends the foreground has ended the provider's turn, and not the other way.
\* The exception is a lane that failed: its failure is committed before the
\* attachment comes down, and until then the turn that it cut runs on; the
\* ledger calls its delivery uncertain or interrupted, never refused.
WorkerOwned == \A l \in Lanes : worker[l].op # NoOp =>
    \/ chat.fg = worker[l].op /\ chat.running /\ FgLane(chat) = l
    \/ failing[l] # "no" /\ chat.fate[worker[l].op] \in {"uncertain", "interrupted"}

\* A lane that is being opened has the effect that opens it, pending or in
\* flight; otherwise everything queued behind it would wait for nothing.
Live(ids) == Has(chat, ids, "pending") \/ Has(chat, ids, "dispatched")
OpeningOwned == \A l \in Lanes :
    /\ chat.phase[l] = "resuming" => Live(Resumes(chat, l, chat.gen[l]))
    /\ chat.phase[l] = "creating" /\ chat.cand[l] = 0 => Live(Creates(chat, l, chat.cgen[l]))

\* The thread of an established lane is never replaced or forgotten, by any
\* receipt, failure, selection or restart.
ThreadKept == [][\A l \in Lanes :
    chat.thread[l] # 0 => chat'.thread[l] = chat.thread[l]]_vars

\* Every step of the daemon is a step, or a stutter, of what a chat promises
\* about its inputs: accepted inputs run first in, first out across lanes,
\* cross at most once, settle once, and only a notice returns, ahead of the rest.
Delivery == INSTANCE InputDelivery WITH
    waiting <- chat.queue, owner <- chat.fg, fate <- chat.fate, sent <- sent
ImplementsDelivery == Delivery!Spec

(***************************************************************************)
(* Liveness.  There are finitely many inputs and each runs at most once,   *)
(* so a chat that is free again and again has settled every foreground.    *)
(***************************************************************************)
\* While nothing fails and nobody withdraws, every accepted input of every
\* lane is settled.
ChatRests == []<>(closing \/ (chat.queue = <<>> /\ chat.fg = NoOp))

\* Even when connections, calls and lanes fail, no foreground stays for ever:
\* the turn is admitted and ends, or its failure settles it.
ForegroundSettles == []<>(closing \/ chat.fg = NoOp)

(***************************************************************************)
(* What documents and comments of the code say, and the code does not do.  *)
(***************************************************************************)
\* Other lanes go on when one lane's provider fails: an effect the engine
\* would hand out has someone coming to claim it.
NothingStranded == ~closing /\ Claimable # {} => exec # Idle \/ draining \/ wake

\* A crash or restart attaches every established lane to its thread again:
\* whatever is committed, recovery makes a state that can be saved.
Reopens == \A order \in Orders(NeedsEffect(Reread(chat))) : Valid(RecoverOutbox(chat, order))

\* The next selection or submit of a lane without thread or candidate starts
\* a fresh create: no binding of an earlier create stands in its way.
FreshCreateStarts == Creating /\ ~exec.recon => ~Bound(exec.lane)

\* Recovery drains the durable input: no committed state leaves an idle chat
\* with waiting inputs that the next drive would move.
FifoDriven == chat.fg = NoOp /\ chat.queue # <<>> => Drive(chat, TRUE) = chat

\* A notice whose turn was interrupted and that nobody stopped is sent again,
\* until the limit.
NoticeKept == \A i \in Notices, k \in 0 .. (RedeliveryLimit - 1) :
    /\ chat.fate[<<i, k>>] \in {"interrupted", "uncertain"}
    /\ Stops(chat, <<i, k>>) = {}
    => chat.lane[<<i, k + 1>>] # NoLane
=============================================================================
