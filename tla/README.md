# A verification project for the Workass chat daemon

Workass is a Go daemon (`cmd/workass`) that owns chats with coding agents. A
chat is a durable actor: every input a person, an agent or a schedule submits
is reserved, ordered, handed to a provider (an agent process spoken to over
ACP) and settled, through crashes of the daemon and of the providers. Clients
(Electron/React, the agent CLI) talk to the daemon over a WebSocket and only
see what the actor committed. Beside the chats it keeps messages to be sent
later and supervises background jobs whose outcome it reports to their owner.
This directory models the actor and what runs around it, the steering of a
running turn, the scheduled messages and the reports of background jobs, checks
them with TLC and proves theorems about each of these four with TLAPS.

## Inventory of the system

| Part | State | Operations | What makes it correct |
|---|---|---|---|
| Chat actor, `internal/chat/reducer.go`, `state.go` | `State`: lanes (phase, native thread, candidate, generations, attachment), selected and active lane, input FIFO, foreground turn, pending Stop, outbox of effects, ledger | one reducer case per command or receipt | an input is owned exactly once, sent at most once and settled once; a lane's native thread is never replaced; every committed state is valid |
| Engine, `engine.go`, `summary.go` | the committed state, its store | `ApplyPrepared`, `ClaimNextExcept`, `ClaimEffect`, recovery on open | an effect is claimed once, only when its lane can execute it; a restart resends nothing |
| Coordinator, `coordinator.go` | attached lanes and their generations, the one-token wake channel, `stopping` | `Drain`/`ExecuteNext`, `ExecuteCancel`, event forwarder of each lane, `Close` | every executable effect is claimed sooner or later; a stale attachment touches nothing |
| Provider lane runtime, `internal/acp/provider_runtime.go`, `provider_lane_store.go`, `manager.go` | native bindings (durable), jobs, bridges | `Create`, `Resume`, `StartTurn`, the job worker, input receipt, `Detach` | at most one native thread of a lane ever takes an input |
| Chat stores, `sqlstore.go`, `sqlread.go` | SQLite rows of state and ledger pages | save, load, page | a save is all or nothing |
| Context coverage, `context_delta.go` and the import cases of the reducer | coverage per lane and ledger row | seed, delta, import, reconcile | a lane is never told a row twice, nor believed to know one it does not |
| Daemon composition, `cmd/workass` | open actors, environments, pending updates | resume, pause, requests of clients and agents | held turns go on; nothing is acknowledged before it is durable |
| Scheduled messages, `internal/scheduledmessage` | entries, in-flight set | schedule, cancel, tick, finish | sent at most once per entry, cancelled means not sent |
| Process supervision, `internal/procchild`, `internal/acp/process_child.go` | durable event outbox per child, journal; the daemon's rows, receipts, credentials | append, flush, settle; register, look, tell, commit, reconcile | events are applied in order, none lost, none twice; the owner is told the true verdict, and hears it before anything that could repeat it is forgotten |
| Headless update, `internal/headlessupdate` | receipt, backup, boot count | activate, settle, confirm, roll back | never half-replaced |
| Wire hub, `internal/wire` | clients, outbound queues, liveness | admit, write, ping, replay | a client never misses an event silently |
| Controller lease, `internal/lease` | devices, controller | enrol, take, release | one controller |
| Fleet, `internal/fleetclient`, `machinebook` | links, books | connect, merge | reconnection, convergence |
| Provider contract, generic store, change attribution, artifacts, desktop clients, command-line helpers | types, files, presentation | | not protocol state |

How they interact: a client's command reaches the reducer through the engine,
which commits the next state and its new outbox entries as one save; the
command then wakes the coordinator. One goroutine drains the outbox: it claims
the first executable entry (commit), calls the provider runtime, and commits
the receipt. A provider's events come back on a channel per attachment; a
forwarder commits each one *before* the adapter goes on, and wakes the drain. A
Stop is executed by the caller beside the drain. `Close` sets `stopping`, waits
and detaches; a crash leaves what was committed, and `RecoverOutbox` decides
what each dispatched effect means now.

The hard behaviours are in the interleavings of those actors (user commands,
drain, Stop, forwarders, the turn's worker, Close), in losing an attachment or
the daemon between two of their steps, in late receipts meeting a state that has
moved on, and in a queue that must never wait for an effect nobody recorded.
`PROJECT.json` lists each one at its line, under `hazards`.

## Modules

* `InputDelivery.tla`: the abstract specification. A chat promises that an
  accepted input waits in one FIFO, becomes the foreground when it is first and
  nothing else is, crosses to a provider at most once while it is the
  foreground, and gets one fate; only a notice returns, once per attempt, under
  the id of its next attempt and ahead of what waits. It knows no lanes, outbox
  or daemon.
* `ChatReducer.tla`: the reducer as pure operators on a chat record, one per
  command (`SelectLane`, `Submit`, `Withdraw` for `CancelPendingTurn`,
  `StopTurn` for `CancelTurn`, `LaneOpened`, `LaneProvisioned`,
  `LaneOpenFailed`, `TurnAdmitted`, `TurnAmbiguous`, `TurnRefused`,
  `TurnDeferred`, `InputConsumed`, `TurnTerminated`, `HostLost`,
  `LaneProtocolFailed`, `RecoverOutbox`), each with the driving, settling and
  outbox recording the handler does. `Executable` is `outboxEntryExecutable`,
  `Valid` the part of `State.Validate` that commands could break.
* `ChatActor.tla`: the chat while it runs. `chat` is the committed state;
  `host` is `coordinator.generations`; `exec`, `draining` and `wake` the drain
  and its channel; `lost` closed event streams whose `HostLost` is not committed
  yet; `closing` is `stopping`; `worker` the job of a turn; `bind` the native
  bindings; `minted`, `sent` and `used` record what providers have seen. An
  action is one atomic step of one goroutine: a claim, the return of a provider
  call with the commit that follows, an event with its commit. A lane fails in
  two steps, and `failing` is what lies between them: the forwarder commits
  `LaneProtocolFailed` and then discards the lane (`coordinator.go:951`, `:952`),
  an adapter that cannot report an event commits its health event and closes
  session and stream in the background (`provider_runtime.go:944`). Until
  `Teardown` the turn that was cut runs on, unheard, and may still write its
  prompt. A restart keeps
  `chat` and `bind` and applies `RecoverOutbox`; a chat whose recovered state
  `Validate` refuses is not opened again (`engine.go:94`), so such a restart is
  no step, and `Reopens` is the property that there is none.
* `Steering.tla`: a direction given to a turn while it runs. The reducer's
  steer cases are operators on a chat record of their own (foreground, pending
  directions, effects, ledger rows, staged queue, FIFO); around them are
  `ExecuteSteer` of each direction, which claims, sends and reports without the
  actor's mutex, the provider that accepts, answers and consumes, the ordered
  event stream with the receipts, and a restart. A turn here stands for what
  `ChatActor` models of its own dispatch.
* `ScheduledMessage.tla`: the scheduler of `internal/scheduledmessage` with its
  memory, its file, its goroutine (`Collect`, `Probe`, `ReadChat`, `Submit`,
  `Finish`, the steps of one `Tick`), the callers beside it and the queue of the
  chat it sends to.
* `ProcessOutcome.tla`: the abstract specification of a supervised job. Tellers
  look whether the owner was told and tell a moment later; a teller may also give
  up. What is told first is true: the recorded outcome, or lost of a job whose
  supervisor is gone without one or whose recorded outcome was mislaid. Only who
  had looked before the first telling tells again, and of a job run for another
  machine one looks at a time.
* `ProcessReports.tla`: the supervisor with its outbox and two reporting
  goroutines, and the daemon: the handlers of the two reports, the launch, the
  reconcile loop (`tick`) and a commit of another job (`other`), each with its own
  `call`. A handler's actions are its critical sections and writes: `Admit`,
  `Apply` under the registry lock, `LookAtLog` and `Emit` (the look for an earlier
  exit and the append, which hold no common lock and of which the second may
  fail), the commit, `Answer`. `hosted` tells the two kinds of job apart. A local
  one reports with the credential of its chat, which stays open; its row is
  committed in three steps (`List` gives the rows to the chat's actor, `Compact`
  writes the receipt and drops the row, `Snapshot` writes what is left). A hosted
  one reports with a run token that `Answer` closes and is written in one step
  (`Persist`). `row` is the daemon's memory, `saved` its file, `receipt` the
  settled row of a local job, `log` the exits the owner's log holds. `untold`
  records that a verdict was let go: its telling failed, or the daemon stopped
  before it with no way back to it (`OutOfReach`). `unsaved` records that a
  commit failed.
* `MCChat.tla`, `MCSteering.tla`, `MCScheduled.tla`, `MCReports.tla` and the
  configurations: instances for TLC.
* `ChatReducerProofs.tla` (the operators of the reducer keep types and threads),
  `ChatActorProofs.tla` (types and threads of the actor), `ChatOwnerProofs.tla`
  (one owner per operation), `ChatLaneProofs.tla` (lanes, effects and foreground
  fit each other), `ChatDeliveryProofs.tla` (the chat and the process around it,
  the refinement of `InputDelivery`, recovery), each on top of the one before;
  `ScheduledMessageProofs.tla`, `ProcessReportsProofs.tla`,
  `SteeringProofs.tla`: the theorems and their proofs.

What the data of the code became. An operation id is an input with its
redelivery attempt, as in the suffix `-redelivery-<k>`. Of the ledger only the
final fate of each input is kept: answered, presumed (answered on an established
lane, where the end of the turn stood for the receipt), interrupted after it was
consumed, uncertain, refused, withdrawn. A native thread id is a number, 0 none. Effect
ids are their parts (kind, lane, operation, generation), so a second effect with
the same id is dropped by `Record` as `recordEffects` does. Context coverage is
one Boolean, chosen when a command asks for it. In `Steering` the ledger keeps
the rows a direction is told from: the input of a turn and the directions with
their state; a direction stands for its operation id, and the staged queue is a
set. In `ScheduledMessage` an entry stands for its id, from which the operation
id of its send is derived; its time and its expiry come with `Reach`, its
condition is a probe that may or may not be met, and `Age` is what retention and
the count of settled entries drop. In `ProcessReports` an event is its sequence
and kind, and the verdict's text is left out.

Definitions marked `(mutant)` are bugs such a program could have; no
specification uses them. They show that each checked property can fail.

## What is checked

The instance has a lane `a` whose native thread is created only with its first
input (`DeferredUntilInput`) and a lane `b` created at once. `m` and `o` are
messages, `n` a notice of an agent.

| Run | Instance | Shows |
|---|---|---|
| `ChatFaults` | lanes a, b; m, n; one redelivery; 1 fault, 1 Stop or withdrawal | type and validity of every committed state; sent at most once; refused or withdrawn never sent; consumed implies sent, but for a presumed receipt; one thread per lane takes inputs; a worker belongs to the foreground or to the turn a failing lane has cut; a lane being opened has its effect; threads are kept; the chat implements `InputDelivery` |
| `ChatRestart` | the same, no fault, 1 crash or orderly restart at any moment | a restart at any moment opens the chat again; sent once, exactly one owner per operation, one thread, opening lanes have their effect, refinement |
| `ChatRests` | lanes a, b; m, n; no faults, Stops or restarts; fair | every accepted input is settled, whichever lane is selected |
| `ChatSettles` | lane b; n; 1 fault, 1 Stop, 1 restart; fair | a foreground never stays for ever; threads are kept |
| `Steering` | m; directions q (staged), g (agent), h (composer); 1 timeout, broken connection or restart | one owner per direction; none outlives its turn; shown as applied implies taken; taken at most once and never after it was returned; ledger order; no receipt fails the lane |
| `Scheduled` | entries t (timed), c (conditional); 2 attempts; 2 stops, 1 failing save, 2 refused sends; fair | sent once; a told cancellation is kept; fired implies delivered; not delivered is told truly; settled stays; what is due is settled |
| `Reports` | one job, local or hosted, batches of 2, 2 events of any kind among heartbeats, commits of other jobs and faults (a refused event, a lost request or reply, a failed mark, telling or commit, a stop of the daemon, a death of the supervisor); fair | implements `ProcessOutcome`; acknowledged implies told; no event is skipped before the receipt; a closed run token is of a job that is over for good; a dead supervisor's job gets its verdict |

`CHECK_DEADLOCK FALSE` is set because an idle chat, a scheduler with nothing due
and a daemon without jobs take no step of their own.

Bounds. `MaxFaults`, `MaxRestarts` and `MaxStops` bound how often an adversary
acts; `MaxCreates` how many create generations a user may bring about per lane
by selecting again. One fault at any of the interleavings is what the code's
recovery paths each handle alone; two inputs on two lanes are the least with a
foreground, a waiting input, and a head whose lane is not the selected one; a
redelivery limit of 1 (3 in the code) reaches the limit and passes through it
once. `ChatSettles` has one lane and one notice because liveness checking of
more does not end in reasonable time; that notice has two operations, its first
attempt and its redelivery. Faults with restarts together, more than one
fault, and Stops with restarts are checked by `ChatSettles` on its one lane only.

Three directions are the least with one overtaken between two others, and each
kind returns to another place when it is refused. The one fault of `Steering`
may come at any step; a second one was checked too (3,991,680 states) and is
left out of the run for its time. Two entries are one of each kind; two attempts
reach the limit (3 in the code) and pass through it; `MaxPending` never binds
with two entries. A job has created, started and settled beside its heartbeats,
so with batches of 2 the outcome is not in the first report. The safety properties of
`Reports` and the invariants of its proofs were checked with a third fault too
(14,311,169 states, too many for the liveness of the run).

Fairness. Weak fairness of `Drainer` (the goroutine of `runEffectWake` runs when
it has a token or a drain under way), of `Stopper` (`ExecuteCancel` is called
right after the Stop is committed), of each `Worker(l)` (a job's goroutine runs
on and every prompt ends) and of `LossCommitted` (the forwarder goes on after it
saw the closed stream) and of `Teardown(l)` (who committed a lane's failure takes
its attachment down). Nothing makes a user, a fault, `Close` or a restart
happen. In particular a turn is assumed to end sooner or later; the code has no
overall time limit on a turn, by design. `ScheduledMessage` is fair to its one
goroutine, whose loop (`Run`) ticks for ever and whose send returns.
`ProcessReports` is fair to the goroutines of the daemon together: its handlers
run on and its reconcile loop ticks. Nothing is asked of the supervisor, of a
caller or of a commit for another job. `Steering` has safety properties only.

### Where the code and its documents differ

Each has a run that TLC must find violated; `PROJECT.json` quotes the lines.

* `ChatStranded`: `Drain` returns at the first error and nothing wakes it, so
  the executable effect of another lane waits for the next command.
* `ChatFresh`: a create receipt that arrives while another lane's foreground
  runs is refused; the native binding stays and every later create of the lane
  is refused, though the document promises a fresh create.
* `ChatFifo`: recovery drives the FIFO only when it retired a foreground; a
  restart during a resume leaves waiting inputs undriven.
* `ChatReload`: two refused starts of a deferred lane that is still attached
  leave two creates in flight, of which a receipt completes only the newer
  (`reducer.go:2019`, `2101`). A crash makes both pending, the first establishes
  the lane, and the next restart puts the established lane back into creating
  for the sake of the second. `Validate` refuses that state (`state.go:1532`), so
  the chat cannot be opened again. It takes two faults and two restarts; within
  the bounds of `ChatRestart` every restart can be saved. The theorem
  `ReopensUnlessOwing` says that nothing else can go wrong with a restart.
* `ChatNotice`: a notice whose turn is cut by a protocol failure is not
  redelivered, unlike one cut by a lost host.

`FifoDriven` and `NothingStranded` are also why no run claims that every input
is settled across faults and restarts: `ForegroundSettles` is what holds, and
only without a deferred lane. The stored attachment of a deferred lane survives
a restart, so the start of its foreground can be claimed before the create that
attaches the lane (`engine.go:384`); it finds no lane, ends the drain and stays
dispatched.

### What the properties leave out, and why

The runs of this section state what the code does; the exceptions in them are
places where it does less than one may expect. Each is named in the property
that carries it, and TLC finds that property violated without the exception.

* `AppliedWasTaken`. "A later FIFO receipt proves earlier directions were
  consumed too" (`reducer.go:3116`) supposes that directions arrive in the order
  they were recorded. `ExecuteSteer` runs without the actor's mutex, so a later
  one can overtake: the earlier is shown as applied and, when it was not yet
  claimed, never sent.
* `InOrder`. A refused direction of an agent is queued under its own operation
  id with its steer effect completed (`reducer.go:2549`). When it runs as a
  turn, the receipt of its input meets that effect and is dropped
  (`reducer.go:3155`): the turn has no row of its input.
* `TakenOnce`, `ReceiptsFit`. Only a timeout leaves a direction in doubt
  (`provider_delivery.go:271`). A connection that closes under the request is
  read as a refusal, also when the provider had used the direction; an agent's
  direction is then queued and taken again, a receipt still on its way fails the
  lane.
* `NotSentUnlessForgotten`. After a stop between send and save the entry is
  pending again; before the retry finds its receipt it may be cancelled or
  expire, and is then told as not sent although it was.
* `ConsumedWasSent`, `ImplementsDelivery`. On an established lane the end of a
  turn stands for the receipt of its input (`reducer.go:3293`), but a job can end
  before it wrote the prompt (`manager.go:1640`, `1655`, `1679`): the ledger then
  calls consumed what was never sent. Such an input has the fate `presumed`, and
  both properties exempt that fate.
* `WorkerOwned`, `ImplementsDelivery`. The foreground of a failing lane is settled
  before its attachment is down. Until then its turn runs on beside the next
  foreground and its prompt may still be written: `Send` of `InputDelivery` is
  allowed for an input of uncertain fate, and `WorkerOwned` for the turn of a
  failing lane, whose input must then be called interrupted or uncertain.
* `NothingSkipped`. A receipt is held only against a report that carries the
  settle (`process_child.go:212`), and a local job's credential stays open. A
  heartbeat that comes later, or the empty report after a full batch
  (`reporter.go:304`), makes a new row of the finished job, with a cursor behind
  events it never applied. Receipt and snapshot are two writes
  (`spawned_work.go:1742`): a stop between them starts the daemon with a running
  row that has a receipt. A commit that fails is only logged and the report is
  acknowledged all the same: a crash then loads a row whose cursor is behind what
  the supervisor has forgotten. So the property speaks of a job without a receipt
  and of commits that did not fail. What does hold of a job that was brought back
  is `GoneIsTold`: the reconcile loop ends it again.
* `ClosedIsOver` says of hosted jobs what cannot be said of local ones. It allows
  for a commit that failed: the token is closed all the same.
* `AckedWasTold`, `GoneIsTold`, `ClosedIsOver` allow for `untold`. The error of the
  append is ignored (`fleet_process.go:90`), and before the daemon's logs are open
  the observer returns without a word (`fleet_process.go:56`): the row is then
  committed, the report acknowledged and the queue emptied, and no later tick
  tells the outcome. "The log first" (`process_child.go:322`) holds for one
  handler, but any other commit takes the settled row too; a daemon that stops
  then has told nobody.
* `ImplementsOutcome`. `ObserveProcess` looks for an earlier exit and appends
  later, without a common lock (`fleet_process.go:69`, `:90`). Two handlers that
  carry a verdict are possible only of a local job that was brought back: its
  owner is then told twice, or told lost after the outcome. And lost may be told
  of a job with a recorded outcome if a telling was let go or the job was brought
  back while its outcome was on its way (`mislaid`). The error of recording the
  outcome is ignored (`supervisor.go:338`): an outbox that refuses it leaves
  nothing pending, and the job ends as lost.

## What is proved

Every theorem is about the specification itself, for every value of its
constants that its assumption allows, and rests on an inductive invariant. These
invariants hold under TLC on the instances of the runs as well (`ChatFaults` and
`ChatRestart`, `Scheduled`, `Reports`, `Steering`), up to their parts that
quantify over all numbers; what failed there showed what was missing.

### The chat actor

From `ChatAssumption` (finitely many lanes, a natural redelivery limit, `NoLane`
and `NoOp` distinct from lanes and operations) and `BoundsAssumption` (the bounds
are naturals). Any number of inputs, faults,
Stops, restarts and creates.

| Theorem | States | Rests on |
|---|---|---|
| `TypeCorrect` | `[]TypeOK` | `IInv` |
| `ThreadsKept` | `ThreadKept`: nothing replaces or forgets the thread of an established lane | `IInv`, `Kept` |
| `ThreadOnce` | `[]OneThread`: of all threads created for a lane at most one took an input | `IInv`, `Threads` |
| `OwnedOnce` | `[]OneOwner`: an accepted operation is queued once, or the foreground, or settled | `Owned` |
| `AlwaysValid` | `[]ValidState`: every committed chat passes `State.Validate` | `Daemon` |
| `WorkersOwned` | `[]WorkerOwned`: a provider works on the admitted foreground, or runs on with the turn a failing lane has cut | `Daemon` |
| `NeverResent` | `[]SentOnce`: no input crosses to a provider twice under its id | `Daemon` |
| `RefusalIsTrue`, `ConsumptionIsTrue` | `[]RefusedNeverSent`, `[]ConsumedWasSent` | `Daemon` |
| `DeliveryImplemented` | `ImplementsDelivery`: the refinement of `InputDelivery` | `Daemon` |
| `OpeningIsOwned` | `[]OpeningOwned`: a lane being opened has the effect that opens it | `Attending` |
| `ReopensUnlessOwing` | `[](Reopens <=> ~Owing)`: which chats a restart can open again | `Daemon` |

`TypeOK` is not inductive. The head of the queue becomes the foreground and its
lane the lane of an outbox entry, so an operation in the queue must name a lane;
the type of `lane` allows `NoLane`. `IInv` adds that (`Placed`), and that an
effect past its claim has a kind. `ChatReducerProofs.tla` shows, operator by
operator, that a command takes a placed chat to a placed chat and keeps its
threads (`Kept`): the lemmas `<Operator>Placed`, over shared ones about
`Record`, `Mark`, sequences and the driving of the FIFO. `ChatActorProofs.tla`
lifts them through the actions of each process, one lemma per action group.

`OneThread` speaks of the threads that took an input, but which thread will be
the next is decided by bindings and attachments. `Threads` says that a used
thread is the committed one of the lane's binding, that a worker sits on an
attachment and an attached lane has a bound thread, and that the lane a create
or resume in hand is about to attach is not attached.

`OneOwner` is broken by an operation that is in the queue twice, or in the queue
and the foreground, before anything happens to it. `Owned` says that the queue
is injective, that what waits is accepted, open and not the foreground, and that
an operation that was never accepted has no fate. Every command is one of a
few *moves* of inputs (`Moves`): none or a drive, a new input that joins, the
foreground settled, with or without the next attempt of a notice returned ahead
of the queue, a waiting input dropped. A lemma per command says which, one per
move that it keeps `Owned`.

`Daemon` is the invariant of the chat with the process around it. `Shaped` says
how lanes, effects and foreground of the chat fit each other: a lane has a
thread exactly in its established phases; each operation that began has one
start; pending resumes are of the current generation; creates are of increasing
generations, and the last is the one the waiting foreground waits for. `Linked`
says what the process has in hand: attachments and uncommitted losses are of the
lane's generation or of an earlier one, and the effect between its claim and its
receipt is still what the chat takes it for. `Delivered` says that of the open
inputs only the running foreground was sent, that none was sent twice, and that
a worker has that foreground, unless its lane is failing: then it has an input
whose fate is decided, and which was not sent before if its prompt is still to be
written; `Bindings`, that only a deferred lane is bound to a
thread that is not committed. `SentOnce` alone is not inductive: an input that
is dispatched must not have been sent before, whichever of the ways back to the
queue or to a pending start it took. `ValidState` alone is not, for a receipt is
accepted by the phase it finds. The refinement maps the chat to
its queue, foreground, fates and sends; each action is shown to be one abstract
step or a stutter.

`OpeningOwned` needs `Attending`. When an attachment is lost the lane becomes
absent or detached and is opened anew. Were it a lane that has neither thread nor
candidate and is being created, its loss would leave that create behind in the
outbox, and its receipt would meet whatever the lane does by then. `Met`
says that there is none: what is attached, or has a loss that is not committed
yet, has a thread or a candidate. `LanesOwned` says that only the create a lane
waits for can still establish it.

`Reopens` does not hold (`ChatReload`). `ReopensUnlessOwing` says when it does: a
chat can be opened again unless a lane that has its thread still owes a create
that was recorded and never dispatched (`Owing`), and then it never can,
whatever order the lanes are walked in. The equivalence was checked with TLC on
the instances of `ChatFaults`, `ChatRestart` and `ChatReload` first. The other
theorems hold of the chats that were opened; a restart that cannot open its chat
is no step of the model.

### Scheduled messages

From `ScheduledAssumption`, for every set of entries, any `MaxPending`, any limit
of attempts and any number of stops, failing saves and refused sends:
`TypeCorrect` (`TypeOK`), `SentOnce` (`DeliveredOnce`), `FiredTrue`
(`FiredWasDelivered`), `ToldTrue` (`NotSentUnlessForgotten`), `CancelIsKept`
(`CancelKept`), `SettledIsKept` (`SettledStays`), from `Invariance`.

None of these is inductive, for each speaks of the entries after the fact. `IInv`
relates the entries to the goroutine's hand before it. `Honest` says of the
memory and of the file alike what their statuses mean for what was delivered,
told and forgotten: a restart turns the one into the other. `Busy` says that an
entry being worked on is neither told as cancelled nor settled as undelivered:
this is what the check of `inflight` under the mutex in the cancellation buys.
`InHand` ties the step of the send to the queue: what has not been submitted is
not in it. `Behind` bounds what an unsaved memory can lose: a failed or expired
entry is so in memory too, or pruned for its age. `Open` says that a delivered
entry is pending only while it is in hand or after a stop that forgot it; with
it a cancellation of a pending entry is known to be true. The proof has a lemma
per goroutine step or caller.

### Reports of a job

From `ReportAssumption` (a batch holds at least one event, `MaxOdd` is a
natural), for local and hosted jobs and any number of heartbeats and faults:
`TypeCorrect` (`TypeOK`), `QueueEmptiesAfterTelling` (`AckedWasTold`),
`ClosedOverAnEnd` (`ClosedIsOver`), `OutcomeImplemented` (`ImplementsOutcome`, the
refinement of `ProcessOutcome`), `CursorHasNoGap` (`NothingSkipped`).

The proofs are layers, each on the one before. `Base` (theorem `BaseInvariance`)
is what queue, rows and carried reports look like: sequences tell the events
apart, there is one outcome, a handler at a step carries what that step needs,
and a supervisor that runs without an outcome has settled nothing (`Early`).

`Duty` (theorem `DutyInvariance`) answers who still owes the owner the verdict. The
acknowledgement is the end of a chain (row settled, owner told, committed,
answered, marked), any link of which may be lost or overtaken by another
handler, so the property alone says nothing about a chain under way. The owner
has *heard* when an exit is in the log, a verdict was let go, or a handler carries
it. `OverHeard` says so of every way in which a job can look over: a settled row,
on file too, a receipt, a closed token, an outcome that no longer waits in the
queue. `Behind` says that no running row, no call and no acknowledgement has
passed an outcome that still waits, unless the owner has heard, and `Reading` that
the reconcile loop has read that outcome before it calls a job lost. `Holding`
ties a verdict in hand to a settled row (of a hosted job one handler has it),
`Lost` says what a handler with the verdict lost may rely on, `Closing` that a
hosted job's end is on file before its token is closed. `AckedWasTold` and
`ClosedIsOver` follow. The refinement maps a handler between its look and its
append to a teller of `ProcessOutcome`.

`Gapless` is for the cursor. While no commit failed and there is no receipt
(`Still`), the rows in memory and on file have seen every event up to their cursor
(`RowsWhole`). What a report carries joins on to what the row has seen, and what a
handler is about to acknowledge is in the row, or on file once it was committed
(`CallWhole`). While the token is open, what the file has not seen is still
undelivered in the queue (`QueueFull`), from whose front every batch is taken.

### Steering

From `SteeringAssumption` (about its sets and `MaxFaults`), for every set
of inputs and directions and any number of timeouts, broken connections and
restarts: `TypeCorrect` (`TypeOK`), `DirectionOwned` (`OneOwner`),
`PendingInTurn` (`PendingOwned`), `AppliedIsTrue` (`AppliedWasTaken`),
`TakenAtMostOnce` (`TakenOnce`), `LedgerInOrder` (`InOrder`),
`ReceiptsAccepted` (`ReceiptsFit`), from `SteeringInvariance`.

`Inv` has two halves. `Core` is about the chat: the effect of a direction says
where it is (`Owned`), no direction has two rows or waits twice (`Once`,
`Lined`), what is pending belongs to the running turn (`InTurn`), rows and
pending list follow the order in which directions were given (`Ordered`,
`InputFirst`), and an applied row has its witness among what was taken
(`Vouched`). `Provider` is about the calls and the provider: a call has an effect
that was sent (`Busy`), a direction is at one place on its way to the provider
and at none when it was returned or queued (`Flow`), what a job marks and what
the events tell was taken (`Worked`, `Streamed`). `OneOwner` alone does not
survive a receipt that moves a direction from the pending list to the ledger
unless its effect tells that it was not moved before; `TakenOnce` alone says
nothing of a direction that has been refused but is still held by the provider.

### What stays with TLC

`Reopens` as it stands, within the bounds of `ChatRestart`; the five runs that
must find a violation; and the liveness properties, `ChatRests`,
`ForegroundSettles`, `DueSettles` and `GoneIsTold`: fairness and `ENABLED` are
beyond the prover.

## Not modelled

Permissions, context import and coverage, detach and workspace moves,
checkpoints, deletion (but for what it does to scheduled messages), turns a
provider starts by itself, edits of the staged queue and presentation (all of
the reducer); the hold of turn starts for an update and of
claims during a reply admission; an ambiguous resume; a capabilities event that
marks a failed lane attached again; the phases broken, importing and
reconciling, and canonicalisation of a lane's identity (they belong to those
parts). Of `discardLane`, forgetting the lane and detaching it are one step
(`Teardown`), so a lane is not opened again while its old adapter is being
detached. A store error ends an
`Apply` without effect in the code and is left out. Pruning of the outbox and ledger is
left out. In `Steering`: adapters without receipts, attachments, the order of two
rows returned to the staged queue (they may swap), and the failure the request's
own goroutine reports for a stale session. In `ProcessReports`: notices of
silence, stall and attention, the queue for resources (a ticket is taken before
its claim is written, `resource.go:133`), remote rows, retention and pruning
(of the queue, and of more than 64 settled rows of hosted jobs), the grace of a
closed run token, a queue or a log that cannot be read (the look for an earlier
exit then finds none), a row that the chat's actor refuses for its content, and a
job run again under its operation id. The stores, the other daemons' parts, clients and network code are
listed in `PROJECT.json` with the reason.

## Plan

1. Done: `InputDelivery`, `ChatReducer`, `ChatActor`, their runs and first
   theorems; `ScheduledMessage`; `ProcessOutcome` and `ProcessReports`;
   `Steering`.
2. Done: the proofs of `ScheduledMessage`, `ProcessReports` and `Steering`.
3. Done: the proofs of the actor: `OneOwner`, `SentOnce`, the step simulation of
   `InputDelivery`, `OpeningOwned`, when a chat opens again.
4. `ContextCoverage`: coverage, seed, delta and import beside `ChatReducer`.
5. Permissions, provider-started turns, detach and deletion; the holds.
6. `HeadlessUpdate`: swap-in, receipt, boot counting, rollback with a crash
   between any two steps.
