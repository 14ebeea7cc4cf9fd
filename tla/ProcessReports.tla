--------------------------- MODULE ProcessReports ---------------------------
(***************************************************************************)
(* One background job: the supervisor (internal/procchild) that records    *)
(* what it witnesses in its outbox and reports it, and the daemon          *)
(* (internal/acp/process_child.go) that applies the reports to the row of  *)
(* the job and tells the owner its outcome.                                *)
(*                                                                         *)
(* A job is local (workass run with the credential of its chat, which no   *)
(* job closes; settled rows become receipts and leave the registry) or     *)
(* hosted (run for a chat of another machine with a run token, closed at   *)
(* its end; settled rows stay).                                            *)
(*                                                                         *)
(* Goroutines: "main" runs the job and records its events, "beat" records  *)
(* heartbeats and retries; both flush the outbox, so two reports can be    *)
(* under way at once.  In the daemon each report has a handler, "launch"   *)
(* writes the row of a hosted job, "tick" reconciles and "other" is a      *)
(* commit of another job.  A handler's steps are its critical sections and *)
(* writes.  Die stops the supervisor, Crash the daemon, between any two.   *)
(***************************************************************************)
EXTENDS Naturals, FiniteSets, Sequences

CONSTANTS MaxBatch,        \* MaxReportBatch
          MaxOdd           \* bound: heartbeats, changes of other jobs, lost
                           \* requests and replies, failed marks, tellings and
                           \* commits, stops of the daemon and of the
                           \* supervisor, together

ASSUME ReportAssumption == MaxBatch \in Nat \ {0} /\ MaxOdd \in Nat

VARIABLES hosted,     \* the job is run for a chat of another machine
          phase,      \* how far Run has come
          outbox,     \* process_events: the rows of this job
          unreachable,\* journal.unreachableSince is set
          delivered,  \* ReportingHealth.Delivered of the receipt
          recorded,   \* the outcome was recorded in the outbox
          call,       \* per goroutine: its step and what it carries
          row,        \* the job's spawnedWorkRecord in memory
          saved,      \* the row as a start would load it from its file
          receipt,    \* the settled row of a local job, on file
          token,      \* the run token of a hosted job
          log,        \* exits in the owner's log
          untold,     \* a verdict was let go: its telling failed, or the daemon
                      \* stopped before it and could not come to it again
          unsaved,    \* a commit failed
          odd         \* how often an adversary acted
jobVars == <<hosted, phase, outbox, unreachable, delivered, recorded>>
keptVars == <<saved, receipt, unsaved>>
toldVars == <<log, untold>>
daemonVars == <<row, token, keptVars, toldVars>>
vars == <<jobVars, call, daemonVars, odd>>

Flushers == {"main", "beat"}
Callers == Flushers \union {"launch", "tick", "other"}
Event == [seq : Nat, kind : {"created", "started", "heartbeat", "settled"}]
Steps == {"idle", "transit", "checked", "applied", "unlogged", "emitted",
          "listed", "receipted", "answer", "replied"}
Statuses == {"absent", "running", "settled"}
Outcomes == {"none", "settled", "lost"}

\* A call that carries nothing: events, ack, exit to tell, row terminal, status
\* of the row its commit listed.
Call(step) == [step |-> step, events |-> {}, ack |-> 0, exit |-> "none",
               terminal |-> FALSE, listed |-> "absent"]
\* No row; a new one has seen nothing and its outbox is not cleared.  missing:
\* SupervisorMissingSince is set.
NoRow == [status |-> "absent", outcome |-> "none", seen |-> {}, spool |-> FALSE,
          missing |-> FALSE]
NewRow == [NoRow EXCEPT !.status = "running", !.spool = TRUE]

TypeOK ==
    /\ hosted \in BOOLEAN
    /\ phase \in {"new", "preflight", "started", "settling", "ended", "dead"}
    /\ outbox \subseteq [event : Event, delivered : BOOLEAN]
    /\ unreachable \in BOOLEAN /\ delivered \in BOOLEAN /\ recorded \in BOOLEAN
    /\ call \in [Callers -> [step : Steps, events : SUBSET Event, ack : Nat,
                             exit : Outcomes, terminal : BOOLEAN, listed : Statuses]]
    /\ {row, saved} \subseteq [status : Statuses, outcome : Outcomes,
                               seen : SUBSET Nat, spool : BOOLEAN, missing : BOOLEAN]
    /\ receipt \in Outcomes /\ token \in {"open", "closed"}
    /\ log \in Seq(Outcomes) /\ untold \in BOOLEAN
    /\ unsaved \in BOOLEAN /\ odd \in 0..MaxOdd

Init ==
    /\ hosted \in BOOLEAN
    /\ phase = "new" /\ outbox = {} /\ unreachable = FALSE
    /\ delivered = FALSE /\ recorded = FALSE
    /\ call = [w \in Callers |->
                 Call(IF w = "launch" /\ hosted THEN "checked" ELSE "idle")]
    /\ row = NoRow /\ saved = NoRow /\ receipt = "none" /\ token = "open"
    /\ log = <<>> /\ untold = FALSE /\ unsaved = FALSE /\ odd = 0

\* The highest seq of a set of them, 0 of none (HighestSeq, MAX(seq)).
Highest(seqs) == IF seqs = {} THEN 0 ELSE CHOOSE s \in seqs : \A t \in seqs : t <= s
Seqs(events) == {e.seq : e \in events}
Settles(events) == \E e \in events : e.kind = "settled"

Alive == phase \notin {"ended", "dead"}
Odd == odd < MaxOdd /\ odd' = odd + 1
Goes(w, step) == call' = [call EXCEPT ![w].step = step]

-----------------------------------------------------------------------------
(* The outbox. *)

\* Append: the seq comes from the rows that are there.
Appended(kind) ==
    outbox \union {[event |-> [seq |-> Highest({r.event.seq : r \in outbox}) + 1,
                               kind |-> kind],
                    delivered |-> FALSE]}

Undelivered(rows) == {r \in rows : ~r.delivered}

\* (mutant) the newest events first.
PendingNewest(rows) ==
    {r.event : r \in {p \in Undelivered(rows) :
        Cardinality({q \in Undelivered(rows) : q.event.seq > p.event.seq}) < MaxBatch}}

\* Pending: the undelivered events in seq order, at most a batch of them.
Pending(rows) ==
    {r.event : r \in {p \in Undelivered(rows) :
        Cardinality({q \in Undelivered(rows) : q.event.seq < p.event.seq}) < MaxBatch}}

\* MarkDelivered and Forget.
Marked(through) == {IF r.event.seq <= through THEN [r EXCEPT !.delivered = TRUE]
                                              ELSE r : r \in outbox}
Forgotten == Undelivered(outbox)

-----------------------------------------------------------------------------
(* The supervisor. *)

\* flushBatch reads the queue and sends what is first in it.
Report(rows) == [Call("transit") EXCEPT !.events = Pending(rows)]

\* Run records the next event it witnesses and flushes: created; started; the
\* outcome, also of a preflight or a start that failed.  An outbox that refuses
\* the event, for its size or an error, ends a run only at its first event.
Witness(kind, from, to) ==
    /\ phase \in from /\ call["main"].step = "idle"
    /\ \/ /\ phase' = to /\ outbox' = Appended(kind)
          /\ call' = [call EXCEPT !["main"] = Report(outbox')]
          /\ recorded' = (recorded \/ kind = "settled")
          /\ UNCHANGED odd
       \/ /\ Odd /\ phase' = (IF kind = "created" THEN "ended" ELSE to)
          /\ UNCHANGED <<outbox, call, recorded>>
    /\ UNCHANGED <<hosted, unreachable, delivered, daemonVars>>
Run ==
    \/ Witness("created", {"new"}, "preflight")
    \/ Witness("started", {"preflight"}, "started")
    \/ Witness("settled", {"preflight", "started"}, "settling")

\* settle: flush until nothing is pending, or give up: the deadline passed or
\* the daemon refused the report.  Then Run returns.
Settle ==
    /\ phase = "settling" /\ call["main"].step = "idle"
    /\ \/ phase' = "ended" /\ delivered' = (Undelivered(outbox) = {}) /\ UNCHANGED call
       \/ /\ Undelivered(outbox) # {} /\ call' = [call EXCEPT !["main"] = Report(outbox)]
          /\ UNCHANGED <<phase, delivered>>
    /\ UNCHANGED <<hosted, outbox, unreachable, recorded, daemonVars, odd>>

\* beat: a heartbeat while the daemon is reachable, else only the backlog.
Beat ==
    /\ Alive /\ phase # "new" /\ call["beat"].step = "idle"
    /\ \/ ~unreachable /\ Odd /\ outbox' = Appended("heartbeat")
       \/ unreachable /\ UNCHANGED <<outbox, odd>>
    /\ call' = [call EXCEPT !["beat"] = Report(outbox')]
    /\ UNCHANGED <<hosted, phase, unreachable, delivered, recorded, daemonVars>>

\* The answer: marked, and the next batch is sent if this one was full.  An
\* outbox that cannot be written leaves it to the next flush.
Receive(w) ==
    /\ Alive /\ call[w].step = "replied"
    /\ unreachable' = FALSE
    /\ \/ /\ outbox' = Marked(call[w].ack) /\ UNCHANGED odd
          /\ call' = [call EXCEPT ![w] =
                IF Cardinality(call[w].events) >= MaxBatch THEN Report(outbox')
                                                           ELSE Call("idle")]
       \/ Odd /\ call' = [call EXCEPT ![w] = Call("idle")] /\ UNCHANGED outbox
    /\ UNCHANGED <<hosted, phase, delivered, recorded, daemonVars>>

\* The request or its reply is lost: noteFailure.
Unanswered(w) ==
    /\ Alive /\ call[w].step \in {"transit", "replied"}
    /\ Odd
    /\ call' = [call EXCEPT ![w] = Call("idle")] /\ unreachable' = TRUE
    /\ UNCHANGED <<hosted, phase, outbox, delivered, recorded, daemonVars>>

\* The supervisor is killed; its requests on the way may still arrive.
Die ==
    /\ Alive /\ Odd
    /\ phase' = "dead"
    /\ UNCHANGED <<hosted, outbox, unreachable, delivered, recorded, call, daemonVars>>

-----------------------------------------------------------------------------
(* The daemon. *)

\* The answer that applies nothing acknowledges what was sent.
Unread(c) == [c EXCEPT !.step = "replied", !.ack = Highest(Seqs(c.events))]

\* process.register: a run token whose job has ended is told so
\* (closedJobReportAnswer); a closing report of a local job without a row loses
\* to a receipt.  Neither is applied, nor anything forgotten.
Admit(w) ==
    /\ call[w].step = "transit"
    /\ call' = [call EXCEPT ![w] =
          IF \/ hosted /\ token = "closed"
             \/ ~hosted /\ Settles(@.events) /\ row = NoRow /\ receipt # "none"
          THEN Unread(@) ELSE [@ EXCEPT !.step = "checked"]]
    /\ UNCHANGED <<jobVars, daemonVars, odd>>

\* applyReportedEventsLocked: the events past the cursor; the outcome settles
\* a running row.
Applied(r, events) ==
    LET new == {e \in events : e.seq > Highest(r.seen)}
        ends == r.status = "running" /\ Settles(new)
    IN [r EXCEPT !.status = IF ends THEN "settled" ELSE @,
                 !.outcome = IF ends THEN "settled" ELSE @,
                 !.seen = @ \union Seqs(new)]

\* (mutant) the status is told for the outcome.
ExitStatus(r, new) == IF r.status = "running" THEN new.status ELSE "none"

\* What a row that was r before tells: the verdict it just got.
Exit(r, new) == IF r.status = "running" THEN new.outcome ELSE "none"

\* RegisterProcessChild: the row is found or created and the events applied
\* under one lock.  What tells nothing goes on to its commit.
Apply(w) ==
    /\ call[w].step = "checked"
    /\ LET r == IF row = NoRow THEN NewRow ELSE row
           new == Applied(r, call[w].events)
       IN /\ row' = new
          /\ call' = [call EXCEPT ![w] =
                [@ EXCEPT !.step = IF Exit(r, new) = "none" THEN "emitted" ELSE "applied",
                          !.ack = Highest(new.seen), !.exit = Exit(r, new),
                          !.terminal = new.status # "running"]]
    /\ UNCHANGED <<jobVars, token, keptVars, toldVars, odd>>

-----------------------------------------------------------------------------
(* The owner is told (emitProcessChildLifecycle): before the commit. *)

\* The handler carries no verdict any more.
Told(w) == call' = [call EXCEPT ![w].step = "emitted", ![w].exit = "none"]
\* (mutant) the row is committed first and the owner told afterwards.
LookLate(w) ==
    /\ \/ call[w].step = "applied" /\ Goes(w, "emitted") /\ UNCHANGED log
       \/ /\ call[w].step = "answer" /\ call[w].exit # "none"
          /\ call' = [call EXCEPT ![w].exit = "none"]
          /\ log' = IF log = <<>> THEN <<call[w].exit>> ELSE log
    /\ UNCHANGED <<jobVars, row, token, keptVars, untold, odd>>

\* ObserveProcess: one job, one exit.  Before the daemon's logs are open it
\* returns without a word.
LookAtLog(w) ==
    /\ call[w].step = "applied"
    /\ \/ log = <<>> /\ Goes(w, "unlogged") /\ UNCHANGED <<untold, odd>>
       \/ log = <<>> /\ Odd /\ Told(w) /\ untold' = TRUE
       \/ log # <<>> /\ Told(w) /\ UNCHANGED <<untold, odd>>
    /\ UNCHANGED <<jobVars, row, token, keptVars, log>>

\* Later, without a lock, it appends; nobody hears of a failure.
Emit(w) ==
    /\ call[w].step = "unlogged" /\ Told(w)
    /\ \/ log' = Append(log, call[w].exit) /\ UNCHANGED <<untold, odd>>
       \/ Odd /\ untold' = (untold \/ log = <<>>) /\ UNCHANGED log
    /\ UNCHANGED <<jobVars, row, token, keptVars>>

-----------------------------------------------------------------------------
(* The row is committed; a failure of any write is logged. *)

\* What a start loads of a row: the outbox of a hosted job that has ended is
\* not looked at again, nor is a supervisor known to be missing.
Loaded(r) == [r EXCEPT !.spool = r # NoRow /\ (~hosted \/ r.status = "running"),
                       !.missing = FALSE]

\* After its commit the handler of a settled row clears the outbox; others end.
Done(w, c) == IF c.terminal THEN [c EXCEPT !.step = "answer", !.listed = "absent"]
              ELSE IF w \in Flushers THEN [c EXCEPT !.step = "replied", !.listed = "absent"]
              ELSE Call("idle")
Ends(w) == call' = [call EXCEPT ![w] = Done(w, @)]
Fails(w) == Ends(w) /\ Odd /\ unsaved' = TRUE /\ UNCHANGED <<row, saved, receipt>>

\* A change of another job, of the same chat or hosted like this one, is committed.
OtherChanges ==
    /\ Odd /\ row # NoRow /\ call["other"].step = "idle" /\ Goes("other", "emitted")
    /\ UNCHANGED <<jobVars, daemonVars>>

\* (mutant) the file keeps the rows of running jobs only.
PersistRunning(w) ==
    /\ hosted /\ call[w].step = "emitted"
    /\ Ends(w) /\ saved' = (IF row.status = "running" THEN Loaded(row) ELSE NoRow)
    /\ UNCHANGED <<jobVars, row, receipt, unsaved, token, toldVars, odd>>

\* persistHostedProcessChildren: all hosted rows, in one file.
Persist(w) ==
    /\ hosted /\ call[w].step = "emitted"
    /\ \/ Ends(w) /\ saved' = Loaded(row) /\ UNCHANGED <<row, receipt, unsaved, odd>>
       \/ Fails(w)
    /\ UNCHANGED <<jobVars, token, toldVars>>

\* spawnedWorkCommitMu: one commit of a chat at a time.
Committing == \E w \in Callers : call[w].step \in {"listed", "receipted"}

\* commitSpawnedWorkChange: the chat's actor takes the rows as they are listed.
List(w) ==
    /\ ~hosted /\ ~Committing /\ call[w].step = "emitted"
    /\ \/ /\ call' = [call EXCEPT ![w].step = "listed", ![w].listed = row.status]
          /\ UNCHANGED <<row, saved, receipt, unsaved, odd>>
       \/ Fails(w)
    /\ UNCHANGED <<jobVars, token, toldVars>>

\* A listed row that is settled by now gets its receipt, the first one stands.
\* If the actor took it as settled it leaves the registry.
Compact(w) ==
    /\ call[w].step = "listed"
    /\ \/ /\ Goes(w, "receipted")
          /\ IF call[w].listed # "absent" /\ row.status = "settled"
             THEN /\ receipt' = (IF receipt = "none" THEN row.outcome ELSE receipt)
                  /\ row' = (IF call[w].listed = "settled" THEN NoRow ELSE row)
             ELSE UNCHANGED <<receipt, row>>
          /\ UNCHANGED <<saved, unsaved, odd>>
       \/ Fails(w)
    /\ UNCHANGED <<jobVars, token, toldVars>>

\* persistSpawnedWorkSnapshot: the rows that are there now.
Snapshot(w) ==
    /\ call[w].step = "receipted"
    /\ \/ Ends(w) /\ saved' = Loaded(row) /\ UNCHANGED <<row, receipt, unsaved, odd>>
       \/ Fails(w)
    /\ UNCHANGED <<jobVars, token, toldVars>>

-----------------------------------------------------------------------------
(* The end of a handler, and the reconcile loop. *)

\* A terminal row's delivered events are forgotten, then the run token is closed
\* and the report answered; the tick will not look at the outbox again.
Answer(w) ==
    /\ call[w].step = "answer"
    /\ outbox' = Forgotten
    /\ token' = (IF hosted /\ w \in Flushers THEN "closed" ELSE token)
    /\ row' = (IF w = "tick" THEN [row EXCEPT !.spool = FALSE] ELSE row)
    /\ call' = [call EXCEPT ![w] = Done(w, [@ EXCEPT !.terminal = FALSE])]
    /\ UNCHANGED <<hosted, phase, unreachable, delivered, recorded, keptVars, toldVars, odd>>

\* The events of a queue past the cursor (drainProcessChildOutbox).
Past(cursor) == {e \in {r.event : r \in outbox} : e.seq > cursor}

Reads(events) ==
    /\ call["tick"].step = "idle"
    /\ call' = [call EXCEPT !["tick"] = [Call("checked") EXCEPT !.events = events]]
    /\ UNCHANGED <<jobVars, daemonVars, odd>>

\* (mutant) a row that was found missing is passed over.
LookOnce ==
    \/ row.status = "running" /\ ~Alive /\ ~row.missing /\ Reads(Past(Highest(row.seen)))
    \/ row.status = "settled" /\ row.spool /\ Reads({})

\* reconcileProcessChildren looks at a running row: the queue of a supervisor
\* that is gone is read.  A look at one that is alive changes nothing unless it
\* dies before the verdict: then it was not missing yet and nothing was read.
\* Of a settled row it will only clear the outbox, once.
Look ==
    \/ row.status = "running" /\ ~Alive /\ Reads(Past(Highest(row.seen)))
    \/ row.status = "running" /\ ~Alive /\ ~row.missing /\ Reads({})
    \/ row.status = "settled" /\ row.spool /\ Reads({})

\* (mutant) lost at the first look.
GraceOver == TRUE
\* supervisorMissingGrace: the supervisor was gone at an earlier look already.
MissedBefore == row.missing

\* Then, locked again, it applies what it read and gives its verdict.
Judge ==
    /\ call["tick"].step = "checked"
    /\ LET read == Applied(row, call["tick"].events)
           gone == row # NoRow /\ read.status = "running" /\ ~Alive
           isLost == gone /\ MissedBefore
           new == IF isLost THEN [read EXCEPT !.status = "settled", !.outcome = "lost"]
                  ELSE [read EXCEPT !.missing = gone]
       IN IF row = NoRow
          THEN call' = [call EXCEPT !["tick"] = Call("idle")] /\ UNCHANGED row
          ELSE /\ row' = new
               /\ call' = [call EXCEPT !["tick"] =
                    [Call(IF Exit(row, new) # "none" THEN "applied"
                          ELSE IF new.status = "settled" /\ row.spool THEN "answer"
                          ELSE "idle")
                     EXCEPT !.exit = Exit(row, new),
                            !.terminal = new.status = "settled" /\ row.spool]]
    /\ UNCHANGED <<jobVars, token, keptVars, toldVars, odd>>

\* A handler carries a verdict it has yet to tell.
Carries(w) == call[w].step \in {"applied", "unlogged"} /\ call[w].exit # "none"

\* What a verdict that is cut short comes from is out of reach: the row was
\* saved as settled or is gone with a receipt, the run token is closed, or the
\* recorded outcome is not waiting in the queue.
OutOfReach ==
    \/ saved.status = "settled" \/ (saved = NoRow /\ receipt # "none")
    \/ token = "closed"
    \/ recorded /\ \A r \in Undelivered(outbox) : r.event.kind # "settled"

\* The daemon stops and loads what it saved; its open calls fail.
Crash ==
    /\ Odd /\ row' = saved
    /\ untold' = (untold \/ (log = <<>> /\ OutOfReach /\ \E w \in Callers : Carries(w)))
    /\ call' = [w \in Callers |-> Call("idle")]
    /\ unreachable' = (unreachable \/ \E w \in Flushers : call[w].step # "idle")
    /\ UNCHANGED <<hosted, phase, outbox, delivered, recorded, keptVars, token, log>>

-----------------------------------------------------------------------------
Supervisor(w) == Receive(w) \/ Unanswered(w)
Handler(w) == Admit(w) \/ (w # "tick" /\ Apply(w)) \/ LookAtLog(w) \/ Emit(w)
              \/ Persist(w) \/ List(w) \/ Compact(w) \/ Snapshot(w) \/ Answer(w)
Tick == Look \/ Judge
Next ==
    \/ Run \/ Settle \/ Beat \/ Die
    \/ \E w \in Flushers : Supervisor(w)
    \/ \E w \in Callers : Handler(w)
    \/ Tick \/ OtherChanges \/ Crash

Spec == Init /\ [][Next]_vars

\* The daemon's goroutines, its handlers and its reconcile loop, together never
\* stop while one of them has a step; nothing is asked of the supervisor.
Daemon == (\E w \in Callers : Handler(w)) \/ Tick
FairSpec == Spec /\ WF_vars(Daemon)

-----------------------------------------------------------------------------
(* Properties. *)

\* The owner is told the true verdict: what the supervisor recorded, and lost
\* only if it is gone without having recorded an outcome, or with one whose
\* telling failed.  Of a hosted job it is told one verdict, once; of a local one
\* again only by a handler that had looked into the log before, and lost also if
\* the job was brought back while its outcome was on its way.
Outcome == INSTANCE ProcessOutcome WITH
    Tellers <- Callers, single <- hosted,
    outcome <- IF recorded THEN "settled" ELSE "none", alive <- Alive,
    mislaid <- recorded /\ (untold \/ (~hosted /\ receipt # "none")),
    looked <- {w \in Callers : call[w].step = "unlogged"}, told <- log
ImplementsOutcome == Outcome!Spec

\* An outcome leaves the supervisor's queue, and a receipt says all was
\* delivered, only when the owner was told or a handler is about to tell.
AckedWasTold ==
    ((\E r \in outbox : r.event.kind = "settled" /\ r.delivered)
       \/ (delivered /\ recorded)) =>
        log # <<>> \/ untold \/ \E w \in Callers : Carries(w)

\* The daemon's cursor never passes an event it has not applied, whatever
\* batches overlap, are lost or repeated, until the job has a receipt; a commit
\* that failed is the exception.
NothingSkipped ==
    (row # NoRow /\ ~unsaved /\ receipt = "none") => row.seen = 1..Highest(row.seen)

\* A run token is closed only over a job whose end the owner was or is being told
\* and, unless a commit failed, whose settled row outlives the daemon: no late
\* report, launch or stop makes the job run again.
ClosedIsOver ==
    token = "closed" => /\ log # <<>> \/ untold \/ \E w \in Callers : Carries(w)
                        /\ unsaved \/ (saved.status = "settled" /\ row.status = "settled")

\* A job the daemon has on disk, whose supervisor is gone, is told to its owner
\* and does not run on, one that a late report or a stop brought back no less.
GoneIsTold ==
    (saved # NoRow /\ ~Alive) ~> (row.status # "running" /\ (log # <<>> \/ untold))
=============================================================================
