-------------------------- MODULE ScheduledMessage --------------------------
(***************************************************************************)
(* The scheduled messages of one chat (internal/scheduledmessage and its   *)
(* sender in cmd/workass).  The scheduler keeps entries in memory and in   *)
(* one file; its one goroutine collects the entries to try (Collect) and,  *)
(* without its mutex, probes, sends and settles each of them (Probe,       *)
(* Submit, Finish).  Callers schedule, cancel and delete the chat beside   *)
(* it.  The chat keeps the operation id of what was sent (chat.queued): a  *)
(* daemon that stopped between sending and saving finds its send there.    *)
(*                                                                         *)
(* An entry stands for its id, derived operation id and text; Timed is the *)
(* set of the "at" entries, the others wait for a probe until they expire. *)
(***************************************************************************)
EXTENDS Naturals, FiniteSets, Sequences

CONSTANTS Entries,          \* ids of scheduled messages
          Timed,            \* those of kind "at"
          MaxPending,       \* maxPending: pending entries of a chat
          MaxAttempts,      \* maxAttempts: failed sends of an entry
          NoEntry,          \* no send under way
          MaxCrashes,       \* bound: stops of the daemon
          MaxDiskFaults,    \* bound: saves that fail
          MaxSendFaults     \* bound: sends the chat refuses

ASSUME ScheduledAssumption ==
    /\ Timed \subseteq Entries
    /\ NoEntry \notin Entries
    /\ {MaxPending, MaxAttempts} \subseteq Nat \ {0}

VARIABLES mem,         \* Scheduler.entries
          disk,        \* scheduled-messages.json
          inflight,    \* Scheduler.inflight
          work,        \* entries this Tick still has to try
          send,        \* the candidate in hand: its entry, Late mark and step
          chat,        \* the chat: deleted, and the sends it has queued
          deleting,    \* DeleteChat committed, CancelChat still to come
          reached,     \* entries whose At or ExpiresAt has come
          old,         \* settled entries prune drops (age, number)
          told,        \* entries whose cancellation a caller was told
          unsaved,     \* sent entries the daemon forgot having sent
          crashes, diskFaults, sendFaults
vars == <<mem, disk, inflight, work, send, chat, deleting, reached, old, told,
          unsaved, crashes, diskFaults, sendFaults>>

Settled == {"fired", "cancelled", "failed", "expired"}
Entry == [status : {"absent", "pending"} \union Settled,
          attempts : 0..MaxAttempts, late : BOOLEAN]
Absent == [status |-> "absent", attempts |-> 0, late |-> FALSE]
Sent == [entry : Entries, late : BOOLEAN]
Idle == [entry |-> NoEntry, late |-> FALSE, step |-> "idle"]
Steps == {"read", "queue", "sent", "gone", "refused"}

Pending(m) == {e \in Entries : m[e].status = "pending"}
Delivered == {chat.queued[i].entry : i \in DOMAIN chat.queued}

TypeOK ==
    /\ mem \in [Entries -> Entry] /\ disk \in [Entries -> Entry]
    /\ inflight \subseteq Entries /\ work \subseteq Entries
    /\ send \in [entry : Entries, late : BOOLEAN, step : Steps] \union {Idle}
    /\ chat \in [deleted : BOOLEAN, queued : Seq(Sent)]
    /\ deleting \in BOOLEAN
    /\ reached \subseteq Entries /\ old \subseteq Entries
    /\ told \subseteq Entries /\ unsaved \subseteq Entries
    /\ crashes \in Nat /\ diskFaults \in Nat /\ sendFaults \in Nat

Init ==
    /\ mem = [e \in Entries |-> Absent] /\ disk = mem
    /\ inflight = {} /\ work = {} /\ send = Idle
    /\ chat = [deleted |-> FALSE, queued |-> <<>>] /\ deleting = FALSE
    /\ reached = {} /\ old = {} /\ told = {} /\ unsaved = {}
    /\ crashes = 0 /\ diskFaults = 0 /\ sendFaults = 0

-----------------------------------------------------------------------------
(* The store. *)

\* prune: a settled entry past retention or count is dropped.
Prune(m) == [e \in Entries |-> IF m[e].status \in Settled /\ e \in old
                               THEN Absent ELSE m[e]]

\* persist: the file is replaced, or an error is returned; one that comes
\* after the rename leaves the new file.
Saved(m) == disk' = m /\ UNCHANGED diskFaults
SaveFailed(m) ==
    /\ diskFaults < MaxDiskFaults /\ diskFaults' = diskFaults + 1
    /\ disk' \in {disk, m}

\* persistLogged: prunes and saves; an error is only logged.
PersistLogged(m) ==
    /\ mem' = Prune(m)
    /\ Saved(mem') \/ SaveFailed(mem')

\* settle: the entry of m gets a final status.
Settle(m, e, status) == [m EXCEPT ![e].status = status]

-----------------------------------------------------------------------------
(* Callers. *)

\* Schedule of a new operation id; a known one returns its entry unchanged.
Schedule(e) ==
    /\ mem[e].status = "absent" /\ e \notin told \union Delivered \union old
    /\ Cardinality(Pending(mem)) < MaxPending
    /\ LET m == [mem EXCEPT ![e] = [Absent EXCEPT !.status = "pending"]] IN
       \/ mem' = m /\ Saved(m)
       \/ UNCHANGED mem /\ SaveFailed(m)
    /\ reached' = reached \ {e}
    /\ UNCHANGED <<inflight, work, send, chat, deleting, old, told, unsaved,
                   crashes, sendFaults>>

\* (mutant) the cancellation does not look at the sends under way.
CancelInFlight(e) ==
    /\ mem[e].status = "pending"
    /\ LET m == Settle(mem, e, "cancelled") IN
       \/ /\ mem' = Prune(m) /\ told' = told \union {e}
          /\ Saved(mem')
       \/ UNCHANGED <<mem, told>> /\ SaveFailed(m)
    /\ UNCHANGED <<inflight, work, send, chat, deleting, reached, old, unsaved,
                   crashes, sendFaults>>

\* Cancel: only a saved cancellation is told; one under way is refused.  A
\* prune that dropped something is saved once more, an error of that ignored.
Cancel(e) ==
    /\ mem[e].status = "pending" /\ e \notin inflight
    /\ LET m == Settle(mem, e, "cancelled") IN
       \/ /\ mem' = Prune(m) /\ told' = told \union {e}
          /\ \/ Saved(mem')
             \/ /\ mem' # m /\ diskFaults < MaxDiskFaults
                /\ diskFaults' = diskFaults + 1 /\ disk' \in {m, mem'}
       \/ UNCHANGED <<mem, told>> /\ SaveFailed(m)
    /\ UNCHANGED <<inflight, work, send, chat, deleting, reached, old, unsaved,
                   crashes, sendFaults>>

\* DeleteChat commits the deletion, then tells the scheduler (CancelChat).
DeleteChat ==
    /\ ~chat.deleted
    /\ chat' = [chat EXCEPT !.deleted = TRUE] /\ deleting' = TRUE
    /\ UNCHANGED <<mem, disk, inflight, work, send, reached, old, told,
                   unsaved, crashes, diskFaults, sendFaults>>

\* CancelChat: every pending entry, one being sent included.
CancelChat ==
    /\ deleting /\ deleting' = FALSE
    /\ IF Pending(mem) = {}
       THEN UNCHANGED <<mem, disk, diskFaults>>
       ELSE PersistLogged([e \in Entries |->
                IF e \in Pending(mem) THEN Settle(mem, e, "cancelled")[e]
                ELSE mem[e]])
    /\ UNCHANGED <<inflight, work, send, chat, reached, old, told, unsaved,
                   crashes, sendFaults>>

-----------------------------------------------------------------------------
(* The scheduler's goroutine. *)

\* Tick under the mutex: conditions past their time expire, what may be due
\* is marked in flight and collected.
Collect ==
    /\ work = {} /\ send = Idle
    /\ LET open == Pending(mem) \ inflight
           expired == (open \ Timed) \cap reached
           due == (open \cap Timed \cap reached) \union (open \ (Timed \union expired))
           m == [e \in Entries |-> IF e \in expired
                                   THEN Settle(mem, e, "expired")[e] ELSE mem[e]]
       IN /\ due \union expired # {}
          /\ inflight' = inflight \union due /\ work' = due
          /\ IF expired = {} THEN UNCHANGED <<mem, disk, diskFaults>>
                             ELSE PersistLogged(m)
    /\ UNCHANGED <<send, chat, deleting, reached, old, told, unsaved, crashes,
                   sendFaults>>

\* Tick takes the next candidate as it was collected; a probe may find its
\* condition not met, which releases it.
Probe(e) ==
    /\ send = Idle /\ e \in work /\ work' = work \ {e}
    /\ \/ /\ send' = [entry |-> e, late |-> mem[e].late, step |-> "read"]
          /\ UNCHANGED inflight
       \/ e \notin Timed /\ inflight' = inflight \ {e} /\ UNCHANGED send
    /\ UNCHANGED <<mem, disk, chat, deleting, reached, old, told, unsaved,
                   crashes, diskFaults, sendFaults>>

\* (mutant) the receipt is looked up by the text, which a restart can change.
KnownText(s) == \E i \in DOMAIN chat.queued :
                    chat.queued[i] = [entry |-> s.entry, late |-> s.late]

\* agentSendExistingOperation: the derived operation id is the receipt.
Known(s) == s.entry \in Delivered

\* deliverScheduledMessage reads the chat: gone, already queued, or to queue.
ReadChat ==
    /\ send.step = "read"
    /\ send' = [send EXCEPT !.step = IF chat.deleted THEN "gone"
                                     ELSE IF Known(send) THEN "sent" ELSE "queue"]
    /\ UNCHANGED <<mem, disk, inflight, work, chat, deleting, reached, old,
                   told, unsaved, crashes, diskFaults, sendFaults>>

Queue(s) == [chat EXCEPT !.queued = Append(@, [entry |-> s.entry, late |-> s.late])]

\* (mutant) an error after the durable queueing is taken for a failed send.
SubmitThenFail ==
    /\ send.step = "queue"
    /\ chat' = (IF chat.deleted THEN chat ELSE Queue(send))
    /\ \/ send' = [send EXCEPT !.step = IF chat.deleted THEN "refused" ELSE "sent"]
          /\ UNCHANGED sendFaults
       \/ /\ sendFaults < MaxSendFaults /\ sendFaults' = sendFaults + 1
          /\ send' = [send EXCEPT !.step = "refused"]
    /\ UNCHANGED <<mem, disk, inflight, work, deleting, reached, old, told,
                   unsaved, crashes, diskFaults>>

\* QueueAgentMessageWithAttachments under the actor's mutex: refused by a
\* deleted chat or for any other reason, or committed to the chat's queue.
Submit ==
    /\ send.step = "queue"
    /\ \/ /\ chat.deleted
          /\ send' = [send EXCEPT !.step = "refused"]
          /\ UNCHANGED <<chat, sendFaults>>
       \/ /\ ~chat.deleted
          /\ send' = [send EXCEPT !.step = "sent"]
          /\ chat' = Queue(send) /\ UNCHANGED sendFaults
       \/ /\ ~chat.deleted
          /\ sendFaults < MaxSendFaults /\ sendFaults' = sendFaults + 1
          /\ send' = [send EXCEPT !.step = "refused"]
          /\ UNCHANGED chat
    /\ UNCHANGED <<mem, disk, inflight, work, deleting, reached, old, told,
                   unsaved, crashes, diskFaults>>

\* (mutant) one attempt more than the limit.
OutcomeOneMore(e) ==
    IF send.step = "sent" THEN Settle(mem, e, "fired")
    ELSE IF send.step = "gone" THEN Settle(mem, e, "failed")
    ELSE LET n == mem[e].attempts + 1 IN
         [mem EXCEPT ![e].attempts = n,
                     ![e].status = IF n > MaxAttempts THEN "failed" ELSE @]

\* (mutant) a send to a chat that is gone counts as done.
OutcomeGoneFired(e) ==
    IF send.step \in {"sent", "gone"} THEN Settle(mem, e, "fired")
    ELSE LET n == mem[e].attempts + 1 IN
         [mem EXCEPT ![e].attempts = n,
                     ![e].status = IF n >= MaxAttempts THEN "failed" ELSE @]

\* finish: what the result makes of a pending entry.
Outcome(e) ==
    IF send.step = "sent" THEN Settle(mem, e, "fired")
    ELSE IF send.step = "gone" THEN Settle(mem, e, "failed")
    ELSE LET n == mem[e].attempts + 1 IN
         [mem EXCEPT ![e].attempts = n,
                     ![e].status = IF n >= MaxAttempts THEN "failed" ELSE @]

\* (mutant) finish settles whatever the entry has become meanwhile.
FinishSettled ==
    /\ send.step \in {"sent", "gone", "refused"}
    /\ inflight' = inflight \ {send.entry} /\ send' = Idle
    /\ IF mem[send.entry].status # "absent" /\ mem[send.entry].attempts < MaxAttempts
       THEN PersistLogged(Outcome(send.entry))
       ELSE UNCHANGED <<mem, disk, diskFaults>>
    /\ UNCHANGED <<work, chat, deleting, reached, old, told, unsaved, crashes,
                   sendFaults>>

\* (mutant) finish keeps the entry in flight after a failed send.
FinishInFlight ==
    /\ send.step \in {"sent", "gone", "refused"}
    /\ inflight' = (IF send.step = "sent" THEN inflight \ {send.entry} ELSE inflight)
    /\ send' = Idle
    /\ IF mem[send.entry].status = "pending"
       THEN PersistLogged(Outcome(send.entry))
       ELSE UNCHANGED <<mem, disk, diskFaults>>
    /\ UNCHANGED <<work, chat, deleting, reached, old, told, unsaved, crashes,
                   sendFaults>>

\* finish: only an entry that is still pending is settled.
Finish ==
    /\ send.step \in {"sent", "gone", "refused"}
    /\ inflight' = inflight \ {send.entry} /\ send' = Idle
    /\ IF mem[send.entry].status = "pending"
       THEN PersistLogged(Outcome(send.entry))
       ELSE UNCHANGED <<mem, disk, diskFaults>>
    /\ UNCHANGED <<work, chat, deleting, reached, old, told, unsaved, crashes,
                   sendFaults>>

-----------------------------------------------------------------------------
(* Time and crashes. *)

\* The At or ExpiresAt of a pending entry comes.
Reach(e) ==
    /\ mem[e].status = "pending" /\ e \notin reached
    /\ reached' = reached \union {e}
    /\ UNCHANGED <<mem, disk, inflight, work, send, chat, deleting, old, told,
                   unsaved, crashes, diskFaults, sendFaults>>

\* A settled entry passes retention, or newer ones fill the chat's share.
Age(e) ==
    /\ mem[e].status \in Settled /\ e \notin old
    /\ old' = old \union {e}
    /\ UNCHANGED <<mem, disk, inflight, work, send, chat, deleting, reached,
                   told, unsaved, crashes, diskFaults, sendFaults>>

\* The daemon stops at any point and New loads the file; a timed entry that
\* came due meanwhile is marked late.  A save that fails here fails the start.
Restart ==
    /\ crashes < MaxCrashes /\ crashes' = crashes + 1
    /\ \E passed \in SUBSET Pending(disk) :
       /\ reached' = reached \union passed
       /\ mem' = Prune([e \in Entries |->
                    IF e \in Pending(disk) \cap Timed \cap reached'
                    THEN [disk[e] EXCEPT !.late = TRUE] ELSE disk[e]])
    /\ disk' = mem'
    /\ unsaved' = unsaved \union (Delivered \cap Pending(disk))
    /\ inflight' = {} /\ work' = {} /\ send' = Idle /\ deleting' = FALSE
    /\ UNCHANGED <<chat, old, told, diskFaults, sendFaults>>

-----------------------------------------------------------------------------
Scheduler == Collect \/ (\E e \in Entries : Probe(e)) \/ ReadChat \/ Submit \/ Finish
Next ==
    \/ \E e \in Entries : Schedule(e) \/ Cancel(e) \/ Reach(e) \/ Age(e)
    \/ DeleteChat \/ CancelChat \/ Scheduler \/ Restart

Spec == Init /\ [][Next]_vars

\* Run ticks for ever and a send returns; nobody has to do anything else.
FairSpec == Spec /\ WF_vars(Scheduler)

-----------------------------------------------------------------------------
(* Properties. *)

\* A scheduled message enters the chat's queue at most once, although a
\* restart repeats a send that was not saved, under a text that may differ.
DeliveredOnce ==
    \A i, j \in DOMAIN chat.queued :
        chat.queued[i].entry = chat.queued[j].entry => i = j

\* A caller told that a message was cancelled will not see it delivered
\* afterwards: not by the send under way, not by a later start of the daemon.
CancelKept ==
    [][\A e \in told : e \in Delivered' => e \in Delivered]_vars

\* An entry that is recorded as fired, in memory or on disk, was delivered.
FiredWasDelivered ==
    \A e \in Entries :
        "fired" \in {mem[e].status, disk[e].status} => e \in Delivered

\* A message reported as not delivered (told as cancelled, failed, expired)
\* was delivered only if the daemon stopped before it had saved the send.
NotSentUnlessForgotten ==
    \A e \in Entries :
        (mem[e].status \in {"failed", "expired"} \/ e \in told) =>
            (e \in Delivered => e \in unsaved)

\* A settled entry keeps its status until it is pruned, although CancelChat
\* settles one whose send has yet to finish.  Only a restart may undo what
\* could not be saved.
SettledStays ==
    [][\A e \in Entries :
         (mem[e].status \in Settled /\ crashes' = crashes) =>
             mem'[e].status \in {mem[e].status, "absent"}]_vars

\* A pending entry whose time has come is settled: sent, failed after its
\* last attempt, expired or cancelled.
DueSettles ==
    \A e \in Entries :
        (mem[e].status = "pending" /\ e \in reached) ~> (mem[e].status # "pending")
=============================================================================
