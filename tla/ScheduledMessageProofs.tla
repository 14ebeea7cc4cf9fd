----------------------- MODULE ScheduledMessageProofs -----------------------
(***************************************************************************)
(* Theorems about ScheduledMessage, for every set of entries, every limit  *)
(* and any number of stops, failing saves and refused sends.               *)
(***************************************************************************)
EXTENDS ScheduledMessage, TLAPS

\* What one map of entries may say, in memory or on disk, of what was
\* delivered (d), told as cancelled (t) and forgotten by the daemon (u).
Honest(m, d, t, u) ==
    /\ m \in [Entries -> Entry]
    /\ \A e \in Entries :
         /\ m[e].status = "pending" => m[e].attempts < MaxAttempts
         /\ m[e].status = "fired" => e \in d
         /\ e \in t => m[e].status \in {"cancelled", "absent"}
         /\ m[e].status \in {"failed", "expired"} => (e \in d => e \in u)

\* The entries the goroutine is busy with: still open, or cancelled with the
\* chat, but never told as cancelled.
Busy ==
    /\ work \subseteq inflight
    /\ send.step # "idle" => send.entry \in inflight \ work
    /\ inflight \cap told = {}
    /\ \A e \in inflight : {mem[e].status, disk[e].status} \cap {"failed", "expired"} = {}

\* The entry in hand: its step agrees with the chat's queue.
InHand ==
    /\ send.step = "sent" => send.entry \in Delivered
    /\ send.step = "queue" => send.entry \notin Delivered

\* A file that is behind the memory can only bring back an open or fired entry.
Behind ==
    \A e \in Entries : disk[e].status \in {"failed", "expired"} =>
        mem[e].status \in {"failed", "expired"} \/ (mem[e].status = "absent" /\ e \in old)

\* A delivered entry that is still pending is the one in hand, unless the
\* daemon stopped before it had saved the send.
Open ==
    \A e \in Entries : (mem[e].status = "pending" /\ e \in Delivered) =>
        e \in unsaved \/ (send.step = "sent" /\ send.entry = e)

\* The inductive invariant.
IInv ==
    /\ TypeOK
    /\ Honest(mem, Delivered, told, unsaved) /\ Honest(disk, Delivered, told, unsaved)
    /\ Busy /\ InHand /\ Behind /\ Open
    /\ \A e \in told : e \in Delivered => e \in unsaved
    /\ DeliveredOnce

-----------------------------------------------------------------------------
(* The store. *)

\* Pruning takes nothing but old settled entries.
LEMMA PruneTakes ==
    ASSUME NEW m, NEW e \in Entries
    PROVE  \/ Prune(m)[e] = m[e]
           \/ m[e].status \in Settled /\ e \in old /\ Prune(m)[e] = Absent
BY DEF Prune

\* Pruning keeps a map honest.
LEMMA PruneHonest ==
    ASSUME NEW m, NEW d, NEW t, NEW u, Honest(m, d, t, u)
    PROVE  Honest(Prune(m), d, t, u)
<1>1. Absent \in Entry
  BY ScheduledAssumption DEF Absent, Entry
<1>2. Prune(m) \in [Entries -> Entry]
  BY <1>1 DEF Prune, Honest
<1>3. ASSUME NEW e \in Entries
      PROVE  Prune(m)[e] = m[e] \/ Prune(m)[e].status = "absent"
  BY PruneTakes DEF Absent
<1>. QED  BY <1>2, <1>3 DEF Honest

\* An honest map stays honest when more is told or forgotten truly.
LEMMA HonestMore ==
    ASSUME NEW m, NEW d, NEW t, NEW u, NEW v, Honest(m, d, t, u), u \subseteq v
    PROVE  Honest(m, d, t, v)
BY DEF Honest

\* A save leaves the file as it was or makes it the new one.
LEMMA SaveEither ==
    ASSUME NEW m, Saved(m) \/ SaveFailed(m), diskFaults \in Nat
    PROVE  disk' \in {disk, m} /\ diskFaults' \in Nat
BY DEF Saved, SaveFailed

\* Settling changes the status of one entry.
LEMMA SettleOne ==
    ASSUME NEW m \in [Entries -> Entry], NEW e \in Entries, NEW status \in Settled
    PROVE  /\ Settle(m, e, status) \in [Entries -> Entry]
           /\ Settle(m, e, status)[e].status = status
           /\ Settle(m, e, status)[e].attempts = m[e].attempts
           /\ \A f \in Entries \ {e} : Settle(m, e, status)[f] = m[f]
BY DEF Settle, Entry

\* A logged save of a map that differs from the memory in open entries only.
LEMMA Persisted ==
    ASSUME IInv, NEW m, Honest(m, Delivered, told, unsaved), PersistLogged(m), old' = old,
           \A e \in Entries : mem[e].status # "pending" => m[e] = mem[e]
    PROVE  /\ Honest(mem', Delivered, told, unsaved) /\ Honest(disk', Delivered, told, unsaved)
           /\ disk' \in {disk, mem'} /\ diskFaults' \in Nat
           /\ \A e \in Entries : mem'[e] = m[e] \/ mem'[e].status = "absent"
           /\ Behind'
<1>1. mem' = Prune(m) /\ disk' \in {disk, mem'} /\ diskFaults' \in Nat
  BY SaveEither DEF PersistLogged, IInv, TypeOK
<1>2. Honest(mem', Delivered, told, unsaved) /\ Honest(disk', Delivered, told, unsaved)
  BY <1>1, PruneHonest DEF IInv
<1>3. \A e \in Entries : \/ mem'[e] = m[e]
                         \/ e \in old /\ mem'[e].status = "absent"
  BY <1>1, PruneTakes DEF Absent
<1>4. Behind'
  <2>. SUFFICES ASSUME NEW e \in Entries, disk'[e].status \in {"failed", "expired"}
                PROVE  \/ mem'[e].status \in {"failed", "expired"}
                       \/ mem'[e].status = "absent" /\ e \in old
    BY DEF Behind
  <2>1. CASE disk' = mem'
    BY <2>1
  <2>2. CASE disk' = disk
    BY <2>2, <1>3 DEF IInv, Behind
  <2>. QED  BY <1>1, <2>1, <2>2
<1>. QED  BY <1>1, <1>2, <1>3, <1>4

\* The initial state.
LEMMA IInvInit == Init => IInv
<1>. SUFFICES ASSUME Init PROVE IInv
  OBVIOUS
<1>1. Absent \in Entry /\ Absent.status = "absent"
  BY ScheduledAssumption DEF Absent, Entry
<1>2. Delivered = {}
  BY DEF Init, Delivered
<1>3. TypeOK
  <2>1. chat \in [deleted : BOOLEAN, queued : Seq(Sent)]
    BY DEF Init
  <2>2. mem \in [Entries -> Entry] /\ disk \in [Entries -> Entry]
    BY <1>1 DEF Init
  <2>3. crashes \in Nat /\ diskFaults \in Nat /\ sendFaults \in Nat
    BY DEF Init
  <2>. QED  BY <2>1, <2>2, <2>3 DEF Init, TypeOK
<1>4. Honest(mem, Delivered, told, unsaved) /\ Honest(disk, Delivered, told, unsaved)
  BY <1>1 DEF Init, Honest
<1>5. Busy /\ InHand /\ Behind /\ Open /\ DeliveredOnce
  BY <1>1, <1>2 DEF Init, Busy, InHand, Behind, Open, DeliveredOnce, Idle
<1>. QED  BY <1>2, <1>3, <1>4, <1>5 DEF IInv, Init

-----------------------------------------------------------------------------
(* The callers. *)

\* What the queue holds changes only with the queue.
LEMMA DeliveredSame ==
    ASSUME chat'.queued = chat.queued
    PROVE  Delivered' = Delivered /\ (DeliveredOnce => DeliveredOnce')
BY DEF Delivered, DeliveredOnce

\* Schedule: a new open entry, which nobody delivered or was told about.
LEMMA ScheduleKeeps ==
    ASSUME IInv, NEW e \in Entries, Schedule(e)
    PROVE  IInv'
<1>. DEFINE m == [mem EXCEPT ![e] = [Absent EXCEPT !.status = "pending"]]
<1>0. /\ mem' \in {mem, m} /\ disk' \in {disk, m} /\ diskFaults' \in Nat
      /\ e \notin told /\ e \notin Delivered /\ e \notin old
      /\ mem[e].status = "absent"
      /\ UNCHANGED <<inflight, work, send, chat, deleting, old, told, unsaved,
                     crashes, sendFaults>>
      /\ reached' \subseteq reached
  BY SaveEither DEF Schedule, IInv, TypeOK
<1>1. Absent \in Entry /\ Absent.attempts = 0
  BY ScheduledAssumption DEF Absent, Entry
<1>2. /\ [Absent EXCEPT !.status = "pending"] \in Entry
      /\ [Absent EXCEPT !.status = "pending"].status = "pending"
      /\ [Absent EXCEPT !.status = "pending"].attempts = 0
  BY <1>1 DEF Entry
<1>3. /\ m \in [Entries -> Entry] /\ m[e].status = "pending"
      /\ m[e].attempts = 0 /\ \A f \in Entries \ {e} : m[f] = mem[f]
  BY <1>2 DEF IInv, TypeOK
<1>. HIDE DEF m
<1>4. Delivered' = Delivered /\ DeliveredOnce'
  BY <1>0, DeliveredSame DEF IInv
<1>5. Honest(m, Delivered, told, unsaved)
  BY <1>0, <1>3, ScheduledAssumption DEF IInv, Honest
<1>6. Honest(mem', Delivered', told', unsaved') /\ Honest(disk', Delivered', told', unsaved')
  BY <1>0, <1>4, <1>5 DEF IInv
<1>7. TypeOK'
  BY <1>0, <1>3 DEF IInv, TypeOK
<1>8. Busy' /\ InHand'
  BY <1>0, <1>3, <1>4 DEF IInv, Busy, InHand
<1>9. Behind' /\ Open'
  BY <1>0, <1>3, <1>4 DEF IInv, Behind, Open
<1>. QED  BY <1>0, <1>4, <1>6, <1>7, <1>8, <1>9 DEF IInv

\* Cancel: the entry is open and nobody is busy with it.
LEMMA CancelKeeps ==
    ASSUME IInv, NEW e \in Entries, Cancel(e)
    PROVE  IInv'
<1>. DEFINE m == Settle(mem, e, "cancelled")
<1>0. /\ mem[e].status = "pending" /\ e \notin inflight
      /\ UNCHANGED <<inflight, work, send, chat, deleting, reached, old, unsaved,
                     crashes, sendFaults>>
  BY DEF Cancel
<1>1. \/ mem' = Prune(m) /\ told' = told \union {e} /\ disk' \in {m, mem'}
      \/ mem' = mem /\ told' = told /\ disk' \in {disk, m}
  BY SaveEither DEF Cancel, IInv, TypeOK, Saved
<1>2. diskFaults' \in Nat
  BY SaveEither DEF Cancel, IInv, TypeOK, Saved
<1>3. /\ m \in [Entries -> Entry] /\ m[e].status = "cancelled"
      /\ \A f \in Entries \ {e} : m[f] = mem[f]
  BY SettleOne DEF IInv, TypeOK, Settled
<1>. HIDE DEF m
<1>4. Delivered' = Delivered /\ DeliveredOnce'
  BY <1>0, DeliveredSame DEF IInv
<1>5. Honest(m, Delivered, told, unsaved) /\ Honest(m, Delivered, told \union {e}, unsaved)
  BY <1>0, <1>3 DEF IInv, Honest
<1>6. Honest(mem', Delivered', told', unsaved') /\ Honest(disk', Delivered', told', unsaved')
  BY <1>0, <1>1, <1>4, <1>5, PruneHonest DEF IInv
<1>7. \A f \in Entries : \/ Prune(m)[f] = m[f]
                         \/ f \in old /\ Prune(m)[f].status = "absent"
  BY PruneTakes DEF Absent
<1>8. TypeOK'
  BY <1>0, <1>1, <1>2, <1>6 DEF IInv, TypeOK, Honest
<1>9. Busy' /\ InHand'
  BY <1>0, <1>1, <1>3, <1>4, <1>7 DEF IInv, Busy, InHand
<1>10. Behind'
  BY <1>0, <1>1, <1>3, <1>7 DEF IInv, Behind
<1>11. Open'
  BY <1>0, <1>1, <1>3, <1>4, <1>7 DEF IInv, Open
<1>12. e \in Delivered => e \in unsaved
  BY <1>0 DEF IInv, Open, Busy
<1>. QED  BY <1>0, <1>1, <1>4, <1>6, <1>8, <1>9, <1>10, <1>11, <1>12 DEF IInv

\* DeleteChat: the queue stays.
LEMMA DeleteChatKeeps ==
    ASSUME IInv, DeleteChat
    PROVE  IInv'
<1>1. chat'.queued = chat.queued /\ chat' \in [deleted : BOOLEAN, queued : Seq(Sent)]
  BY DEF DeleteChat, IInv, TypeOK
<1>2. Delivered' = Delivered /\ DeliveredOnce'
  BY <1>1, DeliveredSame DEF IInv
<1>3. TypeOK'
  BY <1>1 DEF DeleteChat, IInv, TypeOK
<1>. QED  BY <1>2, <1>3 DEF DeleteChat, IInv, Busy, InHand, Behind, Open

\* CancelChat: every open entry, one in hand included, is cancelled.
LEMMA CancelChatKeeps ==
    ASSUME IInv, CancelChat
    PROVE  IInv'
<1>. DEFINE m == [e \in Entries |-> IF e \in Pending(mem) THEN Settle(mem, e, "cancelled")[e]
                                                          ELSE mem[e]]
<1>0. /\ UNCHANGED <<inflight, work, send, chat, reached, old, told, unsaved,
                     crashes, sendFaults>>
      /\ deleting' = FALSE
      /\ PersistLogged(m) \/ UNCHANGED <<mem, disk, diskFaults>>
  BY DEF CancelChat
<1>1. Delivered' = Delivered /\ DeliveredOnce'
  BY <1>0, DeliveredSame DEF IInv
<1>2. CASE UNCHANGED <<mem, disk, diskFaults>>
  BY <1>0, <1>1, <1>2 DEF IInv, TypeOK, Busy, InHand, Behind, Open
<1>3. CASE PersistLogged(m)
  <2>1. /\ m \in [Entries -> Entry]
        /\ \A e \in Entries : \/ mem[e].status # "pending" /\ m[e] = mem[e]
                              \/ mem[e].status = "pending" /\ m[e].status = "cancelled"
    BY SettleOne DEF IInv, TypeOK, Pending, Settled
  <2>. HIDE DEF m
  <2>2. Honest(m, Delivered, told, unsaved)
    BY <2>1 DEF IInv, Honest
  <2>3. /\ Honest(mem', Delivered, told, unsaved) /\ Honest(disk', Delivered, told, unsaved)
        /\ disk' \in {disk, mem'} /\ diskFaults' \in Nat /\ Behind'
        /\ \A e \in Entries : mem'[e] = m[e] \/ mem'[e].status = "absent"
    BY <1>0, <1>3, <2>1, <2>2, Persisted
  <2>4. TypeOK'
    BY <1>0, <2>3 DEF IInv, TypeOK, Honest
  <2>5. Busy' /\ InHand'
    BY <1>0, <1>1, <2>1, <2>3 DEF IInv, TypeOK, Busy, InHand
  <2>6. Open'
    BY <2>1, <2>3 DEF Open
  <2>. QED  BY <1>0, <1>1, <2>3, <2>4, <2>5, <2>6 DEF IInv
<1>. QED  BY <1>0, <1>2, <1>3

-----------------------------------------------------------------------------
(* The scheduler's goroutine. *)

\* Collect: what expires is open and not in hand; what is due is open.
LEMMA CollectKeeps ==
    ASSUME IInv, Collect
    PROVE  IInv'
<1>. DEFINE open == Pending(mem) \ inflight
            expired == (open \ Timed) \cap reached
            due == (open \cap Timed \cap reached) \union (open \ (Timed \union expired))
            m == [e \in Entries |-> IF e \in expired THEN Settle(mem, e, "expired")[e]
                                                     ELSE mem[e]]
<1>0. /\ work = {} /\ send = Idle
      /\ inflight' = inflight \union due /\ work' = due
      /\ UNCHANGED <<send, chat, deleting, reached, old, told, unsaved, crashes, sendFaults>>
      /\ PersistLogged(m) \/ UNCHANGED <<mem, disk, diskFaults>>
  BY Zenon DEF Collect
<1>1. /\ \A e \in due : e \in Entries /\ mem[e].status = "pending"
      /\ due \cap expired = {}
  BY DEF Pending
<1>2. /\ m \in [Entries -> Entry]
      /\ \A e \in Entries : e \notin expired => m[e] = mem[e]
      /\ \A e \in Entries : e \in expired =>
            mem[e].status = "pending" /\ e \notin inflight /\ m[e].status = "expired"
  BY SettleOne DEF IInv, TypeOK, Pending, Settled
<1>3. Delivered' = Delivered /\ DeliveredOnce' /\ send.step = "idle"
  BY <1>0, DeliveredSame DEF IInv, Idle
<1>. HIDE DEF due, expired, m
<1>4. \A e \in due : e \notin told /\ disk[e].status \notin {"failed", "expired"}
  BY <1>1 DEF IInv, Honest, Behind
<1>5. CASE UNCHANGED <<mem, disk, diskFaults>>
  <2>1. TypeOK'
    BY <1>0, <1>1, <1>5 DEF IInv, TypeOK
  <2>2. Busy' /\ InHand'
    BY <1>0, <1>1, <1>3, <1>4, <1>5 DEF IInv, Busy, InHand
  <2>3. Behind' /\ Open'
    BY <1>0, <1>3, <1>5 DEF IInv, Behind, Open
  <2>. QED  BY <1>0, <1>3, <1>5, <2>1, <2>2, <2>3 DEF IInv
<1>6. CASE PersistLogged(m)
  <2>1. Honest(m, Delivered, told, unsaved)
    <3>1. \A e \in expired : e \in Entries => (e \in Delivered => e \in unsaved) /\ e \notin told
      BY <1>2, <1>3 DEF IInv, Open, Honest
    <3>. QED  BY <1>2, <3>1 DEF IInv, Honest
  <2>2. /\ Honest(mem', Delivered, told, unsaved) /\ Honest(disk', Delivered, told, unsaved)
        /\ disk' \in {disk, mem'} /\ diskFaults' \in Nat /\ Behind'
        /\ \A e \in Entries : mem'[e] = m[e] \/ mem'[e].status = "absent"
    BY <1>0, <1>2, <1>6, <2>1, Persisted
  <2>3. TypeOK'
    BY <1>0, <1>1, <2>2 DEF IInv, TypeOK, Honest
  <2>4. \A e \in inflight' : e \in Entries /\ m[e] = mem[e]
    BY <1>0, <1>1, <1>2 DEF IInv, TypeOK
  <2>5. Busy' /\ InHand'
    BY <1>0, <1>1, <1>3, <1>4, <2>2, <2>4 DEF IInv, Busy, InHand
  <2>6. Open'
    BY <1>0, <1>2, <1>3, <2>2 DEF IInv, Open
  <2>. QED  BY <1>0, <1>3, <2>2, <2>3, <2>5, <2>6 DEF IInv
<1>. QED  BY <1>0, <1>5, <1>6

\* Probe: the next candidate comes into hand, or is released.
LEMMA ProbeKeeps ==
    ASSUME IInv, NEW e \in Entries, Probe(e)
    PROVE  IInv'
<1>1. /\ send.step = "idle" /\ e \in inflight /\ work' = work \ {e}
      /\ \/ send' = [entry |-> e, late |-> mem[e].late, step |-> "read"] /\ inflight' = inflight
         \/ send' = send /\ inflight' = inflight \ {e}
      /\ UNCHANGED <<mem, disk, chat, deleting, reached, old, told, unsaved,
                     crashes, diskFaults, sendFaults>>
  BY DEF Probe, IInv, Busy, Idle
<1>2. Delivered' = Delivered /\ DeliveredOnce'
  BY <1>1, DeliveredSame DEF IInv
<1>3. send' \in [entry : Entries, late : BOOLEAN, step : Steps] \union {Idle}
  BY <1>1 DEF IInv, TypeOK, Entry, Steps
<1>4. TypeOK'
  BY <1>1, <1>3 DEF IInv, TypeOK
<1>5. send'.step \in {"idle", "read"} /\ (send'.step = "read" => send'.entry = e)
  BY <1>1
<1>6. send'.step = "read" => inflight' = inflight
  BY <1>1
<1>7. Busy' /\ InHand'
  BY <1>1, <1>2, <1>5, <1>6 DEF IInv, Busy, InHand
<1>8. Behind' /\ Open'
  BY <1>1, <1>2 DEF IInv, Behind, Open
<1>. QED  BY <1>1, <1>2, <1>4, <1>7, <1>8 DEF IInv

\* ReadChat: an entry goes to the queue only if the queue does not know it.
LEMMA ReadChatKeeps ==
    ASSUME IInv, ReadChat
    PROVE  IInv'
<1>. DEFINE step == IF chat.deleted THEN "gone" ELSE IF Known(send) THEN "sent" ELSE "queue"
<1>1. /\ send.step = "read" /\ send' = [send EXCEPT !.step = step]
      /\ UNCHANGED <<mem, disk, inflight, work, chat, deleting, reached, old,
                     told, unsaved, crashes, diskFaults, sendFaults>>
  BY DEF ReadChat
<1>2. /\ step = "sent" => send.entry \in Delivered
      /\ step = "queue" => send.entry \notin Delivered
      /\ step \in Steps /\ step # "idle"
  BY DEF Known, Steps
<1>. HIDE DEF step
<1>3. Delivered' = Delivered /\ DeliveredOnce'
  BY <1>1, DeliveredSame DEF IInv
<1>4. send \in [entry : Entries, late : BOOLEAN, step : Steps]
  BY <1>1 DEF IInv, TypeOK, Idle
<1>5. /\ send' \in [entry : Entries, late : BOOLEAN, step : Steps]
      /\ send'.entry = send.entry /\ send'.step = step
  BY <1>1, <1>2, <1>4
<1>6. TypeOK'
  BY <1>1, <1>5 DEF IInv, TypeOK
<1>7. Busy' /\ InHand'
  BY <1>1, <1>2, <1>3, <1>5 DEF IInv, Busy, InHand
<1>8. Behind' /\ Open'
  BY <1>1, <1>3, <1>5 DEF IInv, Behind, Open
<1>. QED  BY <1>1, <1>3, <1>6, <1>7, <1>8 DEF IInv

\* Submit: the queue takes the entry in hand, which it did not hold before.
LEMMA SubmitKeeps ==
    ASSUME IInv, Submit
    PROVE  IInv'
<1>1. /\ send.step = "queue" /\ sendFaults' \in Nat
      /\ \/ send' = [send EXCEPT !.step = "refused"] /\ chat' = chat
         \/ send' = [send EXCEPT !.step = "sent"] /\ chat' = Queue(send)
      /\ UNCHANGED <<mem, disk, inflight, work, deleting, reached, old, told,
                     unsaved, crashes, diskFaults>>
  BY DEF Submit, IInv, TypeOK
<1>2. send \in [entry : Entries, late : BOOLEAN, step : Steps]
  BY <1>1 DEF IInv, TypeOK, Idle
<1>3. send.entry \in inflight /\ send.entry \notin Delivered /\ send.entry \notin told
  BY <1>1 DEF IInv, Busy, InHand
<1>4. /\ mem[send.entry].status \notin {"failed", "expired"}
      /\ disk[send.entry].status \notin {"failed", "expired"}
  BY <1>3 DEF IInv, Busy
<1>5. CASE chat' = chat /\ send' = [send EXCEPT !.step = "refused"]
  <2>1. Delivered' = Delivered /\ DeliveredOnce'
    BY <1>5, DeliveredSame DEF IInv
  <2>2. /\ send' \in [entry : Entries, late : BOOLEAN, step : Steps]
        /\ send'.entry = send.entry /\ send'.step = "refused"
    BY <1>2, <1>5 DEF Steps
  <2>3. TypeOK'
    BY <1>1, <1>5, <2>2 DEF IInv, TypeOK
  <2>. QED  BY <1>1, <1>5, <2>1, <2>2, <2>3 DEF IInv, Busy, InHand, Behind, Open
<1>6. CASE chat' = Queue(send) /\ send' = [send EXCEPT !.step = "sent"]
  <2>. DEFINE one == [entry |-> send.entry, late |-> send.late]
  <2>1. /\ chat' \in [deleted : BOOLEAN, queued : Seq(Sent)]
        /\ chat'.queued = Append(chat.queued, one) /\ one.entry = send.entry
    <3>1. one \in Sent /\ one.entry = send.entry
      BY <1>2 DEF Sent
    <3>2. chat' = [chat EXCEPT !.queued = Append(chat.queued, one)]
      BY <1>6 DEF Queue
    <3>. HIDE DEF one
    <3>3. Append(chat.queued, one) \in Seq(Sent)
      BY <3>1 DEF IInv, TypeOK
    <3>. QED  BY <3>1, <3>2, <3>3 DEF IInv, TypeOK
  <2>. HIDE DEF one
  <2>2. /\ DOMAIN chat'.queued = 1..(Len(chat.queued) + 1)
        /\ \A i \in DOMAIN chat.queued : chat'.queued[i] = chat.queued[i]
        /\ chat'.queued[Len(chat.queued) + 1] = one
        /\ DOMAIN chat.queued = 1..Len(chat.queued) /\ Len(chat.queued) \in Nat
    BY <2>1 DEF IInv, TypeOK
  <2>3. Delivered' = Delivered \union {send.entry}
    BY <2>1, <2>2 DEF Delivered
  <2>4. DeliveredOnce'
    <3>1. \A i \in DOMAIN chat.queued : chat.queued[i].entry # send.entry
      BY <1>3 DEF Delivered
    <3>. QED  BY <2>1, <2>2, <3>1 DEF IInv, DeliveredOnce
  <2>5. /\ send' \in [entry : Entries, late : BOOLEAN, step : Steps]
        /\ send'.entry = send.entry /\ send'.step = "sent"
    BY <1>2, <1>6 DEF Steps
  <2>6. TypeOK'
    BY <1>1, <2>1, <2>5 DEF IInv, TypeOK
  <2>7. Honest(mem', Delivered', told', unsaved') /\ Honest(disk', Delivered', told', unsaved')
    BY <1>1, <1>3, <1>4, <2>3 DEF IInv, Honest
  <2>8. Busy' /\ InHand'
    BY <1>1, <2>3, <2>5 DEF IInv, Busy, InHand
  <2>9. Behind' /\ Open'
    BY <1>1, <2>3, <2>5 DEF IInv, Behind, Open
  <2>. QED  BY <1>1, <1>3, <2>3, <2>4, <2>6, <2>7, <2>8, <2>9 DEF IInv
<1>. QED  BY <1>1, <1>5, <1>6

\* What finish makes of an open entry.
LEMMA OutcomeIs ==
    ASSUME IInv, NEW e \in Entries, mem[e].status = "pending"
    PROVE  /\ Outcome(e) \in [Entries -> Entry]
           /\ \A f \in Entries \ {e} : Outcome(e)[f] = mem[f]
           /\ send.step = "sent" => Outcome(e)[e].status = "fired"
           /\ send.step # "sent" => Outcome(e)[e].status \in {"pending", "failed"}
           /\ Outcome(e)[e].status = "pending" => Outcome(e)[e].attempts < MaxAttempts
<1>1. CASE send.step \in {"sent", "gone"}
  BY <1>1, SettleOne DEF Outcome, IInv, TypeOK, Settled
<1>2. CASE send.step \notin {"sent", "gone"}
  <2>. DEFINE n == mem[e].attempts + 1
              r == [mem[e] EXCEPT !.attempts = n,
                                  !.status = IF n >= MaxAttempts THEN "failed" ELSE @]
  <2>1. mem[e] \in Entry /\ mem[e].attempts < MaxAttempts /\ MaxAttempts \in Nat
    BY ScheduledAssumption DEF IInv, TypeOK, Honest
  <2>2. n \in 0..MaxAttempts /\ (n >= MaxAttempts \/ n < MaxAttempts)
    BY <2>1 DEF Entry
  <2>. HIDE DEF n
  <2>3. /\ r \in Entry /\ r.attempts = n
        /\ r.status = IF n >= MaxAttempts THEN "failed" ELSE "pending"
    BY <2>1, <2>2 DEF Entry, Settled
  <2>. USE DEF n
  <2>4. Outcome(e) = [mem EXCEPT ![e] = r]
    BY <1>2 DEF Outcome, IInv, TypeOK
  <2>. HIDE DEF r
  <2>. QED  BY <1>2, <2>2, <2>3, <2>4 DEF IInv, TypeOK
<1>. QED  BY <1>1, <1>2

\* Finish: an open entry gets its outcome, any other one only leaves the hand.
LEMMA FinishKeeps ==
    ASSUME IInv, Finish
    PROVE  IInv'
<1>. DEFINE e == send.entry
<1>0. /\ send.step \in {"sent", "gone", "refused"} /\ send' = Idle
      /\ inflight' = inflight \ {e}
      /\ \/ mem[e].status = "pending" /\ PersistLogged(Outcome(e))
         \/ mem[e].status # "pending" /\ UNCHANGED <<mem, disk, diskFaults>>
      /\ UNCHANGED <<work, chat, deleting, reached, old, told, unsaved, crashes, sendFaults>>
  BY DEF Finish
<1>1. /\ e \in Entries /\ e \in inflight /\ e \notin work /\ e \notin told
      /\ Idle.step = "idle"
  BY <1>0 DEF IInv, TypeOK, Busy, Idle
<1>2. /\ send.step = "sent" => e \in Delivered
      /\ send.step # "sent" => (mem[e].status = "pending" /\ e \in Delivered => e \in unsaved)
  BY <1>1 DEF IInv, InHand, Open
<1>. HIDE DEF e
<1>3. Delivered' = Delivered /\ DeliveredOnce'
  BY <1>0, DeliveredSame DEF IInv
<1>4. send' \in [entry : Entries, late : BOOLEAN, step : Steps] \union {Idle}
  BY <1>0
<1>5. work \subseteq inflight' /\ inflight' \subseteq inflight
  BY <1>0, <1>1 DEF IInv, Busy
<1>6. CASE mem[e].status # "pending" /\ UNCHANGED <<mem, disk, diskFaults>>
  <2>1. TypeOK'
    BY <1>0, <1>4, <1>5, <1>6 DEF IInv, TypeOK
  <2>2. Busy' /\ InHand'
    BY <1>0, <1>1, <1>5, <1>6 DEF IInv, Busy, InHand
  <2>3. Behind'
    BY <1>0, <1>6 DEF IInv, Behind
  <2>4. Open'
    BY <1>0, <1>1, <1>3, <1>6 DEF IInv, Open, e
  <2>. QED  BY <1>0, <1>3, <1>6, <2>1, <2>2, <2>3, <2>4 DEF IInv
<1>7. CASE mem[e].status = "pending" /\ PersistLogged(Outcome(e))
  <2>. DEFINE m == Outcome(e)
  <2>1. /\ m \in [Entries -> Entry] /\ \A f \in Entries \ {e} : m[f] = mem[f]
        /\ send.step = "sent" => m[e].status = "fired"
        /\ send.step # "sent" => m[e].status \in {"pending", "failed"}
        /\ m[e].status = "pending" => m[e].attempts < MaxAttempts
    BY <1>1, <1>7, OutcomeIs
  <2>2. PersistLogged(m)
    BY <1>7
  <2>. HIDE DEF m
  <2>3. Honest(m, Delivered, told, unsaved)
    BY <1>0, <1>1, <1>2, <1>7, <2>1 DEF IInv, Honest
  <2>4. /\ Honest(mem', Delivered, told, unsaved) /\ Honest(disk', Delivered, told, unsaved)
        /\ disk' \in {disk, mem'} /\ diskFaults' \in Nat /\ Behind'
        /\ \A f \in Entries : mem'[f] = m[f] \/ mem'[f].status = "absent"
    <3>1. \A f \in Entries : mem[f].status # "pending" => m[f] = mem[f]
      BY <1>7, <2>1
    <3>. QED  BY <1>0, <2>2, <2>3, <3>1, Persisted
  <2>5. TypeOK'
    BY <1>0, <1>4, <1>5, <2>4 DEF IInv, TypeOK, Honest
  <2>6. \A f \in inflight' : f \in Entries /\ m[f] = mem[f]
    BY <1>0, <2>1 DEF IInv, TypeOK
  <2>7. Busy' /\ InHand'
    BY <1>0, <1>1, <1>5, <2>4, <2>6 DEF IInv, Busy, InHand
  <2>8. Open'
    <3>. SUFFICES ASSUME NEW f \in Entries, mem'[f].status = "pending", f \in Delivered
                  PROVE  f \in unsaved
      BY <1>0, <1>1, <1>3 DEF Open
    <3>1. m[f].status = "pending"
      BY <2>4
    <3>2. CASE f = e
      BY <1>2, <1>7, <2>1, <3>1, <3>2
    <3>3. CASE f # e
      BY <2>1, <3>1, <3>3 DEF IInv, Open, e
    <3>. QED  BY <3>2, <3>3
  <2>. QED  BY <1>0, <1>3, <2>4, <2>5, <2>7, <2>8 DEF IInv
<1>. QED  BY <1>0, <1>6, <1>7

-----------------------------------------------------------------------------
(* Time and stops of the daemon. *)

\* The time of an entry comes, or a settled one grows old.
LEMMA TimeKeeps ==
    ASSUME IInv, NEW e \in Entries, Reach(e) \/ Age(e)
    PROVE  IInv'
<1>1. /\ UNCHANGED <<mem, disk, inflight, work, send, chat, deleting, told,
                     unsaved, crashes, diskFaults, sendFaults>>
      /\ reached' \subseteq Entries /\ old' \subseteq Entries /\ old \subseteq old'
  BY DEF Reach, Age, IInv, TypeOK
<1>2. Delivered' = Delivered /\ DeliveredOnce'
  BY <1>1, DeliveredSame DEF IInv
<1>3. TypeOK'
  BY <1>1 DEF IInv, TypeOK
<1>. QED  BY <1>1, <1>2, <1>3 DEF IInv, Busy, InHand, Behind, Open

\* Restart: the file is all that is left; what it holds open although it was
\* delivered is forgotten.
LEMMA RestartKeeps ==
    ASSUME IInv, Restart
    PROVE  IInv'
<1>1. PICK passed \in SUBSET Pending(disk) :
         /\ reached' = reached \union passed
         /\ mem' = Prune([e \in Entries |->
                      IF e \in Pending(disk) \cap Timed \cap reached'
                      THEN [disk[e] EXCEPT !.late = TRUE] ELSE disk[e]])
  BY DEF Restart
<1>. DEFINE m == [e \in Entries |-> IF e \in Pending(disk) \cap Timed \cap reached'
                                   THEN [disk[e] EXCEPT !.late = TRUE] ELSE disk[e]]
<1>2. /\ mem' = Prune(m) /\ disk' = mem'
      /\ unsaved' = unsaved \union (Delivered \cap Pending(disk))
      /\ inflight' = {} /\ work' = {} /\ send' = Idle /\ deleting' = FALSE
      /\ UNCHANGED <<chat, old, told, diskFaults, sendFaults>>
      /\ crashes' \in Nat /\ reached' \subseteq Entries
  BY <1>1 DEF Restart, IInv, TypeOK, Pending
<1>3. /\ m \in [Entries -> Entry]
      /\ \A e \in Entries : m[e].status = disk[e].status /\ m[e].attempts = disk[e].attempts
  BY DEF IInv, TypeOK, Entry
<1>. HIDE DEF m
<1>4. Delivered' = Delivered /\ DeliveredOnce' /\ Idle.step = "idle"
  BY <1>2, DeliveredSame DEF IInv, Idle
<1>5. Honest(m, Delivered, told, unsaved')
  BY <1>2, <1>3 DEF IInv, Honest
<1>6. Honest(mem', Delivered', told', unsaved') /\ Honest(disk', Delivered', told', unsaved')
  BY <1>2, <1>4, <1>5, PruneHonest
<1>7. TypeOK'
  <2>1. unsaved' \subseteq Entries
    BY <1>2 DEF IInv, TypeOK, Pending
  <2>. QED  BY <1>2, <1>6, <2>1 DEF IInv, TypeOK, Honest
<1>8. Busy' /\ InHand' /\ Behind'
  BY <1>2, <1>4 DEF IInv, Busy, InHand, Behind
<1>9. Open'
  <2>. SUFFICES ASSUME NEW e \in Entries, mem'[e].status = "pending", e \in Delivered
                PROVE  e \in unsaved'
    BY <1>4 DEF Open
  <2>1. disk[e].status = "pending"
    BY <1>2, <1>3, PruneTakes DEF Absent
  <2>. QED  BY <1>2, <2>1 DEF Pending
<1>. QED  BY <1>2, <1>4, <1>6, <1>7, <1>8, <1>9 DEF IInv

-----------------------------------------------------------------------------
(* The theorems. *)

\* A step of nobody.
LEMMA StutterKeeps ==
    ASSUME IInv, UNCHANGED vars
    PROVE  IInv'
<1>1. Delivered' = Delivered /\ DeliveredOnce'
  BY DeliveredSame DEF vars, IInv
<1>. QED  BY <1>1 DEF vars, IInv, TypeOK, Busy, InHand, Behind, Open

\* Every step keeps the inductive invariant.
LEMMA IInvNext == IInv /\ [Next]_vars => IInv'
<1>. SUFFICES ASSUME IInv, [Next]_vars PROVE IInv'
  OBVIOUS
<1>1. CASE UNCHANGED vars
  BY <1>1, StutterKeeps
<1>2. CASE \E e \in Entries : Schedule(e) \/ Cancel(e) \/ Reach(e) \/ Age(e)
  BY <1>2, ScheduleKeeps, CancelKeeps, TimeKeeps
<1>3. CASE DeleteChat \/ CancelChat \/ Restart
  BY <1>3, DeleteChatKeeps, CancelChatKeeps, RestartKeeps
<1>4. CASE Scheduler
  BY <1>4, CollectKeeps, ProbeKeeps, ReadChatKeeps, SubmitKeeps, FinishKeeps DEF Scheduler
<1>. QED  BY <1>1, <1>2, <1>3, <1>4 DEF Next

\* The inductive invariant holds of every reachable state.
THEOREM Invariance == Spec => []IInv
  BY IInvInit, IInvNext, PTL DEF Spec

\* The state of the scheduler and its chat always has its type.
THEOREM TypeCorrect == Spec => []TypeOK
<1>1. IInv => TypeOK
  BY DEF IInv
<1>. QED  BY <1>1, Invariance, PTL

\* A scheduled message enters the chat's queue at most once.
THEOREM SentOnce == Spec => []DeliveredOnce
<1>1. IInv => DeliveredOnce
  BY DEF IInv
<1>. QED  BY <1>1, Invariance, PTL

\* What is recorded as fired, in memory or on disk, was delivered.
THEOREM FiredTrue == Spec => []FiredWasDelivered
<1>1. IInv => FiredWasDelivered
  BY DEF IInv, Honest, FiredWasDelivered
<1>. QED  BY <1>1, Invariance, PTL

\* What is told as not delivered was not, unless the daemon forgot its send.
THEOREM ToldTrue == Spec => []NotSentUnlessForgotten
<1>1. IInv => NotSentUnlessForgotten
  BY DEF IInv, Honest, NotSentUnlessForgotten
<1>. QED  BY <1>1, Invariance, PTL

\* No step delivers an entry that was told as cancelled.
LEMMA ToldStaysUnsent ==
    ASSUME IInv, [Next]_vars, NEW e \in told, e \in Delivered'
    PROVE  e \in Delivered
<1>1. CASE Submit
  <2>1. send \in [entry : Entries, late : BOOLEAN, step : Steps] /\ send.entry # e
    BY <1>1 DEF Submit, IInv, TypeOK, Busy, Idle
  <2>2. CASE chat' = chat
    BY <2>2 DEF Delivered
  <2>3. CASE chat' = Queue(send)
    <3>. DEFINE one == [entry |-> send.entry, late |-> send.late]
    <3>1. one \in Sent /\ one.entry # e
      BY <2>1 DEF Sent
    <3>2. chat'.queued = Append(chat.queued, one)
      BY <2>3 DEF Queue, IInv, TypeOK
    <3>. HIDE DEF one
    <3>. QED  BY <3>1, <3>2 DEF Delivered, IInv, TypeOK
  <2>. QED  BY <1>1, <2>2, <2>3 DEF Submit
<1>2. CASE ~Submit
  <2>1. chat'.queued = chat.queued
    BY <1>2 DEF Next, vars, Scheduler, Schedule, Cancel, Reach, Age, DeleteChat, CancelChat,
                Collect, Probe, ReadChat, Finish, Restart, IInv, TypeOK
  <2>. QED  BY <2>1, DeliveredSame
<1>. QED  BY <1>1, <1>2

\* A told cancellation is kept: no step delivers the entry afterwards.
THEOREM CancelIsKept == Spec => CancelKept
<1>1. IInv /\ [Next]_vars => [\A e \in told : e \in Delivered' => e \in Delivered]_vars
  BY ToldStaysUnsent
<1>. QED  BY <1>1, Invariance, PTL DEF Spec, CancelKept

\* A step that is no restart leaves a settled entry as it is, or prunes it.
LEMMA SettledKept ==
    ASSUME IInv, Next, crashes' = crashes, NEW e \in Entries, mem[e].status \in Settled
    PROVE  mem'[e].status \in {mem[e].status, "absent"}
<1>0. mem[e].status \notin {"pending", "absent"}
  BY DEF Settled
<1>1. ASSUME NEW m, mem' = Prune(m), m[e] = mem[e]
      PROVE  mem'[e].status \in {mem[e].status, "absent"}
  BY <1>1, PruneTakes DEF Absent
<1>2. ASSUME NEW f \in Entries, Schedule(f)
      PROVE  mem'[e] = mem[e]
  BY <1>0, <1>2 DEF Schedule, IInv, TypeOK
<1>3. ASSUME NEW f \in Entries, Cancel(f)
      PROVE  mem'[e].status \in {mem[e].status, "absent"}
  <2>1. f # e
    BY <1>0, <1>3 DEF Cancel
  <2>2. Settle(mem, f, "cancelled")[e] = mem[e]
    BY <2>1 DEF Settle, IInv, TypeOK
  <2>. QED  BY <1>1, <1>3, <2>2 DEF Cancel
<1>4. CASE CancelChat
  BY <1>0, <1>1, <1>4 DEF CancelChat, PersistLogged, Pending
<1>5. CASE Collect
  BY <1>0, <1>1, <1>5 DEF Collect, PersistLogged, Pending
<1>6. CASE Finish
  <2>1. CASE UNCHANGED mem
    BY <2>1
  <2>2. CASE mem[send.entry].status = "pending" /\ PersistLogged(Outcome(send.entry))
    <3>1. send.entry \in Entries /\ send.entry # e
      BY <1>0, <1>6, <2>2 DEF Finish, IInv, TypeOK, Idle
    <3>2. Outcome(send.entry)[e] = mem[e]
      BY <2>2, <3>1, OutcomeIs
    <3>. QED  BY <1>1, <2>2, <3>2 DEF PersistLogged
  <2>. QED  BY <1>6, <2>1, <2>2 DEF Finish
<1>7. CASE Restart
  BY <1>7 DEF Restart, IInv, TypeOK
<1>8. CASE \/ \E f \in Entries : Reach(f) \/ Age(f) \/ Probe(f)
           \/ DeleteChat \/ ReadChat \/ Submit
  BY <1>8 DEF Reach, Age, Probe, DeleteChat, ReadChat, Submit
<1>. QED  BY <1>2, <1>3, <1>4, <1>5, <1>6, <1>7, <1>8 DEF Next, Scheduler

\* A settled entry keeps its status until it is pruned or the daemon restarts.
THEOREM SettledIsKept == Spec => SettledStays
<1>1. IInv /\ [Next]_vars =>
        [\A e \in Entries : (mem[e].status \in Settled /\ crashes' = crashes) =>
             mem'[e].status \in {mem[e].status, "absent"}]_vars
  BY SettledKept
<1>. QED  BY <1>1, Invariance, PTL DEF Spec, SettledStays
=============================================================================
