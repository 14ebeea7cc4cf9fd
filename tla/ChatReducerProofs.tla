------------------------- MODULE ChatReducerProofs -------------------------
(***************************************************************************)
(* Lemmas about the operators of ChatReducer, one per command: from a      *)
(* well-formed chat whose waiting and running inputs all have a lane, the  *)
(* command yields another one, and no established thread is lost on the    *)
(* way.                                                                    *)
(***************************************************************************)
EXTENDS ChatReducer, SequenceTheorems, FiniteSetTheorems, WellFoundedInduction, TLAPS

\* A chat whose waiting inputs and foreground name a lane.
Placed == {c \in Chat :
    /\ \A i \in 1 .. Len(c.queue) : c.lane[c.queue[i]] \in Lanes
    /\ c.fg # NoOp => c.lane[c.fg] \in Lanes}

\* d keeps every established thread of c.
Kept(c, d) == \A l \in Lanes : c.thread[l] # 0 => d.thread[l] = c.thread[l]

(***************************************************************************)
(* The outbox.                                                             *)
(***************************************************************************)
\* Marking entries keeps the outbox a sequence of entries.
LEMMA MarkType ==
    ASSUME NEW box \in Seq(Entry), NEW ids, NEW status \in Statuses
    PROVE  Mark(box, ids, status) \in Seq(Entry)
<1>1. \A i \in 1 .. Len(box) : box[i] \in Entry
  OBVIOUS
<1>2. \A e \in Entry : [e EXCEPT !.status = status] \in Entry
  BY DEF Entry
<1>3. \A i \in 1 .. Len(box) :
        (IF i \in ids THEN [box[i] EXCEPT !.status = status] ELSE box[i]) \in Entry
  BY <1>1, <1>2
<1>4. Mark(box, ids, status) =
        [i \in 1 .. Len(box) |-> IF i \in ids THEN [box[i] EXCEPT !.status = status] ELSE box[i]]
  BY DEF Mark
<1>. HIDE DEF Entry, Statuses
<1>. QED
  BY <1>3, <1>4, Len(box) \in Nat

\* Recording an entry, or dropping it as a repetition, keeps the type.
LEMMA RecordType ==
    ASSUME NEW box \in Seq(Entry), NEW e \in Entry
    PROVE  Record(box, e) \in Seq(Entry)
BY DEF Record

\* The two null values are no operation and no lane.
LEMMA NoOpIsNoOp == NoOp \notin Ops /\ NoLane \notin Lanes
BY ChatAssumption DEF Ops

\* Every effect the reducer records is an outbox entry.
LEMMA EffectType ==
    ASSUME NEW l \in Lanes, NEW g \in Nat
    PROVE  /\ \A r \in BOOLEAN : CreateEffect(l, g, r) \in Entry
           /\ ResumeEffect(l, g) \in Entry
           /\ \A op \in Ops : StartEffect(l, op) \in Entry
           /\ \A op \in Ops : StopEffect(l, op, g) \in Entry
BY NoOpIsNoOp DEF CreateEffect, ResumeEffect, StartEffect, StopEffect, Entry, Kinds, Statuses

\* A chat whose queue, foreground and operation lanes are those of a placed
\* one, or whose foreground has ended, is placed.
LEMMA Frame ==
    ASSUME NEW c \in Placed, NEW d \in Chat,
           d.queue = c.queue, d.fg \in {c.fg, NoOp}, d.lane = c.lane
    PROVE  d \in Placed
BY DEF Placed

\* A command that leaves the thread map alone loses no thread.
LEMMA SameThread ==
    ASSUME NEW c, NEW d, d.thread = c.thread
    PROVE  Kept(c, d)
BY DEF Kept

\* Keeping the established threads composes.
LEMMA KeptTransitive ==
    ASSUME NEW c, NEW d, NEW e, Kept(c, d), Kept(d, e)
    PROVE  Kept(c, e)
BY DEF Kept

(***************************************************************************)
(* Driving the FIFO.                                                       *)
(***************************************************************************)
\* Opening a lane (openDetachedLane, the create branch of drive) touches no input
\* and no thread.
LEMMA OpenPlaced ==
    ASSUME NEW c \in Placed, NEW l \in Lanes, NEW g \in Nat
    PROVE  /\ \A r \in BOOLEAN : OpenByCreate(c, l, g, r) \in Placed
           /\ \A r \in BOOLEAN : Kept(c, OpenByCreate(c, l, g, r))
           /\ OpenByResume(c, l, g) \in Placed
           /\ Kept(c, OpenByResume(c, l, g))
<1>1. /\ \A r \in BOOLEAN : Record(c.outbox, CreateEffect(l, g, r)) \in Seq(Entry)
      /\ Record(c.outbox, ResumeEffect(l, g)) \in Seq(Entry)
  BY EffectType, RecordType DEF Placed, Chat
<1>2. \A r \in BOOLEAN : OpenByCreate(c, l, g, r) \in Chat
  BY <1>1 DEF OpenByCreate, Placed, Chat, Phases
<1>3. OpenByResume(c, l, g) \in Chat
  BY <1>1 DEF OpenByResume, Placed, Chat, Phases
<1>4. ASSUME NEW r \in BOOLEAN
      PROVE  Kept(c, OpenByCreate(c, l, g, r)) /\ OpenByCreate(c, l, g, r) \in Placed
  <2>1. /\ OpenByCreate(c, l, g, r).thread = c.thread /\ OpenByCreate(c, l, g, r).fg = c.fg
        /\ OpenByCreate(c, l, g, r).queue = c.queue /\ OpenByCreate(c, l, g, r).lane = c.lane
    BY DEF OpenByCreate, Placed, Chat
  <2>. QED  BY <1>2, <2>1, Frame, SameThread
<1>5. Kept(c, OpenByResume(c, l, g)) /\ OpenByResume(c, l, g) \in Placed
  <2>1. /\ OpenByResume(c, l, g).thread = c.thread /\ OpenByResume(c, l, g).fg = c.fg
        /\ OpenByResume(c, l, g).queue = c.queue /\ OpenByResume(c, l, g).lane = c.lane
    BY DEF OpenByResume, Placed, Chat
  <2>. QED  BY <1>3, <2>1, Frame, SameThread
<1>. QED  BY <1>4, <1>5

\* beginQueuedForeground moves the head of the queue to the foreground.
LEMMA BeginPlaced ==
    ASSUME NEW c \in Placed, NEW l \in Lanes, NEW phase \in Phases, c.queue # <<>>
    PROVE  BeginForeground(c, l, phase) \in Placed /\ Kept(c, BeginForeground(c, l, phase))
<1>1. c.queue \in Seq(Ops) /\ c \in Chat
  BY DEF Placed, Chat
<1>2. /\ Head(c.queue) \in Ops /\ Head(c.queue) = c.queue[1] /\ Tail(c.queue) \in Seq(Ops)
      /\ Len(Tail(c.queue)) = Len(c.queue) - 1 /\ Len(c.queue) \in Nat \ {0}
      /\ \A i \in 1 .. Len(Tail(c.queue)) : Tail(c.queue)[i] = c.queue[i + 1]
  BY <1>1, HeadTailProperties
<1>3. Record(c.outbox, StartEffect(l, Head(c.queue))) \in Seq(Entry)
  BY <1>2, EffectType, RecordType DEF Placed, Chat
<1>4. BeginForeground(c, l, phase) \in Chat
  BY <1>1, <1>2, <1>3 DEF BeginForeground, Chat
<1>5. Kept(c, BeginForeground(c, l, phase))
  BY <1>1 DEF BeginForeground, Chat, Kept
<1>6. /\ BeginForeground(c, l, phase).queue = Tail(c.queue)
      /\ BeginForeground(c, l, phase).fg = Head(c.queue)
      /\ BeginForeground(c, l, phase).lane = c.lane
  BY <1>1 DEF BeginForeground, Chat
<1>7. c.lane[Head(c.queue)] \in Lanes
  BY <1>2 DEF Placed
<1>8. \A i \in 1 .. Len(Tail(c.queue)) : c.lane[Tail(c.queue)[i]] \in Lanes
  <2>. TAKE i \in 1 .. Len(Tail(c.queue))
  <2>1. i + 1 \in 1 .. Len(c.queue) /\ Tail(c.queue)[i] = c.queue[i + 1]
    BY <1>2
  <2>. QED  BY <2>1 DEF Placed
<1>. QED  BY <1>4, <1>5, <1>6, <1>7, <1>8 DEF Placed

\* drive, in each of its branches.
LEMMA DrivePlaced ==
    ASSUME NEW c \in Placed, NEW covered \in BOOLEAN
    PROVE  Drive(c, covered) \in Placed /\ Kept(c, Drive(c, covered))
<1>1. c \in Chat /\ Kept(c, c)
  BY DEF Placed, Kept
<1>2. DriveTarget(c) \in Lanes \union {NoLane}
  BY <1>1 DEF DriveTarget, Chat
<1>3. ASSUME NEW l \in Lanes
      PROVE  DriveLane(c, l, covered) \in Placed /\ Kept(c, DriveLane(c, l, covered))
  <2>1. c.cgen[l] + 1 \in Nat /\ c.gen[l] + 1 \in Nat /\ (c.cand[l] # 0) \in BOOLEAN
    BY <1>1 DEF Chat
  <2>2. "running" \in Phases /\ "creating" \in Phases
    BY DEF Phases
  <2>3. [c EXCEPT !.active = l] \in Placed /\ Kept(c, [c EXCEPT !.active = l])
    BY <1>1 DEF Placed, Chat, Kept
  <2>. QED  BY <1>1, <2>1, <2>2, <2>3, OpenPlaced, BeginPlaced DEF DriveLane
<1>. QED  BY <1>1, <1>2, <1>3 DEF Drive

\* driveQueued, which drives only when something waits.
LEMMA DriveQueuedPlaced ==
    ASSUME NEW c \in Placed
    PROVE  DriveQueued(c) \in Placed /\ Kept(c, DriveQueued(c))
BY DrivePlaced DEF DriveQueued, Kept

(***************************************************************************)
(* Queues.                                                                 *)
(***************************************************************************)
\* A set of naturals that is not empty has a least element.
LEMMA Least ==
    ASSUME NEW T \in SUBSET Nat, T # {}
    PROVE  \E x \in T : \A y \in T : x <= y
<1>. DEFINE R == OpToRel(<, Nat)
<1>1. IsWellFoundedOn(R, Nat)
  BY NatLessThanWellFounded
<1>2. ASSUME NEW x \in Nat, NEW y \in Nat, y < x
      PROVE  <<y, x>> \in R
  BY <1>2 DEF OpToRel
<1>. HIDE DEF R
<1>3. \E x \in T : \A y \in T : ~(<<y, x>> \in R)
  BY <1>1, WFMin
<1>4. PICK x \in T : \A y \in T : ~(<<y, x>> \in R)
  BY <1>3
<1>5. ASSUME NEW y \in T  PROVE x <= y
  <2>1. x \in Nat /\ y \in Nat
    OBVIOUS
  <2>2. ~(y < x)
    BY <1>2, <1>4, <2>1
  <2>. QED  BY <2>1, <2>2
<1>. QED  BY <1>5

\* The first position of a queue that holds an element of S is one of its positions.
LEMMA FirstOfIn ==
    ASSUME NEW q \in Seq(Ops), NEW S, \E i \in DOMAIN q : q[i] \in S
    PROVE  FirstOf(q, S) \in 1 .. Len(q) /\ q[FirstOf(q, S)] \in S
<1>. DEFINE T == {i \in 1 .. Len(q) : q[i] \in S}
<1>. T \in SUBSET Nat /\ T # {}
  OBVIOUS
<1>1. PICK x \in T : \A y \in T : x <= y
  BY Least
<1>2. x \in DOMAIN q /\ q[x] \in S /\ \A j \in 1 .. (x - 1) : q[j] \notin S
  <2>1. ASSUME NEW j \in 1 .. (x - 1), q[j] \in S  PROVE FALSE
    BY <1>1, <2>1
  <2>. QED  BY <2>1
<1>. QED  BY <1>2 DEF FirstOf

\* Removing position i shifts what follows by one and keeps the rest.
LEMMA RemoveFirstType ==
    ASSUME NEW q \in Seq(Ops), NEW i \in 1 .. Len(q)
    PROVE  /\ RemoveFirst(q, i) \in Seq(Ops)
           /\ Len(RemoveFirst(q, i)) = Len(q) - 1
           /\ \A j \in 1 .. Len(q) - 1 :
                RemoveFirst(q, i)[j] = IF j < i THEN q[j] ELSE q[j + 1]
<1>. DEFINE s == SubSeq(q, 1, i - 1)
            t == SubSeq(q, i + 1, Len(q))
<1>1. /\ s \in Seq(Ops) /\ Len(s) = i - 1
      /\ \A j \in 1 .. i - 1 : s[j] = q[j]
  BY SubSeqProperties
<1>2. /\ t \in Seq(Ops) /\ Len(t) = Len(q) - i
      /\ \A j \in 1 .. Len(q) - i : t[j] = q[i + j]
  BY SubSeqProperties
<1>3. /\ s \o t \in Seq(Ops) /\ Len(s \o t) = Len(s) + Len(t)
      /\ \A j \in 1 .. Len(s) + Len(t) :
           (s \o t)[j] = IF j <= Len(s) THEN s[j] ELSE t[j - Len(s)]
  BY <1>1, <1>2, ConcatProperties
<1>4. RemoveFirst(q, i) = s \o t
  BY DEF RemoveFirst
<1>5. Len(q) \in Nat /\ i \in Nat
  OBVIOUS
<1>. HIDE DEF s, t
<1>6. Len(s \o t) = Len(q) - 1 /\ s \o t \in Seq(Ops)
  BY <1>1, <1>2, <1>3, <1>5
<1>7. ASSUME NEW j \in 1 .. Len(q) - 1
      PROVE  (s \o t)[j] = IF j < i THEN q[j] ELSE q[j + 1]
  <2>1. j \in 1 .. Len(s) + Len(t)
    BY <1>1, <1>2, <1>5
  <2>2. CASE j < i
    <3>1. j <= Len(s) /\ j \in 1 .. i - 1
      BY <1>1, <1>5, <2>2
    <3>. QED  BY <1>1, <1>3, <2>1, <2>2, <3>1
  <2>3. CASE ~(j < i)
    <3>1. ~(j <= Len(s)) /\ j - Len(s) \in 1 .. Len(q) - i /\ i + (j - Len(s)) = j + 1
      BY <1>1, <1>5, <2>3
    <3>2. (s \o t)[j] = t[j - Len(s)] /\ t[j - Len(s)] = q[i + (j - Len(s))]
      BY <1>2, <1>3, <2>1, <3>1
    <3>. QED  BY <2>3, <3>1, <3>2
  <2>. QED  BY <2>2, <2>3
<1>. QED  BY <1>4, <1>6, <1>7

\* Removing a queued input leaves a placed chat.
LEMMA RemovePlaced ==
    ASSUME NEW c \in Placed, NEW i \in 1 .. Len(c.queue)
    PROVE  [c EXCEPT !.queue = RemoveFirst(c.queue, i)] \in Placed
<1>. DEFINE d == [c EXCEPT !.queue = RemoveFirst(c.queue, i)]
            q == RemoveFirst(c.queue, i)
<1>1. c \in Chat /\ c.queue \in Seq(Ops)
  BY DEF Placed, Chat
<1>2. /\ q \in Seq(Ops) /\ Len(q) = Len(c.queue) - 1
      /\ \A j \in 1 .. Len(c.queue) - 1 : q[j] = IF j < i THEN c.queue[j] ELSE c.queue[j + 1]
  BY <1>1, RemoveFirstType
<1>3. d \in Chat /\ d.queue = q /\ d.fg = c.fg /\ d.lane = c.lane
  BY <1>1, <1>2 DEF Chat
<1>4. ASSUME NEW j \in 1 .. Len(q)  PROVE c.lane[q[j]] \in Lanes
  <2>1. j \in 1 .. Len(c.queue) /\ j + 1 \in 1 .. Len(c.queue) /\ Len(c.queue) \in Nat
    BY <1>1, <1>2
  <2>. QED  BY <1>2, <2>1 DEF Placed
<1>. HIDE DEF q, d
<1>5. d \in Placed
  BY <1>3, <1>4 DEF Placed
<1>. QED  BY <1>5 DEF d

(***************************************************************************)
(* Commands of the user.                                                   *)
(***************************************************************************)
\* SelectLane.
LEMMA SelectLanePlaced ==
    ASSUME NEW c \in Placed, NEW l \in Lanes, NEW covered \in BOOLEAN
    PROVE  SelectLane(c, l, covered) \in Placed /\ Kept(c, SelectLane(c, l, covered))
<1>. DEFINE revived == IF c.phase[l] = "unselected" \/ (c.phase[l] = "blocked" /\ c.cand[l] = 0)
                       THEN [c EXCEPT !.phase[l] = "absent"] ELSE c
            chosen  == [revived EXCEPT !.desired = l]
<1>1. c \in Chat
  BY DEF Placed
<1>2. chosen \in Chat /\ chosen.queue = c.queue /\ chosen.fg = c.fg /\ chosen.lane = c.lane
      /\ chosen.thread = c.thread
  BY <1>1 DEF Chat, Phases
<1>. HIDE DEF chosen
<1>3. chosen \in Placed /\ Kept(c, chosen)
  BY <1>2, Frame, SameThread
<1>4. Drive(chosen, covered) \in Placed /\ Kept(c, Drive(chosen, covered))
  BY <1>3, DrivePlaced, KeptTransitive
<1>. QED  BY <1>3, <1>4 DEF SelectLane, chosen

\* Submit reserves the operation on its lane and appends it to the queue.
LEMMA SubmitPlaced ==
    ASSUME NEW c \in Placed, NEW op \in Ops, NEW l \in Lanes, NEW covered \in BOOLEAN
    PROVE  Submit(c, op, l, covered) \in Placed /\ Kept(c, Submit(c, op, l, covered))
<1>. DEFINE revived == IF c.phase[l] = "blocked" THEN [c EXCEPT !.phase[l] = "absent"] ELSE c
            next == [revived EXCEPT !.lane[op] = l, !.queue = Append(@, op)]
<1>1. c \in Chat /\ c.queue \in Seq(Ops)
  BY DEF Placed, Chat
<1>2. /\ Append(c.queue, op) \in Seq(Ops) /\ Len(Append(c.queue, op)) = Len(c.queue) + 1
      /\ \A i \in 1 .. Len(c.queue) : Append(c.queue, op)[i] = c.queue[i]
      /\ Append(c.queue, op)[Len(c.queue) + 1] = op
  BY <1>1
<1>3. /\ next \in Chat /\ next.queue = Append(c.queue, op) /\ next.fg = c.fg
      /\ next.lane = [c.lane EXCEPT ![op] = l] /\ next.thread = c.thread
  BY <1>1, <1>2 DEF Chat, Phases
<1>. HIDE DEF next
<1>4. \A o \in Ops : c.lane[o] \in Lanes \/ o = op => next.lane[o] \in Lanes
  BY <1>1, <1>3 DEF Chat
<1>5. \A i \in 1 .. Len(c.queue) + 1 :
        Append(c.queue, op)[i] = op \/ c.lane[Append(c.queue, op)[i]] \in Lanes
  <2>. TAKE i \in 1 .. Len(c.queue) + 1
  <2>. CASE i \in 1 .. Len(c.queue)
    BY <1>2 DEF Placed
  <2>. CASE i = Len(c.queue) + 1
    BY <1>2
  <2>. QED  BY <1>1
<1>6. \A i \in 1 .. Len(next.queue) : next.lane[next.queue[i]] \in Lanes
  <2>. TAKE i \in 1 .. Len(next.queue)
  <2>1. next.queue[i] \in Ops
    BY <1>2, <1>3
  <2>. QED  BY <1>2, <1>3, <1>4, <1>5, <2>1
<1>7. next.fg # NoOp => next.lane[next.fg] \in Lanes
  BY <1>1, <1>3, <1>4 DEF Placed, Chat
<1>8. next \in Placed /\ Kept(c, next)
  BY <1>3, <1>6, <1>7, SameThread DEF Placed
<1>9. Drive(next, covered) \in Placed /\ Kept(c, Drive(next, covered))
  BY <1>8, DrivePlaced, KeptTransitive
<1>. QED  BY <1>9 DEF Submit, next

\* Ending the foreground.
LEMMA ClearPlaced ==
    ASSUME NEW c \in Placed
    PROVE  ClearForeground(c) \in Placed /\ ClearForeground(c).thread = c.thread
<1>1. c \in Chat
  BY DEF Placed
<1>2. /\ ClearForeground(c) \in Chat /\ ClearForeground(c).queue = c.queue
      /\ ClearForeground(c).fg = NoOp /\ ClearForeground(c).lane = c.lane
      /\ ClearForeground(c).thread = c.thread
  BY <1>1 DEF ClearForeground, Chat
<1>. QED  BY <1>2, Frame

\* Settling an input in the ledger.
LEMMA FatePlaced ==
    ASSUME NEW c \in Placed, NEW op, NEW fate \in Fates
    PROVE  /\ [c EXCEPT !.fate[op] = fate] \in Placed
           /\ [c EXCEPT !.fate[op] = fate].thread = c.thread
<1>. DEFINE d == [c EXCEPT !.fate[op] = fate]
<1>1. c \in Chat
  BY DEF Placed
<1>2. d \in Chat /\ d.queue = c.queue /\ d.fg = c.fg /\ d.lane = c.lane /\ d.thread = c.thread
  BY <1>1 DEF Chat
<1>. HIDE DEF d
<1>3. d \in Placed /\ d.thread = c.thread
  BY <1>2, Frame
<1>. QED  BY <1>3 DEF d

\* CancelPendingTurn, of the unadmitted foreground or of a queued input.
LEMMA WithdrawPlaced ==
    ASSUME NEW c \in Placed, NEW op \in Ops, CanWithdraw(c, op), NEW covered \in BOOLEAN
    PROVE  Withdraw(c, op, covered) \in Placed /\ Kept(c, Withdraw(c, op, covered))
<1>. DEFINE l == c.lane[op]
            box == Mark(c.outbox, Starts(c, op), "failed")
            unbegun == [c EXCEPT !.outbox = box,
                                 !.phase[l] = IF @ = "running" THEN "ready" ELSE @]
            dropped == IF c.fg = op THEN ClearForeground(unbegun)
                       ELSE [c EXCEPT !.queue = RemoveFirst(@, FirstOf(@, {op}))]
            settled == [dropped EXCEPT !.fate[op] = "withdrawn"]
<1>1. c \in Chat /\ c.queue \in Seq(Ops)
  BY DEF Placed, Chat
<1>2. box \in Seq(Entry)
  BY <1>1, MarkType DEF Chat, Statuses
<1>3. ASSUME c.fg = op
      PROVE  dropped \in Placed /\ dropped.thread = c.thread
  <2>1. l \in Lanes
    BY <1>3, NoOpIsNoOp DEF Placed
  <2>. HIDE DEF box, l
  <2>2. /\ unbegun \in Chat /\ unbegun.queue = c.queue /\ unbegun.fg = c.fg
        /\ unbegun.lane = c.lane /\ unbegun.thread = c.thread
    BY <1>1, <1>2, <2>1 DEF Chat, Phases
  <2>. HIDE DEF unbegun
  <2>3. unbegun \in Placed
    BY <2>2, Frame
  <2>4. dropped = ClearForeground(unbegun)
    BY <1>3
  <2>. QED  BY <2>2, <2>3, <2>4, ClearPlaced
<1>4. ASSUME c.fg # op
      PROVE  dropped \in Placed /\ dropped.thread = c.thread
  <2>1. FirstOf(c.queue, {op}) \in 1 .. Len(c.queue)
    BY <1>1, <1>4, FirstOfIn DEF CanWithdraw, QueuedOps
  <2>2. dropped \in Placed
    BY <1>4, <2>1, RemovePlaced
  <2>3. dropped.thread = c.thread
    BY <1>1, <1>4 DEF Chat
  <2>. QED  BY <2>2, <2>3
<1>5. dropped \in Placed /\ dropped.thread = c.thread
  BY <1>3, <1>4
<1>. HIDE DEF dropped
<1>6. settled \in Placed /\ settled.thread = c.thread
  BY <1>5, FatePlaced DEF Fates
<1>. HIDE DEF settled
<1>7. Drive(settled, covered) \in Placed /\ Kept(c, Drive(settled, covered))
  BY <1>6, DrivePlaced, SameThread, KeptTransitive
<1>. QED  BY <1>7 DEF Withdraw, settled, dropped, unbegun, box, l

\* CancelTurn.
LEMMA StopPlaced ==
    ASSUME NEW c \in Placed, CanStop(c)
    PROVE  StopTurn(c) \in Placed /\ Kept(c, StopTurn(c))
<1>1. c \in Chat /\ c.fg \in Ops /\ c.lane[c.fg] \in Lanes /\ c.outbox \in Seq(Entry)
  BY DEF CanStop, Placed, Chat
<1>2. Cardinality(Stops(c, c.fg)) + 1 \in Nat
  <2>1. IsFiniteSet(1 .. Len(c.outbox))
    BY <1>1, FS_Interval
  <2>2. Stops(c, c.fg) \subseteq 1 .. Len(c.outbox)
    BY <1>1 DEF Stops
  <2>. QED  BY <2>1, <2>2, FS_Subset, FS_CardinalityType
<1>3. Record(c.outbox, StopEffect(c.lane[c.fg], c.fg, Cardinality(Stops(c, c.fg)) + 1)) \in Seq(Entry)
  BY <1>1, <1>2, EffectType, RecordType
<1>4. /\ StopTurn(c) \in Chat /\ StopTurn(c).queue = c.queue /\ StopTurn(c).fg = c.fg
      /\ StopTurn(c).lane = c.lane /\ StopTurn(c).thread = c.thread
  BY <1>1, <1>3 DEF StopTurn, Chat
<1>. QED  BY <1>4, Frame, SameThread

\* CancelAcknowledged and CancelFailed.
LEMMA StopAnsweredPlaced ==
    ASSUME NEW c \in Placed
    PROVE  /\ StopAcknowledged(c) \in Placed /\ Kept(c, StopAcknowledged(c))
           /\ StopFailed(c) \in Placed /\ Kept(c, StopFailed(c))
<1>1. /\ c \in Chat
      /\ Mark(c.outbox, CurrentStop(c), "accepted") \in Seq(Entry)
      /\ Mark(c.outbox, CurrentStop(c), "failed") \in Seq(Entry)
  BY MarkType DEF Placed, Chat, Statuses
<1>2. /\ StopAcknowledged(c) \in Chat /\ StopAcknowledged(c).queue = c.queue
      /\ StopAcknowledged(c).fg = c.fg /\ StopAcknowledged(c).lane = c.lane
      /\ StopAcknowledged(c).thread = c.thread
  BY <1>1 DEF StopAcknowledged, Chat
<1>3. /\ StopFailed(c) \in Chat /\ StopFailed(c).queue = c.queue /\ StopFailed(c).fg = c.fg
      /\ StopFailed(c).lane = c.lane /\ StopFailed(c).thread = c.thread
  BY <1>1 DEF StopFailed, Chat
<1>. QED  BY <1>2, <1>3, Frame, SameThread

(***************************************************************************)
(* Settling the foreground.                                                *)
(***************************************************************************)
\* requeueInterruptedNotice puts the next attempt, on the same lane, at the head.
LEMMA RequeuedPlaced ==
    ASSUME NEW c \in Placed
    PROVE  /\ Requeued(c) \in Placed /\ Requeued(c).thread = c.thread
           /\ Requeued(c).fg = c.fg /\ Requeued(c).phase = c.phase
<1>1. c \in Chat /\ c.queue \in Seq(Ops)
  BY DEF Placed, Chat
<1>. DEFINE back == NextAttempt(c.fg)
            q == <<back>> \o c.queue
            d == [c EXCEPT !.lane[back] = c.lane[c.fg], !.queue = <<back>> \o @]
<1>2. ASSUME c.fg # NoOp, c.fg[2] < RedeliveryLimit
      PROVE  d \in Placed /\ d.thread = c.thread /\ d.fg = c.fg /\ d.phase = c.phase
  <2>1. c.fg \in Ops /\ c.lane[c.fg] \in Lanes
    BY <1>1, <1>2 DEF Placed, Chat
  <2>2. back \in Ops
    BY <1>2, <2>1, ChatAssumption DEF Ops, NextAttempt
  <2>. HIDE DEF back
  <2>3. <<back>> \in Seq(Ops) /\ Len(<<back>>) = 1 /\ <<back>>[1] = back
    BY <2>2
  <2>4. /\ q \in Seq(Ops) /\ Len(q) = Len(c.queue) + 1
        /\ q[1] = back
        /\ \A i \in 1 .. Len(q) : i # 1 => q[i] = c.queue[i - 1]
    BY <1>1, <2>3, ConcatProperties
  <2>. HIDE DEF q
  <2>5. d = [c EXCEPT !.lane[back] = c.lane[c.fg], !.queue = q]
    BY DEF q
  <2>6. /\ d \in Chat /\ d.queue = q /\ d.fg = c.fg /\ d.thread = c.thread /\ d.phase = c.phase
        /\ d.lane = [c.lane EXCEPT ![back] = c.lane[c.fg]]
    BY <1>1, <2>1, <2>4, <2>5 DEF Chat
  <2>. HIDE DEF d
  <2>7. \A o \in Ops : c.lane[o] \in Lanes \/ o = back => d.lane[o] \in Lanes
    BY <1>1, <2>1, <2>6 DEF Chat
  <2>8. ASSUME NEW i \in 1 .. Len(q)
        PROVE  d.lane[q[i]] \in Lanes
    <3>1. CASE i = 1
      BY <2>2, <2>4, <2>7, <3>1
    <3>2. CASE i # 1
      <4>1. i - 1 \in 1 .. Len(c.queue) /\ q[i] = c.queue[i - 1]
        BY <1>1, <2>4, <3>2
      <4>2. c.lane[q[i]] \in Lanes /\ q[i] \in Ops
        BY <1>1, <4>1 DEF Placed
      <4>. QED  BY <2>7, <4>2
    <3>. QED  BY <3>1, <3>2
  <2>9. d.lane[d.fg] \in Lanes
    BY <2>1, <2>6, <2>7
  <2>. QED  BY <2>6, <2>8, <2>9 DEF Placed
<1>. QED  BY <1>2 DEF Requeued, back, d

\* terminalizeInterruptedForeground ends the foreground and moves no thread.
LEMMA InterruptedPlaced ==
    ASSUME NEW c \in Placed
    PROVE  /\ Interrupted(c) \in Placed /\ Interrupted(c).thread = c.thread
           /\ Interrupted(c).fg = NoOp /\ Interrupted(c).phase = c.phase
<1>. DEFINE l == c.lane[c.fg]
            live(i) == c.outbox[i].status \in {"pending", "dispatched"}
            box1 == Mark(c.outbox, {i \in Starts(c, c.fg) : live(i)}, "ambiguous")
            box2 == Mark(box1, {i \in DOMAIN c.outbox : c.outbox[i].kind = "resume"
                                              /\ c.outbox[i].lane = l /\ live(i)}, "failed")
            box3 == IF ~c.stopping THEN box2
                    ELSE Mark(box2, {i \in CurrentStop(c) : c.outbox[i].status \in
                                   {"pending", "dispatched", "accepted", "consumed"}}, "ambiguous")
            cut == [c EXCEPT !.outbox = box3, !.stopping = FALSE,
                             !.fate[c.fg] = IF c.consumed THEN "interrupted" ELSE "uncertain"]
<1>1. c \in Chat /\ {"ambiguous", "failed"} \subseteq Statuses
  BY DEF Placed, Statuses
<1>2. box1 \in Seq(Entry)
  BY <1>1, MarkType DEF Chat
<1>. HIDE DEF box1
<1>3. box2 \in Seq(Entry)
  BY <1>1, <1>2, MarkType
<1>. HIDE DEF box2
<1>4. box3 \in Seq(Entry)
  BY <1>1, <1>3, MarkType
<1>. HIDE DEF box3
<1>5. /\ cut \in Chat /\ cut.queue = c.queue /\ cut.fg = c.fg /\ cut.lane = c.lane
      /\ cut.thread = c.thread /\ cut.phase = c.phase
  BY <1>1, <1>4 DEF Chat, Fates
<1>6. Interrupted(c) = ClearForeground(cut)
  BY DEF Interrupted, box1, box2, box3
<1>. HIDE DEF cut
<1>7. cut \in Placed
  BY <1>5, Frame
<1>8. ClearForeground(cut).fg = NoOp /\ ClearForeground(cut).phase = cut.phase
  BY <1>5 DEF ClearForeground, Chat
<1>. QED  BY <1>5, <1>6, <1>7, <1>8, ClearPlaced

\* A lane whose attachment is gone is absent or detached.
LEMMA UnattachedType ==
    ASSUME NEW c, NEW l
    PROVE  Unattached(c, l) \in Phases
BY DEF Unattached, Phases

\* driveQueued after a step that kept the threads.
LEMMA DriveQueuedKept ==
    ASSUME NEW c \in Placed, NEW d \in Placed, Kept(c, d)
    PROVE  DriveQueued(d) \in Placed /\ Kept(c, DriveQueued(d))
BY DriveQueuedPlaced, KeptTransitive

\* drive after a step that kept the threads.
LEMMA DriveKept ==
    ASSUME NEW c \in Placed, NEW d \in Placed, Kept(c, d), NEW covered \in BOOLEAN
    PROVE  Drive(d, covered) \in Placed /\ Kept(c, Drive(d, covered))
BY DrivePlaced, KeptTransitive

(***************************************************************************)
(* Receipts: opening a lane.                                               *)
(***************************************************************************)
\* LaneOpened: the guard admits only the thread the lane already has, if it has one.
LEMMA LaneOpenedPlaced ==
    ASSUME NEW c \in Placed, NEW l \in Lanes, NEW g \in Nat, NEW t \in Nat, CanOpen(c, l, t),
           NEW covered \in BOOLEAN
    PROVE  LaneOpened(c, l, g, t, covered) \in Placed /\ Kept(c, LaneOpened(c, l, g, t, covered))
<1>. DEFINE box == IF c.phase[l] = "creating" THEN Mark(c.outbox, Creates(c, l, c.cgen[l]), "completed")
                   ELSE Mark(c.outbox, Resumes(c, l, g), "completed")
            opened == [c EXCEPT !.thread[l] = t, !.cand[l] = 0, !.gen[l] = g, !.attached[l] = TRUE,
                                !.violated = @ \ {l}, !.phase[l] = "ready", !.outbox = box]
            running == [opened EXCEPT !.phase[l] = "running"]
<1>1. c \in Chat /\ box \in Seq(Entry)
  BY MarkType DEF Placed, Chat, Statuses
<1>. HIDE DEF box
<1>2. /\ opened \in Chat /\ opened.queue = c.queue /\ opened.fg = c.fg /\ opened.lane = c.lane
      /\ opened.thread = [c.thread EXCEPT ![l] = t]
  BY <1>1 DEF Chat, Phases
<1>3. Kept(c, opened)
  BY <1>1, <1>2 DEF Kept, CanOpen, Chat
<1>. HIDE DEF opened
<1>4. /\ running \in Chat /\ running.queue = c.queue /\ running.fg = c.fg /\ running.lane = c.lane
      /\ running.thread = opened.thread
  BY <1>2 DEF Chat, Phases
<1>. HIDE DEF running
<1>5. running \in Placed /\ Kept(c, running) /\ opened \in Placed
  BY <1>2, <1>3, <1>4, Frame DEF Kept
<1>6. Drive(opened, covered) \in Placed /\ Kept(c, Drive(opened, covered))
  BY <1>3, <1>5, DriveKept
<1>7. LaneOpened(c, l, g, t, covered) =
        IF FgLane(c) = l /\ ~c.running THEN running ELSE Drive(opened, covered)
  BY DEF LaneOpened, opened, running, box
<1>. QED  BY <1>5, <1>6, <1>7

\* LaneProvisioned records a candidate, never a thread.
LEMMA LaneProvisionedPlaced ==
    ASSUME NEW c \in Placed, NEW l \in Lanes, NEW g \in Nat, NEW t \in Nat, NEW absent \in BOOLEAN
    PROVE  /\ LaneProvisioned(c, l, g, t, absent) \in Placed
           /\ Kept(c, LaneProvisioned(c, l, g, t, absent))
<1>. DEFINE box == Mark(c.outbox, Creates(c, l, c.cgen[l]), "completed")
            candidate == [c EXCEPT !.cand[l] = t, !.gen[l] = g, !.attached[l] = TRUE,
                                   !.violated = @ \ {l}, !.outbox = box]
            again == [candidate EXCEPT !.running = FALSE, !.consumed = FALSE,
                                       !.outbox = Mark(@, Starts(c, c.fg), "pending")]
<1>1. c \in Chat /\ box \in Seq(Entry)
  BY MarkType DEF Placed, Chat, Statuses
<1>. HIDE DEF box
<1>2. /\ candidate \in Chat /\ candidate.queue = c.queue /\ candidate.fg = c.fg
      /\ candidate.lane = c.lane /\ candidate.thread = c.thread
  BY <1>1 DEF Chat
<1>. HIDE DEF candidate
<1>3. Mark(candidate.outbox, Starts(c, c.fg), "pending") \in Seq(Entry)
  BY <1>2, MarkType DEF Chat, Statuses
<1>4. /\ again \in Chat /\ again.queue = c.queue /\ again.fg = c.fg
      /\ again.lane = c.lane /\ again.thread = c.thread
  BY <1>2, <1>3 DEF Chat
<1>. HIDE DEF again
<1>5. candidate \in Placed /\ Kept(c, candidate) /\ again \in Placed /\ Kept(c, again)
  BY <1>2, <1>4, Frame, SameThread
<1>6. ASSUME c.queue # <<>>
      PROVE  /\ BeginForeground(candidate, l, "creating") \in Placed
             /\ Kept(c, BeginForeground(candidate, l, "creating"))
  <2>1. "creating" \in Phases /\ candidate.queue # <<>>
    BY <1>2, <1>6 DEF Phases
  <2>. QED  BY <1>5, <2>1, BeginPlaced, KeptTransitive
<1>7. \/ LaneProvisioned(c, l, g, t, absent) = again
      \/ LaneProvisioned(c, l, g, t, absent) = candidate
      \/ c.queue # <<>> /\ LaneProvisioned(c, l, g, t, absent) =
                              BeginForeground(candidate, l, "creating")
  BY DEF LaneProvisioned, candidate, again, box
<1>. QED  BY <1>5, <1>6, <1>7

\* settleWaitingTurnAfterLaneFailure refuses one waiting input at most.
LEMMA SettleWaitingPlaced ==
    ASSUME NEW c \in Placed, NEW l \in Lanes
    PROVE  SettleWaiting(c, l) \in Placed /\ SettleWaiting(c, l).thread = c.thread
<1>. DEFINE waiting == {op \in QueuedOps(c) : c.lane[op] = l}
            i == FirstOf(c.queue, waiting)
            box == Mark(c.outbox, Starts(c, c.fg), "failed")
            refused == [c EXCEPT !.outbox = box, !.fate[c.fg] = "refused"]
            rest == [c EXCEPT !.queue = RemoveFirst(c.queue, i)]
            passed == [c EXCEPT !.queue = RemoveFirst(@, i), !.fate[c.queue[i]] = "refused"]
<1>1. c \in Chat /\ c.queue \in Seq(Ops) /\ box \in Seq(Entry)
  BY MarkType DEF Placed, Chat, Statuses
<1>2. /\ refused \in Chat /\ refused.queue = c.queue /\ refused.fg = c.fg
      /\ refused.lane = c.lane /\ refused.thread = c.thread
  <2>. HIDE DEF box
  <2>. QED  BY <1>1 DEF Chat, Fates
<1>3. ClearForeground(refused) \in Placed /\ ClearForeground(refused).thread = c.thread
  <2>. HIDE DEF refused
  <2>. QED  BY <1>2, Frame, ClearPlaced
<1>4. ASSUME waiting # {}
      PROVE  passed \in Placed /\ passed.thread = c.thread
  <2>1. i \in 1 .. Len(c.queue)
    BY <1>1, <1>4, FirstOfIn DEF QueuedOps
  <2>. HIDE DEF i, waiting
  <2>2. rest \in Placed
    BY <2>1, RemovePlaced
  <2>3. rest.thread = c.thread
    BY <1>1 DEF Chat
  <2>4. passed = [rest EXCEPT !.fate[c.queue[i]] = "refused"]
    BY <1>1 DEF Chat
  <2>5. "refused" \in Fates
    BY DEF Fates
  <2>. HIDE DEF rest, passed
  <2>. QED  BY <2>2, <2>3, <2>4, <2>5, FatePlaced
<1>5. \/ SettleWaiting(c, l) = c
      \/ SettleWaiting(c, l) = ClearForeground(refused)
      \/ waiting # {} /\ SettleWaiting(c, l) = passed
  BY DEF SettleWaiting
<1>. HIDE DEF refused, passed, waiting
<1>. QED  BY <1>3, <1>4, <1>5

\* revertFailedProviderSwitch changes the selection only.
LEMMA ReselectedPlaced ==
    ASSUME NEW c \in Placed, NEW l \in Lanes
    PROVE  Reselected(c, l) \in Placed /\ Reselected(c, l).thread = c.thread
<1>1. c \in Chat
  BY DEF Placed
<1>2. /\ Reselected(c, l) \in Chat /\ Reselected(c, l).queue = c.queue
      /\ Reselected(c, l).fg = c.fg /\ Reselected(c, l).lane = c.lane
      /\ Reselected(c, l).thread = c.thread
  BY <1>1 DEF Reselected, Chat
<1>. QED  BY <1>2, Frame

\* LaneOpenFailed.
LEMMA LaneOpenFailedPlaced ==
    ASSUME NEW c \in Placed, NEW l \in Lanes, NEW ambiguous \in BOOLEAN
    PROVE  /\ LaneOpenFailed(c, l, ambiguous) \in Placed
           /\ Kept(c, LaneOpenFailed(c, l, ambiguous))
<1>. DEFINE box == Mark(c.outbox, IF c.thread[l] = 0 THEN Creates(c, l, c.cgen[l])
                                  ELSE Resumes(c, l, c.gen[l]),
                        IF ambiguous THEN "ambiguous" ELSE "failed")
            phase == IF c.thread[l] = 0 /\ c.cand[l] = 0 /\ ambiguous THEN "blocked"
                     ELSE Unattached(c, l)
            failed == [c EXCEPT !.phase[l] = phase, !.outbox = box]
<1>1. c \in Chat /\ box \in Seq(Entry)
  BY MarkType DEF Placed, Chat, Statuses
<1>2. phase \in Phases
  BY UnattachedType DEF Phases
<1>. HIDE DEF box, phase
<1>3. /\ failed \in Chat /\ failed.queue = c.queue /\ failed.fg = c.fg
      /\ failed.lane = c.lane /\ failed.thread = c.thread
  BY <1>1, <1>2 DEF Chat
<1>. HIDE DEF failed
<1>4. failed \in Placed
  BY <1>3, Frame
<1>5. LaneOpenFailed(c, l, ambiguous) = Reselected(SettleWaiting(failed, l), l)
  BY DEF LaneOpenFailed, failed, phase, box
<1>. QED  BY <1>3, <1>4, <1>5, SettleWaitingPlaced, ReselectedPlaced, SameThread

(***************************************************************************)
(* Receipts: the turn of the foreground.                                   *)
(***************************************************************************)
\* TurnAdmitted.
LEMMA TurnAdmittedPlaced ==
    ASSUME NEW c \in Placed
    PROVE  TurnAdmitted(c) \in Placed /\ Kept(c, TurnAdmitted(c))
<1>. DEFINE l == c.lane[c.fg]
            box == Mark(c.outbox, Starts(c, c.fg), "accepted")
            d == [c EXCEPT !.running = TRUE, !.phase[l] = IF c.cand[l] # 0 THEN "creating" ELSE "running",
                           !.outbox = box]
<1>1. c \in Chat /\ box \in Seq(Entry)
  BY MarkType DEF Placed, Chat, Statuses
<1>2. TurnAdmitted(c) = d
  BY DEF TurnAdmitted
<1>. HIDE DEF box, l
<1>3. d \in Chat /\ d.queue = c.queue /\ d.fg = c.fg /\ d.lane = c.lane /\ d.thread = c.thread
  BY <1>1 DEF Chat, Phases
<1>. HIDE DEF d
<1>. QED  BY <1>2, <1>3, Frame, SameThread

\* TurnAdmissionFailed of an ambiguous start.
LEMMA TurnAmbiguousPlaced ==
    ASSUME NEW c \in Placed
    PROVE  TurnAmbiguous(c) \in Placed /\ Kept(c, TurnAmbiguous(c))
<1>. DEFINE l == c.lane[c.fg]
            box == Mark(c.outbox, Starts(c, c.fg), "ambiguous")
            d == [c EXCEPT !.phase[l] = Unattached(c, l), !.outbox = box]
<1>1. c \in Chat /\ box \in Seq(Entry) /\ Unattached(c, l) \in Phases
  BY MarkType, UnattachedType DEF Placed, Chat, Statuses
<1>2. TurnAmbiguous(c) = DriveQueued(Interrupted(d))
  BY DEF TurnAmbiguous
<1>. HIDE DEF box, l
<1>3. d \in Chat /\ d.queue = c.queue /\ d.fg = c.fg /\ d.lane = c.lane /\ d.thread = c.thread
  BY <1>1 DEF Chat
<1>. HIDE DEF d
<1>4. Interrupted(d) \in Placed /\ Kept(c, Interrupted(d))
  BY <1>3, Frame, InterruptedPlaced, SameThread
<1>. QED  BY <1>2, <1>4, DriveQueuedKept

\* TurnAdmissionFailed of a refused start.
LEMMA TurnRefusedPlaced ==
    ASSUME NEW c \in Placed
    PROVE  TurnRefused(c) \in Placed /\ Kept(c, TurnRefused(c))
<1>. DEFINE l == c.lane[c.fg]
            box == Mark(c.outbox, Starts(c, c.fg), "failed")
            d == [c EXCEPT !.phase[l] = Unattached(c, l), !.fate[c.fg] = "refused", !.outbox = box]
<1>1. c \in Chat /\ box \in Seq(Entry) /\ Unattached(c, l) \in Phases
  BY MarkType, UnattachedType DEF Placed, Chat, Statuses
<1>2. TurnRefused(c) = DriveQueued(ClearForeground(d))
  BY DEF TurnRefused
<1>. HIDE DEF box, l
<1>3. d \in Chat /\ d.queue = c.queue /\ d.fg = c.fg /\ d.lane = c.lane /\ d.thread = c.thread
  BY <1>1 DEF Chat, Fates
<1>. HIDE DEF d
<1>4. ClearForeground(d) \in Placed /\ Kept(c, ClearForeground(d))
  BY <1>3, Frame, ClearPlaced, SameThread
<1>. QED  BY <1>2, <1>4, DriveQueuedKept

\* TurnStartDeferred.
LEMMA TurnDeferredPlaced ==
    ASSUME NEW c \in Placed, NEW op
    PROVE  TurnDeferred(c, op) \in Placed /\ Kept(c, TurnDeferred(c, op))
<1>. DEFINE ids == {i \in Starts(c, op) : c.outbox[i].status = "dispatched"}
            d == [c EXCEPT !.outbox = Mark(@, ids, "pending")]
<1>1. c \in Chat /\ Mark(c.outbox, ids, "pending") \in Seq(Entry)
  BY MarkType DEF Placed, Chat, Statuses
<1>2. d \in Chat /\ d.queue = c.queue /\ d.fg = c.fg /\ d.lane = c.lane /\ d.thread = c.thread
  <2>. HIDE DEF ids
  <2>. QED  BY <1>1 DEF Chat
<1>3. TurnDeferred(c, op) = d \/ TurnDeferred(c, op) = c
  BY DEF TurnDeferred
<1>. HIDE DEF d
<1>. QED  BY <1>2, <1>3, Frame, SameThread

\* InputConsumed: a receipt establishes a thread only on a lane that has none.
LEMMA InputConsumedPlaced ==
    ASSUME NEW c \in Placed, NEW op, NEW t \in Nat, CanConsume(c, op, t)
    PROVE  InputConsumed(c, t) \in Placed /\ Kept(c, InputConsumed(c, t))
<1>. DEFINE l == c.lane[c.fg]
            owned == IF t = 0 THEN c
                     ELSE [c EXCEPT !.thread[l] = t, !.cand[l] = 0, !.phase[l] = "running"]
            box == Mark(owned.outbox, Starts(c, c.fg), "consumed")
            done == [owned EXCEPT !.consumed = TRUE, !.outbox = box]
<1>1. c \in Chat /\ (t # 0 => c.thread[l] = 0)
  BY DEF Placed, CanConsume
<1>2. InputConsumed(c, t) = owned \/ InputConsumed(c, t) = done
  BY DEF InputConsumed
<1>. HIDE DEF l
<1>3. /\ owned \in Chat /\ owned.queue = c.queue /\ owned.fg = c.fg /\ owned.lane = c.lane
  BY <1>1 DEF Chat, Phases
<1>4. \A k \in Lanes : c.thread[k] # 0 => owned.thread[k] = c.thread[k]
  BY <1>1 DEF Chat
<1>. HIDE DEF owned
<1>5. box \in Seq(Entry)
  BY <1>3, MarkType DEF Chat, Statuses
<1>. HIDE DEF box
<1>6. done \in Chat /\ done.queue = c.queue /\ done.fg = c.fg /\ done.lane = c.lane
      /\ done.thread = owned.thread
  BY <1>3, <1>5 DEF Chat
<1>. HIDE DEF done
<1>. QED  BY <1>2, <1>3, <1>4, <1>6, Frame DEF Kept

\* The receipt that names no thread, or the terminal that stands for it.
LEMMA PresumedPlaced ==
    ASSUME NEW c \in Placed
    PROVE  InputConsumed(c, 0) \in Placed /\ InputConsumed(c, 0).thread = c.thread
<1>. DEFINE box == Mark(c.outbox, Starts(c, c.fg), "consumed")
            done == [c EXCEPT !.consumed = TRUE, !.outbox = box]
<1>1. c \in Chat /\ box \in Seq(Entry)
  BY MarkType DEF Placed, Chat, Statuses
<1>2. InputConsumed(c, 0) = c \/ InputConsumed(c, 0) = done
  BY DEF InputConsumed
<1>. HIDE DEF box
<1>3. done \in Chat /\ done.queue = c.queue /\ done.fg = c.fg /\ done.lane = c.lane
      /\ done.thread = c.thread
  BY <1>1 DEF Chat
<1>. HIDE DEF done
<1>. QED  BY <1>2, <1>3, Frame

\* TurnTerminated, with and without the receipt of the input.
LEMMA TurnTerminatedPlaced ==
    ASSUME NEW c \in Placed, NEW interrupted \in BOOLEAN, NEW covered \in BOOLEAN
    PROVE  /\ TurnTerminated(c, interrupted, covered) \in Placed
           /\ Kept(c, TurnTerminated(c, interrupted, covered))
<1>. DEFINE l == c.lane[c.fg]
            kept == IF interrupted THEN Requeued(c) ELSE c
            cut == Interrupted(kept)
            box == Mark(cut.outbox, Starts(c, c.fg), "completed")
            unreceipted == [cut EXCEPT !.phase[l] = "creating", !.outbox = box]
            heard == InputConsumed(kept, 0)
            fate == IF c.consumed THEN "answered" ELSE "presumed"
            box1 == IF c.stopping THEN Mark(heard.outbox, CurrentStop(c), "completed") ELSE heard.outbox
            box2 == Mark(box1, Starts(c, c.fg), "completed")
            settled == [heard EXCEPT !.phase[l] = "ready", !.stopping = FALSE, !.fate[c.fg] = fate,
                                     !.outbox = box2]
            answered == ClearForeground(settled)
            ended == IF c.cand[l] # 0 /\ ~c.consumed THEN unreceipted ELSE answered
<1>1. kept \in Placed /\ kept.thread = c.thread
  BY RequeuedPlaced
<1>2. TurnTerminated(c, interrupted, covered) = Drive(ended, covered)
  BY DEF TurnTerminated
<1>. HIDE DEF kept
<1>3. "completed" \in Statuses /\ {"creating", "ready"} \subseteq Phases
  BY DEF Statuses, Phases
<1>4. unreceipted \in Placed /\ unreceipted.thread = c.thread
  <2>1. cut \in Placed /\ cut.thread = c.thread
    BY <1>1, InterruptedPlaced
  <2>. HIDE DEF cut, l
  <2>2. cut \in Chat /\ box \in Seq(Entry)
    BY <1>3, <2>1, MarkType DEF Placed, Chat
  <2>. HIDE DEF box
  <2>3. /\ unreceipted \in Chat /\ unreceipted.queue = cut.queue /\ unreceipted.fg = cut.fg
        /\ unreceipted.lane = cut.lane /\ unreceipted.thread = cut.thread
    BY <1>3, <2>2 DEF Chat
  <2>. HIDE DEF unreceipted
  <2>. QED  BY <2>1, <2>3, Frame
<1>5. heard \in Placed /\ heard.thread = c.thread
  BY <1>1, PresumedPlaced
<1>. HIDE DEF heard
<1>6. box2 \in Seq(Entry) /\ fate \in Fates
  <2>1. box1 \in Seq(Entry)
    BY <1>5, <1>3, MarkType DEF Placed, Chat
  <2>. HIDE DEF box1
  <2>. QED  BY <1>3, <2>1, MarkType DEF Fates
<1>. HIDE DEF box1, box2, fate, unreceipted, l
<1>7. /\ settled \in Chat /\ settled.queue = heard.queue /\ settled.fg = heard.fg
      /\ settled.lane = heard.lane /\ settled.thread = heard.thread
  BY <1>5, <1>3, <1>6 DEF Placed, Chat
<1>. HIDE DEF settled
<1>8. answered \in Placed /\ answered.thread = c.thread
  BY <1>5, <1>7, Frame, ClearPlaced
<1>9. ended \in Placed /\ ended.thread = c.thread
  <2>. HIDE DEF answered
  <2>. QED  BY <1>4, <1>8
<1>. HIDE DEF ended
<1>. QED  BY <1>2, <1>9, DriveKept, SameThread

(***************************************************************************)
(* Losing the attachment of a lane.                                        *)
(***************************************************************************)
\* HostLost, in each of its branches.
LEMMA HostLostPlaced ==
    ASSUME NEW c \in Placed, NEW l \in Lanes, NEW g
    PROVE  HostLost(c, l, g) \in Placed /\ Kept(c, HostLost(c, l, g))
<1>. DEFINE phase == IF c.cand[l] # 0 THEN "absent" ELSE Unattached(c, l)
            next == c.gen[l] + 1
            gone == [c EXCEPT !.attached[l] = FALSE, !.gen[l] = next, !.phase[l] = phase]
            fresh == IF c.cgen[l] >= gone.gen[l] THEN c.cgen[l] + 1 ELSE gone.gen[l]
            box == Mark(gone.outbox, Starts(c, c.fg), "ambiguous")
            uncertain == [gone EXCEPT !.outbox = box]
            cut == Interrupted(Requeued(uncertain))
            reopened == [OpenByCreate(gone, l, fresh, TRUE) EXCEPT !.gen[l] = fresh]
            resumed == OpenByResume(gone, l, gone.gen[l])
<1>1. /\ c \in Chat /\ phase \in Phases
      /\ c.gen \in [Lanes -> Nat] /\ c.cgen \in [Lanes -> Nat] /\ next \in Nat
  <2>1. phase \in Phases
    BY UnattachedType DEF Phases
  <2>2. c \in Chat /\ c.gen \in [Lanes -> Nat] /\ c.cgen \in [Lanes -> Nat]
    BY DEF Placed, Chat
  <2>. QED  BY <2>1, <2>2
<1>2. \/ HostLost(c, l, g) = c
      \/ HostLost(c, l, g) = DriveQueued(gone)
      \/ HostLost(c, l, g) = reopened
      \/ HostLost(c, l, g) = resumed
      \/ HostLost(c, l, g) = DriveQueued(cut)
  BY DEF HostLost
<1>. HIDE DEF phase, next
<1>3. /\ gone \in Chat /\ gone.queue = c.queue /\ gone.fg = c.fg
      /\ gone.lane = c.lane /\ gone.thread = c.thread
  BY <1>1 DEF Chat
<1>. HIDE DEF gone
<1>4. gone \in Placed /\ Kept(c, gone)
  BY <1>3, Frame, SameThread
<1>5. DriveQueued(gone) \in Placed /\ Kept(c, DriveQueued(gone))
  BY <1>4, DriveQueuedKept
<1>6. fresh \in Nat /\ gone.gen[l] \in Nat
  <2>1. gone.gen \in [Lanes -> Nat]
    BY <1>3 DEF Chat
  <2>. QED  BY <1>1, <2>1
<1>. HIDE DEF fresh
<1>7. resumed \in Placed /\ Kept(c, resumed)
  BY <1>4, <1>6, OpenPlaced, KeptTransitive
<1>8. reopened \in Placed /\ Kept(c, reopened)
  <2>. DEFINE o == OpenByCreate(gone, l, fresh, TRUE)
  <2>1. o \in Placed /\ Kept(c, o)
    BY <1>4, <1>6, OpenPlaced, KeptTransitive
  <2>. HIDE DEF o
  <2>2. /\ reopened \in Chat /\ reopened.queue = o.queue /\ reopened.fg = o.fg
        /\ reopened.lane = o.lane /\ reopened.thread = o.thread
    BY <1>6, <2>1 DEF o, Placed, Chat
  <2>. HIDE DEF reopened
  <2>. QED  BY <2>1, <2>2, Frame DEF Kept
<1>9. uncertain \in Placed /\ uncertain.thread = c.thread
  <2>1. box \in Seq(Entry)
    BY <1>3, MarkType DEF Chat, Statuses
  <2>. HIDE DEF box
  <2>2. /\ uncertain \in Chat /\ uncertain.queue = gone.queue /\ uncertain.fg = gone.fg
        /\ uncertain.lane = gone.lane /\ uncertain.thread = gone.thread
    BY <1>3, <2>1 DEF Chat
  <2>. HIDE DEF uncertain
  <2>. QED  BY <1>3, <1>4, <2>2, Frame
<1>10. DriveQueued(cut) \in Placed /\ Kept(c, DriveQueued(cut))
  <2>. HIDE DEF uncertain
  <2>1. cut \in Placed /\ Kept(c, cut)
    BY <1>9, RequeuedPlaced, InterruptedPlaced, SameThread
  <2>. HIDE DEF cut
  <2>. QED  BY <2>1, DriveQueuedKept
<1>. HIDE DEF resumed, reopened, cut
<1>11. c \in Placed /\ Kept(c, c)
  BY SameThread
<1>. QED  BY <1>2, <1>5, <1>7, <1>8, <1>10, <1>11

\* A lane that failed by its protocol: only its own state changes.
LEMMA ViolatedPlaced ==
    ASSUME NEW c \in Placed, NEW l \in Lanes
    PROVE  /\ Violated(c, l) \in Placed /\ Violated(c, l).thread = c.thread
           /\ Violated(c, l) \in Chat /\ Violated(c, l).queue = c.queue
           /\ Violated(c, l).fg = c.fg /\ Violated(c, l).lane = c.lane
<1>1. c \in Chat /\ Unattached(c, l) \in Phases
  BY UnattachedType DEF Placed
<1>2. /\ Violated(c, l) \in Chat /\ Violated(c, l).queue = c.queue
      /\ Violated(c, l).fg = c.fg /\ Violated(c, l).lane = c.lane
      /\ Violated(c, l).thread = c.thread
  BY <1>1 DEF Violated, Chat
<1>. QED  BY <1>2, Frame

\* LaneProtocolFailed.
LEMMA LaneProtocolFailedPlaced ==
    ASSUME NEW c \in Placed, NEW l \in Lanes, NEW g
    PROVE  LaneProtocolFailed(c, l, g) \in Placed /\ Kept(c, LaneProtocolFailed(c, l, g))
<1>. DEFINE gone == Violated(c, l)
            box == Mark(gone.outbox, Starts(c, c.fg), "ambiguous")
            uncertain == [gone EXCEPT !.outbox = box]
<1>1. c \in Chat /\ Unattached(c, l) \in Phases /\ Kept(c, c)
  BY UnattachedType, SameThread DEF Placed
<1>2. \/ LaneProtocolFailed(c, l, g) = c
      \/ LaneProtocolFailed(c, l, g) = DriveQueued(gone)
      \/ LaneProtocolFailed(c, l, g) = DriveQueued(Interrupted(uncertain))
  BY DEF LaneProtocolFailed
<1>3. gone \in Placed /\ gone.thread = c.thread /\ gone \in Chat /\ gone.queue = c.queue
      /\ gone.fg = c.fg /\ gone.lane = c.lane
  BY ViolatedPlaced
<1>. HIDE DEF gone
<1>4. gone \in Placed /\ Kept(c, gone)
  BY <1>3, SameThread
<1>5. box \in Seq(Entry)
  BY <1>3, MarkType DEF Chat, Statuses
<1>. HIDE DEF box
<1>6. /\ uncertain \in Chat /\ uncertain.queue = gone.queue /\ uncertain.fg = gone.fg
      /\ uncertain.lane = gone.lane /\ uncertain.thread = gone.thread
  BY <1>3, <1>5 DEF Chat
<1>. HIDE DEF uncertain
<1>7. Interrupted(uncertain) \in Placed /\ Kept(c, Interrupted(uncertain))
  BY <1>3, <1>4, <1>6, Frame, InterruptedPlaced, SameThread
<1>. QED  BY <1>1, <1>2, <1>4, <1>7, DriveQueuedKept

\* The transport health event, which drives nothing unless it ends a turn.
LEMMA LaneUnhealthyPlaced ==
    ASSUME NEW c \in Placed, NEW l \in Lanes
    PROVE  LaneUnhealthy(c, l) \in Placed /\ Kept(c, LaneUnhealthy(c, l))
<1>. DEFINE gone == Violated(c, l)
            undone == {i \in Starts(c, c.fg) : c.outbox[i].status \notin {"completed", "failed"}}
            box == Mark(gone.outbox, undone, "ambiguous")
            uncertain == [gone EXCEPT !.outbox = box]
<1>1. \/ LaneUnhealthy(c, l) = gone
      \/ LaneUnhealthy(c, l) = DriveQueued(Interrupted(uncertain))
  BY DEF LaneUnhealthy
<1>2. gone \in Placed /\ gone.thread = c.thread /\ gone \in Chat /\ gone.queue = c.queue
      /\ gone.fg = c.fg /\ gone.lane = c.lane
  BY ViolatedPlaced
<1>. HIDE DEF gone, undone
<1>3. box \in Seq(Entry)
  BY <1>2, MarkType DEF Chat, Statuses
<1>. HIDE DEF box
<1>4. /\ uncertain \in Chat /\ uncertain.queue = gone.queue /\ uncertain.fg = gone.fg
      /\ uncertain.lane = gone.lane /\ uncertain.thread = gone.thread
  BY <1>2, <1>3 DEF Chat
<1>. HIDE DEF uncertain
<1>5. Interrupted(uncertain) \in Placed /\ Kept(c, Interrupted(uncertain))
  BY <1>2, <1>4, Frame, InterruptedPlaced, SameThread
<1>. QED  BY <1>1, <1>2, <1>5, DriveQueuedKept, SameThread

(***************************************************************************)
(* Recovery.                                                               *)
(***************************************************************************)
\* Recovery leaves every outbox entry an entry.
LEMMA RecoveredEntryType ==
    ASSUME NEW c, NEW e \in Entry
    PROVE  RecoveredEntry(c, e) \in Entry
<1>1. {"completed", "pending", "failed", "ambiguous"} \subseteq Statuses
  BY DEF Statuses
<1>2. \A s \in Statuses, r \in BOOLEAN :
        [e EXCEPT !.status = s, !.recon = r] \in Entry /\ [e EXCEPT !.status = s] \in Entry
  BY DEF Entry
<1>. QED  BY <1>1, <1>2 DEF RecoveredEntry

\* The first half of RecoverOutbox: the entries and the foreground.
LEMMA RereadPlaced ==
    ASSUME NEW c \in Placed
    PROVE  Reread(c) \in Placed /\ Reread(c).thread = c.thread
<1>. DEFINE box == [i \in DOMAIN c.outbox |-> RecoveredEntry(c, c.outbox[i])]
            seen == [c EXCEPT !.outbox = box]
            l == seen.lane[seen.fg]
            phase == IF seen.cand[l] # 0 THEN "absent" ELSE Unattached(seen, l)
            shut == [seen EXCEPT !.phase[l] = phase]
<1>1. c \in Chat /\ c.outbox \in Seq(Entry)
  BY DEF Placed, Chat
<1>2. box \in Seq(Entry)
  <2>1. \A i \in 1 .. Len(c.outbox) : RecoveredEntry(c, c.outbox[i]) \in Entry
    BY <1>1, RecoveredEntryType
  <2>2. box = [i \in 1 .. Len(c.outbox) |-> RecoveredEntry(c, c.outbox[i])]
    BY <1>1
  <2>. QED  BY <1>1, <2>1, <2>2, Len(c.outbox) \in Nat
<1>3. Reread(c) = RetiredForeground(seen)
  BY <1>1 DEF Reread
<1>. HIDE DEF box
<1>4. /\ seen \in Chat /\ seen.queue = c.queue /\ seen.fg = c.fg
      /\ seen.lane = c.lane /\ seen.thread = c.thread
  BY <1>1, <1>2 DEF Chat
<1>. HIDE DEF seen
<1>5. seen \in Placed
  BY <1>4, Frame
<1>6. phase \in Phases
  BY UnattachedType DEF Phases
<1>7. RetiredForeground(seen) = seen \/ RetiredForeground(seen) = Interrupted(Requeued(shut))
  BY DEF RetiredForeground
<1>. HIDE DEF phase, l
<1>8. /\ shut \in Chat /\ shut.queue = seen.queue /\ shut.fg = seen.fg
      /\ shut.lane = seen.lane /\ shut.thread = seen.thread
  BY <1>4, <1>6 DEF Chat
<1>. HIDE DEF shut
<1>. QED  BY <1>3, <1>4, <1>5, <1>7, <1>8, Frame, RequeuedPlaced, InterruptedPlaced

\* What the lane pass computes has its type.
LEMMA RecoveredTypes ==
    ASSUME NEW c \in Chat
    PROVE  /\ \A l \in Lanes : /\ RecoveredPhase(c, l) \in Phases
                               /\ RecoveredCgen(c, l) \in Nat
                               /\ RecoveredGen(c, l) \in Nat
           /\ [l \in Lanes |-> RecoveredPhase(c, l)] \in [Lanes -> Phases]
           /\ [l \in Lanes |-> RecoveredCgen(c, l)] \in [Lanes -> Nat]
           /\ [l \in Lanes |-> RecoveredGen(c, l)] \in [Lanes -> Nat]
<1>1. \A l \in Lanes : /\ RecoveredPhase(c, l) \in Phases
                        /\ RecoveredCgen(c, l) \in Nat
                        /\ RecoveredGen(c, l) \in Nat
  <2>. TAKE l \in Lanes
  <2>1. c.phase[l] \in Phases /\ c.cgen[l] \in Nat /\ c.gen[l] \in Nat
    BY DEF Chat
  <2>2. RecoveredPhase(c, l) \in Phases
    BY DEF RecoveredPhase, Phases
  <2>. QED  BY <2>1, <2>2 DEF RecoveredCgen, RecoveredGen
<1>. QED  BY <1>1

\* The effects of the lane pass, in any order of the lanes, are entries.
LEMMA RecoveryEffectsType ==
    ASSUME NEW c \in Chat,
           NEW order \in [1 .. Cardinality(NeedsEffect(c)) -> NeedsEffect(c)]
    PROVE  [i \in DOMAIN order |-> RecoveryEffect(c, order[i])] \in Seq(Entry)
<1>1. Cardinality(NeedsEffect(c)) \in Nat
  BY ChatAssumption, FS_Subset, FS_CardinalityType DEF NeedsEffect
<1>2. \A l \in Lanes : RecoveryEffect(c, l) \in Entry
  BY RecoveredTypes, EffectType DEF RecoveryEffect
<1>3. \A i \in 1 .. Cardinality(NeedsEffect(c)) : RecoveryEffect(c, order[i]) \in Entry
  BY <1>2 DEF NeedsEffect
<1>. QED  BY <1>1, <1>3

\* RecoverOutbox: the lane pass, its effects in any order of the lanes, and the drive.
LEMMA RecoverOutboxPlaced ==
    ASSUME NEW c \in Placed, NEW order \in Orders(NeedsEffect(Reread(c)))
    PROVE  RecoverOutbox(c, order) \in Placed /\ Kept(c, RecoverOutbox(c, order))
<1>. DEFINE mid == Reread(c)
            new == [i \in DOMAIN order |-> RecoveryEffect(mid, order[i])]
            phases == [l \in Lanes |-> RecoveredPhase(mid, l)]
            cgens == [l \in Lanes |-> RecoveredCgen(mid, l)]
            gens == [l \in Lanes |-> RecoveredGen(mid, l)]
            back == [mid EXCEPT !.phase = phases, !.cgen = cgens, !.gen = gens,
                                !.outbox = @ \o new]
<1>1. mid \in Placed /\ mid.thread = c.thread
  BY RereadPlaced
<1>2. RecoverOutbox(c, order) = IF c.fg # NoOp /\ mid.fg = NoOp THEN DriveQueued(back) ELSE back
  BY DEF RecoverOutbox
<1>3. order \in [1 .. Cardinality(NeedsEffect(mid)) -> NeedsEffect(mid)]
  BY DEF Orders
<1>. HIDE DEF mid
<1>4. mid \in Chat
  BY <1>1 DEF Placed
<1>6. new \in Seq(Entry)
  BY <1>3, <1>4, RecoveryEffectsType
<1>7. mid.outbox \o new \in Seq(Entry)
  BY <1>4, <1>6, ConcatProperties DEF Chat
<1>8. phases \in [Lanes -> Phases] /\ cgens \in [Lanes -> Nat] /\ gens \in [Lanes -> Nat]
  BY <1>4, RecoveredTypes
<1>. HIDE DEF new, phases, cgens, gens
<1>9. /\ back \in Chat /\ back.queue = mid.queue /\ back.fg = mid.fg
      /\ back.lane = mid.lane /\ back.thread = mid.thread
  BY <1>4, <1>7, <1>8 DEF Chat
<1>. HIDE DEF back
<1>10. back \in Placed /\ Kept(c, back)
  BY <1>1, <1>9, Frame, SameThread
<1>. QED  BY <1>2, <1>10, DriveQueuedKept
=============================================================================
