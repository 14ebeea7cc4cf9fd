--------------------------- MODULE SteeringProofs ---------------------------
(***************************************************************************)
(* Proofs about steering, for every set of inputs and directions and any   *)
(* number of timeouts, broken connections and restarts.                    *)
(***************************************************************************)
EXTENDS Steering, SequenceTheorems, WellFoundedInduction, TLAPS

Turns == [op : Ops \union {None}, consumed : BOOLEAN]
Effects == {"none", "pending", "dispatched", "accepted", "consumed", "completed",
            "ambiguous", "failed"}
Chats == [fg : Turns, pending : Seq(Pending), effect : [Steers -> Effects],
          ledger : Seq(Row), staged : SUBSET Staged, queue : Seq(Agents)]

(***************************************************************************)
(* The inductive invariant: the chat.  c is the chat.                      *)
(***************************************************************************)
\* The place of an operation in the order of directions, 0 if it is none.
At(s) == SelectInSeq(steered, LAMBDA t : t = s)

Waiting(c) == OpsOf(c.pending)
InLedger(c, s) == \E i \in DOMAIN c.ledger : c.ledger[i].op = s
Queued(c) == ToSet(c.queue) \union begun

\* The effect of a direction says where it is.
Owned(c) == \A s \in Steers :
    /\ s \in Waiting(c) =>
          c.effect[s] \in {"pending", "dispatched", "accepted", "ambiguous"} /\ ~InLedger(c, s)
    /\ InLedger(c, s) => c.effect[s] \in {"consumed", "completed", "ambiguous"}
    /\ s \in Queued(c) => c.effect[s] = "completed"
    /\ c.effect[s] \notin {"none", "failed"} =>
          s \in Waiting(c) \/ InLedger(c, s) \/ s \in Queued(c)
    /\ s \in Staged => (c.effect[s] \in {"none", "failed"} <=> s \in c.staged)

\* No direction has two rows.
Once(c) == \A i, j \in DOMAIN c.ledger :
    c.ledger[i].op = c.ledger[j].op /\ c.ledger[i].op \in Steers => i = j

\* The queue has no direction twice and none that was a turn or has a row.
Lined(c) ==
    /\ \A i, j \in DOMAIN c.queue : c.queue[i] = c.queue[j] => i = j
    /\ \A i \in DOMAIN c.queue : c.queue[i] \notin begun /\ ~InLedger(c, c.queue[i])

\* What waits waits for the running turn, and that was begun.
InTurn(c) ==
    /\ \A i \in DOMAIN c.pending : c.pending[i].turn = c.fg.op
    /\ Running(c) => c.fg.op \in begun

\* Rows of directions come in the order these were given, before what waits.
Ordered(c) ==
    /\ \A i \in DOMAIN c.pending : c.pending[i].op \in ToSet(steered)
    /\ \A i, j \in DOMAIN c.pending : i < j => At(c.pending[i].op) < At(c.pending[j].op)
    /\ \A i \in DOMAIN c.ledger : c.ledger[i].state # "input" =>
          /\ c.ledger[i].op \in ToSet(steered)
          /\ \A j \in DOMAIN c.ledger :
                j > i /\ c.ledger[j].state # "input" => At(c.ledger[i].op) < At(c.ledger[j].op)
          /\ \A j \in DOMAIN c.pending : At(c.ledger[i].op) < At(c.pending[j].op)

\* The input of a turn has its row before the directions of the turn.
InputFirst(c) ==
    /\ c.fg.consumed /\ c.fg.op \in Inputs => InLedger(c, c.fg.op)
    /\ \A i \in DOMAIN c.ledger : c.ledger[i].state # "input" /\ c.ledger[i].turn \in Inputs =>
          \E j \in DOMAIN c.ledger : j < i /\ c.ledger[j].op = c.ledger[i].turn

\* Who vouches for a direction that is shown as applied.
VouchedFor(s) == s \in ToSet(taken) \/ \E t \in ToSet(taken) \cap Steers : At(s) < At(t)
Vouched(c) == \A i \in DOMAIN c.ledger :
    c.ledger[i].state = "applied" => VouchedFor(c.ledger[i].op)

Core(c) == /\ Owned(c) /\ Once(c) /\ Lined(c) /\ InTurn(c)
           /\ Ordered(c) /\ InputFirst(c) /\ Vouched(c)

\* A direction that is a turn of its own has no row while it runs.
Unwritten(c) == c.fg.op \in Steers => ~InLedger(c, c.fg.op)

(***************************************************************************)
(* The inductive invariant: the calls, the provider and its events.        *)
(***************************************************************************)
\* A call is one of a direction that was sent once and is not over.
Busy == \A s \in Steers : call[s] # "idle" =>
    chat.effect[s] \notin {"none", "pending", "failed"} /\ s \notin Queued(chat)

\* Where a direction is on its way to the provider; no one knows of one that
\* was cut.
Nowhere(s) == s \notin asked \union held \union ToSet(taken)
Flow == \A s \in Steers \ cut :
    /\ \/ chat.effect[s] \in {"none", "pending", "failed"}
       \/ call[s] \in {"claimed", "refused"} \/ s \in ToSet(chat.queue)
       => Nowhere(s)
    /\ s \in begun => s \notin asked \union held
    /\ s \in asked => s \notin held
    /\ s \in asked \union held => s \notin ToSet(taken)

\* The running job and what was taken.
Worked ==
    /\ \A i, j \in DOMAIN taken : taken[i] = taken[j] => i = j \/ taken[i] \in cut
    /\ ToSet(taken) \cap Inputs \subseteq begun
    /\ job.op = None => job = NoJob
    /\ job # NoJob => job.op \in begun
    /\ job # NoJob /\ ~job.input => job.op \notin ToSet(taken) \/ job.op \in cut
    /\ job.marks \subseteq ToSet(taken)

\* The events tell what was taken.
Streamed == \A i \in DOMAIN events :
    /\ events[i].kind = "steer" => events[i].op \in Steers \cap ToSet(taken)
    /\ events[i].kind = "end" => events[i].op \in begun
    /\ events[i].marks \subseteq ToSet(taken)

\* The order of directions names each of them once.
Given ==
    /\ \A i, j \in DOMAIN steered : steered[i] = steered[j] => i = j
    /\ \A s \in Steers : s \in ToSet(steered) <=> chat.effect[s] # "none"
    /\ (asked \union held \union ToSet(taken)) \cap Steers \subseteq ToSet(steered)

Provider == Busy /\ Flow /\ Worked /\ Streamed /\ Given
Inv == TypeOK /\ Core(chat) /\ Unwritten(chat) /\ Provider
(***************************************************************************)
(* Sequences.                                                              *)
(***************************************************************************)
\* A set of naturals that is not empty has a least element.
LEMMA Least ==
    ASSUME NEW T \in SUBSET Nat, T # {}
    PROVE  \E x \in T : \A y \in T : x <= y
<1>. DEFINE R == OpToRel(<, Nat)
<1>1. IsWellFoundedOn(R, Nat)
  BY NatLessThanWellFounded
<1>2. ASSUME NEW x \in Nat, NEW y \in Nat, y < x
      PROVE  <<y, x>> \in R
  BY <1>2 DEF OpToRel
<1>. HIDE DEF R
<1>3. PICK x \in T : \A y \in T : ~(<<y, x>> \in R)
  BY <1>1, WFMin
<1>4. ASSUME NEW y \in T  PROVE x <= y
  <2>1. x \in Nat /\ y \in Nat
    OBVIOUS
  <2>2. ~(y < x)
    BY <1>2, <1>3, <2>1
  <2>. QED  BY <2>1, <2>2
<1>. QED  BY <1>4

LEMMA MinIs ==
    ASSUME NEW T \in SUBSET Nat, T # {}
    PROVE  Min(T) \in T /\ \A y \in T : Min(T) <= y
<1>1. \E x \in T : \A y \in T : x <= y
  BY Least
<1>. QED  BY <1>1 DEF Min

\* The place of a pending direction is that of its first entry.
LEMMA PlaceIs ==
    ASSUME NEW c \in Chats, NEW s
    PROVE  /\ Place(c, s) \in 0..Len(c.pending)
           /\ Place(c, s) # 0 => c.pending[Place(c, s)].op = s
           /\ \A i \in DOMAIN c.pending : c.pending[i].op = s => Place(c, s) # 0 /\ Place(c, s) <= i
<1>. DEFINE I == {i \in 1..Len(c.pending) : c.pending[i].op = s}
<1>1. Place(c, s) = IF I # {} THEN Min(I) ELSE 0
  BY DEF Place, SelectInSeq
<1>2. c.pending \in Seq(Pending) /\ Len(c.pending) \in Nat /\ DOMAIN c.pending = 1..Len(c.pending)
  BY DEF Chats
<1>3. I \in SUBSET Nat
  BY <1>2
<1>4. I # {} => Min(I) \in I /\ \A y \in I : Min(I) <= y
  BY <1>3, MinIs
<1>5. \A i : i \in I <=> i \in 1..Len(c.pending) /\ c.pending[i].op = s
  OBVIOUS
<1>. HIDE DEF I
<1>6. Place(c, s) # 0 => Place(c, s) \in I
  BY <1>1, <1>4
<1>7. \A i \in I : Place(c, s) # 0 /\ Place(c, s) <= i
  <2>1. SUFFICES ASSUME NEW i \in I  PROVE Place(c, s) # 0 /\ Place(c, s) <= i
    OBVIOUS
  <2>2. Place(c, s) \in I /\ Place(c, s) <= i
    BY <1>1, <1>4
  <2>. QED  BY <1>2, <1>5, <2>2
<1>. QED  BY <1>2, <1>5, <1>6, <1>7

LEMMA FirstIs ==
    ASSUME NEW S, NEW seq \in Seq(S), NEW s, NEW k, NEW I,
           \A i : i \in I <=> i \in 1..Len(seq) /\ seq[i] = s,
           k = IF I # {} THEN Min(I) ELSE 0
    PROVE  /\ k \in 0..Len(seq)
           /\ k # 0 => seq[k] = s
           /\ \A i \in DOMAIN seq : seq[i] = s => k # 0 /\ k <= i
<1>2. Len(seq) \in Nat /\ DOMAIN seq = 1..Len(seq)
  OBVIOUS
<1>3. I \in SUBSET Nat
  BY <1>2
<1>4. I # {} => Min(I) \in I /\ \A y \in I : Min(I) <= y
  BY <1>3, MinIs
<1>5. CASE I = {}
  <2>1. k = 0 /\ \A i \in DOMAIN seq : seq[i] # s
    BY <1>2, <1>5
  <2>. QED  BY <1>2, <2>1
<1>6. CASE I # {}
  <2>1. k \in I /\ \A y \in I : k <= y
    BY <1>4, <1>6
  <2>2. k \in 1..Len(seq) /\ seq[k] = s
    BY <2>1
  <2>3. \A i \in DOMAIN seq : seq[i] = s => i \in I
    BY <1>2
  <2>4. \A i \in DOMAIN seq : seq[i] = s => k <= i
    BY <2>1, <2>3
  <2>5. k \in 0..Len(seq) /\ k # 0
    BY <1>2, <2>2
  <2>. QED  BY <2>2, <2>4, <2>5
<1>. QED  BY <1>5, <1>6

LEMMA AtIs ==
    ASSUME steered \in Seq(Steers), NEW s
    PROVE  /\ At(s) \in 0..Len(steered)
           /\ At(s) # 0 => steered[At(s)] = s
           /\ \A i \in DOMAIN steered : steered[i] = s => At(s) # 0 /\ At(s) <= i
<1>. DEFINE I == {i \in 1..Len(steered) : steered[i] = s}
<1>1. At(s) = IF I # {} THEN Min(I) ELSE 0
  BY DEF At, SelectInSeq
<1>. HIDE DEF I
<1>2. \A i : i \in I <=> i \in 1..Len(steered) /\ steered[i] = s
  BY DEF I
<1>. QED  BY <1>1, <1>2, FirstIs

\* A pending direction waits.
LEMMA WaitingIs ==
    ASSUME NEW c \in Chats, NEW s
    PROVE  /\ s \in Waiting(c) <=> \E i \in DOMAIN c.pending : c.pending[i].op = s
           /\ IsPending(c, s) <=> s \in Waiting(c)
           /\ IsPending(c, s) => Place(c, s) \in DOMAIN c.pending /\ c.pending[Place(c, s)].op = s
           /\ DOMAIN c.pending = 1..Len(c.pending) /\ Len(c.pending) \in Nat
<1>1. s \in Waiting(c) <=> \E i \in DOMAIN c.pending : c.pending[i].op = s
  BY DEF Waiting, OpsOf, ToSet
<1>2. DOMAIN c.pending = 1..Len(c.pending) /\ Len(c.pending) \in Nat
  BY DEF Chats
<1>. QED  BY <1>1, <1>2, PlaceIs DEF IsPending

LEMMA AppendSet ==
    ASSUME NEW S, NEW seq \in Seq(S), NEW e \in S
    PROVE  /\ Append(seq, e) \in Seq(S) /\ DOMAIN seq = 1..Len(seq) /\ Len(seq) \in Nat
           /\ DOMAIN Append(seq, e) = 1..(Len(seq) + 1)
           /\ \A i \in DOMAIN seq : Append(seq, e)[i] = seq[i]
           /\ Append(seq, e)[Len(seq) + 1] = e
           /\ ToSet(Append(seq, e)) = ToSet(seq) \union {e}
<1>1. /\ Append(seq, e) \in Seq(S) /\ DOMAIN seq = 1..Len(seq) /\ Len(seq) \in Nat
      /\ DOMAIN Append(seq, e) = 1..(Len(seq) + 1)
      /\ \A i \in DOMAIN seq : Append(seq, e)[i] = seq[i]
      /\ Append(seq, e)[Len(seq) + 1] = e
  OBVIOUS
<1>. DEFINE new == Append(seq, e)
<1>2. /\ DOMAIN new = 1..(Len(seq) + 1) /\ new[Len(seq) + 1] = e
      /\ \A i \in DOMAIN seq : new[i] = seq[i]
  BY <1>1
<1>. HIDE DEF new
<1>3. ToSet(new) = ToSet(seq) \union {e}
  <2>1. ASSUME NEW x \in ToSet(new)  PROVE x \in ToSet(seq) \union {e}
    <3>1. PICK i \in DOMAIN new : new[i] = x
      BY DEF ToSet
    <3>2. i = Len(seq) + 1 \/ i \in DOMAIN seq
      BY <1>1, <1>2
    <3>. QED  BY <1>2, <3>1, <3>2 DEF ToSet
  <2>2. ASSUME NEW x \in ToSet(seq) \union {e}  PROVE x \in ToSet(new)
    <3>1. CASE x = e
      <4>1. Len(seq) + 1 \in DOMAIN new
        BY <1>1, <1>2
      <4>. QED  BY <1>2, <3>1, <4>1 DEF ToSet
    <3>2. CASE x \in ToSet(seq)
      <4>1. PICK i \in DOMAIN seq : seq[i] = x
        BY <3>2 DEF ToSet
      <4>2. i \in DOMAIN new
        BY <1>1, <1>2
      <4>. QED  BY <1>2, <4>1, <4>2 DEF ToSet
    <3>. QED  BY <3>1, <3>2
  <2>. QED  BY <2>1, <2>2
<1>. QED  BY <1>1, <1>3 DEF new

\* A direction of the order keeps its place when another is recorded.
LEMMA AtAppended ==
    ASSUME steered \in Seq(Steers), \A i, j \in DOMAIN steered : steered[i] = steered[j] => i = j,
           NEW s \in Steers, s \notin ToSet(steered), steered' = Append(steered, s)
    PROVE  /\ \A i, j \in DOMAIN steered' : steered'[i] = steered'[j] => i = j
           /\ \A t \in ToSet(steered) : At(t)' = At(t) /\ At(t) \in 1..Len(steered)
           /\ At(s)' = Len(steered) + 1 /\ ToSet(steered') = ToSet(steered) \union {s}
<1>. DEFINE n == Len(steered)
<1>1. /\ steered' \in Seq(Steers) /\ DOMAIN steered = 1..n /\ n \in Nat
      /\ DOMAIN steered' = 1..(n + 1) /\ \A i \in DOMAIN steered : steered'[i] = steered[i]
      /\ steered'[n + 1] = s /\ ToSet(steered') = ToSet(steered) \union {s}
  BY AppendSet
<1>2. \A i \in DOMAIN steered : steered[i] \in ToSet(steered)
  BY DEF ToSet
<1>3. \A i, j \in DOMAIN steered' : steered'[i] = steered'[j] => i = j
  <2>1. \A i \in DOMAIN steered' : i \in DOMAIN steered \/ i = n + 1
    BY <1>1
  <2>. QED  BY <1>1, <1>2, <2>1
<1>4. ASSUME NEW t, NEW i \in DOMAIN steered', steered'[i] = t  PROVE At(t)' = i
  <2>. DEFINE found == {k \in 1..Len(steered') : steered'[k] = t}
              k == At(t)'
  <2>1. k = IF found # {} THEN Min(found) ELSE 0
    BY DEF At, SelectInSeq
  <2>2. found \in SUBSET Nat /\ i \in found /\ found \subseteq DOMAIN steered'
    BY <1>1, <1>4
  <2>3. Min(found) \in found
    BY <2>2, MinIs
  <2>4. k \in DOMAIN steered' /\ steered'[k] = t
    BY <2>1, <2>2, <2>3
  <2>. QED  BY <1>3, <1>4, <2>4
<1>5. ASSUME NEW t \in ToSet(steered)  PROVE At(t)' = At(t) /\ At(t) \in 1..n
  <2>1. PICK i \in DOMAIN steered : steered[i] = t
    BY DEF ToSet
  <2>2. At(t) \in 0..n /\ (At(t) # 0 => steered[At(t)] = t) /\ At(t) # 0
    BY <2>1, AtIs
  <2>3. At(t) \in DOMAIN steered
    BY <1>1, <2>2
  <2>4. At(t) = i
    BY <2>1, <2>2, <2>3
  <2>. QED  BY <1>1, <1>4, <2>1, <2>4
<1>6. At(s)' = n + 1
  <2>1. n + 1 \in DOMAIN steered'
    BY <1>1
  <2>. QED  BY <1>1, <1>4, <2>1
<1>. QED  BY <1>1, <1>3, <1>5, <1>6

(***************************************************************************)
(* What the commands make of the chat.                                     *)
(***************************************************************************)
\* The order, the turns begun and what was taken name operations.
Context == steered \in Seq(Steers) /\ begun \subseteq Ops /\ taken \in Seq(Ops)

LEMMA Names ==
    /\ Inputs \cap Steers = {} /\ None \notin Ops /\ Agents \subseteq Steers /\ Staged \subseteq Steers
    /\ Agents \cap Staged = {} /\ Steers \subseteq Ops /\ Inputs \subseteq Ops
    /\ \A op \in Ops : op \in Inputs \/ op \in Steers
BY SteeringAssumption DEF Ops

LEMMA ChatIs ==
    ASSUME NEW c \in Chats
    PROVE  /\ c.fg \in Turns /\ c.fg.op \in Ops \union {None} /\ c.fg.consumed \in BOOLEAN
           /\ c.pending \in Seq(Pending) /\ Len(c.pending) \in Nat
           /\ DOMAIN c.pending = 1..Len(c.pending)
           /\ \A i \in DOMAIN c.pending : c.pending[i] \in Pending /\ c.pending[i].op \in Steers
                 /\ c.pending[i].turn \in Ops /\ c.pending[i].status \in Statuses
           /\ c.effect \in [Steers -> Effects]
           /\ c.ledger \in Seq(Row) /\ Len(c.ledger) \in Nat
           /\ DOMAIN c.ledger = 1..Len(c.ledger)
           /\ \A i \in DOMAIN c.ledger : c.ledger[i] \in Row /\ c.ledger[i].op \in Ops
                 /\ c.ledger[i].turn \in Ops
                 /\ c.ledger[i].state \in {"input", "applied", "accepted", "uncertain"}
           /\ c.staged \in SUBSET Staged /\ c.queue \in Seq(Agents) /\ Len(c.queue) \in Nat
           /\ DOMAIN c.queue = 1..Len(c.queue) /\ \A i \in DOMAIN c.queue : c.queue[i] \in Agents
<1>1. /\ c.fg \in Turns /\ c.pending \in Seq(Pending) /\ c.effect \in [Steers -> Effects]
      /\ c.ledger \in Seq(Row) /\ c.staged \in SUBSET Staged /\ c.queue \in Seq(Agents)
  BY DEF Chats
<1>2. Len(c.pending) \in Nat /\ DOMAIN c.pending = 1..Len(c.pending)
      /\ \A i \in DOMAIN c.pending : c.pending[i] \in Pending
  BY <1>1
<1>3. Len(c.ledger) \in Nat /\ DOMAIN c.ledger = 1..Len(c.ledger)
      /\ \A i \in DOMAIN c.ledger : c.ledger[i] \in Row
  BY <1>1
<1>4. Len(c.queue) \in Nat /\ DOMAIN c.queue = 1..Len(c.queue)
      /\ \A i \in DOMAIN c.queue : c.queue[i] \in Agents
  BY <1>1
<1>. QED  BY <1>1, <1>2, <1>3, <1>4 DEF Turns, Pending, Row

\* Directions that wait are told apart by their place.
LEMMA Apart ==
    ASSUME Context, NEW c \in Chats, Ordered(c), NEW i \in DOMAIN c.pending,
           NEW j \in DOMAIN c.pending, c.pending[i].op = c.pending[j].op
    PROVE  i = j
<1>1. i \in Nat /\ j \in Nat
  BY ChatIs
<1>2. At(c.pending[i].op) \in Nat
  BY AtIs DEF Context
<1>3. ~(i < j) /\ ~(j < i)
  BY <1>2 DEF Ordered
<1>. QED  BY <1>1, <1>3

\* A change of effects and statuses leaves the order as it was.
LEMMA SameRows ==
    ASSUME NEW c, NEW d, Core(c), Owned(d),
           d.fg = c.fg, d.ledger = c.ledger, d.queue = c.queue,
           DOMAIN d.pending = DOMAIN c.pending,
           \A i \in DOMAIN c.pending : d.pending[i].op = c.pending[i].op
                                       /\ d.pending[i].turn = c.pending[i].turn
    PROVE  Core(d)
<1>1. Once(d) /\ Lined(d) /\ InTurn(d) /\ InputFirst(d) /\ Vouched(d)
  BY DEF Core, Once, Lined, InTurn, Running, InputFirst, Vouched, InLedger
<1>2. Ordered(d)
  BY DEF Core, Ordered
<1>. QED  BY <1>1, <1>2 DEF Core

\* An answer changes the status of a pending direction.
Answered(c, s, status, effect) ==
    [c EXCEPT !.pending[Place(c, s)].status = status, !.effect[s] = effect]

LEMMA AnsweredIs ==
    ASSUME NEW c \in Chats, NEW s \in Steers, IsPending(c, s), NEW status \in Statuses,
           NEW effect \in Effects
    PROVE  LET d == Answered(c, s, status, effect)
           IN /\ d \in Chats /\ d.fg = c.fg /\ d.ledger = c.ledger /\ d.staged = c.staged
              /\ d.queue = c.queue /\ DOMAIN d.pending = DOMAIN c.pending
              /\ \A i \in DOMAIN c.pending : d.pending[i].op = c.pending[i].op
                                             /\ d.pending[i].turn = c.pending[i].turn
              /\ d.effect[s] = effect /\ \A t \in Steers \ {s} : d.effect[t] = c.effect[t]
<1>. DEFINE d == Answered(c, s, status, effect)
            p == Place(c, s)
            q == [c.pending EXCEPT ![p].status = status]
<1>1. p \in DOMAIN c.pending
  BY WaitingIs
<1>2. d.pending = q /\ d.fg = c.fg /\ d.ledger = c.ledger /\ d.staged = c.staged
      /\ d.queue = c.queue /\ d.effect = [c.effect EXCEPT ![s] = effect]
  BY DEF Answered, Chats
<1>3. c.pending[p] \in Pending /\ c.pending \in Seq(Pending)
  BY <1>1, ChatIs
<1>4. [c.pending[p] EXCEPT !.status = status] \in Pending
      /\ [c.pending[p] EXCEPT !.status = status].op = c.pending[p].op
      /\ [c.pending[p] EXCEPT !.status = status].turn = c.pending[p].turn
  BY <1>3 DEF Pending
<1>5. q \in Seq(Pending) /\ DOMAIN q = DOMAIN c.pending
      /\ \A i \in DOMAIN c.pending : q[i] = IF i = p THEN [c.pending[p] EXCEPT !.status = status]
                                            ELSE c.pending[i]
  <2>1. q = [c.pending EXCEPT ![p] = [c.pending[p] EXCEPT !.status = status]]
    OBVIOUS
  <2>2. DOMAIN c.pending = 1..Len(c.pending)
    BY ChatIs
  <2>3. p \in 1..Len(c.pending)
    BY <1>1, <2>2
  <2>. HIDE DEF p, q
  <2>4. /\ q \in Seq(Pending) /\ Len(q) = Len(c.pending)
        /\ \A i \in 1..Len(c.pending) : q[i] = IF i = p THEN [c.pending[p] EXCEPT !.status = status]
                                               ELSE c.pending[i]
    BY <1>3, <1>4, <2>1, <2>3, ExceptSeq
  <2>. QED  BY <2>2, <2>4
<1>6. [c.effect EXCEPT ![s] = effect] \in [Steers -> Effects]
  BY ChatIs
<1>7. d \in Chats
  <2>1. d = [c EXCEPT !.pending = q, !.effect = [c.effect EXCEPT ![s] = effect]]
    BY DEF Answered, Chats
  <2>. HIDE DEF q, d
  <2>. QED  BY <1>5, <1>6, <2>1 DEF Chats
<1>8. d.effect[s] = effect /\ \A t \in Steers \ {s} : d.effect[t] = c.effect[t]
  BY <1>2, ChatIs
<1>. HIDE DEF q, p
<1>9. \A i \in DOMAIN c.pending : d.pending[i].op = c.pending[i].op
                                  /\ d.pending[i].turn = c.pending[i].turn
  BY <1>2, <1>4, <1>5
<1>. QED  BY <1>2, <1>5, <1>7, <1>8, <1>9

\* Sound: what each command keeps.
Sound(c) == c \in Chats /\ Core(c) /\ Unwritten(c)

LEMMA AnsweredSound ==
    ASSUME NEW c, Sound(c), NEW s \in Steers, IsPending(c, s), NEW status \in Statuses,
           NEW effect \in {"dispatched", "accepted", "ambiguous"}
    PROVE  Sound(Answered(c, s, status, effect))
<1>. DEFINE d == Answered(c, s, status, effect)
<1>1. c \in Chats /\ effect \in Effects
  BY DEF Sound, Effects
<1>2. /\ d \in Chats /\ d.fg = c.fg /\ d.ledger = c.ledger /\ d.staged = c.staged
      /\ d.queue = c.queue /\ DOMAIN d.pending = DOMAIN c.pending
      /\ \A i \in DOMAIN c.pending : d.pending[i].op = c.pending[i].op
                                     /\ d.pending[i].turn = c.pending[i].turn
      /\ d.effect[s] = effect /\ \A t \in Steers \ {s} : d.effect[t] = c.effect[t]
  BY <1>1, AnsweredIs
<1>. HIDE DEF d
<1>3. s \in Waiting(c)
  BY <1>1, WaitingIs
<1>4. \A t : t \in Waiting(d) <=> t \in Waiting(c)
  BY <1>1, <1>2, WaitingIs
<1>5. Owned(d)
  <2>1. \A t : (InLedger(d, t) <=> InLedger(c, t)) /\ (t \in Queued(d) <=> t \in Queued(c))
    BY <1>2 DEF InLedger, Queued
  <2>2. c.effect[s] \notin {"none", "failed"}
    BY <1>3 DEF Sound, Core, Owned
  <2>. QED  BY <1>2, <1>3, <1>4, <2>1, <2>2 DEF Sound, Core, Owned
<1>6. Core(d)
  BY <1>2, <1>5, SameRows DEF Sound
<1>7. Unwritten(d)
  BY <1>2 DEF Sound, Unwritten, InLedger
<1>. QED  BY <1>2, <1>6, <1>7 DEF Sound, d


\* What an effect may become while the direction stays where it is.
Becomes(old, new) ==
    \/ new = old
    \/ old \in {"pending", "dispatched", "accepted"} /\ new \in {"dispatched", "ambiguous"}
    \/ old = "consumed" /\ new \in {"completed", "ambiguous"}

LEMMA EffectSound ==
    ASSUME NEW c, Sound(c), NEW f \in [Steers -> Effects],
           \A s \in Steers : Becomes(c.effect[s], f[s])
    PROVE  LET d == [c EXCEPT !.effect = f]
           IN Sound(d) /\ d.effect = f /\ d.fg = c.fg /\ d.pending = c.pending
              /\ d.ledger = c.ledger /\ d.staged = c.staged /\ d.queue = c.queue
<1>. DEFINE d == [c EXCEPT !.effect = f]
<1>1. c \in Chats
  BY DEF Sound
<1>2. /\ d \in Chats /\ d.effect = f /\ d.fg = c.fg /\ d.pending = c.pending
      /\ d.ledger = c.ledger /\ d.staged = c.staged /\ d.queue = c.queue
  BY <1>1 DEF Chats
<1>. HIDE DEF d
<1>3. Owned(d)
  <2>1. \A t : (InLedger(d, t) <=> InLedger(c, t)) /\ (t \in Queued(d) <=> t \in Queued(c))
               /\ (t \in Waiting(d) <=> t \in Waiting(c))
    BY <1>2 DEF InLedger, Queued, Waiting
  <2>2. ASSUME NEW s \in Steers
        PROVE /\ s \in Waiting(d) =>
                 d.effect[s] \in {"pending", "dispatched", "accepted", "ambiguous"} /\ ~InLedger(d, s)
              /\ InLedger(d, s) => d.effect[s] \in {"consumed", "completed", "ambiguous"}
              /\ s \in Queued(d) => d.effect[s] = "completed"
              /\ d.effect[s] \notin {"none", "failed"} =>
                    s \in Waiting(d) \/ InLedger(d, s) \/ s \in Queued(d)
              /\ s \in Staged => (d.effect[s] \in {"none", "failed"} <=> s \in d.staged)
    <3>1. Becomes(c.effect[s], d.effect[s]) /\ d.staged = c.staged
      BY <1>2
    <3>2. /\ s \in Waiting(c) =>
             c.effect[s] \in {"pending", "dispatched", "accepted", "ambiguous"} /\ ~InLedger(c, s)
          /\ InLedger(c, s) => c.effect[s] \in {"consumed", "completed", "ambiguous"}
          /\ s \in Queued(c) => c.effect[s] = "completed"
          /\ c.effect[s] \notin {"none", "failed"} =>
                s \in Waiting(c) \/ InLedger(c, s) \/ s \in Queued(c)
          /\ s \in Staged => (c.effect[s] \in {"none", "failed"} <=> s \in c.staged)
      BY DEF Sound, Core, Owned
    <3>. QED  BY <2>1, <3>1, <3>2 DEF Becomes
  <2>. QED  BY <2>2 DEF Owned
<1>4. Core(d)
  BY <1>2, <1>3, SameRows DEF Sound
<1>5. Unwritten(d)
  BY <1>2 DEF Sound, Unwritten, InLedger
<1>. QED  BY <1>2, <1>4, <1>5 DEF Sound, d

\* The row of an input.
InputRow(op) == [op |-> op, turn |-> op, state |-> "input"]

\* The input of a turn gets its row.
LEMMA InputRowCore ==
    ASSUME Context, NEW c, Sound(c), Running(c), NEW d \in Chats,
           d.ledger = Append(c.ledger, InputRow(c.fg.op)), d.fg.op = c.fg.op,
           d.pending = c.pending, d.effect = c.effect, d.staged = c.staged, d.queue = c.queue
    PROVE  Core(d) /\ InLedger(d, c.fg.op)
           /\ \A s : InLedger(c, s) => InLedger(d, s)
<1>. DEFINE op == c.fg.op
            n == Len(c.ledger)
<1>1. c \in Chats /\ Core(c) /\ Unwritten(c)
  BY DEF Sound
<1>2. op \in Ops /\ op \in begun
  BY <1>1, ChatIs DEF Running, Core, InTurn
<1>3. InputRow(op) \in Row /\ InputRow(op).op = op /\ InputRow(op).state = "input"
  BY <1>2 DEF InputRow, Row
<1>4. /\ n \in Nat /\ DOMAIN c.ledger = 1..n /\ DOMAIN d.ledger = 1..(n + 1)
      /\ \A i \in DOMAIN c.ledger : d.ledger[i] = c.ledger[i]
      /\ d.ledger[n + 1].op = op /\ d.ledger[n + 1].state = "input"
  BY <1>1, <1>3, ChatIs, AppendSet
<1>. HIDE DEF op, n
<1>5. \A i \in DOMAIN d.ledger : i \in DOMAIN c.ledger \/ i = n + 1
  BY <1>4
<1>6. \A i \in DOMAIN c.ledger : i \in DOMAIN d.ledger /\ i < n + 1 /\ i \in Nat
  BY <1>4
<1>7. n + 1 \in DOMAIN d.ledger
  BY <1>4
<1>8. \A s : InLedger(d, s) <=> InLedger(c, s) \/ s = op
  BY <1>4, <1>5, <1>6, <1>7 DEF InLedger
<1>9. op \in Steers => ~InLedger(c, op)
  BY <1>1 DEF Unwritten, op
<1>10. Owned(d)
  <2>1. \A t : (t \in Queued(d) <=> t \in Queued(c)) /\ (t \in Waiting(d) <=> t \in Waiting(c))
    BY DEF Queued, Waiting
  <2>2. op \in Queued(c)
    BY <1>2 DEF Queued
  <2>. QED  BY <1>1, <1>8, <2>1, <2>2 DEF Core, Owned
<1>11. Once(d)
  BY <1>1, <1>4, <1>5, <1>9 DEF Core, Once, InLedger
<1>12. Lined(d)
  BY <1>1, <1>2, <1>8 DEF Core, Lined
<1>13. InTurn(d)
  BY <1>1 DEF Core, InTurn, Running
<1>14. Ordered(d)
  <2>1. \A i \in DOMAIN d.ledger : d.ledger[i].state # "input" => i \in DOMAIN c.ledger
    BY <1>4, <1>5
  <2>. QED  BY <1>1, <1>4, <2>1 DEF Core, Ordered
<1>15. InputFirst(d)
  <2>1. \A i \in DOMAIN d.ledger : d.ledger[i].state # "input" => i \in DOMAIN c.ledger
    BY <1>4, <1>5
  <2>2. d.fg.op = op
    BY DEF op
  <2>. QED  BY <1>1, <1>4, <1>6, <1>8, <2>1, <2>2 DEF Core, InputFirst
<1>16. Vouched(d)
  BY <1>1, <1>4, <1>5 DEF Core, Vouched
<1>. QED  BY <1>8, <1>10, <1>11, <1>12, <1>13, <1>14, <1>15, <1>16 DEF Core, op

LEMMA InputConsumedSound ==
    ASSUME Context, NEW c, Sound(c), Running(c)
    PROVE  LET d == InputConsumed(c)
           IN Sound(d) /\ d.effect = c.effect /\ d.fg.op = c.fg.op /\ d.pending = c.pending
              /\ d.staged = c.staged /\ d.queue = c.queue
              /\ (c.fg.op \in Inputs => InLedger(d, c.fg.op))
<1>. DEFINE d == InputConsumed(c)
<1>1. c \in Chats /\ Core(c) /\ Unwritten(c)
  BY DEF Sound
<1>2. c.fg.op \in Ops /\ c.fg.op \in begun
  BY <1>1, ChatIs DEF Running, Core, InTurn
<1>3. c.fg.op \in Steers => c.effect[c.fg.op] = "completed"
  BY <1>1, <1>2 DEF Core, Owned, Queued
<1>4. CASE d = c
  <2>1. c.fg.op \in Inputs => c.fg.consumed
    <3>1. SUFFICES ASSUME c.fg.op \in Inputs, ~c.fg.consumed  PROVE FALSE
      OBVIOUS
    <3>2. c.fg.op \notin Steers
      BY <3>1, Names
    <3>3. d = [c EXCEPT !.fg.consumed = TRUE,
                   !.ledger = Append(@, [op |-> c.fg.op, turn |-> c.fg.op, state |-> "input"])]
      BY <3>1, <3>2 DEF InputConsumed
    <3>4. d.fg.consumed = TRUE
      BY <1>1, <3>3 DEF Chats, Turns
    <3>. QED  BY <1>4, <3>1, <3>4
  <2>2. c.fg.op \in Inputs => InLedger(c, c.fg.op)
    BY <1>1, <2>1 DEF Core, InputFirst
  <2>. QED  BY <1>4, <2>2
<1>5. CASE d # c
  <2>1. c.fg.op \notin Steers /\ ~c.fg.consumed
    BY <1>3, <1>5 DEF InputConsumed
  <2>2. d = [c EXCEPT !.fg.consumed = TRUE, !.ledger = Append(@, InputRow(c.fg.op))]
    BY <2>1 DEF InputConsumed, InputRow
  <2>3. Append(c.ledger, InputRow(c.fg.op)) \in Seq(Row)
    <3>1. InputRow(c.fg.op) \in Row
      BY <1>2 DEF InputRow, Row
    <3>. QED  BY <1>1, <3>1, ChatIs, AppendSet
  <2>4. /\ d.ledger = Append(c.ledger, InputRow(c.fg.op)) /\ d.fg.op = c.fg.op
        /\ d.pending = c.pending /\ d.effect = c.effect /\ d.staged = c.staged
        /\ d.queue = c.queue
    BY <1>1, <2>2 DEF Chats, Turns
  <2>5. d \in Chats
    BY <1>1, <2>2, <2>3 DEF Chats, Turns
  <2>. HIDE DEF d
  <2>6. Core(d) /\ InLedger(d, c.fg.op)
    BY <2>4, <2>5, InputRowCore
  <2>. QED  BY <2>1, <2>4, <2>5, <2>6 DEF Sound, Unwritten, d
<1>. QED  BY <1>4, <1>5


\* The directions up to a place of the pending list get their rows.
LEMMA SettledCore ==
    ASSUME Context, NEW c \in Chats, Core(c), NEW d \in Chats, NEW k \in 0..Len(c.pending),
           d.fg = c.fg, d.staged = c.staged, d.queue = c.queue,
           Len(d.ledger) = Len(c.ledger) + k,
           \A i \in 1..Len(c.ledger) : d.ledger[i] = c.ledger[i],
           \A i \in 1..k :
              /\ d.ledger[Len(c.ledger) + i].op = c.pending[i].op
              /\ d.ledger[Len(c.ledger) + i].turn = c.pending[i].turn
              /\ d.ledger[Len(c.ledger) + i].state # "input"
              /\ d.ledger[Len(c.ledger) + i].state = "applied" => VouchedFor(c.pending[i].op)
              /\ d.effect[c.pending[i].op] \in {"consumed", "ambiguous"},
           Len(d.pending) = Len(c.pending) - k,
           \A i \in 1..(Len(c.pending) - k) : d.pending[i] = c.pending[i + k],
           \A s \in Steers : (\A i \in 1..k : c.pending[i].op # s) => d.effect[s] = c.effect[s],
           c.fg.op \in Inputs /\ k # 0 => InLedger(c, c.fg.op)
    PROVE  Core(d) /\ (Unwritten(c) => Unwritten(d))
<1>. DEFINE n == Len(c.ledger)
            m == Len(c.pending)
<1>1. /\ n \in Nat /\ m \in Nat /\ k \in Nat /\ k <= m
      /\ DOMAIN c.ledger = 1..n /\ DOMAIN c.pending = 1..m
      /\ DOMAIN d.ledger = 1..(n + k) /\ DOMAIN d.pending = 1..(m - k)
  BY ChatIs
<1>2. /\ \A i \in 1..n : d.ledger[i] = c.ledger[i]
      /\ \A i \in 1..k :
            /\ d.ledger[n + i].op = c.pending[i].op
            /\ d.ledger[n + i].turn = c.pending[i].turn
            /\ d.ledger[n + i].state # "input"
            /\ d.ledger[n + i].state = "applied" => VouchedFor(c.pending[i].op)
      /\ \A i \in 1..(m - k) : d.pending[i] = c.pending[i + k]
  OBVIOUS
<1>. HIDE DEF n, m
<1>3. ASSUME NEW i \in DOMAIN d.ledger  PROVE i \in 1..n \/ \E j \in 1..k : i = n + j
  <2>1. i \in 1..(n + k)
    BY <1>1
  <2>2. i \in 1..n \/ (i - n \in 1..k /\ i = n + (i - n))
    BY <1>1, <2>1
  <2>. QED  BY <2>2
<1>4. \A i \in 1..k : i \in DOMAIN c.pending /\ n + i \in DOMAIN d.ledger
  BY <1>1
<1>5. \A i \in DOMAIN d.pending : i + k \in DOMAIN c.pending /\ i + k \notin 1..k /\ i \in Nat
                                  /\ d.pending[i] = c.pending[i + k]
  <2>1. SUFFICES ASSUME NEW i \in 1..(m - k)
                 PROVE  i + k \in 1..m /\ i + k \notin 1..k /\ i \in Nat
    BY <1>1, <1>2
  <2>. QED  BY <1>1
<1>6. \A i \in 1..n : i \in DOMAIN c.ledger /\ i \in DOMAIN d.ledger /\ i \in Nat
                      /\ \A j \in 1..k : i < n + j
  BY <1>1
<1>7. \A i \in DOMAIN c.pending : i \in 1..k \/ (i - k \in DOMAIN d.pending /\ d.pending[i - k] = c.pending[i])
  <2>1. \A i \in 1..m : i \in 1..k \/ (i - k \in 1..(m - k) /\ (i - k) + k = i)
    BY <1>1
  <2>. QED  BY <1>1, <1>2, <2>1
<1>8. \A s : InLedger(d, s) <=> InLedger(c, s) \/ \E i \in 1..k : c.pending[i].op = s
  <2>1. ASSUME NEW s, InLedger(d, s)  PROVE InLedger(c, s) \/ \E i \in 1..k : c.pending[i].op = s
    <3>1. PICK i \in DOMAIN d.ledger : d.ledger[i].op = s
      BY <2>1 DEF InLedger
    <3>2. CASE i \in 1..n
      BY <1>2, <1>6, <3>1, <3>2 DEF InLedger
    <3>3. ASSUME NEW j \in 1..k, i = n + j  PROVE \E q \in 1..k : c.pending[q].op = s
      BY <1>2, <3>1, <3>3
    <3>. QED  BY <1>3, <3>2, <3>3
  <2>2. ASSUME NEW s, InLedger(c, s)  PROVE InLedger(d, s)
    BY <1>1, <1>2, <1>6, <2>2 DEF InLedger
  <2>3. ASSUME NEW i \in 1..k  PROVE InLedger(d, c.pending[i].op)
    BY <1>2, <1>4 DEF InLedger
  <2>. QED  BY <2>1, <2>2, <2>3
<1>9. \A s : s \in Waiting(d) => s \in Waiting(c) /\ \A i \in 1..k : c.pending[i].op # s
  <2>1. SUFFICES ASSUME NEW s \in Waiting(d)
                 PROVE  s \in Waiting(c) /\ \A i \in 1..k : c.pending[i].op # s
    OBVIOUS
  <2>2. PICK j \in DOMAIN d.pending : d.pending[j].op = s
    BY WaitingIs
  <2>3. j + k \in DOMAIN c.pending /\ c.pending[j + k].op = s
    BY <1>5, <2>2
  <2>4. \A i \in 1..k : c.pending[i].op # s
    <3>1. SUFFICES ASSUME NEW i \in 1..k, c.pending[i].op = s  PROVE FALSE
      OBVIOUS
    <3>2. i \in DOMAIN c.pending /\ Ordered(c)
      BY <1>4 DEF Core
    <3>3. i = j + k
      BY <2>3, <3>1, <3>2, Apart
    <3>. QED  BY <1>5, <3>3
  <2>. QED  BY <2>3, <2>4, WaitingIs
<1>10. \A s : s \in Waiting(c) => s \in Waiting(d) \/ \E i \in 1..k : c.pending[i].op = s
  <2>1. SUFFICES ASSUME NEW s \in Waiting(c)
                 PROVE  s \in Waiting(d) \/ \E i \in 1..k : c.pending[i].op = s
    OBVIOUS
  <2>2. PICK j \in DOMAIN c.pending : c.pending[j].op = s
    BY WaitingIs
  <2>. QED  BY <1>7, <2>2, WaitingIs
<1>11. \A i \in 1..k : c.pending[i].op \in Waiting(c) /\ c.pending[i].op \in Steers
                       /\ c.pending[i].turn = c.fg.op
  BY <1>4, WaitingIs, ChatIs DEF Core, InTurn
<1>12. Owned(d)
  <2>1. ASSUME NEW s \in Steers
        PROVE /\ s \in Waiting(d) =>
                 d.effect[s] \in {"pending", "dispatched", "accepted", "ambiguous"} /\ ~InLedger(d, s)
              /\ InLedger(d, s) => d.effect[s] \in {"consumed", "completed", "ambiguous"}
              /\ s \in Queued(d) => d.effect[s] = "completed"
              /\ d.effect[s] \notin {"none", "failed"} =>
                    s \in Waiting(d) \/ InLedger(d, s) \/ s \in Queued(d)
              /\ s \in Staged => (d.effect[s] \in {"none", "failed"} <=> s \in d.staged)
    <3>1. /\ s \in Waiting(c) =>
             c.effect[s] \in {"pending", "dispatched", "accepted", "ambiguous"} /\ ~InLedger(c, s)
          /\ InLedger(c, s) => c.effect[s] \in {"consumed", "completed", "ambiguous"}
          /\ s \in Queued(c) => c.effect[s] = "completed"
          /\ c.effect[s] \notin {"none", "failed"} =>
                s \in Waiting(c) \/ InLedger(c, s) \/ s \in Queued(c)
          /\ s \in Staged => (c.effect[s] \in {"none", "failed"} <=> s \in c.staged)
      BY DEF Core, Owned
    <3>2. s \in Queued(d) <=> s \in Queued(c)
      BY DEF Queued
    <3>3. CASE \E i \in 1..k : c.pending[i].op = s
      <4>1. d.effect[s] \in {"consumed", "ambiguous"} /\ InLedger(d, s) /\ s \notin Waiting(d)
            /\ s \in Waiting(c)
        BY <1>8, <1>9, <1>11, <3>3
      <4>. QED  BY <3>1, <3>2, <4>1
    <3>4. CASE ~\E i \in 1..k : c.pending[i].op = s
      <4>1. /\ d.effect[s] = c.effect[s] /\ (InLedger(d, s) <=> InLedger(c, s))
            /\ (s \in Waiting(d) <=> s \in Waiting(c))
        BY <1>8, <1>9, <1>10, <3>4
      <4>. QED  BY <3>1, <3>2, <4>1
    <3>. QED  BY <3>3, <3>4
  <2>. QED  BY <2>1 DEF Owned
<1>13. Once(d)
  <2>1. SUFFICES ASSUME NEW i \in DOMAIN d.ledger, NEW j \in DOMAIN d.ledger,
                        d.ledger[i].op = d.ledger[j].op, d.ledger[i].op \in Steers
                 PROVE  i = j
    BY DEF Once
  <2>2. CASE i \in 1..n /\ j \in 1..n
    BY <1>2, <1>6, <2>1, <2>2 DEF Core, Once
  <2>3. \A p \in 1..n, q \in 1..k : d.ledger[p].op # d.ledger[n + q].op
    <3>1. SUFFICES ASSUME NEW p \in 1..n, NEW q \in 1..k, c.ledger[p].op = c.pending[q].op
                   PROVE  FALSE
      BY <1>2
    <3>2. InLedger(c, c.pending[q].op)
      BY <1>6, <3>1 DEF InLedger
    <3>. QED  BY <1>11, <3>2 DEF Core, Owned
  <2>4. ASSUME NEW p \in 1..k, NEW q \in 1..k, i = n + p, j = n + q  PROVE i = j
    <3>1. p \in DOMAIN c.pending /\ q \in DOMAIN c.pending /\ Ordered(c)
      BY <1>4 DEF Core
    <3>2. c.pending[p].op = c.pending[q].op
      BY <1>2, <2>1, <2>4
    <3>3. p = q
      BY <3>1, <3>2, Apart
    <3>. QED  BY <2>4, <3>3
  <2>. QED  BY <1>3, <2>1, <2>2, <2>3, <2>4
<1>14. Lined(d)
  <2>1. ASSUME NEW i \in DOMAIN d.queue  PROVE d.queue[i] \notin begun /\ ~InLedger(d, d.queue[i])
    <3>1. c.queue[i] \notin begun /\ ~InLedger(c, c.queue[i])
      BY <2>1 DEF Core, Lined
    <3>2. c.queue[i] \in Queued(c) /\ c.queue[i] \in Steers
      BY <2>1, ChatIs, Names DEF Queued, ToSet
    <3>3. c.queue[i] \notin Waiting(c)
      BY <3>2 DEF Core, Owned
    <3>. QED  BY <1>8, <1>11, <3>1, <3>3
  <2>. QED  BY <2>1 DEF Core, Lined
<1>15. InTurn(d)
  BY <1>5 DEF Core, InTurn, Running
<1>16. Ordered(d)
  <2>1. \A i \in DOMAIN d.pending : d.pending[i].op \in ToSet(steered)
    BY <1>5 DEF Core, Ordered
  <2>2. \A i, j \in DOMAIN d.pending : i < j => At(d.pending[i].op) < At(d.pending[j].op)
    <3>1. SUFFICES ASSUME NEW i \in DOMAIN d.pending, NEW j \in DOMAIN d.pending, i < j
                   PROVE  At(c.pending[i + k].op) < At(c.pending[j + k].op)
      BY <1>5
    <3>2. i + k < j + k /\ i + k \in DOMAIN c.pending /\ j + k \in DOMAIN c.pending
      BY <1>1, <1>5, <3>1
    <3>. QED  BY <3>2 DEF Core, Ordered
  <2>3. ASSUME NEW i \in DOMAIN d.ledger, d.ledger[i].state # "input"
        PROVE  /\ d.ledger[i].op \in ToSet(steered)
               /\ \A j \in DOMAIN d.ledger :
                     j > i /\ d.ledger[j].state # "input" => At(d.ledger[i].op) < At(d.ledger[j].op)
               /\ \A j \in DOMAIN d.pending : At(d.ledger[i].op) < At(d.pending[j].op)
    <3>1. CASE i \in 1..n
      <4>1. /\ c.ledger[i].op \in ToSet(steered)
            /\ \A j \in DOMAIN c.ledger :
                  j > i /\ c.ledger[j].state # "input" => At(c.ledger[i].op) < At(c.ledger[j].op)
            /\ \A j \in DOMAIN c.pending : At(c.ledger[i].op) < At(c.pending[j].op)
        BY <1>2, <1>6, <2>3, <3>1 DEF Core, Ordered
      <4>2. \A j \in DOMAIN d.ledger :
               j > i /\ d.ledger[j].state # "input" => At(d.ledger[i].op) < At(d.ledger[j].op)
        <5>1. SUFFICES ASSUME NEW j \in DOMAIN d.ledger, j > i, d.ledger[j].state # "input"
                       PROVE  At(c.ledger[i].op) < At(d.ledger[j].op)
          BY <1>2, <3>1
        <5>2. CASE j \in 1..n
          BY <1>2, <1>6, <4>1, <5>1, <5>2
        <5>3. ASSUME NEW q \in 1..k, j = n + q  PROVE At(c.ledger[i].op) < At(d.ledger[j].op)
          <6>1. d.ledger[j].op = c.pending[q].op /\ q \in DOMAIN c.pending
            BY <1>2, <1>4, <5>3
          <6>. QED  BY <4>1, <6>1
        <5>. QED  BY <1>3, <5>2, <5>3
      <4>. QED  BY <1>2, <1>5, <3>1, <4>1, <4>2
    <3>2. ASSUME NEW p \in 1..k, i = n + p
          PROVE  /\ d.ledger[i].op \in ToSet(steered)
                 /\ \A j \in DOMAIN d.ledger :
                       j > i /\ d.ledger[j].state # "input" => At(d.ledger[i].op) < At(d.ledger[j].op)
                 /\ \A j \in DOMAIN d.pending : At(d.ledger[i].op) < At(d.pending[j].op)
      <4>1. p \in DOMAIN c.pending /\ d.ledger[i].op = c.pending[p].op
        BY <1>2, <1>4, <3>2
      <4>2. c.pending[p].op \in ToSet(steered)
            /\ \A q \in DOMAIN c.pending : p < q => At(c.pending[p].op) < At(c.pending[q].op)
        BY <4>1 DEF Core, Ordered
      <4>3. ASSUME NEW j \in DOMAIN d.ledger, j > i
            PROVE  At(d.ledger[i].op) < At(d.ledger[j].op)
        <5>1. PICK q \in 1..k : j = n + q
          <6>1. j \notin 1..n
            BY <1>1, <3>2, <4>3
          <6>. QED  BY <1>3, <6>1
        <5>2. p < q
          BY <1>1, <3>2, <4>3, <5>1
        <5>. QED  BY <1>2, <1>4, <4>1, <4>2, <5>1, <5>2
      <4>4. ASSUME NEW j \in DOMAIN d.pending  PROVE At(d.ledger[i].op) < At(d.pending[j].op)
        <5>1. p < j + k
          BY <1>1
        <5>. QED  BY <1>5, <4>1, <4>2, <5>1
      <4>. QED  BY <4>1, <4>2, <4>3, <4>4
    <3>. QED  BY <1>3, <2>3, <3>1, <3>2
  <2>. QED  BY <2>1, <2>2, <2>3 DEF Ordered
<1>17. InputFirst(d)
  <2>1. c.fg.consumed /\ c.fg.op \in Inputs => InLedger(d, c.fg.op)
    BY <1>8 DEF Core, InputFirst
  <2>2. ASSUME NEW i \in DOMAIN d.ledger, d.ledger[i].state # "input", d.ledger[i].turn \in Inputs
        PROVE  \E j \in DOMAIN d.ledger : j < i /\ d.ledger[j].op = d.ledger[i].turn
    <3>1. CASE i \in 1..n
      <4>1. PICK j \in DOMAIN c.ledger : j < i /\ c.ledger[j].op = c.ledger[i].turn
        BY <1>2, <1>6, <2>2, <3>1 DEF Core, InputFirst
      <4>. QED  BY <1>1, <1>2, <1>6, <3>1, <4>1
    <3>2. ASSUME NEW p \in 1..k, i = n + p
          PROVE  \E j \in DOMAIN d.ledger : j < i /\ d.ledger[j].op = d.ledger[i].turn
      <4>1. d.ledger[i].turn = c.fg.op /\ k # 0
        <5>1. d.ledger[i].turn = c.pending[p].turn /\ c.pending[p].turn = c.fg.op
          BY <1>2, <1>11, <3>2
        <5>. QED  BY <1>1, <5>1
      <4>2. PICK j \in DOMAIN c.ledger : c.ledger[j].op = c.fg.op
        BY <2>2, <4>1 DEF InLedger
      <4>. QED  BY <1>1, <1>2, <1>6, <3>2, <4>1, <4>2
    <3>. QED  BY <1>3, <3>1, <3>2
  <2>. QED  BY <2>1, <2>2 DEF InputFirst
<1>18. Vouched(d)
  <2>1. SUFFICES ASSUME NEW i \in DOMAIN d.ledger, d.ledger[i].state = "applied"
                 PROVE  VouchedFor(d.ledger[i].op)
    BY DEF Vouched
  <2>2. CASE i \in 1..n
    BY <1>2, <1>6, <2>1, <2>2 DEF Core, Vouched
  <2>3. ASSUME NEW p \in 1..k, i = n + p  PROVE VouchedFor(d.ledger[i].op)
    <3>1. d.ledger[n + p].op = c.pending[p].op
          /\ (d.ledger[n + p].state = "applied" => VouchedFor(c.pending[p].op))
      BY <1>2
    <3>. QED  BY <2>1, <2>3, <3>1
  <2>. QED  BY <1>3, <2>2, <2>3
<1>19. Unwritten(c) => Unwritten(d)
  <2>1. SUFFICES ASSUME c.fg.op \in Steers, ~InLedger(c, c.fg.op)  PROVE ~InLedger(d, c.fg.op)
    BY DEF Unwritten
  <2>2. c.fg.op \in begun
    BY <2>1, Names DEF Core, InTurn, Running
  <2>3. c.fg.op \notin Waiting(c)
    BY <2>1, <2>2 DEF Core, Owned, Queued
  <2>. QED  BY <1>8, <1>11, <2>1, <2>3
<1>. QED  BY <1>12, <1>13, <1>14, <1>15, <1>16, <1>17, <1>18, <1>19 DEF Core


\* Both commands that settle directions, up to a place of the pending list.
Settled(c, k, shown, effect) ==
    [c EXCEPT !.pending = SubSeq(c.pending, k + 1, Len(c.pending)),
              !.ledger = c.ledger \o Rows(SubSeq(c.pending, 1, k), shown),
              !.effect = [s \in Steers |-> IF s \in OpsOf(SubSeq(c.pending, 1, k))
                                           THEN effect ELSE c.effect[s]]]

Shown == [Statuses -> {"applied", "accepted", "uncertain"}]

LEMMA SettledIs ==
    ASSUME NEW c \in Chats, NEW k \in 0..Len(c.pending), NEW shown \in Shown,
           NEW effect \in Effects
    PROVE  LET d == Settled(c, k, shown, effect)
           IN /\ d \in Chats /\ d.fg = c.fg /\ d.staged = c.staged /\ d.queue = c.queue
              /\ Len(d.ledger) = Len(c.ledger) + k
              /\ \A i \in 1..Len(c.ledger) : d.ledger[i] = c.ledger[i]
              /\ \A i \in 1..k :
                    /\ d.ledger[Len(c.ledger) + i].op = c.pending[i].op
                    /\ d.ledger[Len(c.ledger) + i].turn = c.pending[i].turn
                    /\ d.ledger[Len(c.ledger) + i].state = shown[c.pending[i].status]
                    /\ c.pending[i].op \in Steers
                    /\ d.effect[c.pending[i].op] = effect
              /\ Len(d.pending) = Len(c.pending) - k
              /\ \A i \in 1..(Len(c.pending) - k) : d.pending[i] = c.pending[i + k]
              /\ \A s \in Steers : (\A i \in 1..k : c.pending[i].op # s) =>
                    d.effect[s] = c.effect[s]
<1>. DEFINE first == SubSeq(c.pending, 1, k)
            rest == SubSeq(c.pending, k + 1, Len(c.pending))
            rows == Rows(first, shown)
            effects == [s \in Steers |-> IF s \in OpsOf(first) THEN effect ELSE c.effect[s]]
            d == Settled(c, k, shown, effect)
<1>1. /\ Len(c.pending) \in Nat /\ k \in Nat /\ k <= Len(c.pending)
      /\ \A i \in 1..Len(c.pending) : c.pending[i] \in Pending /\ c.pending[i].op \in Steers
            /\ c.pending[i].turn \in Ops /\ c.pending[i].status \in Statuses
  BY ChatIs
<1>2. /\ first \in Seq(Pending) /\ Len(first) = k /\ \A i \in 1..k : first[i] = c.pending[i]
  <2>1. /\ 1 \in Int /\ k \in Int /\ \A i \in 1..k : c.pending[i] \in Pending
    BY <1>1
  <2>2. /\ first \in Seq(Pending) /\ Len(first) = IF 1 <= k THEN k - 1 + 1 ELSE 0
        /\ \A i \in 1..(k - 1 + 1) : first[i] = c.pending[1 + i - 1]
    BY <2>1, SubSeqProperties
  <2>. QED  BY <1>1, <2>2
<1>3. /\ rest \in Seq(Pending) /\ Len(rest) = Len(c.pending) - k
      /\ \A i \in 1..(Len(c.pending) - k) : rest[i] = c.pending[i + k]
  <2>. DEFINE m == Len(c.pending)
  <2>1. /\ k + 1 \in Int /\ m \in Int /\ \A i \in (k + 1)..m : c.pending[i] \in Pending
    BY <1>1
  <2>2. /\ rest \in Seq(Pending) /\ Len(rest) = IF k + 1 <= m THEN m - (k + 1) + 1 ELSE 0
        /\ \A i \in 1..(m - (k + 1) + 1) : rest[i] = c.pending[k + 1 + i - 1]
    BY <2>1, SubSeqProperties
  <2>3. m \in Nat /\ k <= m
    BY <1>1
  <2>. HIDE DEF m, rest
  <2>4. Len(rest) = m - k
    BY <1>1, <2>2, <2>3
  <2>5. ASSUME NEW i \in 1..(m - k)  PROVE rest[i] = c.pending[i + k]
    <3>1. i \in 1..(m - (k + 1) + 1) /\ k + 1 + i - 1 = i + k
      BY <1>1, <2>3
    <3>. QED  BY <2>2, <3>1
  <2>. QED  BY <2>2, <2>4, <2>5 DEF m, rest
<1>. HIDE DEF first, rest
<1>4. DOMAIN first = 1..k /\ \A i \in 1..k : first[i] = c.pending[i] /\ first[i] \in Pending
  BY <1>1, <1>2
<1>5. /\ rows \in Seq(Row) /\ Len(rows) = k
      /\ \A i \in 1..k : rows[i].op = c.pending[i].op /\ rows[i].turn = c.pending[i].turn
            /\ rows[i].state = shown[c.pending[i].status]
  <2>1. rows = [i \in 1..k |-> [op |-> first[i].op, turn |-> first[i].turn,
                                state |-> shown[first[i].status]]]
    BY <1>4 DEF Rows
  <2>2. \A i \in 1..k : [op |-> first[i].op, turn |-> first[i].turn,
                         state |-> shown[first[i].status]] \in Row
    <3>1. SUFFICES ASSUME NEW i \in 1..k
                   PROVE  first[i].op \in Ops /\ first[i].turn \in Ops
                          /\ shown[first[i].status] \in {"input", "applied", "accepted", "uncertain"}
      BY DEF Row
    <3>2. first[i] \in Pending
      BY <1>4
    <3>3. first[i].op \in Steers /\ first[i].turn \in Ops /\ first[i].status \in Statuses
      BY <3>2 DEF Pending
    <3>. QED  BY <3>3, Names DEF Shown
  <2>. HIDE DEF rows
  <2>3. rows \in [1..k -> Row]
    BY <2>1, <2>2
  <2>4. rows \in Seq(Row) /\ Len(rows) = k
    BY <1>1, <2>3
  <2>. QED  BY <1>4, <2>1, <2>4
<1>. HIDE DEF rows
<1>6. /\ c.ledger \o rows \in Seq(Row) /\ Len(c.ledger \o rows) = Len(c.ledger) + k
      /\ \A i \in 1..Len(c.ledger) : (c.ledger \o rows)[i] = c.ledger[i]
      /\ \A i \in 1..k : (c.ledger \o rows)[Len(c.ledger) + i] = rows[i]
  <2>. DEFINE n == Len(c.ledger)
              both == c.ledger \o rows
  <2>1. c.ledger \in Seq(Row) /\ n \in Nat
    BY ChatIs
  <2>2. /\ both \in Seq(Row) /\ Len(both) = n + k
        /\ \A i \in 1..(n + k) : both[i] = IF i <= n THEN c.ledger[i] ELSE rows[i - n]
    BY <1>5, <2>1, ConcatProperties
  <2>. HIDE DEF n, both
  <2>3. \A i \in 1..n : both[i] = c.ledger[i]
    BY <1>1, <2>1, <2>2
  <2>4. \A i \in 1..k : n + i \in 1..(n + k) /\ ~(n + i <= n) /\ (n + i) - n = i
    BY <1>1, <2>1
  <2>5. \A i \in 1..k : both[n + i] = rows[i]
    BY <2>2, <2>4
  <2>. QED  BY <2>2, <2>3, <2>5 DEF n, both
<1>7. \A s : s \in OpsOf(first) <=> \E i \in 1..k : c.pending[i].op = s
  BY <1>4 DEF OpsOf, ToSet
<1>8. effects \in [Steers -> Effects]
  BY ChatIs
<1>9. d = [c EXCEPT !.pending = rest, !.ledger = c.ledger \o rows, !.effect = effects]
  BY DEF Settled, first, rest, rows
<1>10. \A s \in Steers : effects[s] = IF s \in OpsOf(first) THEN effect ELSE c.effect[s]
  OBVIOUS
<1>. HIDE DEF effects, d
<1>11. /\ d.fg = c.fg /\ d.staged = c.staged /\ d.queue = c.queue
       /\ d.pending = rest /\ d.ledger = c.ledger \o rows /\ d.effect = effects
  BY <1>9 DEF Chats
<1>12. d \in Chats
  BY <1>3, <1>6, <1>8, <1>9 DEF Chats
<1>13. \A i \in 1..k :
          /\ d.ledger[Len(c.ledger) + i].op = c.pending[i].op
          /\ d.ledger[Len(c.ledger) + i].turn = c.pending[i].turn
          /\ d.ledger[Len(c.ledger) + i].state = shown[c.pending[i].status]
          /\ c.pending[i].op \in Steers
          /\ d.effect[c.pending[i].op] = effect
  <2>1. SUFFICES ASSUME NEW i \in 1..k
                 PROVE  /\ d.ledger[Len(c.ledger) + i] = rows[i] /\ c.pending[i].op \in Steers
                        /\ d.effect[c.pending[i].op] = effect
    BY <1>5
  <2>2. c.pending[i].op \in Steers
    BY <1>1
  <2>. QED  BY <1>6, <1>7, <1>10, <1>11, <2>2
<1>14. \A s \in Steers : (\A i \in 1..k : c.pending[i].op # s) => d.effect[s] = c.effect[s]
  BY <1>7, <1>10, <1>11
<1>. QED  BY <1>3, <1>6, <1>11, <1>12, <1>13, <1>14 DEF d

\* What a command may do to effects whose direction is not returned.
Later(c, d) ==
    /\ d.queue = c.queue
    /\ \A s \in Steers : d.effect[s] = c.effect[s] \/
          (c.effect[s] # "none" /\ d.effect[s] \notin {"none", "pending", "failed"})

LEMMA LaterLater ==
    ASSUME NEW c, NEW d, NEW e, Later(c, d), Later(d, e)  PROVE Later(c, e)
BY DEF Later

LEMMA SettledSound ==
    ASSUME Context, NEW c \in Chats, Core(c), NEW k \in 0..Len(c.pending), NEW shown \in Shown,
           NEW effect \in {"consumed", "ambiguous"},
           \A i \in 1..k : shown[c.pending[i].status] = "applied" => VouchedFor(c.pending[i].op),
           c.fg.op \in Inputs /\ k # 0 => InLedger(c, c.fg.op)
    PROVE  LET d == Settled(c, k, shown, effect)
           IN /\ d \in Chats /\ Core(d) /\ (Unwritten(c) => Unwritten(d)) /\ Later(c, d)
              /\ d.fg = c.fg /\ Len(d.pending) = Len(c.pending) - k
<1>. DEFINE d == Settled(c, k, shown, effect)
<1>1. effect \in Effects
  BY DEF Effects
<1>2. /\ d \in Chats /\ d.fg = c.fg /\ d.staged = c.staged /\ d.queue = c.queue
      /\ Len(d.ledger) = Len(c.ledger) + k
      /\ \A i \in 1..Len(c.ledger) : d.ledger[i] = c.ledger[i]
      /\ \A i \in 1..k :
            /\ d.ledger[Len(c.ledger) + i].op = c.pending[i].op
            /\ d.ledger[Len(c.ledger) + i].turn = c.pending[i].turn
            /\ d.ledger[Len(c.ledger) + i].state = shown[c.pending[i].status]
            /\ c.pending[i].op \in Steers
            /\ d.effect[c.pending[i].op] = effect
      /\ Len(d.pending) = Len(c.pending) - k
      /\ \A i \in 1..(Len(c.pending) - k) : d.pending[i] = c.pending[i + k]
      /\ \A s \in Steers : (\A i \in 1..k : c.pending[i].op # s) => d.effect[s] = c.effect[s]
  BY <1>1, SettledIs
<1>. HIDE DEF d
<1>3. \A i \in 1..k : i \in DOMAIN c.pending /\ shown[c.pending[i].status] # "input"
  <2>1. \A i \in 1..k : i \in DOMAIN c.pending /\ c.pending[i].status \in Statuses
    BY ChatIs
  <2>. QED  BY <2>1 DEF Shown
<1>4. Core(d) /\ (Unwritten(c) => Unwritten(d))
  <2>1. \A i \in 1..k :
           /\ d.ledger[Len(c.ledger) + i].op = c.pending[i].op
           /\ d.ledger[Len(c.ledger) + i].turn = c.pending[i].turn
           /\ d.ledger[Len(c.ledger) + i].state # "input"
           /\ d.ledger[Len(c.ledger) + i].state = "applied" => VouchedFor(c.pending[i].op)
           /\ d.effect[c.pending[i].op] \in {"consumed", "ambiguous"}
    <3>1. SUFFICES ASSUME NEW i \in 1..k
                   PROVE  /\ d.ledger[Len(c.ledger) + i].op = c.pending[i].op
                          /\ d.ledger[Len(c.ledger) + i].turn = c.pending[i].turn
                          /\ d.ledger[Len(c.ledger) + i].state # "input"
                          /\ d.ledger[Len(c.ledger) + i].state = "applied"
                                => VouchedFor(c.pending[i].op)
                          /\ d.effect[c.pending[i].op] \in {"consumed", "ambiguous"}
      OBVIOUS
    <3>. QED  BY <1>2, <1>3
  <2>. QED  BY <1>2, <2>1, SettledCore
<1>5. Later(c, d)
  <2>1. ASSUME NEW i \in 1..k
        PROVE  c.effect[c.pending[i].op] # "none"
               /\ d.effect[c.pending[i].op] \notin {"none", "pending", "failed"}
    <3>1. c.pending[i].op \in Waiting(c) /\ c.pending[i].op \in Steers
      BY <1>2, <1>3, WaitingIs
    <3>2. c.effect[c.pending[i].op] # "none"
      BY <3>1 DEF Core, Owned
    <3>. QED  BY <1>2, <3>2
  <2>. QED  BY <1>2, <2>1 DEF Later
<1>. QED  BY <1>2, <1>4, <1>5 DEF d


\* A receipt of a pending direction.
LEMMA AppliedSound ==
    ASSUME Context, NEW c, Sound(c), NEW s \in Steers, IsPending(c, s), s \in ToSet(taken)
    PROVE  LET d == Applied(c, s) IN Sound(d) /\ Later(c, d) /\ d.fg.op = c.fg.op
<1>. DEFINE i == InputConsumed(c)
            k == Place(c, s)
            d == Applied(c, s)
<1>1. c \in Chats /\ Core(c) /\ Unwritten(c)
  BY DEF Sound
<1>2. k \in DOMAIN c.pending /\ c.pending[k].op = s /\ DOMAIN c.pending = 1..Len(c.pending)
      /\ Len(c.pending) \in Nat
  BY <1>1, WaitingIs
<1>3. Running(c)
  BY <1>1, <1>2, ChatIs, Names DEF Core, InTurn, Running
<1>4. /\ Sound(i) /\ i.effect = c.effect /\ i.fg.op = c.fg.op /\ i.pending = c.pending
      /\ i.staged = c.staged /\ i.queue = c.queue
      /\ (c.fg.op \in Inputs => InLedger(i, c.fg.op))
  BY <1>3, InputConsumedSound
<1>5. d = Settled(i, k, AsApplied, "consumed")
  BY <1>4 DEF Applied, Settled
<1>. HIDE DEF i, d, k
<1>6. AsApplied \in Shown
  BY DEF AsApplied, Shown
<1>7. i \in Chats /\ Core(i) /\ Unwritten(i) /\ k \in 0..Len(i.pending)
  BY <1>2, <1>4 DEF Sound
<1>8. \A j \in 1..k : VouchedFor(i.pending[j].op)
  <2>1. SUFFICES ASSUME NEW j \in 1..k  PROVE VouchedFor(c.pending[j].op)
    BY <1>4
  <2>2. CASE j = k
    BY <1>2, <2>2 DEF VouchedFor
  <2>3. CASE j # k
    <3>1. j < k /\ j \in DOMAIN c.pending
      BY <1>2, <2>3
    <3>2. At(c.pending[j].op) < At(s)
      BY <1>1, <1>2, <3>1 DEF Core, Ordered
    <3>. QED  BY <3>2 DEF VouchedFor
  <2>. QED  BY <2>2, <2>3
<1>9. /\ d \in Chats /\ Core(d) /\ Unwritten(d) /\ Later(i, d) /\ d.fg = i.fg
  BY <1>4, <1>5, <1>6, <1>7, <1>8, SettledSound
<1>10. Later(c, i)
  BY <1>4 DEF Later
<1>. QED  BY <1>4, <1>9, <1>10, LaterLater DEF Sound, d

\* The directions that are pending when a turn ends.
LEMMA UnconsumedCore ==
    ASSUME Context, NEW c \in Chats, Core(c), c.fg.op \in Inputs => InLedger(c, c.fg.op)
    PROVE  LET d == Unconsumed(c)
           IN /\ d \in Chats /\ Core(d) /\ (Unwritten(c) => Unwritten(d)) /\ Later(c, d)
              /\ d.fg = c.fg /\ Len(d.pending) = 0
<1>. DEFINE m == Len(c.pending)
            d == Unconsumed(c)
<1>1. c.pending \in Seq(Pending) /\ m \in Nat
  BY ChatIs
<1>2. SubSeq(c.pending, 1, m) = c.pending
  BY <1>1, SubSeqFull
<1>3. SubSeq(c.pending, m + 1, m) = <<>>
  <2>1. m + 1 \in Int /\ m \in Int /\ m < m + 1
    BY <1>1
  <2>. QED  BY <2>1, SubSeqEmpty
<1>4. d = Settled(c, m, AsAnswered, "ambiguous")
  BY <1>2, <1>3 DEF Unconsumed, Settled
<1>5. AsAnswered \in Shown /\ \A status \in Statuses : AsAnswered[status] # "applied"
  BY DEF AsAnswered, Shown
<1>6. \A i \in 1..m : AsAnswered[c.pending[i].status] # "applied"
  BY <1>5, ChatIs
<1>. HIDE DEF d
<1>7. m \in 0..Len(c.pending)
  BY <1>1
<1>8. /\ d \in Chats /\ Core(d) /\ (Unwritten(c) => Unwritten(d)) /\ Later(c, d)
      /\ d.fg = c.fg /\ Len(d.pending) = Len(c.pending) - m
  BY <1>4, <1>5, <1>6, <1>7, SettledSound
<1>. QED  BY <1>1, <1>8 DEF d

\* A turn is over: nothing waits.
LEMMA ClearedSound ==
    ASSUME NEW c, Core(c), Len(c.pending) = 0, NEW d \in Chats, d.fg = NoTurn,
           d.pending = c.pending, d.effect = c.effect, d.ledger = c.ledger,
           d.staged = c.staged, d.queue = c.queue
    PROVE  Sound(d)
<1>1. DOMAIN d.pending = {}
  BY ChatIs
<1>2. d.fg.op = None /\ ~d.fg.consumed
  BY DEF NoTurn
<1>3. Owned(d)
  BY DEF Core, Owned, InLedger, Waiting, Queued
<1>4. Once(d) /\ Lined(d) /\ Vouched(d)
  BY DEF Core, Once, Lined, Vouched, InLedger
<1>5. InTurn(d)
  BY <1>1, <1>2 DEF InTurn, Running
<1>6. Ordered(d)
  BY DEF Core, Ordered
<1>7. InputFirst(d)
  BY <1>2 DEF Core, InputFirst
<1>8. Unwritten(d)
  BY <1>2, Names DEF Unwritten
<1>. QED  BY <1>3, <1>4, <1>5, <1>6, <1>7, <1>8 DEF Sound, Core

LEMMA InterruptedSound ==
    ASSUME Context, NEW c, Sound(c)
    PROVE  LET d == Interrupted(c) IN Sound(d) /\ Later(c, d) /\ ~Running(d)
<1>. DEFINE d == IF c.fg.consumed THEN c
                 ELSE [c EXCEPT !.ledger = Append(@, InputRow(c.fg.op))]
            u == Unconsumed(d)
            e == Interrupted(c)
<1>1. c \in Chats /\ Core(c) /\ Unwritten(c)
  BY DEF Sound
<1>2. CASE ~Running(c)
  BY <1>2 DEF Interrupted, Later
<1>3. CASE Running(c)
  <2>1. e = [u EXCEPT !.fg = NoTurn]
    BY <1>3 DEF Interrupted, InputRow
  <2>2. /\ d \in Chats /\ Core(d) /\ d.fg = c.fg /\ d.effect = c.effect /\ d.queue = c.queue
        /\ c.fg.op \in Inputs => InLedger(d, c.fg.op)
    <3>1. CASE c.fg.consumed
      BY <1>1, <3>1 DEF Core, InputFirst
    <3>2. CASE ~c.fg.consumed
      <4>. DEFINE w == [c EXCEPT !.ledger = Append(@, InputRow(c.fg.op))]
      <4>1. d = w
        BY <3>2
      <4>2. Append(c.ledger, InputRow(c.fg.op)) \in Seq(Row)
        <5>1. c.fg.op \in Ops
          BY <1>1, <1>3, ChatIs DEF Running
        <5>2. InputRow(c.fg.op) \in Row
          BY <5>1 DEF InputRow, Row
        <5>. QED  BY <1>1, <5>2, ChatIs, AppendSet
      <4>3. /\ w \in Chats /\ w.ledger = Append(c.ledger, InputRow(c.fg.op)) /\ w.fg = c.fg
            /\ w.pending = c.pending /\ w.effect = c.effect /\ w.staged = c.staged
            /\ w.queue = c.queue
        BY <1>1, <4>2 DEF Chats
      <4>. HIDE DEF w
      <4>4. Core(w) /\ InLedger(w, c.fg.op)
        BY <1>3, <4>3, InputRowCore
      <4>. QED  BY <4>1, <4>3, <4>4
    <3>. QED  BY <3>1, <3>2
  <2>. HIDE DEF d
  <2>3. u \in Chats /\ Core(u) /\ Later(d, u) /\ Len(u.pending) = 0
    BY <2>2, UnconsumedCore
  <2>. HIDE DEF u, e
  <2>4. NoTurn \in Turns
    BY DEF NoTurn, Turns
  <2>5. /\ e \in Chats /\ e.fg = NoTurn /\ e.pending = u.pending /\ e.effect = u.effect
        /\ e.ledger = u.ledger /\ e.staged = u.staged /\ e.queue = u.queue
    BY <2>1, <2>3, <2>4 DEF Chats
  <2>6. Sound(e)
    BY <2>3, <2>5, ClearedSound
  <2>7. Later(c, e)
    BY <2>2, <2>3, <2>5 DEF Later
  <2>8. ~Running(e)
    BY <2>5 DEF Running, NoTurn
  <2>. QED  BY <2>6, <2>7, <2>8 DEF e
<1>. QED  BY <1>2, <1>3

LEMMA RecoveredSound ==
    ASSUME Context, NEW c, Sound(c)
    PROVE  LET d == Recovered(c) IN Sound(d) /\ Later(c, d) /\ ~Running(d)
<1>. DEFINE f == [s \in Steers |->
                    IF c.effect[s] \in {"dispatched", "accepted", "consumed"} THEN "ambiguous"
                    ELSE c.effect[s]]
            v == [c EXCEPT !.effect = f]
<1>1. c.effect \in [Steers -> Effects]
  BY ChatIs DEF Sound
<1>2. f \in [Steers -> Effects] /\ \A s \in Steers : Becomes(c.effect[s], f[s])
  BY <1>1 DEF Becomes, Effects
<1>3. \A s \in Steers : f[s] = c.effect[s] \/ (c.effect[s] # "none" /\ f[s] = "ambiguous")
  OBVIOUS
<1>4. Recovered(c) = Interrupted(v)
  BY DEF Recovered
<1>. HIDE DEF f
<1>5. Sound(v) /\ v.effect = f /\ v.queue = c.queue
  BY <1>2, EffectSound
<1>. HIDE DEF v
<1>6. Later(c, v)
  BY <1>3, <1>5 DEF Later
<1>. QED  BY <1>4, <1>5, <1>6, InterruptedSound, LaterLater


\* A receipt of a direction whose row says that nobody knows.
LEMMA AppliedLateSound ==
    ASSUME NEW c, Sound(c), NEW s \in Steers, ~IsPending(c, s), c.effect[s] = "ambiguous",
           s \in ToSet(taken)
    PROVE  LET d == AppliedLate(c, s) IN Sound(d) /\ Later(c, d) /\ d.fg = c.fg
<1>. DEFINE new == [i \in DOMAIN c.ledger |->
                      IF c.ledger[i].op = s /\ c.ledger[i].state \in {"accepted", "uncertain"}
                      THEN [c.ledger[i] EXCEPT !.state = "applied"] ELSE c.ledger[i]]
            d == AppliedLate(c, s)
<1>1. c \in Chats /\ Core(c) /\ Unwritten(c)
  BY DEF Sound
<1>2. d = [c EXCEPT !.effect[s] = "completed", !.ledger = new]
  BY DEF AppliedLate
<1>3. ASSUME NEW i \in DOMAIN c.ledger
      PROVE  /\ new[i] \in Row /\ new[i].op = c.ledger[i].op /\ new[i].turn = c.ledger[i].turn
             /\ new[i].state = "input" <=> c.ledger[i].state = "input"
             /\ new[i].state = "applied" => c.ledger[i].state = "applied" \/ c.ledger[i].op = s
  <2>1. c.ledger[i] \in Row
    BY <1>1, ChatIs
  <2>2. new[i] = IF c.ledger[i].op = s /\ c.ledger[i].state \in {"accepted", "uncertain"}
                 THEN [c.ledger[i] EXCEPT !.state = "applied"] ELSE c.ledger[i]
    OBVIOUS
  <2>. HIDE DEF new
  <2>. QED  BY <2>1, <2>2 DEF Row
<1>4. DOMAIN new = DOMAIN c.ledger /\ new \in Seq(Row)
  <2>1. new \in [1..Len(c.ledger) -> Row] /\ Len(c.ledger) \in Nat
    BY <1>1, <1>3, ChatIs
  <2>. HIDE DEF new
  <2>2. new \in Seq(Row)
    BY <2>1
  <2>. QED  BY <1>1, <2>1, <2>2, ChatIs
<1>. HIDE DEF new, d
<1>5. [c.effect EXCEPT ![s] = "completed"] \in [Steers -> Effects]
  BY <1>1, ChatIs DEF Effects
<1>6. /\ d \in Chats /\ d.fg = c.fg /\ d.pending = c.pending /\ d.ledger = new
      /\ d.staged = c.staged /\ d.queue = c.queue
      /\ d.effect = [c.effect EXCEPT ![s] = "completed"]
  BY <1>1, <1>2, <1>4, <1>5 DEF Chats
<1>7. d.effect[s] = "completed" /\ \A t \in Steers \ {s} : d.effect[t] = c.effect[t]
  BY <1>1, <1>6, ChatIs
<1>8. \A t : (InLedger(d, t) <=> InLedger(c, t)) /\ (t \in Waiting(d) <=> t \in Waiting(c))
             /\ (t \in Queued(d) <=> t \in Queued(c))
  BY <1>3, <1>4, <1>6 DEF InLedger, Waiting, Queued
<1>9. Owned(d)
  <2>1. s \notin Waiting(c)
    BY <1>1, WaitingIs
  <2>. QED  BY <1>1, <1>6, <1>7, <1>8, <2>1 DEF Core, Owned
<1>10. Once(d) /\ Lined(d) /\ InTurn(d)
  BY <1>1, <1>3, <1>4, <1>6, <1>8 DEF Core, Once, Lined, InTurn, Running
<1>11. Ordered(d)
  BY <1>1, <1>3, <1>4, <1>6 DEF Core, Ordered
<1>12. InputFirst(d)
  BY <1>1, <1>3, <1>4, <1>6, <1>8 DEF Core, InputFirst
<1>13. Vouched(d)
  BY <1>1, <1>3, <1>4, <1>6 DEF Core, Vouched, VouchedFor
<1>14. Unwritten(d)
  BY <1>1, <1>6, <1>8 DEF Unwritten
<1>15. Later(c, d)
  BY <1>6, <1>7 DEF Later
<1>. QED  BY <1>6, <1>9, <1>10, <1>11, <1>12, <1>13, <1>14, <1>15 DEF Sound, Core, d

LEMMA SteerConsumedSound ==
    ASSUME Context, NEW c, Sound(c), NEW s \in Steers, s \in ToSet(taken)
    PROVE  LET d == SteerConsumed(c, s) IN Sound(d) /\ Later(c, d) /\ d.fg.op = c.fg.op
<1>1. CASE IsPending(c, s)
  BY <1>1, AppliedSound DEF SteerConsumed
<1>2. CASE ~IsPending(c, s) /\ c.effect[s] = "ambiguous"
  BY <1>2, AppliedLateSound DEF SteerConsumed
<1>3. CASE ~IsPending(c, s) /\ c.effect[s] # "ambiguous"
  BY <1>3 DEF SteerConsumed, Later
<1>. QED  BY <1>1, <1>2, <1>3

\* Of the directions a terminal vouches for there is a last one.
LEMMA LastIs ==
    ASSUME NEW c \in Chats, NEW open, open # {}, \A s \in open : IsPending(c, s)
    PROVE  \E s \in open : \A t \in open : Place(c, t) <= Place(c, s)
<1>. DEFINE m == Len(c.pending)
            T == {m - Place(c, s) : s \in open}
<1>1. m \in Nat /\ \A s \in open : Place(c, s) \in 1..m
  BY WaitingIs
<1>. HIDE DEF m
<1>2. T \in SUBSET Nat /\ T # {}
  BY <1>1
<1>3. PICK x \in T : \A y \in T : x <= y
  BY <1>2, Least
<1>4. PICK s \in open : x = m - Place(c, s)
  OBVIOUS
<1>5. ASSUME NEW t \in open  PROVE Place(c, t) <= Place(c, s)
  <2>1. m - Place(c, s) <= m - Place(c, t)
    BY <1>3, <1>4
  <2>. QED  BY <1>1, <2>1
<1>. QED  BY <1>5

LEMMA EndedSound ==
    ASSUME Context, NEW c, Sound(c), Running(c), NEW marks \in SUBSET Steers,
           marks \subseteq ToSet(taken)
    PROVE  LET d == Ended(c, marks) IN Sound(d) /\ Later(c, d) /\ ~Running(d)
<1>. DEFINE open == {s \in marks : IsPending(c, s)}
            last == CHOOSE s \in open : \A t \in open : Place(c, t) <= Place(c, s)
            a == IF open = {} THEN c ELSE Applied(c, last)
            i == InputConsumed(a)
            u == Unconsumed(i)
            f == [t \in Steers |-> IF u.effect[t] = "consumed" THEN "completed" ELSE u.effect[t]]
            v == [u EXCEPT !.effect = f]
            e == Ended(c, marks)
<1>1. c \in Chats
  BY DEF Sound
<1>2. Sound(a) /\ Later(c, a) /\ a.fg.op = c.fg.op
  <2>1. CASE open = {}
    BY <2>1 DEF Later
  <2>2. CASE open # {}
    <3>1. last \in open
      <4>. HIDE DEF open
      <4>1. \A s \in open : IsPending(c, s)
        BY DEF open
      <4>. QED  BY <1>1, <2>2, <4>1, LastIs
    <3>. HIDE DEF last
    <3>2. last \in Steers /\ IsPending(c, last) /\ last \in ToSet(taken)
      BY <3>1
    <3>3. Sound(Applied(c, last)) /\ Later(c, Applied(c, last)) /\ Applied(c, last).fg.op = c.fg.op
      BY <3>2, AppliedSound
    <3>. QED  BY <2>2, <3>3
  <2>. QED  BY <2>1, <2>2
<1>3. e = [u EXCEPT !.fg = NoTurn,
             !.effect = [t \in Steers |-> IF @[t] = "consumed" THEN "completed" ELSE @[t]]]
  BY DEF Ended
<1>. HIDE DEF open, last, a
<1>4. Sound(i) /\ Later(a, i) /\ (i.fg.op \in Inputs => InLedger(i, i.fg.op))
  <2>1. Running(a)
    BY <1>2 DEF Running
  <2>. QED  BY <1>2, <2>1, InputConsumedSound DEF Later
<1>. HIDE DEF i
<1>5. u \in Chats /\ Core(u) /\ Unwritten(u) /\ Later(i, u) /\ Len(u.pending) = 0
  BY <1>4, UnconsumedCore DEF Sound
<1>. HIDE DEF u
<1>6. u.effect \in [Steers -> Effects]
  BY <1>5, ChatIs
<1>7. f \in [Steers -> Effects] /\ \A s \in Steers : Becomes(u.effect[s], f[s])
      /\ (f[s] = u.effect[s] \/ (u.effect[s] = "consumed" /\ f[s] = "completed"))
  BY <1>6 DEF Becomes, Effects
<1>8. e = [u EXCEPT !.fg = NoTurn, !.effect = f]
  BY <1>3
<1>. HIDE DEF f
<1>9. /\ Sound(v) /\ v.effect = f /\ v.fg = u.fg /\ v.pending = u.pending
      /\ v.ledger = u.ledger /\ v.staged = u.staged /\ v.queue = u.queue
  BY <1>5, <1>7, EffectSound DEF Sound
<1>. HIDE DEF v, e
<1>10. NoTurn \in Turns
  BY DEF NoTurn, Turns
<1>11. /\ e \in Chats /\ e.fg = NoTurn /\ e.pending = u.pending /\ e.effect = f
       /\ e.ledger = u.ledger /\ e.staged = u.staged /\ e.queue = u.queue
  BY <1>5, <1>7, <1>8, <1>10 DEF Chats
<1>12. Sound(e)
  <2>1. Core(v) /\ Len(v.pending) = 0
    BY <1>5, <1>9 DEF Sound
  <2>. QED  BY <1>9, <1>11, <2>1, ClearedSound
<1>13. Later(u, e)
  BY <1>7, <1>11 DEF Later
<1>14. Later(c, e)
  BY <1>2, <1>4, <1>5, <1>13, LaterLater
<1>15. ~Running(e)
  BY <1>11 DEF Running, NoTurn
<1>. QED  BY <1>12, <1>14, <1>15 DEF e

\* One direction leaves the pending list.
LEMMA RemovedIs ==
    ASSUME NEW c \in Chats, NEW s \in Steers, IsPending(c, s)
    PROVE  LET p == Place(c, s)
               r == RemoveAt(c.pending, p)
           IN /\ r \in Seq(Pending) /\ p \in 1..Len(c.pending) /\ Len(c.pending) \in Nat
              /\ DOMAIN r = 1..(Len(c.pending) - 1)
              /\ \A i \in 1..(Len(c.pending) - 1) :
                    r[i] = IF i < p THEN c.pending[i] ELSE c.pending[i + 1]
<1>. DEFINE p == Place(c, s)
            m == Len(c.pending)
            before == SubSeq(c.pending, 1, p - 1)
            after == SubSeq(c.pending, p + 1, m)
            r == RemoveAt(c.pending, p)
<1>1. p \in 1..m /\ m \in Nat /\ \A i \in 1..m : c.pending[i] \in Pending
  BY WaitingIs, ChatIs
<1>2. r = before \o after
  BY DEF RemoveAt
<1>. HIDE DEF p, m
<1>3. before \in Seq(Pending) /\ Len(before) = p - 1
      /\ \A i \in 1..(p - 1) : before[i] = c.pending[i]
  <2>1. 1 \in Int /\ p - 1 \in Int /\ \A i \in 1..(p - 1) : c.pending[i] \in Pending
    BY <1>1
  <2>2. /\ before \in Seq(Pending) /\ Len(before) = IF 1 <= p - 1 THEN p - 1 - 1 + 1 ELSE 0
        /\ \A i \in 1..(p - 1 - 1 + 1) : before[i] = c.pending[1 + i - 1]
    BY <2>1, SubSeqProperties
  <2>. HIDE DEF before
  <2>. QED  BY <1>1, <2>2
<1>4. after \in Seq(Pending) /\ Len(after) = m - p
      /\ \A i \in 1..(m - p) : after[i] = c.pending[p + i]
  <2>1. p + 1 \in Int /\ m \in Int /\ \A i \in (p + 1)..m : c.pending[i] \in Pending
    BY <1>1
  <2>2. /\ after \in Seq(Pending) /\ Len(after) = IF p + 1 <= m THEN m - (p + 1) + 1 ELSE 0
        /\ \A i \in 1..(m - (p + 1) + 1) : after[i] = c.pending[p + 1 + i - 1]
    BY <2>1, SubSeqProperties
  <2>. HIDE DEF after
  <2>3. \A i \in 1..(m - p) : i \in 1..(m - (p + 1) + 1) /\ p + 1 + i - 1 = p + i
    BY <1>1
  <2>4. Len(after) = m - p
    BY <1>1, <2>2
  <2>. QED  BY <2>2, <2>3, <2>4
<1>. HIDE DEF before, after, r
<1>5. /\ r \in Seq(Pending) /\ Len(r) = Len(before) + Len(after)
      /\ \A i \in 1..(Len(before) + Len(after)) :
            r[i] = IF i <= Len(before) THEN before[i] ELSE after[i - Len(before)]
  BY <1>2, <1>3, <1>4, ConcatProperties
<1>6. Len(r) = m - 1 /\ DOMAIN r = 1..(m - 1)
  BY <1>1, <1>3, <1>4, <1>5
<1>7. ASSUME NEW i \in 1..(m - 1)
      PROVE  r[i] = IF i < p THEN c.pending[i] ELSE c.pending[i + 1]
  <2>1. i \in 1..(Len(before) + Len(after))
    BY <1>1, <1>3, <1>4
  <2>2. CASE i < p
    <3>1. i <= Len(before) /\ i \in 1..(p - 1)
      BY <1>1, <1>3, <2>2
    <3>. QED  BY <1>3, <1>5, <2>1, <2>2, <3>1
  <2>3. CASE ~(i < p)
    <3>1. ~(i <= Len(before)) /\ i - Len(before) \in 1..(m - p) /\ p + (i - Len(before)) = i + 1
      BY <1>1, <1>3, <2>3
    <3>2. after[i - Len(before)] = c.pending[i + 1]
      BY <1>4, <3>1
    <3>. QED  BY <1>5, <2>1, <2>3, <3>1, <3>2
  <2>. QED  BY <2>2, <2>3
<1>. QED  BY <1>1, <1>5, <1>6, <1>7 DEF p, m, r


\* A refused direction goes back where it came from, or into the queue.
Returned(c, d, s) ==
    /\ d.fg = c.fg /\ \A t \in Steers \ {s} : d.effect[t] = c.effect[t]
    /\ \/ d.effect[s] = "failed" /\ d.queue = c.queue
       \/ d.effect[s] = "completed" /\ s \in Agents /\ d.queue = Append(c.queue, s)

LEMMA RefusedSound ==
    ASSUME Context, NEW c, Sound(c), NEW s \in Steers, IsPending(c, s)
    PROVE  LET d == Refused(c, s) IN Sound(d) /\ Returned(c, d, s) /\ c.effect[s] # "none"
<1>. DEFINE d == Refused(c, s)
            p == Place(c, s)
            r == RemoveAt(c.pending, p)
            m == Len(c.pending)
            ending == IF s \in Agents \ Staged THEN "completed" ELSE "failed"
            effects == [c.effect EXCEPT ![s] = ending]
            staged == IF s \in Staged THEN c.staged \union {s} ELSE c.staged
            queue == IF s \in Agents \ Staged THEN Append(c.queue, s) ELSE c.queue
<1>1. c \in Chats /\ Core(c) /\ Unwritten(c)
  BY DEF Sound
<1>2. /\ r \in Seq(Pending) /\ p \in 1..m /\ m \in Nat /\ DOMAIN r = 1..(m - 1)
      /\ \A i \in 1..(m - 1) : r[i] = IF i < p THEN c.pending[i] ELSE c.pending[i + 1]
  BY <1>1, RemovedIs
<1>3. /\ s \in Waiting(c) /\ c.pending[p].op = s /\ DOMAIN c.pending = 1..m
  BY <1>1, WaitingIs
<1>4. /\ s \notin Queued(c) /\ ~InLedger(c, s) /\ c.effect[s] # "none"
      /\ c.effect[s] \in {"pending", "dispatched", "accepted", "ambiguous"}
      /\ s \notin c.staged
  <2>1. c.staged \subseteq Staged
    BY <1>1, ChatIs
  <2>. QED  BY <1>1, <1>3, <2>1 DEF Core, Owned
<1>5. effects \in [Steers -> Effects] /\ staged \in SUBSET Staged
  BY <1>1, ChatIs DEF Effects
<1>6. /\ queue \in Seq(Agents)
      /\ \A x : x \in ToSet(queue) <=> x \in ToSet(c.queue) \/ (x = s /\ s \in Agents \ Staged)
  BY <1>1, ChatIs, AppendSet
<1>7. d = [c EXCEPT !.pending = r, !.effect = effects, !.staged = staged, !.queue = queue]
  <2>1. CASE s \in Staged
    <3>1. ending = "failed" /\ queue = c.queue /\ staged = c.staged \union {s}
      BY <2>1
    <3>. HIDE DEF r
    <3>2. d = [[c EXCEPT !.pending = r] EXCEPT !.staged = @ \union {s}, !.effect[s] = "failed"]
      BY <1>1, <2>1 DEF Refused, Removed, r
    <3>. QED  BY <1>1, <3>1, <3>2 DEF Chats
  <2>2. CASE s \in Agents \ Staged
    <3>1. ending = "completed" /\ queue = Append(c.queue, s) /\ staged = c.staged
      BY <2>2
    <3>. HIDE DEF r
    <3>2. d = [[c EXCEPT !.pending = r] EXCEPT !.queue = Append(@, s), !.effect[s] = "completed"]
      BY <1>1, <2>2 DEF Refused, Removed, r
    <3>. QED  BY <1>1, <3>1, <3>2 DEF Chats
  <2>3. CASE s \notin Agents /\ s \notin Staged
    <3>1. ending = "failed" /\ queue = c.queue /\ staged = c.staged
      BY <2>3
    <3>. HIDE DEF r
    <3>2. d = [[c EXCEPT !.pending = r] EXCEPT !.effect[s] = "failed"]
      BY <1>1, <2>3 DEF Refused, Removed, r
    <3>. QED  BY <1>1, <3>1, <3>2 DEF Chats
  <2>. QED  BY <2>1, <2>2, <2>3
<1>8. /\ effects[s] = ending /\ (\A t \in Steers \ {s} : effects[t] = c.effect[t])
      /\ \A t \in Steers : t \in staged <=> t \in c.staged \/ (t = s /\ s \in Staged)
  BY <1>1, ChatIs
<1>9. ending \in {"failed", "completed"} /\ (ending = "completed" <=> s \in Agents \ Staged)
  OBVIOUS
<1>10. (s \in Agents \ Staged => queue = Append(c.queue, s))
       /\ (s \notin Agents \ Staged => queue = c.queue)
  OBVIOUS
<1>. HIDE DEF d, p, r, m, ending, effects, staged, queue
<1>11. /\ d \in Chats /\ d.fg = c.fg /\ d.pending = r /\ d.ledger = c.ledger
       /\ d.effect = effects /\ d.staged = staged /\ d.queue = queue
  BY <1>1, <1>2, <1>5, <1>6, <1>7 DEF Chats
<1>12. ASSUME NEW i \in DOMAIN r
       PROVE  \E j \in DOMAIN c.pending : r[i] = c.pending[j] /\ j # p /\ j = IF i < p THEN i ELSE i + 1
  <2>1. CASE i < p
    BY <1>2, <1>3, <2>1
  <2>2. CASE ~(i < p)
    <3>1. i + 1 \in 1..m /\ i + 1 # p
      BY <1>2, <2>2
    <3>. QED  BY <1>2, <1>3, <2>2, <3>1
  <2>. QED  BY <2>1, <2>2
<1>13. \A t : t \in Waiting(d) <=> t \in Waiting(c) /\ t # s
  <2>1. ASSUME NEW t \in Waiting(d)  PROVE t \in Waiting(c) /\ t # s
    <3>1. PICK i \in DOMAIN r : r[i].op = t
      BY <1>11, WaitingIs
    <3>2. PICK j \in DOMAIN c.pending : r[i] = c.pending[j] /\ j # p
      BY <1>12
    <3>3. t # s
      <4>1. p \in DOMAIN c.pending /\ Ordered(c)
        BY <1>1, <1>2, <1>3 DEF Core
      <4>. QED  BY <1>1, <1>3, <3>1, <3>2, <4>1, Apart
    <3>. QED  BY <1>1, <3>1, <3>2, <3>3, WaitingIs
  <2>2. ASSUME NEW t \in Waiting(c), t # s  PROVE t \in Waiting(d)
    <3>1. PICK j \in DOMAIN c.pending : c.pending[j].op = t
      BY <1>1, WaitingIs
    <3>2. j # p
      BY <1>3, <2>2, <3>1
    <3>3. \E i \in DOMAIN r : r[i] = c.pending[j]
      <4>1. CASE j < p
        <5>1. j \in 1..(m - 1)
          BY <1>2, <1>3, <4>1
        <5>. QED  BY <1>2, <4>1, <5>1
      <4>2. CASE ~(j < p)
        <5>1. j - 1 \in 1..(m - 1) /\ ~(j - 1 < p) /\ (j - 1) + 1 = j
          BY <1>2, <1>3, <3>2, <4>2
        <5>. QED  BY <1>2, <5>1
      <4>. QED  BY <4>1, <4>2
    <3>. QED  BY <1>11, <3>1, <3>3, WaitingIs
  <2>. QED  BY <2>1, <2>2
<1>14. \A t : (InLedger(d, t) <=> InLedger(c, t))
              /\ (t \in Queued(d) <=> t \in Queued(c) \/ (t = s /\ s \in Agents \ Staged))
  BY <1>6, <1>11 DEF InLedger, Queued
<1>15. Owned(d)
  <2>1. ASSUME NEW t \in Steers, t # s
        PROVE /\ t \in Waiting(d) =>
                 d.effect[t] \in {"pending", "dispatched", "accepted", "ambiguous"} /\ ~InLedger(d, t)
              /\ InLedger(d, t) => d.effect[t] \in {"consumed", "completed", "ambiguous"}
              /\ t \in Queued(d) => d.effect[t] = "completed"
              /\ d.effect[t] \notin {"none", "failed"} =>
                    t \in Waiting(d) \/ InLedger(d, t) \/ t \in Queued(d)
              /\ t \in Staged => (d.effect[t] \in {"none", "failed"} <=> t \in d.staged)
    <3>1. d.effect[t] = c.effect[t] /\ (t \in d.staged <=> t \in c.staged)
          /\ (t \in Waiting(d) <=> t \in Waiting(c)) /\ (t \in Queued(d) <=> t \in Queued(c))
          /\ (InLedger(d, t) <=> InLedger(c, t))
      BY <1>8, <1>11, <1>13, <1>14, <2>1
    <3>. QED  BY <1>1, <3>1 DEF Core, Owned
  <2>2. /\ s \notin Waiting(d) /\ ~InLedger(d, s)
        /\ s \in Queued(d) => d.effect[s] = "completed"
        /\ d.effect[s] \notin {"none", "failed"} => s \in Queued(d)
        /\ s \in Staged => (d.effect[s] \in {"none", "failed"} <=> s \in d.staged)
    BY <1>4, <1>8, <1>9, <1>11, <1>13, <1>14
  <2>. QED  BY <2>1, <2>2 DEF Owned
<1>16. Once(d)
  BY <1>1, <1>11 DEF Core, Once
<1>17. Lined(d)
  <2>1. /\ Len(c.queue) \in Nat /\ DOMAIN c.queue = 1..Len(c.queue) /\ c.queue \in Seq(Agents)
        /\ \A i, j \in DOMAIN c.queue : c.queue[i] = c.queue[j] => i = j
        /\ \A i \in DOMAIN c.queue : c.queue[i] \notin begun /\ ~InLedger(c, c.queue[i])
    BY <1>1, ChatIs DEF Core, Lined
  <2>2. s \notin begun /\ \A i \in DOMAIN c.queue : c.queue[i] # s
    BY <1>4 DEF Queued, ToSet
  <2>3. CASE s \notin Agents \ Staged
    BY <1>10, <1>11, <1>14, <2>1, <2>3 DEF Lined
  <2>4. CASE s \in Agents \ Staged
    <3>1. /\ DOMAIN queue = 1..(Len(c.queue) + 1) /\ queue[Len(c.queue) + 1] = s
          /\ \A i \in DOMAIN c.queue : queue[i] = c.queue[i]
      BY <1>10, <2>1, <2>4, AppendSet
    <3>2. \A i \in DOMAIN queue : i \in DOMAIN c.queue \/ i = Len(c.queue) + 1
      BY <2>1, <3>1
    <3>. QED  BY <1>4, <1>11, <1>14, <2>1, <2>2, <3>1, <3>2 DEF Lined
  <2>. QED  BY <2>3, <2>4
<1>18. InTurn(d)
  <2>1. \A i \in DOMAIN r : r[i].turn = c.fg.op
    BY <1>1, <1>12 DEF Core, InTurn
  <2>. QED  BY <1>1, <1>11, <2>1 DEF Core, InTurn, Running
<1>19. Ordered(d)
  <2>1. ASSUME NEW i \in DOMAIN r, NEW j \in DOMAIN r, i < j
        PROVE  At(r[i].op) < At(r[j].op)
    <3>1. PICK x \in DOMAIN c.pending : r[i] = c.pending[x] /\ x = IF i < p THEN i ELSE i + 1
      BY <1>12
    <3>2. PICK y \in DOMAIN c.pending : r[j] = c.pending[y] /\ y = IF j < p THEN j ELSE j + 1
      BY <1>12
    <3>3. x < y
      BY <1>2, <2>1, <3>1, <3>2
    <3>. QED  BY <1>1, <3>1, <3>2, <3>3 DEF Core, Ordered
  <2>2. \A i \in DOMAIN r : \E j \in DOMAIN c.pending : r[i].op = c.pending[j].op
    BY <1>12
  <2>3. /\ \A i \in DOMAIN d.pending : d.pending[i].op \in ToSet(steered)
        /\ \A i, j \in DOMAIN d.pending : i < j => At(d.pending[i].op) < At(d.pending[j].op)
    BY <1>1, <1>11, <2>1, <2>2 DEF Core, Ordered
  <2>4. ASSUME NEW i \in DOMAIN d.ledger, d.ledger[i].state # "input", NEW j \in DOMAIN d.pending
        PROVE  At(d.ledger[i].op) < At(d.pending[j].op)
    BY <1>1, <1>11, <2>2, <2>4 DEF Core, Ordered
  <2>5. \A i \in DOMAIN d.ledger : d.ledger[i].state # "input" =>
          /\ d.ledger[i].op \in ToSet(steered)
          /\ \A j \in DOMAIN d.ledger :
                j > i /\ d.ledger[j].state # "input" => At(d.ledger[i].op) < At(d.ledger[j].op)
    BY <1>1, <1>11 DEF Core, Ordered
  <2>. QED  BY <2>3, <2>4, <2>5 DEF Ordered
<1>20. InputFirst(d) /\ Vouched(d) /\ Unwritten(d)
  BY <1>1, <1>11, <1>14 DEF Core, InputFirst, Vouched, Unwritten
<1>21. Returned(c, d, s)
  BY <1>8, <1>9, <1>10, <1>11 DEF Returned
<1>. QED  BY <1>4, <1>11, <1>15, <1>16, <1>17, <1>18, <1>19, <1>20, <1>21 DEF Sound, Core, d

(***************************************************************************)
(* Steps that keep what the actor and the provider have.                   *)
(***************************************************************************)
LEMMA Basics ==
    ASSUME Inv
    PROVE  /\ Context /\ Sound(chat) /\ chat \in Chats /\ call \in [Steers -> {"idle", "claimed",
                 "sent", "accepted", "refused", "unknown"}]
           /\ job.op \in Ops \union {None} /\ job.input \in BOOLEAN /\ job.marks \subseteq Steers
           /\ asked \subseteq Steers /\ held \subseteq Steers /\ taken \in Seq(Ops)
           /\ events \in Seq(Event) /\ begun \subseteq Ops /\ steered \in Seq(Steers)
           /\ cut \subseteq Steers /\ faults \in 0..MaxFaults
           /\ (job = NoJob <=> job.op = None)
<1>1. TypeOK /\ Core(chat) /\ Unwritten(chat) /\ Worked
  BY DEF Inv, Provider
<1>2. chat \in Chats
  BY <1>1 DEF TypeOK, Chats, Turns, Effects
<1>3. Context
  BY <1>1 DEF TypeOK, Context
<1>4. Sound(chat)
  BY <1>1, <1>2 DEF Sound
<1>5. job.op \in Ops \union {None} /\ job.input \in BOOLEAN /\ job.marks \subseteq Steers
  BY <1>1 DEF TypeOK
<1>6. job = NoJob <=> job.op = None
  BY <1>1 DEF Worked, NoJob
<1>. QED  BY <1>1, <1>2, <1>3, <1>4, <1>5, <1>6 DEF TypeOK

\* The chat stays sound beside a provider that took more.
LEMMA Carried ==
    ASSUME Sound(chat'), begun' = begun, steered' = steered, ToSet(taken) \subseteq ToSet(taken')
    PROVE  chat' \in Chats /\ Core(chat)' /\ Unwritten(chat)'
<1>1. \A s : At(s)' = At(s)
  BY DEF At, SelectInSeq
<1>2. ToSet(steered)' = ToSet(steered)
  OBVIOUS
<1>3. chat' \in Chats /\ Core(chat') /\ Unwritten(chat')
  BY DEF Sound
<1>4. Unwritten(chat)'
  BY <1>3 DEF Unwritten, InLedger
<1>5. Owned(chat)'
  BY <1>3 DEF Core, Owned, InLedger, Queued, Waiting, OpsOf, ToSet
<1>6. Once(chat)' /\ Lined(chat)' /\ InTurn(chat)' /\ InputFirst(chat)'
  BY <1>3 DEF Core, Once, Lined, InTurn, Running, InputFirst, InLedger
<1>7. Ordered(chat)'
  BY <1>1, <1>2, <1>3 DEF Core, Ordered
<1>8. Vouched(chat)'
  BY <1>1, <1>3 DEF Core, Vouched, VouchedFor
<1>. QED  BY <1>3, <1>4, <1>5, <1>6, <1>7, <1>8 DEF Core

\* Nothing is asked, held or called for that was not, and no direction is
\* returned.
LEMMA ProviderKept ==
    ASSUME Inv, Later(chat, chat'), begun' = begun, steered' = steered,
           cut \subseteq cut', asked' \subseteq asked, held' \subseteq held,
           \A s \in Steers : call'[s] = call[s] \/ call'[s] = "idle"
                             \/ (call[s] # "idle" /\ s \in cut'),
           ToSet(taken') \subseteq ToSet(taken) \union held,
           \A s \in held' : s \notin ToSet(taken) => s \notin ToSet(taken')
    PROVE  Busy' /\ Flow' /\ Given'
<1>1. Busy /\ Flow /\ Given
  BY DEF Inv, Provider
<1>2. /\ chat'.queue = chat.queue
      /\ \A s \in Steers : chat'.effect[s] = chat.effect[s] \/
            (chat.effect[s] # "none" /\ chat'.effect[s] \notin {"none", "pending", "failed"})
  BY DEF Later
<1>3. Queued(chat)' = Queued(chat)
  BY <1>2 DEF Queued
<1>4. Busy'
  BY <1>1, <1>2, <1>3 DEF Busy
<1>5. ASSUME NEW s \in Steers \ cut'
      PROVE  /\ \/ chat'.effect[s] \in {"none", "pending", "failed"}
                \/ call'[s] \in {"claimed", "refused"} \/ s \in ToSet(chat'.queue)
                => s \notin asked' \union held' \union ToSet(taken')
             /\ s \in begun' => s \notin asked' \union held'
             /\ s \in asked' => s \notin held'
             /\ s \in asked' \union held' => s \notin ToSet(taken')
  <2>1. s \in Steers \ cut
    OBVIOUS
  <2>2. /\ \/ chat.effect[s] \in {"none", "pending", "failed"}
           \/ call[s] \in {"claimed", "refused"} \/ s \in ToSet(chat.queue)
           => s \notin asked \union held \union ToSet(taken)
        /\ s \in begun => s \notin asked \union held
        /\ s \in asked => s \notin held
        /\ s \in asked \union held => s \notin ToSet(taken)
    BY <1>1, <2>1 DEF Flow, Nowhere
  <2>3. \/ chat'.effect[s] \in {"none", "pending", "failed"}
        \/ call'[s] \in {"claimed", "refused"} \/ s \in ToSet(chat'.queue)
        => s \notin asked \union held \union ToSet(taken)
    BY <1>2, <2>2
  <2>. QED  BY <2>2, <2>3
<1>6. Flow'
  BY <1>5 DEF Flow, Nowhere
<1>7. Given'
  BY <1>1, <1>2 DEF Given
<1>. QED  BY <1>4, <1>6, <1>7

\* One more operation is taken.
LEMMA TakenMore ==
    ASSUME Inv, NEW x \in Ops, x \notin ToSet(taken) \/ x \in cut', cut \subseteq cut',
           taken' = Append(taken, x)
    PROVE  /\ taken' \in Seq(Ops) /\ ToSet(taken') = ToSet(taken) \union {x}
           /\ \A i, j \in DOMAIN taken' : taken'[i] = taken'[j] => i = j \/ taken'[i] \in cut'
<1>1. taken \in Seq(Ops) /\ Worked
  BY Basics DEF Inv, Provider
<1>2. /\ taken' \in Seq(Ops) /\ DOMAIN taken = 1..Len(taken) /\ Len(taken) \in Nat
      /\ DOMAIN taken' = 1..(Len(taken) + 1) /\ \A i \in DOMAIN taken : taken'[i] = taken[i]
      /\ taken'[Len(taken) + 1] = x /\ ToSet(taken') = ToSet(taken) \union {x}
  BY <1>1, AppendSet
<1>3. ASSUME NEW i \in DOMAIN taken', NEW j \in DOMAIN taken', taken'[i] = taken'[j]
      PROVE  i = j \/ taken'[i] \in cut'
  <2>1. CASE i \in DOMAIN taken /\ j \in DOMAIN taken
    BY <1>1, <1>2, <1>3, <2>1 DEF Worked
  <2>2. \A k \in DOMAIN taken : taken[k] \in ToSet(taken)
    BY DEF ToSet
  <2>3. \A k \in DOMAIN taken' : k \in DOMAIN taken \/ k = Len(taken) + 1
    BY <1>2
  <2>4. CASE i \in DOMAIN taken /\ j = Len(taken) + 1
    BY <1>2, <1>3, <2>2, <2>4
  <2>5. CASE j \in DOMAIN taken /\ i = Len(taken) + 1
    BY <1>2, <1>3, <2>2, <2>5
  <2>. QED  BY <2>1, <2>3, <2>4, <2>5
<1>. QED  BY <1>2, <1>3

\* One more event is told.
LEMMA ToldMore ==
    ASSUME Inv, NEW e \in Event, events' = Append(events, e), begun' = begun,
           ToSet(taken) \subseteq ToSet(taken'),
           e.kind = "steer" => e.op \in Steers \cap ToSet(taken'),
           e.kind = "end" => e.op \in begun, e.marks \subseteq ToSet(taken')
    PROVE  events' \in Seq(Event) /\ Streamed'
<1>1. events \in Seq(Event) /\ Streamed
  BY Basics DEF Inv, Provider
<1>2. /\ events' \in Seq(Event) /\ DOMAIN events = 1..Len(events) /\ Len(events) \in Nat
      /\ DOMAIN events' = 1..(Len(events) + 1)
      /\ \A i \in DOMAIN events : events'[i] = events[i]
      /\ events'[Len(events) + 1] = e
  BY <1>1, AppendSet
<1>3. \A i \in DOMAIN events' : i \in DOMAIN events \/ i = Len(events) + 1
  BY <1>2
<1>4. ASSUME NEW i \in DOMAIN events'
      PROVE  /\ events'[i].kind = "steer" => events'[i].op \in Steers \cap ToSet(taken')
             /\ events'[i].kind = "end" => events'[i].op \in begun'
             /\ events'[i].marks \subseteq ToSet(taken')
  <2>1. CASE i \in DOMAIN events
    BY <1>1, <1>2, <2>1 DEF Streamed
  <2>2. CASE i = Len(events) + 1
    BY <1>2, <2>2
  <2>. QED  BY <1>3, <2>1, <2>2
<1>. QED  BY <1>2, <1>4 DEF Streamed

(***************************************************************************)
(* Each action keeps the invariant.                                        *)
(***************************************************************************)
LEMMA TypeNext ==
    ASSUME chat' \in Chats,
           call' \in [Steers -> {"idle", "claimed", "sent", "accepted", "refused", "unknown"}],
           job' \in [op : Ops \union {None}, input : BOOLEAN, marks : SUBSET Steers],
           asked' \subseteq Steers, held' \subseteq Steers, taken' \in Seq(Ops),
           events' \in Seq(Event), begun' \subseteq Ops, steered' \in Seq(Steers),
           cut' \subseteq Steers, faults' \in 0..MaxFaults
    PROVE  TypeOK'
BY DEF TypeOK, Chats, Turns, Effects

LEMMA StartTurnKeeps ==
    ASSUME Inv, NEW op \in Ops, StartTurn(op)
    PROVE  Inv'
<1>. DEFINE c == chat
            d == [chat EXCEPT !.fg = [op |-> op, consumed |-> FALSE],
                              !.queue = IF @ # <<>> THEN Tail(@) ELSE @]
<1>1. /\ TypeOK /\ Core(c) /\ Unwritten(c) /\ Busy /\ Flow /\ Worked /\ Streamed /\ Given
      /\ c \in Chats /\ c = chat
  BY Basics DEF Inv, Provider
<1>2. /\ ~Running(c) /\ chat' = d /\ job' = [NoJob EXCEPT !.op = op]
      /\ begun' = begun \union {op} /\ events = <<>>
      /\ (IF c.queue # <<>> THEN op = Head(c.queue) ELSE op \in Inputs \ begun)
      /\ call' = call /\ asked' = asked /\ held' = held /\ taken' = taken /\ events' = events
      /\ steered' = steered /\ cut' = cut /\ faults' = faults
  BY DEF StartTurn
<1>3. /\ d.fg = [op |-> op, consumed |-> FALSE] /\ d.pending = c.pending
      /\ d.effect = c.effect /\ d.ledger = c.ledger /\ d.staged = c.staged
      /\ d.queue = IF c.queue # <<>> THEN Tail(c.queue) ELSE c.queue
  BY <1>1 DEF Chats
<1>4. c.queue \in Seq(Agents) /\ Len(c.queue) \in Nat /\ DOMAIN c.queue = 1..Len(c.queue)
  BY <1>1, ChatIs
<1>5. /\ d.queue \in Seq(Agents)
      /\ c.queue # <<>> => 1 \in DOMAIN c.queue /\ op = c.queue[1]
      /\ \A i \in DOMAIN d.queue : d.queue[i] = IF c.queue # <<>> THEN c.queue[i + 1] ELSE c.queue[i]
      /\ \A i \in DOMAIN d.queue : i \in Nat /\ (c.queue # <<>> => i + 1 \in DOMAIN c.queue /\ i + 1 # 1)
  BY <1>2, <1>3, <1>4
<1>6. d \in Chats
  BY <1>1, <1>3, <1>5 DEF Chats, Turns, d
<1>7. DOMAIN c.pending = {}
  BY <1>1, <1>2, ChatIs, Names DEF Core, InTurn, Running
<1>8. op \in Steers => c.queue # <<>> /\ op \in ToSet(c.queue) /\ op \in Queued(c)
  BY <1>2, <1>5, Names DEF ToSet, Queued
<1>9. ToSet(d.queue) \subseteq ToSet(c.queue)
  <2>1. ASSUME NEW i \in DOMAIN d.queue  PROVE \E j \in DOMAIN c.queue : d.queue[i] = c.queue[j]
    <3>1. CASE c.queue # <<>>
      BY <1>5, <3>1
    <3>2. CASE c.queue = <<>>
      BY <1>3, <3>2
    <3>. QED  BY <3>1, <3>2
  <2>. QED  BY <2>1 DEF ToSet
<1>10. ToSet(c.queue) \subseteq ToSet(d.queue) \union {op}
  <2>1. ASSUME NEW j \in DOMAIN c.queue  PROVE c.queue[j] = op \/ \E i \in DOMAIN d.queue : d.queue[i] = c.queue[j]
    <3>1. CASE c.queue # <<>> /\ j # 1
      <4>1. j - 1 \in DOMAIN d.queue /\ (j - 1) + 1 = j
        BY <1>3, <1>4, <3>1
      <4>. QED  BY <1>5, <3>1, <4>1
    <3>2. CASE c.queue # <<>> /\ j = 1
      BY <1>5, <3>2
    <3>3. CASE c.queue = <<>>
      BY <1>4, <3>3
    <3>. QED  BY <3>1, <3>2, <3>3
  <2>. QED  BY <2>1 DEF ToSet
<1>11. Queued(chat)' = ToSet(d.queue) \union begun \union {op}
  BY <1>2 DEF Queued
<1>12. \A s \in Steers : s \in Queued(chat)' <=> s \in Queued(c)
  BY <1>8, <1>9, <1>10, <1>11 DEF Queued
<1>. HIDE DEF d
<1>13. Owned(chat)'
  <2>1. \A s \in Steers : s \notin Waiting(d) /\ (InLedger(d, s) <=> InLedger(c, s)) /\ s \notin Waiting(c)
    BY <1>1, <1>3, <1>6, <1>7, WaitingIs DEF InLedger
  <2>2. Waiting(chat)' = Waiting(d) /\ \A s : InLedger(chat, s)' <=> InLedger(d, s)
    BY <1>2 DEF Waiting, OpsOf, ToSet, InLedger
  <2>. QED  BY <1>1, <1>2, <1>3, <1>12, <2>1, <2>2 DEF Core, Owned
<1>14. Once(chat)'
  BY <1>1, <1>2, <1>3 DEF Core, Once
<1>15. Lined(chat)'
  <2>1. ASSUME NEW i \in DOMAIN d.queue
        PROVE  /\ d.queue[i] \notin begun \union {op} /\ ~InLedger(d, d.queue[i])
               /\ \A j \in DOMAIN d.queue : d.queue[i] = d.queue[j] => i = j
    <3>1. CASE c.queue # <<>>
      <4>1. i + 1 \in DOMAIN c.queue /\ i + 1 # 1 /\ d.queue[i] = c.queue[i + 1] /\ 1 \in DOMAIN c.queue /\ op = c.queue[1]
        BY <1>5, <3>1
      <4>2. d.queue[i] # op
        BY <1>1, <4>1 DEF Core, Lined
      <4>3. d.queue[i] \notin begun /\ ~InLedger(d, d.queue[i])
        BY <1>1, <1>3, <4>1 DEF Core, Lined, InLedger
      <4>4. ASSUME NEW j \in DOMAIN d.queue, d.queue[i] = d.queue[j]  PROVE i = j
        <5>1. j + 1 \in DOMAIN c.queue /\ d.queue[j] = c.queue[j + 1] /\ i \in Nat /\ j \in Nat
          BY <1>5, <3>1
        <5>2. i + 1 = j + 1
          BY <1>1, <4>1, <4>4, <5>1 DEF Core, Lined
        <5>. QED  BY <5>1, <5>2
      <4>. QED  BY <4>2, <4>3, <4>4
    <3>2. CASE c.queue = <<>>
      BY <1>3, <1>4, <3>2
    <3>. QED  BY <3>1, <3>2
  <2>. QED  BY <1>2, <2>1 DEF Lined, InLedger
<1>16. InTurn(chat)'
  BY <1>2, <1>3, <1>7 DEF InTurn
<1>17. Ordered(chat)'
  <2>1. \A s : At(s)' = At(s)
    BY <1>2 DEF At, SelectInSeq
  <2>2. ToSet(steered)' = ToSet(steered)
    BY <1>2
  <2>. QED  BY <1>1, <1>2, <1>3, <1>7, <2>1, <2>2 DEF Core, Ordered
<1>18. InputFirst(chat)'
  BY <1>1, <1>2, <1>3 DEF Core, InputFirst, InLedger
<1>19. Vouched(chat)'
  <2>1. \A s : At(s)' = At(s)
    BY <1>2 DEF At, SelectInSeq
  <2>. QED  BY <1>1, <1>2, <1>3, <2>1 DEF Core, Vouched, VouchedFor
<1>20. Unwritten(chat)'
  <2>1. op \in Steers => ~InLedger(c, op)
    BY <1>1, <1>5, <1>8 DEF Core, Lined
  <2>. QED  BY <1>2, <1>3, <2>1 DEF Unwritten, InLedger
<1>21. Busy'
  BY <1>1, <1>2, <1>3, <1>12 DEF Busy
<1>22. Flow'
  <2>1. op \in Steers \ cut => Nowhere(op)
    BY <1>1, <1>8 DEF Flow
  <2>. QED  BY <1>1, <1>2, <1>3, <1>9, <2>1 DEF Flow, Nowhere
<1>23. Worked'
  <2>1. op \notin ToSet(taken) \/ op \in cut
    <3>1. CASE op \in Steers
      BY <1>1, <1>8, <3>1 DEF Flow, Nowhere
    <3>2. CASE op \in Inputs
      <4>1. op \notin begun
        BY <1>2, <1>5, <1>4, <3>2, Names
      <4>. QED  BY <1>1, <3>2, <4>1 DEF Worked
    <3>. QED  BY <3>1, <3>2, Names
  <2>2. job'.op = op /\ job'.input = FALSE /\ job'.marks = {} /\ op # None
    BY <1>2, Names DEF NoJob
  <2>. QED  BY <1>1, <1>2, <2>1, <2>2 DEF Worked
<1>24. Streamed'
  BY <1>2 DEF Streamed
<1>25. Given'
  BY <1>1, <1>2, <1>3 DEF Given
<1>26. TypeOK'
  <2>1. job' \in [op : Ops \union {None}, input : BOOLEAN, marks : SUBSET Steers]
    BY <1>2 DEF NoJob
  <2>2. begun' \subseteq Ops
    BY <1>1, <1>2 DEF TypeOK
  <2>. QED  BY <1>1, <1>2, <1>6, <2>1, <2>2, TypeNext DEF TypeOK
<1>. QED  BY <1>13, <1>14, <1>15, <1>16, <1>17, <1>18, <1>19, <1>20, <1>21, <1>22, <1>23, <1>24,
             <1>25, <1>26 DEF Inv, Core, Provider

LEMMA SteerKeeps ==
    ASSUME Inv, NEW s \in Steers, Steer(s)
    PROVE  Inv'
<1>. DEFINE c == chat
            r == [op |-> s, turn |-> c.fg.op, status |-> "dispatching"]
            d == Recorded(c, s)
            m == Len(c.pending)
            n == Len(steered)
<1>1. /\ TypeOK /\ Core(c) /\ Unwritten(c) /\ Busy /\ Flow /\ Worked /\ Streamed /\ Given
      /\ c \in Chats /\ c = chat /\ Context
  BY Basics DEF Inv, Provider
<1>2. /\ Running(c) /\ c.effect[s] = "none" /\ chat' = d /\ steered' = Append(steered, s)
      /\ call' = call /\ job' = job /\ asked' = asked /\ held' = held /\ taken' = taken
      /\ events' = events /\ begun' = begun /\ cut' = cut /\ faults' = faults
  BY DEF Steer, providerVars
<1>3. r \in Pending /\ c.pending \in Seq(Pending) /\ r.op = s /\ r.turn = c.fg.op
  BY <1>1, <1>2, ChatIs, Names DEF Pending, Statuses, Running
<1>4. /\ d.fg = c.fg /\ d.pending = Append(c.pending, r)
      /\ d.effect = [c.effect EXCEPT ![s] = "pending"] /\ d.ledger = c.ledger
      /\ d.staged = c.staged \ {s} /\ d.queue = c.queue
  BY <1>1 DEF Recorded, Chats
<1>5. d.effect \in [Steers -> Effects] /\ d.effect[s] = "pending"
      /\ \A t \in Steers \ {s} : d.effect[t] = c.effect[t]
  BY <1>1, <1>4 DEF Chats, Effects
<1>. HIDE DEF r
<1>6. /\ d.pending \in Seq(Pending) /\ DOMAIN c.pending = 1..m /\ m \in Nat
      /\ DOMAIN d.pending = 1..(m + 1) /\ \A i \in DOMAIN c.pending : d.pending[i] = c.pending[i]
      /\ d.pending[m + 1] = r /\ ToSet(d.pending) = ToSet(c.pending) \union {r}
  BY <1>3, <1>4, AppendSet
<1>7. d \in Chats
  <2>1. d = [c EXCEPT !.pending = d.pending, !.effect = d.effect, !.staged = d.staged]
    BY <1>1, <1>4 DEF Recorded, Chats, r
  <2>2. d.staged \in SUBSET Staged
    BY <1>1, <1>4 DEF Chats
  <2>. HIDE DEF d
  <2>. QED  BY <1>1, <1>5, <1>6, <2>1, <2>2 DEF Chats
<1>. HIDE DEF d
<1>8. \A i \in DOMAIN d.pending : i \in DOMAIN c.pending \/ i = m + 1
  BY <1>6
<1>9. Waiting(d) = Waiting(c) \union {s}
  BY <1>3, <1>6 DEF Waiting, OpsOf
<1>10. s \notin Waiting(c) /\ ~InLedger(c, s) /\ s \notin Queued(c) /\ s \notin ToSet(steered)
  BY <1>1, <1>2 DEF Core, Owned, Given
<1>11. /\ \A i, j \in DOMAIN steered' : steered'[i] = steered'[j] => i = j
       /\ \A t \in ToSet(steered) : At(t)' = At(t) /\ At(t) \in 1..n
       /\ At(s)' = n + 1 /\ ToSet(steered') = ToSet(steered) \union {s} /\ n \in Nat
       /\ steered' \in Seq(Steers)
  BY <1>1, <1>2, <1>10, AtAppended, AppendSet DEF Context, Given
<1>. DEFINE at == [o \in Steers |-> At(o)']
<1>12. /\ \A o \in Steers : at[o] = At(o)'
       /\ \A o \in ToSet(steered) : o \in Steers /\ at[o] = At(o) /\ At(o) \in 1..n
       /\ at[s] = n + 1 /\ n \in Nat /\ ToSet(steered') = ToSet(steered) \union {s}
       /\ \A i \in DOMAIN c.pending : c.pending[i].op \in ToSet(steered)
  <2>1. ToSet(steered) \subseteq Steers
    BY <1>1 DEF Context, ToSet
  <2>. QED  BY <1>1, <1>11, <2>1 DEF Core, Ordered
<1>. HIDE DEF at
<1>13. Owned(chat)'
  <2>1. \A t \in Steers : Waiting(d) = Waiting(c) \union {s} /\ (InLedger(d, t) <=> InLedger(c, t))
    BY <1>4, <1>9 DEF InLedger
  <2>2. /\ Waiting(chat)' = Waiting(d) /\ \A t : InLedger(chat, t)' <=> InLedger(d, t)
        /\ Queued(chat)' = Queued(c)
    BY <1>2, <1>4 DEF Waiting, OpsOf, ToSet, InLedger, Queued
  <2>3. s \in Staged => s \notin d.staged
    BY <1>4
  <2>. QED  BY <1>1, <1>2, <1>4, <1>5, <1>10, <2>1, <2>2, <2>3 DEF Core, Owned
<1>14. Once(chat)' /\ Lined(chat)' /\ InputFirst(chat)'
  BY <1>1, <1>2, <1>4 DEF Core, Once, Lined, InputFirst, InLedger
<1>15. InTurn(chat)'
  BY <1>1, <1>2, <1>3, <1>4, <1>6, <1>8 DEF Core, InTurn, Running
<1>16. Ordered(chat)'
  <2>1. ASSUME NEW i \in DOMAIN d.pending
        PROVE  /\ d.pending[i].op \in ToSet(steered')
               /\ \A j \in DOMAIN d.pending : i < j => at[d.pending[i].op] < at[d.pending[j].op]
    <3>1. d.pending[i].op \in ToSet(steered')
      BY <1>3, <1>6, <1>8, <1>12
    <3>2. ASSUME NEW j \in DOMAIN d.pending, i < j
          PROVE  at[d.pending[i].op] < at[d.pending[j].op]
      <4>1. i \in DOMAIN c.pending
        BY <1>6, <1>8, <3>2
      <4>2. CASE j \in DOMAIN c.pending
        <5>1. At(c.pending[i].op) < At(c.pending[j].op)
          BY <1>1, <3>2, <4>1, <4>2 DEF Core, Ordered
        <5>2. at[c.pending[i].op] = At(c.pending[i].op) /\ at[c.pending[j].op] = At(c.pending[j].op)
          BY <1>12, <4>1, <4>2
        <5>3. d.pending[i] = c.pending[i] /\ d.pending[j] = c.pending[j]
          BY <1>6, <4>1, <4>2
        <5>. QED  BY <5>1, <5>2, <5>3
      <4>3. CASE j = m + 1
        <5>1. d.pending[i] = c.pending[i] /\ d.pending[j].op = s
          BY <1>3, <1>6, <4>1, <4>3
        <5>2. at[c.pending[i].op] \in 1..n
          BY <1>12, <4>1
        <5>3. at[s] = n + 1
          BY <1>12
        <5>. QED  BY <1>12, <5>1, <5>2, <5>3
      <4>. QED  BY <1>8, <4>2, <4>3
    <3>. QED  BY <3>1, <3>2
  <2>2. ASSUME NEW i \in DOMAIN c.ledger, c.ledger[i].state # "input"
        PROVE  /\ c.ledger[i].op \in ToSet(steered')
               /\ \A j \in DOMAIN c.ledger :
                    j > i /\ c.ledger[j].state # "input" => at[c.ledger[i].op] < at[c.ledger[j].op]
               /\ \A j \in DOMAIN d.pending : at[c.ledger[i].op] < at[d.pending[j].op]
    <3>0. /\ \A j \in DOMAIN c.ledger : c.ledger[j].state # "input" => c.ledger[j].op \in ToSet(steered)
          /\ \A j \in DOMAIN c.ledger :
                j > i /\ c.ledger[j].state # "input" => At(c.ledger[i].op) < At(c.ledger[j].op)
          /\ \A j \in DOMAIN c.pending : At(c.ledger[i].op) < At(c.pending[j].op)
      BY <1>1, <2>2 DEF Core, Ordered
    <3>1. /\ c.ledger[i].op \in ToSet(steered) /\ at[c.ledger[i].op] = At(c.ledger[i].op)
          /\ At(c.ledger[i].op) \in 1..n
      BY <1>12, <2>2, <3>0
    <3>2. ASSUME NEW j \in DOMAIN c.ledger, j > i, c.ledger[j].state # "input"
          PROVE  at[c.ledger[i].op] < at[c.ledger[j].op]
      <4>1. at[c.ledger[j].op] = At(c.ledger[j].op)
        BY <1>12, <3>0, <3>2
      <4>2. At(c.ledger[i].op) < At(c.ledger[j].op)
        BY <3>0, <3>2
      <4>. QED  BY <3>1, <4>1, <4>2
    <3>3. ASSUME NEW j \in DOMAIN d.pending
          PROVE  at[c.ledger[i].op] < at[d.pending[j].op]
      <4>1. CASE j \in DOMAIN c.pending
        <5>1. d.pending[j] = c.pending[j] /\ at[c.pending[j].op] = At(c.pending[j].op)
          BY <1>6, <1>12, <4>1
        <5>. QED  BY <3>0, <3>1, <4>1, <5>1
      <4>2. CASE j = m + 1
        <5>1. d.pending[j].op = s
          BY <1>3, <1>6, <4>2
        <5>. QED  BY <1>12, <3>1, <5>1
      <4>. QED  BY <1>8, <4>1, <4>2
    <3>. QED  BY <1>12, <3>1, <3>2, <3>3
  <2>4. \A i \in DOMAIN d.ledger : d.ledger[i].state # "input" => d.ledger[i].op \in ToSet(steered')
    BY <1>4, <2>2
  <2>5. \A o \in ToSet(steered') : at[o] = At(o)'
    BY <1>1, <1>12
  <2>6. /\ \A i \in DOMAIN chat'.pending : chat'.pending[i].op \in ToSet(steered')
        /\ \A i, j \in DOMAIN chat'.pending : i < j => at[chat'.pending[i].op] < at[chat'.pending[j].op]
    BY <1>2, <2>1
  <2>7. \A i \in DOMAIN chat'.ledger : chat'.ledger[i].state # "input" =>
          /\ chat'.ledger[i].op \in ToSet(steered')
          /\ \A j \in DOMAIN chat'.ledger : j > i /\ chat'.ledger[j].state # "input" =>
                at[chat'.ledger[i].op] < at[chat'.ledger[j].op]
          /\ \A j \in DOMAIN chat'.pending : at[chat'.ledger[i].op] < at[chat'.pending[j].op]
    BY <1>2, <1>4, <2>2
  <2>. HIDE DEF at
  <2>8. /\ \A i \in DOMAIN chat'.pending : at[chat'.pending[i].op] = At(chat.pending[i].op)'
        /\ \A i \in DOMAIN chat'.ledger : chat'.ledger[i].state # "input" =>
              at[chat'.ledger[i].op] = At(chat.ledger[i].op)'
    BY <2>5, <2>6, <2>7
  <2>. QED  BY <2>6, <2>7, <2>8 DEF Ordered
<1>17. Vouched(chat)'
  <2>1. ASSUME NEW i \in DOMAIN c.ledger, c.ledger[i].state = "applied"
        PROVE  \/ c.ledger[i].op \in ToSet(taken)
               \/ \E t \in ToSet(taken) \cap Steers : at[c.ledger[i].op] < at[t]
    <3>1. VouchedFor(c.ledger[i].op) /\ c.ledger[i].op \in ToSet(steered)
      BY <1>1, <2>1 DEF Core, Vouched, Ordered
    <3>2. \A t \in ToSet(taken) \cap Steers : t \in ToSet(steered)
      BY <1>1 DEF Given
    <3>. QED  BY <1>2, <1>12, <3>1, <3>2 DEF VouchedFor
  <2>2. \A i \in DOMAIN c.ledger : c.ledger[i].state = "applied" => c.ledger[i].op \in ToSet(steered)
    BY <1>1 DEF Core, Ordered
  <2>. QED  BY <1>1, <1>2, <1>4, <1>12, <2>1, <2>2 DEF Vouched, VouchedFor
<1>18. Unwritten(chat)'
  BY <1>1, <1>2, <1>4 DEF Unwritten, InLedger
<1>19. Busy' /\ Flow'
  <2>1. call[s] = "idle" /\ (s \notin cut => Nowhere(s))
    BY <1>1, <1>2 DEF Busy, Flow
  <2>2. Busy'
    BY <1>1, <1>2, <1>4, <1>5, <2>1 DEF Busy, Queued
  <2>3. Flow'
    BY <1>1, <1>2, <1>4, <1>5, <2>1 DEF Flow, Nowhere
  <2>. QED  BY <2>2, <2>3
<1>20. Worked' /\ Streamed'
  BY <1>1, <1>2 DEF Worked, Streamed
<1>21. Given'
  BY <1>1, <1>2, <1>5, <1>11 DEF Given
<1>22. TypeOK'
  BY <1>1, <1>2, <1>7, <1>11, TypeNext DEF TypeOK
<1>. QED  BY <1>13, <1>14, <1>15, <1>16, <1>17, <1>18, <1>19, <1>20, <1>21, <1>22 DEF Inv, Core, Provider

\* What an action keeps when it leaves the chat and its histories alone.
LEMMA ChatKept ==
    ASSUME Inv, chat' = chat, begun' = begun, steered' = steered, ToSet(taken) \subseteq ToSet(taken')
    PROVE  chat' \in Chats /\ Core(chat)' /\ Unwritten(chat)' /\ Queued(chat)' = Queued(chat)
<1>1. Sound(chat')
  BY Basics
<1>. QED  BY <1>1, Carried DEF Queued

LEMMA ClaimKeeps ==
    ASSUME Inv, NEW s \in Steers, Claim(s)
    PROVE  Inv'
<1>. DEFINE c == chat
            f == [c.effect EXCEPT ![s] = "dispatched"]
            d == [c EXCEPT !.effect = f]
<1>1. /\ TypeOK /\ Core(c) /\ Sound(c) /\ Busy /\ Flow /\ Worked /\ Streamed /\ Given /\ c \in Chats
  BY Basics DEF Inv, Provider
<1>2. /\ c.effect[s] = "pending" /\ chat' = d /\ call' = [call EXCEPT ![s] = "claimed"]
      /\ job' = job /\ asked' = asked /\ held' = held /\ taken' = taken
      /\ events' = events /\ begun' = begun /\ steered' = steered /\ cut' = cut /\ faults' = faults
  BY <1>1 DEF Claim, providerVars, Chats
<1>3. f \in [Steers -> Effects] /\ f[s] = "dispatched" /\ \A t \in Steers \ {s} : f[t] = c.effect[t]
  BY <1>1 DEF Chats, Effects
<1>4. \A t \in Steers : Becomes(c.effect[t], f[t])
  BY <1>2, <1>3 DEF Becomes
<1>. HIDE DEF f
<1>5. Sound(d) /\ d.effect = f /\ d.fg = c.fg /\ d.pending = c.pending
      /\ d.ledger = c.ledger /\ d.staged = c.staged /\ d.queue = c.queue
  BY <1>1, <1>3, <1>4, EffectSound
<1>. HIDE DEF d
<1>6. chat' \in Chats /\ Core(chat)' /\ Unwritten(chat)'
  BY <1>2, <1>5, Carried
<1>7. Queued(chat)' = Queued(c) /\ s \notin Queued(c)
  BY <1>1, <1>2, <1>5 DEF Queued, Core, Owned
<1>8. call' \in [Steers -> {"idle", "claimed", "sent", "accepted", "refused", "unknown"}]
      /\ call'[s] = "claimed" /\ \A t \in Steers \ {s} : call'[t] = call[t]
  BY <1>1, <1>2 DEF TypeOK
<1>9. Busy'
  BY <1>1, <1>2, <1>3, <1>5, <1>7, <1>8 DEF Busy
<1>10. Flow'
  <2>1. s \notin cut => Nowhere(s)
    BY <1>1, <1>2 DEF Flow
  <2>. QED  BY <1>1, <1>2, <1>3, <1>5, <1>8, <2>1 DEF Flow, Nowhere
<1>11. Worked' /\ Streamed'
  BY <1>1, <1>2 DEF Worked, Streamed
<1>12. Given'
  BY <1>1, <1>2, <1>3, <1>5 DEF Given
<1>13. TypeOK'
  BY <1>1, <1>2, <1>6, <1>8, TypeNext DEF TypeOK
<1>. QED  BY <1>6, <1>9, <1>10, <1>11, <1>12, <1>13 DEF Inv, Provider

LEMMA SendKeeps ==
    ASSUME Inv, NEW s \in Steers, Send(s)
    PROVE  Inv'
<1>1. TypeOK /\ Busy /\ Flow /\ Worked /\ Streamed /\ Given
  BY DEF Inv, Provider
<1>2. /\ call[s] = "claimed" /\ chat' = chat /\ job' = job /\ held' = held /\ taken' = taken
      /\ events' = events /\ begun' = begun /\ steered' = steered /\ cut' = cut /\ faults' = faults
      /\ \/ call' = [call EXCEPT ![s] = "sent"] /\ asked' = asked \union {s}
         \/ call' = [call EXCEPT ![s] = "refused"] /\ asked' = asked
  BY DEF Send
<1>3. chat' \in Chats /\ Core(chat)' /\ Unwritten(chat)' /\ Queued(chat)' = Queued(chat)
  BY <1>2, ChatKept
<1>4. /\ call' \in [Steers -> {"idle", "claimed", "sent", "accepted", "refused", "unknown"}]
      /\ \/ call'[s] = "sent" /\ asked' = asked \union {s}
         \/ call'[s] = "refused" /\ asked' = asked
      /\ \A t \in Steers \ {s} : call'[t] = call[t]
  BY <1>1, <1>2 DEF TypeOK
<1>5. /\ chat.effect[s] \notin {"none", "pending", "failed"} /\ s \notin Queued(chat)
      /\ s \notin cut => Nowhere(s)
  BY <1>1, <1>2 DEF Busy, Flow
<1>6. Busy'
  BY <1>1, <1>2, <1>3, <1>4, <1>5 DEF Busy
<1>7. Flow'
  <2>1. s \notin ToSet(chat.queue) /\ s \notin begun
    BY <1>5 DEF Queued
  <2>. QED  BY <1>1, <1>2, <1>4, <1>5, <2>1 DEF Flow, Nowhere
<1>8. Worked' /\ Streamed'
  BY <1>1, <1>2 DEF Worked, Streamed
<1>9. Given'
  BY <1>1, <1>2, <1>4, <1>5 DEF Given
<1>10. TypeOK'
  BY <1>1, <1>2, <1>3, <1>4, TypeNext DEF TypeOK
<1>. QED  BY <1>3, <1>6, <1>7, <1>8, <1>9, <1>10 DEF Inv, Provider

\* A call goes on: no answer in time, or the answer arrives.
LEMMA CallKeeps ==
    ASSUME Inv, NEW s \in Steers, Timeout(s) \/ Reply(s)
    PROVE  Inv'
<1>1. TypeOK /\ Busy /\ Flow /\ Worked /\ Streamed /\ Given
  BY DEF Inv, Provider
<1>2. /\ call[s] = "sent" /\ chat' = chat /\ job' = job /\ asked' = asked /\ held' = held
      /\ taken' = taken /\ events' = events /\ begun' = begun /\ steered' = steered /\ cut' = cut
      /\ faults' = faults \/ (faults < MaxFaults /\ faults' = faults + 1)
      /\ \E a \in {"unknown", "accepted"} : call' = [call EXCEPT ![s] = a]
  BY DEF Timeout, Reply, Fault, providerVars
<1>3. chat' \in Chats /\ Core(chat)' /\ Unwritten(chat)' /\ Queued(chat)' = Queued(chat)
  BY <1>2, ChatKept
<1>4. /\ call' \in [Steers -> {"idle", "claimed", "sent", "accepted", "refused", "unknown"}]
      /\ call'[s] \in {"unknown", "accepted"} /\ \A t \in Steers \ {s} : call'[t] = call[t]
  BY <1>1, <1>2 DEF TypeOK
<1>5. Busy'
  BY <1>1, <1>2, <1>3, <1>4 DEF Busy
<1>6. Flow'
  BY <1>1, <1>2, <1>4 DEF Flow, Nowhere
<1>7. Worked' /\ Streamed' /\ Given'
  BY <1>1, <1>2 DEF Worked, Streamed, Given
<1>8. TypeOK'
  <2>1. faults' \in 0..MaxFaults
    BY <1>1, <1>2, SteeringAssumption DEF TypeOK
  <2>. QED  BY <1>1, <1>2, <1>3, <1>4, <2>1, TypeNext DEF TypeOK
<1>. QED  BY <1>3, <1>5, <1>6, <1>7, <1>8 DEF Inv, Provider

LEMMA AcceptKeeps ==
    ASSUME Inv, NEW s \in Steers, Accept(s)
    PROVE  Inv'
<1>1. TypeOK /\ Busy /\ Flow /\ Worked /\ Streamed /\ Given
  BY DEF Inv, Provider
<1>2. /\ s \in asked /\ asked' = asked \ {s} /\ held' = held \union {s} /\ chat' = chat
      /\ call' = call /\ job' = job /\ taken' = taken /\ events' = events /\ begun' = begun
      /\ steered' = steered /\ cut' = cut /\ faults' = faults
  BY DEF Accept
<1>3. chat' \in Chats /\ Core(chat)' /\ Unwritten(chat)' /\ Queued(chat)' = Queued(chat)
  BY <1>2, ChatKept
<1>4. Busy' /\ Worked' /\ Streamed'
  BY <1>1, <1>2, <1>3 DEF Busy, Worked, Streamed
<1>5. Flow'
  BY <1>1, <1>2 DEF Flow, Nowhere
<1>6. Given'
  BY <1>1, <1>2 DEF Given
<1>7. TypeOK'
  BY <1>1, <1>2, <1>3, TypeNext DEF TypeOK
<1>. QED  BY <1>3, <1>4, <1>5, <1>6, <1>7 DEF Inv, Provider

LEMMA RejectKeeps ==
    ASSUME Inv, NEW s \in Steers, Reject(s)
    PROVE  Inv'
<1>1. TypeOK /\ Busy /\ Flow /\ Worked /\ Streamed /\ Given
  BY DEF Inv, Provider
<1>2. /\ s \in asked /\ asked' = asked \ {s} /\ held' = held /\ chat' = chat
      /\ call' = [call EXCEPT ![s] = IF @ = "sent" THEN "refused" ELSE @]
      /\ job' = job /\ taken' = taken /\ events' = events /\ begun' = begun
      /\ steered' = steered /\ cut' = cut /\ faults' = faults
  BY DEF Reject
<1>3. chat' \in Chats /\ Core(chat)' /\ Unwritten(chat)' /\ Queued(chat)' = Queued(chat)
  BY <1>2, ChatKept
<1>4. /\ call' \in [Steers -> {"idle", "claimed", "sent", "accepted", "refused", "unknown"}]
      /\ call'[s] = IF call[s] = "sent" THEN "refused" ELSE call[s]
      /\ \A t \in Steers \ {s} : call'[t] = call[t]
  BY <1>1, <1>2 DEF TypeOK
<1>5. Busy'
  BY <1>1, <1>2, <1>3, <1>4 DEF Busy
<1>6. Flow'
  BY <1>1, <1>2, <1>4 DEF Flow, Nowhere
<1>7. Worked' /\ Streamed'
  BY <1>1, <1>2 DEF Worked, Streamed
<1>8. Given'
  BY <1>1, <1>2 DEF Given
<1>9. TypeOK'
  BY <1>1, <1>2, <1>3, <1>4, TypeNext DEF TypeOK
<1>. QED  BY <1>3, <1>5, <1>6, <1>7, <1>8, <1>9 DEF Inv, Provider

LEMMA ReportKeeps ==
    ASSUME Inv, NEW s \in Steers, Report(s)
    PROVE  Inv'
<1>. DEFINE c == chat
<1>1. /\ TypeOK /\ Core(c) /\ Sound(c) /\ Busy /\ Flow /\ Worked /\ Streamed /\ Given /\ c \in Chats
      /\ Context
  BY Basics DEF Inv, Provider
<1>2. /\ \/ call[s] = "accepted" /\ chat' = Admitted(c, s)
         \/ call[s] = "refused" /\ chat' = Refused(c, s)
         \/ call[s] = "unknown" /\ chat' = Unknown(c, s)
      /\ call' = [call EXCEPT ![s] = "idle"]
      /\ job' = job /\ asked' = asked /\ held' = held /\ taken' = taken
      /\ events' = events /\ begun' = begun /\ steered' = steered /\ cut' = cut /\ faults' = faults
  BY DEF Report, providerVars
<1>3. /\ call' \in [Steers -> {"idle", "claimed", "sent", "accepted", "refused", "unknown"}]
      /\ call'[s] = "idle" /\ \A t \in Steers \ {s} : call'[t] = call[t]
  BY <1>1, <1>2 DEF TypeOK
<1>4. Worked' /\ Streamed'
  BY <1>1, <1>2 DEF Worked, Streamed
<1>5. SUFFICES Sound(chat') /\ Busy' /\ Flow' /\ Given'
  <2>1. chat' \in Chats /\ Core(chat)' /\ Unwritten(chat)'
    BY <1>2, <1>5, Carried
  <2>2. TypeOK'
    BY <1>1, <1>2, <1>3, <2>1, TypeNext DEF TypeOK
  <2>. QED  BY <1>4, <1>5, <2>1, <2>2 DEF Inv, Provider
<1>6. ASSUME Sound(chat'), Later(c, chat')  PROVE Sound(chat') /\ Busy' /\ Flow' /\ Given'
  BY <1>2, <1>3, <1>6, ProviderKept
<1>7. ASSUME IsPending(c, s), NEW status \in Statuses, NEW effect \in {"accepted", "ambiguous"},
             chat' = Answered(c, s, status, effect)
      PROVE  Sound(chat') /\ Later(c, chat')
  <2>1. Sound(chat')
    BY <1>1, <1>7, AnsweredSound
  <2>2. /\ chat'.queue = c.queue /\ chat'.effect[s] = effect
        /\ \A t \in Steers \ {s} : chat'.effect[t] = c.effect[t]
    BY <1>1, <1>7, AnsweredIs DEF Effects
  <2>3. c.effect[s] # "none"
    BY <1>1, <1>7, WaitingIs DEF Core, Owned
  <2>. QED  BY <2>1, <2>2, <2>3 DEF Later
<1>8. CASE chat' = c
  BY <1>1, <1>6, <1>8 DEF Later
<1>9. CASE call[s] = "accepted" /\ chat' = Admitted(c, s) /\ IsPending(c, s)
  <2>1. chat' = Answered(c, s, "accepted", "accepted")
    BY <1>9 DEF Admitted, Answered
  <2>. QED  BY <1>6, <1>7, <1>9, <2>1 DEF Statuses
<1>10. CASE call[s] = "unknown" /\ chat' = Unknown(c, s) /\ IsPending(c, s)
  <2>1. chat' = Answered(c, s, "uncertain", "ambiguous")
    BY <1>10 DEF Unknown, Answered
  <2>. QED  BY <1>6, <1>7, <1>10, <2>1 DEF Statuses
<1>11. CASE call[s] = "refused" /\ chat' = Refused(c, s) /\ IsPending(c, s)
  <2>1. Sound(chat') /\ Returned(c, chat', s) /\ c.effect[s] # "none"
    BY <1>1, <1>11, RefusedSound
  <2>2. /\ \A t \in Steers \ {s} : chat'.effect[t] = c.effect[t]
        /\ \A t \in Steers \ {s} : t \in ToSet(chat'.queue) <=> t \in ToSet(c.queue)
        /\ chat'.effect[s] # "none"
    <3>1. ASSUME s \in Agents  PROVE ToSet(Append(c.queue, s)) = ToSet(c.queue) \union {s}
      BY <1>1, <3>1, ChatIs, AppendSet
    <3>. QED  BY <2>1, <3>1 DEF Returned
  <2>3. s \notin cut => Nowhere(s)
    BY <1>1, <1>11 DEF Flow
  <2>4. Busy'
    BY <1>1, <1>2, <1>3, <2>2 DEF Busy, Queued
  <2>5. Flow'
    BY <1>1, <1>2, <1>3, <2>2, <2>3 DEF Flow, Nowhere
  <2>6. Given'
    BY <1>1, <1>2, <2>1, <2>2 DEF Given
  <2>. QED  BY <2>1, <2>4, <2>5, <2>6
<1>12. ~IsPending(c, s) => chat' = c
  BY <1>2 DEF Admitted, Refused, Unknown
<1>. QED  BY <1>2, <1>8, <1>9, <1>10, <1>11, <1>12

LEMMA TakeInputKeeps ==
    ASSUME Inv, TakeInput
    PROVE  Inv'
<1>. DEFINE e == [kind |-> "input", op |-> job.op, marks |-> {}]
<1>1. /\ TypeOK /\ Core(chat) /\ Busy /\ Flow /\ Worked /\ Streamed /\ Given /\ chat \in Chats
      /\ taken \in Seq(Ops)
  BY Basics DEF Inv, Provider
<1>2. /\ job # NoJob /\ ~job.input /\ job' = [job EXCEPT !.input = TRUE]
      /\ taken' = Append(taken, job.op) /\ events' = Append(events, e) /\ chat' = chat
      /\ call' = call /\ asked' = asked /\ held' = held /\ begun' = begun
      /\ steered' = steered /\ cut' = cut /\ faults' = faults
  BY DEF TakeInput, Told
<1>3. job.op \in begun /\ job.op \in Ops /\ job.op # None /\ (job.op \notin ToSet(taken) \/ job.op \in cut)
  BY <1>1, <1>2, Basics, Names DEF Worked
<1>4. /\ taken' \in Seq(Ops) /\ ToSet(taken') = ToSet(taken) \union {job.op}
      /\ \A i, j \in DOMAIN taken' : taken'[i] = taken'[j] => i = j \/ taken'[i] \in cut'
  BY <1>2, <1>3, TakenMore
<1>5. e \in Event /\ e.kind = "input" /\ e.marks = {}
  BY <1>3 DEF Event
<1>6. events' \in Seq(Event) /\ Streamed'
  BY <1>2, <1>4, <1>5, ToldMore
<1>7. chat' \in Chats /\ Core(chat)' /\ Unwritten(chat)' /\ Queued(chat)' = Queued(chat)
  BY <1>2, <1>4, ChatKept
<1>8. /\ job' \in [op : Ops \union {None}, input : BOOLEAN, marks : SUBSET Steers]
      /\ job'.op = job.op /\ job'.input /\ job'.marks = job.marks
  BY <1>1, <1>2 DEF TypeOK
<1>9. Busy'
  BY <1>1, <1>2, <1>7 DEF Busy
<1>10. ASSUME job.op \in Steers \ cut
       PROVE  /\ chat.effect[job.op] = "completed" /\ call[job.op] = "idle"
              /\ job.op \notin ToSet(chat.queue) /\ job.op \notin asked \union held
  <2>1. job.op \in Queued(chat)
    BY <1>3 DEF Queued
  <2>2. chat.effect[job.op] = "completed" /\ call[job.op] = "idle"
    BY <1>1, <1>10, <2>1 DEF Core, Owned, Busy
  <2>3. job.op \notin ToSet(chat.queue)
    BY <1>1, <1>3 DEF Core, Lined, ToSet
  <2>. QED  BY <1>1, <1>3, <1>10, <2>2, <2>3 DEF Flow
<1>11. Flow'
  BY <1>1, <1>2, <1>4, <1>10 DEF Flow, Nowhere
<1>12. Worked'
  BY <1>1, <1>2, <1>3, <1>4, <1>8 DEF Worked
<1>13. Given'
  <2>1. job.op \in Steers => job.op \in ToSet(steered)
    <3>1. job.op \in Steers => chat.effect[job.op] = "completed"
      BY <1>1, <1>3 DEF Core, Owned, Queued
    <3>. QED  BY <1>1, <3>1 DEF Given
  <2>. QED  BY <1>1, <1>2, <1>4, <2>1 DEF Given
<1>14. TypeOK'
  BY <1>1, <1>2, <1>4, <1>6, <1>7, <1>8, TypeNext DEF TypeOK
<1>. QED  BY <1>6, <1>7, <1>9, <1>11, <1>12, <1>13, <1>14 DEF Inv, Provider

LEMMA TakeKeeps ==
    ASSUME Inv, NEW s \in Steers, Take(s)
    PROVE  Inv'
<1>. DEFINE e == [kind |-> "steer", op |-> s, marks |-> {}]
<1>1. /\ TypeOK /\ Core(chat) /\ Busy /\ Flow /\ Worked /\ Streamed /\ Given /\ chat \in Chats
      /\ taken \in Seq(Ops)
  BY Basics DEF Inv, Provider
<1>2. /\ s \in held /\ held' = held \ {s} /\ taken' = Append(taken, s) /\ chat' = chat
      /\ call' = call /\ asked' = asked /\ begun' = begun
      /\ steered' = steered /\ cut' = cut /\ faults' = faults
      /\ \/ job = NoJob /\ job' = job /\ events' = events
         \/ /\ job # NoJob /\ job.input /\ job' = [job EXCEPT !.marks = @ \union {s}]
            /\ events' = Append(events, e)
  BY DEF Take, Told
<1>3. s \in Ops /\ (s \notin ToSet(taken) \/ s \in cut)
  BY <1>1, <1>2, Names DEF Flow
<1>4. /\ taken' \in Seq(Ops) /\ ToSet(taken') = ToSet(taken) \union {s}
      /\ \A i, j \in DOMAIN taken' : taken'[i] = taken'[j] => i = j \/ taken'[i] \in cut'
  BY <1>2, <1>3, TakenMore
<1>5. e \in Event /\ e.kind = "steer" /\ e.op = s /\ e.marks = {}
  BY <1>3 DEF Event
<1>6. events' \in Seq(Event) /\ Streamed'
  <2>1. CASE events' = Append(events, e)
    BY <1>2, <1>4, <1>5, <2>1, ToldMore
  <2>2. CASE events' = events
    BY <1>1, <1>2, <1>4, <2>2 DEF Streamed, TypeOK
  <2>. QED  BY <1>2, <2>1, <2>2
<1>7. chat' \in Chats /\ Core(chat)' /\ Unwritten(chat)' /\ Queued(chat)' = Queued(chat)
  BY <1>2, <1>4, ChatKept
<1>8. /\ job' \in [op : Ops \union {None}, input : BOOLEAN, marks : SUBSET Steers]
      /\ job'.op = job.op /\ job'.input = job.input /\ job'.marks \subseteq job.marks \union {s}
      /\ (job = NoJob => job' = job) /\ (job # NoJob => job.input)
  BY <1>1, <1>2 DEF TypeOK
<1>9. Busy'
  BY <1>1, <1>2, <1>7 DEF Busy
<1>10. Flow'
  BY <1>1, <1>2, <1>4 DEF Flow, Nowhere
<1>11. Worked'
  <2>1. ToSet(taken') \cap Inputs \subseteq begun'
    BY <1>1, <1>2, <1>4, Names DEF Worked
  <2>2. job' # NoJob => job # NoJob
    BY <1>8
  <2>3. job'.op = None => job' = NoJob
    BY <1>1, <1>8 DEF Worked
  <2>. QED  BY <1>1, <1>2, <1>4, <1>8, <2>1, <2>2, <2>3 DEF Worked
<1>12. Given'
  BY <1>1, <1>2, <1>4 DEF Given
<1>13. TypeOK'
  BY <1>1, <1>2, <1>4, <1>6, <1>7, <1>8, TypeNext DEF TypeOK
<1>. QED  BY <1>6, <1>7, <1>9, <1>10, <1>11, <1>12, <1>13 DEF Inv, Provider

LEMMA EndJobKeeps ==
    ASSUME Inv, EndJob
    PROVE  Inv'
<1>. DEFINE e == [kind |-> "end", op |-> job.op, marks |-> job.marks]
<1>1. TypeOK /\ Busy /\ Flow /\ Worked /\ Streamed /\ Given
  BY DEF Inv, Provider
<1>2. /\ job # NoJob /\ job' = NoJob /\ events' = Append(events, e) /\ chat' = chat
      /\ call' = call /\ asked' = asked /\ held' = held /\ taken' = taken /\ begun' = begun
      /\ steered' = steered /\ cut' = cut /\ faults' = faults
  BY DEF EndJob, Told
<1>3. e \in Event /\ e.kind = "end" /\ e.op \in begun /\ e.marks \subseteq ToSet(taken)
  BY <1>1, <1>2, Basics DEF Event, Worked
<1>4. events' \in Seq(Event) /\ Streamed'
  BY <1>2, <1>3, ToldMore
<1>5. chat' \in Chats /\ Core(chat)' /\ Unwritten(chat)' /\ Queued(chat)' = Queued(chat)
  BY <1>2, ChatKept
<1>6. Busy' /\ Given'
  BY <1>1, <1>2, <1>5 DEF Busy, Given
<1>7. Flow'
  BY <1>1, <1>2 DEF Flow, Nowhere
<1>8. Worked'
  BY <1>1, <1>2 DEF Worked, NoJob
<1>9. TypeOK'
  <2>1. job' \in [op : Ops \union {None}, input : BOOLEAN, marks : SUBSET Steers]
    BY <1>2 DEF NoJob
  <2>. QED  BY <1>1, <1>2, <1>4, <1>5, <2>1, TypeNext DEF TypeOK
<1>. QED  BY <1>4, <1>5, <1>6, <1>7, <1>8, <1>9 DEF Inv, Provider

\* The connection breaks or the daemon restarts: the provider may have used a
\* direction it held, and holds none any more.
LEMMA Dropped ==
    ASSUME Inv, cut \subseteq cut', begun' = begun, steered' = steered, asked' = {}, held' = {},
           taken' \in {taken} \union {Append(taken, s) : s \in held}, Sound(chat'),
           Later(chat, chat'), job' = NoJob,
           \A s \in Steers : call'[s] = call[s] \/ call'[s] = "idle"
                             \/ (call[s] # "idle" /\ s \in cut')
    PROVE  /\ chat' \in Chats /\ Core(chat)' /\ Unwritten(chat)' /\ Busy' /\ Flow' /\ Given'
           /\ Worked' /\ taken' \in Seq(Ops) /\ ToSet(taken) \subseteq ToSet(taken')
           /\ job' \in [op : Ops \union {None}, input : BOOLEAN, marks : SUBSET Steers]
<1>1. Worked /\ Flow /\ taken \in Seq(Ops) /\ held \subseteq Steers
  BY Basics DEF Inv, Provider
<1>2. /\ taken' \in Seq(Ops) /\ ToSet(taken) \subseteq ToSet(taken')
      /\ ToSet(taken') \subseteq ToSet(taken) \union held
      /\ \A i, j \in DOMAIN taken' : taken'[i] = taken'[j] => i = j \/ taken'[i] \in cut'
  <2>1. CASE taken' = taken
    BY <1>1, <2>1 DEF Worked
  <2>2. ASSUME NEW s \in held, taken' = Append(taken, s)
        PROVE  /\ taken' \in Seq(Ops) /\ ToSet(taken') = ToSet(taken) \union {s}
               /\ \A i, j \in DOMAIN taken' : taken'[i] = taken'[j] => i = j \/ taken'[i] \in cut'
    <3>1. s \in Ops /\ (s \notin ToSet(taken) \/ s \in cut')
      BY <1>1, <2>2, Names DEF Flow
    <3>. QED  BY <2>2, <3>1, TakenMore
  <2>. QED  BY <2>1, <2>2
<1>3. Busy' /\ Flow' /\ Given'
  BY <1>2, ProviderKept
<1>4. chat' \in Chats /\ Core(chat)' /\ Unwritten(chat)'
  BY <1>2, Carried
<1>5. Worked'
  BY <1>1, <1>2, Names DEF Worked, NoJob
<1>6. job' \in [op : Ops \union {None}, input : BOOLEAN, marks : SUBSET Steers]
  BY DEF NoJob
<1>. QED  BY <1>2, <1>3, <1>4, <1>5, <1>6

LEMMA BreakKeeps ==
    ASSUME Inv, Break
    PROVE  Inv'
<1>. DEFINE e == [kind |-> "lost", op |-> None, marks |-> {}]
<1>1. TypeOK /\ Streamed /\ Sound(chat)
  BY Basics DEF Inv, Provider
<1>2. /\ call' = [s \in Steers |-> IF call[s] = "sent" THEN "refused" ELSE call[s]]
      /\ cut' = cut \union {s \in Steers : call[s] = "sent"}
      /\ job' = NoJob /\ asked' = {} /\ held' = {} /\ events' = Append(events, e)
      /\ taken' \in {taken} \union {Append(taken, s) : s \in held} /\ chat' = chat
      /\ begun' = begun /\ steered' = steered /\ faults < MaxFaults /\ faults' = faults + 1
  BY DEF Break, Told, Fault
<1>3. Later(chat, chat') /\ Sound(chat')
  BY <1>1, <1>2 DEF Later
<1>4. \A s \in Steers : call'[s] = call[s] \/ call'[s] = "idle" \/ (call[s] # "idle" /\ s \in cut')
  BY <1>2
<1>5. cut \subseteq cut' /\ cut' \subseteq Steers
  BY <1>1, <1>2 DEF TypeOK
<1>6. /\ chat' \in Chats /\ Core(chat)' /\ Unwritten(chat)' /\ Busy' /\ Flow' /\ Given'
      /\ Worked' /\ taken' \in Seq(Ops) /\ ToSet(taken) \subseteq ToSet(taken')
      /\ job' \in [op : Ops \union {None}, input : BOOLEAN, marks : SUBSET Steers]
  BY <1>2, <1>3, <1>4, <1>5, Dropped
<1>7. e \in Event /\ e.kind = "lost" /\ e.marks = {}
  BY DEF Event
<1>8. events' \in Seq(Event) /\ Streamed'
  BY <1>2, <1>6, <1>7, ToldMore
<1>9. TypeOK'
  <2>1. call' \in [Steers -> {"idle", "claimed", "sent", "accepted", "refused", "unknown"}]
    BY <1>1, <1>2 DEF TypeOK
  <2>2. faults' \in 0..MaxFaults
    BY <1>1, <1>2, SteeringAssumption DEF TypeOK
  <2>3. begun' \subseteq Ops /\ steered' \in Seq(Steers)
    BY <1>1, <1>2 DEF TypeOK
  <2>. QED  BY <1>2, <1>5, <1>6, <1>8, <2>1, <2>2, <2>3, TypeNext
<1>. QED  BY <1>6, <1>8, <1>9 DEF Inv, Provider

LEMMA RestartKeeps ==
    ASSUME Inv, Restart
    PROVE  Inv'
<1>1. TypeOK /\ Context /\ Sound(chat)
  BY Basics DEF Inv, Provider
<1>2. /\ call' = [s \in Steers |-> "idle"] /\ cut' = cut /\ chat' = Recovered(chat)
      /\ job' = NoJob /\ asked' = {} /\ held' = {} /\ events' = <<>>
      /\ taken' \in {taken} \union {Append(taken, s) : s \in held}
      /\ begun' = begun /\ steered' = steered /\ faults < MaxFaults /\ faults' = faults + 1
  BY DEF Restart, Fault
<1>3. Later(chat, chat') /\ Sound(chat')
  BY <1>1, <1>2, RecoveredSound
<1>4. \A s \in Steers : call'[s] = "idle"
  BY <1>2
<1>5. /\ chat' \in Chats /\ Core(chat)' /\ Unwritten(chat)' /\ Busy' /\ Flow' /\ Given'
      /\ Worked' /\ taken' \in Seq(Ops) /\ ToSet(taken) \subseteq ToSet(taken')
      /\ job' \in [op : Ops \union {None}, input : BOOLEAN, marks : SUBSET Steers]
  BY <1>2, <1>3, <1>4, Dropped
<1>6. events' \in Seq(Event) /\ Streamed'
  BY <1>2 DEF Streamed
<1>7. TypeOK'
  <2>1. call' \in [Steers -> {"idle", "claimed", "sent", "accepted", "refused", "unknown"}]
    BY <1>2
  <2>2. faults' \in 0..MaxFaults
    BY <1>1, <1>2, SteeringAssumption DEF TypeOK
  <2>3. begun' \subseteq Ops /\ steered' \in Seq(Steers) /\ cut' \subseteq Steers
    BY <1>1, <1>2 DEF TypeOK
  <2>. QED  BY <1>2, <1>5, <1>6, <2>1, <2>2, <2>3, TypeNext
<1>. QED  BY <1>5, <1>6, <1>7 DEF Inv, Provider

LEMMA ReceiveKeeps ==
    ASSUME Inv, Receive
    PROVE  Inv'
<1>. DEFINE e == Head(events)
            isFor == Running(chat) /\ chat.fg.op = e.op
            fits == CASE e.kind = "steer" -> Fits(chat, e.op)
                      [] e.kind = "end" -> isFor /\ \A s \in e.marks : Fits(chat, s)
                      [] e.kind = "input" -> isFor
                      [] e.kind = "lost" -> FALSE
<1>1. /\ TypeOK /\ Context /\ Sound(chat) /\ Busy /\ Flow /\ Worked /\ Streamed /\ Given
      /\ events \in Seq(Event)
  BY Basics DEF Inv, Provider
<1>2. /\ events # <<>> /\ call' = call /\ taken' = taken /\ begun' = begun /\ steered' = steered
      /\ cut' = cut /\ faults' = faults
      /\ IF fits
         THEN /\ chat' = CASE e.kind = "input" -> InputConsumed(chat)
                           [] e.kind = "steer" -> SteerConsumed(chat, e.op)
                           [] e.kind = "end" -> Ended(chat, e.marks)
              /\ events' = Tail(events) /\ job' = job /\ asked' = asked /\ held' = held
         ELSE /\ chat' = Interrupted(chat)
              /\ events' = <<>> /\ job' = NoJob /\ asked' = {} /\ held' = {}
  BY DEF Receive
<1>3. /\ e \in Event /\ e.kind \in {"input", "steer", "end", "lost"} /\ e.marks \in SUBSET Steers
      /\ e.kind = "steer" => e.op \in Steers /\ e.op \in ToSet(taken)
      /\ e.marks \subseteq ToSet(taken)
  <2>1. 1 \in DOMAIN events /\ e = events[1] /\ events[1] \in Event
    BY <1>1, <1>2
  <2>. QED  BY <1>1, <2>1 DEF Streamed, Event
<1>4. /\ \/ events' = Tail(events) /\ job' = job /\ asked' = asked /\ held' = held
         \/ events' = <<>> /\ job' = NoJob /\ asked' = {} /\ held' = {}
  BY <1>2
<1>5. Sound(chat') /\ Later(chat, chat')
  <2>. HIDE DEF e
  <2>1. CASE ~fits
    <3>1. chat' = Interrupted(chat)
      BY <1>2, <2>1
    <3>. QED  BY <1>1, <3>1, InterruptedSound
  <2>2. CASE fits /\ e.kind = "input"
    <3>1. chat' = InputConsumed(chat) /\ Running(chat)
      BY <1>2, <2>2
    <3>. QED  BY <1>1, <3>1, InputConsumedSound DEF Later
  <2>3. CASE fits /\ e.kind = "steer"
    <3>1. chat' = SteerConsumed(chat, e.op)
      BY <1>2, <2>3
    <3>. QED  BY <1>1, <1>3, <2>3, <3>1, SteerConsumedSound
  <2>4. CASE fits /\ e.kind = "end"
    <3>1. chat' = Ended(chat, e.marks) /\ Running(chat)
      BY <1>2, <2>4
    <3>. QED  BY <1>1, <1>3, <3>1, EndedSound
  <2>5. CASE fits /\ e.kind = "lost"
    BY <2>5
  <2>. QED  BY <1>3, <2>1, <2>2, <2>3, <2>4, <2>5
<1>6. Busy' /\ Flow' /\ Given'
  <2>1. asked' \subseteq asked /\ held' \subseteq held
    BY <1>4
  <2>. QED  BY <1>2, <1>5, <2>1, ProviderKept
<1>7. chat' \in Chats /\ Core(chat)' /\ Unwritten(chat)'
  BY <1>2, <1>5, Carried
<1>8. Worked'
  BY <1>1, <1>2, <1>4, Names DEF Worked, NoJob
<1>9. events' \in Seq(Event) /\ Streamed'
  <2>1. CASE events' = Tail(events)
    <3>1. /\ events' \in Seq(Event)
          /\ \A i \in DOMAIN events' : i + 1 \in DOMAIN events /\ events'[i] = events[i + 1]
      BY <1>1, <1>2, <2>1
    <3>. QED  BY <1>1, <1>2, <3>1 DEF Streamed
  <2>2. CASE events' = <<>>
    BY <2>2 DEF Streamed
  <2>. QED  BY <1>4, <2>1, <2>2
<1>10. TypeOK'
  <2>1. /\ job' \in [op : Ops \union {None}, input : BOOLEAN, marks : SUBSET Steers]
        /\ asked' \subseteq Steers /\ held' \subseteq Steers
    <3>1. NoJob \in [op : Ops \union {None}, input : BOOLEAN, marks : SUBSET Steers]
      BY DEF NoJob
    <3>2. asked \subseteq Steers /\ held \subseteq Steers
          /\ job \in [op : Ops \union {None}, input : BOOLEAN, marks : SUBSET Steers]
      BY <1>1 DEF TypeOK
    <3>. QED  BY <1>4, <3>1, <3>2
  <2>2. /\ call' \in [Steers -> {"idle", "claimed", "sent", "accepted", "refused", "unknown"}]
        /\ faults' \in 0..MaxFaults /\ begun' \subseteq Ops /\ steered' \in Seq(Steers)
        /\ cut' \subseteq Steers /\ taken' \in Seq(Ops)
    BY <1>1, <1>2 DEF TypeOK
  <2>. QED  BY <1>7, <1>9, <2>1, <2>2, TypeNext
<1>. QED  BY <1>6, <1>7, <1>8, <1>9, <1>10 DEF Inv, Provider

LEMMA InitInv ==
    ASSUME Init  PROVE Inv
<1>1. /\ chat = [fg |-> NoTurn, pending |-> <<>>, effect |-> [s \in Steers |-> "none"],
                 ledger |-> <<>>, staged |-> Staged, queue |-> <<>>]
      /\ call = [s \in Steers |-> "idle"] /\ job = NoJob /\ asked = {} /\ held = {}
      /\ taken = <<>> /\ events = <<>> /\ begun = {} /\ steered = <<>> /\ cut = {} /\ faults = 0
  BY DEF Init
<1>2. TypeOK
  BY <1>1, SteeringAssumption DEF TypeOK, NoTurn, NoJob
<1>3. /\ chat.fg = NoTurn /\ DOMAIN chat.pending = {} /\ DOMAIN chat.ledger = {}
      /\ chat.pending = <<>> /\ chat.queue = <<>>
      /\ \A s \in Steers : chat.effect[s] = "none" /\ chat.staged = Staged
  BY <1>1
<1>4. Waiting(chat) = {} /\ Queued(chat) = {} /\ \A s : ~InLedger(chat, s)
  BY <1>1, <1>3 DEF Waiting, OpsOf, Queued, InLedger, ToSet
<1>5. Owned(chat)
  BY <1>3, <1>4 DEF Owned
<1>6. Once(chat) /\ Lined(chat) /\ InTurn(chat)
  BY <1>3 DEF Once, Lined, InTurn, Running, NoTurn
<1>7. Ordered(chat) /\ InputFirst(chat) /\ Vouched(chat) /\ Unwritten(chat)
  BY <1>3, <1>4, Names DEF Ordered, InputFirst, Vouched, Unwritten, NoTurn
<1>8. Busy /\ Streamed
  BY <1>1 DEF Busy, Streamed
<1>9. ToSet(taken) = {} /\ ToSet(steered) = {}
  BY <1>1 DEF ToSet
<1>10. Flow /\ Worked /\ Given
  BY <1>1, <1>3, <1>9 DEF Flow, Nowhere, Worked, Given, NoJob
<1>. QED  BY <1>2, <1>5, <1>6, <1>7, <1>8, <1>10 DEF Inv, Core, Provider

LEMMA NextKeeps ==
    ASSUME Inv, [Next]_vars  PROVE Inv'
<1>1. ASSUME NEW op \in Ops, StartTurn(op)  PROVE Inv'
  BY <1>1, StartTurnKeeps
<1>2. ASSUME NEW s \in Steers, Steer(s)  PROVE Inv'
  BY <1>2, SteerKeeps
<1>3. ASSUME NEW s \in Steers, Claim(s)  PROVE Inv'
  BY <1>3, ClaimKeeps
<1>4. ASSUME NEW s \in Steers, Send(s)  PROVE Inv'
  BY <1>4, SendKeeps
<1>5. ASSUME NEW s \in Steers, Timeout(s) \/ Reply(s)  PROVE Inv'
  BY <1>5, CallKeeps
<1>6. ASSUME NEW s \in Steers, Report(s)  PROVE Inv'
  BY <1>6, ReportKeeps
<1>7. ASSUME NEW s \in Steers, Accept(s)  PROVE Inv'
  BY <1>7, AcceptKeeps
<1>8. ASSUME NEW s \in Steers, Reject(s)  PROVE Inv'
  BY <1>8, RejectKeeps
<1>9. ASSUME NEW s \in Steers, Take(s)  PROVE Inv'
  BY <1>9, TakeKeeps
<1>10. CASE TakeInput
  BY <1>10, TakeInputKeeps
<1>11. CASE EndJob
  BY <1>11, EndJobKeeps
<1>12. CASE Break
  BY <1>12, BreakKeeps
<1>13. CASE Receive
  BY <1>13, ReceiveKeeps
<1>14. CASE Restart
  BY <1>14, RestartKeeps
<1>15. CASE UNCHANGED vars
  <2>1. /\ chat' = chat /\ call' = call /\ job' = job /\ asked' = asked /\ held' = held
        /\ taken' = taken /\ events' = events /\ begun' = begun /\ steered' = steered
        /\ cut' = cut /\ faults' = faults
    BY <1>15 DEF vars, providerVars
  <2>2. TypeOK /\ Busy /\ Flow /\ Worked /\ Streamed /\ Given
    BY DEF Inv, Provider
  <2>3. chat' \in Chats /\ Core(chat)' /\ Unwritten(chat)' /\ Queued(chat)' = Queued(chat)
    BY <2>1, ChatKept
  <2>4. TypeOK'
    BY <2>1, <2>2, <2>3, TypeNext DEF TypeOK
  <2>5. Busy' /\ Flow' /\ Worked'
    BY <2>1, <2>2, <2>3 DEF Busy, Flow, Nowhere, Worked
  <2>6. Streamed' /\ Given'
    BY <2>1, <2>2 DEF Streamed, Given
  <2>. QED  BY <2>3, <2>4, <2>5, <2>6 DEF Inv, Provider
<1>. QED  BY <1>1, <1>2, <1>3, <1>4, <1>5, <1>6, <1>7, <1>8, <1>9, <1>10, <1>11, <1>12, <1>13,
             <1>14, <1>15 DEF Next

(***************************************************************************)
(* What holds of every chat.                                               *)
(***************************************************************************)
\* The invariant behind the properties: a direction's effect says where it is,
\* the ledger and the pending list keep the order of the directions, and no
\* direction that was returned or queued is on its way to the provider
\* (internal/chat/reducer.go steer commands, provider_delivery.go ExecuteSteer).
THEOREM SteeringInvariance == Spec => []Inv
<1>1. Init => Inv
  BY InitInv
<1>2. Inv /\ [Next]_vars => Inv'
  BY NextKeeps
<1>. QED  BY <1>1, <1>2, PTL DEF Spec

\* The actor's state, the calls of ExecuteSteer and the provider's queues keep
\* their types, removePendingSteer and SubSeq of the pending list included.
THEOREM TypeCorrect == Spec => []TypeOK
<1>1. Inv => TypeOK
  BY DEF Inv
<1>. QED  BY <1>1, SteeringInvariance, PTL

\* A recorded direction has exactly one owner, whatever turn ends, call is
\* refused or daemon restarts while it is on its way: reduceSteer,
\* reduceSteerFailed, appendUnconsumedSteerAtTerminal.
THEOREM DirectionOwned == Spec => []OneOwner
<1>1. ASSUME Inv, NEW s \in Steers, chat.effect[s] # "none"
      PROVE  LET returned == chat.effect[s] = "failed"
                 queued == s \in ToSet(chat.queue) \union begun
             IN /\ (IsPending(chat, s) \/ RowsOf(s) # {}) => ~returned
                /\ IsPending(chat, s) => RowsOf(s) = {} /\ ~queued
                /\ IsPending(chat, s) \/ RowsOf(s) # {} \/ returned \/ queued
                /\ s \in Staged => (returned <=> s \in chat.staged)
                /\ \A i, j \in RowsOf(s) : i = j
  <2>1. Core(chat) /\ chat \in Chats
    BY <1>1, Basics DEF Inv
  <2>2. IsPending(chat, s) <=> s \in Waiting(chat)
    BY <2>1, WaitingIs
  <2>3. RowsOf(s) # {} <=> InLedger(chat, s)
    BY DEF RowsOf, InLedger
  <2>4. \A i, j \in RowsOf(s) : i = j
    BY <2>1 DEF Core, Once, RowsOf
  <2>5. Queued(chat) = ToSet(chat.queue) \union begun
    BY DEF Queued
  <2>. QED  BY <1>1, <2>1, <2>2, <2>3, <2>4, <2>5 DEF Core, Owned
<1>2. Inv => OneOwner
  BY <1>1 DEF OneOwner
<1>. QED  BY <1>2, SteeringInvariance, PTL

\* No direction outlives its turn: what reduceTurnTerminated, a lost lane or
\* RecoverOutbox leaves pending belongs to the turn that runs.
THEOREM PendingInTurn == Spec => []PendingOwned
<1>1. Inv => PendingOwned
  BY DEF Inv, Core, InTurn, PendingOwned, ToSet
<1>. QED  BY <1>1, SteeringInvariance, PTL

\* A direction is shown as applied only if the provider took it or a direction
\* given after it: the receipts of the stream and of the terminal's marks
\* (reduceInputConsumed, markLateConsumedSteer, reduceTurnTerminated).
THEOREM AppliedIsTrue == Spec => []AppliedWasTaken
<1>1. ASSUME NEW s, taken \in Seq(Ops), s \in ToSet(taken)  PROVE IsTaken(s)
  <2>. DEFINE I == {i \in 1..Len(taken) : taken[i] = s}
  <2>1. TakenAt(s) = IF I # {} THEN Min(I) ELSE 0
    BY DEF TakenAt, SelectInSeq
  <2>2. I \in SUBSET Nat /\ 0 \notin I
    OBVIOUS
  <2>3. I # {}
    BY <1>1 DEF ToSet
  <2>4. Min(I) \in I
    BY <2>2, <2>3, MinIs
  <2>. HIDE DEF I
  <2>. QED  BY <2>1, <2>2, <2>3, <2>4 DEF IsTaken
<1>2. ASSUME Inv, NEW i \in DOMAIN chat.ledger, chat.ledger[i].state = "applied"
      PROVE  LET s == chat.ledger[i].op
                 before == SubSeq(steered, 1, At(s))
             IN IsTaken(s) \/ \E t \in ToSet(taken) \cap Steers : t \notin ToSet(before)
  <2>. DEFINE s == chat.ledger[i].op
              before == SubSeq(steered, 1, At(s))
  <2>1. Core(chat) /\ Context
    BY <1>2, Basics DEF Inv
  <2>2. VouchedFor(s)
    BY <1>2, <2>1 DEF Core, Vouched
  <2>3. CASE s \in ToSet(taken)
    BY <1>1, <2>1, <2>3 DEF Context
  <2>4. ASSUME NEW t \in ToSet(taken) \cap Steers, At(s) < At(t)  PROVE t \notin ToSet(before)
    <3>1. SUFFICES ASSUME NEW k \in DOMAIN before, before[k] = t  PROVE FALSE
      BY DEF ToSet
    <3>2. At(s) \in 0..Len(steered) /\ Len(steered) \in Nat /\ DOMAIN steered = 1..Len(steered)
      BY <2>1, AtIs DEF Context
    <3>3. k \in 1..At(s) /\ k \in DOMAIN steered /\ steered[k] = t
      BY <2>1, <3>1, <3>2 DEF Context
    <3>4. At(t) <= k /\ At(t) \in Nat
      BY <2>1, <3>3, AtIs DEF Context
    <3>. QED  BY <2>4, <3>2, <3>3, <3>4
  <2>. QED  BY <2>2, <2>3, <2>4 DEF VouchedFor
<1>3. Inv => AppliedWasTaken
  BY <1>2 DEF AppliedWasTaken, At
<1>. QED  BY <1>3, SteeringInvariance, PTL

\* A direction is taken at most once and none that went back or into the queue
\* is used as well: ClaimEffect is granted once, a timeout is no refusal
\* (executeSteer), and only a broken connection is exempt.
THEOREM TakenAtMostOnce == Spec => []TakenOnce
<1>1. ASSUME taken \in Seq(Ops), NEW s, IsTaken(s)  PROVE s \in ToSet(taken)
  <2>. DEFINE I == {i \in 1..Len(taken) : taken[i] = s}
  <2>1. TakenAt(s) = IF I # {} THEN Min(I) ELSE 0
    BY DEF TakenAt, SelectInSeq
  <2>2. I # {}
    BY <1>1, <2>1 DEF IsTaken
  <2>. QED  BY <1>1, <2>2 DEF ToSet
<1>2. Inv => TakenOnce
  <2>1. SUFFICES ASSUME Inv  PROVE TakenOnce
    OBVIOUS
  <2>2. Worked /\ Flow /\ taken \in Seq(Ops)
    BY <2>1, Basics DEF Inv, Provider
  <2>3. ASSUME NEW s \in Steers \ cut, chat.effect[s] = "failed" \/ s \in ToSet(chat.queue)
        PROVE  ~IsTaken(s) /\ s \notin asked \union held
    BY <1>1, <2>2, <2>3 DEF Flow, Nowhere
  <2>. QED  BY <2>2, <2>3 DEF TakenOnce, Worked
<1>. QED  BY <1>2, SteeringInvariance, PTL

\* The ledger keeps the order in which directions were given and the input of
\* their turn before them (reduceInputConsumed settles those before it first).
THEOREM LedgerInOrder == Spec => []InOrder
<1>1. ASSUME Inv, NEW i \in DOMAIN chat.ledger
      PROVE  LET r == chat.ledger[i] IN
             /\ r.state = "applied" /\ r.turn \in Inputs =>
                   \E j \in 1..i : chat.ledger[j].op = r.turn
             /\ \A j \in DOMAIN chat.ledger :
                   LET t == chat.ledger[j] IN
                   "input" \notin {r.state, t.state} /\ At(t.op) < At(r.op) => j < i
  <2>1. Core(chat) /\ Context /\ chat \in Chats
    BY <1>1, Basics DEF Inv
  <2>2. DOMAIN chat.ledger = 1..Len(chat.ledger) /\ Len(chat.ledger) \in Nat
    BY <2>1, ChatIs
  <2>3. ASSUME chat.ledger[i].state = "applied", chat.ledger[i].turn \in Inputs
        PROVE  \E j \in 1..i : chat.ledger[j].op = chat.ledger[i].turn
    <3>1. PICK j \in DOMAIN chat.ledger : j < i /\ chat.ledger[j].op = chat.ledger[i].turn
      BY <2>1, <2>3 DEF Core, InputFirst
    <3>2. j \in 1..i
      BY <2>2, <3>1
    <3>. QED  BY <3>1, <3>2
  <2>4. ASSUME NEW j \in DOMAIN chat.ledger, chat.ledger[i].state # "input",
               chat.ledger[j].state # "input", At(chat.ledger[j].op) < At(chat.ledger[i].op)
        PROVE  j < i
    <3>1. At(chat.ledger[i].op) \in Nat /\ At(chat.ledger[j].op) \in Nat
      BY <2>1, AtIs DEF Context
    <3>2. j > i => At(chat.ledger[i].op) < At(chat.ledger[j].op)
      BY <2>1, <2>4 DEF Core, Ordered
    <3>3. i # j
      BY <2>4, <3>1
    <3>. QED  BY <2>2, <2>4, <3>1, <3>2, <3>3
  <2>. QED  BY <2>3, <2>4
<1>2. Inv => InOrder
  BY <1>1 DEF InOrder, At
<1>. QED  BY <1>2, SteeringInvariance, PTL

\* No receipt of the stream is refused and fails the lane, for a direction
\* that is pending, settled or queued meanwhile (reduceInputConsumed's guards).
THEOREM ReceiptsAccepted == Spec => []ReceiptsFit
<1>1. ASSUME Inv, NEW s \in Steers \ cut, s \in ToSet(taken) \/ s \in begun
      PROVE  Fits(chat, s)
  <2>1. Core(chat) /\ Flow /\ chat \in Chats
    BY <1>1, Basics DEF Inv, Provider
  <2>2. chat.effect[s] \in {"dispatched", "accepted", "consumed", "completed", "ambiguous"}
    BY <1>1, <2>1 DEF Core, Owned, Queued, Flow, Nowhere, Chats, Effects
  <2>3. IsPending(chat, s) <=> s \in Waiting(chat)
    BY <2>1, WaitingIs
  <2>. QED  BY <2>1, <2>2, <2>3 DEF Core, Owned, Fits
<1>2. ASSUME Inv, NEW i \in DOMAIN events, events[i].kind \in {"steer", "end"},
             NEW s \in ({events[i].op} \union events[i].marks) \cap (Steers \ cut)
      PROVE  Fits(chat, s)
  <2>1. s \in ToSet(taken) \/ s \in begun
    BY <1>2 DEF Inv, Provider, Streamed
  <2>. QED  BY <1>1, <1>2, <2>1
<1>3. Inv => ReceiptsFit
  BY <1>2 DEF ReceiptsFit
<1>. QED  BY <1>3, SteeringInvariance, PTL

=============================================================================
