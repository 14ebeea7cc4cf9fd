------------------------- MODULE ProcessReportsProofs -------------------------
(***************************************************************************)
(* Proofs about the reports of a supervised job, for every size of a batch *)
(* and any number of heartbeats, lost requests and replies, failed marks,  *)
(* tellings and commits, stops of the daemon and deaths of the supervisor. *)
(***************************************************************************)
EXTENDS ProcessReports, FiniteSetTheorems, TLAPS

(***************************************************************************)
(* The highest of a set of numbers.                                        *)
(***************************************************************************)
\* A set of naturals that is not empty has a least element.
LEMMA Least ==
    ASSUME NEW T \in SUBSET Nat, T # {}
    PROVE  \E x \in T : \A y \in T : x <= y
<1>. DEFINE R == OpToRel(<, Nat)
<1>1. IsWellFoundedOn(R, Nat)
  BY NatLessThanWellFounded
<1>2. ASSUME NEW x \in Nat, NEW y \in Nat, y < x
      PROVE  <<y, x>> \in R
  BY <1>2 DEF OpToRel
<1>. HIDE DEF R
<1>3. PICK x \in T : \A y \in T : ~(<<y, x>> \in R)
  BY <1>1, WFMin
<1>4. ASSUME NEW y \in T  PROVE x <= y
  <2>1. x \in Nat /\ y \in Nat
    OBVIOUS
  <2>2. ~(y < x)
    BY <1>2, <1>3, <2>1
  <2>. QED  BY <2>1, <2>2
<1>. QED  BY <1>4

\* Highest is the greatest element of a set that is bounded.
LEMMA HighestIs ==
    ASSUME NEW seqs \in SUBSET Nat, NEW n \in Nat, \A s \in seqs : s <= n
    PROVE  /\ Highest(seqs) \in Nat /\ Highest(seqs) <= n
           /\ \A s \in seqs : s <= Highest(seqs)
           /\ seqs # {} => Highest(seqs) \in seqs
<1>1. CASE seqs = {}
  BY <1>1 DEF Highest
<1>2. CASE seqs # {}
  <2>. DEFINE U == {m \in Nat : \A s \in seqs : s <= m}
  <2>1. U \in SUBSET Nat /\ U # {}
    OBVIOUS
  <2>2. PICK m \in U : \A k \in U : m <= k
    BY <2>1, Least
  <2>3. m \in seqs
    <3>1. SUFFICES ASSUME m \notin seqs  PROVE FALSE
      OBVIOUS
    <3>2. PICK s \in seqs : TRUE
      BY <1>2
    <3>3. s <= m /\ s # m /\ s \in Nat /\ m \in Nat
      BY <3>1
    <3>4. m - 1 \in Nat /\ \A t \in seqs : t <= m - 1
      BY <3>1, <3>3
    <3>5. m <= m - 1
      BY <2>2, <3>4
    <3>. QED  BY <3>3, <3>5
  <2>4. \E s \in seqs : \A t \in seqs : t <= s
    BY <2>3
  <2>5. Highest(seqs) \in seqs /\ \A t \in seqs : t <= Highest(seqs)
    BY <1>2, <2>4 DEF Highest
  <2>. QED  BY <2>5
<1>. QED  BY <1>1, <1>2

(***************************************************************************)
(* What a report carries.                                                  *)
(***************************************************************************)
Queued == [event : Event, delivered : BOOLEAN]
Carried == [step : Steps, events : SUBSET Event, ack : Nat, exit : Outcomes,
            terminal : BOOLEAN, listed : Statuses]
RowSet == [status : Statuses, outcome : Outcomes, seen : SUBSET Nat, spool : BOOLEAN,
           missing : BOOLEAN]

\* Every seq there is, in the outbox, in a row, on its way, is at most n.
Below(n) == /\ \A r \in outbox : r.event.seq <= n
            /\ \A s \in row.seen \union saved.seen : s <= n
            /\ \A w \in Callers : \A e \in call[w].events : e.seq <= n

\* The types, and that all of it is finite.
Typed == TypeOK /\ IsFiniteSet(outbox) /\ \E n \in Nat : Below(n)

Top == Highest({r.event.seq : r \in outbox})

\* The highest seq of the outbox.
LEMMA TopIs ==
    ASSUME Typed
    PROVE  /\ Top \in Nat
           /\ \A r \in outbox : r.event.seq \in Nat /\ r.event.seq <= Top
           /\ outbox # {} => \E r \in outbox : r.event.seq = Top
<1>. DEFINE seqs == {r.event.seq : r \in outbox}
<1>1. PICK n \in Nat : Below(n)
  BY DEF Typed
<1>2. \A r \in outbox : r.event.seq \in Nat
  BY DEF Typed, TypeOK, Event
<1>3. seqs \in SUBSET Nat /\ \A s \in seqs : s <= n
  BY <1>1, <1>2 DEF Below
<1>4. \A r \in outbox : r.event.seq \in seqs
  OBVIOUS
<1>5. Highest(seqs) \in Nat /\ (\A s \in seqs : s <= Highest(seqs))
      /\ (seqs # {} => Highest(seqs) \in seqs)
  BY <1>3, HighestIs
<1>6. Top = Highest(seqs)
  BY DEF Top
<1>. HIDE DEF seqs
<1>7. outbox # {} => seqs # {}
  BY <1>4
<1>8. \A s \in seqs : \E r \in outbox : r.event.seq = s
  BY DEF seqs
<1>. QED  BY <1>2, <1>4, <1>5, <1>6, <1>7, <1>8

\* A report carries undelivered events of the outbox.
LEMMA PendingIn ==
    ASSUME NEW rows, NEW e \in Pending(rows)
    PROVE  \E r \in rows : ~r.delivered /\ r.event = e
BY DEF Pending, Undelivered

\* With an event it carries every undelivered one before it.
LEMMA PendingDown ==
    ASSUME NEW rows \in SUBSET Queued, IsFiniteSet(rows), NEW e \in Pending(rows),
           NEW q \in rows, ~q.delivered, q.event.seq <= e.seq
    PROVE  q.event \in Pending(rows)
<1>. DEFINE Before(p) == {o \in Undelivered(rows) : o.event.seq < p.event.seq}
<1>1. PICK r \in Undelivered(rows) : r.event = e /\ Cardinality(Before(r)) < MaxBatch
  BY DEF Pending
<1>2. \A o \in rows : o.event.seq \in Nat
  BY DEF Queued, Event
<1>3. r \in rows /\ q \in Undelivered(rows)
  BY DEF Undelivered
<1>4. Before(q) \subseteq Before(r)
  BY <1>1, <1>2, <1>3 DEF Undelivered
<1>5. Before(r) \subseteq rows
  BY DEF Undelivered
<1>. HIDE DEF Before
<1>6. IsFiniteSet(Before(r))
  BY <1>5, FS_Subset
<1>7. Cardinality(Before(q)) <= Cardinality(Before(r))
  BY <1>4, <1>6, FS_Subset
<1>8. IsFiniteSet(Before(q))
  BY <1>4, <1>6, FS_Subset
<1>9. Cardinality(Before(q)) \in Nat /\ Cardinality(Before(r)) \in Nat /\ MaxBatch \in Nat
  BY <1>6, <1>8, FS_CardinalityType, ReportAssumption
<1>10. Cardinality(Before(q)) < MaxBatch
  BY <1>1, <1>7, <1>9
<1>. QED  BY <1>3, <1>10 DEF Pending, Before

\* Events of the outbox stay events when a batch of them is reported.
LEMMA PendingEvents ==
    ASSUME NEW rows \in SUBSET Queued
    PROVE  Pending(rows) \in SUBSET Event
BY PendingIn DEF Queued

\* Marking keeps the events and delivers those up to an acknowledged seq.
LEMMA MarkedIs ==
    ASSUME NEW through, NEW r \in outbox, outbox \subseteq Queued
    PROVE  \E q \in Marked(through) : q.event = r.event
              /\ (q.delivered <=> (r.delivered \/ r.event.seq <= through))
<1>1. CASE r.event.seq <= through
  <2>1. [r EXCEPT !.delivered = TRUE] \in Marked(through)
    BY <1>1 DEF Marked
  <2>. QED  BY <1>1, <2>1 DEF Queued
<1>2. CASE ~(r.event.seq <= through)
  BY <1>2 DEF Marked
<1>. QED  BY <1>1, <1>2

\* A row after a mark was there before it.
LEMMA MarkedWas ==
    ASSUME NEW through, NEW q \in Marked(through), outbox \subseteq Queued
    PROVE  /\ q \in Queued
           /\ \E r \in outbox : q.event = r.event
                /\ (q.delivered <=> (r.delivered \/ r.event.seq <= through))
<1>1. PICK r \in outbox : q = IF r.event.seq <= through THEN [r EXCEPT !.delivered = TRUE]
                                                         ELSE r
  BY DEF Marked
<1>2. r \in Queued
  OBVIOUS
<1>. QED  BY <1>1, <1>2 DEF Queued

\* A mark adds no row.
LEMMA MarkedFinite ==
    ASSUME NEW through, IsFiniteSet(outbox)
    PROVE  IsFiniteSet(Marked(through))
<1>. DEFINE f == [r \in outbox |-> IF r.event.seq <= through
                                   THEN [r EXCEPT !.delivered = TRUE] ELSE r]
<1>1. f \in Surjection(outbox, Marked(through))
  BY DEF Surjection, Marked
<1>. QED  BY <1>1, FS_Surjection

\* What applying events makes of a row.
LEMMA AppliedIs ==
    ASSUME NEW r \in RowSet, NEW events \in SUBSET Event, NEW n \in Nat,
           \A s \in r.seen : s <= n, \A e \in events : e.seq <= n
    PROVE  LET new == Applied(r, events)
               cursor == Highest(r.seen)
           IN /\ new \in RowSet /\ cursor \in Nat
              /\ \A s \in r.seen : s \in new.seen /\ s <= cursor
              /\ \A s \in new.seen : s <= n /\ (s \in r.seen \/ \E e \in events : e.seq = s)
              /\ \A e \in events : e.seq \in Nat /\ (e.seq > cursor => e.seq \in new.seen)
              /\ r.seen # {} => cursor \in r.seen
              /\ r.seen = {} => cursor = 0
              /\ Highest(new.seen) \in Nat /\ Highest(new.seen) <= n
              /\ \A s \in new.seen : s <= Highest(new.seen)
              /\ Highest(new.seen) \in new.seen \/ Highest(new.seen) = 0
<1>. DEFINE cursor == Highest(r.seen)
            fresh == {e \in events : e.seq > cursor}
            new == Applied(r, events)
<1>1. r.seen \in SUBSET Nat /\ \A e \in events : e.seq \in Nat
  BY DEF RowSet, Event
<1>2. cursor \in Nat /\ (\A s \in r.seen : s <= cursor) /\ (r.seen # {} => cursor \in r.seen)
  BY <1>1, HighestIs
<1>3. r.seen = {} => cursor = 0
  BY DEF Highest
<1>4. new.seen = r.seen \union Seqs(fresh)
  BY DEF Applied
<1>5. new \in RowSet
  BY <1>1, <1>4 DEF Applied, RowSet, Seqs, Outcomes, Statuses
<1>6. \A s \in new.seen : s \in Nat /\ s <= n /\ (s \in r.seen \/ \E e \in events : e.seq = s)
  BY <1>1, <1>4 DEF Seqs
<1>7. \A e \in events : e.seq > cursor => e.seq \in new.seen
  BY <1>4 DEF Seqs
<1>8. new.seen \in SUBSET Nat
  BY <1>5 DEF RowSet
<1>. HIDE DEF new, cursor
<1>9. /\ Highest(new.seen) \in Nat /\ Highest(new.seen) <= n
      /\ \A s \in new.seen : s <= Highest(new.seen)
      /\ new.seen # {} => Highest(new.seen) \in new.seen
  BY <1>6, <1>8, HighestIs
<1>10. new.seen = {} => Highest(new.seen) = 0
  BY DEF Highest
<1>11. \A s \in r.seen : s \in new.seen
  BY <1>4
<1>. QED
  BY <1>1, <1>2, <1>3, <1>5, <1>6, <1>7, <1>9, <1>10, <1>11 DEF new, cursor

\* The verdict of a row changes only when a running one meets its outcome.
LEMMA AppliedEnds ==
    ASSUME NEW r \in RowSet, NEW events \in SUBSET Event
    PROVE  LET new == Applied(r, events)
               ends == \E e \in events : e.kind = "settled" /\ e.seq > Highest(r.seen)
           IN /\ r.status # "running" => new.status = r.status /\ new.outcome = r.outcome
              /\ r.status = "running" /\ ~ends => new.status = "running" /\ new.outcome = r.outcome
              /\ r.status = "running" /\ ends => new.status = "settled" /\ new.outcome = "settled"
              /\ new.spool = r.spool /\ new.missing = r.missing
BY DEF Applied, Settles, RowSet

\* Applying events to a row gives a row.
LEMMA AppliedTyped ==
    ASSUME NEW r \in RowSet, NEW events \in SUBSET Event
    PROVE  Applied(r, events) \in RowSet
<1>1. \A e \in events : e.seq \in Nat
  BY DEF Event
<1>2. Seqs({e \in events : e.seq > Highest(r.seen)}) \in SUBSET Nat
  BY <1>1 DEF Seqs
<1>. QED  BY <1>2 DEF Applied, RowSet, Outcomes, Statuses

(***************************************************************************)
(* The first invariant: types, what the queue, the rows and the calls look *)
(* like, and that nothing has been decided before an outcome exists.       *)
(***************************************************************************)
\* The rows of the outbox that hold the outcome.
EndRows == {r \in outbox : r.event.kind = "settled"}

\* Seqs tell the events apart; there is one outcome, recorded after the rest; a
\* receipt is written over an empty queue.
QueueFits ==
    /\ phase \in {"new", "preflight", "started"} => ~recorded
    /\ EndRows # {} => recorded
    /\ \A q, r \in outbox : q.event.seq = r.event.seq => q = r
    /\ \A q, r \in EndRows : q = r
    /\ \A r \in outbox : r.event.seq > 0
    /\ delivered => phase = "ended" /\ Undelivered(outbox) = {}

RowFits(r) ==
    /\ r.status = "absent" => r = NoRow
    /\ r.status = "running" => r.outcome = "none"
    /\ r.status = "settled" => r.outcome # "none"
    /\ r.outcome = "settled" => recorded
    /\ r.outcome = "lost" => ~Alive
    /\ r.missing => ~Alive
RowsFit == RowFits(row) /\ RowFits(saved) /\ ~saved.missing

CallFits(w) ==
    /\ Settles(call[w].events) => recorded
    /\ call[w].exit = "settled" => recorded
    /\ call[w].exit = "lost" => w = "tick" /\ ~Alive
    /\ call[w].exit # "none" <=> call[w].step \in {"applied", "unlogged"}
    /\ call[w].terminal =>
          call[w].step \in {"applied", "unlogged", "emitted", "listed", "receipted", "answer"}
    /\ call[w].step = "answer" => call[w].terminal
    /\ call[w].step \in {"transit", "replied"} => w \in Flushers
LaunchFits ==
    /\ call["launch"].step # "idle" => hosted
    /\ call["launch"].events = {} /\ call["launch"].exit = "none"
OtherFits ==
    /\ call["other"].step \in {"idle", "emitted", "listed", "receipted"}
    /\ call["other"].events = {} /\ ~call["other"].terminal
\* What only one kind of job has, and one commit of a chat at a time.
KindFits ==
    /\ hosted => receipt = "none" /\ \A w \in Callers : call[w].step \notin {"listed", "receipted"}
    /\ ~hosted => token = "open"
    /\ \A v, w \in Callers : call[v].step \in {"listed", "receipted"}
          /\ call[w].step \in {"listed", "receipted"} => v = w
CallsFit == (\A w \in Callers : CallFits(w)) /\ LaunchFits /\ OtherFits

\* While the supervisor runs and has recorded no outcome, nothing is settled
\* and every number on its way is one of the outbox's.
Early ==
    ~recorded /\ Alive =>
        /\ log = <<>> /\ ~untold /\ receipt = "none" /\ token = "open"
        /\ row.status # "settled" /\ saved.status # "settled"
        /\ \A w \in Callers :
              /\ ~call[w].terminal /\ call[w].exit = "none" /\ call[w].ack <= Top
              /\ \A e \in call[w].events : e.seq <= Top
        /\ \A s \in row.seen \union saved.seen : s <= Top

Base == Typed /\ QueueFits /\ RowsFit /\ CallsFit /\ KindFits /\ Early

\* The first invariant holds at the start.
LEMMA BaseInit == Init => Base
<1>. SUFFICES ASSUME Init  PROVE Base
  OBVIOUS
<1>1. TypeOK
  <2>1. call \in [Callers -> Carried]
    BY DEF Init, Call, Carried, Steps, Outcomes, Statuses
  <2>2. {row, saved} \subseteq RowSet
    BY DEF Init, NoRow, RowSet, Outcomes, Statuses
  <2>3. log \in Seq(Outcomes) /\ odd \in 0..MaxOdd
    BY ReportAssumption DEF Init
  <2>. QED  BY <2>1, <2>2, <2>3 DEF Init, TypeOK, Carried, RowSet, Outcomes
<1>2. \A w \in Callers : call[w].events = {} /\ call[w].ack = 0 /\ call[w].exit = "none"
          /\ ~call[w].terminal /\ call[w].step \in {"idle", "checked"}
          /\ (call[w].step = "checked" => w = "launch" /\ hosted)
  BY DEF Init, Call
<1>3. Below(0) /\ IsFiniteSet(outbox)
  BY <1>2, FS_EmptySet DEF Init, Below, NoRow
<1>4. QueueFits /\ RowsFit /\ KindFits
  BY <1>2 DEF Init, QueueFits, EndRows, RowsFit, RowFits, NoRow, KindFits
<1>5. CallsFit
  BY <1>2 DEF CallsFit, CallFits, LaunchFits, OtherFits, Settles, Callers, Flushers, Init, Call
<1>6. Top = 0
  BY DEF Top, Init, Highest
<1>7. Early
  <2>1. log = <<>> /\ ~untold /\ receipt = "none" /\ token = "open" /\ row = NoRow /\ saved = NoRow
    BY DEF Init
  <2>2. NoRow.status = "absent" /\ NoRow.seen = {}
    BY DEF NoRow
  <2>. QED  BY <1>2, <1>6, <2>1, <2>2 DEF Early
<1>. QED  BY <1>1, <1>3, <1>4, <1>5, <1>7 DEF Base, Typed

(***************************************************************************)
(* The steps of the supervisor.                                            *)
(***************************************************************************)
LEMMA Types ==
    ASSUME TypeOK
    PROVE  /\ outbox \subseteq Queued /\ call \in [Callers -> Carried]
           /\ row \in RowSet /\ saved \in RowSet /\ log \in Seq(Outcomes)
BY DEF TypeOK, Queued, Carried, RowSet

\* The types after a step, one variable at a time.
LEMMA TypesMake ==
    ASSUME hosted' \in BOOLEAN,
           phase' \in {"new", "preflight", "started", "settling", "ended", "dead"},
           outbox' \subseteq Queued, unreachable' \in BOOLEAN, delivered' \in BOOLEAN,
           recorded' \in BOOLEAN, call' \in [Callers -> Carried],
           row' \in RowSet, saved' \in RowSet,
           receipt' \in Outcomes, token' \in {"open", "closed"},
           log' \in Seq(Outcomes), untold' \in BOOLEAN,
           unsaved' \in BOOLEAN, odd' \in 0..MaxOdd
    PROVE  TypeOK'
BY DEF TypeOK, Queued, Carried, RowSet

\* The bound on what an adversary does is kept.
LEMMA OddTyped ==
    ASSUME TypeOK, Odd \/ UNCHANGED odd
    PROVE  odd' \in 0..MaxOdd
BY ReportAssumption DEF TypeOK, Odd

\* A new row of the outbox is undelivered, behind all others.
LEMMA AppendedIs ==
    ASSUME Typed, NEW kind \in {"created", "started", "heartbeat", "settled"},
           outbox' = Appended(kind)
    PROVE  /\ \E new \in Queued :
                /\ outbox' = outbox \union {new} /\ ~new.delivered
                /\ new.event.seq = Top + 1 /\ new.event.kind = kind
           /\ outbox' \subseteq Queued /\ IsFiniteSet(outbox') /\ Top' = Top + 1
<1>. DEFINE new == [event |-> [seq |-> Top + 1, kind |-> kind], delivered |-> FALSE]
<1>1. outbox' = outbox \union {new}
  BY DEF Appended, Top
<1>2. Top \in Nat /\ \A r \in outbox : r.event.seq \in Nat /\ r.event.seq <= Top
  BY TopIs
<1>3. new \in Queued /\ new.event.seq = Top + 1 /\ new.event.kind = kind /\ ~new.delivered
  BY <1>2 DEF Queued, Event
<1>4. outbox' \subseteq Queued
  BY <1>1, <1>3, Types DEF Typed
<1>5. IsFiniteSet(outbox')
  BY <1>1, FS_AddElement DEF Typed
<1>. DEFINE seqs == {r.event.seq : r \in outbox'}
<1>. HIDE DEF new
<1>6. \A s \in seqs : s \in Nat /\ s <= Top + 1
  BY <1>1, <1>2, <1>3
<1>7. Top + 1 \in seqs
  BY <1>1, <1>3
<1>. HIDE DEF seqs
<1>8. seqs \in SUBSET Nat /\ Top + 1 \in Nat
  BY <1>2, <1>6
<1>9. Highest(seqs) <= Top + 1 /\ (\A s \in seqs : s <= Highest(seqs)) /\ Highest(seqs) \in Nat
  BY <1>6, <1>8, HighestIs
<1>10. Highest(seqs) = Top + 1
  BY <1>2, <1>7, <1>9
<1>11. Top' = Top + 1
  BY <1>10 DEF Top, seqs
<1>. QED  BY <1>1, <1>3, <1>4, <1>5, <1>11

\* A recorded event leaves the outbox in order.
LEMMA AppendedFits ==
    ASSUME Base, NEW kind \in {"created", "started", "heartbeat", "settled"},
           outbox' = Appended(kind), recorded' = (recorded \/ kind = "settled"),
           kind = "settled" => ~recorded,
           phase' \in {"new", "preflight", "started"} => ~recorded', ~delivered'
    PROVE  QueueFits'
<1>1. PICK new \in Queued : /\ outbox' = outbox \union {new} /\ ~new.delivered
                            /\ new.event.seq = Top + 1 /\ new.event.kind = kind
  BY AppendedIs DEF Base
<1>2. Top \in Nat /\ \A r \in outbox : r.event.seq \in Nat /\ r.event.seq <= Top
  BY TopIs DEF Base
<1>3. new.event.seq > 0 /\ \A r \in outbox : r.event.seq # new.event.seq
  BY <1>1, <1>2
<1>4. \A q, r \in outbox' : q.event.seq = r.event.seq => q = r
  BY <1>1, <1>3 DEF Base, QueueFits
<1>5. \A r \in outbox' : r.event.seq > 0
  BY <1>1, <1>3 DEF Base, QueueFits
<1>6. EndRows' = IF kind = "settled" THEN EndRows \union {new} ELSE EndRows
  BY <1>1 DEF EndRows
<1>7. kind = "settled" => EndRows = {}
  BY DEF Base, QueueFits
<1>8. EndRows' # {} => recorded'
  BY <1>6 DEF Base, QueueFits
<1>9. \A q, r \in EndRows' : q = r
  BY <1>6, <1>7 DEF Base, QueueFits
<1>. QED  BY <1>4, <1>5, <1>8, <1>9 DEF QueueFits

\* So does a mark.
LEMMA MarkedFits ==
    ASSUME Base, NEW through \in Nat, outbox' = Marked(through),
           UNCHANGED <<phase, recorded, delivered>>
    PROVE  QueueFits' /\ outbox' \subseteq Queued /\ IsFiniteSet(outbox') /\ Top' = Top
<1>1. outbox \subseteq Queued /\ IsFiniteSet(outbox)
  BY Types DEF Base, Typed
<1>2. outbox' \subseteq Queued /\ IsFiniteSet(outbox')
  BY <1>1, MarkedWas, MarkedFinite
<1>3. \A q \in outbox' : \E r \in outbox : q.event = r.event
         /\ (q.delivered <=> (r.delivered \/ r.event.seq <= through))
  BY <1>1, MarkedWas
<1>4. \A r \in outbox : \E q \in outbox' : q.event = r.event
  BY <1>1, MarkedIs
<1>5. {r.event.seq : r \in outbox'} = {r.event.seq : r \in outbox}
  BY <1>3, <1>4
<1>6. Top' = Top
  BY <1>5 DEF Top
<1>7. \A q, p \in outbox' : q.event.seq = p.event.seq => q = p
  <2>. SUFFICES ASSUME NEW q \in outbox', NEW p \in outbox', q.event.seq = p.event.seq
                PROVE  q = p
    OBVIOUS
  <2>1. PICK r \in outbox : q.event = r.event
                /\ (q.delivered <=> (r.delivered \/ r.event.seq <= through))
    BY <1>3
  <2>2. PICK t \in outbox : p.event = t.event
                /\ (p.delivered <=> (t.delivered \/ t.event.seq <= through))
    BY <1>3
  <2>3. r = t
    BY <2>1, <2>2 DEF Base, QueueFits
  <2>4. q.event = p.event /\ q.delivered = p.delivered /\ q \in Queued /\ p \in Queued
    BY <1>2, <2>1, <2>2, <2>3 DEF Queued
  <2>. QED  BY <2>4 DEF Queued
<1>8. \A q \in EndRows' : \E r \in EndRows : q.event = r.event
  BY <1>3 DEF EndRows
<1>9. \A q, p \in EndRows' : q = p
  <2>. SUFFICES ASSUME NEW q \in EndRows', NEW p \in EndRows'  PROVE q = p
    OBVIOUS
  <2>1. q.event = p.event /\ q \in outbox' /\ p \in outbox'
    BY <1>8 DEF Base, QueueFits, EndRows
  <2>. QED  BY <1>7, <2>1
<1>10. \A q \in outbox' : q.event.seq > 0
  BY <1>3 DEF Base, QueueFits
<1>11. Undelivered(outbox) = {} => Undelivered(outbox') = {}
  BY <1>3 DEF Undelivered
<1>. QED  BY <1>2, <1>6, <1>7, <1>8, <1>9, <1>10, <1>11 DEF QueueFits, Base

\* A report that begins carries undelivered events, and nothing else yet.
LEMMA ReportIs ==
    ASSUME NEW rows \in SUBSET Queued
    PROVE  /\ Report(rows) \in Carried
           /\ Report(rows).step = "transit" /\ Report(rows).events = Pending(rows)
           /\ Report(rows).ack = 0 /\ Report(rows).exit = "none" /\ ~Report(rows).terminal
BY PendingEvents DEF Report, Call, Carried, Steps, Outcomes, Statuses

\* A call that carries nothing.
LEMMA IdleIs ==
    ASSUME NEW step \in Steps
    PROVE  /\ Call(step) \in Carried
           /\ Call(step).step = step /\ Call(step).events = {}
           /\ Call(step).ack = 0 /\ Call(step).exit = "none" /\ ~Call(step).terminal
BY DEF Call, Carried, Outcomes, Statuses

\* What the supervisor does to a queue, a report it begins and one it gives up
\* keep the invariant.
LEMMA SupervisorBase ==
    ASSUME Base, NEW w \in Flushers,
           call' \in {call, [call EXCEPT ![w] = Report(outbox')],
                      [call EXCEPT ![w] = Call("idle")]},
           UNCHANGED <<hosted, daemonVars>>,
           phase' \in {"new", "preflight", "started", "settling", "ended", "dead"},
           Alive' => Alive, QueueFits', outbox' \subseteq Queued, IsFiniteSet(outbox'),
           Top' \in Nat, Top <= Top', \A r \in outbox' : r.event.seq <= Top',
           recorded' \in BOOLEAN, recorded => recorded',
           unreachable' \in BOOLEAN, delivered' \in BOOLEAN, odd' \in 0..MaxOdd
    PROVE  Base'
<1>. USE DEF daemonVars, keptVars, toldVars
<1>1. /\ call \in [Callers -> Carried] /\ w \in Callers /\ Top \in Nat
      /\ row \in RowSet /\ saved \in RowSet
  BY Types, TopIs DEF Base, Typed, Callers
<1>2. Call("idle") \in Carried /\ Report(outbox') \in Carried
  BY IdleIs, ReportIs DEF Steps
<1>3. /\ call' \in [Callers -> Carried]
      /\ \A v \in Callers : call'[v] = call[v] \/ (v = w /\ call'[v] \in {Report(outbox'), Call("idle")})
  BY <1>1, <1>2
<1>4. TypeOK'
  BY <1>3, <1>1, TypesMake, Types DEF Base, Typed, TypeOK
<1>5. \A v \in Callers : call'[v] # call[v] =>
        /\ v = w /\ call'[v].step \in {"idle", "transit"} /\ call'[v].ack = 0
        /\ call'[v].exit = "none" /\ ~call'[v].terminal
        /\ \A e \in call'[v].events : \E r \in outbox' : r.event = e
  BY <1>3, IdleIs, ReportIs, PendingIn DEF Steps
<1>6. \E n \in Nat : Below(n)'
  <2>1. PICK n \in Nat : Below(n)
    BY DEF Base, Typed
  <2>. DEFINE m == IF n <= Top' THEN Top' ELSE n
  <2>2. m \in Nat /\ n <= m /\ Top' <= m
    OBVIOUS
  <2>3. \A r \in outbox' : r.event.seq \in Nat /\ r.event.seq <= m
    BY <2>2 DEF Queued, Event
  <2>4. \A s \in row.seen \union saved.seen : s \in Nat /\ s <= m
    BY <1>1, <2>1, <2>2 DEF Below, RowSet
  <2>5. \A v \in Callers : \A e \in call[v].events : e.seq \in Nat /\ e.seq <= m
    BY <1>1, <2>1, <2>2 DEF Below, Carried, Event
  <2>6. \A v \in Callers : \A e \in call'[v].events : e.seq <= m
    BY <1>5, <2>3, <2>5
  <2>. QED  BY <2>2, <2>3, <2>4, <2>6 DEF Below
<1>7. RowsFit'
  BY DEF Base, RowsFit, RowFits
<1>8. CallsFit'
  <2>1. ASSUME NEW v \in Callers  PROVE CallFits(v)'
    <3>1. CASE call'[v] = call[v]
      BY <3>1 DEF Base, CallsFit, CallFits, Settles
    <3>2. CASE call'[v] # call[v]
      <4>1. Settles(call'[v].events) => EndRows' # {}
        BY <1>5, <3>2 DEF Settles, EndRows
      <4>. QED  BY <1>5, <3>2, <4>1 DEF CallFits, QueueFits
    <3>. QED  BY <3>1, <3>2
  <2>2. call'["launch"] = call["launch"] /\ call'["other"] = call["other"]
    BY <1>3 DEF Callers, Flushers
  <2>. QED  BY <2>1, <2>2 DEF Base, CallsFit, LaunchFits, OtherFits
<1>8a. KindFits'
  BY <1>5 DEF Base, KindFits
<1>9. Early'
  <2>1. SUFFICES ASSUME ~recorded', Alive'  PROVE Early'
    BY DEF Early
  <2>2. /\ log = <<>> /\ ~untold /\ receipt = "none" /\ token = "open"
        /\ row.status # "settled" /\ saved.status # "settled"
        /\ \A v \in Callers :
              /\ ~call[v].terminal /\ call[v].exit = "none" /\ call[v].ack <= Top
              /\ \A e \in call[v].events : e.seq <= Top
        /\ \A s \in row.seen \union saved.seen : s <= Top
    BY <2>1 DEF Base, Early
  <2>3. \A s \in row.seen \union saved.seen : s \in Nat /\ s <= Top'
    BY <1>1, <2>2 DEF RowSet
  <2>4. \A v \in Callers : call[v].ack \in Nat /\ call[v].ack <= Top'
           /\ \A e \in call[v].events : e.seq \in Nat /\ e.seq <= Top'
    BY <1>1, <2>2 DEF Carried, Event
  <2>5. \A v \in Callers : ~call'[v].terminal /\ call'[v].exit = "none"
           /\ call'[v].ack <= Top' /\ \A e \in call'[v].events : e.seq <= Top'
    BY <1>5, <2>2, <2>4
  <2>. QED  BY <2>2, <2>3, <2>5 DEF Early
<1>. QED  BY <1>4, <1>6, <1>7, <1>8, <1>8a, <1>9 DEF Base, Typed

\* Events past its queue and phase, the supervisor's steps.
LEMMA RunBase ==
    ASSUME Base, Run \/ Settle \/ Beat \/ Die  PROVE Base'
<1>. USE DEF Flushers
<1>1. /\ TypeOK /\ outbox \subseteq Queued /\ IsFiniteSet(outbox) /\ QueueFits
      /\ Top \in Nat /\ Top + 1 \in Nat /\ \A r \in outbox : r.event.seq <= Top
  BY Types, TopIs DEF Base, Typed
<1>2. /\ phase \in {"new", "preflight", "started", "settling", "ended", "dead"}
      /\ unreachable \in BOOLEAN /\ delivered \in BOOLEAN /\ recorded \in BOOLEAN
  BY <1>1 DEF TypeOK
<1>3. outbox' = outbox => Top' = Top
  BY DEF Top
<1>4. ASSUME outbox' = outbox, recorded' = recorded,
             phase' \in {"new", "preflight", "started"} => phase \in {"new", "preflight", "started"},
             delivered' => phase' = "ended" /\ Undelivered(outbox) = {}
      PROVE  QueueFits'
  BY <1>1, <1>4 DEF QueueFits, EndRows, Undelivered
<1>5. ASSUME NEW kind \in {"created", "started", "heartbeat", "settled"},
             outbox' = Appended(kind)
      PROVE  /\ outbox' \subseteq Queued /\ IsFiniteSet(outbox') /\ Top' = Top + 1
             /\ \A r \in outbox' : r.event.seq <= Top'
  <2>1. PICK new \in Queued : outbox' = outbox \union {new} /\ new.event.seq = Top + 1
    BY <1>5, AppendedIs DEF Base
  <2>2. \A r \in outbox : r.event.seq \in Nat
    BY TopIs DEF Base
  <2>3. outbox' \subseteq Queued /\ IsFiniteSet(outbox') /\ Top' = Top + 1
    BY <1>5, AppendedIs DEF Base
  <2>4. \A r \in outbox' : r.event.seq <= Top + 1
    BY <1>1, <2>1, <2>2
  <2>. QED  BY <2>3, <2>4
<1>6. ASSUME NEW kind \in {"created", "started", "settled"}, NEW from, NEW to,
             Witness(kind, from, to),
             <<kind, from, to>> \in {<<"created", {"new"}, "preflight">>,
               <<"started", {"preflight"}, "started">>,
               <<"settled", {"preflight", "started"}, "settling">>}
      PROVE  Base'
  <2>1. odd' \in 0..MaxOdd /\ UNCHANGED <<hosted, unreachable, delivered, daemonVars>>
    BY <1>1, <1>6, OddTyped DEF Witness
  <2>2. ~recorded /\ Alive /\ ~delivered
    BY <1>1, <1>6 DEF Witness, QueueFits, Alive
  <2>5. /\ to \in {"preflight", "started", "settling"}
        /\ kind = "settled" => to = "settling"
    BY <1>6
  <2>3. CASE /\ phase' = to /\ outbox' = Appended(kind)
             /\ call' = [call EXCEPT !["main"] = Report(outbox')]
             /\ recorded' = (recorded \/ kind = "settled")
    <3>1. QueueFits'
      BY <2>1, <2>2, <2>3, <2>5, AppendedFits
    <3>2. recorded' \in BOOLEAN /\ (recorded => recorded')
      BY <1>2, <2>3
    <3>. QED  BY <1>1, <1>2, <1>5, <2>1, <2>2, <2>3, <2>5, <3>1, <3>2, SupervisorBase
  <2>4. CASE /\ phase' = (IF kind = "created" THEN "ended" ELSE to)
             /\ UNCHANGED <<outbox, call, recorded>>
    <3>1. QueueFits'
      BY <1>1, <2>1, <2>2, <2>4 DEF QueueFits, EndRows
    <3>. QED  BY <1>1, <1>2, <1>3, <2>1, <2>2, <2>4, <2>5, <3>1, SupervisorBase
  <2>. QED  BY <1>6, <2>3, <2>4 DEF Witness
<1>7. ASSUME Run  PROVE Base'
  BY <1>6, <1>7 DEF Run
<1>8. ASSUME Settle  PROVE Base'
  <2>1. QueueFits' /\ (Alive' => Alive)
    BY <1>1, <1>4, <1>8 DEF Settle, Alive, QueueFits
  <2>2. /\ delivered' \in BOOLEAN /\ odd' \in 0..MaxOdd /\ UNCHANGED <<hosted, daemonVars>>
        /\ phase' \in {phase, "ended"} /\ UNCHANGED <<outbox, unreachable, recorded>>
        /\ call' \in {call, [call EXCEPT !["main"] = Report(outbox')]}
    BY <1>1, <1>2, <1>8, OddTyped DEF Settle
  <2>. QED  BY <1>1, <1>2, <1>3, <2>1, <2>2, SupervisorBase
<1>9. ASSUME Beat  PROVE Base'
  <2>1. (Alive' => Alive) /\ odd' \in 0..MaxOdd
    BY <1>1, <1>9, OddTyped DEF Beat, Alive
  <2>2. CASE outbox' = Appended("heartbeat")
    <3>1. QueueFits'
      <4>1. recorded' = (recorded \/ "heartbeat" = "settled") /\ phase' = phase /\ ~delivered'
        BY <1>1, <1>2, <1>9 DEF Beat, QueueFits, Alive
      <4>. QED  BY <1>1, <2>2, <4>1, AppendedFits DEF QueueFits
    <3>. QED  BY <1>1, <1>2, <1>5, <1>9, <2>1, <2>2, <3>1, SupervisorBase DEF Beat
  <2>3. CASE outbox' = outbox
    <3>1. QueueFits'
      BY <1>1, <1>4, <1>9, <2>3 DEF Beat, QueueFits
    <3>. QED  BY <1>1, <1>2, <1>3, <1>9, <2>1, <2>3, <3>1, SupervisorBase DEF Beat
  <2>. QED  BY <1>9, <2>2, <2>3 DEF Beat
<1>10. ASSUME Die  PROVE Base'
  <2>1. (Alive' => Alive) /\ odd' \in 0..MaxOdd /\ phase' = "dead"
    BY <1>1, <1>10, OddTyped DEF Die, Alive
  <2>2. QueueFits'
    BY <1>1, <1>4, <1>10, <2>1 DEF Die, QueueFits, Alive
  <2>. QED  BY <1>1, <1>2, <1>3, <1>10, <2>1, <2>2, SupervisorBase DEF Die
<1>. QED  BY <1>7, <1>8, <1>9, <1>10

\* An answer received or lost keeps the first invariant.
LEMMA ReceiveBase ==
    ASSUME Base, NEW w \in Flushers, Supervisor(w)  PROVE Base'
<1>1. /\ TypeOK /\ outbox \subseteq Queued /\ IsFiniteSet(outbox) /\ QueueFits
      /\ Top \in Nat /\ \A r \in outbox : r.event.seq <= Top
      /\ call \in [Callers -> Carried] /\ w \in Callers
  BY Types, TopIs DEF Base, Typed, Callers
<1>2. /\ phase \in {"new", "preflight", "started", "settling", "ended", "dead"}
      /\ unreachable \in BOOLEAN /\ delivered \in BOOLEAN /\ recorded \in BOOLEAN
  BY <1>1 DEF TypeOK
<1>3. /\ odd' \in 0..MaxOdd /\ UNCHANGED <<hosted, phase, delivered, recorded, daemonVars>>
      /\ unreachable' \in BOOLEAN /\ (Alive' => Alive)
  BY <1>1, OddTyped DEF Supervisor, Receive, Unanswered, Alive
<1>4. call' \in {call, [call EXCEPT ![w] = Report(outbox')], [call EXCEPT ![w] = Call("idle")]}
  BY DEF Supervisor, Receive, Unanswered
<1>5. CASE outbox' = Marked(call[w].ack)
  <2>1. call[w].ack \in Nat
    BY <1>1 DEF Carried
  <2>2. QueueFits' /\ outbox' \subseteq Queued /\ IsFiniteSet(outbox') /\ Top' = Top
    BY <1>3, <1>5, <2>1, MarkedFits
  <2>3. \A r \in outbox' : r.event.seq <= Top'
    BY <1>1, <1>5, <2>2, MarkedWas
  <2>. QED  BY <1>1, <1>2, <1>3, <1>4, <2>2, <2>3, SupervisorBase
<1>6. CASE outbox' = outbox
  <2>1. QueueFits' /\ Top' = Top
    BY <1>1, <1>3, <1>6 DEF QueueFits, EndRows, Top
  <2>. QED  BY <1>1, <1>2, <1>3, <1>4, <1>6, <2>1, SupervisorBase
<1>. QED  BY <1>5, <1>6 DEF Supervisor, Receive, Unanswered

(***************************************************************************)
(* The steps of the daemon: what each of them does, then that it keeps the *)
(* invariant.                                                              *)
(***************************************************************************)
LEMMA SeqsHighest ==
    ASSUME Typed, NEW w \in Callers
    PROVE  /\ Highest(Seqs(call[w].events)) \in Nat
           /\ \A e \in call[w].events : e.seq \in Nat /\ e.seq <= Highest(Seqs(call[w].events))
<1>1. PICK n \in Nat : Below(n)
  BY DEF Typed
<1>2. \A e \in call[w].events : e.seq \in Nat /\ e.seq <= n
  BY <1>1, Types DEF Typed, Below, Carried, Event
<1>. DEFINE S == Seqs(call[w].events)
<1>3. S \in SUBSET Nat /\ (\A s \in S : s <= n) /\ \A e \in call[w].events : e.seq \in S
  BY <1>2 DEF Seqs
<1>. HIDE DEF S
<1>4. Highest(S) \in Nat /\ \A s \in S : s <= Highest(S)
  BY <1>3, HighestIs
<1>. QED  BY <1>2, <1>3, <1>4 DEF S

\* The calls that stay what they are still fit.
LEMMA OthersFit ==
    ASSUME Base, NEW w \in Callers, \A v \in Callers : v # w => call'[v] = call[v],
           UNCHANGED <<hosted, phase, recorded>>, CallFits(w)',
           w = "launch" => LaunchFits', w = "other" => OtherFits'
    PROVE  CallsFit'
<1>1. \A v \in Callers : v # w => CallFits(v)'
  BY DEF Base, CallsFit, CallFits, Alive
<1>2. LaunchFits' /\ OtherFits'
  BY DEF Base, CallsFit, LaunchFits, OtherFits, Callers, Flushers
<1>. QED  BY <1>1, <1>2 DEF CallsFit

\* The parts of the invariant, put together after a step of the daemon.
LEMMA DaemonBase ==
    ASSUME Base, UNCHANGED <<hosted, phase, delivered, recorded>>,
           outbox' \subseteq outbox, unreachable' \in BOOLEAN, odd' \in 0..MaxOdd,
           call' \in [Callers -> Carried], row' \in RowSet, saved' \in RowSet,
           receipt' \in Outcomes, token' \in {"open", "closed"}, log' \in Seq(Outcomes),
           untold' \in BOOLEAN, unsaved' \in BOOLEAN,
           RowsFit', CallsFit', KindFits',
           \A n \in Nat : Below(n) => Below(n)',
           ~recorded /\ Alive => Early'
    PROVE  Base'
<1>1. outbox \subseteq Queued /\ IsFiniteSet(outbox)
  BY Types DEF Base, Typed
<1>2. outbox' \subseteq Queued /\ IsFiniteSet(outbox')
  BY <1>1, FS_Subset
<1>3. TypeOK'
  BY <1>2, TypesMake DEF Base, Typed, TypeOK
<1>4. \E n \in Nat : Below(n)'
  BY DEF Base, Typed
<1>5. QueueFits'
  BY DEF Base, QueueFits, EndRows, Undelivered
<1>6. Early'
  BY DEF Early, Alive
<1>. QED  BY <1>2, <1>3, <1>4, <1>5, <1>6 DEF Base, Typed

\* A call moves on, and nothing else changes but what the owner is told.
LEMMA MoveBase ==
    ASSUME Base, NEW w \in Callers, call' \in [Callers -> Carried],
           \A v \in Callers : v # w => call'[v] = call[v],
           call'[w].events \in {call[w].events, {}}, CallFits(w)',
           w = "launch" => LaunchFits', w = "other" => OtherFits',
           call'[w].step \notin {"listed", "receipted"},
           ~recorded /\ Alive =>
              ~call'[w].terminal /\ call'[w].exit = "none" /\ call'[w].ack <= Top,
           UNCHANGED <<jobVars, row, saved, receipt, token, unsaved>>, odd' \in 0..MaxOdd,
           log' \in Seq(Outcomes), untold' \in BOOLEAN,
           ~recorded /\ Alive => log' = log /\ untold' = untold
    PROVE  Base'
<1>. USE DEF jobVars
<1>1. CallsFit'
  BY OthersFit
<1>2. RowsFit' /\ KindFits'
  BY DEF Base, RowsFit, RowFits, KindFits, Alive
<1>3. \A n \in Nat : Below(n) => Below(n)'
  BY DEF Below
<1>4. Top' = Top
  BY DEF Top
<1>5. ~recorded /\ Alive => Early'
  BY <1>4 DEF Base, Early, Alive
<1>6. TypeOK /\ row \in RowSet /\ saved \in RowSet
  BY Types DEF Base, Typed
<1>. QED  BY <1>1, <1>2, <1>3, <1>5, <1>6, DaemonBase DEF TypeOK

\* Who is let in: a report of a running flush.  One that is not read is the
\* report of an ended job.
LEMMA AdmitIs ==
    ASSUME Base, NEW w \in Callers, Admit(w)
    PROVE  /\ call[w].step = "transit" /\ w \in Flushers
           /\ call' \in [Callers -> Carried]
           /\ \A v \in Callers : v # w => call'[v] = call[v]
           /\ call'[w].events = call[w].events /\ call[w].exit = "none" /\ call'[w].exit = "none"
           /\ ~call[w].terminal /\ ~call'[w].terminal
           /\ \/ /\ call'[w].step = "replied" /\ call'[w].ack = Highest(Seqs(call[w].events))
                 /\ token = "closed" \/ (~hosted /\ row = NoRow /\ receipt # "none")
              \/ call'[w].step = "checked" /\ call'[w].ack = call[w].ack /\ token = "open"
           /\ UNCHANGED <<jobVars, daemonVars, odd>>
<1>1. call \in [Callers -> Carried] /\ Highest(Seqs(call[w].events)) \in Nat
  BY Types, SeqsHighest DEF Base, Typed
<1>2. /\ call[w].step = "transit" /\ w \in Flushers
      /\ call[w].exit = "none" /\ ~call[w].terminal
  BY DEF Admit, Base, CallsFit, CallFits
<1>3. token \in {"open", "closed"} /\ (~hosted => token = "open")
  BY DEF Base, Typed, TypeOK, KindFits
<1>4. call' = [call EXCEPT ![w] = Unread(@)] \/ call' = [call EXCEPT ![w].step = "checked"]
  BY DEF Admit
<1>5. Unread(call[w]) \in Carried /\ [call[w] EXCEPT !.step = "checked"] \in Carried
  BY <1>1 DEF Unread, Carried, Steps
<1>6. call' \in [Callers -> Carried] /\ \A v \in Callers : v # w => call'[v] = call[v]
  BY <1>1, <1>4, <1>5
<1>7. CASE \/ hosted /\ token = "closed"
           \/ ~hosted /\ Settles(call[w].events) /\ row = NoRow /\ receipt # "none"
  <2>1. call'[w] = Unread(call[w])
    BY <1>1, <1>7 DEF Admit
  <2>2. /\ call'[w].step = "replied" /\ call'[w].ack = Highest(Seqs(call[w].events))
        /\ call'[w].events = call[w].events /\ call'[w].exit = call[w].exit
        /\ call'[w].terminal = call[w].terminal
    BY <1>1, <2>1 DEF Unread, Carried
  <2>. QED  BY <1>2, <1>6, <1>7, <2>2 DEF Admit
<1>8. CASE ~(\/ hosted /\ token = "closed"
             \/ ~hosted /\ Settles(call[w].events) /\ row = NoRow /\ receipt # "none")
  <2>1. call'[w] = [call[w] EXCEPT !.step = "checked"]
    BY <1>1, <1>8 DEF Admit
  <2>2. /\ call'[w].step = "checked" /\ call'[w].ack = call[w].ack
        /\ call'[w].events = call[w].events /\ call'[w].exit = call[w].exit
        /\ call'[w].terminal = call[w].terminal
    BY <1>1, <2>1 DEF Carried
  <2>. QED  BY <1>2, <1>3, <1>6, <1>8, <2>2 DEF Admit
<1>. QED  BY <1>7, <1>8

\* Admitting a report keeps the first invariant.
LEMMA AdmitBase ==
    ASSUME Base, NEW w \in Callers, Admit(w)  PROVE Base'
<1>1. CallFits(w)' /\ w # "launch" /\ w # "other"
  BY AdmitIs DEF Base, CallsFit, CallFits, Settles, jobVars, Flushers
<1>2. ~recorded /\ Alive => call'[w].ack <= Top
  BY AdmitIs DEF Base, Early
<1>3. log \in Seq(Outcomes) /\ untold \in BOOLEAN /\ odd \in 0..MaxOdd
  BY Types DEF Base, Typed, TypeOK
<1>4. call'[w].step \notin {"listed", "receipted"} /\ call'[w].events = call[w].events
      /\ ~call'[w].terminal /\ call'[w].exit = "none"
  BY AdmitIs
<1>5. UNCHANGED <<row, saved, receipt, token, unsaved, log, untold>>
  BY AdmitIs DEF daemonVars, keptVars, toldVars
<1>. QED  BY <1>1, <1>2, <1>3, <1>4, <1>5, AdmitIs, MoveBase

\* Who tells the owner: the verdict is in hand until the log has it, the telling
\* is let go, or the log had one before.
LEMMA TellIs ==
    ASSUME Base, NEW w \in Callers, LookAtLog(w) \/ Emit(w)
    PROVE  /\ call[w].exit # "none" /\ call[w].exit \in Outcomes
           /\ call[w].step \in {"applied", "unlogged"} /\ w # "launch" /\ w # "other"
           /\ ~(~recorded /\ Alive)
           /\ call' \in [Callers -> Carried]
           /\ \A v \in Callers : v # w => call'[v] = call[v]
           /\ call'[w].events = call[w].events /\ call'[w].ack = call[w].ack
           /\ call'[w].terminal = call[w].terminal
           /\ \/ /\ call[w].step = "applied" /\ log = <<>>
                 /\ call'[w].step = "unlogged" /\ call'[w].exit = call[w].exit
                 /\ UNCHANGED <<log, untold>>
              \/ /\ call'[w].step = "emitted" /\ call'[w].exit = "none"
                 /\ \/ call[w].step = "unlogged" /\ log' = Append(log, call[w].exit)
                       /\ log' # <<>> /\ untold' = untold
                    \/ log' = log /\ untold' = untold /\ log # <<>>
                    \/ log' = log /\ untold'
           /\ log' \in Seq(Outcomes) /\ untold' \in BOOLEAN /\ odd' \in 0..MaxOdd
           /\ UNCHANGED <<jobVars, row, saved, receipt, token, unsaved>>
<1>1. call \in [Callers -> Carried] /\ log \in Seq(Outcomes) /\ untold \in BOOLEAN
  BY Types DEF Base, Typed, TypeOK
<1>2. call[w].step \in {"applied", "unlogged"}
  BY DEF LookAtLog, Emit
<1>3. /\ call[w].exit # "none" /\ call[w].exit \in Outcomes /\ w # "launch" /\ w # "other"
      /\ ~(~recorded /\ Alive)
  BY <1>1, <1>2 DEF Base, CallsFit, CallFits, LaunchFits, OtherFits, Early, Carried
<1>4. call' = [call EXCEPT ![w].step = "unlogged"]
        \/ call' = [call EXCEPT ![w].step = "emitted", ![w].exit = "none"]
  BY DEF LookAtLog, Emit, Told, Goes
<1>5. /\ call' \in [Callers -> Carried] /\ \A v \in Callers : v # w => call'[v] = call[v]
      /\ call'[w].events = call[w].events /\ call'[w].ack = call[w].ack
      /\ call'[w].terminal = call[w].terminal
      /\ call'[w].step = "unlogged" => call'[w].exit = call[w].exit
  <2>1. CASE call' = [call EXCEPT ![w].step = "unlogged"]
    BY <1>1, <2>1 DEF Carried, Steps
  <2>2. CASE call' = [call EXCEPT ![w].step = "emitted", ![w].exit = "none"]
    BY <1>1, <2>2 DEF Carried, Steps, Outcomes
  <2>. QED  BY <1>4, <2>1, <2>2
<1>6. odd' \in 0..MaxOdd
  BY OddTyped DEF LookAtLog, Emit, Base, Typed
<1>7. Append(log, call[w].exit) # <<>> /\ Append(log, call[w].exit) \in Seq(Outcomes)
  BY <1>1, <1>3
<1>8. UNCHANGED <<jobVars, row, saved, receipt, token, unsaved>>
  BY DEF LookAtLog, Emit, keptVars
<1>9. \/ /\ call[w].step = "applied" /\ log = <<>>
         /\ call'[w].step = "unlogged" /\ UNCHANGED <<log, untold>>
      \/ /\ call'[w].step = "emitted" /\ call'[w].exit = "none"
         /\ \/ call[w].step = "unlogged" /\ log' = Append(log, call[w].exit) /\ untold' = untold
            \/ log' = log /\ untold' = untold /\ log # <<>>
            \/ log' = log /\ untold'
  <2>1. ASSUME Told(w)  PROVE call'[w].step = "emitted" /\ call'[w].exit = "none"
    BY <1>1, <2>1 DEF Told, Carried
  <2>2. ASSUME Goes(w, "unlogged")  PROVE call'[w].step = "unlogged"
    BY <1>1, <2>2 DEF Goes, Carried
  <2>3. CASE LookAtLog(w)
    BY <2>1, <2>2, <2>3 DEF LookAtLog
  <2>4. CASE Emit(w)
    BY <1>1, <2>1, <2>4 DEF Emit
  <2>. QED  BY <2>3, <2>4
<1>. QED  BY <1>1, <1>2, <1>3, <1>5, <1>6, <1>7, <1>8, <1>9

\* A telling keeps the first invariant.
LEMMA TellBase ==
    ASSUME Base, NEW w \in Callers, LookAtLog(w) \/ Emit(w)  PROVE Base'
<1>. DEFINE c == call[w]
            d == call'[w]
<1>1. /\ d.events = c.events /\ d.terminal = c.terminal /\ c.step \in {"applied", "unlogged"}
      /\ \/ d.step = "unlogged" /\ d.exit = c.exit /\ c.exit # "none"
         \/ d.step = "emitted" /\ d.exit = "none"
      /\ UNCHANGED <<phase, recorded>>
  BY TellIs DEF jobVars
<1>2. CallFits(w)'
  BY <1>1 DEF Base, CallsFit, CallFits, Settles, Alive
<1>3. d.step \notin {"listed", "receipted"} /\ d.events \in {c.events, {}}
  BY <1>1
<1>. HIDE DEF c, d
<1>. QED  BY <1>2, <1>3, TellIs, MoveBase DEF c, d

\* A commit of another job keeps the first invariant.
LEMMA OtherBase ==
    ASSUME Base, OtherChanges  PROVE Base'
<1>1. call \in [Callers -> Carried] /\ "other" \in Callers
  BY Types DEF Base, Typed, Callers
<1>2. /\ call' \in [Callers -> Carried] /\ (\A v \in Callers : v # "other" => call'[v] = call[v])
      /\ call["other"].step = "idle" /\ call'["other"].step = "emitted"
      /\ call'["other"].events = call["other"].events /\ call'["other"].exit = call["other"].exit
      /\ call'["other"].terminal = call["other"].terminal /\ call'["other"].ack = call["other"].ack
  BY <1>1 DEF OtherChanges, Goes, Carried, Steps
<1>3. UNCHANGED <<jobVars, row, saved, receipt, token, unsaved, log, untold>>
  BY DEF OtherChanges, daemonVars, keptVars, toldVars
<1>4. CallFits("other")' /\ OtherFits'
  BY <1>1, <1>2, <1>3 DEF Base, CallsFit, CallFits, OtherFits, Settles, jobVars
<1>5. ~recorded /\ Alive =>
         ~call'["other"].terminal /\ call'["other"].exit = "none" /\ call'["other"].ack <= Top
  BY <1>1, <1>2 DEF Base, Early
<1>6. log \in Seq(Outcomes) /\ untold \in BOOLEAN /\ odd' \in 0..MaxOdd
  BY Types, OddTyped DEF Base, Typed, TypeOK, OtherChanges
<1>7. call'["other"].step \notin {"listed", "receipted"}
      /\ call'["other"].events \in {call["other"].events, {}}
  BY <1>2
<1>. QED  BY <1>1, <1>2, <1>3, <1>4, <1>5, <1>6, <1>7, MoveBase

\* The row a report finds: the one that is there, or a new one.
Found == IF row = NoRow THEN NewRow ELSE row

\* The row a handler finds, or creates.
LEMMA FoundIs ==
    ASSUME Base
    PROVE  /\ Found \in RowSet /\ RowFits(Found) /\ Found.seen = row.seen
           /\ Found.status \in {"running", "settled"}
           /\ Found.status = "settled" <=> row.status = "settled"
           /\ Found.status = "settled" => Found = row
           /\ Found.missing => row.missing
<1>1. row \in RowSet /\ RowFits(row)
  BY Types DEF Base, Typed, RowsFit
<1>2. CASE row = NoRow
  BY <1>2 DEF Found, NewRow, NoRow, RowSet, Outcomes, Statuses, RowFits
<1>3. CASE row # NoRow
  BY <1>1, <1>3 DEF Found, RowFits, RowSet, Statuses
<1>. QED  BY <1>2, <1>3

\* What RegisterProcessChild does, field by field.
LEMMA ApplyIs ==
    ASSUME Base, NEW w \in Callers, w # "tick", Apply(w)
    PROVE  /\ call[w].step = "checked" /\ row' = Applied(Found, call[w].events)
           /\ w # "other" /\ call[w].exit = "none" /\ ~call[w].terminal
           /\ row' \in RowSet /\ row'.status \in {"running", "settled"}
           /\ call' \in [Callers -> Carried]
           /\ \A v \in Callers : v # w => call'[v] = call[v]
           /\ call'[w].events = call[w].events /\ call'[w].ack = Highest(row'.seen)
           /\ call'[w].terminal <=> row'.status = "settled"
           /\ call'[w].exit = Exit(Found, row')
           /\ call'[w].step = IF call'[w].exit = "none" THEN "emitted" ELSE "applied"
           /\ UNCHANGED <<jobVars, saved, receipt, token, log, untold, unsaved, odd>>
<1>1. call \in [Callers -> Carried] /\ Found \in RowSet /\ Found.status \in {"running", "settled"}
  BY Types, FoundIs DEF Base, Typed
<1>2. call[w].events \in SUBSET Event /\ \E n \in Nat : Below(n)
  BY <1>1 DEF Carried, Base, Typed
<1>3. PICK n \in Nat : Below(n)
  BY <1>2
<1>4. (\A s \in Found.seen : s <= n) /\ \A e \in call[w].events : e.seq <= n
  BY <1>3, FoundIs DEF Below
<1>. DEFINE new == Applied(Found, call[w].events)
<1>5. new \in RowSet /\ Highest(new.seen) \in Nat
  BY <1>1, <1>2, <1>4, AppliedIs
<1>6. new.status \in {"running", "settled"}
  BY <1>1, <1>2, AppliedEnds
<1>7. Exit(Found, new) \in Outcomes
  BY <1>5 DEF Exit, RowSet, Outcomes
<1>8. /\ call[w].step = "checked" /\ row' = new
      /\ UNCHANGED <<jobVars, saved, receipt, token, log, untold, unsaved, odd>>
      /\ call' = [call EXCEPT ![w] =
                [@ EXCEPT !.step = IF Exit(Found, new) = "none" THEN "emitted" ELSE "applied",
                          !.ack = Highest(new.seen), !.exit = Exit(Found, new),
                          !.terminal = new.status # "running"]]
  BY DEF Apply, Found, keptVars, toldVars
<1>9. w # "other" /\ call[w].exit = "none" /\ ~call[w].terminal
  BY <1>8 DEF Base, CallsFit, CallFits, OtherFits
<1>. HIDE DEF new
<1>10. call'[w] = [call[w] EXCEPT !.step = IF Exit(Found, new) = "none" THEN "emitted" ELSE "applied",
                          !.ack = Highest(new.seen), !.exit = Exit(Found, new),
                          !.terminal = new.status # "running"]
  BY <1>1, <1>8
<1>11. call'[w] \in Carried
  BY <1>1, <1>5, <1>7, <1>10 DEF Carried, Steps
<1>12. call' \in [Callers -> Carried] /\ \A v \in Callers : v # w => call'[v] = call[v]
  BY <1>1, <1>8, <1>10, <1>11
<1>13. /\ call'[w].events = call[w].events /\ call'[w].ack = Highest(new.seen)
       /\ call'[w].terminal = (new.status # "running")
       /\ call'[w].exit = Exit(Found, new)
       /\ call'[w].step = IF Exit(Found, new) = "none" THEN "emitted" ELSE "applied"
  BY <1>1, <1>10 DEF Carried
<1>. QED  BY <1>5, <1>6, <1>8, <1>9, <1>12, <1>13 DEF new

\* The verdict of a row that meets events.
LEMMA ExitIs ==
    ASSUME Base, NEW events \in SUBSET Event, NEW r \in {row, Found}
    PROVE  LET new == Applied(r, events)
               ends == \E e \in events : e.kind = "settled" /\ e.seq > Highest(r.seen)
           IN /\ r.status = "settled" => new.status = "settled" /\ new.outcome = r.outcome
              /\ r.status = "running" =>
                   IF ends THEN new.status = "settled" /\ new.outcome = "settled"
                           ELSE new.status = "running" /\ new.outcome = "none"
              /\ r.status # "running" => new.status = r.status /\ Exit(r, new) = "none"
              /\ r.status = "running" => Exit(r, new) = IF ends THEN "settled" ELSE "none"
              /\ new.spool = r.spool /\ new.missing = r.missing
<1>1. r \in RowSet /\ RowFits(r)
  BY Types, FoundIs DEF Base, Typed, RowsFit
<1>. DEFINE ends == \E e \in events : e.kind = "settled" /\ e.seq > Highest(r.seen)
<1>2. (r.status # "running" => Applied(r, events).status = r.status /\ Applied(r, events).outcome = r.outcome)
      /\ (r.status = "running" /\ ~ends => Applied(r, events).status = "running" /\ Applied(r, events).outcome = r.outcome)
      /\ (r.status = "running" /\ ends => Applied(r, events).status = "settled" /\ Applied(r, events).outcome = "settled")
      /\ Applied(r, events).spool = r.spool /\ Applied(r, events).missing = r.missing
  BY <1>1, AppliedEnds
<1>3. r.status = "running" => r.outcome = "none"
  BY <1>1 DEF RowFits
<1>. HIDE DEF ends
<1>4. /\ r.status # "running" => Exit(r, Applied(r, events)) = "none"
      /\ r.status = "running" => Exit(r, Applied(r, events)) = IF ends THEN "settled" ELSE "none"
  BY <1>2, <1>3 DEF Exit
<1>5. r.status = "running" =>
                   IF ends THEN Applied(r, events).status = "settled" /\ Applied(r, events).outcome = "settled"
                           ELSE Applied(r, events).status = "running" /\ Applied(r, events).outcome = "none"
  BY <1>2, <1>3
<1>. QED  BY <1>2, <1>4, <1>5 DEF ends

\* A report is applied: either the row was settled and stays, or it was running
\* (or new) and now is settled exactly when the report carries the outcome.
LEMMA AppliesIs ==
    ASSUME Base, NEW w \in Callers, w # "tick", Apply(w)
    PROVE  \/ /\ row.status = "settled" /\ row'.status = "settled" /\ row'.outcome = row.outcome
              /\ call'[w].exit = "none" /\ row'.missing = row.missing
           \/ /\ row.status # "settled" /\ row'.status = "settled" /\ row'.outcome = "settled"
              /\ call'[w].exit = "settled" /\ Settles(call[w].events) /\ recorded
              /\ row'.missing = Found.missing
           \/ /\ row.status # "settled" /\ row'.status = "running" /\ row'.outcome = "none"
              /\ call'[w].exit = "none" /\ row'.missing = Found.missing
              /\ ~\E e \in call[w].events : e.kind = "settled" /\ e.seq > Highest(row.seen)
<1>1. call[w].events \in SUBSET Event
  BY Types DEF Base, Typed, Carried
<1>2. row' = Applied(Found, call[w].events) /\ call'[w].exit = Exit(Found, row')
  BY ApplyIs
<1>3. Found.seen = row.seen /\ Found.status \in {"running", "settled"}
      /\ (Found.status = "settled" <=> row.status = "settled")
      /\ (Found.status = "settled" => Found = row)
  BY FoundIs
<1>4. Settles(call[w].events) => recorded
  BY DEF Base, CallsFit, CallFits
<1>. DEFINE ends == \E e \in call[w].events : e.kind = "settled" /\ e.seq > Highest(Found.seen)
<1>5. ends => Settles(call[w].events)
  BY DEF Settles
<1>6. /\ Found.status = "settled" => row'.status = "settled" /\ row'.outcome = Found.outcome
      /\ Found.status = "running" =>
                   IF ends THEN row'.status = "settled" /\ row'.outcome = "settled"
                           ELSE row'.status = "running" /\ row'.outcome = "none"
      /\ Found.status # "running" => call'[w].exit = "none"
      /\ Found.status = "running" => call'[w].exit = IF ends THEN "settled" ELSE "none"
      /\ row'.missing = Found.missing
  BY <1>1, <1>2, ExitIs
<1>7. ends <=> \E e \in call[w].events : e.kind = "settled" /\ e.seq > Highest(row.seen)
  BY <1>3
<1>. HIDE DEF ends
<1>8. CASE Found.status = "settled"
  BY <1>3, <1>6, <1>8
<1>9. CASE Found.status = "running" /\ ends
  BY <1>3, <1>4, <1>5, <1>6, <1>9
<1>10. CASE Found.status = "running" /\ ~ends
  BY <1>3, <1>6, <1>7, <1>10
<1>. QED  BY <1>3, <1>8, <1>9, <1>10

\* Applying a report keeps the first invariant.
LEMMA ApplyBase ==
    ASSUME Base, NEW w \in Callers, w # "tick", Apply(w)  PROVE Base'
<1>. USE DEF jobVars
<1>1. /\ call \in [Callers -> Carried] /\ call[w].events \in SUBSET Event
      /\ Found \in RowSet /\ RowFits(Found) /\ Found.seen = row.seen /\ row.seen \in SUBSET Nat
      /\ saved \in RowSet /\ log \in Seq(Outcomes)
  BY Types, FoundIs DEF Base, Typed, Carried, RowSet
<1>2. \A n \in Nat : (\A s \in row.seen : s <= n) /\ (\A e \in call[w].events : e.seq <= n) =>
         (\A s \in row'.seen : s <= n) /\ Highest(row'.seen) \in Nat /\ Highest(row'.seen) <= n
  BY <1>1, ApplyIs, AppliedIs
<1>3. \A v \in Callers : call'[v].events = call[v].events
  BY ApplyIs
<1>4. \A n \in Nat : Below(n) => Below(n)'
  BY <1>2, <1>3, ApplyIs DEF Below
<1>5. RowFits(row)'
  <2>1. row.missing => ~Alive
    BY DEF Base, RowsFit, RowFits
  <2>2. Found.missing => row.missing
    BY FoundIs
  <2>3. row'.missing => ~Alive
    BY <2>1, <2>2, AppliesIs
  <2>4. row'.status # "absent"
    BY ApplyIs
  <2>5. /\ row'.status = "running" => row'.outcome = "none"
        /\ row'.status = "settled" => row'.outcome # "none"
        /\ row'.outcome = "settled" => recorded
        /\ row'.outcome = "lost" => ~Alive
    BY AppliesIs DEF Base, RowsFit, RowFits
  <2>6. Alive' = Alive /\ recorded' = recorded
    BY ApplyIs DEF Alive
  <2>. QED  BY <2>3, <2>4, <2>5, <2>6 DEF RowFits
<1>6. RowsFit'
  BY <1>5, ApplyIs DEF Base, RowsFit, RowFits, Alive
<1>7. CallsFit'
  <2>1. call'[w].exit \in {"none", "settled"} /\ (call'[w].exit = "settled" => recorded)
    BY AppliesIs
  <2>2. CallFits(w)'
    <3>1. Settles(call[w].events) => recorded
      BY DEF Base, CallsFit, CallFits
    <3>. QED  BY <1>3, <2>1, <3>1, ApplyIs DEF CallFits, Settles
  <2>3. w = "launch" => LaunchFits'
    <3>1. SUFFICES ASSUME w = "launch"  PROVE LaunchFits'
      OBVIOUS
    <3>2. hosted /\ call[w].events = {} /\ ~Settles({})
      BY <3>1, ApplyIs DEF Base, CallsFit, LaunchFits, Settles
    <3>3. call'[w].exit = "none"
      BY <3>2, AppliesIs
    <3>. QED  BY <3>1, <3>2, <3>3, ApplyIs DEF LaunchFits
  <2>. QED  BY <2>2, <2>3, ApplyIs, OthersFit
<1>8. KindFits'
  <2>1. call'[w].step \notin {"listed", "receipted"}
    BY ApplyIs
  <2>2. \A v \in Callers : call'[v].step \in {"listed", "receipted"} => call'[v] = call[v]
    BY <2>1, ApplyIs
  <2>. QED  BY <2>2, ApplyIs DEF Base, KindFits
<1>9. ~recorded /\ Alive => Early'
  <2>. SUFFICES ASSUME ~recorded, Alive  PROVE Early'
    OBVIOUS
  <2>1. Top' = Top /\ Top \in Nat
    BY ApplyIs, TopIs DEF Base, Top
  <2>2. (\A s \in row'.seen : s <= Top) /\ Highest(row'.seen) <= Top
    BY <1>2, <2>1 DEF Base, Early
  <2>3. row'.status = "running" /\ call'[w].exit = "none"
    BY AppliesIs DEF Base, Early
  <2>4. ~call'[w].terminal /\ call'[w].ack <= Top
    BY <2>2, <2>3, ApplyIs
  <2>5. \A v \in Callers : v # w => call'[v] = call[v]
    BY ApplyIs
  <2>6. log' = log /\ untold' = untold /\ receipt' = receipt /\ token' = token /\ saved' = saved
    BY ApplyIs
  <2>. QED  BY <1>3, <2>1, <2>2, <2>3, <2>4, <2>5, <2>6 DEF Base, Early
<1>10. TypeOK /\ UNCHANGED <<hosted, phase, delivered, recorded, outbox, unreachable, odd>>
  BY ApplyIs DEF Base, Typed
<1>. QED  BY <1>1, <1>4, <1>6, <1>7, <1>8, <1>9, <1>10, ApplyIs, DaemonBase DEF TypeOK

\* After its commit a call goes on to the answer, is answered, or is over.
LEMMA DoneIs ==
    ASSUME NEW w \in Callers, NEW c \in Carried
    PROVE  LET d == Done(w, c)
           IN /\ d \in Carried /\ d.step \in {"answer", "replied", "idle"}
              /\ d.step = "answer" <=> c.terminal
              /\ d.step = "replied" <=> ~c.terminal /\ w \in Flushers
              /\ d.step # "idle" => d.events = c.events /\ d.ack = c.ack /\ d.exit = c.exit
                                    /\ d.terminal = c.terminal
              /\ d.step = "idle" => d = Call("idle")
<1>1. CASE c.terminal
  BY <1>1 DEF Done, Carried, Steps, Statuses
<1>2. CASE ~c.terminal /\ w \in Flushers
  BY <1>2 DEF Done, Carried, Steps, Statuses
<1>3. CASE ~c.terminal /\ w \notin Flushers
  <2>1. Done(w, c) = Call("idle")
    BY <1>3 DEF Done
  <2>2. Call("idle") \in Carried /\ Call("idle").step = "idle"
    BY IdleIs DEF Steps
  <2>. QED  BY <1>3, <2>1, <2>2
<1>. QED  BY <1>1, <1>2, <1>3

\* A row that a start loads is the row, but for its spool and a missing supervisor.
LEMMA LoadedIs ==
    ASSUME Base, NEW r \in {row, saved}
    PROVE  /\ Loaded(r) \in RowSet /\ Loaded(r).status = r.status /\ Loaded(r).seen = r.seen
           /\ RowFits(Loaded(r)) /\ ~Loaded(r).missing /\ (Loaded(r) = NoRow <=> r = NoRow)
<1>1. r \in RowSet /\ RowFits(r) /\ hosted \in BOOLEAN
  BY Types DEF Base, Typed, TypeOK, RowsFit
<1>2. Loaded(r) = [r EXCEPT !.spool = r # NoRow /\ (~hosted \/ r.status = "running"),
                            !.missing = FALSE]
  BY DEF Loaded
<1>3. Loaded(r) \in RowSet /\ ~Loaded(r).missing
      /\ Loaded(r).status = r.status /\ Loaded(r).outcome = r.outcome /\ Loaded(r).seen = r.seen
  BY <1>1, <1>2 DEF RowSet
<1>4. r = NoRow => Loaded(r) = NoRow
  <2>1. SUFFICES ASSUME r = NoRow  PROVE Loaded(r) = NoRow
    OBVIOUS
  <2>2. /\ Loaded(r).status = "absent" /\ Loaded(r).outcome = "none" /\ Loaded(r).seen = {}
        /\ Loaded(r).spool = FALSE /\ Loaded(r).missing = FALSE
    BY <1>1, <1>2, <2>1 DEF RowSet, NoRow
  <2>. QED  BY <1>3, <2>2 DEF RowSet, NoRow
<1>5. NoRow.status = "absent"
  BY DEF NoRow
<1>. QED  BY <1>1, <1>3, <1>4, <1>5 DEF RowFits

Commits(w) == Persist(w) \/ List(w) \/ Compact(w) \/ Snapshot(w)

\* A step of a commit.  The call goes on with it or is done, and then the rows
\* are saved or a write has failed; a settled row that leaves has a receipt.
LEMMA CommitIs ==
    ASSUME Base, NEW w \in Callers, Commits(w)
    PROVE  /\ call[w].step \in {"emitted", "listed", "receipted"} /\ call[w].exit = "none"
           /\ call' \in [Callers -> Carried]
           /\ \A v \in Callers : v # w => call'[v] = call[v]
           /\ call'[w].exit = "none"
           /\ \/ /\ call'[w].step \in {"listed", "receipted"} /\ ~hosted
                 /\ call'[w].events = call[w].events /\ call'[w].ack = call[w].ack
                 /\ call'[w].terminal = call[w].terminal
                 /\ call[w].step \notin {"listed", "receipted"} => ~Committing
                 /\ UNCHANGED <<saved, unsaved, odd>>
                 /\ \/ row' = row /\ receipt' = receipt
                    \/ /\ row.status = "settled" /\ (row' = row \/ row' = NoRow)
                       /\ receipt' # "none"
              \/ /\ call'[w].step \in {"answer", "replied", "idle"}
                 /\ call'[w].step = "answer" <=> call[w].terminal
                 /\ call'[w].step = "replied" <=> ~call[w].terminal /\ w \in Flushers
                 /\ call'[w].step # "idle" =>
                       /\ call'[w].events = call[w].events /\ call'[w].ack = call[w].ack
                       /\ call'[w].terminal = call[w].terminal
                 /\ call'[w].step = "idle" => call'[w] = Call("idle")
                 /\ UNCHANGED <<row, receipt>>
                 /\ \/ saved' = Loaded(row) /\ unsaved' = unsaved /\ odd' = odd
                    \/ saved' = saved /\ unsaved' = TRUE /\ Odd
           /\ receipt' \in Outcomes /\ (receipt # "none" => receipt' # "none")
           /\ UNCHANGED <<jobVars, token, log, untold>>
<1>1. call \in [Callers -> Carried] /\ receipt \in Outcomes /\ row \in RowSet /\ RowFits(row)
  BY Types DEF Base, Typed, TypeOK, RowsFit
<1>2. call[w].step \in {"emitted", "listed", "receipted"} /\ call[w].exit = "none"
  BY DEF Commits, Persist, List, Compact, Snapshot, Base, CallsFit, CallFits
<1>3. UNCHANGED <<jobVars, token, log, untold>>
  BY DEF Commits, Persist, List, Compact, Snapshot, toldVars
<1>4. CASE Ends(w) \/ Fails(w)
  <2>1. call' = [call EXCEPT ![w] = Done(w, call[w])]
    BY <1>4 DEF Ends, Fails
  <2>2. call[w] \in Carried
    BY <1>1
  <2>3. Done(w, call[w]) \in Carried
    BY <2>2, DoneIs
  <2>4. call' \in [Callers -> Carried] /\ call'[w] = Done(w, call[w])
        /\ \A v \in Callers : v # w => call'[v] = call[v]
    BY <1>1, <2>1, <2>3
  <2>5. /\ call'[w].step \in {"answer", "replied", "idle"}
        /\ call'[w].step = "answer" <=> call[w].terminal
        /\ call'[w].step = "replied" <=> ~call[w].terminal /\ w \in Flushers
        /\ call'[w].step # "idle" => call'[w].events = call[w].events /\ call'[w].ack = call[w].ack
              /\ call'[w].exit = call[w].exit /\ call'[w].terminal = call[w].terminal
        /\ call'[w].step = "idle" => call'[w] = Call("idle")
    BY <2>2, <2>4, DoneIs
  <2>6. call'[w].exit = "none"
    BY <1>2, <2>5, IdleIs DEF Steps
  <2>7. UNCHANGED <<row, receipt>>
        /\ \/ saved' = Loaded(row) /\ unsaved' = unsaved /\ odd' = odd
           \/ saved' = saved /\ unsaved' = TRUE /\ Odd
    <3>1. CASE Fails(w)
      BY <3>1 DEF Fails
    <3>2. CASE ~Fails(w)
      <4>1. ~(call'[w].step = "listed") /\ ~(call'[w].step = "receipted")
        BY <2>5
      <4>2. Persist(w) \/ Snapshot(w)
        BY <1>1, <3>2, <4>1 DEF Commits, List, Compact, Goes, Carried
      <4>. QED  BY <3>2, <4>2 DEF Persist, Snapshot
    <3>. QED  BY <3>1, <3>2
  <2>. QED  BY <1>1, <1>2, <1>3, <2>4, <2>5, <2>6, <2>7
<1>5. CASE ~(Ends(w) \/ Fails(w))
  <2>1. List(w) \/ Compact(w)
    BY <1>5 DEF Commits, Persist, Snapshot
  <2>2. /\ call' \in [Callers -> Carried] /\ \A v \in Callers : v # w => call'[v] = call[v]
        /\ call'[w].step \in {"listed", "receipted"}
        /\ call'[w].events = call[w].events /\ call'[w].ack = call[w].ack
        /\ call'[w].terminal = call[w].terminal /\ call'[w].exit = call[w].exit
    <3>1. CASE List(w)
      BY <1>1, <1>5, <3>1 DEF List, Carried, Steps, RowSet
    <3>2. CASE Compact(w)
      BY <1>1, <1>5, <3>2 DEF Compact, Goes, Carried, Steps
    <3>. QED  BY <2>1, <3>1, <3>2
  <2>3. ~hosted
    BY <2>1 DEF List, Compact, Base, KindFits
  <2>4. (call[w].step \notin {"listed", "receipted"} => ~Committing) /\ UNCHANGED <<saved, unsaved, odd>>
    BY <1>5, <2>1 DEF List, Compact
  <2>5. /\ \/ row' = row /\ receipt' = receipt
           \/ row.status = "settled" /\ (row' = row \/ row' = NoRow) /\ receipt' # "none"
        /\ receipt' \in Outcomes /\ (receipt # "none" => receipt' # "none")
    <3>1. CASE List(w)
      BY <1>1, <1>5, <3>1 DEF List
    <3>2. CASE Compact(w)
      <4>1. row.status = "settled" => row.outcome # "none" /\ row.outcome \in Outcomes
        BY <1>1 DEF RowFits, RowSet
      <4>. QED  BY <1>1, <1>5, <3>2, <4>1 DEF Compact
    <3>. QED  BY <2>1, <3>1, <3>2
  <2>. QED  BY <1>1, <1>2, <1>3, <2>2, <2>3, <2>4, <2>5
<1>. QED  BY <1>4, <1>5

\* A step of a commit keeps the first invariant.
LEMMA CommitBase ==
    ASSUME Base, NEW w \in Callers, Commits(w)  PROVE Base'
<1>. USE DEF jobVars
<1>1. /\ call \in [Callers -> Carried] /\ row \in RowSet /\ saved \in RowSet
      /\ NoRow \in RowSet /\ log \in Seq(Outcomes) /\ RowsFit /\ TypeOK
  BY Types DEF Base, Typed, NoRow, RowSet, Outcomes, Statuses
<1>2. NoRow.seen = {} /\ NoRow.status = "absent" /\ NoRow.outcome = "none" /\ ~NoRow.missing
  BY DEF NoRow
<1>3. /\ Loaded(row) \in RowSet /\ RowFits(Loaded(row)) /\ ~Loaded(row).missing
      /\ Loaded(row).seen = row.seen /\ Loaded(row).status = row.status
  BY LoadedIs
<1>4. (row' = row \/ row' = NoRow) /\ (saved' = saved \/ saved' = Loaded(row))
      /\ unsaved' \in BOOLEAN /\ (odd' = odd \/ Odd)
  BY <1>1, CommitIs DEF TypeOK
<1>5. odd' \in 0..MaxOdd
  BY <1>1, <1>4, OddTyped
<1>6. RowsFit'
  <2>1. RowFits(NoRow)
    BY <1>2 DEF RowFits
  <2>2. RowFits(row') /\ RowFits(saved') /\ ~saved'.missing
    BY <1>1, <1>3, <1>4, <2>1 DEF RowsFit
  <2>3. recorded' = recorded /\ Alive' = Alive
    BY CommitIs DEF Alive
  <2>. QED  BY <2>2, <2>3 DEF RowsFit, RowFits
<1>7. /\ call'[w].events = call[w].events \/ call'[w].events = {}
      /\ call'[w].ack = call[w].ack \/ call'[w].ack = 0
      /\ call'[w].terminal => call[w].terminal
      /\ call'[w].step \notin {"transit", "applied", "unlogged", "checked"}
  BY CommitIs, IdleIs DEF Steps
<1>8. CallsFit'
  <2>1. CallFits(w)'
    <3>1. ~Settles({}) /\ (Settles(call[w].events) => recorded)
      BY DEF Settles, Base, CallsFit, CallFits
    <3>2. Settles(call'[w].events) => recorded'
      BY <1>7, <3>1, CommitIs
    <3>3. call'[w].terminal => call'[w].step \in {"listed", "receipted", "answer"}
      BY CommitIs, IdleIs DEF Steps
    <3>4. call'[w].step = "answer" => call'[w].terminal
      BY CommitIs
    <3>5. call'[w].step = "replied" => w \in Flushers
      BY CommitIs
    <3>6. call'[w].exit = "none"
      BY CommitIs
    <3>. QED  BY <1>7, <3>2, <3>3, <3>4, <3>5, <3>6 DEF CallFits
  <2>2. w = "launch" => LaunchFits'
    <3>1. hosted' = hosted /\ call'[w].exit = "none" /\ call[w].step # "idle"
      BY CommitIs
    <3>. QED  BY <1>7, <3>1 DEF Base, CallsFit, LaunchFits
  <2>3. w = "other" => OtherFits'
    <3>1. SUFFICES ASSUME w = "other"  PROVE OtherFits'
      OBVIOUS
    <3>2. ~call[w].terminal /\ call[w].events = {} /\ w \notin Flushers
      BY <3>1 DEF Base, CallsFit, OtherFits, Flushers
    <3>3. call'[w].step \in {"listed", "receipted", "idle"}
      BY <3>2, CommitIs
    <3>. QED  BY <1>7, <3>1, <3>2, <3>3 DEF OtherFits
  <2>. QED  BY <2>1, <2>2, <2>3, CommitIs, OthersFit
<1>9. KindFits'
  <2>1. hosted => receipt' = "none" /\ call'[w].step \notin {"listed", "receipted"}
    BY CommitIs DEF Base, KindFits
  <2>2. \A v \in Callers : v # w => call'[v] = call[v]
    BY CommitIs
  <2>3. call'[w].step \in {"listed", "receipted"} => \A v \in Callers : v # w =>
           call[v].step \notin {"listed", "receipted"}
    <3>1. CASE call[w].step \in {"listed", "receipted"}
      BY <3>1 DEF Base, KindFits
    <3>2. CASE call[w].step \notin {"listed", "receipted"}
      BY <3>2, CommitIs DEF Committing
    <3>. QED  BY <3>1, <3>2
  <2>4. hosted' = hosted /\ token' = token
    BY CommitIs
  <2>. QED  BY <2>1, <2>2, <2>3, <2>4 DEF Base, KindFits
<1>10. \A v \in Callers : call'[v].events = call[v].events \/ call'[v].events = {}
  BY <1>7, CommitIs
<1>11. \A n \in Nat : Below(n) => Below(n)'
  <2>1. row'.seen \subseteq row.seen /\ saved'.seen \subseteq row.seen \union saved.seen
    BY <1>2, <1>3, <1>4
  <2>2. outbox' = outbox
    BY CommitIs
  <2>. QED  BY <1>10, <2>1, <2>2 DEF Below
<1>12. ~recorded /\ Alive => Early'
  <2>. SUFFICES ASSUME ~recorded, Alive  PROVE Early'
    OBVIOUS
  <2>1. Top' = Top /\ Top \in Nat
    BY CommitIs, TopIs DEF Base, Top
  <2>2. row.status # "settled" /\ saved.status # "settled" /\ receipt = "none"
    BY DEF Base, Early
  <2>3. row' = row /\ receipt' = receipt
    BY <2>2, CommitIs
  <2>4. saved'.status # "settled" /\ \A s \in row'.seen \union saved'.seen : s <= Top
    BY <1>3, <1>4, <2>2, <2>3 DEF Base, Early
  <2>5. \A v \in Callers : /\ ~call'[v].terminal /\ call'[v].exit = "none" /\ call'[v].ack <= Top
                           /\ \A e \in call'[v].events : e.seq <= Top
    <3>1. \A v \in Callers : v # w => call'[v] = call[v]
      BY CommitIs
    <3>2. call'[w].exit = "none"
      BY CommitIs
    <3>3. 0 <= Top
      BY <2>1
    <3>. QED  BY <1>7, <1>10, <3>1, <3>2, <3>3 DEF Base, Early
  <2>6. log' = log /\ untold' = untold /\ token' = token
    BY CommitIs
  <2>. QED  BY <2>1, <2>2, <2>3, <2>4, <2>5, <2>6 DEF Base, Early
<1>13. row' \in RowSet /\ saved' \in RowSet
  BY <1>1, <1>3, <1>4
<1>. QED  BY <1>1, <1>4, <1>5, <1>6, <1>8, <1>9, <1>11, <1>12, <1>13, CommitIs, DaemonBase DEF TypeOK

\* The end of a handler, field by field.
LEMMA AnswerIs ==
    ASSUME Base, NEW w \in Callers, Answer(w)
    PROVE  /\ call[w].step = "answer" /\ call[w].terminal /\ call[w].exit = "none"
           /\ ~(~recorded /\ Alive)
           /\ outbox' = Undelivered(outbox)
           /\ token' = (IF hosted /\ w \in Flushers THEN "closed" ELSE token)
           /\ call' \in [Callers -> Carried]
           /\ \A v \in Callers : v # w => call'[v] = call[v]
           /\ ~call'[w].terminal /\ call'[w].exit = "none"
           /\ w \in Flushers => /\ call'[w].step = "replied" /\ call'[w].events = call[w].events
                                /\ call'[w].ack = call[w].ack
           /\ w \notin Flushers => call'[w] = Call("idle")
           /\ row' \in RowSet /\ row'.status = row.status /\ row'.outcome = row.outcome
           /\ row'.seen = row.seen /\ row'.missing = row.missing /\ (row = NoRow <=> row' = NoRow)
           /\ UNCHANGED <<hosted, phase, unreachable, delivered, recorded, saved, receipt, unsaved,
                          log, untold, odd>>
<1>1. call \in [Callers -> Carried] /\ row \in RowSet /\ RowFits(row)
  BY Types DEF Base, Typed, RowsFit
<1>2. /\ call[w].step = "answer" /\ call[w].terminal /\ call[w].exit = "none"
      /\ ~(~recorded /\ Alive)
  BY DEF Answer, Base, CallsFit, CallFits, Early
<1>. DEFINE c == [call[w] EXCEPT !.terminal = FALSE]
<1>3. /\ c \in Carried /\ ~c.terminal /\ c.events = call[w].events /\ c.ack = call[w].ack
      /\ c.exit = call[w].exit
  BY <1>1 DEF Carried
<1>4. call' = [call EXCEPT ![w] = Done(w, c)]
  BY DEF Answer
<1>. HIDE DEF c
<1>5. /\ Done(w, c) \in Carried
      /\ Done(w, c).step = "replied" \/ Done(w, c) = Call("idle")
      /\ Done(w, c).step = "replied" <=> w \in Flushers
      /\ Done(w, c).step # "idle" => Done(w, c).events = c.events /\ Done(w, c).ack = c.ack
            /\ Done(w, c).exit = c.exit /\ Done(w, c).terminal = c.terminal
  BY <1>3, DoneIs
<1>6. call' \in [Callers -> Carried] /\ call'[w] = Done(w, c)
      /\ \A v \in Callers : v # w => call'[v] = call[v]
  BY <1>1, <1>4, <1>5
<1>7. Call("idle").step = "idle" /\ Call("idle").exit = "none" /\ ~Call("idle").terminal
  BY IdleIs DEF Steps
<1>8. /\ ~call'[w].terminal /\ call'[w].exit = "none"
      /\ w \in Flushers => /\ call'[w].step = "replied" /\ call'[w].events = call[w].events
                           /\ call'[w].ack = call[w].ack
      /\ w \notin Flushers => call'[w] = Call("idle")
  BY <1>2, <1>3, <1>5, <1>6, <1>7
<1>9. row' = row \/ row' = [row EXCEPT !.spool = FALSE]
  BY DEF Answer
<1>10. row' \in RowSet /\ row'.status = row.status /\ row'.outcome = row.outcome
       /\ row'.seen = row.seen /\ row'.missing = row.missing
  BY <1>1, <1>9 DEF RowSet
<1>11. row = NoRow <=> row' = NoRow
  <2>1. ASSUME row = NoRow  PROVE row' = NoRow
    <3>1. row'.status = "absent" /\ row'.outcome = "none" /\ row'.seen = {} /\ row'.spool = FALSE
          /\ row'.missing = FALSE
      BY <1>1, <1>9, <1>10, <2>1 DEF NoRow, RowSet
    <3>. QED  BY <1>10, <3>1 DEF RowSet, NoRow
  <2>2. ASSUME row' = NoRow  PROVE row = NoRow
    <3>1. row.status = "absent"
      BY <1>10, <2>2 DEF NoRow
    <3>. QED  BY <1>1, <3>1 DEF RowFits
  <2>. QED  BY <2>1, <2>2
<1>12. UNCHANGED <<hosted, phase, unreachable, delivered, recorded, saved, receipt, unsaved, log,
                   untold, odd>>
  BY DEF Answer, keptVars, toldVars
<1>. QED  BY <1>2, <1>6, <1>8, <1>10, <1>11, <1>12 DEF Answer, Forgotten

\* It keeps the first invariant.
LEMMA AnswerBase ==
    ASSUME Base, NEW w \in Callers, Answer(w)  PROVE Base'
<1>1. TypeOK /\ saved \in RowSet /\ log \in Seq(Outcomes)
  BY Types DEF Base, Typed
<1>2. /\ Call("idle").step = "idle" /\ Call("idle").events = {} /\ Call("idle").exit = "none"
      /\ ~Call("idle").terminal /\ ~Settles({})
  BY IdleIs DEF Steps, Settles
<1>3. \A v \in Callers : call'[v].events = call[v].events \/ call'[v].events = {}
  BY <1>2, AnswerIs
<1>4. CallsFit'
  <2>1. CallFits(w)'
    <3>1. Settles(call[w].events) => recorded
      BY DEF Base, CallsFit, CallFits
    <3>2. Settles(call'[w].events) => recorded'
      BY <1>2, <1>3, <3>1, AnswerIs
    <3>3. call'[w].step = (IF w \in Flushers THEN "replied" ELSE "idle")
      BY <1>2, AnswerIs
    <3>. QED  BY <3>2, <3>3, AnswerIs DEF CallFits
  <2>2. w = "launch" => LaunchFits'
    BY <1>2, AnswerIs DEF LaunchFits, Flushers
  <2>3. w = "other" => OtherFits'
    BY <1>2, AnswerIs DEF OtherFits, Flushers
  <2>. QED  BY <2>1, <2>2, <2>3, AnswerIs, OthersFit
<1>5. RowsFit'
  <2>1. Alive' = Alive /\ recorded' = recorded /\ saved' = saved
    BY AnswerIs DEF Alive
  <2>2. RowFits(row)'
    BY <2>1, AnswerIs DEF Base, RowsFit, RowFits
  <2>. QED  BY <2>1, <2>2 DEF Base, RowsFit, RowFits
<1>6. KindFits'
  <2>1. call'[w].step \notin {"listed", "receipted"}
    BY <1>2, AnswerIs
  <2>2. \A v \in Callers : call'[v].step \in {"listed", "receipted"} => call'[v] = call[v]
    BY <2>1, AnswerIs
  <2>3. ~hosted => token' = "open"
    BY AnswerIs DEF Base, KindFits
  <2>. QED  BY <2>2, <2>3, AnswerIs DEF Base, KindFits
<1>7. outbox' \subseteq outbox
  BY AnswerIs DEF Undelivered
<1>8. \A n \in Nat : Below(n) => Below(n)'
  BY <1>3, <1>7, AnswerIs DEF Below
<1>9. token' \in {"open", "closed"}
  BY <1>1, AnswerIs DEF TypeOK
<1>. QED  BY <1>1, <1>4, <1>5, <1>6, <1>7, <1>8, <1>9, AnswerIs, DaemonBase DEF TypeOK

\* The reconcile loop has read: the queue past the cursor of a running row
\* whose supervisor is gone, or nothing.
LEMMA LookIs ==
    ASSUME Base, Look
    PROVE  /\ call["tick"].step = "idle" /\ call'["tick"].step = "checked"
           /\ call' \in [Callers -> Carried]
           /\ \A v \in Callers : v # "tick" => call'[v] = call[v]
           /\ call'["tick"].ack = 0 /\ call'["tick"].exit = "none" /\ ~call'["tick"].terminal
           /\ \/ /\ row.status = "running" /\ ~Alive
                 /\ call'["tick"].events = Past(Highest(row.seen))
              \/ row.status = "running" /\ ~row.missing /\ call'["tick"].events = {}
              \/ row.status = "settled" /\ call'["tick"].events = {}
           /\ UNCHANGED <<jobVars, daemonVars, odd>>
<1>1. call \in [Callers -> Carried] /\ "tick" \in Callers /\ outbox \subseteq Queued
  BY Types DEF Base, Typed, Callers
<1>2. PICK events :
        /\ Reads(events)
        /\ \/ row.status = "running" /\ ~Alive /\ events = Past(Highest(row.seen))
           \/ row.status = "running" /\ ~row.missing /\ events = {}
           \/ row.status = "settled" /\ events = {}
  BY DEF Look
<1>3. events \in SUBSET Event
  BY <1>1, <1>2 DEF Past, Queued
<1>4. /\ [Call("checked") EXCEPT !.events = events] \in Carried
      /\ [Call("checked") EXCEPT !.events = events].step = "checked"
      /\ [Call("checked") EXCEPT !.events = events].events = events
      /\ [Call("checked") EXCEPT !.events = events].ack = 0
      /\ [Call("checked") EXCEPT !.events = events].exit = "none"
      /\ ~[Call("checked") EXCEPT !.events = events].terminal
  BY <1>3 DEF Call, Carried, Steps, Outcomes, Statuses
<1>5. call' = [call EXCEPT !["tick"] = [Call("checked") EXCEPT !.events = events]]
  BY <1>2 DEF Reads
<1>6. call' \in [Callers -> Carried] /\ (\A v \in Callers : v # "tick" => call'[v] = call[v])
      /\ call'["tick"] = [Call("checked") EXCEPT !.events = events]
  BY <1>1, <1>4, <1>5
<1>. QED  BY <1>2, <1>4, <1>6 DEF Reads

\* A look keeps the first invariant.
LEMMA LookBase ==
    ASSUME Base, Look  PROVE Base'
<1>1. TypeOK /\ row \in RowSet /\ saved \in RowSet /\ log \in Seq(Outcomes) /\ "tick" \in Callers
  BY Types DEF Base, Typed, Callers
<1>2. UNCHANGED <<jobVars, row, saved, receipt, unsaved, token, log, untold, odd>>
  BY LookIs DEF daemonVars, keptVars, toldVars
<1>. USE <1>2 DEF jobVars
<1>3. \A e \in call'["tick"].events : \E r \in outbox : r.event = e
  BY LookIs DEF Past
<1>4. CallsFit'
  <2>1. Settles(call'["tick"].events) => recorded
    BY <1>3 DEF Settles, Base, QueueFits, EndRows
  <2>2. CallFits("tick")'
    BY <2>1, LookIs DEF CallFits
  <2>. QED  BY <1>1, <2>2, LookIs, OthersFit
<1>5. RowsFit'
  BY DEF Base, RowsFit, RowFits, Alive
<1>6. KindFits'
  <2>1. \A v \in Callers : call'[v].step \in {"listed", "receipted"} => call'[v] = call[v]
    BY LookIs
  <2>. QED  BY <2>1 DEF Base, KindFits
<1>7. \A n \in Nat : Below(n) => Below(n)'
  BY <1>3, LookIs DEF Below
<1>8. ~recorded /\ Alive => Early'
  <2>1. Top' = Top /\ Top \in Nat /\ \A r \in outbox : r.event.seq <= Top
    BY TopIs DEF Base, Top
  <2>2. \A e \in call'["tick"].events : e.seq <= Top
    BY <1>3, <2>1
  <2>. QED  BY <2>1, <2>2, LookIs DEF Base, Early
<1>. QED  BY <1>1, <1>4, <1>5, <1>6, <1>7, <1>8, LookIs, DaemonBase DEF TypeOK

\* The verdict of the reconcile loop: the recorded outcome among the events it
\* read, lost if it missed the supervisor before, or none yet.
LEMMA JudgeIs ==
    ASSUME Base, Judge
    PROVE  /\ call["tick"].step = "checked"
           /\ row' \in RowSet /\ call' \in [Callers -> Carried]
           /\ \A v \in Callers : v # "tick" => call'[v] = call[v]
           /\ call'["tick"].events = {} /\ call'["tick"].ack = 0
           /\ call'["tick"].terminal => row'.status = "settled"
           /\ \/ /\ row = NoRow /\ row' = NoRow /\ call'["tick"].step = "idle"
                 /\ call'["tick"].exit = "none" /\ ~call'["tick"].terminal
              \/ /\ row # NoRow /\ row'.seen = Applied(row, call["tick"].events).seen
                 /\ \/ /\ row.status = "settled" /\ row'.status = "settled"
                       /\ row'.outcome = row.outcome /\ ~row'.missing
                       /\ call'["tick"].exit = "none"
                       /\ call'["tick"].step = (IF call'["tick"].terminal THEN "answer" ELSE "idle")
                    \/ /\ row.status = "running" /\ row'.status = "settled"
                       /\ row'.outcome = call'["tick"].exit /\ (row'.missing => ~Alive)
                       /\ call'["tick"].step = "applied"
                       /\ \/ call'["tick"].exit = "settled" /\ recorded
                          \/ /\ call'["tick"].exit = "lost" /\ ~Alive /\ row.missing
                             /\ ~\E e \in call["tick"].events :
                                   e.kind = "settled" /\ e.seq > Highest(row.seen)
                    \/ /\ row.status = "running" /\ row'.status = "running"
                       /\ row'.outcome = "none" /\ (row'.missing => ~Alive)
                       /\ call'["tick"].step = "idle" /\ call'["tick"].exit = "none"
                       /\ ~call'["tick"].terminal
                       /\ ~\E e \in call["tick"].events :
                             e.kind = "settled" /\ e.seq > Highest(row.seen)
           /\ UNCHANGED <<jobVars, saved, receipt, unsaved, token, log, untold, odd>>
<1>. DEFINE events == call["tick"].events
            read == Applied(row, events)
            gone == row # NoRow /\ read.status = "running" /\ ~Alive
            isLost == gone /\ MissedBefore
            new == IF isLost THEN [read EXCEPT !.status = "settled", !.outcome = "lost"]
                   ELSE [read EXCEPT !.missing = gone]
            ends == \E e \in events : e.kind = "settled" /\ e.seq > Highest(row.seen)
            t == [Call(IF Exit(row, new) # "none" THEN "applied"
                       ELSE IF new.status = "settled" /\ row.spool THEN "answer" ELSE "idle")
                  EXCEPT !.exit = Exit(row, new),
                         !.terminal = new.status = "settled" /\ row.spool]
<1>1. /\ call \in [Callers -> Carried] /\ row \in RowSet /\ RowFits(row)
      /\ "tick" \in Callers /\ events \in SUBSET Event
      /\ Settles(events) => recorded
  BY Types DEF Base, Typed, TypeOK, RowsFit, Callers, Carried, CallsFit, CallFits
<1>2. /\ call["tick"].step = "checked"
      /\ UNCHANGED <<jobVars, saved, receipt, unsaved, token, log, untold, odd>>
  BY DEF Judge, keptVars, toldVars
<1>3. CASE row = NoRow
  <2>1. call' = [call EXCEPT !["tick"] = Call("idle")] /\ row' = NoRow
    BY <1>3 DEF Judge
  <2>2. Call("idle") \in Carried /\ Call("idle").step = "idle" /\ Call("idle").events = {}
        /\ Call("idle").ack = 0 /\ Call("idle").exit = "none" /\ ~Call("idle").terminal
    BY IdleIs DEF Steps
  <2>3. call' \in [Callers -> Carried] /\ call'["tick"] = Call("idle")
        /\ \A v \in Callers : v # "tick" => call'[v] = call[v]
    BY <1>1, <2>1, <2>2
  <2>4. /\ call'["tick"].events = {} /\ call'["tick"].ack = 0 /\ call'["tick"].step = "idle"
        /\ call'["tick"].exit = "none" /\ ~call'["tick"].terminal
    BY <2>2, <2>3
  <2>5. row' \in RowSet
    BY <1>1, <1>3, <2>1
  <2>6. call'["tick"].terminal => row'.status = "settled"
    BY <2>4
  <2>. QED  BY <1>2, <1>3, <2>1, <2>3, <2>4, <2>5, <2>6
<1>4. CASE row # NoRow
  <2>3. read \in RowSet
    BY <1>1, AppliedTyped
  <2>4. /\ row.status = "settled" => read.status = "settled" /\ read.outcome = row.outcome
        /\ row.status = "running" =>
             IF ends THEN read.status = "settled" /\ read.outcome = "settled"
                     ELSE read.status = "running" /\ read.outcome = "none"
        /\ read.missing = row.missing
    BY <1>1, ExitIs
  <2>5. row.status \in {"running", "settled"}
    BY <1>1, <1>4 DEF RowSet, RowFits, Statuses
  <2>6. row' = new /\ call' = [call EXCEPT !["tick"] = t]
    BY <1>4 DEF Judge
  <2>7. ends => recorded
    BY <1>1 DEF Settles
  <2>8. gone \in BOOLEAN /\ (gone <=> read.status = "running" /\ ~Alive)
    BY <1>4
  <2>9. MissedBefore <=> row.missing
    BY DEF MissedBefore
  <2>. HIDE DEF read, ends, events, gone
  <2>10. new \in RowSet /\ new.seen = read.seen
    BY <2>3, <2>8 DEF RowSet, Outcomes, Statuses
  <2>11. \/ isLost /\ new.status = "settled" /\ new.outcome = "lost" /\ new.missing = read.missing
         \/ ~isLost /\ new.status = read.status /\ new.outcome = read.outcome /\ new.missing = gone
    BY <2>3, <2>8 DEF RowSet
  <2>12. Exit(row, new) = IF row.status = "running" THEN new.outcome ELSE "none"
    BY DEF Exit
  <2>13. Exit(row, new) \in Outcomes
    BY <2>10, <2>12 DEF Outcomes, RowSet
  <2>14. row.spool \in BOOLEAN
    BY <1>1 DEF RowSet
  <2>15. isLost <=> gone /\ row.missing
    BY <2>9
  <2>. HIDE DEF new, isLost
  <2>16. /\ t \in Carried /\ t.events = {} /\ t.ack = 0 /\ t.exit = Exit(row, new)
         /\ t.terminal = (new.status = "settled" /\ row.spool)
         /\ t.step = IF Exit(row, new) # "none" THEN "applied"
                     ELSE IF new.status = "settled" /\ row.spool THEN "answer" ELSE "idle"
    BY <2>13, <2>14 DEF Call, Carried, Steps, Outcomes, Statuses
  <2>. HIDE DEF t
  <2>17. call' \in [Callers -> Carried] /\ call'["tick"] = t
         /\ \A v \in Callers : v # "tick" => call'[v] = call[v]
    BY <1>1, <2>6, <2>16
  <2>18. /\ row' \in RowSet /\ row'.seen = Applied(row, call["tick"].events).seen
         /\ call'["tick"].terminal => row'.status = "settled"
    BY <2>6, <2>10, <2>16, <2>17 DEF read, events
  <2>19. CASE row.status = "settled"
    <3>1. row'.status = "settled" /\ row'.outcome = row.outcome
      BY <2>4, <2>6, <2>8, <2>11, <2>15, <2>19
    <3>2. call'["tick"].exit = "none"
          /\ call'["tick"].step = (IF call'["tick"].terminal THEN "answer" ELSE "idle")
      BY <2>12, <2>16, <2>17, <2>19
    <3>3. ~row'.missing
      BY <2>4, <2>6, <2>8, <2>11, <2>15, <2>19
    <3>. QED  BY <1>2, <1>4, <2>16, <2>17, <2>18, <2>19, <3>1, <3>2, <3>3
  <2>20. CASE row.status = "running" /\ ends
    <3>1. row'.status = "settled" /\ row'.outcome = "settled" /\ ~row'.missing
      BY <2>4, <2>6, <2>8, <2>11, <2>15, <2>20
    <3>2. call'["tick"].exit = "settled" /\ call'["tick"].step = "applied"
      BY <2>6, <2>12, <2>16, <2>17, <2>20, <3>1
    <3>. QED  BY <1>2, <1>4, <2>7, <2>16, <2>17, <2>18, <2>20, <3>1, <3>2
  <2>21. CASE row.status = "running" /\ ~ends /\ isLost
    <3>1. row'.status = "settled" /\ row'.outcome = "lost" /\ ~Alive /\ row.missing
      BY <2>6, <2>8, <2>11, <2>15, <2>21
    <3>2. call'["tick"].exit = "lost" /\ call'["tick"].step = "applied"
      BY <2>6, <2>12, <2>16, <2>17, <2>21, <3>1
    <3>. QED  BY <1>2, <1>4, <2>16, <2>17, <2>18, <2>21, <3>1, <3>2 DEF ends, events
  <2>22. CASE row.status = "running" /\ ~ends /\ ~isLost
    <3>1. row'.status = "running" /\ row'.outcome = "none" /\ (row'.missing => ~Alive)
      BY <2>4, <2>6, <2>8, <2>11, <2>22
    <3>2. call'["tick"].exit = "none" /\ call'["tick"].step = "idle" /\ ~call'["tick"].terminal
      BY <2>6, <2>12, <2>16, <2>17, <2>22, <3>1
    <3>. QED  BY <1>2, <1>4, <2>16, <2>17, <2>18, <2>22, <3>1, <3>2 DEF ends, events
  <2>. QED  BY <2>5, <2>19, <2>20, <2>21, <2>22
<1>. QED  BY <1>3, <1>4

\* A judgement keeps the first invariant.
LEMMA JudgeBase ==
    ASSUME Base, Judge  PROVE Base'
<1>1. /\ TypeOK /\ row \in RowSet /\ saved \in RowSet /\ log \in Seq(Outcomes)
      /\ "tick" \in Callers /\ call["tick"].events \in SUBSET Event
  BY Types DEF Base, Typed, Callers, Carried
<1>2. UNCHANGED <<jobVars, saved, receipt, unsaved, token, log, untold, odd>>
  BY JudgeIs
<1>. USE <1>2 DEF jobVars
<1>3. \A v \in Callers : call'[v].events = call[v].events \/ call'[v].events = {}
  BY JudgeIs
<1>4. row'.seen = Applied(row, call["tick"].events).seen \/ row'.seen = row.seen
  BY JudgeIs
<1>5. \A n \in Nat : Below(n) => Below(n)'
  <2>. SUFFICES ASSUME NEW n \in Nat, Below(n)  PROVE Below(n)'
    OBVIOUS
  <2>0. (\A s \in row.seen : s <= n) /\ \A e \in call["tick"].events : e.seq <= n
    BY <1>1 DEF Below
  <2>1. \A s \in Applied(row, call["tick"].events).seen : s <= n
    BY <1>1, <2>0, AppliedIs
  <2>2. \A s \in row'.seen : s <= n
    BY <1>4, <2>1 DEF Below
  <2>. QED  BY <1>3, <2>2 DEF Below
<1>6. RowsFit'
  <2>1. NoRow.status = "absent" /\ NoRow.outcome = "none" /\ ~NoRow.missing
    BY DEF NoRow
  <2>2. CASE row = NoRow
    <3>1. row' = NoRow
      BY <2>2, JudgeIs
    <3>. QED  BY <2>1, <3>1 DEF Base, RowsFit, RowFits, Alive
  <2>3. CASE row # NoRow
    <3>1. /\ row'.status \in {"running", "settled"}
          /\ row'.status = "running" => row'.outcome = "none"
          /\ row'.status = "settled" => row'.outcome # "none"
          /\ row'.outcome = "settled" => recorded
          /\ row'.outcome = "lost" => ~Alive
          /\ row'.missing => ~Alive
      BY <2>3, JudgeIs DEF Base, RowsFit, RowFits
    <3>2. RowFits(row')
      BY <3>1 DEF RowFits
    <3>3. RowFits(row)'
      BY <3>2 DEF RowFits, Alive
    <3>. QED  BY <3>3 DEF Base, RowsFit, RowFits, Alive
  <2>. QED  BY <2>2, <2>3
<1>7. CallsFit'
  <2>1. CallFits("tick")'
    <3>1. ~Settles(call'["tick"].events)
      BY JudgeIs DEF Settles
    <3>2. /\ call'["tick"].exit = "settled" => recorded
          /\ call'["tick"].exit = "lost" => ~Alive
          /\ call'["tick"].exit # "none" <=> call'["tick"].step = "applied"
          /\ call'["tick"].step \in {"idle", "applied", "answer"}
          /\ call'["tick"].terminal => call'["tick"].step \in {"applied", "answer"}
          /\ call'["tick"].step = "answer" => call'["tick"].terminal
      BY JudgeIs
    <3>. QED  BY <3>1, <3>2 DEF CallFits, Alive
  <2>. QED  BY <1>1, <2>1, JudgeIs, OthersFit
<1>8. KindFits'
  <2>1. call'["tick"].step \in {"idle", "applied", "answer"}
    BY JudgeIs
  <2>2. \A v \in Callers : call'[v].step \in {"listed", "receipted"} => call'[v] = call[v]
    BY <2>1, JudgeIs
  <2>. QED  BY <2>2 DEF Base, KindFits
<1>9. ~recorded /\ Alive => Early'
  <2>. SUFFICES ASSUME ~recorded, Alive  PROVE Early'
    OBVIOUS
  <2>1. Top' = Top /\ Top \in Nat /\ 0 <= Top
    BY TopIs DEF Base, Top
  <2>2. row.status # "settled" /\ (\A s \in row.seen : s <= Top)
        /\ \A e \in call["tick"].events : e.seq <= Top
    BY <1>1 DEF Base, Early
  <2>3. \A s \in Applied(row, call["tick"].events).seen : s <= Top
    BY <1>1, <2>1, <2>2, AppliedIs
  <2>4. \A s \in row'.seen : s <= Top
    BY <1>4, <2>2, <2>3
  <2>5. row'.status # "settled" /\ call'["tick"].exit = "none" /\ ~call'["tick"].terminal
    <3>1. NoRow.status = "absent"
      BY DEF NoRow
    <3>. QED  BY <2>2, <3>1, JudgeIs
  <2>6. \A v \in Callers : v # "tick" => call'[v] = call[v]
    BY JudgeIs
  <2>. QED  BY <1>3, <2>1, <2>4, <2>5, <2>6, JudgeIs DEF Base, Early
<1>. QED  BY <1>1, <1>5, <1>6, <1>7, <1>8, <1>9, JudgeIs, DaemonBase DEF TypeOK

\* A daemon that stops forgets its calls, and its rows but for the saved one.
LEMMA CrashIs ==
    ASSUME Base, Crash
    PROVE  /\ call' = [w \in Callers |-> Call("idle")]
           /\ \A v \in Callers :
                /\ call'[v].step = "idle" /\ call'[v].exit = "none" /\ ~call'[v].terminal
                /\ call'[v].events = {} /\ call'[v].ack = 0
           /\ call' \in [Callers -> Carried] /\ ~\E v \in Callers : Carries(v)'
           /\ odd' \in 0..MaxOdd /\ unreachable' \in BOOLEAN /\ untold' \in BOOLEAN
           /\ untold' <=> untold \/ (log = <<>> /\ OutOfReach /\ \E w \in Callers : Carries(w))
           /\ row' = saved
           /\ UNCHANGED <<hosted, phase, outbox, delivered, recorded, saved, receipt, unsaved,
                          token, log>>
<1>1. unreachable \in BOOLEAN /\ untold \in BOOLEAN /\ TypeOK
  BY DEF Base, Typed, TypeOK
<1>2. call' = [w \in Callers |-> Call("idle")]
  BY DEF Crash
<1>3. Call("idle") \in Carried /\ Call("idle").step = "idle" /\ Call("idle").exit = "none"
      /\ ~Call("idle").terminal /\ Call("idle").events = {} /\ Call("idle").ack = 0
  BY IdleIs DEF Steps
<1>4. odd' \in 0..MaxOdd
  BY <1>1, OddTyped DEF Crash
<1>5. \A v \in Callers : call'[v] = Call("idle")
  BY <1>2
<1>6. call' \in [Callers -> Carried]
  BY <1>2, <1>3
<1>7. ~\E v \in Callers : Carries(v)'
  BY <1>3, <1>5 DEF Carries
<1>8. /\ unreachable' = (unreachable \/ \E w \in Flushers : call[w].step # "idle")
      /\ untold' = (untold \/ (log = <<>> /\ OutOfReach /\ \E w \in Callers : Carries(w)))
      /\ row' = saved
      /\ UNCHANGED <<hosted, phase, outbox, delivered, recorded, saved, receipt, unsaved, token, log>>
  BY DEF Crash, keptVars
<1>9. unreachable' \in BOOLEAN /\ untold' \in BOOLEAN
      /\ (untold' <=> untold \/ (log = <<>> /\ OutOfReach /\ \E w \in Callers : Carries(w)))
  BY <1>1, <1>8
<1>. QED  BY <1>2, <1>3, <1>4, <1>5, <1>6, <1>7, <1>8, <1>9

\* A stop of the daemon keeps the first invariant.
LEMMA CrashBase ==
    ASSUME Base, Crash  PROVE Base'
<1>1. TypeOK /\ row \in RowSet /\ saved \in RowSet /\ log \in Seq(Outcomes)
  BY Types DEF Base, Typed
<1>2. RowsFit'
  BY CrashIs DEF Base, RowsFit, RowFits, Alive
<1>3. CallsFit'
  <2>1. \A v \in Callers : CallFits(v)'
    <3>1. ~Settles({})
      BY DEF Settles
    <3>. QED  BY <3>1, CrashIs DEF CallFits
  <2>2. "launch" \in Callers /\ "other" \in Callers
    BY DEF Callers
  <2>. QED  BY <2>1, <2>2, CrashIs DEF CallsFit, LaunchFits, OtherFits
<1>4. KindFits'
  BY CrashIs DEF Base, KindFits
<1>5. \A n \in Nat : Below(n) => Below(n)'
  BY CrashIs DEF Below
<1>6. ~recorded /\ Alive => Early'
  <2>1. Top' = Top /\ Top \in Nat /\ 0 <= Top
    BY CrashIs, TopIs DEF Base, Top
  <2>2. ~recorded /\ Alive => ~untold' /\ log' = <<>> /\ receipt' = "none" /\ token' = "open"
           /\ row'.status # "settled" /\ saved'.status # "settled"
    BY CrashIs DEF Base, Early, Carries
  <2>3. ~recorded /\ Alive => \A s \in row'.seen \union saved'.seen : s <= Top
    BY CrashIs DEF Base, Early
  <2>. QED  BY <2>1, <2>2, <2>3, CrashIs DEF Early
<1>. QED  BY <1>1, <1>2, <1>3, <1>4, <1>5, <1>6, CrashIs, DaemonBase DEF TypeOK

\* Every step keeps the first invariant.
LEMMA NextBase ==
    ASSUME Base, [Next]_vars  PROVE Base'
<1>1. ASSUME NEW w \in Callers, Handler(w)  PROVE Base'
  BY <1>1, AdmitBase, ApplyBase, TellBase, CommitBase, AnswerBase DEF Handler, Commits
<1>2. CASE UNCHANGED vars
  <2>. USE <1>2 DEF vars, jobVars, daemonVars, keptVars, toldVars
  <2>1. Typed'
    BY DEF Base, Typed, TypeOK, Below
  <2>2. QueueFits' /\ RowsFit' /\ KindFits'
    BY DEF Base, QueueFits, EndRows, Undelivered, RowsFit, RowFits, KindFits, Alive
  <2>3. CallsFit'
    BY DEF Base, CallsFit, CallFits, LaunchFits, OtherFits, Settles, Alive
  <2>4. Early'
    BY DEF Base, Early, Top, Alive
  <2>. QED  BY <2>1, <2>2, <2>3, <2>4 DEF Base
<1>. QED
  BY <1>1, <1>2, RunBase, ReceiveBase, LookBase, JudgeBase, OtherBase, CrashBase DEF Next, Tick

\* Types, and what the queue, the rows and the calls look like, hold throughout.
THEOREM BaseInvariance == Spec => []Base
<1>. QED  BY BaseInit, NextBase, PTL DEF Spec

\* Every reachable state has its type, for every batch size and bound.
THEOREM TypeCorrect == Spec => []TypeOK
<1>1. Base => TypeOK
  BY DEF Base, Typed
<1>. QED  BY <1>1, BaseInvariance, PTL

(***************************************************************************)
(* The second invariant: who still owes the owner the verdict.             *)
(*                                                                         *)
(* Heard says that the owner was told, that a telling was let go, or that  *)
(* a handler is about to tell.  Whatever ends the job in the daemon (a     *)
(* settled row, a receipt in the place of a row, a closed token, a call    *)
(* with a terminal row) or takes the outcome out of the queue needs it.    *)
(* As long as the outcome waits in the queue, every report and every       *)
(* reading of the queue that goes that far carries it, so no running row   *)
(* has passed it and no acknowledgement covers it unheard.                 *)
(***************************************************************************)
Heard == log # <<>> \/ untold \/ \E w \in Callers : Carries(w)

\* The outcome, while the supervisor still has it to deliver.
Waiting == {r \in EndRows : ~r.delivered}

\* The job has ended as far as a row tells.
Over(r) == r.status = "settled" \/ (r = NoRow /\ receipt # "none")

OverHeard ==
    /\ Over(row) \/ Over(saved) => Heard
    /\ token = "closed" => Heard
    /\ recorded /\ Waiting = {} => Heard
    /\ \A w \in Callers : call[w].terminal => Heard

RowBehind(r) == r.status = "running" => \A q \in Waiting : \A s \in r.seen : s < q.event.seq
CallBehind(w) ==
    \A q \in Waiting :
        /\ \A e \in call[w].events : e.seq >= q.event.seq => q.event \in call[w].events
        /\ call[w].ack >= q.event.seq => Heard
Behind == RowBehind(row) /\ RowBehind(saved) /\ \A w \in Callers : CallBehind(w)

\* The reconcile loop has read the outcome that waits before it calls a job lost.
Reading ==
    call["tick"].step = "checked" /\ row.status = "running" /\ row.missing =>
        \A q \in Waiting : q.event \in call["tick"].events

\* A verdict in hand is that of a settled row, or of one that has a receipt; for
\* a hosted job one handler has it.
Holding ==
    /\ \A w \in Callers : call[w].terminal \/ call[w].exit # "none" =>
          row.status = "settled" \/ (~hosted /\ receipt # "none")
    /\ hosted => \A v, w \in Callers : call[v].exit # "none" /\ call[w].exit # "none" => v = w

\* A supervisor is called lost without an outcome, or with one that was mislaid.
Lost ==
    \A w \in Callers : call[w].exit = "lost" =>
        ~recorded \/ untold \/ log # <<>> \/ (~hosted /\ receipt # "none")

\* The end of a hosted job outlives the daemon before its token is closed.
Closing ==
    hosted =>
        /\ saved.status = "settled" => row.status = "settled"
        /\ \A w \in Callers : call[w].step = "answer" /\ w # "tick" =>
              unsaved \/ saved.status = "settled"
        /\ token = "closed" => unsaved \/ saved.status = "settled"

Duty == OverHeard /\ Behind /\ Reading /\ Holding /\ Lost /\ Closing

\* A call carries a verdict as long as it names one.
LEMMA HeardIs ==
    ASSUME Base
    PROVE  Heard <=> log # <<>> \/ untold \/ \E w \in Callers : call[w].exit # "none"
BY DEF Base, CallsFit, CallFits, Heard, Carries

\* What was heard stays heard when no call drops its verdict untold.
LEMMA HeardStays ==
    ASSUME Base, Base', log # <<>> => log' # <<>>, untold => untold',
           \A v \in Callers : call[v].exit # "none" =>
              call'[v].exit # "none" \/ log' # <<>> \/ untold'
    PROVE  Heard => Heard'
<1>1. Base' => (Heard <=> log # <<>> \/ untold \/ \E w \in Callers : call[w].exit # "none")'
  BY HeardIs, PTL
<1>. QED  BY <1>1, HeardIs

\* What a call is to tell is heard.
LEMMA HeardNow ==
    ASSUME Base', \E w \in Callers : call'[w].exit # "none"
    PROVE  Heard'
<1>1. Base' => (Heard <=> log # <<>> \/ untold \/ \E w \in Callers : call[w].exit # "none")'
  BY HeardIs, PTL
<1>. QED  BY <1>1

\* Where the outcome is in the queue.
LEMMA WaitingIs ==
    ASSUME Base
    PROVE  \A q \in Waiting : /\ q \in outbox /\ q.event.seq \in Nat /\ q.event.seq > 0
                              /\ q.event.kind = "settled" /\ recorded
BY Types DEF Waiting, EndRows, Base, Typed, QueueFits, Queued, Event

\* The cursor of a running row is before it.
LEMMA CursorIs ==
    ASSUME Base, NEW r \in RowSet, (RowBehind(r) /\ r.status = "running") \/ r.seen = {},
           NEW q \in Waiting, NEW n \in Nat, \A s \in r.seen : s <= n
    PROVE  Highest(r.seen) \in Nat /\ Highest(r.seen) < q.event.seq
<1>1. r.seen \in SUBSET Nat /\ q.event.seq \in Nat /\ q.event.seq > 0
  BY WaitingIs DEF RowSet
<1>2. Highest(r.seen) \in Nat /\ (r.seen # {} => Highest(r.seen) \in r.seen)
  BY <1>1, HighestIs
<1>3. CASE r.seen = {}
  BY <1>1, <1>3 DEF Highest
<1>4. CASE r.seen # {}
  BY <1>1, <1>2, <1>4 DEF RowBehind
<1>. QED  BY <1>2, <1>3, <1>4

\* Events that would carry a running row past the outcome settle it.
LEMMA RunsBehind ==
    ASSUME Base, Duty, NEW w \in Callers, NEW new \in RowSet,
           row.status # "settled", new.status = "running",
           new.seen = Applied(row, call[w].events).seen,
           ~\E e \in call[w].events : e.kind = "settled" /\ e.seq > Highest(row.seen)
    PROVE  /\ RowBehind(new)
           /\ \A q \in Waiting : Highest(new.seen) < q.event.seq
<1>1. /\ row \in RowSet /\ RowFits(row) /\ call[w].events \in SUBSET Event
      /\ new.seen \in SUBSET Nat
  BY Types DEF Base, Typed, RowsFit, Carried, RowSet
<1>2. PICK n \in Nat : Below(n)
  BY DEF Base, Typed
<1>3. (\A s \in row.seen : s <= n) /\ \A e \in call[w].events : e.seq <= n
  BY <1>2 DEF Below
<1>4. row.status = "running" \/ row.seen = {}
  BY <1>1 DEF RowFits, RowSet, Statuses, NoRow
<1>5. \A s \in new.seen : s \in row.seen \/ \E e \in call[w].events : e.seq = s
  BY <1>1, <1>3, AppliedIs
<1>6. \A s \in new.seen : s <= n
  BY <1>1, <1>3, AppliedIs
<1>7. ASSUME NEW q \in Waiting, NEW s \in new.seen  PROVE s < q.event.seq
  <2>1. Highest(row.seen) \in Nat /\ Highest(row.seen) < q.event.seq
    BY <1>1, <1>3, <1>4, CursorIs DEF Duty, Behind
  <2>2. CASE s \in row.seen
    BY <1>4, <2>2 DEF Duty, Behind, RowBehind
  <2>3. ASSUME NEW e \in call[w].events, e.seq = s  PROVE s < q.event.seq
    <3>1. ~(e.seq >= q.event.seq)
      <4>1. SUFFICES ASSUME e.seq >= q.event.seq  PROVE FALSE
        OBVIOUS
      <4>2. q.event \in call[w].events
        BY <4>1 DEF Duty, Behind, CallBehind
      <4>3. q.event.kind = "settled" /\ q.event.seq > Highest(row.seen)
        BY <2>1, WaitingIs
      <4>. QED  BY <4>2, <4>3
    <3>2. e.seq \in Nat /\ q.event.seq \in Nat
      BY <1>1, WaitingIs DEF Event
    <3>. QED  BY <2>3, <3>1, <3>2
  <2>. QED  BY <1>5, <2>2, <2>3
<1>8. RowBehind(new)
  BY <1>7 DEF RowBehind
<1>. QED  BY <1>6, <1>8, CursorIs

\* Nothing is owed at the start.
LEMMA DutyInit == Init => Duty
<1>. SUFFICES ASSUME Init  PROVE Duty
  OBVIOUS
<1>1. \A w \in Callers : call[w].events = {} /\ call[w].ack = 0 /\ call[w].exit = "none"
          /\ ~call[w].terminal /\ call[w].step \in {"idle", "checked"}
          /\ (call[w].step = "checked" => w = "launch")
  BY DEF Init, Call
<1>2. NoRow.status = "absent" /\ "tick" \in Callers
  BY DEF NoRow, Callers
<1>3. Waiting = {}
  BY DEF Init, Waiting, EndRows
<1>4. row = NoRow /\ saved = NoRow /\ receipt = "none" /\ token = "open" /\ ~recorded
  BY DEF Init
<1>. QED  BY <1>1, <1>2, <1>3, <1>4 DEF Duty, OverHeard, Over, Behind, RowBehind, CallBehind,
          Reading, Holding, Lost, Closing

\* The steps of the supervisor, together: the outcome is recorded, or the rows
\* stay what they are but for a mark; a call is begun or given up.
SupervisorStep == Run \/ Settle \/ Beat \/ Die \/ \E w \in Flushers : Supervisor(w)

\* What any step of the supervisor does to the calls and to the rows of the outcome.
LEMMA SupervisorIs ==
    ASSUME Base, SupervisorStep
    PROVE  /\ UNCHANGED <<hosted, daemonVars>> /\ (Alive' => Alive) /\ outbox' \subseteq Queued
           /\ IsFiniteSet(outbox')
           /\ \E w \in Flushers, m \in Nat :
                /\ \A v \in Callers : v # w => call'[v] = call[v]
                /\ \/ call'[w] = call[w]
                   \/ /\ call[w].exit = "none"
                      /\ call'[w].step \in {"idle", "transit"} /\ call'[w].ack = 0
                      /\ call'[w].exit = "none" /\ ~call'[w].terminal
                      /\ call'[w].events = {} \/ call'[w].events = Pending(outbox')
                /\ \/ /\ recorded' = recorded
                      /\ m = 0 \/ (m = call[w].ack /\ call[w].step = "replied")
                      /\ \A q \in EndRows' : \E r \in EndRows : q.event = r.event
                            /\ (q.delivered <=> (r.delivered \/ r.event.seq <= m))
                      /\ \A r \in EndRows : \E q \in EndRows' : q.event = r.event
                            /\ (q.delivered <=> (r.delivered \/ r.event.seq <= m))
                   \/ /\ ~recorded /\ Alive /\ recorded' /\ EndRows = {} /\ EndRows' # {}
                      /\ \A q \in EndRows' : ~q.delivered /\ q.event.seq = Top + 1
<1>. DEFINE Kept(m) == /\ recorded' = recorded
                       /\ \A q \in EndRows' : \E r \in EndRows : q.event = r.event
                            /\ (q.delivered <=> (r.delivered \/ r.event.seq <= m))
                       /\ \A r \in EndRows : \E q \in EndRows' : q.event = r.event
                            /\ (q.delivered <=> (r.delivered \/ r.event.seq <= m))
            New == /\ ~recorded /\ Alive /\ recorded' /\ EndRows = {} /\ EndRows' # {}
                   /\ \A q \in EndRows' : ~q.delivered /\ q.event.seq = Top + 1
            Moved(w) == /\ call' \in {call, [call EXCEPT ![w] = Report(outbox')],
                                      [call EXCEPT ![w] = Call("idle")]}
                        /\ call' = call \/ call[w].step \in {"idle", "transit", "replied"}
<1>1. /\ outbox \subseteq Queued /\ call \in [Callers -> Carried]
      /\ "main" \in Flushers /\ "beat" \in Flushers /\ Flushers \subseteq Callers
  BY Types DEF Base, Typed, Callers, Flushers
<1>2. \A r \in EndRows : r.event.seq \in Nat /\ r.event.seq > 0 /\ r.event.kind = "settled"
                         /\ r \in outbox
  BY <1>1 DEF Base, QueueFits, EndRows, Queued, Event
<1>3. ASSUME outbox' = outbox, recorded' = recorded  PROVE Kept(0)
  BY <1>2, <1>3 DEF EndRows
<1>4. ASSUME outbox' = Appended("heartbeat") \/ outbox' = Appended("created")
               \/ outbox' = Appended("started"), recorded' = recorded
      PROVE  Kept(0)
  <2>1. PICK new \in Queued : outbox' = outbox \union {new} /\ new.event.kind # "settled"
    BY <1>4, AppendedIs DEF Base
  <2>2. EndRows' = EndRows
    BY <2>1 DEF EndRows
  <2>. QED  BY <1>2, <1>4, <2>2
<1>5. ASSUME outbox' = Appended("settled"), recorded', phase \in {"preflight", "started"}
      PROVE  New
  <2>1. PICK new \in Queued : /\ outbox' = outbox \union {new} /\ new.event.kind = "settled"
                              /\ ~new.delivered /\ new.event.seq = Top + 1
    BY <1>5, AppendedIs DEF Base
  <2>2. ~recorded /\ Alive /\ EndRows = {}
    BY <1>5 DEF Base, QueueFits, Alive
  <2>3. EndRows' = EndRows \union {new}
    BY <2>1 DEF EndRows
  <2>. QED  BY <1>5, <2>1, <2>2, <2>3
<1>6. ASSUME NEW m \in Nat, outbox' = Marked(m), recorded' = recorded  PROVE Kept(m)
  <2>1. \A q \in EndRows' : \E r \in EndRows : q.event = r.event
            /\ (q.delivered <=> (r.delivered \/ r.event.seq <= m))
    BY <1>1, <1>6, MarkedWas DEF EndRows
  <2>2. \A r \in EndRows : \E q \in EndRows' : q.event = r.event
            /\ (q.delivered <=> (r.delivered \/ r.event.seq <= m))
    BY <1>1, <1>6, MarkedIs DEF EndRows
  <2>. QED  BY <1>6, <2>1, <2>2
<1>7. Base'
  BY RunBase, ReceiveBase DEF SupervisorStep
<1>8. outbox' \subseteq Queued /\ IsFiniteSet(outbox')
  BY <1>7, Types DEF Base, Typed, TypeOK, Queued
<1>9. \A w \in Flushers : Moved(w) =>
        /\ \A v \in Callers : v # w => call'[v] = call[v]
        /\ \/ call'[w] = call[w]
           \/ /\ call[w].exit = "none"
              /\ call'[w].step \in {"idle", "transit"} /\ call'[w].ack = 0
              /\ call'[w].exit = "none" /\ ~call'[w].terminal
              /\ call'[w].events = {} \/ call'[w].events = Pending(outbox')
  <2>. SUFFICES ASSUME NEW w \in Flushers, Moved(w)
                PROVE  /\ \A v \in Callers : v # w => call'[v] = call[v]
                       /\ call'[w] \in {call[w], Report(outbox'), Call("idle")}
                       /\ call'[w] = call[w] \/ call[w].exit = "none"
    BY <1>8, ReportIs, IdleIs DEF Steps
  <2>1. call[w].step \in {"idle", "transit", "replied"} => call[w].exit = "none"
    BY <1>1 DEF Base, CallsFit, CallFits
  <2>. QED  BY <1>1, <2>1
<1>. DEFINE Stepped ==
               /\ UNCHANGED <<hosted, daemonVars>> /\ (Alive' => Alive)
               /\ \E w \in Flushers, m \in Nat : /\ Moved(w)
                    /\ \/ Kept(m) /\ (m = 0 \/ (m = call[w].ack /\ call[w].step = "replied"))
                       \/ New
<1>. HIDE DEF Kept, New, Moved
<1>10. Stepped
  <2>1. ASSUME Run  PROVE Stepped
    <3>1. UNCHANGED <<hosted, daemonVars>> /\ (Alive' => Alive) /\ Moved("main")
      BY <2>1 DEF Run, Witness, Alive, Moved
    <3>2. Kept(0) \/ New
      <4>1. recorded \in BOOLEAN
        BY DEF Base, Typed, TypeOK
      <4>2. CASE Witness("created", {"new"}, "preflight")
        BY <4>1, <4>2, <1>3, <1>4 DEF Witness
      <4>3. CASE Witness("started", {"preflight"}, "started")
        BY <4>1, <4>3, <1>3, <1>4 DEF Witness
      <4>4. CASE Witness("settled", {"preflight", "started"}, "settling")
        BY <4>1, <4>4, <1>3, <1>5 DEF Witness
      <4>. QED  BY <2>1, <4>2, <4>3, <4>4 DEF Run
    <3>. QED  BY <1>1, <3>1, <3>2
  <2>2. ASSUME Settle  PROVE Stepped
    <3>1. UNCHANGED <<hosted, daemonVars>> /\ (Alive' => Alive) /\ Moved("main") /\ Kept(0)
      BY <2>2, <1>3 DEF Settle, Alive, Moved
    <3>. QED  BY <1>1, <3>1
  <2>3. ASSUME Beat  PROVE Stepped
    <3>1. UNCHANGED <<hosted, daemonVars>> /\ (Alive' => Alive) /\ Moved("beat") /\ Kept(0)
      BY <2>3, <1>3, <1>4 DEF Beat, Alive, Moved
    <3>. QED  BY <1>1, <3>1
  <2>4. ASSUME Die  PROVE Stepped
    <3>1. UNCHANGED <<hosted, daemonVars>> /\ (Alive' => Alive) /\ Moved("beat") /\ Kept(0)
      BY <2>4, <1>3 DEF Die, Alive, Moved
    <3>. QED  BY <1>1, <3>1
  <2>5. ASSUME NEW w \in Flushers, Supervisor(w)  PROVE Stepped
    <3>1. UNCHANGED <<hosted, daemonVars>> /\ (Alive' => Alive) /\ Moved(w) /\ call[w].ack \in Nat
      BY <2>5, <1>1 DEF Supervisor, Receive, Unanswered, Alive, Moved, Carried
    <3>2. Kept(0) \/ (Kept(call[w].ack) /\ call[w].step = "replied")
      BY <2>5, <1>3, <1>6, <3>1 DEF Supervisor, Receive, Unanswered
    <3>. QED  BY <3>1, <3>2
  <2>. QED  BY <2>1, <2>2, <2>3, <2>4, <2>5 DEF SupervisorStep
<1>. QED  BY <1>8, <1>9, <1>10 DEF Kept, New

\* A step of the supervisor keeps the duty to tell.
LEMMA SupervisorDuty ==
    ASSUME Base, Duty, SupervisorStep  PROVE Duty'
<1>. USE DEF daemonVars, keptVars, toldVars
<1>0. Base' /\ outbox' \subseteq Queued /\ IsFiniteSet(outbox')
      /\ UNCHANGED <<hosted, row, saved, receipt, unsaved, token, log, untold>>
      /\ (Alive' => Alive) /\ Top \in Nat /\ row \in RowSet /\ saved \in RowSet
      /\ call \in [Callers -> Carried]
  BY RunBase, ReceiveBase, SupervisorIs, TopIs, Types DEF SupervisorStep, Base, Typed
<1>1. PICK w \in Flushers, m \in Nat :
        /\ \A v \in Callers : v # w => call'[v] = call[v]
        /\ \/ call'[w] = call[w]
           \/ /\ call[w].exit = "none"
              /\ call'[w].step \in {"idle", "transit"} /\ call'[w].ack = 0
              /\ call'[w].exit = "none" /\ ~call'[w].terminal
              /\ call'[w].events = {} \/ call'[w].events = Pending(outbox')
        /\ \/ /\ recorded' = recorded
              /\ m = 0 \/ (m = call[w].ack /\ call[w].step = "replied")
              /\ \A q \in EndRows' : \E r \in EndRows : q.event = r.event
                    /\ (q.delivered <=> (r.delivered \/ r.event.seq <= m))
              /\ \A r \in EndRows : \E q \in EndRows' : q.event = r.event
                    /\ (q.delivered <=> (r.delivered \/ r.event.seq <= m))
           \/ /\ ~recorded /\ Alive /\ recorded' /\ EndRows = {} /\ EndRows' # {}
              /\ \A q \in EndRows' : ~q.delivered /\ q.event.seq = Top + 1
  BY SupervisorIs
<1>2. w \in Callers /\ w # "tick" /\ \A v \in Callers : v \in Flushers \/ call'[v] = call[v]
  BY <1>1 DEF Callers, Flushers
<1>3. \A v \in Callers : (call'[v].exit # "none" => call'[v].exit = call[v].exit)
         /\ (call[v].exit # "none" => call'[v].exit # "none")
         /\ (call'[v].terminal => call[v].terminal)
         /\ (call'[v].step \notin {"idle", "transit"} => call'[v] = call[v])
  BY <1>1
<1>4. Heard => Heard'
  BY <1>0, <1>3, HeardStays
<1>5. \/ /\ recorded' = recorded
         /\ \A q \in Waiting' : \E r \in Waiting : q.event = r.event
         /\ Waiting' = {} /\ Waiting # {} => Heard
      \/ /\ ~recorded /\ Alive /\ Waiting' # {}
         /\ \A q \in Waiting' : q.event.seq = Top + 1
  <2>1. CASE /\ recorded' = recorded
             /\ m = 0 \/ (m = call[w].ack /\ call[w].step = "replied")
             /\ \A q \in EndRows' : \E r \in EndRows : q.event = r.event
                   /\ (q.delivered <=> (r.delivered \/ r.event.seq <= m))
             /\ \A r \in EndRows : \E q \in EndRows' : q.event = r.event
                   /\ (q.delivered <=> (r.delivered \/ r.event.seq <= m))
    <3>1. \A q \in Waiting' : \E r \in Waiting : q.event = r.event
      BY <2>1 DEF Waiting
    <3>2. ASSUME Waiting' = {}, NEW r \in Waiting  PROVE Heard
      <4>1. PICK q \in EndRows' : q.event = r.event
                   /\ (q.delivered <=> (r.delivered \/ r.event.seq <= m))
        BY <2>1, <3>2 DEF Waiting
      <4>2. q.delivered
        BY <3>2 DEF Waiting
      <4>3. r.event.seq <= m /\ r.event.seq \in Nat /\ r.event.seq > 0
        BY <3>2, <4>1, <4>2, WaitingIs DEF Waiting
      <4>4. call[w].ack >= r.event.seq
        BY <2>1, <4>3
      <4>. QED  BY <1>2, <3>2, <4>4 DEF Duty, Behind, CallBehind
    <3>. QED  BY <2>1, <3>1, <3>2
  <2>2. CASE /\ ~recorded /\ Alive /\ recorded' /\ EndRows = {} /\ EndRows' # {}
             /\ \A q \in EndRows' : ~q.delivered /\ q.event.seq = Top + 1
    BY <2>2 DEF Waiting
  <2>. QED  BY <1>1, <2>1, <2>2
<1>6. OverHeard'
  BY <1>0, <1>3, <1>4, <1>5 DEF Duty, OverHeard, Over
<1>7. ASSUME NEW r \in {row, saved}, RowBehind(r)
      PROVE  r.status = "running" => \A q \in Waiting' : \A s \in r.seen : s < q.event.seq
  <2>. SUFFICES ASSUME r.status = "running", NEW q \in Waiting', NEW s \in r.seen
                PROVE  s < q.event.seq
    OBVIOUS
  <2>1. CASE \E p \in Waiting : q.event = p.event
    BY <1>7, <2>1 DEF RowBehind
  <2>2. CASE ~recorded /\ Alive /\ q.event.seq = Top + 1
    <3>1. s \in row.seen \union saved.seen /\ s \in Nat
      BY <1>0 DEF RowSet
    <3>2. s <= Top
      BY <2>2, <3>1 DEF Base, Early
    <3>. QED  BY <1>0, <2>2, <3>1, <3>2
  <2>. QED  BY <1>5, <2>1, <2>2
<1>8. ASSUME NEW v \in Callers  PROVE CallBehind(v)'
  <2>. SUFFICES ASSUME NEW q \in Waiting'
                PROVE  /\ \A e \in call'[v].events : e.seq >= q.event.seq => q.event \in call'[v].events
                       /\ call'[v].ack >= q.event.seq => Heard'
    BY DEF CallBehind
  <2>1. /\ q \in outbox' /\ ~q.delivered /\ q.event.seq \in Nat /\ q.event.seq > 0
    <3>1. \A r \in outbox' : r.event.seq > 0
      BY <1>0 DEF Base, QueueFits
    <3>. QED  BY <1>0, <3>1 DEF Waiting, EndRows, Queued, Event
  <2>2. CASE call'[v] = call[v]
    <3>1. CASE \E p \in Waiting : q.event = p.event
      BY <1>4, <2>2, <3>1 DEF Duty, Behind, CallBehind
    <3>2. CASE ~recorded /\ Alive /\ q.event.seq = Top + 1
      <4>1. call[v].ack <= Top /\ \A e \in call[v].events : e.seq <= Top
        BY <3>2 DEF Base, Early
      <4>2. call[v].ack \in Nat /\ \A e \in call[v].events : e.seq \in Nat
        BY <1>0 DEF Carried, Event
      <4>. QED  BY <1>0, <2>2, <3>2, <4>1, <4>2
    <3>. QED  BY <1>5, <3>1, <3>2
  <2>3. CASE call'[v].ack = 0 /\ call'[v].events = {}
    BY <2>1, <2>3
  <2>4. CASE call'[v].ack = 0 /\ call'[v].events = Pending(outbox')
    <3>1. ASSUME NEW e \in Pending(outbox'), e.seq >= q.event.seq
          PROVE  q.event \in Pending(outbox')
      <4>1. e.seq \in Nat
        BY <1>0, PendingEvents DEF Event
      <4>2. q.event.seq <= e.seq
        BY <2>1, <3>1, <4>1
      <4>. QED  BY <1>0, <2>1, <4>2, PendingDown
    <3>. QED  BY <2>1, <2>4, <3>1
  <2>. QED  BY <1>1, <2>2, <2>3, <2>4
<1>9. Behind'
  BY <1>0, <1>7, <1>8 DEF Duty, Behind, RowBehind
<1>10. Reading'
  <2>1. call'["tick"] = call["tick"]
    BY <1>1, <1>2 DEF Callers
  <2>2. row.missing => ~Alive
    BY DEF Base, RowsFit, RowFits
  <2>. QED  BY <1>0, <1>5, <2>1, <2>2 DEF Duty, Reading
<1>11. Holding'
  BY <1>0, <1>3 DEF Duty, Holding
<1>12. Lost'
  <2>1. recorded' = recorded \/ (~recorded /\ Alive)
    BY <1>5
  <2>2. ~recorded /\ Alive => \A v \in Callers : call[v].exit = "none"
    BY DEF Base, Early
  <2>. QED  BY <1>0, <1>3, <2>1, <2>2 DEF Duty, Lost
<1>13. Closing'
  BY <1>0, <1>3 DEF Duty, Closing
<1>. QED  BY <1>6, <1>9, <1>10, <1>11, <1>12, <1>13 DEF Duty

\* So does admitting a report: what is not applied is answered over what was heard.
LEMMA AdmitDuty ==
    ASSUME Base, Duty, NEW w \in Callers, Admit(w)  PROVE Duty'
<1>0. Base' /\ UNCHANGED <<hosted, row, saved, receipt, unsaved, token, log, untold, outbox, recorded>>
      /\ call \in [Callers -> Carried] /\ w # "tick" /\ NoRow.status = "absent"
  BY AdmitBase, AdmitIs, Types DEF daemonVars, keptVars, toldVars, jobVars, Base, Typed, Flushers, NoRow
<1>1. \A v \in Callers : (call'[v].exit = call[v].exit) /\ (call'[v].terminal = call[v].terminal)
         /\ (call'[v].events = call[v].events) /\ (v # w => call'[v] = call[v])
  BY AdmitIs, <1>0 DEF Carried
<1>2. Heard => Heard'
  BY <1>0, <1>1, HeardStays
<1>3. Waiting' = Waiting
  BY <1>0 DEF Waiting, EndRows
<1>4. call'[w].ack = call[w].ack \/ Heard
  BY AdmitIs DEF Duty, OverHeard, Over
<1>5. OverHeard'
  BY <1>0, <1>1, <1>2, <1>3 DEF Duty, OverHeard, Over
<1>6. Behind'
  <2>1. \A v \in Callers : CallBehind(v)'
    BY <1>1, <1>2, <1>3, <1>4 DEF Duty, Behind, CallBehind
  <2>. QED  BY <1>0, <1>3, <2>1 DEF Duty, Behind, RowBehind
<1>7. Reading'
  <2>1. call'["tick"] = call["tick"]
    BY <1>0, <1>1 DEF Callers
  <2>. QED  BY <1>0, <1>3, <2>1 DEF Duty, Reading
<1>8. Holding' /\ Lost'
  BY <1>0, <1>1 DEF Duty, Holding, Lost
<1>9. Closing'
  <2>1. call'[w].step # "answer"
    BY AdmitIs
  <2>. QED  BY <1>0, <1>1, <2>1 DEF Duty, Closing
<1>. QED  BY <1>5, <1>6, <1>7, <1>8, <1>9 DEF Duty

\* So does a telling, also one that is let go.
LEMMA TellDuty ==
    ASSUME Base, Duty, NEW w \in Callers, LookAtLog(w) \/ Emit(w)  PROVE Duty'
<1>0. Base' /\ UNCHANGED <<hosted, row, saved, receipt, unsaved, token, outbox, recorded>>
  BY TellBase, TellIs DEF jobVars
<1>1. \A v \in Callers :
         /\ call'[v].exit # "none" => call'[v].exit = call[v].exit
         /\ call'[v].terminal = call[v].terminal /\ call'[v].ack = call[v].ack
         /\ call'[v].events = call[v].events
         /\ call'[v].step = "checked" \/ call'[v].step = "answer" => call'[v] = call[v]
  BY TellIs
<1>2. /\ log # <<>> => log' # <<>>
      /\ untold => untold'
      /\ \A v \in Callers : call[v].exit # "none" =>
            call'[v].exit # "none" \/ log' # <<>> \/ untold'
  BY TellIs
<1>3. Heard => Heard'
  BY <1>0, <1>2, HeardStays
<1>4. Waiting' = Waiting
  BY <1>0 DEF Waiting, EndRows
<1>5. OverHeard'
  BY <1>0, <1>1, <1>3, <1>4 DEF Duty, OverHeard, Over
<1>6. Behind'
  BY <1>0, <1>1, <1>3, <1>4 DEF Duty, Behind, RowBehind, CallBehind
<1>7. Reading'
  <2>1. "tick" \in Callers
    BY DEF Callers
  <2>. QED  BY <1>0, <1>1, <1>4, <2>1 DEF Duty, Reading
<1>8. Holding'
  BY <1>0, <1>1 DEF Duty, Holding
<1>9. Lost'
  BY <1>0, <1>1, <1>2 DEF Duty, Lost
<1>10. Closing'
  BY <1>0, <1>1 DEF Duty, Closing
<1>. QED  BY <1>5, <1>6, <1>7, <1>8, <1>9, <1>10 DEF Duty

\* So does a commit of another job.
LEMMA OtherDuty ==
    ASSUME Base, Duty, OtherChanges  PROVE Duty'
<1>0. /\ Base' /\ call \in [Callers -> Carried] /\ "other" \in Callers
      /\ UNCHANGED <<hosted, row, saved, receipt, unsaved, token, log, untold, outbox, recorded>>
  BY OtherBase, Types DEF OtherChanges, jobVars, daemonVars, keptVars, toldVars, Base, Typed, Callers
<1>1. \A v \in Callers :
         /\ call'[v].exit = call[v].exit
         /\ call'[v].terminal = call[v].terminal /\ call'[v].ack = call[v].ack
         /\ call'[v].events = call[v].events
         /\ call'[v].step = "checked" \/ call'[v].step = "answer" => call'[v] = call[v]
  BY <1>0 DEF OtherChanges, Goes, Carried
<1>2. Heard => Heard'
  BY <1>0, <1>1, HeardStays
<1>3. Waiting' = Waiting
  BY <1>0 DEF Waiting, EndRows
<1>4. OverHeard'
  BY <1>0, <1>1, <1>2, <1>3 DEF Duty, OverHeard, Over
<1>5. Behind'
  BY <1>0, <1>1, <1>2, <1>3 DEF Duty, Behind, RowBehind, CallBehind
<1>6. Reading'
  <2>1. "tick" \in Callers
    BY DEF Callers
  <2>. QED  BY <1>0, <1>1, <1>3, <2>1 DEF Duty, Reading
<1>7. Holding' /\ Lost' /\ Closing'
  BY <1>0, <1>1 DEF Duty, Holding, Lost, Closing
<1>. QED  BY <1>4, <1>5, <1>6, <1>7 DEF Duty

\* So does applying a report: the handler that settles the row takes the verdict.
LEMMA ApplyDuty ==
    ASSUME Base, Duty, NEW w \in Callers, w # "tick", Apply(w)  PROVE Duty'
<1>0. /\ Base' /\ row \in RowSet /\ RowFits(row) /\ "tick" \in Callers
      /\ UNCHANGED <<hosted, saved, receipt, unsaved, token, log, untold, outbox, recorded>>
  BY ApplyBase, ApplyIs, Types DEF jobVars, Base, Typed, RowsFit, Callers
<1>1. /\ \A v \in Callers : v # w => call'[v] = call[v]
      /\ call'[w].events = call[w].events /\ call'[w].ack = Highest(row'.seen)
      /\ call'[w].terminal <=> row'.status = "settled"
      /\ call[w].exit = "none" /\ call'[w].step # "answer" /\ call'[w].step # "checked"
  BY ApplyIs
<1>2. row' \in RowSet /\ row' # NoRow /\ row'.status \in {"running", "settled"}
  BY ApplyIs DEF NoRow
<1>3. \/ row.status = "settled" /\ row'.status = "settled" /\ call'[w].exit = "none"
      \/ row.status # "settled" /\ row'.status = "settled" /\ call'[w].exit = "settled"
      \/ /\ row.status # "settled" /\ row'.status = "running" /\ call'[w].exit = "none"
         /\ ~\E e \in call[w].events : e.kind = "settled" /\ e.seq > Highest(row.seen)
  BY AppliesIs
<1>4. Heard => Heard'
  BY <1>0, <1>1, HeardStays
<1>5. Waiting' = Waiting
  BY <1>0 DEF Waiting, EndRows
<1>6. row'.status = "settled" => Heard'
  <2>1. CASE row.status = "settled"
    BY <1>4, <2>1 DEF Duty, OverHeard, Over
  <2>2. CASE call'[w].exit = "settled"
    <3>1. call'[w].exit # "none"
      BY <2>2
    <3>. QED  BY <1>0, <3>1, HeardNow
  <2>. QED  BY <1>3, <2>1, <2>2
<1>7. OverHeard'
  <2>1. Over(row') => row'.status = "settled"
    BY <1>2 DEF Over
  <2>2. Over(saved)' => Over(saved)
    BY <1>0 DEF Over
  <2>3. Over(row)' => Heard'
    BY <1>2, <1>6 DEF Over
  <2>. QED  BY <1>0, <1>1, <1>4, <1>5, <1>6, <2>2, <2>3 DEF Duty, OverHeard
<1>8. row'.status = "running" =>
         RowBehind(row') /\ \A q \in Waiting : Highest(row'.seen) < q.event.seq
  <2>1. SUFFICES ASSUME row'.status = "running"
                 PROVE  RowBehind(row') /\ \A q \in Waiting : Highest(row'.seen) < q.event.seq
    OBVIOUS
  <2>2. row'.seen = Applied(row, call[w].events).seen
    <3>1. row' = Applied(Found, call[w].events) /\ Found.seen = row.seen
      BY ApplyIs, FoundIs
    <3>2. call[w].events \in SUBSET Event /\ Found \in RowSet
      BY Types, FoundIs DEF Base, Typed, Carried
    <3>. QED  BY <1>0, <3>1, <3>2 DEF Applied, RowSet
  <2>. QED  BY <1>2, <1>3, <2>1, <2>2, RunsBehind
<1>9. Behind'
  <2>1. RowBehind(row)'
    BY <1>2, <1>5, <1>8 DEF RowBehind
  <2>2. RowBehind(saved)'
    BY <1>0, <1>5 DEF Duty, Behind, RowBehind
  <2>3. ASSUME NEW v \in Callers, v # w  PROVE CallBehind(v)'
    BY <1>1, <1>4, <1>5, <2>3 DEF Duty, Behind, CallBehind
  <2>4. CallBehind(w)'
    <3>1. SUFFICES ASSUME NEW q \in Waiting
                   PROVE  /\ \A e \in call[w].events : e.seq >= q.event.seq => q.event \in call[w].events
                          /\ Highest(row'.seen) >= q.event.seq => Heard'
      BY <1>1, <1>5 DEF CallBehind
    <3>2. Highest(row'.seen) >= q.event.seq => Heard'
      <4>1. CASE row'.status = "settled"
        BY <1>6, <4>1
      <4>2. CASE row'.status = "running"
        <5>1. Highest(row'.seen) < q.event.seq
          BY <1>8, <4>2
        <5>2. call'[w].ack \in Nat /\ q.event.seq \in Nat
          BY <1>0, Types, WaitingIs, ApplyIs DEF Carried
        <5>. QED  BY <1>1, <5>1, <5>2
      <4>. QED  BY <1>2, <4>1, <4>2
    <3>. QED  BY <3>2 DEF Duty, Behind, CallBehind
  <2>. QED  BY <2>1, <2>2, <2>3, <2>4 DEF Behind
<1>10. Reading'
  <2>1. call'["tick"] = call["tick"]
    BY <1>0, <1>1
  <2>2. row'.status = "running" /\ row'.missing => row.status = "running" /\ row.missing
    <3>1. row'.status = "running" => row'.missing = Found.missing
      BY AppliesIs
    <3>2. Found.missing => row.missing
      BY FoundIs
    <3>3. row.missing => row.status # "absent"
      BY <1>0 DEF RowFits, NoRow
    <3>. QED  BY <1>0, <1>3, <3>1, <3>2, <3>3 DEF RowSet, Statuses
  <2>. QED  BY <1>5, <2>1, <2>2 DEF Duty, Reading
<1>11. Holding'
  <2>1. row.status = "settled" => row'.status = "settled"
    BY <1>3
  <2>2. \A v \in Callers : call'[v].terminal \/ call'[v].exit # "none" =>
           row'.status = "settled" \/ (~hosted' /\ receipt' # "none")
    BY <1>0, <1>1, <1>3, <2>1 DEF Duty, Holding
  <2>3. hosted /\ call'[w].exit # "none" => \A v \in Callers : v # w => call'[v].exit = "none"
    BY <1>1, <1>3 DEF Duty, Holding
  <2>4. hosted => \A v, u \in Callers : call'[v].exit # "none" /\ call'[u].exit # "none" => v = u
    BY <1>1, <2>3 DEF Duty, Holding
  <2>. QED  BY <1>0, <2>2, <2>4 DEF Holding
<1>12. Lost'
  BY <1>0, <1>1, <1>3 DEF Duty, Lost
<1>13. Closing'
  BY <1>0, <1>1, <1>3 DEF Duty, Closing
<1>. QED  BY <1>7, <1>9, <1>10, <1>11, <1>12, <1>13 DEF Duty

\* So does a step of a commit: only a settled row leaves, for a receipt.
LEMMA CommitDuty ==
    ASSUME Base, Duty, NEW w \in Callers, Commits(w)  PROVE Duty'
<1>0. /\ Base' /\ row \in RowSet /\ saved \in RowSet /\ "tick" \in Callers
      /\ UNCHANGED <<hosted, token, log, untold, outbox, recorded>>
      /\ NoRow.status = "absent"
  BY CommitBase, CommitIs, Types DEF jobVars, Base, Typed, Callers, NoRow
<1>1. /\ \A v \in Callers : v # w => call'[v] = call[v]
      /\ call[w].exit = "none" /\ call'[w].exit = "none"
      /\ call'[w].terminal => call[w].terminal
      /\ call'[w].step # "checked"
      /\ call[w].step # "checked"
  BY CommitIs, IdleIs DEF Steps
<1>2. \/ call'[w].events = call[w].events /\ call'[w].ack = call[w].ack
      \/ call'[w].events = {} /\ call'[w].ack = 0
  BY CommitIs, IdleIs DEF Steps
<1>3. \/ row' = row /\ receipt' = receipt
      \/ row.status = "settled" /\ (row' = row \/ row' = NoRow) /\ receipt' # "none"
  BY CommitIs
<1>4. \/ saved' = saved
      \/ row' = row /\ saved' = Loaded(row)
  BY CommitIs
<1>5. /\ Loaded(row).status = row.status /\ Loaded(row).seen = row.seen
      /\ Loaded(row) = NoRow <=> row = NoRow
  BY LoadedIs
<1>6. Heard => Heard'
  BY <1>0, <1>1, HeardStays
<1>7. Waiting' = Waiting
  BY <1>0 DEF Waiting, EndRows
<1>8. Over(row)' => Over(row)
  BY <1>3 DEF Over
<1>9. Over(saved)' => Over(saved) \/ Over(row)
  <2>1. CASE saved' = saved /\ receipt' = receipt
    BY <2>1 DEF Over
  <2>2. CASE row.status = "settled"
    BY <2>2 DEF Over
  <2>3. CASE receipt' = receipt /\ saved' = Loaded(row)
    BY <1>5, <2>3 DEF Over
  <2>. QED  BY <1>3, <1>4, <2>1, <2>2, <2>3
<1>10. OverHeard'
  <2>1. \A v \in Callers : call'[v].terminal => call[v].terminal
    BY <1>1
  <2>. QED  BY <1>0, <1>6, <1>7, <1>8, <1>9, <2>1 DEF Duty, OverHeard
<1>11. Behind'
  <2>1. RowBehind(row)'
    BY <1>0, <1>3, <1>7 DEF Duty, Behind, RowBehind
  <2>2. RowBehind(saved)'
    <3>1. CASE saved' = saved
      BY <1>7, <3>1 DEF Duty, Behind, RowBehind
    <3>2. CASE saved' = Loaded(row)
      BY <1>5, <1>7, <3>2 DEF Duty, Behind, RowBehind
    <3>. QED  BY <1>4, <3>1, <3>2
  <2>3. ASSUME NEW v \in Callers  PROVE CallBehind(v)'
    <3>1. CASE call'[v].events = call[v].events /\ call'[v].ack = call[v].ack
      BY <1>6, <1>7, <3>1 DEF Duty, Behind, CallBehind
    <3>2. CASE call'[v].events = {} /\ call'[v].ack = 0
      <4>1. \A q \in Waiting : ~(0 >= q.event.seq)
        BY WaitingIs
      <4>. QED  BY <1>7, <3>2, <4>1 DEF CallBehind
    <3>. QED  BY <1>1, <1>2, <3>1, <3>2
  <2>. QED  BY <2>1, <2>2, <2>3 DEF Behind
<1>12. Reading'
  <2>1. call'["tick"].step = "checked" => call'["tick"] = call["tick"]
    BY <1>0, <1>1
  <2>2. row'.status = "running" => row' = row
    BY <1>0, <1>3
  <2>. QED  BY <1>7, <2>1, <2>2 DEF Duty, Reading
<1>13. hosted => UNCHANGED <<row, receipt>>
  <2>1. hosted => receipt' = "none"
    BY <1>0 DEF Base, KindFits
  <2>. QED  BY <1>3, <2>1
<1>14. Holding'
  <2>1. \A v \in Callers : /\ call'[v].terminal => call[v].terminal
                           /\ call'[v].exit = call[v].exit
    BY <1>1
  <2>2. row.status = "settled" => row'.status = "settled" \/ (~hosted' /\ receipt' # "none")
    BY <1>0, <1>3, <1>13
  <2>3. receipt # "none" => receipt' # "none"
    BY CommitIs
  <2>. QED  BY <1>0, <2>1, <2>2, <2>3 DEF Duty, Holding
<1>15. Lost'
  <2>1. receipt # "none" => receipt' # "none"
    BY CommitIs
  <2>. QED  BY <1>0, <1>1, <2>1 DEF Duty, Lost
<1>16. Closing'
  <2>1. SUFFICES ASSUME hosted  PROVE Closing'
    BY <1>0 DEF Closing
  <2>2. saved.status = "settled" => row.status = "settled"
    BY <2>1 DEF Duty, Closing
  <2>3. saved'.status = "settled" => row'.status = "settled"
    BY <1>4, <1>5, <1>13, <2>1, <2>2
  <2>4. unsaved => unsaved'
    BY CommitIs
  <2>5. saved.status = "settled" => saved'.status = "settled"
    BY <1>4, <1>5, <2>2
  <2>6. ASSUME call'[w].step = "answer", w # "tick"  PROVE unsaved' \/ saved'.status = "settled"
    <3>1. call[w].terminal /\ (saved' = Loaded(row) \/ unsaved')
      BY <2>6, CommitIs
    <3>2. row.status = "settled"
      BY <2>1, <3>1 DEF Duty, Holding
    <3>. QED  BY <1>5, <3>1, <3>2
  <2>7. \A v \in Callers : v # w /\ call'[v].step = "answer" /\ v # "tick" =>
           unsaved' \/ saved'.status = "settled"
    BY <1>1, <2>1, <2>4, <2>5 DEF Duty, Closing
  <2>8. token' = "closed" => unsaved' \/ saved'.status = "settled"
    BY <1>0, <2>1, <2>4, <2>5 DEF Duty, Closing
  <2>. QED  BY <2>3, <2>6, <2>7, <2>8 DEF Closing
<1>. QED  BY <1>10, <1>11, <1>12, <1>14, <1>15, <1>16 DEF Duty

\* So does the end of a handler: what is forgotten was heard.
LEMMA AnswerDuty ==
    ASSUME Base, Duty, NEW w \in Callers, Answer(w)  PROVE Duty'
<1>0. /\ Base' /\ "tick" \in Callers
      /\ UNCHANGED <<hosted, saved, receipt, unsaved, log, untold, recorded>>
  BY AnswerBase, AnswerIs DEF Callers
<1>1. /\ \A v \in Callers : v # w => call'[v] = call[v]
      /\ call[w].step = "answer" /\ call[w].terminal /\ call[w].exit = "none"
      /\ ~call'[w].terminal /\ call'[w].exit = "none"
      /\ call'[w].step # "checked" /\ call'[w].step # "answer"
  BY AnswerIs, IdleIs DEF Steps
<1>2. \/ call'[w].events = call[w].events /\ call'[w].ack = call[w].ack
      \/ call'[w].events = {} /\ call'[w].ack = 0
  BY AnswerIs, IdleIs DEF Steps
<1>3. row'.status = row.status /\ row'.seen = row.seen /\ row'.missing = row.missing
      /\ (row' = NoRow <=> row = NoRow)
  BY AnswerIs
<1>4. Heard
  BY <1>1 DEF Duty, OverHeard
<1>5. Heard'
  BY <1>0, <1>1, <1>4, HeardStays
<1>6. Waiting' = Waiting
  BY AnswerIs DEF Waiting, EndRows, Undelivered
<1>7. OverHeard'
  BY <1>5 DEF OverHeard
<1>8. Behind'
  <2>1. RowBehind(row)' /\ RowBehind(saved)'
    BY <1>0, <1>3, <1>6 DEF Duty, Behind, RowBehind
  <2>2. ASSUME NEW v \in Callers  PROVE CallBehind(v)'
    <3>1. CASE call'[v].events = call[v].events
      BY <1>5, <1>6, <3>1 DEF Duty, Behind, CallBehind
    <3>2. CASE call'[v].events = {}
      BY <1>5, <3>2 DEF CallBehind
    <3>. QED  BY <1>1, <1>2, <3>1, <3>2
  <2>. QED  BY <2>1, <2>2 DEF Behind
<1>9. Reading'
  BY <1>0, <1>1, <1>3, <1>6 DEF Duty, Reading
<1>10. Holding' /\ Lost'
  BY <1>0, <1>1, <1>3 DEF Duty, Holding, Lost
<1>11. Closing'
  <2>1. SUFFICES ASSUME hosted  PROVE Closing'
    BY <1>0 DEF Closing
  <2>2. token' = "closed" => token = "closed" \/ w # "tick"
    BY AnswerIs DEF Flushers
  <2>3. token' = "closed" => unsaved \/ saved.status = "settled"
    BY <1>1, <2>1, <2>2 DEF Duty, Closing
  <2>. QED  BY <1>0, <1>1, <1>3, <2>1, <2>3 DEF Duty, Closing
<1>. QED  BY <1>7, <1>8, <1>9, <1>10, <1>11 DEF Duty

\* So does a look: what is past the cursor of a running row holds the outcome.
LEMMA LookDuty ==
    ASSUME Base, Duty, Look  PROVE Duty'
<1>0. /\ Base' /\ row \in RowSet /\ "tick" \in Callers
      /\ UNCHANGED <<hosted, row, saved, receipt, unsaved, token, log, untold, outbox, recorded>>
  BY LookBase, LookIs, Types DEF daemonVars, keptVars, toldVars, jobVars, Base, Typed, Callers
<1>1. /\ \A v \in Callers : v # "tick" => call'[v] = call[v]
      /\ call["tick"].exit = "none"
      /\ call'["tick"].exit = "none" /\ ~call'["tick"].terminal /\ call'["tick"].ack = 0
      /\ call'["tick"].step = "checked"
  BY LookIs, <1>0 DEF Base, CallsFit, CallFits
<1>2. Heard => Heard'
  BY <1>0, <1>1, HeardStays
<1>3. Waiting' = Waiting
  BY <1>0 DEF Waiting, EndRows
<1>4. OverHeard'
  BY <1>0, <1>1, <1>2, <1>3 DEF Duty, OverHeard, Over
<1>5. row.status = "running" => \A q \in Waiting : q.event \in Past(Highest(row.seen))
  <2>1. SUFFICES ASSUME row.status = "running", NEW q \in Waiting
                 PROVE  q.event \in Past(Highest(row.seen))
    OBVIOUS
  <2>2. PICK n \in Nat : Below(n)
    BY DEF Base, Typed
  <2>3. Highest(row.seen) \in Nat /\ Highest(row.seen) < q.event.seq
    BY <1>0, <2>1, <2>2, CursorIs DEF Duty, Behind, Below
  <2>4. q \in outbox /\ q.event.seq \in Nat
    BY WaitingIs
  <2>. QED  BY <2>3, <2>4 DEF Past
<1>6. \/ row.status = "running" /\ call'["tick"].events = Past(Highest(row.seen))
      \/ call'["tick"].events = {} /\ ~(row.status = "running" /\ row.missing)
  BY LookIs
<1>7. Behind'
  <2>1. ASSUME NEW v \in Callers, v # "tick"  PROVE CallBehind(v)'
    BY <1>1, <1>2, <1>3, <2>1 DEF Duty, Behind, CallBehind
  <2>2. CallBehind("tick")'
    <3>1. SUFFICES ASSUME NEW q \in Waiting
                   PROVE  /\ call'["tick"].events # {} => q.event \in call'["tick"].events
                          /\ ~(0 >= q.event.seq)
      BY <1>1, <1>3 DEF CallBehind
    <3>. QED  BY <1>5, <1>6, WaitingIs
  <2>. QED  BY <1>0, <1>3, <2>1, <2>2 DEF Duty, Behind, RowBehind
<1>8. Reading'
  BY <1>0, <1>3, <1>5, <1>6 DEF Reading
<1>9. Holding' /\ Lost' /\ Closing'
  BY <1>0, <1>1 DEF Duty, Holding, Lost, Closing
<1>. QED  BY <1>4, <1>7, <1>8, <1>9 DEF Duty

\* A supervisor whose outcome waits in the queue, or was heard, is not called
\* lost over a running row.
LEMMA LostRight ==
    ASSUME Base, Duty, call["tick"].step = "checked", row.status = "running", row.missing,
           ~\E e \in call["tick"].events : e.kind = "settled" /\ e.seq > Highest(row.seen)
    PROVE  ~recorded \/ untold \/ log # <<>> \/ (~hosted /\ receipt # "none")
<1>. SUFFICES ASSUME recorded, ~untold, log = <<>>, hosted \/ receipt = "none"  PROVE FALSE
  OBVIOUS
<1>1. Waiting = {}
  <2>1. SUFFICES ASSUME NEW q \in Waiting  PROVE FALSE
    OBVIOUS
  <2>2. q.event \in call["tick"].events /\ q.event.kind = "settled"
    BY WaitingIs DEF Duty, Reading
  <2>3. PICK n \in Nat : Below(n)
    BY DEF Base, Typed
  <2>4. row \in RowSet
    BY Types DEF Base, Typed
  <2>5. Highest(row.seen) \in Nat /\ Highest(row.seen) < q.event.seq
    BY <2>3, <2>4, CursorIs DEF Duty, Behind, Below
  <2>6. q.event.seq \in Nat
    BY WaitingIs
  <2>. QED  BY <2>2, <2>5, <2>6
<1>2. Heard
  BY <1>1 DEF Duty, OverHeard
<1>3. PICK w \in Callers : call[w].exit # "none"
  BY <1>2, HeardIs
<1>. QED  BY <1>3 DEF Duty, Holding

\* So does a judgement.
LEMMA JudgeDuty ==
    ASSUME Base, Duty, Judge  PROVE Duty'
<1>0. /\ Base' /\ row \in RowSet /\ "tick" \in Callers /\ NoRow.status = "absent"
      /\ UNCHANGED <<hosted, saved, receipt, unsaved, token, log, untold, outbox, recorded>>
  BY JudgeBase, JudgeIs, Types DEF jobVars, Base, Typed, Callers, NoRow
<1>1. /\ \A v \in Callers : v # "tick" => call'[v] = call[v]
      /\ call["tick"].step = "checked" /\ call["tick"].exit = "none"
      /\ call'["tick"].events = {} /\ call'["tick"].ack = 0
      /\ call'["tick"].terminal => row'.status = "settled"
      /\ call'["tick"].step # "checked" /\ row' \in RowSet
  BY <1>0, JudgeIs DEF Base, CallsFit, CallFits
<1>2. \/ row = NoRow /\ row' = NoRow /\ call'["tick"].exit = "none" /\ ~call'["tick"].terminal
      \/ row.status = "settled" /\ row'.status = "settled" /\ call'["tick"].exit = "none"
      \/ /\ row.status = "running" /\ row'.status = "settled"
         /\ \/ call'["tick"].exit = "settled"
            \/ /\ call'["tick"].exit = "lost" /\ row.missing
               /\ ~\E e \in call["tick"].events : e.kind = "settled" /\ e.seq > Highest(row.seen)
      \/ /\ row.status = "running" /\ row'.status = "running"
         /\ call'["tick"].exit = "none" /\ ~call'["tick"].terminal
         /\ row'.seen = Applied(row, call["tick"].events).seen
         /\ ~\E e \in call["tick"].events : e.kind = "settled" /\ e.seq > Highest(row.seen)
  BY JudgeIs
<1>3. Heard => Heard'
  BY <1>0, <1>1, HeardStays
<1>4. Waiting' = Waiting
  BY <1>0 DEF Waiting, EndRows
<1>5. row'.status = "settled" => Heard'
  <2>1. CASE row.status = "settled"
    BY <1>3, <2>1 DEF Duty, OverHeard, Over
  <2>2. CASE call'["tick"].exit # "none"
    BY <1>0, <2>2, HeardNow
  <2>. QED  BY <1>0, <1>2, <2>1, <2>2
<1>6. OverHeard'
  <2>1. row' = NoRow => row = NoRow
    BY <1>0, <1>2
  <2>2. Over(row)' => Heard'
    BY <1>0, <1>3, <1>5, <2>1 DEF Duty, OverHeard, Over
  <2>3. Over(saved)' => Over(saved)
    BY <1>0 DEF Over
  <2>. QED  BY <1>0, <1>1, <1>3, <1>4, <1>5, <2>2, <2>3 DEF Duty, OverHeard
<1>7. Behind'
  <2>1. RowBehind(row)'
    <3>1. SUFFICES ASSUME row'.status = "running"  PROVE RowBehind(row)'
      BY DEF RowBehind
    <3>2. RowBehind(row')
      BY <1>0, <1>1, <1>2, <3>1, RunsBehind
    <3>. QED  BY <1>4, <3>2 DEF RowBehind
  <2>2. RowBehind(saved)'
    BY <1>0, <1>4 DEF Duty, Behind, RowBehind
  <2>3. ASSUME NEW v \in Callers, v # "tick"  PROVE CallBehind(v)'
    BY <1>1, <1>3, <1>4, <2>3 DEF Duty, Behind, CallBehind
  <2>4. CallBehind("tick")'
    <3>1. \A q \in Waiting : ~(0 >= q.event.seq)
      BY WaitingIs
    <3>. QED  BY <1>1, <1>4, <3>1 DEF CallBehind
  <2>. QED  BY <2>1, <2>2, <2>3, <2>4 DEF Behind
<1>8. Reading'
  BY <1>1 DEF Reading
<1>9. Holding'
  <2>1. row.status = "settled" => row'.status = "settled"
    BY <1>0, <1>2
  <2>2. call'["tick"].exit # "none" => row'.status = "settled" /\ row.status = "running"
    BY <1>0, <1>2
  <2>3. \A v \in Callers : call'[v].terminal \/ call'[v].exit # "none" =>
           row'.status = "settled" \/ (~hosted' /\ receipt' # "none")
    BY <1>0, <1>1, <2>1, <2>2 DEF Duty, Holding
  <2>4. hosted /\ call'["tick"].exit # "none" =>
           \A v \in Callers : v # "tick" => call'[v].exit = "none"
    BY <1>1, <2>2 DEF Duty, Holding
  <2>5. hosted => \A v, u \in Callers : call'[v].exit # "none" /\ call'[u].exit # "none" => v = u
    BY <1>1, <2>4 DEF Duty, Holding
  <2>. QED  BY <1>0, <2>3, <2>5 DEF Holding
<1>10. Lost'
  <2>1. call'["tick"].exit = "lost" => ~recorded \/ untold \/ log # <<>> \/ (~hosted /\ receipt # "none")
    BY <1>1, <1>2, LostRight
  <2>. QED  BY <1>0, <1>1, <2>1 DEF Duty, Lost
<1>11. Closing'
  BY <1>0, <1>1, <1>2 DEF Duty, Closing
<1>. QED  BY <1>6, <1>7, <1>8, <1>9, <1>10, <1>11 DEF Duty

\* So does a stop of the daemon: a verdict that is cut short comes again or is out of reach.
LEMMA CrashDuty ==
    ASSUME Base, Duty, Crash  PROVE Duty'
<1>0. /\ Base' /\ row' = saved
      /\ UNCHANGED <<hosted, saved, receipt, unsaved, token, log, outbox, recorded>>
      /\ \A v \in Callers :
                /\ call'[v].step = "idle" /\ call'[v].exit = "none" /\ ~call'[v].terminal
                /\ call'[v].events = {} /\ call'[v].ack = 0
      /\ untold' <=> untold \/ (log = <<>> /\ OutOfReach /\ \E w \in Callers : Carries(w))
  BY CrashBase, CrashIs
<1>1. Heard /\ OutOfReach => Heard'
  <2>1. log # <<>> \/ untold' => Heard'
    BY <1>0 DEF Heard
  <2>. QED  BY <1>0, <2>1 DEF Heard
<1>2. Waiting' = Waiting
  BY <1>0 DEF Waiting, EndRows
<1>3. recorded /\ Waiting = {} => OutOfReach
  BY DEF OutOfReach, Waiting, EndRows, Undelivered
<1>4. Over(saved) \/ token = "closed" => OutOfReach
  BY DEF Over, OutOfReach
<1>5. OverHeard'
  <2>1. Over(row)' \/ Over(saved)' => Over(saved)
    BY <1>0 DEF Over
  <2>. QED  BY <1>0, <1>1, <1>2, <1>3, <1>4, <2>1 DEF Duty, OverHeard
<1>6. Behind'
  <2>1. \A q \in Waiting : ~(0 >= q.event.seq)
    BY WaitingIs
  <2>2. RowBehind(row)' /\ RowBehind(saved)'
    BY <1>0, <1>2 DEF Duty, Behind, RowBehind
  <2>3. ASSUME NEW v \in Callers  PROVE CallBehind(v)'
    BY <1>0, <1>2, <2>1 DEF CallBehind
  <2>. QED  BY <2>2, <2>3 DEF Behind
<1>7. Reading'
  BY <1>0 DEF Reading, Callers
<1>8. Holding' /\ Lost'
  BY <1>0 DEF Holding, Lost
<1>9. Closing'
  BY <1>0 DEF Duty, Closing
<1>. QED  BY <1>5, <1>6, <1>7, <1>8, <1>9 DEF Duty

\* So does a step of something else.
LEMMA DutyStays ==
    ASSUME Base, Duty, UNCHANGED vars  PROVE Duty'
<1>1. UNCHANGED <<hosted, phase, outbox, recorded, row, saved, receipt, unsaved, token, log, untold, call>>
  BY DEF vars, jobVars, daemonVars, keptVars, toldVars
<1>2. Heard' = Heard /\ Waiting' = Waiting
  BY <1>1 DEF Heard, Carries, Waiting, EndRows
<1>. QED  BY <1>1, <1>2 DEF Duty, OverHeard, Over, Behind, RowBehind, CallBehind,
          Reading, Holding, Lost, Closing

\* Every step keeps the duty to tell.
LEMMA DutyNext ==
    ASSUME Base, Duty, [Next]_vars  PROVE Duty'
<1>1. CASE Run \/ Settle \/ Beat \/ Die \/ \E w \in Flushers : Supervisor(w)
  BY <1>1, SupervisorDuty DEF SupervisorStep
<1>2. CASE \E w \in Callers : Handler(w)
  <2>1. PICK w \in Callers : Handler(w)
    BY <1>2
  <2>2. CASE Admit(w)
    BY <2>2, AdmitDuty
  <2>3. CASE w # "tick" /\ Apply(w)
    BY <2>3, ApplyDuty
  <2>4. CASE LookAtLog(w) \/ Emit(w)
    BY <2>4, TellDuty
  <2>5. CASE Persist(w) \/ List(w) \/ Compact(w) \/ Snapshot(w)
    BY <2>5, CommitDuty DEF Commits
  <2>6. CASE Answer(w)
    BY <2>6, AnswerDuty
  <2>. QED  BY <2>1, <2>2, <2>3, <2>4, <2>5, <2>6 DEF Handler
<1>3. CASE Tick
  BY <1>3, LookDuty, JudgeDuty DEF Tick
<1>4. CASE OtherChanges
  BY <1>4, OtherDuty
<1>5. CASE Crash
  BY <1>5, CrashDuty
<1>6. CASE UNCHANGED vars
  BY <1>6, DutyStays
<1>. QED  BY <1>1, <1>2, <1>3, <1>4, <1>5, <1>6 DEF Next

\* The duty to tell is kept: what ends a job in the daemon, or takes its outcome
\* out of the supervisor's queue, was told, is about to be, or was let go.
THEOREM DutyInvariance == Spec => []Duty
<1>1. Init => Duty
  BY DutyInit
<1>2. Base /\ Duty /\ [Next]_vars => Duty'
  BY DutyNext
<1>. QED  BY <1>1, <1>2, BaseInvariance, PTL DEF Spec

\* An outcome leaves the supervisor's queue, by an acknowledgement or with its
\* receipt, only when the owner was told, a telling was let go by name, or a
\* handler of the daemon is about to tell, whatever is lost, repeated or stopped.
THEOREM QueueEmptiesAfterTelling == Spec => []AckedWasTold
<1>1. Base /\ Duty => AckedWasTold
  <2>. SUFFICES ASSUME Base, Duty,
                       (\E r \in outbox : r.event.kind = "settled" /\ r.delivered)
                         \/ (delivered /\ recorded)
                PROVE  Heard
    BY DEF AckedWasTold, Heard
  <2>1. CASE \E r \in outbox : r.event.kind = "settled" /\ r.delivered
    <3>1. PICK r \in EndRows : r.delivered
      BY <2>1 DEF EndRows
    <3>2. recorded /\ \A q \in EndRows : q = r
      BY <3>1 DEF Base, QueueFits
    <3>3. Waiting = {}
      BY <3>1, <3>2 DEF Waiting
    <3>. QED  BY <3>2, <3>3 DEF Duty, OverHeard
  <2>2. CASE delivered /\ recorded
    <3>1. Waiting = {}
      BY <2>2 DEF Base, QueueFits, Undelivered, Waiting, EndRows
    <3>. QED  BY <2>2, <3>1 DEF Duty, OverHeard
  <2>. QED  BY <2>1, <2>2
<1>. QED  BY <1>1, BaseInvariance, DutyInvariance, PTL

\* A run token is closed only over the end of a job that the owner knows or is
\* about to know of, and that outlives the daemon unless a commit failed
\* (closeRunToken after commitHostedProcessChild, closedJobReportAnswer).
THEOREM ClosedOverAnEnd == Spec => []ClosedIsOver
<1>1. Base /\ Duty => ClosedIsOver
  <2>. SUFFICES ASSUME Base, Duty, token = "closed"
                PROVE  Heard /\ (unsaved \/ (saved.status = "settled" /\ row.status = "settled"))
    BY DEF ClosedIsOver, Heard
  <2>1. hosted
    BY DEF Base, KindFits
  <2>. QED  BY <2>1 DEF Duty, OverHeard, Closing
<1>. QED  BY <1>1, BaseInvariance, DutyInvariance, PTL

(***************************************************************************)
(* The reports implement what the owner is promised.                       *)
(***************************************************************************)
Mislaid == recorded /\ (untold \/ (~hosted /\ receipt # "none"))
Looked == {w \in Callers : call[w].step = "unlogged"}

\* What the owner sees changes in one way at a time: nothing, but for tellers
\* that give up and an outcome that goes out of reach; or an outcome, an end of
\* the supervisor, a look into the log, a telling.
Rests == /\ UNCHANGED <<hosted, recorded, log>> /\ (Alive' <=> Alive)
         /\ Looked' \subseteq Looked /\ ((Mislaid' <=> Mislaid) \/ (Mislaid' <=> recorded))
Records == /\ ~recorded /\ recorded' = TRUE /\ Alive /\ Alive' /\ UNCHANGED <<hosted, log>>
           /\ Looked' = Looked /\ ~Mislaid /\ ~Mislaid'
Stops == /\ Alive /\ ~Alive' /\ UNCHANGED <<hosted, recorded, log>>
         /\ Looked' = Looked /\ (Mislaid' <=> Mislaid)
Looks == /\ UNCHANGED <<hosted, recorded, log>> /\ (Alive' <=> Alive) /\ (Mislaid' <=> Mislaid)
         /\ log = <<>> /\ (hosted => Looked = {})
         /\ \E w \in Callers \ Looked : Looked' = Looked \union {w}
Tells == /\ UNCHANGED <<hosted, recorded>> /\ (Alive' <=> Alive) /\ (Mislaid' <=> Mislaid)
         /\ \E w \in Looked :
               /\ Looked' = Looked \ {w}
               /\ \/ recorded /\ log' = Append(log, "settled")
                  \/ /\ ~Alive /\ log' = Append(log, "lost")
                     /\ ~recorded \/ Mislaid \/ log # <<>>

\* What tells nobody anything changes nothing the owner sees.
LEMMA RestsIs ==
    ASSUME UNCHANGED <<hosted, phase, recorded, log>>, untold => untold',
           receipt # "none" => receipt' # "none",
           \A w \in Callers : call'[w].step = "unlogged" => call[w].step = "unlogged"
    PROVE  Rests
<1>1. (Alive' <=> Alive) /\ Looked' \subseteq Looked
  BY DEF Alive, Looked
<1>2. (Mislaid' <=> Mislaid) \/ (Mislaid' <=> recorded)
  BY DEF Mislaid
<1>. QED  BY <1>1, <1>2 DEF Rests

\* A telling: the handler looks, it tells, or it gives up.
LEMMA TellMoves ==
    ASSUME Base, Duty, NEW w \in Callers, LookAtLog(w) \/ Emit(w)
    PROVE  Rests \/ Looks \/ Tells
<1>1. /\ UNCHANGED <<hosted, phase, recorded, receipt>> /\ (Alive' <=> Alive)
      /\ call[w].exit # "none" /\ call[w].exit \in Outcomes
      /\ \A v \in Callers : v # w => call'[v] = call[v]
  BY TellIs DEF jobVars, Alive
<1>2. CASE /\ call[w].step = "applied" /\ log = <<>>
           /\ call'[w].step = "unlogged" /\ UNCHANGED <<log, untold>>
  <2>1. w \notin Looked /\ Looked' = Looked \union {w}
    BY <1>1, <1>2 DEF Looked
  <2>2. hosted => Looked = {}
    <3>1. SUFFICES ASSUME hosted, NEW v \in Looked  PROVE FALSE
      OBVIOUS
    <3>2. v \in Callers /\ call[v].exit # "none"
      BY DEF Looked, Base, CallsFit, CallFits
    <3>3. v = w
      BY <1>1, <3>1, <3>2 DEF Duty, Holding
    <3>. QED  BY <1>2, <3>3 DEF Looked
  <2>3. Mislaid' <=> Mislaid
    BY <1>1, <1>2 DEF Mislaid
  <2>. QED  BY <1>1, <1>2, <2>1, <2>2, <2>3 DEF Looks
<1>3. CASE /\ call'[w].step = "emitted" /\ call[w].step = "unlogged"
           /\ log' = Append(log, call[w].exit) /\ untold' = untold
  <2>1. w \in Looked /\ Looked' = Looked \ {w}
    BY <1>1, <1>3 DEF Looked
  <2>2. Mislaid' <=> Mislaid
    BY <1>1, <1>3 DEF Mislaid
  <2>3. CASE call[w].exit = "settled"
    <3>1. recorded
      BY <2>3 DEF Base, CallsFit, CallFits
    <3>. QED  BY <1>1, <1>3, <2>1, <2>2, <2>3, <3>1 DEF Tells
  <2>4. CASE call[w].exit = "lost"
    <3>1. ~Alive
      BY <2>4 DEF Base, CallsFit, CallFits
    <3>2. ~recorded \/ Mislaid \/ log # <<>>
      BY <2>4 DEF Duty, Lost, Mislaid
    <3>. QED  BY <1>1, <1>3, <2>1, <2>2, <2>4, <3>1, <3>2 DEF Tells
  <2>. QED  BY <1>1, <2>3, <2>4 DEF Outcomes
<1>4. CASE /\ call'[w].step = "emitted" /\ log' = log /\ (untold' = untold \/ untold')
  BY <1>1, <1>4, RestsIs
<1>. QED  BY <1>2, <1>3, <1>4, TellIs

\* Every step is one of these moves.
LEMMA OutcomeMoves ==
    ASSUME Base, Duty, [Next]_vars
    PROVE  Rests \/ Records \/ Stops \/ Looks \/ Tells
<1>1. CASE SupervisorStep
  <2>1. UNCHANGED <<hosted, log, untold, receipt>> /\ (Alive' => Alive)
    BY <1>1, SupervisorIs DEF daemonVars, keptVars, toldVars
  <2>2. Looked' = Looked
    <3>1. PICK u \in Flushers : \A v \in Callers : v # u => call'[v] = call[v]
             /\ (call'[u] = call[u] \/ (call[u].exit = "none" /\ call'[u].step \in {"idle", "transit"}))
      BY <1>1, SupervisorIs
    <3>2. u \in Callers /\ \A v \in Callers : call[v].exit = "none" => call[v].step # "unlogged"
      BY DEF Callers, Base, CallsFit, CallFits
    <3>3. u # "tick" /\ "tick" \in Callers
      BY DEF Flushers, Callers
    <3>. QED  BY <3>1, <3>2, <3>3 DEF Looked
  <2>3. CASE recorded' = recorded
    BY <2>1, <2>2, <2>3 DEF Rests, Stops, Mislaid
  <2>4. CASE ~(recorded' = recorded)
    <3>1. ~recorded /\ Alive /\ recorded'
      BY <1>1, <2>4, SupervisorIs
    <3>2. Run
      BY <1>1, <2>4 DEF SupervisorStep, Settle, Beat, Die, Supervisor, Receive, Unanswered
    <3>3. Alive' /\ recorded' \in BOOLEAN
      <4>1. recorded \in BOOLEAN
        BY DEF Base, Typed, TypeOK
      <4>. QED  BY <2>4, <3>2, <4>1 DEF Run, Witness, Alive
    <3>4. ~untold /\ receipt = "none"
      BY <3>1 DEF Base, Early
    <3>. QED  BY <2>1, <2>2, <3>1, <3>3, <3>4 DEF Records, Mislaid
  <2>. QED  BY <2>3, <2>4
<1>2. CASE \E w \in Callers : Handler(w)
  <2>1. PICK w \in Callers : Handler(w)
    BY <1>2
  <2>2. CASE Admit(w)
    BY <2>2, AdmitIs, RestsIs DEF jobVars, daemonVars, keptVars, toldVars
  <2>3. CASE w # "tick" /\ Apply(w)
    BY <2>3, ApplyIs, RestsIs DEF jobVars
  <2>4. CASE LookAtLog(w) \/ Emit(w)
    BY <2>4, TellMoves
  <2>5. CASE Commits(w)
    BY <2>5, CommitIs, RestsIs DEF jobVars
  <2>6. CASE Answer(w)
    <3>1. call'[w].step # "unlogged"
      BY <2>6, AnswerIs, IdleIs DEF Steps
    <3>. QED  BY <2>6, <3>1, AnswerIs, RestsIs
  <2>. QED  BY <2>1, <2>2, <2>3, <2>4, <2>5, <2>6 DEF Handler, Commits
<1>3. CASE Look
  BY <1>3, LookIs, RestsIs DEF jobVars, daemonVars, keptVars, toldVars
<1>4. CASE Judge
  <2>1. call'["tick"].step # "unlogged"
    BY <1>4, JudgeIs
  <2>. QED  BY <1>4, <2>1, JudgeIs, RestsIs DEF jobVars
<1>5. CASE OtherChanges
  <2>1. \A v \in Callers : call'[v].step = "unlogged" => call[v].step = "unlogged"
    BY <1>5, Types DEF OtherChanges, Goes, Base, Typed, Carried
  <2>. QED  BY <1>5, <2>1, RestsIs DEF OtherChanges, jobVars, daemonVars, keptVars, toldVars
<1>6. CASE Crash
  BY <1>6, CrashIs, RestsIs
<1>7. CASE UNCHANGED vars
  BY <1>7, RestsIs DEF vars, jobVars, daemonVars, keptVars, toldVars
<1>. QED
  BY <1>1, <1>2, <1>3, <1>4, <1>5, <1>6, <1>7 DEF Next, Tick, SupervisorStep

\* The owner of a job is told the true verdict: what the supervisor recorded, or
\* lost of one that is gone without an outcome, or with one whose telling was let
\* go; twice only by handlers that had looked into the log before the first.
THEOREM OutcomeImplemented == Spec => ImplementsOutcome
<1>1. Init => Outcome!Init
  <2>. SUFFICES ASSUME Init  PROVE Outcome!Init
    OBVIOUS
  <2>1. \A w \in Callers : call[w].step # "unlogged"
    BY IdleIs DEF Init, Steps
  <2>. QED  BY <2>1 DEF Init, Outcome!Init, Alive
<1>2. ASSUME Base, Duty, [Next]_vars
      PROVE  [Outcome!Record \/ Outcome!Stop \/ Outcome!Look \/ Outcome!Tell \/ Outcome!GiveUp]_(Outcome!vars)
  <2>0. recorded \in BOOLEAN /\ untold \in BOOLEAN /\ hosted \in BOOLEAN
        /\ recorded' \in BOOLEAN /\ untold' \in BOOLEAN /\ hosted' \in BOOLEAN
    BY <1>2, NextBase DEF Base, Typed, TypeOK
  <2>1. CASE Rests
    <3>1. Outcome!GiveUp
      BY <2>0, <2>1 DEF Outcome!GiveUp, Rests, Mislaid, Looked, Alive
    <3>. QED  BY <3>1
  <2>2. CASE Records
    BY <2>0, <2>2 DEF Outcome!Record, Records, Mislaid, Looked, Alive
  <2>3. CASE Stops
    BY <2>0, <2>3 DEF Outcome!Stop, Stops, Mislaid, Looked, Alive
  <2>4. CASE Looks
    BY <2>0, <2>4 DEF Outcome!Look, Looks, Mislaid, Looked, Alive
  <2>5. CASE Tells
    BY <2>0, <2>5 DEF Outcome!Tell, Tells, Mislaid, Looked, Alive
  <2>. QED  BY <1>2, <2>1, <2>2, <2>3, <2>4, <2>5, OutcomeMoves
<1>. QED
  BY <1>1, <1>2, BaseInvariance, DutyInvariance, PTL
  DEF Spec, ImplementsOutcome, Outcome!Spec

(***************************************************************************)
(* The third invariant: no event falls between the queue and the cursor.   *)
(*                                                                         *)
(* Until the job has a receipt, and while no commit failed, every event is *)
(* in the saved row or undelivered in the outbox: a report, an answer and  *)
(* the row in memory are each complete up to the highest seq they have.    *)
(* Once a run token is closed the queue owes nothing: what it says is not  *)
(* read any more.                                                          *)
(***************************************************************************)
Still == ~unsaved /\ receipt = "none"

\* With a seq, all before it, from 1.
Unbroken(seen) == 0 \notin seen /\ \A s \in seen : \A k \in 1..s : k \in seen

\* What a row has not seen of a queue up to any event of it is undelivered
\* there, and what it has not seen of a report is in it.
QueueFull(rows, seen) ==
    \A r \in rows : \A k \in 1..r.event.seq :
        k \in seen \/ \E q \in rows : ~q.delivered /\ q.event.seq = k
ReportFull(events, seen) ==
    \A e \in events : \A k \in 1..e.seq : k \in seen \/ \E f \in events : f.seq = k

RowsWhole ==
    saved.seen \subseteq row.seen /\ Unbroken(row.seen) /\ Unbroken(saved.seen)

\* A call whose events the row will get, has, or the saved row has.
Reports(w) == call[w].step = "checked" \/ (call[w].step = "transit" /\ token = "open")
Applying(w) == call[w].step \in {"applied", "unlogged", "emitted", "listed", "receipted"}
Answering(w) == call[w].step \in {"answer", "replied"} /\ token = "open"
CallWhole(w) ==
    /\ Reports(w) => ReportFull(call[w].events, row.seen)
    /\ Applying(w) => 1..call[w].ack \subseteq row.seen
    /\ Answering(w) => 1..call[w].ack \subseteq saved.seen
    /\ call[w].step = "idle" => call[w].ack = 0

\* The rows, the queue, the reports and the answers have no gap.
Gapless ==
    Still =>
        /\ RowsWhole /\ \A w \in Callers : CallWhole(w)
        /\ token = "open" => QueueFull(outbox, saved.seen)

\* A receipt stays, a failed commit is not forgotten, a token stays closed.
LEMMA StillWas ==
    ASSUME Base, [Next]_vars, Still'
    PROVE  Still /\ (token' = "open" => token = "open")
<1>. SUFFICES (unsaved => unsaved') /\ (receipt # "none" => receipt' # "none")
              /\ (token' = "open" => token = "open")
  BY DEF Still
<1>. USE DEF daemonVars, keptVars, toldVars
<1>1. CASE SupervisorStep
  BY <1>1, SupervisorIs
<1>2. CASE \E w \in Callers : Handler(w)
  <2>1. PICK w \in Callers : Handler(w)
    BY <1>2
  <2>2. CASE Admit(w)
    BY <2>2, AdmitIs
  <2>3. CASE w # "tick" /\ Apply(w)
    BY <2>3, ApplyIs
  <2>4. CASE LookAtLog(w) \/ Emit(w)
    BY <2>4, TellIs
  <2>5. CASE Commits(w)
    BY <2>5, CommitIs
  <2>6. CASE Answer(w)
    BY <2>6, AnswerIs
  <2>. QED  BY <2>1, <2>2, <2>3, <2>4, <2>5, <2>6 DEF Handler, Commits
<1>3. CASE Look \/ Judge
  BY <1>3, LookIs, JudgeIs
<1>4. CASE OtherChanges
  BY <1>4 DEF OtherChanges
<1>5. CASE Crash
  BY <1>5, CrashIs
<1>6. CASE UNCHANGED vars
  BY <1>6 DEF vars
<1>. QED  BY <1>1, <1>2, <1>3, <1>4, <1>5, <1>6 DEF Next, Tick, SupervisorStep

\* What a step of the supervisor does to the outbox.
LEMMA OutboxMoves ==
    ASSUME SupervisorStep
    PROVE  \/ outbox' = outbox
           \/ \E kind \in {"created", "started", "heartbeat", "settled"} : outbox' = Appended(kind)
           \/ \E w \in Flushers : call[w].step = "replied" /\ outbox' = Marked(call[w].ack)
BY DEF SupervisorStep, Run, Witness, Settle, Beat, Die, Supervisor, Receive, Unanswered

\* A batch taken from a queue without a gap has none.
LEMMA FullReport ==
    ASSUME NEW rows \in SUBSET Queued, IsFiniteSet(rows), NEW seen, NEW more, seen \subseteq more,
           QueueFull(rows, seen)
    PROVE  ReportFull(Pending(rows), more)
<1>1. SUFFICES ASSUME NEW e \in Pending(rows), NEW k \in 1..e.seq, k \notin more
               PROVE  \E f \in Pending(rows) : f.seq = k
  BY DEF ReportFull
<1>2. PICK r \in rows : ~r.delivered /\ r.event = e
  BY PendingIn
<1>3. PICK q \in rows : ~q.delivered /\ q.event.seq = k
  BY <1>1, <1>2 DEF QueueFull
<1>4. q.event.seq <= e.seq
  BY <1>2, <1>3 DEF Queued, Event
<1>5. q.event \in Pending(rows)
  BY <1>3, <1>4, PendingDown
<1>. QED  BY <1>3, <1>5

\* The events past a cursor without a gap have none.
LEMMA FullPast ==
    ASSUME Base, QueueFull(outbox, saved.seen), RowsWhole
    PROVE  ReportFull(Past(Highest(row.seen)), row.seen)
<1>. DEFINE cursor == Highest(row.seen)
<1>1. PICK n \in Nat : Below(n)
  BY DEF Base, Typed
<1>2. row.seen \in SUBSET Nat /\ outbox \subseteq Queued
  BY DEF Base, Typed, TypeOK, Queued
<1>3. cursor \in Nat /\ (row.seen # {} => cursor \in row.seen)
  BY <1>1, <1>2, HighestIs DEF Below
<1>4. row.seen = {} => cursor = 0
  BY DEF Highest
<1>. HIDE DEF cursor
<1>5. SUFFICES ASSUME NEW e \in Past(cursor), NEW k \in 1..e.seq, k \notin row.seen
               PROVE  \E f \in Past(cursor) : f.seq = k
  BY DEF ReportFull, cursor
<1>6. PICK r \in outbox : r.event = e
  BY DEF Past
<1>7. PICK q \in outbox : q.event.seq = k
  BY <1>5, <1>6 DEF QueueFull, RowsWhole
<1>8. k \in Nat /\ k >= 1
  BY <1>2, <1>6 DEF Queued, Event
<1>9. ~(k <= cursor)
  BY <1>3, <1>4, <1>5, <1>8 DEF RowsWhole, Unbroken
<1>10. q.event \in Past(cursor)
  BY <1>3, <1>7, <1>8, <1>9 DEF Past
<1>. QED  BY <1>7, <1>10

\* A row without a gap to which a report without one is applied has none, and
\* what is acknowledged then was applied.
LEMMA AppliedUnbroken ==
    ASSUME NEW r \in RowSet, NEW events \in SUBSET Event, NEW n \in Nat,
           \A s \in r.seen : s <= n, \A e \in events : e.seq <= n,
           Unbroken(r.seen), ReportFull(events, r.seen)
    PROVE  LET new == Applied(r, events)
           IN /\ r.seen \subseteq new.seen /\ Unbroken(new.seen)
              /\ 1..Highest(new.seen) \subseteq new.seen
<1>. DEFINE cursor == Highest(r.seen)
            new == Applied(r, events)
<1>1. /\ new \in RowSet /\ cursor \in Nat
      /\ \A s \in r.seen : s \in new.seen /\ s <= cursor
      /\ \A s \in new.seen : s \in r.seen \/ \E e \in events : e.seq = s
      /\ \A e \in events : e.seq \in Nat /\ (e.seq > cursor => e.seq \in new.seen)
      /\ r.seen # {} => cursor \in r.seen
      /\ r.seen = {} => cursor = 0
      /\ Highest(new.seen) \in Nat
      /\ Highest(new.seen) \in new.seen \/ Highest(new.seen) = 0
  BY AppliedIs
<1>2. 0 \notin new.seen
  <2>1. new.seen = r.seen \union Seqs({e \in events : e.seq > cursor})
    BY DEF Applied
  <2>. HIDE DEF new, cursor
  <2>2. \A s \in new.seen : s \in r.seen \/ s > cursor
    BY <2>1 DEF Seqs
  <2>. QED  BY <1>1, <2>2 DEF Unbroken
<1>. HIDE DEF new, cursor
<1>3. ASSUME NEW s \in new.seen, NEW k \in 1..s  PROVE k \in new.seen
  <2>1. new.seen \in SUBSET Nat
    BY <1>1 DEF RowSet
  <2>2. CASE s \in r.seen
    BY <1>1, <2>2 DEF Unbroken
  <2>3. ASSUME NEW e \in events, e.seq = s  PROVE k \in new.seen
    <3>1. k \in r.seen \/ \E f \in events : f.seq = k
      BY <2>3 DEF ReportFull
    <3>2. ASSUME NEW f \in events, f.seq = k, k \notin r.seen  PROVE k \in new.seen
      <4>1. ~(k <= cursor)
        BY <1>1, <2>1, <3>2 DEF Unbroken
      <4>. QED  BY <1>1, <2>1, <3>2, <4>1
    <3>. QED  BY <1>1, <3>1, <3>2
  <2>. QED  BY <1>1, <2>2, <2>3
<1>4. Unbroken(new.seen)
  BY <1>2, <1>3 DEF Unbroken
<1>5. 1..Highest(new.seen) \subseteq new.seen
  BY <1>1, <1>3
<1>. QED  BY <1>1, <1>4, <1>5 DEF new

\* A recorded event and a mark leave no gap in the queue.
LEMMA QueueFullNext ==
    ASSUME Base, SupervisorStep, QueueFull(outbox, saved.seen),
           \A w \in Flushers : call[w].step = "replied" => 1..call[w].ack \subseteq saved.seen
    PROVE  QueueFull(outbox', saved.seen)
<1>1. outbox \subseteq Queued /\ Typed
  BY DEF Base, Typed, TypeOK, Queued
<1>2. ASSUME NEW kind \in {"created", "started", "heartbeat", "settled"}, outbox' = Appended(kind)
      PROVE  QueueFull(outbox', saved.seen)
  <2>1. PICK new \in Queued : outbox' = outbox \union {new} /\ ~new.delivered
                              /\ new.event.seq = Top + 1
    BY <1>1, <1>2, AppendedIs
  <2>2. Top \in Nat /\ (outbox # {} => \E r \in outbox : r.event.seq = Top)
    BY <1>1, TopIs
  <2>3. outbox = {} => Top = 0
    BY DEF Top, Highest
  <2>4. ASSUME NEW k \in 1..(Top + 1)
        PROVE  k \in saved.seen \/ \E q \in outbox' : ~q.delivered /\ q.event.seq = k
    <3>1. CASE k = Top + 1
      BY <2>1, <3>1
    <3>2. CASE k # Top + 1
      <4>1. k \in 1..Top /\ Top # 0
        BY <2>2, <3>2
      <4>2. PICK r \in outbox : r.event.seq = Top
        BY <2>2, <2>3, <4>1
      <4>. QED  BY <2>1, <4>1, <4>2 DEF QueueFull
    <3>. QED  BY <3>1, <3>2
  <2>5. ASSUME NEW r \in outbox'
        PROVE  \A k \in 1..r.event.seq :
                  k \in saved.seen \/ \E q \in outbox' : ~q.delivered /\ q.event.seq = k
    <3>1. CASE r \in outbox
      BY <2>1, <3>1 DEF QueueFull
    <3>2. CASE r = new
      BY <2>1, <2>4, <3>2
    <3>. QED  BY <2>1, <3>1, <3>2
  <2>. QED  BY <2>5 DEF QueueFull
<1>3. ASSUME NEW w \in Flushers, outbox' = Marked(call[w].ack), call[w].step = "replied"
      PROVE  QueueFull(outbox', saved.seen)
  <2>. DEFINE m == call[w].ack
  <2>1. 1..m \subseteq saved.seen /\ m \in Nat
    BY <1>3, Types DEF Callers, Base, Typed, Carried
  <2>. HIDE DEF m
  <2>2. ASSUME NEW p \in Marked(m), NEW k \in 1..p.event.seq, k \notin saved.seen
        PROVE  \E q \in Marked(m) : ~q.delivered /\ q.event.seq = k
    <3>1. PICK r \in outbox : p.event = r.event
      BY <1>1, MarkedWas
    <3>2. PICK q \in outbox : ~q.delivered /\ q.event.seq = k
      BY <2>2, <3>1 DEF QueueFull
    <3>3. r.event.seq \in Nat
      BY <1>1 DEF Queued, Event
    <3>4. ~(q.event.seq <= m)
      BY <2>1, <2>2, <3>1, <3>2, <3>3
    <3>. QED  BY <1>1, <3>2, <3>4, MarkedIs
  <2>3. outbox' = Marked(m)
    BY <1>3 DEF m
  <2>. QED  BY <2>2, <2>3 DEF QueueFull
<1>. QED  BY <1>2, <1>3, OutboxMoves

\* Numbers without a gap are all those up to the highest.
LEMMA UnbrokenIs ==
    ASSUME NEW seen \in SUBSET Nat, NEW n \in Nat, \A s \in seen : s <= n, Unbroken(seen)
    PROVE  seen = 1..Highest(seen)
<1>1. /\ Highest(seen) \in Nat /\ \A s \in seen : s <= Highest(seen)
      /\ seen # {} => Highest(seen) \in seen
  BY HighestIs
<1>2. seen = {} => Highest(seen) = 0
  BY DEF Highest
<1>3. ASSUME NEW s \in seen  PROVE s \in 1..Highest(seen)
  BY <1>1, <1>3 DEF Unbroken
<1>4. ASSUME NEW s \in 1..Highest(seen)  PROVE s \in seen
  BY <1>1, <1>2, <1>4 DEF Unbroken
<1>. QED  BY <1>3, <1>4

\* A call that is as it was stays whole while the rows grow.
LEMMA CallStays ==
    ASSUME NEW w \in Callers, CallWhole(w), call'[w] = call[w],
           row.seen \subseteq row'.seen, saved.seen \subseteq saved'.seen,
           token' = "open" => token = "open"
    PROVE  CallWhole(w)'
<1>1. (Reports(w)' => Reports(w)) /\ (Applying(w)' => Applying(w)) /\ (Answering(w)' => Answering(w))
  BY DEF Reports, Applying, Answering
<1>. QED  BY <1>1 DEF CallWhole, ReportFull

\* Rows that grow without a gap, and one call that moves.
LEMMA WholeMakes ==
    ASSUME Base, Base', RowsWhole, \A v \in Callers : CallWhole(v),
           row.seen \subseteq row'.seen, saved.seen \subseteq saved'.seen,
           saved'.seen \subseteq row'.seen, Unbroken(row'.seen), Unbroken(saved'.seen),
           token' = "open" => token = "open" /\ QueueFull(outbox', saved.seen),
           NEW w \in Callers, \A v \in Callers : v # w => call'[v] = call[v], CallWhole(w)'
    PROVE  Gapless'
<1>1. ASSUME NEW v \in Callers  PROVE CallWhole(v)'
  <2>1. CASE v # w
    BY <2>1, CallStays
  <2>. QED  BY <2>1
<1>2. token' = "open" => QueueFull(outbox', saved'.seen)
  BY DEF QueueFull
<1>3. RowsWhole'
  BY DEF RowsWhole
<1>. QED  BY <1>1, <1>2, <1>3 DEF Gapless

\* A step of the supervisor opens no gap.
LEMMA SupervisorWhole ==
    ASSUME Base, Gapless, Still, SupervisorStep  PROVE Gapless'
<1>0. /\ Base' /\ outbox' \subseteq Queued /\ IsFiniteSet(outbox')
      /\ UNCHANGED <<row, saved, token>>
  BY RunBase, ReceiveBase, SupervisorIs DEF SupervisorStep, daemonVars, keptVars
<1>1. /\ RowsWhole /\ \A v \in Callers : CallWhole(v)
      /\ token = "open" => QueueFull(outbox, saved.seen)
  BY DEF Gapless
<1>2. token = "open" => QueueFull(outbox', saved.seen)
  <2>1. SUFFICES ASSUME token = "open"  PROVE QueueFull(outbox', saved.seen)
    OBVIOUS
  <2>2. \A w \in Flushers : call[w].step = "replied" => 1..call[w].ack \subseteq saved.seen
    BY <1>1, <2>1 DEF CallWhole, Answering, Callers
  <2>. QED  BY <1>1, <2>1, <2>2, QueueFullNext
<1>3. PICK w \in Flushers :
        /\ \A v \in Callers : v # w => call'[v] = call[v]
        /\ \/ call'[w] = call[w]
           \/ /\ call'[w].step \in {"idle", "transit"} /\ call'[w].ack = 0
              /\ call'[w].events = {} \/ call'[w].events = Pending(outbox')
  BY <1>0, SupervisorIs
<1>4. w \in Callers
  BY DEF Callers
<1>5. CallWhole(w)'
  <2>1. CASE call'[w] = call[w]
    BY <1>0, <1>1, <1>4, <2>1, CallStays
  <2>2. CASE /\ call'[w].step \in {"idle", "transit"} /\ call'[w].ack = 0
             /\ call'[w].events = {} \/ call'[w].events = Pending(outbox')
    <3>1. Reports(w)' => ReportFull(call'[w].events, row'.seen)
      <4>1. SUFFICES ASSUME token = "open"  PROVE ReportFull(call'[w].events, row'.seen)
        BY <1>0, <2>2 DEF Reports
      <4>2. CASE call'[w].events = {}
        BY <4>2 DEF ReportFull
      <4>3. CASE call'[w].events = Pending(outbox')
        <5>1. ReportFull(Pending(outbox'), row.seen)
          BY <1>0, <1>1, <1>2, <4>1, FullReport DEF RowsWhole
        <5>. QED  BY <1>0, <4>3, <5>1
      <4>. QED  BY <2>2, <4>2, <4>3
    <3>2. ~Applying(w)' /\ ~Answering(w)'
      BY <2>2 DEF Applying, Answering
    <3>. QED  BY <2>2, <3>1, <3>2 DEF CallWhole
  <2>. QED  BY <1>3, <2>1, <2>2
<1>. QED  BY <1>0, <1>1, <1>2, <1>3, <1>4, <1>5, WholeMakes DEF RowsWhole

\* Nor does a step of a handler.
LEMMA HandlerWhole ==
    ASSUME Base, Duty, Gapless, Still, Still', NEW w \in Callers, Handler(w)  PROVE Gapless'
<1>. USE DEF jobVars, daemonVars, keptVars, toldVars
<1>1. /\ RowsWhole /\ \A v \in Callers : CallWhole(v)
      /\ token = "open" => QueueFull(outbox, saved.seen)
      /\ receipt = "none" /\ receipt' = "none" /\ ~unsaved'
  BY DEF Gapless, Still
<1>2. CASE Admit(w)
  <2>1. Base' /\ UNCHANGED <<row, saved, token, outbox>>
        /\ \A v \in Callers : v # w => call'[v] = call[v]
    BY <1>2, AdmitBase, AdmitIs
  <2>2. CallWhole(w)'
    <3>1. CASE call'[w].step = "checked" /\ token = "open"
      <4>1. call[w].step = "transit" /\ call'[w].events = call[w].events
        BY <1>2, AdmitIs
      <4>2. ReportFull(call[w].events, row.seen)
        BY <1>1, <3>1, <4>1 DEF CallWhole, Reports
      <4>. QED  BY <2>1, <3>1, <4>1, <4>2 DEF CallWhole, Reports, Applying, Answering
    <3>2. CASE call'[w].step = "replied" /\ token = "closed"
      BY <2>1, <3>2 DEF CallWhole, Reports, Applying, Answering
    <3>. QED  BY <1>1, <1>2, <3>1, <3>2, AdmitIs
  <2>. QED  BY <1>1, <2>1, <2>2, WholeMakes DEF RowsWhole
<1>3. CASE w # "tick" /\ Apply(w)
  <2>1. /\ Base' /\ UNCHANGED <<saved, token, outbox>>
        /\ \A v \in Callers : v # w => call'[v] = call[v]
        /\ call[w].step = "checked" /\ row' = Applied(Found, call[w].events)
        /\ call'[w].ack = Highest(row'.seen) /\ call'[w].step \in {"applied", "emitted"}
    BY <1>3, ApplyBase, ApplyIs
  <2>2. PICK n \in Nat : Below(n)
    BY DEF Base, Typed
  <2>3. /\ Found \in RowSet /\ Found.seen = row.seen /\ call[w].events \in SUBSET Event
        /\ (\A s \in Found.seen : s <= n) /\ \A e \in call[w].events : e.seq <= n
    BY <2>2, FoundIs, Types DEF Below, Base, Typed, Carried
  <2>4. ReportFull(call[w].events, Found.seen) /\ Unbroken(Found.seen)
    BY <1>1, <2>1, <2>3 DEF CallWhole, Reports, RowsWhole
  <2>5. /\ row.seen \subseteq row'.seen /\ Unbroken(row'.seen)
        /\ 1..Highest(row'.seen) \subseteq row'.seen
    BY <2>1, <2>3, <2>4, AppliedUnbroken
  <2>6. CallWhole(w)'
    BY <2>1, <2>5 DEF CallWhole, Reports, Applying, Answering
  <2>. QED  BY <1>1, <2>1, <2>5, <2>6, WholeMakes DEF RowsWhole
<1>4. CASE LookAtLog(w) \/ Emit(w)
  <2>1. /\ Base' /\ UNCHANGED <<row, saved, token, outbox>>
        /\ \A v \in Callers : v # w => call'[v] = call[v]
        /\ call[w].step \in {"applied", "unlogged"} /\ call'[w].step \in {"unlogged", "emitted"}
        /\ call'[w].ack = call[w].ack
    BY <1>4, TellBase, TellIs
  <2>2. CallWhole(w)'
    BY <1>1, <2>1 DEF CallWhole, Reports, Applying, Answering
  <2>. QED  BY <1>1, <2>1, <2>2, WholeMakes DEF RowsWhole
<1>5. CASE Commits(w)
  <2>1. /\ Base' /\ UNCHANGED <<row, token, outbox>>
        /\ \A v \in Callers : v # w => call'[v] = call[v]
        /\ call[w].step \in {"emitted", "listed", "receipted"}
    BY <1>1, <1>5, CommitBase, CommitIs
  <2>2. saved' = saved \/ saved'.seen = row.seen
    BY <1>5, CommitIs, LoadedIs
  <2>3. 1..call[w].ack \subseteq row.seen
    BY <1>1, <2>1 DEF CallWhole, Applying
  <2>4. CallWhole(w)'
    <3>1. CASE call'[w].step \in {"listed", "receipted"}
      <4>0. call'[w].step \notin {"answer", "replied", "idle"}
        BY <3>1
      <4>1. call'[w].ack = call[w].ack
        BY <1>5, <4>0, CommitIs
      <4>. QED  BY <2>1, <2>3, <3>1, <4>1 DEF CallWhole, Reports, Applying, Answering
    <3>2. CASE call'[w].step \in {"answer", "replied"}
      <4>1. call'[w].ack = call[w].ack /\ saved'.seen = row.seen
        BY <1>1, <1>5, <3>2, CommitIs, LoadedIs
      <4>. QED  BY <2>1, <2>3, <3>2, <4>1 DEF CallWhole, Reports, Applying, Answering
    <3>3. CASE call'[w].step = "idle"
      <4>0. call'[w].step \notin {"answer", "replied", "listed", "receipted"}
        BY <3>3
      <4>1. call'[w] = Call("idle")
        BY <1>5, <3>3, <4>0, CommitIs
      <4>2. call'[w].ack = 0
        BY <4>1 DEF Call
      <4>. QED  BY <3>3, <4>2 DEF CallWhole, Reports, Applying, Answering
    <3>. QED  BY <1>5, <3>1, <3>2, <3>3, CommitIs
  <2>5. saved.seen \subseteq saved'.seen /\ saved'.seen \subseteq row'.seen /\ Unbroken(saved'.seen)
    BY <1>1, <2>1, <2>2 DEF RowsWhole
  <2>. QED  BY <1>1, <2>1, <2>4, <2>5, WholeMakes DEF RowsWhole
<1>6. CASE Answer(w)
  <2>1. /\ Base' /\ UNCHANGED saved /\ row'.seen = row.seen /\ outbox' = Undelivered(outbox)
        /\ \A v \in Callers : v # w => call'[v] = call[v]
        /\ call[w].step = "answer" /\ (token' = "open" => token = "open")
    BY <1>6, AnswerBase, AnswerIs
  <2>2. CallWhole(w)'
    <3>1. CASE w \in Flushers
      <4>1. call'[w].step = "replied" /\ call'[w].ack = call[w].ack
        BY <1>6, <3>1, AnswerIs
      <4>2. Answering(w)' => Answering(w)
        BY <2>1, <4>1 DEF Answering
      <4>. QED  BY <1>1, <2>1, <4>1, <4>2 DEF CallWhole, Reports, Applying
    <3>2. CASE w \notin Flushers
      <4>1. call'[w].step = "idle" /\ call'[w].ack = 0
        BY <1>6, <3>2, AnswerIs, IdleIs DEF Steps
      <4>. QED  BY <4>1 DEF CallWhole, Reports, Applying, Answering
    <3>. QED  BY <3>1, <3>2
  <2>3. token' = "open" => QueueFull(outbox', saved.seen)
    <3>1. \A r \in outbox : r \in outbox' <=> ~r.delivered
      BY <2>1 DEF Undelivered
    <3>2. outbox' \subseteq outbox
      BY <2>1 DEF Undelivered
    <3>. QED  BY <1>1, <2>1, <3>1, <3>2 DEF QueueFull
  <2>. QED  BY <1>1, <2>1, <2>2, <2>3, WholeMakes DEF RowsWhole
<1>. QED  BY <1>2, <1>3, <1>4, <1>5, <1>6 DEF Handler, Commits

\* Nor does the reconcile loop: over a closed token no queue is read.
LEMMA TickWhole ==
    ASSUME Base, Duty, Gapless, Still, Tick  PROVE Gapless'
<1>1. /\ RowsWhole /\ "tick" \in Callers /\ \A v \in Callers : CallWhole(v)
      /\ token = "open" => QueueFull(outbox, saved.seen)
      /\ ~unsaved
  BY DEF Gapless, Still, Callers
<1>2. CASE Look
  <2>1. /\ Base' /\ UNCHANGED <<row, saved, token, outbox>>
        /\ \A v \in Callers : v # "tick" => call'[v] = call[v]
        /\ call'["tick"].step = "checked"
        /\ \/ row.status = "running" /\ call'["tick"].events = Past(Highest(row.seen))
           \/ call'["tick"].events = {}
    BY <1>2, LookBase, LookIs DEF jobVars, daemonVars, keptVars
  <2>2. ReportFull(call'["tick"].events, row.seen)
    <3>1. CASE row.status = "running" /\ call'["tick"].events = Past(Highest(row.seen))
      <4>1. token = "open"
        <5>1. SUFFICES ASSUME token = "closed"  PROVE FALSE
          BY DEF Base, Typed, TypeOK
        <5>2. hosted
          BY <5>1 DEF Base, KindFits
        <5>. QED  BY <1>1, <3>1, <5>1, <5>2 DEF Duty, Closing
      <4>. QED  BY <1>1, <3>1, <4>1, FullPast
    <3>2. CASE call'["tick"].events = {}
      BY <3>2 DEF ReportFull
    <3>. QED  BY <2>1, <3>1, <3>2
  <2>3. CallWhole("tick")'
    BY <2>1, <2>2 DEF CallWhole, Reports, Applying, Answering
  <2>. QED  BY <1>1, <2>1, <2>3, WholeMakes DEF RowsWhole
<1>3. CASE Judge
  <2>1. /\ Base' /\ UNCHANGED <<saved, token, outbox>>
        /\ \A v \in Callers : v # "tick" => call'[v] = call[v]
        /\ call["tick"].step = "checked"
        /\ call'["tick"].ack = 0 /\ call'["tick"].step \in {"idle", "applied", "answer"}
        /\ row'.seen = Applied(row, call["tick"].events).seen \/ row' = row
    BY <1>3, JudgeBase, JudgeIs DEF jobVars
  <2>2. PICK n \in Nat : Below(n)
    BY DEF Base, Typed
  <2>3. /\ row \in RowSet /\ call["tick"].events \in SUBSET Event
        /\ (\A s \in row.seen : s <= n) /\ \A e \in call["tick"].events : e.seq <= n
    <3>1. row \in RowSet /\ call \in [Callers -> Carried]
      BY Types DEF Base, Typed
    <3>. QED  BY <1>1, <2>2, <3>1 DEF Below, Carried
  <2>4. ReportFull(call["tick"].events, row.seen) /\ Unbroken(row.seen)
    BY <1>1, <2>1 DEF CallWhole, Reports, RowsWhole
  <2>5. /\ row.seen \subseteq Applied(row, call["tick"].events).seen
        /\ Unbroken(Applied(row, call["tick"].events).seen)
    BY <2>3, <2>4, AppliedUnbroken
  <2>6. row.seen \subseteq row'.seen /\ Unbroken(row'.seen)
    BY <2>1, <2>4, <2>5
  <2>7. CallWhole("tick")'
    BY <2>1 DEF CallWhole, Reports, Applying, Answering
  <2>. QED  BY <1>1, <2>1, <2>6, <2>7, WholeMakes DEF RowsWhole
<1>. QED  BY <1>2, <1>3 DEF Tick

\* Nor does any step.
LEMMA GaplessNext ==
    ASSUME Base, Duty, Gapless, [Next]_vars  PROVE Gapless'
<1>1. SUFFICES ASSUME Still'  PROVE Gapless'
  BY DEF Gapless
<1>2. Still
  BY <1>1, StillWas
<1>3. /\ RowsWhole /\ \A v \in Callers : CallWhole(v)
      /\ token = "open" => QueueFull(outbox, saved.seen)
  BY <1>2 DEF Gapless
<1>4. CASE SupervisorStep
  BY <1>2, <1>4, SupervisorWhole
<1>5. CASE \E w \in Callers : Handler(w)
  BY <1>1, <1>2, <1>5, HandlerWhole
<1>6. CASE Tick
  BY <1>2, <1>6, TickWhole
<1>7. CASE OtherChanges
  <2>1. /\ Base' /\ UNCHANGED <<row, saved, token, outbox>> /\ "other" \in Callers
        /\ call["other"].step = "idle" /\ call' = [call EXCEPT !["other"].step = "emitted"]
    BY <1>7, OtherBase DEF OtherChanges, Goes, jobVars, daemonVars, keptVars, Callers
  <2>2. /\ \A v \in Callers : v # "other" => call'[v] = call[v]
        /\ call'["other"].step = "emitted" /\ call'["other"].ack = call["other"].ack
    BY <2>1, Types DEF Base, Typed, Carried
  <2>3. call'["other"].ack = 0
    BY <1>3, <2>1, <2>2 DEF CallWhole
  <2>4. CallWhole("other")'
    BY <2>2, <2>3 DEF CallWhole, Reports, Applying, Answering
  <2>. QED  BY <1>3, <2>1, <2>2, <2>4, WholeMakes DEF RowsWhole
<1>8. CASE Crash
  <2>1. /\ row' = saved /\ UNCHANGED <<saved, token, outbox>>
        /\ \A v \in Callers : call'[v].step = "idle" /\ call'[v].ack = 0
    BY <1>8, CrashIs
  <2>2. \A v \in Callers : CallWhole(v)'
    BY <2>1 DEF CallWhole, Reports, Applying, Answering
  <2>. QED  BY <1>3, <2>1, <2>2 DEF Gapless, RowsWhole
<1>9. CASE UNCHANGED vars
  <2>1. UNCHANGED <<row, saved, token, outbox, call>>
    BY <1>9 DEF vars, jobVars, daemonVars, keptVars
  <2>2. \A v \in Callers : CallWhole(v)'
    BY <1>3, <2>1, CallStays
  <2>. QED  BY <1>3, <2>1, <2>2 DEF Gapless, RowsWhole
<1>. QED
  BY <1>4, <1>5, <1>6, <1>7, <1>8, <1>9 DEF Next, SupervisorStep

\* There is no gap at the start.
LEMMA GaplessInit == Init => Gapless
<1>. SUFFICES ASSUME Init  PROVE Gapless
  OBVIOUS
<1>1. /\ outbox = {} /\ row = NoRow /\ saved = NoRow
      /\ \A w \in Callers : /\ call[w].step \in {"idle", "checked"}
                            /\ call[w].events = {} /\ call[w].ack = 0
  BY DEF Init, Call
<1>. QED  BY <1>1 DEF Gapless, RowsWhole, QueueFull, CallWhole, ReportFull, Unbroken, NoRow,
          Reports, Applying, Answering

\* There is never a gap.
LEMMA GaplessInvariance == Spec => []Gapless
<1>1. Base /\ Duty /\ Gapless /\ [Next]_vars => Gapless'
  BY GaplessNext
<1>. QED  BY <1>1, GaplessInit, BaseInvariance, DutyInvariance, PTL DEF Spec

\* The daemon's cursor never passes an event it has not applied: the events of
\* a row are all those up to the highest, whatever reports overlap, are lost or
\* come twice, wherever the daemon or the supervisor stops; until the job has a
\* receipt, and unless a commit failed (applyReportedEventsLocked,
\* journal.Append and Pending, closedJobReportAnswer).
THEOREM CursorHasNoGap == Spec => []NothingSkipped
<1>1. Base /\ Gapless => NothingSkipped
  <2>1. SUFFICES ASSUME Base, Gapless, row # NoRow, ~unsaved, receipt = "none"
                 PROVE  row.seen = 1..Highest(row.seen)
    BY DEF NothingSkipped
  <2>2. Unbroken(row.seen)
    BY <2>1 DEF Gapless, Still, RowsWhole
  <2>3. PICK n \in Nat : Below(n)
    BY <2>1 DEF Base, Typed
  <2>4. row.seen \in SUBSET Nat /\ \A s \in row.seen : s <= n
    BY <2>1, <2>3, Types DEF Base, Typed, RowSet, Below
  <2>. QED  BY <2>2, <2>4, UnbrokenIs
<1>. QED  BY <1>1, BaseInvariance, GaplessInvariance, PTL
=============================================================================
