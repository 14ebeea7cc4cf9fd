--------------------------- MODULE ChatLaneProofs ---------------------------
(***************************************************************************)
(* What a committed chat says about its lanes and its outbox: the phase of *)
(* a lane tells whether it has a thread, a foreground has one start, an    *)
(* opening lane one current resume, and creates follow each other.  Every  *)
(* command keeps this, and passes on what the process around the chat      *)
(* relies on.                                                              *)
(***************************************************************************)
EXTENDS ChatOwnerProofs

(***************************************************************************)
(* The shape of a committed chat.                                          *)
(***************************************************************************)
Established == {"detached", "resuming", "ready", "running"}

\* An effect that is over opens no lane any more.
Over(e) == e.status \in {"completed", "failed", "ambiguous"}

\* Phases and threads agree, and the lane of the foreground can run it.
PhasesFit(c) == \A l \in Lanes :
    /\ (c.phase[l] \in Established) <=> (c.thread[l] # 0)
    /\ c.cand[l] # 0 => l \in Deferred /\ c.phase[l] \in {"absent", "creating"}
ForegroundFits(c) ==
    /\ c.fg # NoOp => \/ c.phase[FgLane(c)] = "running"
                      \/ c.phase[FgLane(c)] = "creating" /\ c.cand[FgLane(c)] # 0
                      \/ c.phase[FgLane(c)] = "resuming" /\ ~c.running
    /\ c.running => c.fg # NoOp
    /\ c.stopping => c.running
    /\ c.consumed => c.running /\ c.cand[FgLane(c)] = 0

\* The foreground has a start; each operation that ever began has one, on its
\* lane, and does not wait.
StartsOnce(c) ==
    /\ c.fg # NoOp => Starts(c, c.fg) # {}
    /\ \A i \in DOMAIN c.outbox : c.outbox[i].kind = "start" =>
         /\ c.lane[c.outbox[i].op] = c.outbox[i].lane
         /\ c.outbox[i].op \notin QueuedOps(c)
         /\ \A j \in DOMAIN c.outbox :
              c.outbox[j].kind = "start" /\ c.outbox[j].op = c.outbox[i].op => j = i

\* A pending resume is the one that the resuming lane waits for.
ResumesCurrent(c) == \A i \in DOMAIN c.outbox :
    c.outbox[i].kind = "resume" /\ c.outbox[i].status = "pending" =>
        /\ c.phase[c.outbox[i].lane] = "resuming"
        /\ c.outbox[i].gen = c.gen[c.outbox[i].lane]

\* The creates of a lane stand in the outbox in the order of their generations.
CreatesOrdered(c) == \A i \in DOMAIN c.outbox : c.outbox[i].kind = "create" =>
    /\ c.outbox[i].gen <= c.cgen[c.outbox[i].lane]
    /\ \A j \in DOMAIN c.outbox :
         i < j /\ c.outbox[j].kind = "create" /\ c.outbox[j].lane = c.outbox[i].lane
         => c.outbox[i].gen < c.outbox[j].gen

\* A candidate lane whose foreground waits is verified again by the last
\* create only; once the foreground runs no create of its lane is pending.
Waits(c) == c.fg # NoOp /\ ~c.running /\ c.cand[FgLane(c)] # 0
AfterStart(c, i) ==
    /\ c.outbox[i].kind = "create" /\ c.outbox[i].lane = FgLane(c) /\ ~Over(c.outbox[i])
    /\ \E j \in Starts(c, c.fg) : j < i
LastCreate(c) == Waits(c) =>
    \A i \in DOMAIN c.outbox : AfterStart(c, i) => c.outbox[i].gen = c.cgen[FgLane(c)]
PendingCreate(c, l, i) ==
    c.outbox[i].kind = "create" /\ c.outbox[i].lane = l /\ c.outbox[i].status = "pending"
NoCreateRuns(c) == c.running /\ c.cand[FgLane(c)] # 0 =>
    \A i \in DOMAIN c.outbox : ~PendingCreate(c, FgLane(c), i)

Shaped(c) == /\ PhasesFit(c) /\ ForegroundFits(c) /\ StartsOnce(c) /\ ResumesCurrent(c)
             /\ CreatesOrdered(c) /\ LastCreate(c) /\ NoCreateRuns(c)

(***************************************************************************)
(* Outboxes.                                                               *)
(***************************************************************************)
Opening(e) == e.kind \in {"create", "resume"}

\* d begins with the effects of b, whatever became of them.
Extends(b, d) ==
    /\ DOMAIN b \subseteq DOMAIN d
    /\ \A i \in DOMAIN b : SameEffect(b[i], d[i])
    /\ \A j \in DOMAIN d \ DOMAIN b : \A i \in DOMAIN b : i < j

\* No opening effect comes back: what is over stays over, what was taken is
\* not pending again, and only a Stop is new.
Fades(b, d) ==
    /\ Extends(b, d)
    /\ \A i \in DOMAIN b : Opening(b[i]) => /\ Over(b[i]) => Over(d[i])
                                            /\ d[i].status = "pending" => b[i].status = "pending"
    /\ \A j \in DOMAIN d \ DOMAIN b : d[j].kind = "stop"

\* A start that was taken is not pending again.
Taken(b, d) == \A i \in DOMAIN b :
    b[i].kind = "start" /\ d[i].status = "pending" => b[i].status = "pending"

\* The outbox of a chat is a sequence of entries.
LEMMA OutboxEntries ==
    ASSUME NEW c \in Placed
    PROVE  /\ c.outbox \in Seq(Entry) /\ DOMAIN c.outbox = 1 .. Len(c.outbox)
           /\ Len(c.outbox) \in Nat /\ DOMAIN c.outbox \subseteq Nat
           /\ \A i \in DOMAIN c.outbox : c.outbox[i] \in Entry
<1>1. c.outbox \in Seq(Entry)
  BY DEF Placed, Chat
<1>. HIDE DEF Entry
<1>. QED  BY <1>1

\* A box fades into itself, and fading composes.
LEMMA FadesTransitive ==
    ASSUME NEW b, NEW d, NEW e
    PROVE  /\ Fades(b, b) /\ Taken(b, b) /\ Extends(b, b)
           /\ Fades(b, d) /\ Fades(d, e) /\ DOMAIN b = DOMAIN d => Fades(b, e)
           /\ Extends(b, d) /\ Taken(b, d) /\ Taken(d, e) => Taken(b, e)
<1>1. Fades(b, b) /\ Taken(b, b) /\ Extends(b, b)
  BY DEF Fades, Taken, Extends, SameEffect
<1>2. ASSUME Fades(b, d), Fades(d, e), DOMAIN b = DOMAIN d
      PROVE  Fades(b, e)
  <2>1. Extends(b, e)
    BY <1>2 DEF Fades, Extends, SameEffect
  <2>2. \A i \in DOMAIN b : Opening(d[i]) <=> Opening(b[i])
    BY <1>2 DEF Fades, Extends, SameEffect, Opening
  <2>. QED  BY <1>2, <2>1, <2>2 DEF Fades
<1>3. ASSUME Extends(b, d), Taken(b, d), Taken(d, e)
      PROVE  Taken(b, e)
  BY <1>3 DEF Taken, Extends, SameEffect
<1>. QED  BY <1>1, <1>2, <1>3

\* Two changes in place after each other.
LEMMA FadesComposes ==
    ASSUME NEW b, NEW d, NEW e, Fades(b, d), Taken(b, d), Fades(d, e), Taken(d, e),
           DOMAIN d = DOMAIN b
    PROVE  Fades(b, e) /\ Taken(b, e)
<1>1. Fades(b, e)
  BY FadesTransitive
<1>2. Extends(b, d)
  BY DEF Fades
<1>. QED  BY <1>1, <1>2, FadesTransitive

\* What marking does.
LEMMA MarkFacts ==
    ASSUME NEW b \in Seq(Entry), NEW ids, NEW status
    PROVE  /\ DOMAIN Mark(b, ids, status) = DOMAIN b
           /\ \A i \in DOMAIN b : /\ SameEffect(b[i], Mark(b, ids, status)[i])
                                  /\ i \in ids => Mark(b, ids, status)[i].status = status
                                  /\ i \notin ids => Mark(b, ids, status)[i] = b[i]
<1>. DEFINE d == Mark(b, ids, status)
<1>1. DOMAIN d = DOMAIN b
  BY DEF Mark
<1>2. ASSUME NEW i \in DOMAIN b
      PROVE  /\ SameEffect(b[i], d[i])
             /\ i \in ids => d[i].status = status
             /\ i \notin ids => d[i] = b[i]
  <2>1. b[i] \in Entry
    OBVIOUS
  <2>2. d[i] = IF i \in ids THEN [b[i] EXCEPT !.status = status] ELSE b[i]
    BY DEF Mark
  <2>. HIDE DEF d
  <2>. QED  BY <2>1, <2>2 DEF Entry, SameEffect
<1>. QED  BY <1>1, <1>2

\* Marks that end effects, marks of starts and Stops, and claims.
LEMMA MarkFades ==
    ASSUME NEW b \in Seq(Entry), NEW ids, NEW status,
           \A i \in DOMAIN b : i \in ids /\ Opening(b[i]) =>
               \/ status \in {"completed", "failed", "ambiguous"}
               \/ status # "pending" /\ ~Over(b[i])
    PROVE  Fades(b, Mark(b, ids, status)) /\ (status # "pending" => Taken(b, Mark(b, ids, status)))
<1>. DEFINE d == Mark(b, ids, status)
<1>1. /\ DOMAIN d = DOMAIN b
      /\ \A i \in DOMAIN b : /\ SameEffect(b[i], d[i])
                             /\ i \in ids => d[i].status = status
                             /\ i \notin ids => d[i] = b[i]
  BY MarkFacts
<1>. HIDE DEF d
<1>2. Extends(b, d)
  BY <1>1 DEF Extends
<1>3. Fades(b, d) /\ (status # "pending" => Taken(b, d))
  BY <1>1, <1>2 DEF Fades, Over, Opening, Taken
<1>. QED  BY <1>3 DEF d

\* The effect is in the box already, or d has it behind everything else.
Recorded(b, d, e) ==
    \/ d = b /\ \E i \in DOMAIN b : SameEffect(b[i], e)
    \/ /\ DOMAIN d = DOMAIN b \union {Len(b) + 1}
       /\ Len(b) + 1 \notin DOMAIN b /\ \A i \in DOMAIN b : i < Len(b) + 1
       /\ d[Len(b) + 1] = e /\ \A i \in DOMAIN b : d[i] = b[i]

\* Recording repeats nothing.
LEMMA RecordFacts ==
    ASSUME NEW b \in Seq(Entry), NEW e \in Entry
    PROVE  Recorded(b, Record(b, e), e)
<1>. HIDE DEF Entry, SameEffect
<1>1. CASE \E i \in DOMAIN b : SameEffect(b[i], e)
  <2>1. Record(b, e) = b
    BY <1>1 DEF Record
  <2>. QED  BY <1>1, <2>1 DEF Recorded
<1>2. CASE ~\E i \in DOMAIN b : SameEffect(b[i], e)
  <2>1. Record(b, e) = Append(b, e)
    BY <1>2 DEF Record
  <2>. DEFINE d == Append(b, e)
  <2>2. /\ Len(b) \in Nat /\ DOMAIN b = 1 .. Len(b) /\ DOMAIN d = 1 .. (Len(b) + 1)
        /\ d[Len(b) + 1] = e /\ \A i \in 1 .. Len(b) : d[i] = b[i]
    OBVIOUS
  <2>. HIDE DEF d
  <2>3. Recorded(b, d, e)
    BY <2>2 DEF Recorded
  <2>. QED  BY <2>1, <2>3 DEF d
<1>. QED  BY <1>1, <1>2

(***************************************************************************)
(* What a command does to lanes and turn before it drives the queue, and   *)
(* what it does altogether.                                                *)
(***************************************************************************)
\* A lane whose phase moves comes to rest, or opens without an effect.
Rests(d, l) ==
    /\ (d.phase[l] \in Established) <=> (d.thread[l] # 0)
    /\ d.phase[l] # "resuming"
    /\ d.cand[l] # 0 => d.phase[l] \in {"absent", "creating"}
    /\ \A i \in DOMAIN d.outbox :
         ~(d.outbox[i].kind = "resume" /\ d.outbox[i].lane = l /\ d.outbox[i].status = "pending")
LanesCalm(c, d) ==
    /\ d.thread = c.thread /\ d.cand = c.cand /\ d.cgen = c.cgen
    /\ \A l \in Lanes : \/ d.phase[l] = c.phase[l] /\ d.gen[l] = c.gen[l]
                        \/ d.gen[l] >= c.gen[l] /\ Rests(d, l)

\* The foreground and its lane stay as they are, or the foreground is gone.
TurnCalm(c, d) ==
    \/ /\ d.fg = c.fg /\ d.running = c.running /\ d.consumed = c.consumed
       /\ d.stopping => c.running
       /\ c.fg # NoOp => /\ d.phase[FgLane(c)] = c.phase[FgLane(c)]
                         /\ d.gen[FgLane(c)] = c.gen[FgLane(c)]
    \/ d.fg = NoOp /\ ~d.running /\ ~d.consumed /\ ~d.stopping

\* Operations keep their lanes, and only one that never ran joins the queue.
QueueCalm(c, d) ==
    /\ \A op \in Ops : c.lane[op] # NoLane => d.lane[op] = c.lane[op]
    /\ QueuedOps(d) \subseteq QueuedOps(c) \union {op \in Ops : c.lane[op] = NoLane}

Calm(c, d) == /\ LanesCalm(c, d) /\ TurnCalm(c, d) /\ QueueCalm(c, d)
              /\ Fades(c.outbox, d.outbox)

\* Generations only grow, a lane that resumes anew has a new one, no effect is
\* lost, and a create that is newly pending has a new generation.
Carries(c, d) ==
    /\ d.thread = c.thread /\ d.cand = c.cand
    /\ \A l \in Lanes :
         /\ d.gen[l] >= c.gen[l] /\ d.cgen[l] >= c.cgen[l]
         /\ d.phase[l] = "resuming" => \/ c.phase[l] = "resuming" /\ d.gen[l] = c.gen[l]
                                       \/ d.gen[l] > c.gen[l]
    /\ Extends(c.outbox, d.outbox)
    /\ \A i \in DOMAIN c.outbox : Opening(c.outbox[i]) /\ Over(c.outbox[i]) => Over(d.outbox[i])
    /\ \A l \in Lanes, i \in DOMAIN d.outbox : PendingCreate(d, l, i) =>
         (i \in DOMAIN c.outbox /\ PendingCreate(c, l, i)) \/ d.outbox[i].gen > c.cgen[l]

\* The foreground is gone, or new and nothing opens its lane after its start,
\* or the old one on a lane that nothing opens anew.
Holds(c, d) ==
    \/ d.fg = NoOp
    \/ /\ Starts(c, d.fg) = {} /\ ~d.running
       /\ \A i \in DOMAIN d.outbox : ~AfterStart(d, i)
    \/ /\ d.fg = c.fg /\ FgLane(d) = FgLane(c) /\ d.running = c.running
       /\ d.gen[FgLane(c)] = c.gen[FgLane(c)]
       /\ d.phase[FgLane(c)] = "resuming" => c.phase[FgLane(c)] = "resuming"
       /\ \A i \in DOMAIN d.outbox \ DOMAIN c.outbox :
            ~(d.outbox[i].kind = "create" /\ d.outbox[i].lane = FgLane(c))

\* A lane that resumes goes on, and a start that was taken stays taken.
Steady(c, d) ==
    /\ \A l \in Lanes : c.phase[l] = "resuming" => d.phase[l] = "resuming" /\ d.gen[l] = c.gen[l]
    /\ Taken(c.outbox, d.outbox)

\* What a placed chat is made of.
LEMMA ChatParts ==
    ASSUME NEW c \in Placed
    PROVE  /\ \A l \in Lanes : c.gen[l] \in Nat /\ c.cgen[l] \in Nat /\ c.thread[l] \in Nat
           /\ c.fg # NoOp => c.fg \in Ops /\ FgLane(c) \in Lanes /\ FgLane(c) = c.lane[c.fg]
           /\ c.fg = NoOp => FgLane(c) = NoLane
           /\ QueuedOps(c) \subseteq Ops
           /\ \A op \in QueuedOps(c) : c.lane[op] \in Lanes
<1>1. c \in Chat /\ c.queue \in Seq(Ops)
  BY DEF Placed, Chat
<1>2. QueuedOps(c) \subseteq Ops /\ \A op \in QueuedOps(c) : c.lane[op] \in Lanes
  BY <1>1 DEF QueuedOps, Placed
<1>. QED  BY <1>1, <1>2 DEF Placed, Chat, FgLane

\* Starts are the same in a box that only gets Stops or openings.
LEMMA StartsExtend ==
    ASSUME NEW c, NEW d, Extends(c.outbox, d.outbox),
           \A j \in DOMAIN d.outbox \ DOMAIN c.outbox : d.outbox[j].kind # "start"
    PROVE  \A op : Starts(d, op) = Starts(c, op)
BY DEF Extends, Starts, SameEffect

\* A calm command keeps the shape of the chat.
LEMMA CalmShaped ==
    ASSUME NEW c \in Placed, NEW d \in Placed, Shaped(c), Calm(c, d)
    PROVE  Shaped(d)
<1>. USE DEF Calm
<1>0. /\ d.fg # NoOp => c.fg = d.fg /\ FgLane(d) = FgLane(c) /\ FgLane(c) \in Lanes
      /\ \A op : Starts(d, op) = Starts(c, op)
  <2>1. d.fg # NoOp => d.fg = c.fg /\ c.fg \in Ops /\ c.lane[c.fg] \in Lanes
    BY DEF TurnCalm, Placed, Chat
  <2>2. d.fg # NoOp => d.lane[c.fg] = c.lane[c.fg]
    BY <2>1, NoOpIsNoOp DEF QueueCalm
  <2>. QED  BY <2>1, <2>2, StartsExtend DEF FgLane, Fades
<1>1. PhasesFit(d)
  BY DEF LanesCalm, Shaped, PhasesFit, Rests
<1>2. ForegroundFits(d)
  <2>1. ForegroundFits(c)
    BY DEF Shaped
  <2>2. CASE d.fg = NoOp /\ ~d.running /\ ~d.consumed /\ ~d.stopping
    BY <2>2 DEF ForegroundFits
  <2>3. CASE d.fg = NoOp /\ d.fg = c.fg /\ d.running = c.running /\ d.consumed = c.consumed
             /\ (d.stopping => c.running)
    BY <2>1, <2>3 DEF ForegroundFits
  <2>4. CASE d.fg # NoOp
    BY <1>0, <2>1, <2>4 DEF ForegroundFits, TurnCalm, LanesCalm
  <2>. QED  BY <2>2, <2>3, <2>4 DEF TurnCalm
<1>3. StartsOnce(d)
  <2>1. d.fg # NoOp => Starts(d, d.fg) # {}
    BY <1>0 DEF Shaped, StartsOnce
  <2>2. ASSUME NEW i \in DOMAIN d.outbox, d.outbox[i].kind = "start"
        PROVE  /\ d.lane[d.outbox[i].op] = d.outbox[i].lane
               /\ d.outbox[i].op \notin QueuedOps(d)
               /\ \A j \in DOMAIN d.outbox :
                    d.outbox[j].kind = "start" /\ d.outbox[j].op = d.outbox[i].op => j = i
    <3>. DEFINE op == d.outbox[i].op
    <3>1. i \in DOMAIN c.outbox /\ c.outbox[i].kind = "start" /\ c.outbox[i].op = op
          /\ c.outbox[i].lane = d.outbox[i].lane
      BY <2>2 DEF Fades, Extends, SameEffect
    <3>2. op \in Ops /\ c.outbox[i].lane \in Lanes
      <4>1. c.outbox[i] \in Entry
        BY <3>1, OutboxEntries
      <4>. QED  BY <3>1, <4>1, NoOpIsNoOp DEF Entry
    <3>3. c.lane[op] = c.outbox[i].lane /\ op \notin QueuedOps(c)
      BY <3>1 DEF Shaped, StartsOnce
    <3>4. d.lane[op] = c.lane[op] /\ op \notin QueuedOps(d)
      BY <3>2, <3>3, NoOpIsNoOp DEF QueueCalm
    <3>5. \A j \in DOMAIN d.outbox : d.outbox[j].kind = "start" /\ d.outbox[j].op = op =>
             j \in DOMAIN c.outbox /\ c.outbox[j].kind = "start" /\ c.outbox[j].op = op
      BY DEF Fades, Extends, SameEffect
    <3>6. \A j \in DOMAIN c.outbox : c.outbox[j].kind = "start" /\ c.outbox[j].op = op => j = i
      BY <3>1 DEF Shaped, StartsOnce
    <3>. QED  BY <3>1, <3>3, <3>4, <3>5, <3>6
  <2>. QED  BY <2>1, <2>2 DEF StartsOnce
<1>4. ResumesCurrent(d)
  <2>. SUFFICES ASSUME NEW i \in DOMAIN d.outbox,
                       d.outbox[i].kind = "resume", d.outbox[i].status = "pending"
                PROVE  /\ d.phase[d.outbox[i].lane] = "resuming"
                       /\ d.outbox[i].gen = d.gen[d.outbox[i].lane]
    BY DEF ResumesCurrent
  <2>. DEFINE l == d.outbox[i].lane
  <2>1. /\ i \in DOMAIN c.outbox /\ c.outbox[i].kind = "resume" /\ c.outbox[i].status = "pending"
        /\ c.outbox[i].lane = l /\ c.outbox[i].gen = d.outbox[i].gen
    BY DEF Fades, Extends, SameEffect, Opening
  <2>2. c.phase[l] = "resuming" /\ c.outbox[i].gen = c.gen[l]
    BY <2>1 DEF Shaped, ResumesCurrent
  <2>3. l \in Lanes
    <3>1. d.outbox[i] \in Entry
      BY OutboxEntries
    <3>. QED  BY <3>1 DEF Entry
  <2>4. d.phase[l] = c.phase[l] /\ d.gen[l] = c.gen[l]
    BY <2>3 DEF LanesCalm, Rests
  <2>. QED  BY <2>1, <2>2, <2>4
<1>5. CreatesOrdered(d)
  BY DEF Shaped, CreatesOrdered, LanesCalm, Fades, Extends, SameEffect
<1>6. \A i \in DOMAIN d.outbox :
        /\ AfterStart(d, i) => i \in DOMAIN c.outbox /\ AfterStart(c, i)
                               /\ d.outbox[i].gen = c.outbox[i].gen
        /\ \A l : PendingCreate(d, l, i) => i \in DOMAIN c.outbox /\ PendingCreate(c, l, i)
  <2>. TAKE i \in DOMAIN d.outbox
  <2>0. ASSUME d.outbox[i].kind = "create"
        PROVE  /\ i \in DOMAIN c.outbox /\ c.outbox[i].kind = "create"
               /\ c.outbox[i].lane = d.outbox[i].lane /\ c.outbox[i].gen = d.outbox[i].gen
               /\ Over(c.outbox[i]) => Over(d.outbox[i])
               /\ d.outbox[i].status = "pending" => c.outbox[i].status = "pending"
    BY <2>0 DEF Fades, Extends, SameEffect, Opening
  <2>1. ASSUME AfterStart(d, i)
        PROVE  i \in DOMAIN c.outbox /\ AfterStart(c, i) /\ d.outbox[i].gen = c.outbox[i].gen
    <3>1. d.fg # NoOp
      <4>1. PICK j \in Starts(d, d.fg) : TRUE
        BY <2>1 DEF AfterStart
      <4>2. d.outbox[j] \in Entry /\ d.outbox[j].kind = "start" /\ d.outbox[j].op = d.fg
        BY <4>1, OutboxEntries DEF Starts
      <4>. QED  BY <4>2 DEF Entry
    <3>. QED  BY <1>0, <2>0, <2>1, <3>1 DEF AfterStart
  <2>. QED  BY <2>0, <2>1 DEF PendingCreate
<1>7. LastCreate(d) /\ NoCreateRuns(d)
  <2>1. Waits(d) => Waits(c)
    BY <1>0 DEF Waits, TurnCalm, LanesCalm
  <2>2. Waits(d) => FgLane(d) = FgLane(c)
    BY <1>0 DEF Waits
  <2>3. LastCreate(d)
    BY <1>6, <2>1, <2>2 DEF LastCreate, Shaped, LanesCalm
  <2>4. d.running => c.running /\ d.fg # NoOp
    BY <1>2 DEF TurnCalm, ForegroundFits
  <2>5. NoCreateRuns(d)
    BY <1>0, <1>6, <2>4 DEF NoCreateRuns, Shaped, LanesCalm
  <2>. QED  BY <2>3, <2>5
<1>. QED  BY <1>1, <1>2, <1>3, <1>4, <1>5, <1>7 DEF Shaped

\* A calm command carries everything on and holds its foreground.
LEMMA CalmCarries ==
    ASSUME NEW c \in Placed, NEW d \in Placed, Shaped(c), Calm(c, d)
    PROVE  Carries(c, d) /\ Holds(c, d)
<1>. USE DEF Calm
<1>1. Carries(c, d)
  <2>1. \A l \in Lanes :
         /\ d.gen[l] >= c.gen[l] /\ d.cgen[l] >= c.cgen[l]
         /\ d.phase[l] = "resuming" => \/ c.phase[l] = "resuming" /\ d.gen[l] = c.gen[l]
                                       \/ d.gen[l] > c.gen[l]
    BY ChatParts DEF LanesCalm, Rests
  <2>2. Extends(c.outbox, d.outbox)
    BY DEF Fades
  <2>3. \A i \in DOMAIN c.outbox : Opening(c.outbox[i]) /\ Over(c.outbox[i]) => Over(d.outbox[i])
    BY DEF Fades
  <2>4. \A l \in Lanes, i \in DOMAIN d.outbox : PendingCreate(d, l, i) =>
          i \in DOMAIN c.outbox /\ PendingCreate(c, l, i)
    BY DEF Fades, Extends, SameEffect, Opening, PendingCreate
  <2>. QED  BY <2>1, <2>2, <2>3, <2>4 DEF Carries, LanesCalm
<1>2. Holds(c, d)
  <2>1. CASE d.fg = NoOp
    BY <2>1 DEF Holds
  <2>2. CASE d.fg # NoOp
    <3>1. d.fg = c.fg /\ c.fg \in Ops /\ c.lane[c.fg] \in Lanes
      BY <2>2 DEF TurnCalm, Placed, Chat
    <3>2. FgLane(d) = FgLane(c)
      BY <2>2, <3>1, NoOpIsNoOp DEF QueueCalm, FgLane
    <3>3. \A i \in DOMAIN d.outbox \ DOMAIN c.outbox : d.outbox[i].kind = "stop"
      BY DEF Fades
    <3>. QED  BY <2>2, <3>1, <3>2, <3>3 DEF Holds, TurnCalm
  <2>. QED  BY <2>1, <2>2
<1>. QED  BY <1>1, <1>2

\* Carrying on, holding the foreground and steadiness compose.
LEMMA CarriesTransitive ==
    ASSUME NEW c \in Placed, NEW d \in Placed, NEW e \in Placed,
           Carries(c, d), Carries(d, e), Holds(c, d), Holds(d, e)
    PROVE  Carries(c, e) /\ Holds(c, e)
<1>1. /\ Extends(c.outbox, e.outbox)
      /\ \A i \in DOMAIN c.outbox : SameEffect(c.outbox[i], d.outbox[i])
      /\ \A i \in DOMAIN d.outbox : SameEffect(d.outbox[i], e.outbox[i])
      /\ DOMAIN c.outbox \subseteq DOMAIN d.outbox
      /\ DOMAIN d.outbox \subseteq DOMAIN e.outbox
      /\ \A j \in DOMAIN e.outbox \ DOMAIN d.outbox : \A i \in DOMAIN d.outbox : i < j
  BY DEF Carries, Extends, SameEffect
<1>2. Carries(c, e)
  <2>1. \A l \in Lanes :
         /\ e.gen[l] >= c.gen[l] /\ e.cgen[l] >= c.cgen[l]
         /\ e.phase[l] = "resuming" => \/ c.phase[l] = "resuming" /\ e.gen[l] = c.gen[l]
                                       \/ e.gen[l] > c.gen[l]
    BY ChatParts DEF Carries
  <2>2. \A i \in DOMAIN c.outbox : Opening(c.outbox[i]) /\ Over(c.outbox[i]) => Over(e.outbox[i])
    BY <1>1 DEF Carries, Opening, SameEffect
  <2>3. ASSUME NEW l \in Lanes, NEW i \in DOMAIN e.outbox, PendingCreate(e, l, i)
        PROVE  (i \in DOMAIN c.outbox /\ PendingCreate(c, l, i)) \/ e.outbox[i].gen > c.cgen[l]
    <3>1. CASE i \in DOMAIN d.outbox /\ PendingCreate(d, l, i)
      BY <1>1, <3>1 DEF Carries, SameEffect
    <3>2. CASE e.outbox[i].gen > d.cgen[l]
      <4>1. e.outbox[i].gen \in Nat
        <5>1. e.outbox[i] \in Entry
          BY OutboxEntries
        <5>. QED  BY <5>1 DEF Entry
      <4>. QED  BY <3>2, <4>1, ChatParts DEF Carries
    <3>. QED  BY <2>3, <3>1, <3>2 DEF Carries
  <2>. QED  BY <1>1, <2>1, <2>2, <2>3 DEF Carries
<1>3. Holds(c, e)
  <2>1. CASE e.fg = NoOp
    BY <2>1 DEF Holds
  <2>2. CASE /\ Starts(d, e.fg) = {} /\ ~e.running
             /\ \A i \in DOMAIN e.outbox : ~AfterStart(e, i)
    <3>1. Starts(c, e.fg) = {}
      BY <1>1, <2>2 DEF Starts, SameEffect
    <3>. QED  BY <2>2, <3>1 DEF Holds
  <2>3. CASE /\ e.fg = d.fg /\ e.fg # NoOp /\ FgLane(e) = FgLane(d) /\ e.running = d.running
             /\ e.gen[FgLane(d)] = d.gen[FgLane(d)]
             /\ e.phase[FgLane(d)] = "resuming" => d.phase[FgLane(d)] = "resuming"
             /\ \A i \in DOMAIN e.outbox \ DOMAIN d.outbox :
                  ~(e.outbox[i].kind = "create" /\ e.outbox[i].lane = FgLane(d))
    <3>1. CASE /\ Starts(c, d.fg) = {} /\ ~d.running
               /\ \A i \in DOMAIN d.outbox : ~AfterStart(d, i)
      <4>1. ASSUME NEW i \in DOMAIN e.outbox, AfterStart(e, i)
            PROVE  FALSE
        <5>1. /\ e.outbox[i].kind = "create" /\ e.outbox[i].lane = FgLane(d) /\ ~Over(e.outbox[i])
              /\ i \in DOMAIN d.outbox
          BY <2>3, <4>1 DEF AfterStart
        <5>2. d.outbox[i].kind = "create" /\ d.outbox[i].lane = FgLane(d) /\ ~Over(d.outbox[i])
          BY <1>1, <5>1 DEF SameEffect, Carries, Opening
        <5>3. PICK j \in Starts(e, d.fg) : j < i
          BY <2>3, <4>1 DEF AfterStart
        <5>4. j \in DOMAIN d.outbox
          <6>1. i \in Nat /\ j \in Nat /\ j \in DOMAIN e.outbox
            BY <5>3, OutboxEntries DEF Starts
          <6>. QED  BY <1>1, <5>1, <5>3, <6>1
        <5>5. j \in Starts(d, d.fg)
          BY <1>1, <5>3, <5>4 DEF Starts, SameEffect
        <5>. QED  BY <3>1, <5>1, <5>2, <5>3, <5>5 DEF AfterStart
      <4>. QED  BY <2>3, <3>1, <4>1 DEF Holds
    <3>2. CASE /\ d.fg = c.fg /\ FgLane(d) = FgLane(c) /\ d.running = c.running
               /\ d.gen[FgLane(c)] = c.gen[FgLane(c)]
               /\ d.phase[FgLane(c)] = "resuming" => c.phase[FgLane(c)] = "resuming"
               /\ \A i \in DOMAIN d.outbox \ DOMAIN c.outbox :
                    ~(d.outbox[i].kind = "create" /\ d.outbox[i].lane = FgLane(c))
      <4>1. \A i \in DOMAIN e.outbox \ DOMAIN c.outbox :
              ~(e.outbox[i].kind = "create" /\ e.outbox[i].lane = FgLane(c))
        BY <1>1, <2>3, <3>2 DEF SameEffect
      <4>. QED  BY <2>3, <3>2, <4>1 DEF Holds
    <3>. QED  BY <2>3, <3>1, <3>2 DEF Holds
  <2>. QED  BY <2>1, <2>2, <2>3 DEF Holds
<1>. QED  BY <1>2, <1>3

\* Steadiness composes.
LEMMA SteadyTransitive ==
    ASSUME NEW c, NEW d, NEW e, Extends(c.outbox, d.outbox), Steady(c, d), Steady(d, e)
    PROVE  Steady(c, e)
BY FadesTransitive DEF Steady

(***************************************************************************)
(* Driving the queue.                                                      *)
(***************************************************************************)
\* Where the turn and the queue stay as they are.
TurnSame(c, d) ==
    /\ d.queue = c.queue /\ d.lane = c.lane /\ d.fg = c.fg
    /\ d.running = c.running /\ d.consumed = c.consumed /\ d.stopping = c.stopping

LEMMA TurnSameFacts ==
    ASSUME NEW c, NEW d, TurnSame(c, d)
    PROVE  FgLane(d) = FgLane(c) /\ QueuedOps(d) = QueuedOps(c)
BY DEF TurnSame, FgLane, QueuedOps

\* A lane without a thread is opened under a new create generation.
LEMMA CreateShaped ==
    ASSUME NEW c \in Placed, NEW d \in Placed, Shaped(c), TurnSame(c, d),
           NEW l \in Lanes, NEW g \in Nat, NEW k \in Nat, NEW r \in BOOLEAN,
           g > c.cgen[l], k >= c.gen[l], c.thread[l] = 0,
           d.thread = c.thread, d.cand = c.cand, d.phase = [c.phase EXCEPT ![l] = "creating"],
           d.cgen = [c.cgen EXCEPT ![l] = g], d.gen = [c.gen EXCEPT ![l] = k],
           d.outbox = Record(c.outbox, CreateEffect(l, g, r)),
           FgLane(c) = l => ~c.running /\ c.cand[l] # 0 /\ \A i \in DOMAIN c.outbox : ~AfterStart(c, i)
    PROVE  /\ Shaped(d) /\ Carries(c, d) /\ Steady(c, d)
           /\ FgLane(c) # l => Holds(c, d)
<1>. DEFINE n == Len(c.outbox) + 1
            e == CreateEffect(l, g, r)
<1>1. /\ e.kind = "create" /\ e.lane = l /\ e.gen = g /\ e.status = "pending" /\ e \in Entry
  BY EffectType DEF CreateEffect
<1>. HIDE DEF e
<1>2. \A i \in DOMAIN c.outbox : ~SameEffect(c.outbox[i], e)
  <2>. SUFFICES ASSUME NEW i \in DOMAIN c.outbox, SameEffect(c.outbox[i], e)  PROVE FALSE
    OBVIOUS
  <2>1. c.outbox[i].kind = "create" /\ c.outbox[i].lane = l /\ c.outbox[i].gen = g
    BY <1>1 DEF SameEffect
  <2>2. g <= c.cgen[l]
    BY <2>1 DEF Shaped, CreatesOrdered
  <2>. QED  BY <2>2, ChatParts
<1>3. /\ DOMAIN d.outbox = DOMAIN c.outbox \union {n} /\ n \notin DOMAIN c.outbox
      /\ \A i \in DOMAIN c.outbox : i < n
      /\ d.outbox[n] = e /\ \A i \in DOMAIN c.outbox : d.outbox[i] = c.outbox[i]
  <2>1. c.outbox \in Seq(Entry) /\ d.outbox = Record(c.outbox, e)
    BY OutboxEntries DEF e
  <2>2. Recorded(c.outbox, d.outbox, e)
    BY <1>1, <2>1, RecordFacts
  <2>. QED  BY <1>2, <2>2 DEF Recorded
<1>. HIDE DEF n
<1>4. FgLane(d) = FgLane(c) /\ QueuedOps(d) = QueuedOps(c)
  BY TurnSameFacts
<1>5. \A op : Starts(d, op) = Starts(c, op)
  BY <1>1, <1>3 DEF Starts
<1>6. /\ d.phase[l] = "creating" /\ d.cgen[l] = g /\ d.gen[l] = k
      /\ \A x \in Lanes \ {l} : /\ d.phase[x] = c.phase[x] /\ d.cgen[x] = c.cgen[x]
                                /\ d.gen[x] = c.gen[x]
  BY DEF Placed, Chat
<1>7. c.phase[l] \notin Established /\ c.phase[l] # "resuming"
  BY DEF Shaped, PhasesFit, Established
<1>8. PhasesFit(d)
  BY <1>6 DEF Shaped, PhasesFit, Established
<1>9. ForegroundFits(d)
  <2>1. c.fg # NoOp => FgLane(c) \in Lanes
    BY ChatParts
  <2>. QED  BY <1>4, <1>6, <2>1 DEF ForegroundFits, Shaped, TurnSame
<1>10. StartsOnce(d)
  BY <1>1, <1>3, <1>4, <1>5 DEF StartsOnce, Shaped, TurnSame
<1>11. ResumesCurrent(d)
  <2>1. \A i \in DOMAIN c.outbox : c.outbox[i].kind = "resume" /\ c.outbox[i].status = "pending"
           => c.outbox[i].lane \in Lanes \ {l}
    <3>1. \A i \in DOMAIN c.outbox : c.outbox[i].lane \in Lanes
      BY OutboxEntries DEF Entry
    <3>. QED  BY <1>7, <3>1 DEF Shaped, ResumesCurrent
  <2>. QED  BY <1>1, <1>3, <1>6, <2>1 DEF ResumesCurrent, Shaped
<1>12. CreatesOrdered(d)
  <2>1. \A i \in DOMAIN c.outbox : c.outbox[i].kind = "create" =>
          /\ c.outbox[i].gen \in Nat /\ c.outbox[i].lane \in Lanes
          /\ c.outbox[i].gen <= c.cgen[c.outbox[i].lane]
    BY OutboxEntries DEF Entry, Shaped, CreatesOrdered
  <2>2. \A i \in DOMAIN c.outbox : c.outbox[i].kind = "create" =>
          /\ c.outbox[i].gen <= d.cgen[c.outbox[i].lane]
          /\ c.outbox[i].lane = l => c.outbox[i].gen < g
    BY <1>6, <2>1, ChatParts
  <2>3. \A i \in DOMAIN c.outbox : i \in Nat
    BY OutboxEntries
  <2>4. ASSUME NEW i \in DOMAIN d.outbox, NEW j \in DOMAIN d.outbox, d.outbox[i].kind = "create",
               i < j, d.outbox[j].kind = "create", d.outbox[j].lane = d.outbox[i].lane
        PROVE  d.outbox[i].gen < d.outbox[j].gen
    <3>1. n \in Nat
      BY OutboxEntries DEF n
    <3>2. i \in DOMAIN c.outbox
      BY <1>3, <2>3, <2>4, <3>1
    <3>3. CASE j = n
      BY <1>1, <1>3, <2>2, <2>4, <3>2, <3>3
    <3>4. CASE j \in DOMAIN c.outbox
      BY <1>3, <2>4, <3>2, <3>4 DEF Shaped, CreatesOrdered
    <3>. QED  BY <1>3, <3>3, <3>4
  <2>5. \A i \in DOMAIN d.outbox : d.outbox[i].kind = "create" =>
          d.outbox[i].gen <= d.cgen[d.outbox[i].lane]
    BY <1>1, <1>3, <1>6, <2>2
  <2>. QED  BY <2>4, <2>5 DEF CreatesOrdered
<1>13. \A i \in DOMAIN c.outbox : AfterStart(d, i) => AfterStart(c, i)
  BY <1>3, <1>4, <1>5 DEF AfterStart, TurnSame
<1>14. LastCreate(d)
  <2>. SUFFICES ASSUME Waits(d), NEW i \in DOMAIN d.outbox, AfterStart(d, i)
                PROVE  d.outbox[i].gen = d.cgen[FgLane(d)]
    BY DEF LastCreate
  <2>1. Waits(c) /\ FgLane(c) \in Lanes
    BY <1>4, ChatParts DEF Waits, TurnSame
  <2>2. CASE i = n
    <3>1. FgLane(d) = l
      BY <1>1, <1>3, <2>2 DEF AfterStart
    <3>. QED  BY <1>1, <1>3, <1>6, <2>2, <3>1
  <2>3. CASE i \in DOMAIN c.outbox
    <3>1. AfterStart(c, i) /\ FgLane(c) # l
      BY <1>13, <2>3
    <3>2. c.outbox[i].gen = c.cgen[FgLane(c)]
      BY <2>1, <2>3, <3>1 DEF Shaped, LastCreate
    <3>. QED  BY <1>3, <1>4, <1>6, <2>1, <2>3, <3>1, <3>2
  <2>. QED  BY <1>3, <2>2, <2>3
<1>15. NoCreateRuns(d)
  <2>1. c.running => FgLane(c) # l
    OBVIOUS
  <2>. QED  BY <1>1, <1>3, <1>4, <2>1 DEF NoCreateRuns, PendingCreate, Shaped, TurnSame
<1>16. Carries(c, d)
  <2>1. Extends(c.outbox, d.outbox)
    BY <1>3 DEF Extends, SameEffect
  <2>2. \A x \in Lanes :
         /\ d.gen[x] >= c.gen[x] /\ d.cgen[x] >= c.cgen[x]
         /\ d.phase[x] = "resuming" => c.phase[x] = "resuming" /\ d.gen[x] = c.gen[x]
    BY <1>6, ChatParts
  <2>3. \A x \in Lanes, i \in DOMAIN d.outbox : PendingCreate(d, x, i) =>
         (i \in DOMAIN c.outbox /\ PendingCreate(c, x, i)) \/ d.outbox[i].gen > c.cgen[x]
    BY <1>1, <1>3 DEF PendingCreate
  <2>. QED  BY <1>3, <2>1, <2>2, <2>3 DEF Carries
<1>17. Steady(c, d)
  BY <1>3, <1>6, <1>7 DEF Steady, Taken
<1>18. ASSUME FgLane(c) # l  PROVE Holds(c, d)
  <2>1. CASE d.fg = NoOp
    BY <2>1 DEF Holds
  <2>2. CASE d.fg # NoOp
    <3>1. d.fg = c.fg /\ FgLane(c) \in Lanes \ {l} /\ d.running = c.running
      BY <1>18, <2>2, ChatParts DEF TurnSame
    <3>. QED  BY <1>1, <1>3, <1>4, <1>6, <3>1 DEF Holds
  <2>. QED  BY <2>1, <2>2
<1>. QED
  BY <1>8, <1>9, <1>10, <1>11, <1>12, <1>14, <1>15, <1>16, <1>17, <1>18 DEF Shaped

\* An established lane is resumed under a new connection generation.
LEMMA ResumeShaped ==
    ASSUME NEW c \in Placed, NEW d \in Placed, Shaped(c), TurnSame(c, d),
           NEW l \in Lanes, NEW g \in Nat, g > c.gen[l], c.thread[l] # 0, c.phase[l] # "resuming",
           d.thread = c.thread, d.cand = c.cand, d.cgen = c.cgen,
           d.phase = [c.phase EXCEPT ![l] = "resuming"], d.gen = [c.gen EXCEPT ![l] = g],
           d.outbox = Record(c.outbox, ResumeEffect(l, g)),
           FgLane(c) = l => ~c.running
    PROVE  /\ Shaped(d) /\ Carries(c, d) /\ Steady(c, d)
           /\ FgLane(c) # l => Holds(c, d)
<1>. DEFINE n == Len(c.outbox) + 1
            e == ResumeEffect(l, g)
<1>1. /\ e.kind = "resume" /\ e.lane = l /\ e.gen = g /\ e.status = "pending" /\ e \in Entry
  BY EffectType DEF ResumeEffect
<1>. HIDE DEF e
<1>2. /\ DOMAIN c.outbox \subseteq DOMAIN d.outbox
      /\ \A i \in DOMAIN c.outbox : d.outbox[i] = c.outbox[i]
      /\ \A j \in DOMAIN d.outbox \ DOMAIN c.outbox : d.outbox[j] = e
      /\ \A j \in DOMAIN d.outbox \ DOMAIN c.outbox : \A i \in DOMAIN c.outbox : i < j
  <2>1. c.outbox \in Seq(Entry) /\ d.outbox = Record(c.outbox, e)
    BY OutboxEntries DEF e
  <2>2. \/ d.outbox = c.outbox
        \/ /\ DOMAIN d.outbox = DOMAIN c.outbox \union {n} /\ n \notin DOMAIN c.outbox
           /\ \A i \in DOMAIN c.outbox : i < n
           /\ d.outbox[n] = e /\ \A i \in DOMAIN c.outbox : d.outbox[i] = c.outbox[i]
    <3>1. Recorded(c.outbox, d.outbox, e)
      BY <1>1, <2>1, RecordFacts
    <3>. QED  BY <3>1 DEF Recorded
  <2>. QED  BY <2>2
<1>4. FgLane(d) = FgLane(c) /\ QueuedOps(d) = QueuedOps(c)
  BY TurnSameFacts
<1>5. \A op : Starts(d, op) = Starts(c, op)
  BY <1>1, <1>2 DEF Starts
<1>6. /\ d.phase[l] = "resuming" /\ d.gen[l] = g
      /\ \A x \in Lanes \ {l} : d.phase[x] = c.phase[x] /\ d.gen[x] = c.gen[x]
  BY DEF Placed, Chat
<1>7. c.cand[l] = 0 /\ c.phase[l] \in Established
  BY DEF Shaped, PhasesFit, Established
<1>8. PhasesFit(d)
  BY <1>6, <1>7 DEF Shaped, PhasesFit, Established
<1>9. ForegroundFits(d)
  <2>1. c.fg # NoOp => FgLane(c) \in Lanes
    BY ChatParts
  <2>. QED  BY <1>4, <1>6, <2>1 DEF ForegroundFits, Shaped, TurnSame
<1>10. StartsOnce(d)
  <2>1. \A i \in DOMAIN d.outbox : d.outbox[i].kind = "start" =>
          i \in DOMAIN c.outbox /\ d.outbox[i] = c.outbox[i]
    BY <1>1, <1>2
  <2>2. d.fg # NoOp => Starts(d, d.fg) # {}
    BY <1>5 DEF StartsOnce, Shaped, TurnSame
  <2>3. \A i \in DOMAIN d.outbox : d.outbox[i].kind = "start" =>
         /\ d.lane[d.outbox[i].op] = d.outbox[i].lane
         /\ d.outbox[i].op \notin QueuedOps(d)
    BY <1>4, <2>1 DEF StartsOnce, Shaped, TurnSame
  <2>4. \A i, j \in DOMAIN d.outbox :
          d.outbox[i].kind = "start" /\ d.outbox[j].kind = "start"
          /\ d.outbox[j].op = d.outbox[i].op => j = i
    BY <2>1 DEF StartsOnce, Shaped
  <2>. QED  BY <2>2, <2>3, <2>4 DEF StartsOnce
<1>11. ResumesCurrent(d)
  <2>1. \A i \in DOMAIN c.outbox : c.outbox[i].kind = "resume" /\ c.outbox[i].status = "pending"
           => c.outbox[i].lane \in Lanes \ {l}
    <3>1. \A i \in DOMAIN c.outbox : c.outbox[i].lane \in Lanes
      BY OutboxEntries DEF Entry
    <3>. QED  BY <3>1 DEF Shaped, ResumesCurrent
  <2>. QED  BY <1>1, <1>2, <1>6, <2>1 DEF ResumesCurrent, Shaped
<1>12. \A i \in DOMAIN d.outbox : d.outbox[i].kind = "create" =>
         i \in DOMAIN c.outbox /\ d.outbox[i] = c.outbox[i]
  BY <1>1, <1>2
<1>13. CreatesOrdered(d)
  BY <1>12 DEF Shaped, CreatesOrdered
<1>14. \A i \in DOMAIN d.outbox : AfterStart(d, i) => i \in DOMAIN c.outbox /\ AfterStart(c, i)
  BY <1>4, <1>5, <1>12 DEF AfterStart, TurnSame
<1>15. LastCreate(d)
  BY <1>4, <1>12, <1>14 DEF LastCreate, Waits, Shaped, TurnSame, AfterStart
<1>16. NoCreateRuns(d)
  BY <1>4, <1>12 DEF NoCreateRuns, PendingCreate, Shaped, TurnSame
<1>17. Carries(c, d)
  <2>1. Extends(c.outbox, d.outbox)
    BY <1>2 DEF Extends, SameEffect
  <2>2. \A x \in Lanes :
         /\ d.gen[x] >= c.gen[x] /\ d.cgen[x] >= c.cgen[x]
         /\ d.phase[x] = "resuming" => \/ c.phase[x] = "resuming" /\ d.gen[x] = c.gen[x]
                                       \/ d.gen[x] > c.gen[x]
    BY <1>6, ChatParts
  <2>3. \A x \in Lanes, i \in DOMAIN d.outbox : PendingCreate(d, x, i) =>
         i \in DOMAIN c.outbox /\ PendingCreate(c, x, i)
    BY <1>12 DEF PendingCreate
  <2>. QED  BY <1>2, <2>1, <2>2, <2>3 DEF Carries
<1>18. Steady(c, d)
  BY <1>2, <1>6 DEF Steady, Taken
<1>19. ASSUME FgLane(c) # l  PROVE Holds(c, d)
  <2>1. CASE d.fg = NoOp
    BY <2>1 DEF Holds
  <2>2. CASE d.fg # NoOp
    <3>1. d.fg = c.fg /\ FgLane(c) \in Lanes \ {l} /\ d.running = c.running
      BY <1>19, <2>2, ChatParts DEF TurnSame
    <3>2. \A i \in DOMAIN d.outbox \ DOMAIN c.outbox : d.outbox[i].kind # "create"
      BY <1>12
    <3>. QED  BY <1>4, <1>6, <3>1, <3>2 DEF Holds
  <2>. QED  BY <2>1, <2>2
<1>. QED
  BY <1>8, <1>9, <1>10, <1>11, <1>13, <1>15, <1>16, <1>17, <1>18, <1>19 DEF Shaped

\* The head of the queue becomes the foreground of its lane.
LEMMA BeginShaped ==
    ASSUME NEW c \in Placed, Shaped(c), c.fg = NoOp, c.queue # <<>>,
           NEW l \in Lanes, NEW phase, l = c.lane[Head(c.queue)],
           \/ c.phase[l] = "ready" /\ phase = "running"
           \/ c.phase[l] = "creating" /\ c.cand[l] # 0 /\ phase = "creating",
           NEW d, d = BeginForeground(c, l, phase), d.fg \notin QueuedOps(d)
    PROVE  Shaped(d) /\ Carries(c, d) /\ Holds(c, d) /\ Steady(c, d)
<1>. DEFINE n == Len(c.outbox) + 1
            op == Head(c.queue)
            e == StartEffect(l, op)
<1>0. c \in Chat /\ c.queue \in Seq(Ops)
  BY DEF Placed, Chat
<1>1. op \in Ops /\ op \in QueuedOps(c)
  <2>1. op = c.queue[1] /\ 1 \in DOMAIN c.queue /\ op \in Ops
    BY <1>0, HeadTailProperties
  <2>. HIDE DEF op
  <2>. QED  BY <2>1 DEF QueuedOps
<1>2. \A i \in DOMAIN Tail(c.queue) : Tail(c.queue)[i] \in QueuedOps(c)
  <2>1. \A i \in 1 .. Len(Tail(c.queue)) : i + 1 \in 1 .. Len(c.queue) /\ Tail(c.queue)[i] = c.queue[i + 1]
    BY <1>0, HeadTailProperties
  <2>2. DOMAIN Tail(c.queue) = 1 .. Len(Tail(c.queue)) /\ DOMAIN c.queue = 1 .. Len(c.queue)
    BY <1>0, HeadTailProperties
  <2>. QED  BY <2>1, <2>2 DEF QueuedOps
<1>3. /\ e.kind = "start" /\ e.lane = l /\ e.op = op /\ e.status = "pending" /\ e \in Entry
  BY <1>1, EffectType DEF StartEffect
<1>. HIDE DEF e
<1>4. /\ d.fg = op /\ d.queue = Tail(c.queue) /\ ~d.running /\ ~d.consumed
      /\ d.stopping = c.stopping /\ d.lane = c.lane /\ d.thread = c.thread /\ d.cand = c.cand
      /\ d.gen = c.gen /\ d.cgen = c.cgen /\ d.phase = [c.phase EXCEPT ![l] = phase]
      /\ d.outbox = Record(c.outbox, e)
  BY <1>0 DEF BeginForeground, Chat, e
<1>. HIDE DEF op
<1>5. /\ FgLane(d) = l /\ QueuedOps(d) \subseteq QueuedOps(c) /\ op # NoOp
      /\ FgLane(c) = NoLane
  BY <1>1, <1>2, <1>4, NoOpIsNoOp DEF FgLane, QueuedOps, op
<1>6. Starts(c, op) = {}
  BY <1>1 DEF Shaped, StartsOnce, Starts
<1>7. /\ DOMAIN d.outbox = DOMAIN c.outbox \union {n} /\ n \notin DOMAIN c.outbox
      /\ \A i \in DOMAIN c.outbox : i < n
      /\ d.outbox[n] = e /\ \A i \in DOMAIN c.outbox : d.outbox[i] = c.outbox[i]
  <2>1. \A i \in DOMAIN c.outbox : ~SameEffect(c.outbox[i], e)
    BY <1>3, <1>6 DEF SameEffect, Starts
  <2>2. c.outbox \in Seq(Entry) /\ d.outbox = Record(c.outbox, e)
    BY <1>4, OutboxEntries
  <2>3. Recorded(c.outbox, d.outbox, e)
    BY <1>3, <2>2, RecordFacts
  <2>. QED  BY <2>1, <2>3 DEF Recorded
<1>8. n \in Nat /\ DOMAIN c.outbox \subseteq Nat
  BY OutboxEntries
<1>. HIDE DEF n
<1>9. /\ d.phase[l] = phase /\ \A x \in Lanes \ {l} : d.phase[x] = c.phase[x]
  BY <1>0, <1>4 DEF Chat
<1>10. PhasesFit(d)
  BY <1>4, <1>9 DEF Shaped, PhasesFit, Established
<1>11. ForegroundFits(d)
  BY <1>4, <1>5, <1>9 DEF ForegroundFits, Shaped
<1>12. StartsOnce(d)
  <2>1. n \in Starts(d, op)
    BY <1>3, <1>7 DEF Starts
  <2>2. ASSUME NEW i \in DOMAIN d.outbox, d.outbox[i].kind = "start"
        PROVE  /\ d.lane[d.outbox[i].op] = d.outbox[i].lane
               /\ d.outbox[i].op \notin QueuedOps(d)
               /\ \A j \in DOMAIN d.outbox :
                    d.outbox[j].kind = "start" /\ d.outbox[j].op = d.outbox[i].op => j = i
    <3>1. CASE i = n
      <4>1. \A j \in DOMAIN c.outbox : ~(c.outbox[j].kind = "start" /\ c.outbox[j].op = op)
        BY <1>6 DEF Starts
      <4>2. d.lane[op] = l /\ op \notin QueuedOps(d)
        BY <1>4, <1>5 DEF op
      <4>. QED  BY <1>3, <1>7, <3>1, <4>1, <4>2
    <3>2. CASE i \in DOMAIN c.outbox
      <4>1. c.outbox[i].op # op
        BY <1>6, <1>7, <2>2, <3>2 DEF Starts
      <4>. QED  BY <1>3, <1>4, <1>5, <1>7, <2>2, <3>2, <4>1 DEF Shaped, StartsOnce
    <3>. QED  BY <1>7, <3>1, <3>2
  <2>. QED  BY <1>4, <2>1, <2>2 DEF StartsOnce
<1>13. ResumesCurrent(d)
  <2>1. \A i \in DOMAIN c.outbox : c.outbox[i].lane \in Lanes
    BY OutboxEntries DEF Entry
  <2>. QED  BY <1>3, <1>4, <1>7, <1>9, <2>1 DEF ResumesCurrent, Shaped
<1>14. \A i \in DOMAIN d.outbox : d.outbox[i].kind = "create" =>
         i \in DOMAIN c.outbox /\ d.outbox[i] = c.outbox[i]
  BY <1>3, <1>7
<1>15. CreatesOrdered(d)
  BY <1>4, <1>14 DEF Shaped, CreatesOrdered
<1>16. \A i \in DOMAIN d.outbox : ~AfterStart(d, i)
  <2>. SUFFICES ASSUME NEW i \in DOMAIN d.outbox, AfterStart(d, i)  PROVE FALSE
    OBVIOUS
  <2>1. i \in DOMAIN c.outbox
    BY <1>14 DEF AfterStart
  <2>2. PICK j \in Starts(d, op) : j < i
    BY <1>4 DEF AfterStart
  <2>3. j = n
    <3>1. \A k \in DOMAIN c.outbox : ~(c.outbox[k].kind = "start" /\ c.outbox[k].op = op)
      BY <1>6 DEF Starts
    <3>2. j \in DOMAIN d.outbox /\ d.outbox[j].kind = "start" /\ d.outbox[j].op = op
      BY DEF Starts
    <3>. QED  BY <1>7, <3>1, <3>2
  <2>. QED  BY <1>7, <1>8, <2>1, <2>2, <2>3
<1>17. LastCreate(d) /\ NoCreateRuns(d)
  BY <1>4, <1>16 DEF LastCreate, NoCreateRuns
<1>18. Carries(c, d)
  <2>1. Extends(c.outbox, d.outbox)
    BY <1>7 DEF Extends, SameEffect
  <2>2. \A x \in Lanes :
         /\ d.gen[x] >= c.gen[x] /\ d.cgen[x] >= c.cgen[x]
         /\ d.phase[x] = "resuming" => c.phase[x] = "resuming" /\ d.gen[x] = c.gen[x]
    BY <1>4, <1>9, ChatParts
  <2>3. \A x \in Lanes, i \in DOMAIN d.outbox : PendingCreate(d, x, i) =>
         i \in DOMAIN c.outbox /\ PendingCreate(c, x, i)
    BY <1>14 DEF PendingCreate
  <2>. QED  BY <1>4, <1>7, <2>1, <2>2, <2>3 DEF Carries
<1>19. Steady(c, d)
  BY <1>4, <1>7, <1>9 DEF Steady, Taken
<1>20. Holds(c, d)
  BY <1>4, <1>6, <1>16 DEF Holds
<1>. QED
  BY <1>10, <1>11, <1>12, <1>13, <1>15, <1>17, <1>18, <1>19, <1>20 DEF Shaped

\* The foreground does not wait.
Apart(c) == c.fg \notin QueuedOps(c)

\* drive keeps the shape, carries on, holds and is steady.
LEMMA DriveShaped ==
    ASSUME NEW c \in Placed, Shaped(c), NEW covered \in BOOLEAN, Apart(Drive(c, covered))
    PROVE  /\ Shaped(Drive(c, covered)) /\ Carries(c, Drive(c, covered))
           /\ Holds(c, Drive(c, covered)) /\ Steady(c, Drive(c, covered))
<1>. DEFINE d == Drive(c, covered)
            l == DriveTarget(c)
<1>. SUFFICES Shaped(d) /\ Carries(c, d) /\ Holds(c, d) /\ Steady(c, d)
  OBVIOUS
<1>1. c \in Chat /\ d \in Placed
  BY DrivePlaced DEF Placed
<1>2. ASSUME d.thread = c.thread, d.cand = c.cand, d.cgen = c.cgen, d.phase = c.phase,
             d.gen = c.gen, d.outbox = c.outbox, TurnSame(c, d)
      PROVE  Shaped(d) /\ Carries(c, d) /\ Holds(c, d) /\ Steady(c, d)
  <2>. HIDE DEF d
  <2>1. d.fg = NoOp => ~d.running /\ ~d.consumed /\ ~d.stopping
    BY <1>2 DEF Shaped, ForegroundFits, TurnSame
  <2>2. d.stopping => c.running
    BY <1>2 DEF Shaped, ForegroundFits, TurnSame
  <2>3. Fades(c.outbox, d.outbox) /\ Taken(c.outbox, d.outbox)
    BY <1>2, FadesTransitive
  <2>4. LanesCalm(c, d)
    BY <1>2 DEF LanesCalm
  <2>5. TurnCalm(c, d)
    BY <1>2, <2>2 DEF TurnCalm, TurnSame
  <2>6. QueueCalm(c, d)
    BY <1>2 DEF QueueCalm, QueuedOps, TurnSame
  <2>7. Calm(c, d)
    BY <2>3, <2>4, <2>5, <2>6 DEF Calm
  <2>. QED  BY <1>1, <1>2, <2>3, <2>7, CalmShaped, CalmCarries DEF Steady
<1>3. CASE d = c
  BY <1>2, <1>3 DEF TurnSame
<1>4. CASE c.fg = NoOp /\ l # NoLane
  <2>1. d = DriveLane(c, l, covered)
    BY <1>4 DEF Drive
  <2>2. l \in Lanes /\ (c.queue # <<>> => l = c.lane[Head(c.queue)])
    <3>1. CASE c.queue # <<>>
      <4>1. Head(c.queue) = c.queue[1] /\ 1 \in 1 .. Len(c.queue)
        BY <1>1, <3>1, HeadTailProperties DEF Chat
      <4>. QED  BY <3>1, <4>1 DEF Placed, DriveTarget
    <3>2. CASE c.queue = <<>>
      BY <1>1, <1>4, <3>2 DEF DriveTarget, Chat
    <3>. QED  BY <3>1, <3>2
  <2>. HIDE DEF l
  <2>3. FgLane(c) # l
    BY <1>4, <2>2, NoOpIsNoOp DEF FgLane
  <2>4. CASE c.phase[l] = "absent" /\ d = OpenByCreate(c, l, c.cgen[l] + 1, c.cand[l] # 0)
    <3>. DEFINE g == c.cgen[l] + 1
                r == c.cand[l] # 0
    <3>1. g \in Nat /\ g > c.cgen[l] /\ c.gen[l] \in Nat /\ c.gen[l] >= c.gen[l]
      BY <2>2, ChatParts
    <3>2. c.thread[l] = 0
      BY <2>2, <2>4 DEF Shaped, PhasesFit, Established
    <3>. HIDE DEF g, r
    <3>3. /\ TurnSame(c, d) /\ d.thread = c.thread /\ d.cand = c.cand /\ d.gen = c.gen
          /\ d.phase = [c.phase EXCEPT ![l] = "creating"] /\ d.cgen = [c.cgen EXCEPT ![l] = g]
          /\ d.outbox = Record(c.outbox, CreateEffect(l, g, r))
      <4>. HIDE DEF d
      <4>. QED  BY <1>1, <2>4 DEF OpenByCreate, Chat, TurnSame, g, r
    <3>4. d.gen = [c.gen EXCEPT ![l] = c.gen[l]] /\ r \in BOOLEAN
      BY <1>1, <3>3 DEF Chat, r
    <3>. HIDE DEF d
    <3>. QED  BY <1>1, <2>2, <2>3, <3>1, <3>2, <3>3, <3>4, CreateShaped
  <2>5. CASE c.phase[l] = "detached" /\ d = OpenByResume(c, l, c.gen[l] + 1)
    <3>. DEFINE g == c.gen[l] + 1
    <3>1. g \in Nat /\ g > c.gen[l]
      BY <2>2, ChatParts
    <3>2. c.thread[l] # 0 /\ c.phase[l] # "resuming"
      BY <2>2, <2>5 DEF Shaped, PhasesFit, Established
    <3>. HIDE DEF g
    <3>3. /\ TurnSame(c, d) /\ d.thread = c.thread /\ d.cand = c.cand /\ d.cgen = c.cgen
          /\ d.phase = [c.phase EXCEPT ![l] = "resuming"] /\ d.gen = [c.gen EXCEPT ![l] = g]
          /\ d.outbox = Record(c.outbox, ResumeEffect(l, g))
      <4>. HIDE DEF d
      <4>. QED  BY <1>1, <2>5 DEF OpenByResume, Chat, TurnSame, g
    <3>. HIDE DEF d
    <3>. QED  BY <1>1, <2>2, <2>3, <3>1, <3>2, <3>3, ResumeShaped
  <2>6. CASE c.phase[l] = "ready" /\ c.queue # <<>> /\ d = BeginForeground(c, l, "running")
    BY <1>4, <2>2, <2>6, BeginShaped DEF Apart
  <2>7. CASE c.phase[l] = "creating" /\ c.cand[l] # 0 /\ c.queue # <<>>
             /\ d = BeginForeground(c, l, "creating")
    BY <1>4, <2>2, <2>7, BeginShaped DEF Apart
  <2>8. CASE d = [c EXCEPT !.active = l]
    <3>1. /\ TurnSame(c, d) /\ d.thread = c.thread /\ d.cand = c.cand /\ d.cgen = c.cgen
          /\ d.phase = c.phase /\ d.gen = c.gen /\ d.outbox = c.outbox
      <4>. HIDE DEF d
      <4>. QED  BY <1>1, <2>8 DEF Chat, TurnSame
    <3>. HIDE DEF d
    <3>. QED  BY <1>2, <3>1
  <2>. HIDE DEF d
  <2>. QED  BY <1>3, <2>1, <2>4, <2>5, <2>6, <2>7, <2>8 DEF DriveLane
<1>. QED  BY <1>3, <1>4 DEF Drive

\* What a command does to a shaped chat.
Passes(c, d) == Shaped(d) /\ Carries(c, d) /\ Holds(c, d)

\* A calm change, and then a drive.
LEMMA CalmDriven ==
    ASSUME NEW c \in Placed, Shaped(c), NEW m \in Placed, Calm(c, m), NEW d, Apart(d),
           \/ d = m
           \/ d = DriveQueued(m)
           \/ \E covered \in BOOLEAN : d = Drive(m, covered)
    PROVE  Passes(c, d) /\ (Steady(c, m) => Steady(c, d))
<1>1. Passes(c, m)
  BY CalmShaped, CalmCarries DEF Passes
<1>2. ASSUME NEW covered \in BOOLEAN, d = Drive(m, covered)
      PROVE  Passes(c, d) /\ (Steady(c, m) => Steady(c, d))
  <2>1. /\ Shaped(d) /\ Carries(m, d) /\ Holds(m, d) /\ Steady(m, d) /\ d \in Placed
    BY <1>1, <1>2, DriveShaped, DrivePlaced DEF Passes
  <2>2. Carries(c, d) /\ Holds(c, d)
    BY <1>1, <2>1, CarriesTransitive DEF Passes
  <2>3. Steady(c, m) => Steady(c, d)
    BY <1>1, <2>1, SteadyTransitive DEF Passes, Carries
  <2>. QED  BY <2>1, <2>2, <2>3 DEF Passes
<1>3. CASE d = m
  BY <1>1, <1>3
<1>4. CASE d = DriveQueued(m)
  BY <1>2, <1>3, <1>4 DEF DriveQueued
<1>. QED  BY <1>2, <1>3, <1>4

(***************************************************************************)
(* The parts of a calm change.                                             *)
(***************************************************************************)
\* No resume of a lane that does not resume is pending, now or later.
LEMMA NoResume ==
    ASSUME NEW c, NEW d, Shaped(c), Fades(c.outbox, d.outbox), NEW l,
           \/ c.phase[l] # "resuming"
           \/ \A i \in Resumes(c, l, c.gen[l]) : d.outbox[i].status # "pending"
    PROVE  \A i \in DOMAIN d.outbox :
             ~(d.outbox[i].kind = "resume" /\ d.outbox[i].lane = l /\ d.outbox[i].status = "pending")
<1>. SUFFICES ASSUME NEW i \in DOMAIN d.outbox, d.outbox[i].kind = "resume", d.outbox[i].lane = l,
                     d.outbox[i].status = "pending"
              PROVE  FALSE
  OBVIOUS
<1>1. /\ i \in DOMAIN c.outbox /\ c.outbox[i].kind = "resume" /\ c.outbox[i].lane = l
      /\ c.outbox[i].status = "pending"
  BY DEF Fades, Extends, SameEffect, Opening
<1>2. c.phase[l] = "resuming" /\ c.outbox[i].gen = c.gen[l]
  BY <1>1 DEF Shaped, ResumesCurrent
<1>. QED  BY <1>1, <1>2 DEF Resumes

\* The phase of one lane moves to rest, maybe with its generation.
LEMMA LaneRests ==
    ASSUME NEW c, NEW d, Shaped(c), Fades(c.outbox, d.outbox), NEW l \in Lanes,
           d.thread = c.thread, d.cand = c.cand, d.cgen = c.cgen, d.gen[l] >= c.gen[l],
           (d.phase[l] \in Established) <=> (c.thread[l] # 0), d.phase[l] # "resuming",
           c.cand[l] # 0 => d.phase[l] \in {"absent", "creating"},
           \A x \in Lanes \ {l} : d.phase[x] = c.phase[x] /\ d.gen[x] = c.gen[x],
           \/ c.phase[l] # "resuming"
           \/ \A i \in Resumes(c, l, c.gen[l]) : d.outbox[i].status # "pending"
    PROVE  LanesCalm(c, d)
<1>1. Rests(d, l)
  BY NoResume DEF Rests
<1>. QED  BY <1>1 DEF LanesCalm

\* The phase a lane without attachment takes.
LEMMA UnattachedFits ==
    ASSUME NEW c, NEW l \in Lanes, Shaped(c)
    PROVE  /\ (Unattached(c, l) \in Established) <=> (c.thread[l] # 0)
           /\ Unattached(c, l) # "resuming"
           /\ c.cand[l] # 0 => Unattached(c, l) = "absent" /\ c.thread[l] = 0
BY DEF Unattached, Established, Shaped, PhasesFit

\* Only the outbox and the Stop of the turn change.
LEMMA BoxPasses ==
    ASSUME NEW c \in Placed, Shaped(c), NEW d \in Placed,
           d.thread = c.thread, d.cand = c.cand, d.cgen = c.cgen, d.phase = c.phase, d.gen = c.gen,
           d.queue = c.queue, d.lane = c.lane, d.fg = c.fg, d.running = c.running,
           d.consumed = c.consumed, d.stopping => c.running, Fades(c.outbox, d.outbox)
    PROVE  Passes(c, d) /\ (Taken(c.outbox, d.outbox) => Steady(c, d))
<1>1. Calm(c, d)
  BY DEF Calm, LanesCalm, TurnCalm, QueueCalm, QueuedOps
<1>. QED  BY <1>1, CalmShaped, CalmCarries DEF Passes, Steady

\* Steadiness of a calm change of one lane that does not resume.
LEMMA LaneSteady ==
    ASSUME NEW c, NEW d, NEW l, Taken(c.outbox, d.outbox), c.phase[l] # "resuming",
           \A x \in Lanes \ {l} : d.phase[x] = c.phase[x] /\ d.gen[x] = c.gen[x]
    PROVE  Steady(c, d)
BY DEF Steady

(***************************************************************************)
(* Commands of the user and the Stop.                                      *)
(***************************************************************************)
\* A selected or addressed lane that was given up may be opened again.
LEMMA RevivedCalm ==
    ASSUME NEW c \in Placed, Shaped(c), NEW l \in Lanes, NEW m \in Placed,
           c.phase[l] \in {"unselected", "blocked"},
           m.thread = c.thread, m.cand = c.cand, m.cgen = c.cgen, m.gen = c.gen,
           m.phase = [c.phase EXCEPT ![l] = "absent"], m.outbox = c.outbox,
           m.fg = c.fg, m.running = c.running, m.consumed = c.consumed, m.stopping = c.stopping,
           QueueCalm(c, m)
    PROVE  Calm(c, m) /\ Steady(c, m)
<1>1. Fades(c.outbox, m.outbox) /\ Taken(c.outbox, m.outbox)
  BY FadesTransitive
<1>2. c.thread[l] = 0 /\ c.phase[l] # "resuming"
  BY DEF Shaped, PhasesFit, Established
<1>3. LanesCalm(c, m) /\ \A x \in Lanes \ {l} : m.phase[x] = c.phase[x] /\ m.gen[x] = c.gen[x]
  <2>1. m.phase[l] = "absent" /\ \A x \in Lanes \ {l} : m.phase[x] = c.phase[x] /\ m.gen[x] = c.gen[x]
    BY DEF Placed, Chat
  <2>2. Rests(m, l)
    BY <1>1, <1>2, <2>1, NoResume DEF Rests, Established
  <2>3. m.gen[l] >= c.gen[l]
    BY ChatParts
  <2>. QED  BY <2>1, <2>2, <2>3 DEF LanesCalm
<1>4. TurnCalm(c, m)
  <2>1. c.fg # NoOp => FgLane(c) \in Lanes \ {l}
    BY ChatParts DEF Shaped, ForegroundFits
  <2>. QED  BY <1>3, <2>1 DEF TurnCalm, Shaped, ForegroundFits
<1>5. Steady(c, m)
  BY <1>1, <1>2, <1>3 DEF Steady
<1>. QED  BY <1>1, <1>3, <1>4, <1>5 DEF Calm

\* No phase and no turn changes.
LEMMA UnmovedCalm ==
    ASSUME NEW c \in Placed, Shaped(c), NEW m \in Placed,
           m.thread = c.thread, m.cand = c.cand, m.cgen = c.cgen, m.gen = c.gen,
           m.phase = c.phase, Fades(c.outbox, m.outbox), Taken(c.outbox, m.outbox),
           m.fg = c.fg, m.running = c.running, m.consumed = c.consumed, m.stopping = c.stopping,
           QueueCalm(c, m)
    PROVE  Calm(c, m) /\ Steady(c, m)
BY DEF Calm, LanesCalm, TurnCalm, Steady, Shaped, ForegroundFits

\* The foreground is cleared; its lane keeps its phase or comes to rest.
LEMMA ClearedCalm ==
    ASSUME NEW c \in Placed, Shaped(c), NEW m \in Placed, LanesCalm(c, m),
           m.fg = NoOp, ~m.running, ~m.consumed, ~m.stopping,
           QueueCalm(c, m), Fades(c.outbox, m.outbox)
    PROVE  Calm(c, m)
BY DEF Calm, TurnCalm

\* SelectLane.
LEMMA SelectLaneShaped ==
    ASSUME NEW c \in Placed, Shaped(c), NEW l \in Lanes, NEW covered \in BOOLEAN,
           Apart(SelectLane(c, l, covered))
    PROVE  Passes(c, SelectLane(c, l, covered)) /\ Steady(c, SelectLane(c, l, covered))
<1>. DEFINE again   == c.phase[l] = "unselected" \/ (c.phase[l] = "blocked" /\ c.cand[l] = 0)
            revived == IF again THEN [c EXCEPT !.phase[l] = "absent"] ELSE c
            m == [revived EXCEPT !.desired = l]
            d == SelectLane(c, l, covered)
<1>. SUFFICES Passes(c, d) /\ Steady(c, d)
  OBVIOUS
<1>1. c \in Chat
  BY DEF Placed
<1>2. /\ m \in Chat /\ TurnSame(c, m) /\ m.outbox = c.outbox
      /\ m.thread = c.thread /\ m.cand = c.cand /\ m.cgen = c.cgen /\ m.gen = c.gen
      /\ m.phase = IF again THEN [c.phase EXCEPT ![l] = "absent"] ELSE c.phase
  BY <1>1 DEF Chat, Phases, TurnSame
<1>3. d = IF c.fg # NoOp THEN m ELSE Drive(m, covered)
  BY DEF SelectLane
<1>. HIDE DEF m, d
<1>4. m \in Placed /\ QueueCalm(c, m)
  BY <1>2, Frame DEF TurnSame, QueueCalm, QueuedOps
<1>5. Fades(c.outbox, m.outbox) /\ Taken(c.outbox, m.outbox)
  BY <1>2, FadesTransitive
<1>6. Calm(c, m) /\ Steady(c, m)
  BY <1>2, <1>4, <1>5, RevivedCalm, UnmovedCalm DEF TurnSame
<1>. QED  BY <1>3, <1>4, <1>6, CalmDriven DEF d

\* Submit.
LEMMA SubmitShaped ==
    ASSUME NEW c \in Placed, Shaped(c), NEW op \in Ops, NEW l \in Lanes, NEW covered \in BOOLEAN,
           CanSubmit(c, op, l), Apart(Submit(c, op, l, covered))
    PROVE  Passes(c, Submit(c, op, l, covered)) /\ Steady(c, Submit(c, op, l, covered))
<1>. DEFINE revived == IF c.phase[l] = "blocked" THEN [c EXCEPT !.phase[l] = "absent"] ELSE c
            m == [revived EXCEPT !.lane[op] = l, !.queue = Append(@, op)]
            d == Submit(c, op, l, covered)
<1>. SUFFICES Passes(c, d) /\ Steady(c, d)
  OBVIOUS
<1>1. c \in Chat /\ c.queue \in Seq(Ops) /\ c.lane[op] = NoLane
  BY DEF Placed, Chat, CanSubmit
<1>2. /\ m \in Chat /\ m.outbox = c.outbox /\ m.fg = c.fg /\ m.running = c.running
      /\ m.consumed = c.consumed /\ m.stopping = c.stopping
      /\ m.thread = c.thread /\ m.cand = c.cand /\ m.cgen = c.cgen /\ m.gen = c.gen
      /\ m.phase = IF c.phase[l] = "blocked" THEN [c.phase EXCEPT ![l] = "absent"] ELSE c.phase
      /\ m.lane = [c.lane EXCEPT ![op] = l] /\ m.queue = Append(c.queue, op)
  <2>1. Append(c.queue, op) \in Seq(Ops)
    BY <1>1
  <2>. QED  BY <1>1, <2>1 DEF Chat, Phases
<1>3. d = Drive(m, covered)
  BY DEF Submit
<1>. HIDE DEF m, d
<1>4. \A o \in Ops : c.lane[o] # NoLane => m.lane[o] = c.lane[o]
  BY <1>1, <1>2 DEF Chat
<1>5. DOMAIN c.queue = 1 .. Len(c.queue) /\ Len(c.queue) \in Nat
      /\ DOMAIN m.queue = 1 .. (Len(c.queue) + 1) /\ m.queue[Len(c.queue) + 1] = op
      /\ \A i \in 1 .. Len(c.queue) : m.queue[i] = c.queue[i]
  BY <1>1, <1>2
<1>6. QueueCalm(c, m)
  <2>1. QueuedOps(m) \subseteq QueuedOps(c) \union {op}
    BY <1>5 DEF QueuedOps
  <2>. QED  BY <1>1, <1>4, <2>1 DEF QueueCalm
<1>7. m \in Placed
  <2>1. m.lane[op] \in Lanes
    BY <1>1, <1>2 DEF Chat
  <2>2. \A i \in 1 .. Len(m.queue) : m.lane[m.queue[i]] \in Lanes
    <3>1. \A i \in 1 .. Len(c.queue) : c.queue[i] \in Ops /\ c.lane[c.queue[i]] \in Lanes
      BY <1>1 DEF Placed
    <3>2. \A i \in 1 .. Len(c.queue) : m.lane[c.queue[i]] \in Lanes
      BY <1>4, <3>1, NoOpIsNoOp
    <3>3. Len(m.queue) = Len(c.queue) + 1
      BY <1>1, <1>2
    <3>4. \A i \in 1 .. Len(m.queue) : i \in 1 .. Len(c.queue) \/ i = Len(c.queue) + 1
      BY <1>5, <3>3
    <3>. QED  BY <1>5, <2>1, <3>2, <3>4
  <2>3. m.fg # NoOp => m.lane[m.fg] \in Lanes
    BY <1>2, <1>4, ChatParts, NoOpIsNoOp
  <2>. QED  BY <1>2, <2>2, <2>3 DEF Placed
<1>8. Fades(c.outbox, m.outbox) /\ Taken(c.outbox, m.outbox)
  BY <1>2, FadesTransitive
<1>9. Calm(c, m) /\ Steady(c, m)
  BY <1>2, <1>6, <1>7, <1>8, RevivedCalm, UnmovedCalm
<1>. QED  BY <1>3, <1>7, <1>9, CalmDriven DEF d

\* Marks of starts and Stops open nothing.
LEMMA MarkTurnFades ==
    ASSUME NEW b \in Seq(Entry), NEW ids, NEW status,
           \A i \in DOMAIN b : i \in ids => b[i].kind \in {"start", "stop"}
    PROVE  Fades(b, Mark(b, ids, status)) /\ (status # "pending" => Taken(b, Mark(b, ids, status)))
BY MarkFades DEF Opening

\* CancelPendingTurn.
LEMMA WithdrawShaped ==
    ASSUME NEW c \in Placed, Shaped(c), NEW op \in Ops, CanWithdraw(c, op), NEW covered \in BOOLEAN,
           Apart(Withdraw(c, op, covered))
    PROVE  Passes(c, Withdraw(c, op, covered)) /\ Steady(c, Withdraw(c, op, covered))
<1>. DEFINE l == c.lane[op]
            box == Mark(c.outbox, Starts(c, op), "failed")
            phase == IF c.phase[l] = "running" THEN "ready" ELSE c.phase[l]
            unbegun == [c EXCEPT !.outbox = box,
                                 !.phase[l] = IF @ = "running" THEN "ready" ELSE @]
            dropped == IF c.fg = op THEN ClearForeground(unbegun)
                       ELSE [c EXCEPT !.queue = RemoveFirst(@, FirstOf(@, {op}))]
            m == [dropped EXCEPT !.fate[op] = "withdrawn"]
            d == Withdraw(c, op, covered)
<1>. SUFFICES Passes(c, d) /\ Steady(c, d)
  OBVIOUS
<1>1. c \in Chat /\ c.queue \in Seq(Ops) /\ box \in Seq(Entry)
  BY MarkType DEF Placed, Chat, Statuses
<1>2. d = Drive(m, covered)
  BY DEF Withdraw
<1>3. Fades(c.outbox, box) /\ Taken(c.outbox, box)
  BY OutboxEntries, MarkTurnFades DEF Starts
<1>. HIDE DEF box, d
<1>4. CASE c.fg = op
  <2>1. l \in Lanes /\ FgLane(c) = l /\ op # NoOp
    BY <1>4, ChatParts, NoOpIsNoOp
  <2>2. ~c.running
    <3>1. PICK i \in DOMAIN c.outbox : c.outbox[i].kind = "start" /\ c.outbox[i].op = c.fg
      BY <1>4, NoOpIsNoOp DEF Shaped, StartsOnce, Starts
    <3>2. c.fg \notin QueuedOps(c)
      BY <3>1 DEF Shaped, StartsOnce
    <3>. QED  BY <1>4, <3>2 DEF CanWithdraw
  <2>3. ~c.stopping
    BY <2>2 DEF Shaped, ForegroundFits
  <2>. HIDE DEF l
  <2>4. /\ m \in Chat /\ m.queue = c.queue /\ m.fg = NoOp /\ m.lane = c.lane
        /\ m.thread = c.thread /\ m.cand = c.cand /\ m.cgen = c.cgen /\ m.gen = c.gen
        /\ m.phase = [c.phase EXCEPT ![l] = phase] /\ m.outbox = box
        /\ ~m.running /\ ~m.consumed /\ m.stopping = c.stopping
    <3>1. unbegun = [c EXCEPT !.outbox = box, !.phase = [c.phase EXCEPT ![l] = phase]]
      BY <1>1
    <3>2. phase \in Phases
      BY <1>1, <2>1 DEF Chat, Phases
    <3>. HIDE DEF phase
    <3>3. unbegun \in Chat
      <4>1. [c.phase EXCEPT ![l] = phase] \in [Lanes -> Phases]
        BY <1>1, <3>2 DEF Chat
      <4>. HIDE DEF unbegun
      <4>. QED  BY <1>1, <3>1, <4>1 DEF Chat
    <3>4. /\ unbegun.outbox = box /\ unbegun.phase = [c.phase EXCEPT ![l] = phase]
          /\ unbegun.queue = c.queue /\ unbegun.lane = c.lane /\ unbegun.thread = c.thread
          /\ unbegun.cand = c.cand /\ unbegun.cgen = c.cgen /\ unbegun.gen = c.gen
          /\ unbegun.stopping = c.stopping
      BY <1>1, <3>1 DEF Chat
    <3>. HIDE DEF unbegun
    <3>5. m = [unbegun EXCEPT !.fg = NoOp, !.running = FALSE, !.consumed = FALSE,
                              !.fate = [@ EXCEPT ![op] = "withdrawn"]]
      BY <1>4, <3>3 DEF ClearForeground, Chat
    <3>. HIDE DEF m
    <3>. QED  BY <3>3, <3>4, <3>5 DEF Chat, Fates
  <2>. HIDE DEF m
  <2>5. m \in Placed
    BY <2>4, Frame
  <2>6. m.phase[l] = phase /\ \A x \in Lanes \ {l} : m.phase[x] = c.phase[x]
    BY <1>1, <2>1, <2>4 DEF Chat
  <2>7. LanesCalm(c, m)
    <3>1. CASE c.phase[l] = "running"
      <4>1. Rests(m, l)
        BY <1>3, <2>1, <2>4, <2>6, <3>1, NoResume DEF Rests, Shaped, PhasesFit, Established
      <4>2. m.gen[l] >= c.gen[l]
        BY <2>1, <2>4, ChatParts
      <4>. QED  BY <2>4, <2>6, <4>1, <4>2 DEF LanesCalm
    <3>2. CASE c.phase[l] # "running"
      BY <2>4, <2>6, <3>2 DEF LanesCalm
    <3>. QED  BY <3>1, <3>2
  <2>8. QueueCalm(c, m)
    BY <2>4 DEF QueueCalm, QueuedOps
  <2>9. Calm(c, m)
    BY <1>3, <2>3, <2>4, <2>5, <2>7, <2>8, ClearedCalm
  <2>10. Steady(c, m)
    BY <1>3, <2>4, <2>6 DEF Steady
  <2>. QED  BY <1>2, <2>5, <2>9, <2>10, CalmDriven DEF d
<1>5. CASE c.fg # op
  <2>. DEFINE i == FirstOf(c.queue, {op})
              q == RemoveFirst(c.queue, i)
  <2>1. i \in 1 .. Len(c.queue)
    BY <1>1, <1>5, FirstOfIn DEF CanWithdraw, QueuedOps
  <2>2. /\ q \in Seq(Ops) /\ Len(q) = Len(c.queue) - 1
        /\ \A j \in 1 .. Len(c.queue) - 1 : q[j] = IF j < i THEN c.queue[j] ELSE c.queue[j + 1]
    BY <1>1, <2>1, RemoveFirstType
  <2>3. [c EXCEPT !.queue = q] \in Placed
    BY <2>1, RemovePlaced
  <2>. HIDE DEF i, q
  <2>4. /\ m \in Chat /\ m.queue = q /\ m.fg = c.fg /\ m.lane = c.lane
        /\ m.thread = c.thread /\ m.cand = c.cand /\ m.cgen = c.cgen /\ m.gen = c.gen
        /\ m.phase = c.phase /\ m.outbox = c.outbox
        /\ m.running = c.running /\ m.consumed = c.consumed /\ m.stopping = c.stopping
    BY <1>1, <1>5, <2>2 DEF Chat, Fates, q, i
  <2>. HIDE DEF m
  <2>5. m \in Placed
    <3>1. [c EXCEPT !.queue = q].queue = q /\ [c EXCEPT !.queue = q].lane = c.lane
          /\ [c EXCEPT !.queue = q].fg = c.fg
      BY <1>1 DEF Chat
    <3>. QED  BY <2>3, <2>4, <3>1, Frame
  <2>6. QueueCalm(c, m)
    <3>1. DOMAIN q = 1 .. Len(c.queue) - 1 /\ DOMAIN c.queue = 1 .. Len(c.queue)
          /\ Len(c.queue) \in Nat
      BY <1>1, <2>2
    <3>2. \A j \in 1 .. Len(c.queue) - 1 : j \in 1 .. Len(c.queue) /\ j + 1 \in 1 .. Len(c.queue)
      BY <3>1
    <3>3. \A j \in DOMAIN q : q[j] \in QueuedOps(c)
      BY <2>2, <3>1, <3>2 DEF QueuedOps
    <3>. QED  BY <2>4, <3>3 DEF QueueCalm, QueuedOps
  <2>7. Fades(c.outbox, m.outbox) /\ Taken(c.outbox, m.outbox)
    BY <2>4, FadesTransitive
  <2>8. Calm(c, m) /\ Steady(c, m)
    BY <2>4, <2>5, <2>6, <2>7, UnmovedCalm
  <2>. QED  BY <1>2, <2>5, <2>8, CalmDriven DEF d
<1>. QED  BY <1>4, <1>5

\* CancelTurn records a Stop behind everything else.
LEMMA StopShaped ==
    ASSUME NEW c \in Placed, Shaped(c), CanStop(c)
    PROVE  Passes(c, StopTurn(c)) /\ Steady(c, StopTurn(c))
<1>. DEFINE d == StopTurn(c)
            e == StopEffect(c.lane[c.fg], c.fg, Cardinality(Stops(c, c.fg)) + 1)
<1>1. c \in Chat /\ d \in Placed
  BY StopPlaced DEF Placed
<1>2. d = [c EXCEPT !.stopping = TRUE, !.outbox = Record(@, e)]
  BY DEF StopTurn
<1>3. e \in Entry /\ e.kind = "stop"
  <2>1. Cardinality(Stops(c, c.fg)) + 1 \in Nat
    <3>1. IsFiniteSet(1 .. Len(c.outbox))
      BY OutboxEntries, FS_Interval
    <3>2. Stops(c, c.fg) \subseteq 1 .. Len(c.outbox)
      BY OutboxEntries DEF Stops
    <3>. QED  BY <3>1, <3>2, FS_Subset, FS_CardinalityType
  <2>2. c.fg \in Ops /\ c.lane[c.fg] \in Lanes
    BY ChatParts DEF CanStop
  <2>. QED  BY <2>1, <2>2, EffectType DEF StopEffect
<1>. HIDE DEF d, e
<1>4. /\ d.thread = c.thread /\ d.cand = c.cand /\ d.cgen = c.cgen /\ d.phase = c.phase
      /\ d.gen = c.gen /\ d.queue = c.queue /\ d.lane = c.lane /\ d.fg = c.fg
      /\ d.running = c.running /\ d.consumed = c.consumed /\ c.running
      /\ d.outbox = Record(c.outbox, e)
  BY <1>1, <1>2 DEF Chat, CanStop
<1>5. Recorded(c.outbox, d.outbox, e)
  BY <1>3, <1>4, OutboxEntries, RecordFacts
<1>6. Extends(c.outbox, d.outbox)
  BY <1>5 DEF Recorded, Extends, SameEffect
<1>7. Fades(c.outbox, d.outbox) /\ Taken(c.outbox, d.outbox)
  BY <1>3, <1>5, <1>6 DEF Recorded, Fades, Taken
<1>8. Passes(c, d) /\ Steady(c, d)
  BY <1>1, <1>4, <1>7, BoxPasses
<1>. QED  BY <1>8 DEF d

\* Marking effects of the turn, and the Stop with them.
LEMMA MarkPasses ==
    ASSUME NEW c \in Placed, Shaped(c), NEW d, NEW ids, NEW status \in Statuses, NEW stopping \in BOOLEAN,
           d = [c EXCEPT !.outbox = Mark(@, ids, status), !.stopping = stopping],
           stopping => c.stopping,
           \A i \in DOMAIN c.outbox : i \in ids /\ Opening(c.outbox[i]) =>
               \/ status \in {"completed", "failed", "ambiguous"}
               \/ status # "pending" /\ ~Over(c.outbox[i])
    PROVE  d \in Placed /\ Passes(c, d) /\ (status # "pending" => Steady(c, d))
<1>. DEFINE box == Mark(c.outbox, ids, status)
<1>1. c \in Chat /\ box \in Seq(Entry)
  BY MarkType DEF Placed, Chat
<1>2. Fades(c.outbox, box) /\ (status # "pending" => Taken(c.outbox, box))
  BY OutboxEntries, MarkFades
<1>. HIDE DEF box
<1>3. /\ d \in Chat /\ d.thread = c.thread /\ d.cand = c.cand /\ d.cgen = c.cgen
      /\ d.phase = c.phase /\ d.gen = c.gen /\ d.queue = c.queue /\ d.lane = c.lane
      /\ d.fg = c.fg /\ d.running = c.running /\ d.consumed = c.consumed
      /\ d.stopping = stopping /\ d.outbox = box
  BY <1>1 DEF Chat, box
<1>4. d \in Placed
  BY <1>3, Frame
<1>5. d.stopping => c.running
  BY <1>3 DEF Shaped, ForegroundFits
<1>. QED  BY <1>2, <1>3, <1>4, <1>5, BoxPasses

\* CancelAcknowledged and CancelFailed.
LEMMA StopAnsweredShaped ==
    ASSUME NEW c \in Placed, Shaped(c)
    PROVE  /\ Passes(c, StopAcknowledged(c)) /\ Steady(c, StopAcknowledged(c))
           /\ Passes(c, StopFailed(c)) /\ Steady(c, StopFailed(c))
<1>1. c \in Chat /\ c.stopping \in BOOLEAN /\ {"accepted", "failed"} \subseteq Statuses
  BY DEF Placed, Chat, Statuses
<1>2. \A i \in DOMAIN c.outbox : i \in CurrentStop(c) => ~Opening(c.outbox[i])
  BY DEF CurrentStop, Stops, Opening
<1>3. StopAcknowledged(c) = [c EXCEPT !.outbox = Mark(@, CurrentStop(c), "accepted"),
                                      !.stopping = c.stopping]
  BY <1>1 DEF StopAcknowledged, Chat
<1>4. Passes(c, StopAcknowledged(c)) /\ Steady(c, StopAcknowledged(c))
  BY <1>1, <1>2, <1>3, MarkPasses
<1>5. Passes(c, StopFailed(c)) /\ Steady(c, StopFailed(c))
  BY <1>1, <1>2, MarkPasses DEF StopFailed
<1>. QED  BY <1>4, <1>5

\* A claim by the engine or the Stop executor.
LEMMA ClaimShaped ==
    ASSUME NEW c \in Placed, Shaped(c), NEW ids,
           \A i \in DOMAIN c.outbox : i \in ids /\ Opening(c.outbox[i]) => c.outbox[i].status = "pending",
           NEW d, d = [c EXCEPT !.outbox = Mark(@, ids, "dispatched")]
    PROVE  Passes(c, d) /\ Steady(c, d)
<1>. DEFINE status == "dispatched"
            box == Mark(c.outbox, ids, status)
<1>1. c \in Chat /\ status \in Statuses /\ status # "pending" /\ c.outbox \in Seq(Entry)
  BY DEF Placed, Chat, Statuses
<1>2. \A i \in DOMAIN c.outbox : i \in ids /\ Opening(c.outbox[i]) => ~Over(c.outbox[i])
  BY DEF Over
<1>. HIDE DEF status
<1>3. Fades(c.outbox, box) /\ Taken(c.outbox, box) /\ box \in Seq(Entry)
  BY <1>1, <1>2, MarkFades, MarkType
<1>4. d = [c EXCEPT !.outbox = box]
  BY DEF status
<1>. HIDE DEF box
<1>5. /\ d \in Chat /\ d.thread = c.thread /\ d.cand = c.cand /\ d.cgen = c.cgen
      /\ d.phase = c.phase /\ d.gen = c.gen /\ d.queue = c.queue /\ d.lane = c.lane
      /\ d.fg = c.fg /\ d.running = c.running /\ d.consumed = c.consumed
      /\ d.stopping = c.stopping /\ d.outbox = box
  BY <1>1, <1>3, <1>4 DEF Chat
<1>6. d \in Placed /\ (d.stopping => c.running)
  BY <1>5, Frame DEF Shaped, ForegroundFits
<1>. QED  BY <1>3, <1>5, <1>6, BoxPasses

\* TurnDeferred.
LEMMA TurnDeferredShaped ==
    ASSUME NEW c \in Placed, Shaped(c), NEW op
    PROVE  Passes(c, TurnDeferred(c, op))
<1>1. c \in Chat /\ c.stopping \in BOOLEAN /\ "pending" \in Statuses
  BY DEF Placed, Chat, Statuses
<1>. DEFINE ids == {i \in Starts(c, op) : c.outbox[i].status = "dispatched"}
<1>2. Passes(c, c)
  BY BoxPasses, FadesTransitive DEF Shaped, ForegroundFits
<1>3. \A i \in DOMAIN c.outbox : i \in ids => ~Opening(c.outbox[i])
  BY DEF Starts, Opening
<1>4. CASE TurnDeferred(c, op) = [c EXCEPT !.outbox = Mark(@, ids, "pending")]
  <2>. HIDE DEF ids
  <2>1. TurnDeferred(c, op) = [c EXCEPT !.outbox = Mark(@, ids, "pending"), !.stopping = c.stopping]
    BY <1>1, <1>4 DEF Chat
  <2>. QED  BY <1>1, <1>3, <2>1, MarkPasses
<1>. QED  BY <1>2, <1>4 DEF TurnDeferred

(***************************************************************************)
(* Settling the foreground.                                                *)
(***************************************************************************)
\* The foreground ends and its lane comes to rest.
LEMMA EndsCalm ==
    ASSUME NEW c \in Placed, Shaped(c), NEW l \in Lanes, NEW m \in Placed,
           m.thread = c.thread, m.cand = c.cand, m.cgen = c.cgen, m.gen[l] >= c.gen[l],
           (m.phase[l] \in Established) <=> (c.thread[l] # 0), m.phase[l] # "resuming",
           c.cand[l] # 0 => m.phase[l] \in {"absent", "creating"},
           \A x \in Lanes \ {l} : m.phase[x] = c.phase[x] /\ m.gen[x] = c.gen[x],
           \/ c.phase[l] # "resuming"
           \/ \A i \in Resumes(c, l, c.gen[l]) : m.outbox[i].status # "pending",
           m.fg = NoOp, ~m.running, ~m.consumed, ~m.stopping,
           QueueCalm(c, m), Fades(c.outbox, m.outbox)
    PROVE  Calm(c, m) /\ (c.phase[l] # "resuming" /\ Taken(c.outbox, m.outbox) => Steady(c, m))
<1>1. LanesCalm(c, m)
  BY LaneRests
<1>2. Calm(c, m)
  BY <1>1, ClearedCalm
<1>. QED  BY <1>2 DEF Steady

\* terminalizeInterruptedForeground: no start of the foreground and no resume
\* of its lane stays pending.
Vacated(c, d) ==
    /\ d.thread = c.thread /\ d.cand = c.cand /\ d.cgen = c.cgen /\ d.gen = c.gen
    /\ d.phase = c.phase /\ d.queue = c.queue /\ d.lane = c.lane
    /\ d.fg = NoOp /\ ~d.running /\ ~d.consumed /\ ~d.stopping
    /\ Fades(c.outbox, d.outbox) /\ Taken(c.outbox, d.outbox) /\ DOMAIN d.outbox = DOMAIN c.outbox
    /\ \A i \in DOMAIN c.outbox : c.outbox[i].kind = "resume" /\ c.outbox[i].lane = c.lane[c.fg] =>
         d.outbox[i].status # "pending"
    /\ \A i \in DOMAIN c.outbox : c.outbox[i].kind = "create" => d.outbox[i] = c.outbox[i]
    /\ \A i \in DOMAIN c.outbox : c.outbox[i].kind = "resume" /\ c.outbox[i].lane # c.lane[c.fg] =>
         d.outbox[i] = c.outbox[i]

LEMMA InterruptedCleared ==
    ASSUME NEW c \in Placed
    PROVE  Interrupted(c) \in Placed /\ Vacated(c, Interrupted(c))
<1>. DEFINE l == c.lane[c.fg]
            live(i) == c.outbox[i].status \in {"pending", "dispatched"}
            ids1 == {i \in Starts(c, c.fg) : live(i)}
            ids2 == {i \in DOMAIN c.outbox : c.outbox[i].kind = "resume"
                                             /\ c.outbox[i].lane = l /\ live(i)}
            ids3 == {i \in CurrentStop(c) : c.outbox[i].status \in
                                   {"pending", "dispatched", "accepted", "consumed"}}
            box1 == Mark(c.outbox, ids1, "ambiguous")
            box2 == Mark(box1, ids2, "failed")
            box3 == IF ~c.stopping THEN box2 ELSE Mark(box2, ids3, "ambiguous")
            d == Interrupted(c)
<1>1. c \in Chat /\ {"ambiguous", "failed"} \subseteq Statuses /\ c.outbox \in Seq(Entry)
  BY DEF Placed, Chat, Statuses
<1>2. /\ \A i \in DOMAIN c.outbox : i \in ids1 => c.outbox[i].kind = "start"
      /\ \A i \in DOMAIN c.outbox : i \in ids3 => c.outbox[i].kind = "stop"
      /\ \A i \in DOMAIN c.outbox : i \in ids2 <=> c.outbox[i].kind = "resume" /\ c.outbox[i].lane = l
                                                  /\ live(i)
  BY DEF Starts, CurrentStop, Stops
<1>3. d = [c EXCEPT !.outbox = box3, !.stopping = FALSE, !.fg = NoOp, !.running = FALSE,
                    !.consumed = FALSE,
                    !.fate = [@ EXCEPT ![c.fg] = IF c.consumed THEN "interrupted" ELSE "uncertain"]]
  <2>. HIDE DEF box3
  <2>1. d = ClearForeground([c EXCEPT !.outbox = box3, !.stopping = FALSE,
                    !.fate[c.fg] = IF c.consumed THEN "interrupted" ELSE "uncertain"])
    BY DEF Interrupted, box3
  <2>. HIDE DEF d
  <2>. QED  BY <1>1, <2>1 DEF ClearForeground, Chat
<1>. HIDE DEF ids1, ids2, ids3, d
<1>4. /\ box1 \in Seq(Entry) /\ DOMAIN box1 = DOMAIN c.outbox
      /\ Fades(c.outbox, box1) /\ Taken(c.outbox, box1)
      /\ \A i \in DOMAIN c.outbox : SameEffect(c.outbox[i], box1[i]) /\ (i \notin ids1 => box1[i] = c.outbox[i])
  <2>1. box1 \in Seq(Entry) /\ Fades(c.outbox, box1) /\ Taken(c.outbox, box1)
    BY <1>1, <1>2, MarkType, MarkTurnFades
  <2>. QED  BY <1>1, <2>1, MarkFacts
<1>. HIDE DEF box1
<1>5. /\ box2 \in Seq(Entry) /\ DOMAIN box2 = DOMAIN c.outbox
      /\ Fades(box1, box2) /\ Taken(box1, box2)
      /\ \A i \in DOMAIN c.outbox : SameEffect(c.outbox[i], box2[i]) /\ (i \in ids2 => box2[i].status = "failed")
                                    /\ (i \notin ids1 \union ids2 => box2[i] = c.outbox[i])
  <2>1. box2 \in Seq(Entry)
    BY <1>1, <1>4, MarkType
  <2>2. Fades(box1, box2) /\ Taken(box1, box2)
    BY <1>4, MarkFades
  <2>3. /\ DOMAIN box2 = DOMAIN box1
        /\ \A i \in DOMAIN box1 : /\ SameEffect(box1[i], box2[i])
                                  /\ i \in ids2 => box2[i].status = "failed"
                                  /\ i \notin ids2 => box2[i] = box1[i]
    BY <1>4, MarkFacts
  <2>. QED  BY <1>4, <2>1, <2>2, <2>3 DEF SameEffect
<1>. HIDE DEF box2
<1>6. /\ box3 \in Seq(Entry) /\ DOMAIN box3 = DOMAIN c.outbox
      /\ Fades(box2, box3) /\ Taken(box2, box3)
      /\ \A i \in DOMAIN c.outbox : i \notin ids3 => box3[i] = box2[i]
  <2>1. CASE ~c.stopping
    BY <1>5, <2>1, FadesTransitive
  <2>2. CASE c.stopping
    <3>1. box3 = Mark(box2, ids3, "ambiguous")
      BY <2>2
    <3>2. \A i \in DOMAIN box2 : i \in ids3 => box2[i].kind \in {"start", "stop"}
      BY <1>2, <1>5 DEF SameEffect
    <3>. HIDE DEF box3
    <3>3. box3 \in Seq(Entry) /\ Fades(box2, box3) /\ Taken(box2, box3)
      BY <1>1, <1>5, <3>1, <3>2, MarkType, MarkTurnFades
    <3>. QED  BY <1>5, <3>1, <3>3, MarkFacts
  <2>. QED  BY <2>1, <2>2
<1>. HIDE DEF box3
<1>7. Fades(c.outbox, box3) /\ Taken(c.outbox, box3)
  <2>1. Fades(c.outbox, box2) /\ Taken(c.outbox, box2)
    BY <1>4, <1>5, FadesTransitive DEF Fades
  <2>. QED  BY <1>5, <1>6, <2>1, FadesTransitive DEF Fades
<1>8. \A i \in DOMAIN c.outbox : c.outbox[i].kind = "resume" /\ c.outbox[i].lane = l =>
        box3[i].status # "pending"
  <2>. SUFFICES ASSUME NEW i \in DOMAIN c.outbox, c.outbox[i].kind = "resume", c.outbox[i].lane = l
                PROVE  box3[i].status # "pending"
    OBVIOUS
  <2>1. box3[i] = box2[i] /\ i \notin ids1
    BY <1>2, <1>6
  <2>2. CASE i \in ids2
    BY <1>5, <2>1, <2>2
  <2>3. CASE i \notin ids2
    BY <1>2, <1>5, <2>1, <2>3
  <2>. QED  BY <2>2, <2>3
<1>9. /\ d.thread = c.thread /\ d.cand = c.cand /\ d.cgen = c.cgen /\ d.gen = c.gen
      /\ d.phase = c.phase /\ d.queue = c.queue /\ d.lane = c.lane
      /\ d.fg = NoOp /\ ~d.running /\ ~d.consumed /\ ~d.stopping /\ d.outbox = box3
  BY <1>1, <1>3 DEF Chat
<1>10. \A i \in DOMAIN c.outbox :
         c.outbox[i].kind = "create" \/ (c.outbox[i].kind = "resume" /\ c.outbox[i].lane # l) =>
           box3[i] = c.outbox[i]
  BY <1>2, <1>5, <1>6
<1>11. Vacated(c, d)
  BY <1>6, <1>7, <1>8, <1>9, <1>10 DEF Vacated
<1>. QED  BY <1>11, InterruptedPlaced DEF d

\* requeueInterruptedNotice changes lanes of operations and the queue only.
LEMMA RequeuedCalm ==
    ASSUME NEW c \in Placed
    PROVE  LET d == Requeued(c) IN
           /\ d \in Placed /\ QueueCalm(c, d) /\ d.lane[c.fg] = c.lane[c.fg]
           /\ d.thread = c.thread /\ d.cand = c.cand /\ d.cgen = c.cgen /\ d.gen = c.gen
           /\ d.phase = c.phase /\ d.outbox = c.outbox /\ d.fg = c.fg /\ d.running = c.running
           /\ d.consumed = c.consumed /\ d.stopping = c.stopping
<1>. DEFINE back == NextAttempt(c.fg)
            e == [c EXCEPT !.lane[back] = c.lane[c.fg], !.queue = <<back>> \o @]
            d == Requeued(c)
<1>1. c \in Chat /\ c.queue \in Seq(Ops) /\ d \in Placed
  BY RequeuedPlaced DEF Placed, Chat
<1>2. CASE d = c
  <2>. HIDE DEF d
  <2>. QED  BY <1>1, <1>2 DEF QueueCalm, d
<1>3. CASE d = e /\ c.fg # NoOp /\ c.fg[2] < RedeliveryLimit /\ c.lane[back] = NoLane
  <2>1. c.fg \in Ops /\ c.lane[c.fg] \in Lanes /\ back \in Ops
    <3>1. c.fg \in Ops /\ c.lane[c.fg] \in Lanes
      BY <1>3, ChatParts
    <3>. QED  BY <1>3, <3>1, ChatAssumption DEF Ops, NextAttempt
  <2>2. back # c.fg
    BY <1>3, <2>1, NoOpIsNoOp
  <2>. DEFINE q == <<back>> \o c.queue
  <2>3. q \in Seq(Ops) /\ \A i \in DOMAIN q : q[i] \in QueuedOps(c) \union {back}
    <3>. HIDE DEF back
    <3>1. <<back>> \in Seq(Ops) /\ Len(<<back>>) = 1 /\ <<back>>[1] = back
      BY <2>1
    <3>2. /\ q \in Seq(Ops) /\ Len(q) = Len(c.queue) + 1 /\ q[1] = back
          /\ \A i \in 1 .. Len(q) : i # 1 => q[i] = c.queue[i - 1]
      BY <1>1, <3>1, ConcatProperties
    <3>. HIDE DEF q
    <3>3. \A i \in 1 .. Len(q) : i # 1 => i - 1 \in 1 .. Len(c.queue)
      BY <1>1, <3>2
    <3>4. DOMAIN q = 1 .. Len(q) /\ DOMAIN c.queue = 1 .. Len(c.queue)
      BY <1>1, <3>2
    <3>. QED  BY <3>2, <3>3, <3>4 DEF QueuedOps
  <2>. HIDE DEF q, back
  <2>4. e = [c EXCEPT !.lane = [c.lane EXCEPT ![back] = c.lane[c.fg]], !.queue = q]
    BY <1>1 DEF q
  <2>5. /\ e.queue = q /\ e.lane = [c.lane EXCEPT ![back] = c.lane[c.fg]]
        /\ e.thread = c.thread /\ e.cand = c.cand /\ e.cgen = c.cgen /\ e.gen = c.gen
        /\ e.phase = c.phase /\ e.outbox = c.outbox /\ e.fg = c.fg /\ e.running = c.running
        /\ e.consumed = c.consumed /\ e.stopping = c.stopping
    <3>. HIDE DEF e
    <3>. QED  BY <1>1, <2>4 DEF Chat
  <2>. HIDE DEF e, d
  <2>6. e.lane[c.fg] = c.lane[c.fg] /\ \A op \in Ops : c.lane[op] # NoLane => e.lane[op] = c.lane[op]
    BY <1>1, <1>3, <2>1, <2>2, <2>5 DEF Chat
  <2>7. QueueCalm(c, e)
    BY <1>3, <2>1, <2>3, <2>5, <2>6 DEF QueueCalm, QueuedOps
  <2>. QED  BY <1>1, <1>3, <2>5, <2>6, <2>7 DEF d
<1>. QED  BY <1>2, <1>3 DEF Requeued

\* TurnAmbiguous.
LEMMA TurnAmbiguousShaped ==
    ASSUME NEW c \in Placed, Shaped(c), c.fg # NoOp, Apart(TurnAmbiguous(c))
    PROVE  /\ Passes(c, TurnAmbiguous(c))
           /\ c.phase[FgLane(c)] # "resuming" => Steady(c, TurnAmbiguous(c))
<1>. DEFINE l == c.lane[c.fg]
            box == Mark(c.outbox, Starts(c, c.fg), "ambiguous")
            phase == Unattached(c, l)
            u == [c EXCEPT !.phase[l] = phase, !.outbox = box]
            m == Interrupted(u)
            d == TurnAmbiguous(c)
<1>1. c \in Chat /\ box \in Seq(Entry) /\ c.outbox \in Seq(Entry) /\ phase \in Phases
  BY MarkType, UnattachedType DEF Placed, Chat, Statuses
<1>2. l \in Lanes /\ FgLane(c) = l
  BY ChatParts
<1>3. d = DriveQueued(m)
  BY DEF TurnAmbiguous
<1>4. Fades(c.outbox, box) /\ Taken(c.outbox, box) /\ DOMAIN box = DOMAIN c.outbox
      /\ \A i \in DOMAIN c.outbox : SameEffect(c.outbox[i], box[i])
  BY <1>1, MarkTurnFades, MarkFacts DEF Starts
<1>5. (phase \in Established <=> c.thread[l] # 0) /\ phase # "resuming"
      /\ (c.cand[l] # 0 => phase \in {"absent", "creating"})
  BY <1>2, UnattachedFits
<1>. HIDE DEF box, phase, d, l
<1>6. /\ u \in Chat /\ u.thread = c.thread /\ u.cand = c.cand /\ u.cgen = c.cgen /\ u.gen = c.gen
      /\ u.phase = [c.phase EXCEPT ![l] = phase] /\ u.outbox = box /\ u.queue = c.queue
      /\ u.lane = c.lane /\ u.fg = c.fg
  BY <1>1, <1>2 DEF Chat
<1>. HIDE DEF u
<1>7. m \in Placed /\ Vacated(u, m)
  BY <1>6, Frame, InterruptedCleared
<1>. HIDE DEF m
<1>8. m.phase[l] = phase /\ \A x \in Lanes \ {l} : m.phase[x] = c.phase[x] /\ m.gen[x] = c.gen[x]
  BY <1>1, <1>2, <1>6, <1>7 DEF Chat, Vacated
<1>9. Fades(c.outbox, m.outbox) /\ Taken(c.outbox, m.outbox)
  <2>1. Fades(box, m.outbox) /\ Taken(box, m.outbox)
    BY <1>6, <1>7 DEF Vacated
  <2>. QED  BY <1>4, <2>1, FadesComposes
<1>10. \A i \in Resumes(c, l, c.gen[l]) : m.outbox[i].status # "pending"
  BY <1>4, <1>6, <1>7 DEF Resumes, SameEffect, Vacated, l
<1>11. QueueCalm(c, m)
  BY <1>6, <1>7 DEF QueueCalm, QueuedOps, Vacated
<1>12. /\ m.thread = c.thread /\ m.cand = c.cand /\ m.cgen = c.cgen /\ m.gen[l] >= c.gen[l]
       /\ m.fg = NoOp /\ ~m.running /\ ~m.consumed /\ ~m.stopping
  BY <1>2, <1>6, <1>7, ChatParts DEF Vacated
<1>13. Calm(c, m) /\ (c.phase[l] # "resuming" => Steady(c, m))
  BY <1>2, <1>5, <1>7, <1>8, <1>9, <1>10, <1>11, <1>12, EndsCalm
<1>. QED  BY <1>2, <1>3, <1>7, <1>13, CalmDriven DEF d

\* TurnRefused, of a turn whose lane does not resume.
LEMMA TurnRefusedShaped ==
    ASSUME NEW c \in Placed, Shaped(c), c.fg # NoOp, ~c.running, c.phase[FgLane(c)] # "resuming",
           Apart(TurnRefused(c))
    PROVE  Passes(c, TurnRefused(c)) /\ Steady(c, TurnRefused(c))
<1>. DEFINE l == c.lane[c.fg]
            box == Mark(c.outbox, Starts(c, c.fg), "failed")
            phase == Unattached(c, l)
            m == ClearForeground([c EXCEPT !.phase[l] = phase, !.fate[c.fg] = "refused",
                                           !.outbox = box])
            d == TurnRefused(c)
<1>1. c \in Chat /\ box \in Seq(Entry) /\ c.outbox \in Seq(Entry) /\ phase \in Phases
      /\ ~c.stopping
  BY MarkType, UnattachedType DEF Placed, Chat, Statuses, Shaped, ForegroundFits
<1>2. l \in Lanes /\ FgLane(c) = l
  BY ChatParts
<1>3. d = DriveQueued(m)
  BY DEF TurnRefused
<1>4. Fades(c.outbox, box) /\ Taken(c.outbox, box)
  BY <1>1, MarkTurnFades DEF Starts
<1>5. (phase \in Established <=> c.thread[l] # 0) /\ phase # "resuming"
      /\ (c.cand[l] # 0 => phase \in {"absent", "creating"})
  BY <1>2, UnattachedFits
<1>. HIDE DEF box, phase, d, l
<1>6. /\ m \in Chat /\ m.thread = c.thread /\ m.cand = c.cand /\ m.cgen = c.cgen /\ m.gen = c.gen
      /\ m.phase = [c.phase EXCEPT ![l] = phase] /\ m.outbox = box /\ m.queue = c.queue
      /\ m.lane = c.lane /\ m.fg = NoOp /\ ~m.running /\ ~m.consumed /\ m.stopping = c.stopping
  <2>1. [c.phase EXCEPT ![l] = phase] \in [Lanes -> Phases]
    BY <1>1 DEF Chat
  <2>2. [c.fate EXCEPT ![c.fg] = "refused"] \in [Ops -> Fates]
    BY <1>1 DEF Chat, Fates
  <2>3. m = [c EXCEPT !.phase = [c.phase EXCEPT ![l] = phase],
                      !.fate = [c.fate EXCEPT ![c.fg] = "refused"], !.outbox = box,
                      !.fg = NoOp, !.running = FALSE, !.consumed = FALSE]
    BY <1>1 DEF ClearForeground, Chat
  <2>. HIDE DEF m
  <2>. QED  BY <1>1, <2>1, <2>2, <2>3 DEF Chat
<1>. HIDE DEF m
<1>7. m \in Placed
  BY <1>6, Frame
<1>8. m.phase[l] = phase /\ \A x \in Lanes \ {l} : m.phase[x] = c.phase[x] /\ m.gen[x] = c.gen[x]
  BY <1>1, <1>2, <1>6 DEF Chat
<1>9. QueueCalm(c, m) /\ m.gen[l] >= c.gen[l]
  BY <1>2, <1>6, ChatParts DEF QueueCalm, QueuedOps
<1>10. Calm(c, m) /\ Steady(c, m)
  <2>1. m.thread = c.thread /\ m.cand = c.cand /\ m.cgen = c.cgen
        /\ m.fg = NoOp /\ ~m.running /\ ~m.consumed /\ ~m.stopping
        /\ Fades(c.outbox, m.outbox) /\ Taken(c.outbox, m.outbox)
    BY <1>1, <1>4, <1>6
  <2>2. c.phase[l] # "resuming" /\ (m.phase[l] \in Established <=> c.thread[l] # 0)
        /\ m.phase[l] # "resuming" /\ (c.cand[l] # 0 => m.phase[l] \in {"absent", "creating"})
    BY <1>2, <1>5, <1>8
  <2>. QED  BY <1>2, <1>7, <1>8, <1>9, <2>1, <2>2, EndsCalm
<1>. QED  BY <1>3, <1>7, <1>10, CalmDriven DEF d

\* The consumption a terminal stands for.
LEMMA HeardCalm ==
    ASSUME NEW c, NEW kept \in Placed, kept.thread = c.thread, kept.cand = c.cand,
           kept.cgen = c.cgen, kept.gen = c.gen, kept.phase = c.phase, kept.outbox = c.outbox,
           kept.stopping = c.stopping, NEW heard, heard = InputConsumed(kept, 0)
    PROVE  /\ heard \in Placed /\ heard.thread = c.thread /\ heard.cand = c.cand
           /\ heard.cgen = c.cgen /\ heard.gen = c.gen /\ heard.phase = c.phase
           /\ heard.queue = kept.queue /\ heard.lane = kept.lane /\ heard.stopping = c.stopping
           /\ heard.outbox \in Seq(Entry) /\ Fades(c.outbox, heard.outbox)
           /\ Taken(c.outbox, heard.outbox) /\ DOMAIN heard.outbox = DOMAIN c.outbox
<1>. DEFINE box == Mark(kept.outbox, Starts(kept, kept.fg), "consumed")
            done == [kept EXCEPT !.consumed = TRUE, !.outbox = box]
<1>1. kept \in Chat /\ kept.outbox \in Seq(Entry) /\ "consumed" \in Statuses
  BY DEF Placed, Chat, Statuses
<1>2. /\ box \in Seq(Entry) /\ Fades(kept.outbox, box) /\ Taken(kept.outbox, box)
      /\ DOMAIN box = DOMAIN kept.outbox
  BY <1>1, MarkTurnFades, MarkType, MarkFacts DEF Starts
<1>3. heard = kept \/ heard = done
  BY DEF InputConsumed
<1>4. heard \in Placed
  BY PresumedPlaced
<1>. HIDE DEF box
<1>5. /\ done.thread = c.thread /\ done.cand = c.cand /\ done.cgen = c.cgen /\ done.gen = c.gen
      /\ done.phase = c.phase /\ done.queue = kept.queue /\ done.lane = kept.lane
      /\ done.stopping = c.stopping /\ done.outbox = box
  BY <1>1 DEF Chat
<1>. HIDE DEF done
<1>6. CASE heard = kept
  BY <1>1, <1>4, <1>6, FadesTransitive
<1>7. CASE heard = done
  BY <1>2, <1>4, <1>5, <1>7
<1>. QED  BY <1>3, <1>6, <1>7

\* TurnTerminated: the lane of a running turn has a thread or a candidate, and
\* does not resume.
LEMMA TurnTerminatedShaped ==
    ASSUME NEW c \in Placed, Shaped(c), c.running, NEW interrupted \in BOOLEAN,
           NEW covered \in BOOLEAN, Apart(TurnTerminated(c, interrupted, covered))
    PROVE  /\ Passes(c, TurnTerminated(c, interrupted, covered))
           /\ Steady(c, TurnTerminated(c, interrupted, covered))
<1>. DEFINE l == c.lane[c.fg]
            kept == IF interrupted THEN Requeued(c) ELSE c
            cut == Interrupted(kept)
            unreceipted == [cut EXCEPT !.phase[l] = "creating",
                                       !.outbox = Mark(@, Starts(c, c.fg), "completed")]
            heard == InputConsumed(kept, 0)
            fate == IF c.consumed THEN "answered" ELSE "presumed"
            box1 == IF c.stopping THEN Mark(heard.outbox, CurrentStop(c), "completed")
                    ELSE heard.outbox
            box2 == Mark(box1, Starts(c, c.fg), "completed")
            answered == ClearForeground(
              [heard EXCEPT !.phase[l] = "ready", !.stopping = FALSE, !.fate[c.fg] = fate,
                            !.outbox = box2])
            m == IF c.cand[l] # 0 /\ ~c.consumed THEN unreceipted ELSE answered
            d == TurnTerminated(c, interrupted, covered)
<1>. SUFFICES Passes(c, d) /\ Steady(c, d)
  OBVIOUS
<1>1. c \in Chat /\ c.outbox \in Seq(Entry) /\ "completed" \in Statuses
  BY DEF Placed, Chat, Statuses
<1>2. c.fg # NoOp /\ l \in Lanes /\ FgLane(c) = l
  BY ChatParts DEF Shaped, ForegroundFits
<1>3. d = Drive(m, covered)
  BY DEF TurnTerminated
<1>4. /\ kept \in Placed /\ QueueCalm(c, kept) /\ kept.lane[c.fg] = c.lane[c.fg]
      /\ kept.thread = c.thread /\ kept.cand = c.cand /\ kept.cgen = c.cgen /\ kept.gen = c.gen
      /\ kept.phase = c.phase /\ kept.outbox = c.outbox /\ kept.fg = c.fg
      /\ kept.stopping = c.stopping
  BY RequeuedCalm DEF QueueCalm
<1>. HIDE DEF kept, d, l
<1>8. fate \in Fates
  BY DEF Fates
<1>9. /\ heard \in Placed /\ heard.thread = c.thread /\ heard.cand = c.cand
      /\ heard.cgen = c.cgen /\ heard.gen = c.gen /\ heard.phase = c.phase
      /\ heard.queue = kept.queue /\ heard.lane = kept.lane /\ heard.stopping = c.stopping
      /\ heard.outbox \in Seq(Entry) /\ Fades(c.outbox, heard.outbox)
      /\ Taken(c.outbox, heard.outbox) /\ DOMAIN heard.outbox = DOMAIN c.outbox
  BY <1>4, HeardCalm
<1>. HIDE DEF heard, fate
<1>5. c.phase[l] # "resuming" /\ (c.cand[l] # 0 => c.phase[l] = "creating" /\ c.thread[l] = 0)
      /\ (c.cand[l] = 0 => c.phase[l] = "running" /\ c.thread[l] # 0)
  <2>1. c.phase[l] = "running" \/ (c.phase[l] = "creating" /\ c.cand[l] # 0)
    BY <1>2 DEF Shaped, ForegroundFits
  <2>. QED  BY <1>2, <2>1 DEF Shaped, PhasesFit, Established
<1>6. CASE c.cand[l] # 0 /\ ~c.consumed
  <2>. DEFINE box == Mark(cut.outbox, Starts(c, c.fg), "completed")
  <2>1. cut \in Placed /\ Vacated(kept, cut)
    BY <1>4, InterruptedCleared
  <2>. HIDE DEF cut
  <2>2. cut \in Chat /\ cut.outbox \in Seq(Entry)
    BY <2>1 DEF Placed, Chat
  <2>3. box \in Seq(Entry) /\ Fades(cut.outbox, box) /\ Taken(cut.outbox, box)
    <3>1. \A i \in DOMAIN cut.outbox : i \in Starts(c, c.fg) => cut.outbox[i].kind \in {"start", "stop"}
      BY <1>4, <2>1 DEF Vacated, Fades, Extends, SameEffect, Starts
    <3>. QED  BY <1>1, <2>2, <3>1, MarkTurnFades, MarkType
  <2>4. m = [cut EXCEPT !.phase[l] = "creating", !.outbox = box]
    BY <1>6
  <2>. HIDE DEF m, box
  <2>5. /\ m \in Chat /\ m.thread = c.thread /\ m.cand = c.cand /\ m.cgen = c.cgen /\ m.gen = c.gen
        /\ m.phase = [c.phase EXCEPT ![l] = "creating"] /\ m.outbox = box /\ m.queue = kept.queue
        /\ m.lane = kept.lane /\ m.fg = NoOp /\ ~m.running /\ ~m.consumed /\ ~m.stopping
    <3>1. [c.phase EXCEPT ![l] = "creating"] \in [Lanes -> Phases]
      BY <1>1 DEF Chat, Phases
    <3>2. m = [cut EXCEPT !.phase = [c.phase EXCEPT ![l] = "creating"], !.outbox = box]
      BY <1>4, <2>1, <2>2, <2>4 DEF Vacated
    <3>. QED  BY <1>4, <2>1, <2>2, <2>3, <3>1, <3>2 DEF Vacated, Chat
  <2>6. m \in Placed
    BY <1>4, <2>5, Frame
  <2>7. m.phase[l] = "creating" /\ \A x \in Lanes \ {l} : m.phase[x] = c.phase[x] /\ m.gen[x] = c.gen[x]
    BY <1>1, <1>2, <2>5 DEF Chat
  <2>8. Fades(c.outbox, m.outbox) /\ Taken(c.outbox, m.outbox)
    <3>1. Fades(c.outbox, cut.outbox) /\ Taken(c.outbox, cut.outbox)
          /\ DOMAIN cut.outbox = DOMAIN c.outbox
      BY <1>4, <2>1 DEF Vacated
    <3>. QED  BY <2>3, <2>5, <3>1, FadesComposes
  <2>9. QueueCalm(c, m) /\ m.gen[l] >= c.gen[l]
    BY <1>2, <1>4, <2>5, ChatParts DEF QueueCalm, QueuedOps
  <2>10. Calm(c, m) /\ Steady(c, m)
    <3>1. m.thread = c.thread /\ m.cand = c.cand /\ m.cgen = c.cgen
          /\ m.fg = NoOp /\ ~m.running /\ ~m.consumed /\ ~m.stopping
      BY <2>5
    <3>2. (m.phase[l] \in Established <=> c.thread[l] # 0) /\ m.phase[l] # "resuming"
          /\ (c.cand[l] # 0 => m.phase[l] \in {"absent", "creating"})
      BY <1>5, <1>6, <2>7 DEF Established
    <3>. QED  BY <1>2, <1>5, <2>6, <2>7, <2>8, <2>9, <3>1, <3>2, EndsCalm
  <2>. QED  BY <1>3, <2>6, <2>10, CalmDriven DEF d
<1>7. CASE ~(c.cand[l] # 0 /\ ~c.consumed)
  <2>1. c.cand[l] = 0
    BY <1>2, <1>7 DEF Shaped, ForegroundFits
  <2>2. /\ box2 \in Seq(Entry) /\ Fades(c.outbox, box2) /\ Taken(c.outbox, box2)
    <3>1. /\ box1 \in Seq(Entry) /\ Fades(c.outbox, box1) /\ Taken(c.outbox, box1)
          /\ DOMAIN box1 = DOMAIN c.outbox
      <4>1. \A i \in DOMAIN heard.outbox : i \in CurrentStop(c) =>
                heard.outbox[i].kind \in {"start", "stop"}
        BY <1>9 DEF Fades, Extends, SameEffect, CurrentStop, Stops
      <4>2. CASE c.stopping
        <5>. DEFINE box == Mark(heard.outbox, CurrentStop(c), "completed")
        <5>1. box \in Seq(Entry) /\ Fades(heard.outbox, box) /\ Taken(heard.outbox, box)
              /\ DOMAIN box = DOMAIN heard.outbox
          BY <1>1, <1>9, <4>1, MarkTurnFades, MarkType, MarkFacts
        <5>2. box1 = box
          BY <4>2
        <5>. HIDE DEF box1, box
        <5>. QED  BY <1>9, <5>1, <5>2, FadesComposes
      <4>3. CASE ~c.stopping
        <5>1. box1 = heard.outbox
          BY <4>3
        <5>. HIDE DEF box1
        <5>. QED  BY <1>9, <5>1
      <4>. QED  BY <4>2, <4>3
    <3>. HIDE DEF box1
    <3>2. \A i \in DOMAIN box1 : i \in Starts(c, c.fg) => box1[i].kind \in {"start", "stop"}
      BY <3>1 DEF Fades, Extends, SameEffect, Starts
    <3>3. box2 \in Seq(Entry) /\ Fades(box1, box2) /\ Taken(box1, box2)
      BY <1>1, <3>1, <3>2, MarkTurnFades, MarkType
    <3>. HIDE DEF box2
    <3>. QED  BY <3>1, <3>3, FadesComposes
  <2>. HIDE DEF box2
  <2>3. m = answered
    BY <1>7
  <2>9. heard \in Chat
    BY <1>9 DEF Placed
  <2>4. /\ m \in Chat /\ m.thread = c.thread /\ m.cand = c.cand /\ m.cgen = c.cgen /\ m.gen = c.gen
        /\ m.phase = [c.phase EXCEPT ![l] = "ready"] /\ m.outbox = box2 /\ m.queue = kept.queue
        /\ m.lane = kept.lane /\ m.fg = NoOp /\ ~m.running /\ ~m.consumed /\ ~m.stopping
    <3>1. [c.phase EXCEPT ![l] = "ready"] \in [Lanes -> Phases]
      BY <1>1 DEF Chat, Phases
    <3>2. [heard.fate EXCEPT ![c.fg] = fate] \in [Ops -> Fates]
      BY <1>8, <2>9 DEF Chat
    <3>3. m = [heard EXCEPT !.phase = [c.phase EXCEPT ![l] = "ready"],
                        !.fate = [heard.fate EXCEPT ![c.fg] = fate], !.outbox = box2,
                        !.stopping = FALSE, !.fg = NoOp, !.running = FALSE, !.consumed = FALSE]
      <4>. HIDE DEF m
      <4>. QED  BY <1>9, <2>3, <2>9 DEF ClearForeground, Chat
    <3>. HIDE DEF m
    <3>4. m \in Chat
      BY <2>2, <2>9, <3>1, <3>2, <3>3 DEF Chat
    <3>5. /\ m.thread = heard.thread /\ m.cand = heard.cand /\ m.cgen = heard.cgen
          /\ m.gen = heard.gen
          /\ m.phase = [c.phase EXCEPT ![l] = "ready"] /\ m.outbox = box2 /\ m.queue = heard.queue
          /\ m.lane = heard.lane /\ m.fg = NoOp /\ ~m.running /\ ~m.consumed /\ ~m.stopping
      BY <2>9, <3>3 DEF Chat
    <3>. QED  BY <1>9, <3>4, <3>5
  <2>. HIDE DEF m
  <2>5. m \in Placed
    BY <1>4, <2>4, Frame
  <2>6. m.phase[l] = "ready" /\ \A x \in Lanes \ {l} : m.phase[x] = c.phase[x] /\ m.gen[x] = c.gen[x]
    BY <1>1, <1>2, <2>4 DEF Chat
  <2>7. QueueCalm(c, m) /\ m.gen[l] >= c.gen[l]
    BY <1>2, <1>4, <2>4, ChatParts DEF QueueCalm, QueuedOps
  <2>8. Calm(c, m) /\ Steady(c, m)
    <3>1. m.thread = c.thread /\ m.cand = c.cand /\ m.cgen = c.cgen
          /\ m.fg = NoOp /\ ~m.running /\ ~m.consumed /\ ~m.stopping
          /\ Fades(c.outbox, m.outbox) /\ Taken(c.outbox, m.outbox)
      BY <2>2, <2>4
    <3>2. (m.phase[l] \in Established <=> c.thread[l] # 0) /\ m.phase[l] # "resuming"
          /\ (c.cand[l] # 0 => m.phase[l] \in {"absent", "creating"})
      BY <1>5, <2>1, <2>6 DEF Established
    <3>. QED  BY <1>2, <1>5, <2>5, <2>6, <2>7, <3>1, <3>2, EndsCalm
  <2>. QED  BY <1>3, <2>5, <2>8, CalmDriven DEF d
<1>. QED  BY <1>6, <1>7

(***************************************************************************)
(* Losing a lane.                                                          *)
(***************************************************************************)
\* A command that changes nothing.
LEMMA IdlePasses ==
    ASSUME NEW c \in Placed, Shaped(c)
    PROVE  Passes(c, c) /\ Steady(c, c)
BY BoxPasses, FadesTransitive DEF Shaped, ForegroundFits

\* u is c without the attachment of l: the lane rests, the turn and the starts
\* are there still.
Gone(c, u, l) ==
    /\ u.thread = c.thread /\ u.cand = c.cand /\ u.cgen = c.cgen /\ u.gen[l] >= c.gen[l]
    /\ (u.phase[l] \in Established) <=> (c.thread[l] # 0)
    /\ u.phase[l] # "resuming" /\ (c.cand[l] # 0 => u.phase[l] \in {"absent", "creating"})
    /\ \A x \in Lanes \ {l} : u.phase[x] = c.phase[x] /\ u.gen[x] = c.gen[x]
    /\ u.fg = c.fg /\ u.running = c.running /\ u.consumed = c.consumed /\ u.stopping = c.stopping
    /\ QueueCalm(c, u)
    /\ Fades(c.outbox, u.outbox) /\ Taken(c.outbox, u.outbox) /\ DOMAIN u.outbox = DOMAIN c.outbox

\* The lost lane is not the one of the foreground.
LEMMA GoneDriven ==
    ASSUME NEW c \in Placed, Shaped(c), NEW l \in Lanes, NEW u \in Placed, Gone(c, u, l),
           c.phase[l] # "resuming", FgLane(c) # l, NEW d, d = DriveQueued(u), Apart(d)
    PROVE  Passes(c, d) /\ Steady(c, d)
<1>1. LanesCalm(c, u)
  BY LaneRests DEF Gone
<1>2. TurnCalm(c, u)
  <2>1. c.fg # NoOp => FgLane(c) \in Lanes \ {l}
    BY ChatParts
  <2>. QED  BY <2>1 DEF TurnCalm, Gone, Shaped, ForegroundFits
<1>3. Calm(c, u) /\ Steady(c, u)
  BY <1>1, <1>2 DEF Calm, Gone, Steady
<1>. QED  BY <1>3, CalmDriven

\* It is, and the turn is cut.
LEMMA CutDriven ==
    ASSUME NEW c \in Placed, Shaped(c), NEW l \in Lanes, NEW u \in Placed, Gone(c, u, l),
           c.phase[l] # "resuming", NEW d, d = DriveQueued(Interrupted(u)), Apart(d)
    PROVE  Passes(c, d) /\ Steady(c, d)
<1>. DEFINE m == Interrupted(u)
<1>1. m \in Placed /\ Vacated(u, m)
  BY InterruptedCleared
<1>. HIDE DEF m
<1>2. Fades(c.outbox, m.outbox) /\ Taken(c.outbox, m.outbox)
  BY <1>1, FadesComposes DEF Gone, Vacated
<1>3. QueueCalm(c, m)
  BY <1>1 DEF QueueCalm, QueuedOps, Gone, Vacated
<1>4. /\ m.thread = c.thread /\ m.cand = c.cand /\ m.cgen = c.cgen /\ m.gen[l] >= c.gen[l]
      /\ (m.phase[l] \in Established) <=> (c.thread[l] # 0)
      /\ m.phase[l] # "resuming" /\ (c.cand[l] # 0 => m.phase[l] \in {"absent", "creating"})
      /\ \A x \in Lanes \ {l} : m.phase[x] = c.phase[x] /\ m.gen[x] = c.gen[x]
      /\ m.fg = NoOp /\ ~m.running /\ ~m.consumed /\ ~m.stopping
  BY <1>1 DEF Gone, Vacated
<1>5. Calm(c, m) /\ Steady(c, m)
  BY <1>1, <1>2, <1>3, <1>4, EndsCalm
<1>. QED  BY <1>1, <1>5, CalmDriven DEF m

\* Starts of the foreground become uncertain.
LEMMA GoneUncertain ==
    ASSUME NEW c \in Placed, NEW l \in Lanes, NEW u \in Placed, Gone(c, u, l), u.outbox = c.outbox,
           NEW ids, ids \subseteq Starts(c, c.fg),
           NEW v, v = [u EXCEPT !.outbox = Mark(@, ids, "ambiguous")]
    PROVE  v \in Placed /\ Gone(c, v, l)
<1>. DEFINE box == Mark(c.outbox, ids, "ambiguous")
<1>1. u \in Chat /\ c.outbox \in Seq(Entry) /\ "ambiguous" \in Statuses
  BY DEF Placed, Chat, Statuses
<1>2. /\ box \in Seq(Entry) /\ Fades(c.outbox, box) /\ Taken(c.outbox, box)
      /\ DOMAIN box = DOMAIN c.outbox
  BY <1>1, MarkTurnFades, MarkType, MarkFacts DEF Starts
<1>3. v = [u EXCEPT !.outbox = box]
  OBVIOUS
<1>. HIDE DEF box
<1>4. /\ v \in Chat /\ v.thread = u.thread /\ v.cand = u.cand /\ v.cgen = u.cgen /\ v.gen = u.gen
      /\ v.phase = u.phase /\ v.outbox = box /\ v.queue = u.queue /\ v.lane = u.lane
      /\ v.fg = u.fg /\ v.running = u.running /\ v.consumed = u.consumed
      /\ v.stopping = u.stopping
  BY <1>1, <1>2, <1>3 DEF Chat
<1>5. v \in Placed
  BY <1>4, Frame
<1>6. QueueCalm(c, v)
  BY <1>4 DEF Gone, QueueCalm, QueuedOps
<1>. QED  BY <1>2, <1>4, <1>5, <1>6 DEF Gone

\* The lane of a foreground that was never sent is opened again.
Retries(c, d, l) ==
    /\ c.fg # NoOp /\ FgLane(c) = l /\ d.fg = c.fg /\ FgLane(d) = l /\ ~c.running /\ ~d.running
    /\ d.gen[l] > c.gen[l] /\ Has(c, Starts(c, c.fg), "pending")

\* HostLost of the current attachment of a lane, which does not resume; creates
\* after the start of its foreground are over.
LEMMA HostLostShaped ==
    ASSUME NEW c \in Placed, Shaped(c), NEW l \in Lanes, NEW g,
           g = c.gen[l] => /\ c.phase[l] # "resuming"
                           /\ FgLane(c) = l /\ Waits(c) => \A i \in DOMAIN c.outbox : ~AfterStart(c, i),
           Apart(HostLost(c, l, g))
    PROVE  LET d == HostLost(c, l, g) IN
           /\ Shaped(d) /\ Carries(c, d) /\ Steady(c, d)
           /\ Holds(c, d) \/ (g = c.gen[l] /\ Retries(c, d, l))
<1>. DEFINE phase == IF c.cand[l] # 0 THEN "absent" ELSE Unattached(c, l)
            next == c.gen[l] + 1
            gone == [c EXCEPT !.attached[l] = FALSE, !.gen[l] = @ + 1,
                              !.phase[l] = IF c.cand[l] # 0 THEN "absent" ELSE Unattached(c, l)]
            fresh == IF c.cgen[l] >= gone.gen[l] THEN c.cgen[l] + 1 ELSE gone.gen[l]
            uncertain == [gone EXCEPT !.outbox = Mark(@, Starts(c, c.fg), "ambiguous")]
            kept == Requeued(uncertain)
            reopened == [OpenByCreate(gone, l, fresh, TRUE) EXCEPT !.gen[l] = fresh]
            resumed == OpenByResume(gone, l, gone.gen[l])
            neverSent == ~c.running /\ Has(c, Starts(c, c.fg), "pending")
            d == HostLost(c, l, g)
<1>. SUFFICES /\ Shaped(d) /\ Carries(c, d) /\ Steady(c, d)
              /\ Holds(c, d) \/ (g = c.gen[l] /\ Retries(c, d, l))
  OBVIOUS
<1>1. c \in Chat /\ d \in Placed /\ phase \in Phases /\ next \in Nat /\ next > c.gen[l]
      /\ c.gen[l] \in Nat /\ c.cgen[l] \in Nat
  BY UnattachedType, HostLostPlaced, ChatParts DEF Placed, Phases
<1>2. CASE g # c.gen[l]
  <2>1. d = c
    BY <1>2 DEF HostLost
  <2>. HIDE DEF d
  <2>. QED  BY <2>1, IdlePasses DEF Passes
<1>3. ASSUME g = c.gen[l]
      PROVE  Shaped(d) /\ Carries(c, d) /\ Steady(c, d) /\ (Holds(c, d) \/ Retries(c, d, l))
  <2>1. \/ d = c
        \/ FgLane(c) # l /\ d = DriveQueued(gone)
        \/ FgLane(c) = l /\ neverSent /\ c.cand[l] # 0 /\ d = reopened
        \/ FgLane(c) = l /\ neverSent /\ c.cand[l] = 0 /\ c.thread[l] # 0 /\ d = resumed
        \/ d = DriveQueued(Interrupted(kept))
    BY <1>3 DEF HostLost
  <2>2. (phase \in Established <=> c.thread[l] # 0) /\ phase # "resuming"
        /\ (c.cand[l] # 0 => phase \in {"absent", "creating"} /\ c.thread[l] = 0)
    <3>1. c.cand[l] # 0 => phase = "absent" /\ c.thread[l] = 0
      BY UnattachedFits
    <3>2. "absent" \notin Established /\ "absent" # "resuming"
      BY DEF Established
    <3>. QED  BY <3>1, <3>2, UnattachedFits
  <2>3. /\ gone \in Chat /\ gone.thread = c.thread /\ gone.cand = c.cand /\ gone.cgen = c.cgen
        /\ gone.gen = [c.gen EXCEPT ![l] = next] /\ gone.phase = [c.phase EXCEPT ![l] = phase]
        /\ gone.outbox = c.outbox /\ gone.queue = c.queue /\ gone.lane = c.lane /\ gone.fg = c.fg
        /\ gone.running = c.running /\ gone.consumed = c.consumed /\ gone.stopping = c.stopping
    <3>1. gone = [c EXCEPT !.attached = [c.attached EXCEPT ![l] = FALSE],
                           !.gen = [c.gen EXCEPT ![l] = next], !.phase = [c.phase EXCEPT ![l] = phase]]
      BY <1>1 DEF Chat
    <3>. HIDE DEF phase, next
    <3>2. /\ [c.gen EXCEPT ![l] = next] \in [Lanes -> Nat]
          /\ [c.phase EXCEPT ![l] = phase] \in [Lanes -> Phases]
          /\ [c.attached EXCEPT ![l] = FALSE] \in [Lanes -> BOOLEAN]
      BY <1>1 DEF Chat
    <3>. HIDE DEF gone
    <3>. QED  BY <1>1, <3>1, <3>2 DEF Chat
  <2>. HIDE DEF gone, phase, next
  <2>4. gone.gen[l] = next /\ gone.phase[l] = phase
        /\ \A x \in Lanes \ {l} : gone.phase[x] = c.phase[x] /\ gone.gen[x] = c.gen[x]
    BY <1>1, <2>3 DEF Chat
  <2>5. gone \in Placed /\ Gone(c, gone, l)
    <3>1. gone \in Placed
      BY <2>3, Frame
    <3>2. Fades(c.outbox, gone.outbox) /\ Taken(c.outbox, gone.outbox)
      BY <2>3, FadesTransitive
    <3>3. QueueCalm(c, gone)
      BY <2>3 DEF QueueCalm, QueuedOps
    <3>. QED  BY <1>1, <2>2, <2>3, <2>4, <3>1, <3>2, <3>3 DEF Gone
  <2>6. fresh \in Nat /\ fresh > c.cgen[l] /\ fresh >= next
    BY <1>1, <2>4
  <2>. HIDE DEF fresh
  <2>7. CASE FgLane(c) # l /\ d = DriveQueued(gone)
    BY <1>3, <2>5, <2>7, GoneDriven DEF Passes
  <2>8. CASE d = DriveQueued(Interrupted(kept))
    <3>1. uncertain \in Placed /\ Gone(c, uncertain, l)
      BY <2>3, <2>5, GoneUncertain
    <3>. HIDE DEF uncertain
    <3>2. kept \in Placed /\ Gone(c, kept, l)
      <4>1. /\ kept \in Placed /\ QueueCalm(uncertain, kept)
            /\ kept.thread = uncertain.thread /\ kept.cand = uncertain.cand
            /\ kept.cgen = uncertain.cgen /\ kept.gen = uncertain.gen
            /\ kept.phase = uncertain.phase /\ kept.outbox = uncertain.outbox
            /\ kept.fg = uncertain.fg /\ kept.running = uncertain.running
            /\ kept.consumed = uncertain.consumed /\ kept.stopping = uncertain.stopping
        BY <3>1, RequeuedCalm
      <4>. HIDE DEF kept
      <4>2. QueueCalm(c, kept)
        <5>1. QueueCalm(c, uncertain)
          BY <3>1 DEF Gone
        <5>2. \A op \in Ops : c.lane[op] # NoLane => kept.lane[op] = c.lane[op]
          BY <4>1, <5>1 DEF QueueCalm
        <5>3. \A op \in Ops : uncertain.lane[op] = NoLane => c.lane[op] = NoLane
          BY <5>1 DEF QueueCalm
        <5>4. QueuedOps(kept) \subseteq QueuedOps(c) \union {op \in Ops : c.lane[op] = NoLane}
          BY <4>1, <5>1, <5>3 DEF QueueCalm
        <5>. QED  BY <5>2, <5>4 DEF QueueCalm
      <4>. QED  BY <3>1, <4>1, <4>2 DEF Gone
    <3>. HIDE DEF kept
    <3>. QED  BY <1>3, <2>8, <3>2, CutDriven DEF Passes
  <2>9. CASE FgLane(c) = l /\ neverSent /\ c.cand[l] # 0 /\ d = reopened
    <3>1. Waits(c) /\ c.thread[l] = 0
      BY <2>2, <2>9, NoOpIsNoOp DEF Waits, FgLane
    <3>2. reopened = [gone EXCEPT !.phase = [c.phase EXCEPT ![l] = "creating"],
                                  !.cgen = [c.cgen EXCEPT ![l] = fresh],
                                  !.gen = [c.gen EXCEPT ![l] = fresh],
                                  !.violated = gone.violated \ {l},
                                  !.outbox = Record(c.outbox, CreateEffect(l, fresh, TRUE))]
      <4>1. [gone.phase EXCEPT ![l] = "creating"] = [c.phase EXCEPT ![l] = "creating"]
        BY <1>1, <2>3 DEF Chat
      <4>2. [gone.gen EXCEPT ![l] = fresh] = [c.gen EXCEPT ![l] = fresh]
        BY <1>1, <2>3 DEF Chat
      <4>3. reopened = [gone EXCEPT !.phase = [gone.phase EXCEPT ![l] = "creating"],
                                    !.cgen = [gone.cgen EXCEPT ![l] = fresh],
                                    !.gen = [gone.gen EXCEPT ![l] = fresh],
                                    !.violated = gone.violated \ {l},
                                    !.outbox = Record(gone.outbox, CreateEffect(l, fresh, TRUE))]
        BY <2>3 DEF OpenByCreate, Chat
      <4>. HIDE DEF reopened
      <4>. QED  BY <2>3, <4>1, <4>2, <4>3
    <3>3. /\ TurnSame(c, d) /\ d.thread = c.thread /\ d.cand = c.cand
          /\ d.phase = [c.phase EXCEPT ![l] = "creating"] /\ d.cgen = [c.cgen EXCEPT ![l] = fresh]
          /\ d.gen = [c.gen EXCEPT ![l] = fresh]
          /\ d.outbox = Record(c.outbox, CreateEffect(l, fresh, TRUE))
      <4>. HIDE DEF reopened, d
      <4>. QED  BY <2>3, <2>9, <3>2 DEF TurnSame, Chat
    <3>. HIDE DEF d, reopened
    <3>4. d.gen[l] = fresh /\ fresh >= c.gen[l] /\ fresh > c.gen[l]
      BY <1>1, <2>6, <3>3 DEF Chat
    <3>5. FgLane(c) = l => ~c.running /\ c.cand[l] # 0 /\ \A i \in DOMAIN c.outbox : ~AfterStart(c, i)
      BY <1>3, <2>9, <3>1
    <3>6. Shaped(d) /\ Carries(c, d) /\ Steady(c, d)
      BY <1>1, <2>6, <3>1, <3>3, <3>4, <3>5, CreateShaped
    <3>7. Retries(c, d, l)
      <4>1. c.fg # NoOp /\ FgLane(d) = FgLane(c)
        BY <3>1, <3>3, TurnSameFacts DEF Waits
      <4>. QED  BY <2>9, <3>3, <3>4, <4>1 DEF Retries, TurnSame
    <3>. QED  BY <3>6, <3>7
  <2>10. CASE FgLane(c) = l /\ neverSent /\ c.cand[l] = 0 /\ c.thread[l] # 0 /\ d = resumed
    <3>2. resumed = [gone EXCEPT !.phase = [c.phase EXCEPT ![l] = "resuming"],
                                 !.gen = [c.gen EXCEPT ![l] = next],
                                 !.violated = gone.violated \ {l},
                                 !.outbox = Record(c.outbox, ResumeEffect(l, next))]
      <4>1. [gone.phase EXCEPT ![l] = "resuming"] = [c.phase EXCEPT ![l] = "resuming"]
        BY <1>1, <2>3 DEF Chat
      <4>2. [gone.gen EXCEPT ![l] = next] = [c.gen EXCEPT ![l] = next]
        BY <1>1, <2>3 DEF Chat
      <4>3. resumed = [gone EXCEPT !.phase = [gone.phase EXCEPT ![l] = "resuming"],
                                   !.gen = [gone.gen EXCEPT ![l] = next],
                                   !.violated = gone.violated \ {l},
                                   !.outbox = Record(gone.outbox, ResumeEffect(l, next))]
        BY <2>3, <2>4 DEF OpenByResume, Chat
      <4>. HIDE DEF resumed
      <4>. QED  BY <2>3, <4>1, <4>2, <4>3
    <3>3. /\ TurnSame(c, d) /\ d.thread = c.thread /\ d.cand = c.cand /\ d.cgen = c.cgen
          /\ d.phase = [c.phase EXCEPT ![l] = "resuming"] /\ d.gen = [c.gen EXCEPT ![l] = next]
          /\ d.outbox = Record(c.outbox, ResumeEffect(l, next))
      <4>. HIDE DEF resumed, d
      <4>. QED  BY <2>3, <2>10, <3>2 DEF TurnSame, Chat
    <3>. HIDE DEF d, resumed
    <3>4. d.gen[l] = next
      BY <1>1, <3>3 DEF Chat
    <3>5. c.phase[l] # "resuming" /\ ~c.running
      BY <1>3, <2>10
    <3>6. Shaped(d) /\ Carries(c, d) /\ Steady(c, d)
      BY <1>1, <2>10, <3>3, <3>5, ResumeShaped
    <3>7. Retries(c, d, l)
      <4>1. c.fg # NoOp /\ FgLane(d) = FgLane(c)
        BY <2>10, <3>3, TurnSameFacts, NoOpIsNoOp DEF FgLane
      <4>. QED  BY <1>1, <2>10, <3>3, <3>4, <4>1 DEF Retries, TurnSame
    <3>. QED  BY <3>6, <3>7
  <2>11. CASE d = c
    <3>. HIDE DEF d
    <3>. QED  BY <2>11, IdlePasses DEF Passes
  <2>. QED  BY <2>1, <2>7, <2>8, <2>9, <2>10, <2>11
<1>. QED  BY <1>2, <1>3

\* The lane of a provider that broke its protocol, or failed its health.
LEMMA ViolatedGone ==
    ASSUME NEW c \in Placed, Shaped(c), NEW l \in Lanes, c.phase[l] # "resuming"
    PROVE  /\ Violated(c, l) \in Placed /\ Gone(c, Violated(c, l), l)
           /\ Violated(c, l).outbox = c.outbox
<1>. DEFINE phase == Unattached(c, l)
            gone == Violated(c, l)
<1>1. c \in Chat /\ phase \in Phases
  BY UnattachedType DEF Placed
<1>2. (phase \in Established <=> c.thread[l] # 0) /\ phase # "resuming"
      /\ (c.cand[l] # 0 => phase \in {"absent", "creating"})
  BY UnattachedFits
<1>3. /\ gone \in Placed /\ gone.thread = c.thread /\ gone.queue = c.queue
      /\ gone.fg = c.fg /\ gone.lane = c.lane
  BY ViolatedPlaced
<1>4. /\ gone.cand = c.cand /\ gone.cgen = c.cgen /\ gone.gen = c.gen /\ gone.outbox = c.outbox
      /\ gone.phase = [c.phase EXCEPT ![l] = phase] /\ gone.running = c.running
      /\ gone.consumed = c.consumed /\ gone.stopping = c.stopping
  <2>. HIDE DEF phase
  <2>. QED  BY <1>1 DEF Chat, Violated, phase
<1>. HIDE DEF gone, phase
<1>5. gone.phase[l] = phase /\ gone.gen[l] >= c.gen[l]
      /\ \A x \in Lanes \ {l} : gone.phase[x] = c.phase[x] /\ gone.gen[x] = c.gen[x]
  BY <1>1, <1>4 DEF Chat
<1>6. Fades(c.outbox, gone.outbox) /\ Taken(c.outbox, gone.outbox)
  BY <1>4, FadesTransitive
<1>7. QueueCalm(c, gone)
  BY <1>3 DEF QueueCalm, QueuedOps
<1>8. gone \in Placed /\ Gone(c, gone, l) /\ gone.outbox = c.outbox
  BY <1>2, <1>3, <1>4, <1>5, <1>6, <1>7 DEF Gone
<1>. QED  BY <1>8 DEF gone

\* LaneProtocolFailed.
LEMMA LaneProtocolFailedShaped ==
    ASSUME NEW c \in Placed, Shaped(c), NEW l \in Lanes, NEW g,
           g = c.gen[l] => c.phase[l] # "resuming",
           Apart(LaneProtocolFailed(c, l, g))
    PROVE  Passes(c, LaneProtocolFailed(c, l, g)) /\ Steady(c, LaneProtocolFailed(c, l, g))
<1>. DEFINE gone == Violated(c, l)
            uncertain == [gone EXCEPT !.outbox = Mark(@, Starts(c, c.fg), "ambiguous")]
            d == LaneProtocolFailed(c, l, g)
<1>. SUFFICES Passes(c, d) /\ Steady(c, d)
  OBVIOUS
<1>1. CASE g # c.gen[l]
  <2>1. d = c
    BY <1>1 DEF LaneProtocolFailed
  <2>. HIDE DEF d
  <2>. QED  BY <2>1, IdlePasses
<1>2. CASE g = c.gen[l]
  <2>1. \/ FgLane(c) # l /\ d = DriveQueued(gone)
        \/ d = DriveQueued(Interrupted(uncertain))
    BY <1>2 DEF LaneProtocolFailed
  <2>2. gone \in Placed /\ Gone(c, gone, l) /\ gone.outbox = c.outbox
    BY <1>2, ViolatedGone
  <2>. HIDE DEF gone
  <2>3. uncertain \in Placed /\ Gone(c, uncertain, l)
    BY <2>2, GoneUncertain
  <2>. HIDE DEF uncertain, d
  <2>4. Apart(d)
    BY DEF d
  <2>. QED  BY <1>2, <2>1, <2>2, <2>3, <2>4, GoneDriven, CutDriven
<1>. QED  BY <1>1, <1>2

\* LaneUnhealthy, of a lane that does not resume.
LEMMA LaneUnhealthyShaped ==
    ASSUME NEW c \in Placed, Shaped(c), NEW l \in Lanes, c.phase[l] # "resuming",
           Apart(LaneUnhealthy(c, l))
    PROVE  Passes(c, LaneUnhealthy(c, l)) /\ Steady(c, LaneUnhealthy(c, l))
<1>. DEFINE gone == Violated(c, l)
            undone == {i \in Starts(c, c.fg) : c.outbox[i].status \notin {"completed", "failed"}}
            uncertain == [gone EXCEPT !.outbox = Mark(@, undone, "ambiguous")]
            d == LaneUnhealthy(c, l)
<1>. SUFFICES Passes(c, d) /\ Steady(c, d)
  OBVIOUS
<1>1. \/ FgLane(c) # l /\ d = gone
      \/ d = DriveQueued(Interrupted(uncertain))
  BY DEF LaneUnhealthy
<1>2. gone \in Placed /\ Gone(c, gone, l) /\ gone.outbox = c.outbox
  BY ViolatedGone
<1>3. undone \subseteq Starts(c, c.fg) /\ Apart(d)
  OBVIOUS
<1>. HIDE DEF gone, undone
<1>4. uncertain \in Placed /\ Gone(c, uncertain, l)
  BY <1>2, <1>3, GoneUncertain
<1>. HIDE DEF uncertain, d
<1>5. CASE FgLane(c) # l /\ d = gone
  <2>1. LanesCalm(c, gone)
    BY <1>2, LaneRests DEF Gone
  <2>2. TurnCalm(c, gone)
    <3>1. c.fg # NoOp => FgLane(c) \in Lanes \ {l}
      BY <1>5, ChatParts
    <3>. QED  BY <1>2, <3>1 DEF TurnCalm, Gone, Shaped, ForegroundFits
  <2>3. Calm(c, gone) /\ Steady(c, gone)
    BY <1>2, <2>1, <2>2 DEF Calm, Gone, Steady
  <2>. QED  BY <1>2, <1>3, <1>5, <2>3, CalmDriven
<1>6. CASE d = DriveQueued(Interrupted(uncertain))
  BY <1>3, <1>4, <1>6, CutDriven
<1>. QED  BY <1>1, <1>5, <1>6

(***************************************************************************)
(* Receipts of an open call.                                               *)
(***************************************************************************)
\* settleWaitingTurnAfterLaneFailure: the foreground of another lane stays, an
\* unadmitted one of this lane is gone.
WaitSettled(c, d, l) ==
    /\ d.thread = c.thread /\ d.cand = c.cand /\ d.cgen = c.cgen /\ d.gen = c.gen
    /\ d.phase = c.phase /\ d.lane = c.lane /\ QueuedOps(d) \subseteq QueuedOps(c)
    /\ Fades(c.outbox, d.outbox) /\ Taken(c.outbox, d.outbox) /\ DOMAIN d.outbox = DOMAIN c.outbox
    /\ \A i \in DOMAIN c.outbox : Opening(c.outbox[i]) => d.outbox[i] = c.outbox[i]
    /\ d.stopping = c.stopping
    /\ \/ d.fg = c.fg /\ d.running = c.running /\ d.consumed = c.consumed
          /\ (FgLane(c) = l => c.running)
       \/ c.fg # NoOp /\ ~c.running /\ d.fg = NoOp /\ ~d.running /\ ~d.consumed

LEMMA SettleWaitingShaped ==
    ASSUME NEW c \in Placed, NEW l \in Lanes
    PROVE  SettleWaiting(c, l) \in Placed /\ WaitSettled(c, SettleWaiting(c, l), l)
<1>. DEFINE waiting == {op \in QueuedOps(c) : c.lane[op] = l}
            i == FirstOf(c.queue, waiting)
            q == RemoveFirst(c.queue, i)
            box == Mark(c.outbox, Starts(c, c.fg), "failed")
            ended == ClearForeground([c EXCEPT !.outbox = box, !.fate[c.fg] = "refused"])
            passed == [c EXCEPT !.queue = RemoveFirst(@, i), !.fate[c.queue[i]] = "refused"]
            d == SettleWaiting(c, l)
<1>1. c \in Chat /\ c.queue \in Seq(Ops) /\ c.outbox \in Seq(Entry) /\ box \in Seq(Entry)
  BY MarkType DEF Placed, Chat, Statuses
<1>2. \/ d = c /\ (FgLane(c) = l => c.running)
      \/ c.fg # NoOp /\ ~c.running /\ d = ended
      \/ c.fg = NoOp /\ waiting # {} /\ d = passed
  BY NoOpIsNoOp DEF SettleWaiting, FgLane
<1>3. ASSUME d = c, FgLane(c) = l => c.running
      PROVE  WaitSettled(c, d, l)
  <2>. HIDE DEF d
  <2>. QED  BY <1>3, FadesTransitive DEF WaitSettled
<1>4. ASSUME c.fg # NoOp, ~c.running, d = ended
      PROVE  WaitSettled(c, d, l)
  <2>1. /\ Fades(c.outbox, box) /\ Taken(c.outbox, box) /\ DOMAIN box = DOMAIN c.outbox
        /\ \A n \in DOMAIN c.outbox : n \notin Starts(c, c.fg) => box[n] = c.outbox[n]
    BY <1>1, MarkTurnFades, MarkFacts DEF Starts
  <2>. HIDE DEF box
  <2>2. ended = [c EXCEPT !.outbox = box, !.fate = [c.fate EXCEPT ![c.fg] = "refused"],
                          !.fg = NoOp, !.running = FALSE, !.consumed = FALSE]
    BY <1>1 DEF ClearForeground, Chat
  <2>. HIDE DEF d, ended
  <2>3. /\ d.thread = c.thread /\ d.cand = c.cand /\ d.cgen = c.cgen /\ d.gen = c.gen
        /\ d.phase = c.phase /\ d.lane = c.lane /\ d.queue = c.queue /\ d.outbox = box
        /\ d.stopping = c.stopping /\ d.fg = NoOp /\ ~d.running /\ ~d.consumed
    BY <1>1, <1>4, <2>2 DEF Chat
  <2>4. \A n \in DOMAIN c.outbox : Opening(c.outbox[n]) => n \notin Starts(c, c.fg)
    BY DEF Starts, Opening
  <2>. QED  BY <1>4, <2>1, <2>3, <2>4 DEF WaitSettled, QueuedOps
<1>5. ASSUME c.fg = NoOp, waiting # {}, d = passed
      PROVE  WaitSettled(c, d, l)
  <2>1. i \in 1 .. Len(c.queue)
    BY <1>1, <1>5, FirstOfIn DEF QueuedOps
  <2>2. /\ q \in Seq(Ops) /\ Len(q) = Len(c.queue) - 1
        /\ \A j \in 1 .. Len(c.queue) - 1 : q[j] = IF j < i THEN c.queue[j] ELSE c.queue[j + 1]
    BY <1>1, <2>1, RemoveFirstType
  <2>. HIDE DEF q, i, waiting, d
  <2>3. \A j \in DOMAIN q : q[j] \in QueuedOps(c)
    <3>1. DOMAIN q = 1 .. Len(c.queue) - 1 /\ DOMAIN c.queue = 1 .. Len(c.queue)
          /\ Len(c.queue) \in Nat
      BY <1>1, <2>2
    <3>2. \A j \in 1 .. Len(c.queue) - 1 : j \in 1 .. Len(c.queue) /\ j + 1 \in 1 .. Len(c.queue)
      BY <3>1
    <3>. QED  BY <2>2, <3>1, <3>2 DEF QueuedOps
  <2>4. /\ d.thread = c.thread /\ d.cand = c.cand /\ d.cgen = c.cgen /\ d.gen = c.gen
        /\ d.phase = c.phase /\ d.lane = c.lane /\ d.queue = q /\ d.outbox = c.outbox
        /\ d.stopping = c.stopping /\ d.fg = c.fg /\ d.running = c.running
        /\ d.consumed = c.consumed
    BY <1>1, <1>5 DEF Chat, q
  <2>5. FgLane(c) # l
    BY <1>5, NoOpIsNoOp DEF FgLane
  <2>. QED  BY <2>3, <2>4, <2>5, FadesTransitive DEF WaitSettled, QueuedOps
<1>. QED  BY <1>2, <1>3, <1>4, <1>5, SettleWaitingPlaced

\* LaneOpenFailed, unless the turn of the lane runs.
LEMMA LaneOpenFailedShaped ==
    ASSUME NEW c \in Placed, Shaped(c), NEW l \in Lanes, NEW ambiguous \in BOOLEAN,
           CanFailOpen(c, l), FgLane(c) = l => ~c.running
    PROVE  Passes(c, LaneOpenFailed(c, l, ambiguous))
<1>. DEFINE ids == IF c.thread[l] = 0 THEN Creates(c, l, c.cgen[l]) ELSE Resumes(c, l, c.gen[l])
            status == IF ambiguous THEN "ambiguous" ELSE "failed"
            box == Mark(c.outbox, ids, status)
            phase == IF c.thread[l] = 0 /\ c.cand[l] = 0 /\ ambiguous THEN "blocked"
                     ELSE Unattached(c, l)
            failed == [c EXCEPT !.phase[l] = phase, !.outbox = box]
            settled == SettleWaiting(failed, l)
            d == LaneOpenFailed(c, l, ambiguous)
<1>1. c \in Chat /\ c.outbox \in Seq(Entry) /\ status \in Statuses /\ phase \in Phases
      /\ status \in {"completed", "failed", "ambiguous"}
  BY UnattachedType DEF Placed, Chat, Statuses, Phases
<1>2. d = Reselected(settled, l) /\ d \in Placed
  BY LaneOpenFailedPlaced DEF LaneOpenFailed
<1>3. (phase \in Established <=> c.thread[l] # 0) /\ phase # "resuming"
      /\ (c.cand[l] # 0 => phase \in {"absent", "creating"})
  BY UnattachedFits DEF Established
<1>. HIDE DEF status, phase, d
<1>4. box \in Seq(Entry) /\ Fades(c.outbox, box) /\ Taken(c.outbox, box) /\ DOMAIN box = DOMAIN c.outbox
      /\ \A i \in DOMAIN c.outbox : i \in ids => box[i].status = status
  <2>. HIDE DEF ids
  <2>1. status # "pending"
    BY DEF status
  <2>2. box \in Seq(Entry) /\ Fades(c.outbox, box)
    BY <1>1, MarkType, MarkFades
  <2>3. Taken(c.outbox, box)
    BY <1>1, <2>1, MarkFades
  <2>. QED  BY <1>1, <2>2, <2>3, MarkFacts
<1>5. c.phase[l] # "resuming" \/ \A i \in Resumes(c, l, c.gen[l]) : box[i].status # "pending"
  <2>1. CASE c.phase[l] = "resuming"
    <3>1. c.thread[l] # 0
      BY <2>1 DEF Shaped, PhasesFit, Established
    <3>2. \A i \in Resumes(c, l, c.gen[l]) : i \in DOMAIN c.outbox /\ i \in ids
      BY <3>1 DEF Resumes
    <3>. QED  BY <1>1, <1>4, <3>2
  <2>. QED  BY <2>1
<1>. HIDE DEF box, ids
<1>6. /\ failed \in Chat /\ failed.thread = c.thread /\ failed.cand = c.cand /\ failed.cgen = c.cgen
      /\ failed.gen = c.gen /\ failed.phase = [c.phase EXCEPT ![l] = phase] /\ failed.outbox = box
      /\ failed.queue = c.queue /\ failed.lane = c.lane /\ failed.fg = c.fg
      /\ failed.running = c.running /\ failed.consumed = c.consumed /\ failed.stopping = c.stopping
  BY <1>1, <1>4 DEF Chat
<1>. HIDE DEF failed
<1>7. failed \in Placed /\ FgLane(failed) = FgLane(c)
  BY <1>6, Frame DEF FgLane
<1>8. settled \in Placed /\ WaitSettled(failed, settled, l)
  BY <1>7, SettleWaitingShaped
<1>. HIDE DEF settled
<1>9. /\ d.thread = settled.thread /\ d.cand = settled.cand /\ d.cgen = settled.cgen
      /\ d.gen = settled.gen /\ d.phase = settled.phase /\ d.outbox = settled.outbox
      /\ d.queue = settled.queue /\ d.lane = settled.lane /\ d.fg = settled.fg
      /\ d.running = settled.running /\ d.consumed = settled.consumed
      /\ d.stopping = settled.stopping
  <2>1. settled \in Chat
    BY <1>8 DEF Placed
  <2>. QED  BY <1>2, <2>1 DEF Reselected, Chat
<1>10. d.phase[l] = phase /\ d.gen[l] >= c.gen[l]
       /\ \A x \in Lanes \ {l} : d.phase[x] = c.phase[x] /\ d.gen[x] = c.gen[x]
  BY <1>1, <1>6, <1>8, <1>9, ChatParts DEF WaitSettled, Chat
<1>11. Fades(c.outbox, d.outbox) /\ Taken(c.outbox, d.outbox)
  <2>1. Fades(box, settled.outbox) /\ Taken(box, settled.outbox)
    BY <1>6, <1>8 DEF WaitSettled
  <2>. QED  BY <1>4, <1>9, <2>1, FadesComposes
<1>12. c.phase[l] # "resuming" \/ \A i \in Resumes(c, l, c.gen[l]) : d.outbox[i].status # "pending"
  <2>1. \A i \in DOMAIN box : box[i].kind = "resume" /\ d.outbox[i].status = "pending"
          => box[i].status = "pending"
    BY <1>6, <1>8, <1>9 DEF WaitSettled, Fades, Opening
  <2>2. \A i \in Resumes(c, l, c.gen[l]) : i \in DOMAIN box /\ box[i].kind = "resume"
    BY <1>4 DEF Resumes, Fades, Extends, SameEffect
  <2>. QED  BY <1>5, <2>1, <2>2
<1>13. QueueCalm(c, d)
  BY <1>6, <1>8, <1>9 DEF WaitSettled, QueueCalm, QueuedOps
<1>14. LanesCalm(c, d)
  <2>1. d.thread = c.thread /\ d.cand = c.cand /\ d.cgen = c.cgen
    BY <1>6, <1>8, <1>9 DEF WaitSettled
  <2>. QED  BY <1>3, <1>10, <1>11, <1>12, <2>1, LaneRests
<1>15. TurnCalm(c, d)
  <2>1. CASE d.fg = c.fg /\ d.running = c.running /\ d.consumed = c.consumed
             /\ (FgLane(c) = l => c.running)
    <3>1. c.fg # NoOp => FgLane(c) \in Lanes \ {l}
      BY <2>1, ChatParts
    <3>2. d.stopping => c.running
      BY <1>6, <1>8, <1>9 DEF WaitSettled, Shaped, ForegroundFits
    <3>. QED  BY <1>10, <2>1, <3>1, <3>2 DEF TurnCalm
  <2>2. CASE d.fg = NoOp /\ ~d.running /\ ~d.consumed /\ ~c.running
    <3>1. ~d.stopping
      BY <1>6, <1>8, <1>9, <2>2 DEF WaitSettled, Shaped, ForegroundFits
    <3>. QED  BY <2>2, <3>1 DEF TurnCalm
  <2>. QED  BY <1>6, <1>7, <1>8, <1>9, <2>1, <2>2 DEF WaitSettled
<1>16. Calm(c, d)
  BY <1>11, <1>13, <1>14, <1>15 DEF Calm
<1>17. Passes(c, d)
  BY <1>2, <1>16, CalmShaped, CalmCarries DEF Passes
<1>. QED  BY <1>17 DEF d

\* o is the chat once lane l is open under g with thread t, before anything
\* that waits is driven.
Opened(c, o, l, g, t) ==
    /\ o.thread = [c.thread EXCEPT ![l] = t] /\ o.cand = [c.cand EXCEPT ![l] = 0]
    /\ o.gen = [c.gen EXCEPT ![l] = g] /\ o.cgen = c.cgen
    /\ \E p \in {"ready", "running"} : o.phase = [c.phase EXCEPT ![l] = p]
    /\ o.fg = c.fg /\ o.running = c.running /\ o.consumed = c.consumed /\ o.stopping = c.stopping
    /\ o.queue = c.queue /\ o.lane = c.lane
    /\ Fades(c.outbox, o.outbox) /\ Taken(c.outbox, o.outbox) /\ DOMAIN o.outbox = DOMAIN c.outbox

\* LaneOpened.
LEMMA LaneOpenedShaped ==
    ASSUME NEW c \in Placed, Shaped(c), NEW l \in Lanes, NEW g \in Nat, NEW t \in Nat \ {0},
           CanOpen(c, l, t), NEW covered \in BOOLEAN,
           FgLane(c) = l => ~c.running, c.phase[l] = "resuming" => g = c.gen[l],
           Apart(LaneOpened(c, l, g, t, covered))
    PROVE  \E o \in Placed : /\ Opened(c, o, l, g, t) /\ Shaped(o)
                             /\ Passes(o, LaneOpened(c, l, g, t, covered))
<1>. DEFINE ids == IF c.phase[l] = "creating" THEN Creates(c, l, c.cgen[l]) ELSE Resumes(c, l, g)
            box == IF c.phase[l] = "creating" THEN Mark(c.outbox, Creates(c, l, c.cgen[l]), "completed")
                   ELSE Mark(c.outbox, Resumes(c, l, g), "completed")
            opened == [c EXCEPT !.thread[l] = t, !.cand[l] = 0, !.gen[l] = g, !.attached[l] = TRUE,
                                !.violated = @ \ {l}, !.phase[l] = "ready", !.outbox = box]
            ran == [opened EXCEPT !.phase[l] = "running"]
            mine == FgLane(c) = l /\ ~c.running
            p == IF mine THEN "running" ELSE "ready"
            o == IF mine THEN ran ELSE opened
            d == LaneOpened(c, l, g, t, covered)
<1>1. c \in Chat /\ c.outbox \in Seq(Entry) /\ "completed" \in Statuses
  BY DEF Placed, Chat, Statuses
<1>2. d = IF mine THEN o ELSE Drive(o, covered)
  BY DEF LaneOpened
<1>3. box = Mark(c.outbox, ids, "completed")
  OBVIOUS
<1>4. c.phase[l] = "creating" \/ (c.phase[l] = "resuming" /\ g = c.gen[l])
  BY DEF CanOpen
<1>5. p \in {"ready", "running"} /\ (mine => p = "running") /\ p \in Phases
  BY DEF Phases
<1>6. \A i \in DOMAIN c.outbox : c.outbox[i].kind = "resume" /\ c.outbox[i].lane = l
         /\ c.outbox[i].status = "pending" => i \in ids
  BY <1>4 DEF Shaped, ResumesCurrent, Resumes
<1>. HIDE DEF d, box, ids
<1>7. box \in Seq(Entry) /\ Fades(c.outbox, box) /\ Taken(c.outbox, box) /\ DOMAIN box = DOMAIN c.outbox
      /\ \A i \in DOMAIN c.outbox : /\ i \in ids => box[i].status = "completed"
                                    /\ i \notin ids => box[i] = c.outbox[i]
  <2>1. box \in Seq(Entry)
    BY <1>1, <1>3, MarkType
  <2>2. Fades(c.outbox, box) /\ Taken(c.outbox, box)
    BY <1>1, <1>3, MarkFades
  <2>. QED  BY <1>1, <1>3, <2>1, <2>2, MarkFacts
<1>8. /\ o \in Chat /\ o.thread = [c.thread EXCEPT ![l] = t] /\ o.cand = [c.cand EXCEPT ![l] = 0]
      /\ o.gen = [c.gen EXCEPT ![l] = g] /\ o.cgen = c.cgen /\ o.phase = [c.phase EXCEPT ![l] = p]
      /\ o.fg = c.fg /\ o.running = c.running /\ o.consumed = c.consumed /\ o.stopping = c.stopping
      /\ o.queue = c.queue /\ o.lane = c.lane /\ o.outbox = box
  <2>1. o = [c EXCEPT !.thread = [c.thread EXCEPT ![l] = t], !.cand = [c.cand EXCEPT ![l] = 0],
                      !.gen = [c.gen EXCEPT ![l] = g], !.attached = [c.attached EXCEPT ![l] = TRUE],
                      !.violated = c.violated \ {l},
                      !.phase = [c.phase EXCEPT ![l] = p], !.outbox = box]
    <3>1. opened = [c EXCEPT !.thread = [c.thread EXCEPT ![l] = t], !.cand = [c.cand EXCEPT ![l] = 0],
                             !.gen = [c.gen EXCEPT ![l] = g], !.attached = [c.attached EXCEPT ![l] = TRUE],
                             !.violated = c.violated \ {l}, !.phase = [c.phase EXCEPT ![l] = "ready"], !.outbox = box]
      BY <1>1 DEF Chat
    <3>2. [[c.phase EXCEPT ![l] = "ready"] EXCEPT ![l] = "running"] = [c.phase EXCEPT ![l] = "running"]
      BY <1>1 DEF Chat
    <3>3. opened.phase = [c.phase EXCEPT ![l] = "ready"]
      BY <1>1, <3>1 DEF Chat
    <3>4. ran = [c EXCEPT !.thread = [c.thread EXCEPT ![l] = t], !.cand = [c.cand EXCEPT ![l] = 0],
                          !.gen = [c.gen EXCEPT ![l] = g], !.attached = [c.attached EXCEPT ![l] = TRUE],
                          !.violated = c.violated \ {l}, !.phase = [c.phase EXCEPT ![l] = "running"], !.outbox = box]
      <4>1. ran = [opened EXCEPT !.phase = [opened.phase EXCEPT ![l] = "running"]]
        OBVIOUS
      <4>2. ran = [opened EXCEPT !.phase = [c.phase EXCEPT ![l] = "running"]]
        BY <3>2, <3>3, <4>1
      <4>. QED  BY <1>1, <3>1, <4>2 DEF Chat
    <3>. QED  BY <3>1, <3>4
  <2>2. /\ [c.thread EXCEPT ![l] = t] \in [Lanes -> Nat] /\ [c.cand EXCEPT ![l] = 0] \in [Lanes -> Nat]
        /\ [c.gen EXCEPT ![l] = g] \in [Lanes -> Nat]
        /\ [c.attached EXCEPT ![l] = TRUE] \in [Lanes -> BOOLEAN]
        /\ [c.phase EXCEPT ![l] = p] \in [Lanes -> Phases]
    BY <1>1, <1>5 DEF Chat
  <2>. HIDE DEF o, p
  <2>. QED  BY <1>1, <1>7, <2>1, <2>2 DEF Chat
<1>. HIDE DEF o, p
<1>9. o \in Placed /\ FgLane(o) = FgLane(c) /\ QueuedOps(o) = QueuedOps(c)
  BY <1>8, Frame DEF FgLane, QueuedOps
<1>10. Opened(c, o, l, g, t)
  BY <1>5, <1>7, <1>8 DEF Opened
<1>11. /\ o.thread[l] = t /\ o.cand[l] = 0 /\ o.phase[l] = p
       /\ \A x \in Lanes \ {l} : /\ o.thread[x] = c.thread[x] /\ o.cand[x] = c.cand[x]
                                 /\ o.gen[x] = c.gen[x] /\ o.phase[x] = c.phase[x]
  BY <1>1, <1>8 DEF Chat
<1>12. Shaped(o)
  <2>1. PhasesFit(o)
    BY <1>5, <1>11 DEF Shaped, PhasesFit, Established
  <2>2. ForegroundFits(o)
    <3>1. c.fg # NoOp => FgLane(c) \in Lanes
      BY ChatParts
    <3>2. ForegroundFits(c)
      BY DEF Shaped
    <3>3. CASE FgLane(c) = l
      BY <1>5, <1>8, <1>9, <1>11, <3>2, <3>3 DEF ForegroundFits
    <3>4. CASE FgLane(c) # l
      BY <1>8, <1>9, <1>11, <3>1, <3>2, <3>4 DEF ForegroundFits
    <3>. QED  BY <3>3, <3>4
  <2>3. /\ DOMAIN o.outbox = DOMAIN c.outbox
        /\ \A i \in DOMAIN c.outbox : SameEffect(c.outbox[i], o.outbox[i])
    BY <1>7, <1>8 DEF Fades, Extends
  <2>4. \A op : Starts(o, op) = Starts(c, op)
    BY <2>3 DEF Starts, SameEffect
  <2>5. StartsOnce(o)
    BY <1>8, <1>9, <2>3, <2>4 DEF Shaped, StartsOnce, SameEffect
  <2>6. ResumesCurrent(o)
    <3>. SUFFICES ASSUME NEW i \in DOMAIN o.outbox, o.outbox[i].kind = "resume",
                         o.outbox[i].status = "pending"
                  PROVE  o.phase[o.outbox[i].lane] = "resuming"
                         /\ o.outbox[i].gen = o.gen[o.outbox[i].lane]
      BY DEF ResumesCurrent
    <3>1. i \in DOMAIN c.outbox /\ i \notin ids /\ o.outbox[i] = c.outbox[i]
      BY <1>7, <1>8, <2>3
    <3>2. c.outbox[i].lane \in Lanes
      BY <3>1, OutboxEntries DEF Entry
    <3>3. c.outbox[i].lane # l
      BY <1>6, <3>1
    <3>. QED  BY <1>11, <3>1, <3>2, <3>3 DEF Shaped, ResumesCurrent
  <2>7. CreatesOrdered(o)
    BY <1>8, <2>3 DEF Shaped, CreatesOrdered, SameEffect
  <2>8. \A i \in DOMAIN o.outbox : AfterStart(o, i) => AfterStart(c, i)
    <3>. SUFFICES ASSUME NEW i \in DOMAIN o.outbox, AfterStart(o, i)  PROVE AfterStart(c, i)
      OBVIOUS
    <3>1. ~Over(c.outbox[i]) /\ c.outbox[i].kind = "create" /\ c.outbox[i].lane = FgLane(c)
      BY <1>7, <1>8, <1>9, <2>3 DEF AfterStart, Fades, Opening, SameEffect
    <3>. QED  BY <1>8, <2>4, <3>1 DEF AfterStart
  <2>9. LastCreate(o) /\ NoCreateRuns(o)
    <3>1. (Waits(o) => FgLane(c) \in Lanes \ {l} /\ Waits(c))
          /\ (o.running /\ o.cand[FgLane(o)] # 0 => FgLane(c) \in Lanes \ {l} /\ c.running /\ c.cand[FgLane(c)] # 0)
      <4>1. c.running => c.fg # NoOp
        BY DEF Shaped, ForegroundFits
      <4>2. c.fg # NoOp => FgLane(c) \in Lanes
        BY ChatParts
      <4>. QED  BY <1>8, <1>9, <1>11, <4>1, <4>2 DEF Waits
    <3>2. LastCreate(o)
      BY <1>8, <1>9, <2>3, <2>8, <3>1 DEF LastCreate, Shaped, SameEffect
    <3>3. NoCreateRuns(o)
      <4>1. \A i \in DOMAIN o.outbox : PendingCreate(o, FgLane(o), i) => PendingCreate(c, FgLane(c), i)
        BY <1>7, <1>8, <1>9, <2>3 DEF PendingCreate, Fades, Opening, SameEffect
      <4>. QED  BY <2>3, <3>1, <4>1 DEF NoCreateRuns, Shaped
    <3>. QED  BY <3>2, <3>3
  <2>. QED  BY <2>1, <2>2, <2>5, <2>6, <2>7, <2>9 DEF Shaped
<1>13. Passes(o, d)
  <2>1. CASE d = o
    BY <1>9, <1>12, <2>1, IdlePasses
  <2>2. CASE d = Drive(o, covered)
    <3>1. Apart(Drive(o, covered))
      BY <2>2 DEF d
    <3>. QED  BY <1>9, <1>12, <2>2, <3>1, DriveShaped DEF Passes
  <2>. QED  BY <1>2, <2>1, <2>2
<1>. QED  BY <1>9, <1>10, <1>12, <1>13 DEF d

(***************************************************************************)
(* Receipts that make the foreground run.                                  *)
(***************************************************************************)
\* Where the outbox changes in place and nobody moves, starts and creates are
\* as they were, and nothing that was over opens a lane.
Settled(c, d) ==
    /\ FgLane(d) = FgLane(c) /\ QueuedOps(d) = QueuedOps(c)
    /\ \A op : Starts(d, op) = Starts(c, op)
    /\ \A i \in DOMAIN c.outbox : AfterStart(d, i) => AfterStart(c, i)
    /\ \A l : \A i \in DOMAIN c.outbox : PendingCreate(d, l, i) => PendingCreate(c, l, i)
    /\ \A i \in DOMAIN c.outbox : d.outbox[i].kind = "resume" /\ d.outbox[i].status = "pending" =>
         /\ c.outbox[i].kind = "resume" /\ c.outbox[i].status = "pending"
         /\ d.outbox[i].lane = c.outbox[i].lane /\ d.outbox[i].gen = c.outbox[i].gen

LEMMA InPlaceSettled ==
    ASSUME NEW c \in Placed, Shaped(c), NEW d, Fades(c.outbox, d.outbox),
           DOMAIN d.outbox = DOMAIN c.outbox, d.lane = c.lane, d.queue = c.queue, d.fg = c.fg,
           d.cgen = c.cgen
    PROVE  StartsOnce(d) /\ CreatesOrdered(d) /\ Settled(c, d)
<1>1. \A i \in DOMAIN c.outbox : SameEffect(c.outbox[i], d.outbox[i])
  BY DEF Fades, Extends
<1>2. FgLane(d) = FgLane(c) /\ QueuedOps(d) = QueuedOps(c)
  BY DEF FgLane, QueuedOps
<1>3. \A op : Starts(d, op) = Starts(c, op)
  BY <1>1 DEF Starts, SameEffect
<1>4. \A i \in DOMAIN c.outbox : AfterStart(d, i) => AfterStart(c, i)
  <2>. SUFFICES ASSUME NEW i \in DOMAIN c.outbox, AfterStart(d, i)  PROVE AfterStart(c, i)
    OBVIOUS
  <2>1. ~Over(c.outbox[i]) /\ c.outbox[i].kind = "create" /\ c.outbox[i].lane = FgLane(c)
    BY <1>1, <1>2 DEF AfterStart, Fades, Opening, SameEffect
  <2>. QED  BY <1>3, <2>1 DEF AfterStart
<1>5. \A l : \A i \in DOMAIN c.outbox : PendingCreate(d, l, i) => PendingCreate(c, l, i)
  BY <1>1 DEF PendingCreate, Fades, Opening, SameEffect
<1>6. \A i \in DOMAIN c.outbox : d.outbox[i].kind = "resume" /\ d.outbox[i].status = "pending" =>
         /\ c.outbox[i].kind = "resume" /\ c.outbox[i].status = "pending"
         /\ d.outbox[i].lane = c.outbox[i].lane /\ d.outbox[i].gen = c.outbox[i].gen
  BY <1>1 DEF Fades, Opening, SameEffect
<1>7. StartsOnce(d)
  BY <1>1, <1>2, <1>3 DEF Shaped, StartsOnce, SameEffect
<1>8. CreatesOrdered(d)
  BY <1>1 DEF Shaped, CreatesOrdered, SameEffect
<1>. QED  BY <1>2, <1>3, <1>4, <1>5, <1>6, <1>7, <1>8 DEF Settled

\* TurnAdmitted of a foreground whose lane is not being opened: no phase moves.
Admitted(c, d) ==
    /\ d.thread = c.thread /\ d.cand = c.cand /\ d.gen = c.gen /\ d.cgen = c.cgen
    /\ d.phase = c.phase /\ d.queue = c.queue /\ d.lane = c.lane /\ d.fg = c.fg
    /\ d.running /\ ~d.consumed /\ ~d.stopping
    /\ Fades(c.outbox, d.outbox) /\ Taken(c.outbox, d.outbox) /\ DOMAIN d.outbox = DOMAIN c.outbox

LEMMA TurnAdmittedShaped ==
    ASSUME NEW c \in Placed, Shaped(c), c.fg # NoOp, ~c.running, c.phase[FgLane(c)] # "resuming",
           c.cand[FgLane(c)] # 0 => \A i \in DOMAIN c.outbox : ~PendingCreate(c, FgLane(c), i)
    PROVE  Admitted(c, TurnAdmitted(c)) /\ Shaped(TurnAdmitted(c)) /\ Carries(c, TurnAdmitted(c))
<1>. DEFINE l == c.lane[c.fg]
            box == Mark(c.outbox, Starts(c, c.fg), "accepted")
            p == IF c.cand[l] # 0 THEN "creating" ELSE "running"
            d == TurnAdmitted(c)
<1>. SUFFICES Admitted(c, d) /\ Shaped(d) /\ Carries(c, d)
  OBVIOUS
<1>1. c \in Chat /\ c.outbox \in Seq(Entry) /\ l \in Lanes /\ l = FgLane(c) /\ d \in Placed
  BY ChatParts, TurnAdmittedPlaced DEF Placed, Chat
<1>2. d = [c EXCEPT !.running = TRUE, !.phase = [c.phase EXCEPT ![l] = p], !.outbox = box]
  BY <1>1 DEF TurnAdmitted
<1>3. c.phase[l] = p
  BY <1>1 DEF Shaped, ForegroundFits, PhasesFit
<1>4. [c.phase EXCEPT ![l] = p] = c.phase
  <2>. HIDE DEF p, l
  <2>. QED  BY <1>1, <1>3 DEF Chat
<1>5. \A i \in DOMAIN c.outbox : i \in Starts(c, c.fg) => c.outbox[i].kind \in {"start", "stop"}
  BY DEF Starts
<1>6. Fades(c.outbox, box) /\ Taken(c.outbox, box) /\ DOMAIN box = DOMAIN c.outbox
  BY <1>1, <1>5, MarkTurnFades, MarkFacts
<1>. HIDE DEF box, l, p, d
<1>7. /\ d.thread = c.thread /\ d.cand = c.cand /\ d.gen = c.gen /\ d.cgen = c.cgen
      /\ d.phase = c.phase /\ d.queue = c.queue /\ d.lane = c.lane /\ d.fg = c.fg
      /\ d.running /\ d.consumed = c.consumed /\ d.stopping = c.stopping /\ d.outbox = box
  BY <1>1, <1>2, <1>4 DEF Chat
<1>8. ~d.consumed /\ ~d.stopping
  BY <1>7 DEF Shaped, ForegroundFits
<1>9. StartsOnce(d) /\ CreatesOrdered(d) /\ Settled(c, d)
  BY <1>6, <1>7, InPlaceSettled
<1>10. PhasesFit(d) /\ ForegroundFits(d)
  <2>1. PhasesFit(d)
    BY <1>7 DEF Shaped, PhasesFit
  <2>2. ForegroundFits(d)
    BY <1>1, <1>7, <1>8, <1>9 DEF Shaped, ForegroundFits, Settled
  <2>. QED  BY <2>1, <2>2
<1>11. ResumesCurrent(d)
  BY <1>6, <1>7, <1>9 DEF Shaped, ResumesCurrent, Settled
<1>12. LastCreate(d) /\ NoCreateRuns(d)
  <2>1. LastCreate(d)
    BY <1>7 DEF LastCreate, Waits
  <2>2. \A i \in DOMAIN c.outbox : PendingCreate(d, FgLane(c), i) => PendingCreate(c, FgLane(c), i)
    BY <1>9 DEF Settled
  <2>3. FgLane(d) = FgLane(c) /\ DOMAIN d.outbox = DOMAIN c.outbox
    BY <1>6, <1>7, <1>9 DEF Settled
  <2>. QED  BY <1>7, <2>1, <2>2, <2>3 DEF NoCreateRuns
<1>13. Shaped(d)
  BY <1>9, <1>10, <1>11, <1>12 DEF Shaped
<1>14. Carries(c, d)
  <2>1. \A x \in Lanes : /\ d.gen[x] >= c.gen[x] /\ d.cgen[x] >= c.cgen[x]
                         /\ d.phase[x] = c.phase[x] /\ d.gen[x] = c.gen[x]
    BY <1>7, ChatParts
  <2>2. \A x \in Lanes, i \in DOMAIN d.outbox : PendingCreate(d, x, i) =>
           i \in DOMAIN c.outbox /\ PendingCreate(c, x, i)
    BY <1>6, <1>7, <1>9 DEF Settled
  <2>3. /\ Extends(c.outbox, d.outbox)
        /\ \A i \in DOMAIN c.outbox : Opening(c.outbox[i]) /\ Over(c.outbox[i]) => Over(d.outbox[i])
    BY <1>6, <1>7 DEF Fades
  <2>. QED  BY <1>7, <2>1, <2>2, <2>3 DEF Carries
<1>. QED  BY <1>6, <1>7, <1>8, <1>13, <1>14 DEF Admitted

\* InputConsumed of the running foreground: the receipt may establish the
\* thread of its lane.
Receipted(c, d, t) ==
    /\ d.gen = c.gen /\ d.cgen = c.cgen /\ d.queue = c.queue /\ d.lane = c.lane /\ d.fg = c.fg
    /\ d.running /\ d.consumed /\ d.stopping = c.stopping
    /\ \A l \in Lanes : d.thread[l] = c.thread[l] \/ (l = FgLane(c) /\ d.thread[l] = t)
    /\ \A l \in Lanes : d.cand[l] = c.cand[l] \/ (l = FgLane(c) /\ d.cand[l] = 0)
    /\ \A l \in Lanes : d.phase[l] = c.phase[l] \/ (l = FgLane(c) /\ d.phase[l] = "running")
    /\ Fades(c.outbox, d.outbox) /\ Taken(c.outbox, d.outbox) /\ DOMAIN d.outbox = DOMAIN c.outbox

LEMMA InputConsumedShaped ==
    ASSUME NEW c \in Placed, Shaped(c), c.running, NEW t \in Nat, CanConsume(c, c.fg, t)
    PROVE  Receipted(c, InputConsumed(c, t), t) /\ Shaped(InputConsumed(c, t))
<1>. DEFINE l == c.lane[c.fg]
            owned == IF t = 0 THEN c
                     ELSE [c EXCEPT !.thread[l] = t, !.cand[l] = 0, !.phase[l] = "running"]
            box == Mark(owned.outbox, Starts(c, c.fg), "consumed")
            done == [owned EXCEPT !.consumed = TRUE, !.outbox = box]
            d == InputConsumed(c, t)
<1>. SUFFICES Receipted(c, d, t) /\ Shaped(d)
  OBVIOUS
<1>0. c.fg # NoOp
  BY DEF Shaped, ForegroundFits
<1>1. c \in Chat /\ c.outbox \in Seq(Entry) /\ l \in Lanes /\ l = FgLane(c) /\ d \in Placed
  BY <1>0, ChatParts, InputConsumedPlaced DEF Placed, Chat
<1>2. IF t = 0 THEN c.cand[l] = 0 ELSE c.cand[l] = t /\ c.thread[l] = 0
  BY DEF CanConsume
<1>3. c.consumed => t = 0
  BY <1>1, <1>2 DEF Shaped, ForegroundFits
<1>4. d = owned \/ d = done
  BY DEF InputConsumed
<1>5. c.consumed => d = c
  BY <1>3 DEF InputConsumed
<1>6. ~c.consumed => d = done
  BY DEF InputConsumed
<1>. HIDE DEF l, d
<1>7. /\ owned \in Chat /\ owned.gen = c.gen /\ owned.cgen = c.cgen /\ owned.queue = c.queue
      /\ owned.lane = c.lane /\ owned.fg = c.fg /\ owned.running = c.running
      /\ owned.stopping = c.stopping /\ owned.outbox = c.outbox
  BY <1>1 DEF Chat, Phases
<1>8. /\ owned.thread[l] = (IF t = 0 THEN c.thread[l] ELSE t)
      /\ owned.cand[l] = 0
      /\ owned.phase[l] = (IF t = 0 THEN c.phase[l] ELSE "running")
      /\ \A x \in Lanes \ {l} : /\ owned.thread[x] = c.thread[x] /\ owned.cand[x] = c.cand[x]
                                /\ owned.phase[x] = c.phase[x]
  BY <1>1, <1>2 DEF Chat
<1>. HIDE DEF owned
<1>9. \A i \in DOMAIN c.outbox : i \in Starts(c, c.fg) => c.outbox[i].kind \in {"start", "stop"}
  BY DEF Starts
<1>10. box = Mark(c.outbox, Starts(c, c.fg), "consumed")
  BY <1>7
<1>. HIDE DEF box
<1>11. /\ Fades(c.outbox, box) /\ Taken(c.outbox, box) /\ DOMAIN box = DOMAIN c.outbox
       /\ box \in Seq(Entry)
  <2>. DEFINE status == "consumed"
  <2>1. status # "pending" /\ status \in Statuses
    BY DEF Statuses
  <2>. HIDE DEF status
  <2>2. box = Mark(c.outbox, Starts(c, c.fg), status)
    BY <1>10 DEF status
  <2>. QED  BY <1>1, <1>9, <2>1, <2>2, MarkTurnFades, MarkFacts, MarkType
<1>12. /\ done.thread = owned.thread /\ done.cand = owned.cand /\ done.phase = owned.phase
       /\ done.gen = c.gen /\ done.cgen = c.cgen /\ done.queue = c.queue
       /\ done.lane = c.lane /\ done.fg = c.fg /\ done.running = c.running /\ done.consumed
       /\ done.stopping = c.stopping /\ done.outbox = box
  BY <1>7, <1>11 DEF Chat
<1>. HIDE DEF done
<1>13. Receipted(c, d, t)
  <2>1. CASE c.consumed
    BY <1>5, <2>1, FadesTransitive DEF Receipted
  <2>2. CASE ~c.consumed
    <3>1. d = done
      BY <1>6, <2>2
    <3>2. \A x \in Lanes : /\ d.thread[x] = c.thread[x] \/ (x = FgLane(c) /\ d.thread[x] = t)
                           /\ d.cand[x] = c.cand[x] \/ (x = FgLane(c) /\ d.cand[x] = 0)
                           /\ d.phase[x] = c.phase[x] \/ (x = FgLane(c) /\ d.phase[x] = "running")
      BY <1>1, <1>8, <1>12, <3>1
    <3>. QED  BY <1>11, <1>12, <3>1, <3>2 DEF Receipted
  <2>. QED  BY <2>1, <2>2
<1>14. ~c.consumed => Shaped(d)
  <2>. SUFFICES ASSUME ~c.consumed  PROVE Shaped(d)
    OBVIOUS
  <2>1. d = done
    BY <1>6
  <2>2. StartsOnce(d) /\ CreatesOrdered(d) /\ Settled(c, d)
    BY <1>11, <1>12, <2>1, InPlaceSettled
  <2>3. c.phase[l] \in {"running", "creating"} /\ (t = 0 => c.phase[l] = "running")
    BY <1>0, <1>1, <1>2 DEF Shaped, ForegroundFits
  <2>4. PhasesFit(d)
    BY <1>2, <1>8, <1>12, <2>1 DEF Shaped, PhasesFit, Established
  <2>5. d.phase[l] = "running" /\ d.cand[l] = 0
    BY <1>8, <1>12, <2>1, <2>3
  <2>6. ForegroundFits(d)
    BY <1>0, <1>1, <1>12, <2>1, <2>2, <2>5 DEF ForegroundFits, Settled
  <2>7. ResumesCurrent(d)
    <3>. SUFFICES ASSUME NEW i \in DOMAIN d.outbox, d.outbox[i].kind = "resume",
                         d.outbox[i].status = "pending"
                  PROVE  d.phase[d.outbox[i].lane] = "resuming"
                         /\ d.outbox[i].gen = d.gen[d.outbox[i].lane]
      BY DEF ResumesCurrent
    <3>1. /\ i \in DOMAIN c.outbox /\ c.outbox[i].kind = "resume" /\ c.outbox[i].status = "pending"
          /\ d.outbox[i].lane = c.outbox[i].lane /\ d.outbox[i].gen = c.outbox[i].gen
      BY <1>11, <1>12, <2>1, <2>2 DEF Settled
    <3>2. c.phase[d.outbox[i].lane] = "resuming" /\ d.outbox[i].gen = c.gen[d.outbox[i].lane]
      BY <3>1 DEF Shaped, ResumesCurrent
    <3>3. d.outbox[i].lane \in Lanes \ {l}
      BY <2>3, <3>1, <3>2, OutboxEntries DEF Entry
    <3>. QED  BY <1>8, <1>12, <2>1, <3>2, <3>3
  <2>8. LastCreate(d) /\ NoCreateRuns(d)
    BY <1>1, <1>12, <2>1, <2>2, <2>5 DEF LastCreate, NoCreateRuns, Waits, Settled
  <2>. QED  BY <2>2, <2>4, <2>6, <2>7, <2>8 DEF Shaped
<1>. QED  BY <1>5, <1>13, <1>14

\* o is the chat once lane l has the candidate t under g, before the head of
\* the queue becomes its foreground; nothing opens the lane of a foreground
\* after its start any more.
Provisioned(c, o, l, g, t) ==
    /\ o.thread = c.thread /\ o.cand = [c.cand EXCEPT ![l] = t] /\ o.gen = [c.gen EXCEPT ![l] = g]
    /\ o.cgen = c.cgen /\ o.phase = c.phase /\ o.lane = c.lane /\ o.queue = c.queue /\ o.fg = c.fg
    /\ ~o.running /\ ~o.consumed /\ ~o.stopping
    /\ Fades(c.outbox, o.outbox) /\ DOMAIN o.outbox = DOMAIN c.outbox
    /\ \A i \in DOMAIN o.outbox : ~AfterStart(o, i)

LEMMA ProvisionedShaped ==
    ASSUME NEW c \in Placed, Shaped(c), NEW l \in Lanes, NEW g \in Nat, NEW t \in Nat \ {0},
           NEW o \in Placed, Provisioned(c, o, l, g, t), c.phase[l] = "creating", l \in Deferred,
           FgLane(c) \in {NoLane, l}
    PROVE  Shaped(o)
<1>0. c \in Chat
  BY DEF Placed
<1>1. StartsOnce(o) /\ CreatesOrdered(o) /\ Settled(c, o)
  BY InPlaceSettled DEF Provisioned
<1>2. o.cand[l] = t /\ \A x \in Lanes \ {l} : o.cand[x] = c.cand[x] /\ o.gen[x] = c.gen[x]
  BY <1>0 DEF Provisioned, Chat
<1>3. PhasesFit(o)
  BY <1>2 DEF Shaped, PhasesFit, Established, Provisioned
<1>4. ForegroundFits(o)
  <2>1. c.fg # NoOp => FgLane(c) = l
    BY ChatParts, NoOpIsNoOp
  <2>. QED  BY <1>1, <1>2, <2>1 DEF ForegroundFits, Provisioned, Settled
<1>5. ResumesCurrent(o)
  <2>. SUFFICES ASSUME NEW i \in DOMAIN o.outbox, o.outbox[i].kind = "resume",
                       o.outbox[i].status = "pending"
                PROVE  o.phase[o.outbox[i].lane] = "resuming"
                       /\ o.outbox[i].gen = o.gen[o.outbox[i].lane]
    BY DEF ResumesCurrent
  <2>1. /\ i \in DOMAIN c.outbox /\ c.outbox[i].kind = "resume" /\ c.outbox[i].status = "pending"
        /\ o.outbox[i].lane = c.outbox[i].lane /\ o.outbox[i].gen = c.outbox[i].gen
    BY <1>1 DEF Settled, Provisioned
  <2>2. c.phase[o.outbox[i].lane] = "resuming" /\ o.outbox[i].gen = c.gen[o.outbox[i].lane]
    BY <2>1 DEF Shaped, ResumesCurrent
  <2>3. o.outbox[i].lane \in Lanes \ {l}
    BY <2>1, <2>2, OutboxEntries DEF Entry
  <2>. QED  BY <1>2, <2>2, <2>3 DEF Provisioned
<1>6. LastCreate(o) /\ NoCreateRuns(o)
  BY DEF LastCreate, NoCreateRuns, Provisioned
<1>. QED  BY <1>1, <1>3, <1>4, <1>5, <1>6 DEF Shaped

\* LaneProvisioned.
LEMMA LaneProvisionedShaped ==
    ASSUME NEW c \in Placed, Shaped(c), NEW l \in Lanes, NEW g \in Nat, NEW t \in Nat \ {0},
           NEW absent \in BOOLEAN, CanProvision(c, l, t, absent), l \in Deferred,
           FgLane(c) = l => ~c.running, Apart(LaneProvisioned(c, l, g, t, absent))
    PROVE  \E o \in Placed : /\ Provisioned(c, o, l, g, t) /\ Shaped(o)
                             /\ Passes(o, LaneProvisioned(c, l, g, t, absent))
<1>. DEFINE ids == Creates(c, l, c.cgen[l])
            made == Mark(c.outbox, ids, "completed")
            again == Mark(made, Starts(c, c.fg), "pending")
            candidate == [c EXCEPT !.cand[l] = t, !.gen[l] = g, !.attached[l] = TRUE,
                                   !.violated = @ \ {l}, !.outbox = made]
            replayed == [candidate EXCEPT !.running = FALSE, !.consumed = FALSE, !.outbox = again]
            d == LaneProvisioned(c, l, g, t, absent)
<1>1. c \in Chat /\ c.outbox \in Seq(Entry) /\ {"completed", "pending"} \subseteq Statuses
  BY DEF Placed, Chat, Statuses
<1>2. c.phase[l] = "creating" /\ FgLane(c) \in {NoLane, l}
  BY DEF CanProvision
<1>3. c.fg # NoOp => FgLane(c) = l
  BY <1>2, ChatParts, NoOpIsNoOp
<1>4. ~c.running /\ ~c.consumed /\ ~c.stopping
  BY <1>3 DEF Shaped, ForegroundFits
<1>5. \/ c.fg # NoOp /\ d = replayed
      \/ c.fg = NoOp /\ c.queue # <<>> /\ DriveTarget(c) = l
         /\ d = BeginForeground(candidate, l, "creating")
      \/ d = candidate
  <2>1. replayed = [candidate EXCEPT !.running = FALSE, !.consumed = FALSE,
                                     !.outbox = Mark(@, Starts(c, c.fg), "pending")]
    BY <1>1 DEF Chat
  <2>. HIDE DEF candidate
  <2>2. [c EXCEPT !.cand[l] = t, !.gen[l] = g, !.attached[l] = TRUE, !.violated = @ \ {l},
                  !.outbox = Mark(@, Creates(c, l, c.cgen[l]), "completed")] = candidate
    BY DEF candidate
  <2>. HIDE DEF replayed
  <2>. QED  BY <2>1, <2>2 DEF LaneProvisioned
<1>6. /\ made \in Seq(Entry) /\ Fades(c.outbox, made) /\ Taken(c.outbox, made)
      /\ DOMAIN made = DOMAIN c.outbox
      /\ \A i \in DOMAIN c.outbox : /\ i \in ids => made[i].status = "completed"
                                    /\ SameEffect(c.outbox[i], made[i])
                                    /\ i \notin ids => made[i] = c.outbox[i]
  <2>1. made \in Seq(Entry)
    BY <1>1, MarkType
  <2>2. Fades(c.outbox, made) /\ Taken(c.outbox, made)
    BY <1>1, MarkFades
  <2>. QED  BY <1>1, <2>1, <2>2, MarkFacts
<1>. HIDE DEF made
<1>7. /\ again \in Seq(Entry) /\ Fades(c.outbox, again) /\ DOMAIN again = DOMAIN c.outbox
      /\ \A i \in DOMAIN c.outbox : c.outbox[i].kind = "create" => again[i] = made[i]
  <2>1. again \in Seq(Entry) /\ DOMAIN again = DOMAIN made
    BY <1>1, <1>6, MarkType, MarkFacts
  <2>2. \A i \in DOMAIN made : i \in Starts(c, c.fg) => made[i].kind \in {"start", "stop"}
    BY <1>6 DEF Starts, SameEffect
  <2>3. Fades(made, again)
    BY <1>6, <2>2, MarkTurnFades
  <2>4. Fades(c.outbox, again)
    BY <1>6, <2>1, <2>3, FadesTransitive
  <2>5. \A i \in DOMAIN c.outbox : c.outbox[i].kind = "create" => i \notin Starts(c, c.fg)
    BY DEF Starts
  <2>. QED  BY <1>6, <2>1, <2>4, <2>5, MarkFacts
<1>. HIDE DEF again
<1>8. /\ [c.cand EXCEPT ![l] = t] \in [Lanes -> Nat] /\ [c.gen EXCEPT ![l] = g] \in [Lanes -> Nat]
      /\ [c.attached EXCEPT ![l] = TRUE] \in [Lanes -> BOOLEAN]
  BY <1>1 DEF Chat
<1>9. candidate = [c EXCEPT !.cand = [c.cand EXCEPT ![l] = t], !.gen = [c.gen EXCEPT ![l] = g],
                            !.attached = [c.attached EXCEPT ![l] = TRUE],
                            !.violated = c.violated \ {l}, !.outbox = made]
  BY <1>1 DEF Chat
<1>. HIDE DEF candidate
<1>10. /\ candidate \in Chat /\ candidate.thread = c.thread
       /\ candidate.cand = [c.cand EXCEPT ![l] = t] /\ candidate.gen = [c.gen EXCEPT ![l] = g]
       /\ candidate.cgen = c.cgen /\ candidate.phase = c.phase /\ candidate.lane = c.lane
       /\ candidate.queue = c.queue /\ candidate.fg = c.fg /\ ~candidate.running
       /\ ~candidate.consumed /\ ~candidate.stopping /\ candidate.outbox = made
  BY <1>1, <1>4, <1>6, <1>8, <1>9 DEF Chat
<1>11. /\ replayed \in Chat /\ replayed.thread = c.thread
       /\ replayed.cand = [c.cand EXCEPT ![l] = t] /\ replayed.gen = [c.gen EXCEPT ![l] = g]
       /\ replayed.cgen = c.cgen /\ replayed.phase = c.phase /\ replayed.lane = c.lane
       /\ replayed.queue = c.queue /\ replayed.fg = c.fg /\ ~replayed.running
       /\ ~replayed.consumed /\ ~replayed.stopping /\ replayed.outbox = again
  BY <1>7, <1>10 DEF Chat
<1>. HIDE DEF replayed
<1>12. \A o : o.fg = c.fg /\ o.lane = c.lane /\ o.outbox \in {made, again} =>
           \A i \in DOMAIN o.outbox : ~AfterStart(o, i)
  <2>. SUFFICES ASSUME NEW o, o.fg = c.fg, o.lane = c.lane, o.outbox \in {made, again},
                       NEW i \in DOMAIN o.outbox, AfterStart(o, i)
                PROVE  FALSE
    OBVIOUS
  <2>1. i \in DOMAIN c.outbox /\ FgLane(o) = FgLane(c)
    BY <1>6, <1>7 DEF FgLane
  <2>2. /\ \A j \in DOMAIN c.outbox : SameEffect(c.outbox[j], o.outbox[j])
        /\ DOMAIN o.outbox = DOMAIN c.outbox
    BY <1>6, <1>7 DEF Fades, Extends
  <2>3. c.outbox[i].kind = "create" /\ c.outbox[i].lane = FgLane(c) /\ o.outbox[i] = made[i]
    BY <1>7, <2>1, <2>2 DEF AfterStart, SameEffect
  <2>4. FgLane(c) = l /\ c.fg # NoOp
    <3>1. c.outbox[i].lane \in Lanes
      BY <2>1, OutboxEntries DEF Entry
    <3>. QED  BY <1>2, <2>3, <3>1, NoOpIsNoOp, ChatParts
  <2>5. i \notin ids /\ made[i] = c.outbox[i]
    BY <1>6, <2>1, <2>3 DEF AfterStart, Over
  <2>6. AfterStart(c, i)
    BY <2>1, <2>2, <2>3, <2>5 DEF AfterStart, Starts, SameEffect
  <2>7. Waits(c)
    BY <1>2, <1>4, <2>4 DEF Waits, Shaped, ForegroundFits
  <2>8. c.outbox[i].gen = c.cgen[l]
    BY <2>1, <2>4, <2>6, <2>7 DEF Shaped, LastCreate
  <2>. QED  BY <2>1, <2>3, <2>4, <2>5, <2>8 DEF Creates
<1>13. ASSUME NEW o \in {candidate, replayed}
       PROVE  o \in Placed /\ Provisioned(c, o, l, g, t) /\ Shaped(o) /\ Passes(o, o)
  <2>1. o \in Placed
    BY <1>10, <1>11, <1>13, Frame
  <2>2. Provisioned(c, o, l, g, t)
    BY <1>6, <1>7, <1>10, <1>11, <1>12, <1>13 DEF Provisioned
  <2>3. Shaped(o)
    BY <1>2, <2>1, <2>2, ProvisionedShaped
  <2>. QED  BY <2>1, <2>2, <2>3, BoxPasses, FadesTransitive DEF Provisioned
<1>14. CASE c.fg = NoOp /\ c.queue # <<>> /\ DriveTarget(c) = l
            /\ d = BeginForeground(candidate, l, "creating")
  <2>1. l = candidate.lane[Head(candidate.queue)] /\ candidate.cand[l] # 0
    BY <1>1, <1>10, <1>14 DEF DriveTarget, Chat
  <2>. HIDE DEF d
  <2>2. d.fg \notin QueuedOps(d)
    BY DEF Apart, d
  <2>3. Passes(candidate, d)
    BY <1>2, <1>10, <1>13, <1>14, <2>1, <2>2, BeginShaped DEF Passes
  <2>. QED  BY <1>13, <2>3 DEF d
<1>. QED  BY <1>5, <1>13, <1>14

(***************************************************************************)
(* Recovery.                                                               *)
(***************************************************************************)
\* An entry that recovery looks at: what was over stays over, a resume, start
\* or Stop does not become pending, and every create is pending or over.
LEMMA RecoveredEntryFacts ==
    ASSUME NEW c, NEW e \in Entry
    PROVE  /\ SameEffect(e, RecoveredEntry(c, e))
           /\ RecoveredEntry(c, e).status = "pending" /\ e.kind # "create" => e.status = "pending"
           /\ Over(e) => Over(RecoveredEntry(c, e))
           /\ e.kind = "create" => \/ Over(RecoveredEntry(c, e))
                                   \/ RecoveredEntry(c, e).status = "pending"
<1>. DEFINE r == RecoveredEntry(c, e)
<1>1. e.status \in Statuses /\ e.kind \in Kinds
  BY DEF Entry
<1>2. \A s, b : /\ SameEffect(e, [e EXCEPT !.status = s, !.recon = b])
                /\ [e EXCEPT !.status = s, !.recon = b].status = s
                /\ SameEffect(e, [e EXCEPT !.status = s]) /\ [e EXCEPT !.status = s].status = s
                /\ SameEffect(e, e)
  BY DEF Entry, SameEffect
<1>3. \/ /\ e.kind = "create" /\ e.status \in {"dispatched", "accepted", "consumed"}
         /\ r \in {[e EXCEPT !.status = "completed", !.recon = FALSE],
                   [e EXCEPT !.status = "pending", !.recon = TRUE]}
      \/ /\ e.kind # "create" /\ e.status \in {"dispatched", "accepted", "consumed"}
         /\ r \in {[e EXCEPT !.status = "failed"], [e EXCEPT !.status = "ambiguous"]}
      \/ r = e /\ e.status \notin {"dispatched", "accepted", "consumed"}
  BY <1>1 DEF RecoveredEntry, Kinds
<1>. HIDE DEF r
<1>4. SameEffect(e, r)
  <2>1. CASE r \in {[e EXCEPT !.status = "completed", !.recon = FALSE],
                    [e EXCEPT !.status = "pending", !.recon = TRUE]}
    BY <2>1 DEF SameEffect, Entry
  <2>2. CASE r \in {[e EXCEPT !.status = "failed"], [e EXCEPT !.status = "ambiguous"]}
    BY <1>2, <2>2
  <2>3. CASE r = e
    BY <1>2, <2>3
  <2>. QED  BY <1>3, <2>1, <2>2, <2>3
<1>5. r.status = "pending" /\ e.kind # "create" => e.status = "pending"
  BY <1>2, <1>3
<1>6. Over(e) => Over(r)
  BY <1>3 DEF Over
<1>7. e.kind = "create" => Over(r) \/ r.status = "pending"
  <2>1. CASE r = e /\ e.status \notin {"dispatched", "accepted", "consumed"}
    BY <1>1, <2>1 DEF Over, Statuses
  <2>2. CASE r \in {[e EXCEPT !.status = "completed", !.recon = FALSE],
                    [e EXCEPT !.status = "pending", !.recon = TRUE]}
    <3>1. r.status = "completed" \/ r.status = "pending"
      BY <1>2, <2>2
    <3>. QED  BY <3>1 DEF Over
  <2>. QED  BY <1>3, <2>1, <2>2
<1>. QED  BY <1>4, <1>5, <1>6, <1>7 DEF r

\* The chat once its entries and its foreground were looked at: only an input
\* that was never sent stays in the foreground.
Rereads(c, m) ==
    /\ m.thread = c.thread /\ m.cand = c.cand /\ m.gen = c.gen /\ m.cgen = c.cgen
    /\ m.fg \in {c.fg, NoOp} /\ (m.fg # NoOp => ~c.running)
    /\ ~m.running /\ ~m.consumed /\ ~m.stopping
    /\ \A l \in Lanes : m.phase[l] = c.phase[l] \/ m.phase[l] \in {"absent", "detached"}
    /\ QueueCalm(c, m)
    /\ DOMAIN m.outbox = DOMAIN c.outbox
    /\ \A i \in DOMAIN c.outbox :
         /\ SameEffect(c.outbox[i], m.outbox[i])
         /\ c.outbox[i].kind = "resume" /\ m.outbox[i].status = "pending" => c.outbox[i].status = "pending"
         /\ c.outbox[i].kind = "create" => /\ Over(c.outbox[i]) => Over(m.outbox[i])
                                           /\ Over(m.outbox[i]) \/ m.outbox[i].status = "pending"

LEMMA RereadShaped ==
    ASSUME NEW c \in Placed, Shaped(c)
    PROVE  Reread(c) \in Placed /\ Rereads(c, Reread(c))
<1>. DEFINE box == [i \in DOMAIN c.outbox |-> RecoveredEntry(c, c.outbox[i])]
            seen == [c EXCEPT !.outbox = box]
            l == seen.lane[seen.fg]
            phase == IF seen.cand[l] # 0 THEN "absent" ELSE Unattached(seen, l)
            shut == [seen EXCEPT !.phase[l] = phase]
            kept == Requeued(shut)
<1>1. c \in Chat /\ c.outbox \in Seq(Entry) /\ Reread(c) \in Placed
  BY RereadPlaced DEF Placed, Chat
<1>2. box \in Seq(Entry)
  <2>1. \A i \in 1 .. Len(c.outbox) : RecoveredEntry(c, c.outbox[i]) \in Entry
    BY <1>1, RecoveredEntryType
  <2>2. box = [i \in 1 .. Len(c.outbox) |-> RecoveredEntry(c, c.outbox[i])]
    BY <1>1
  <2>. QED  BY <1>1, <2>1, <2>2, Len(c.outbox) \in Nat
<1>3. DOMAIN box = DOMAIN c.outbox /\ \A i \in DOMAIN c.outbox :
        /\ SameEffect(c.outbox[i], box[i])
        /\ box[i].status = "pending" /\ c.outbox[i].kind # "create" => c.outbox[i].status = "pending"
        /\ c.outbox[i].kind = "create" => /\ Over(c.outbox[i]) => Over(box[i])
                                          /\ Over(box[i]) \/ box[i].status = "pending"
  <2>. SUFFICES ASSUME NEW i \in DOMAIN c.outbox
                PROVE  /\ SameEffect(c.outbox[i], box[i])
                       /\ box[i].status = "pending" /\ c.outbox[i].kind # "create" =>
                            c.outbox[i].status = "pending"
                       /\ c.outbox[i].kind = "create" => /\ Over(c.outbox[i]) => Over(box[i])
                                                         /\ Over(box[i]) \/ box[i].status = "pending"
    OBVIOUS
  <2>1. c.outbox[i] \in Entry /\ box[i] = RecoveredEntry(c, c.outbox[i])
    BY OutboxEntries
  <2>. HIDE DEF box
  <2>. QED  BY <2>1, RecoveredEntryFacts
<1>4. Reread(c) = RetiredForeground(seen)
  BY <1>1 DEF Reread
<1>. HIDE DEF box
<1>5. /\ seen \in Chat /\ seen.queue = c.queue /\ seen.fg = c.fg /\ seen.lane = c.lane
      /\ seen.thread = c.thread /\ seen.cand = c.cand /\ seen.gen = c.gen /\ seen.cgen = c.cgen
      /\ seen.phase = c.phase /\ seen.running = c.running /\ seen.consumed = c.consumed
      /\ seen.stopping = c.stopping /\ seen.outbox = box
  BY <1>1, <1>2 DEF Chat
<1>. HIDE DEF seen
<1>6. seen \in Placed
  BY <1>5, Frame
<1>7. \/ (seen.fg # NoOp => ~seen.running) /\ RetiredForeground(seen) = seen
      \/ seen.fg # NoOp /\ RetiredForeground(seen) = Interrupted(kept)
  BY DEF RetiredForeground, Retires
<1>8. CASE (seen.fg # NoOp => ~seen.running) /\ RetiredForeground(seen) = seen
  <2>1. ~c.running /\ ~c.consumed /\ ~c.stopping
    BY <1>5, <1>8 DEF Shaped, ForegroundFits
  <2>2. QueueCalm(c, seen)
    BY <1>5 DEF QueueCalm, QueuedOps
  <2>3. Rereads(c, seen)
    BY <1>3, <1>5, <2>1, <2>2 DEF Rereads
  <2>. QED  BY <1>1, <1>4, <1>8, <2>3
<1>9. CASE seen.fg # NoOp /\ RetiredForeground(seen) = Interrupted(kept)
  <2>1. phase \in {"absent", "detached"} /\ phase \in Phases
    BY DEF Unattached, Phases
  <2>. HIDE DEF phase, l
  <2>2. /\ shut \in Chat /\ shut.queue = c.queue /\ shut.fg = c.fg /\ shut.lane = c.lane
        /\ shut.thread = c.thread /\ shut.cand = c.cand /\ shut.gen = c.gen /\ shut.cgen = c.cgen
        /\ shut.phase = [c.phase EXCEPT ![l] = phase] /\ shut.outbox = box
    BY <1>5, <2>1 DEF Chat
  <2>. HIDE DEF shut
  <2>3. shut \in Placed
    BY <1>6, <1>5, <2>2, Frame
  <2>4. /\ kept \in Placed /\ QueueCalm(shut, kept)
        /\ kept.thread = c.thread /\ kept.cand = c.cand /\ kept.gen = c.gen /\ kept.cgen = c.cgen
        /\ kept.phase = shut.phase /\ kept.outbox = box
    BY <2>2, <2>3, RequeuedCalm
  <2>. HIDE DEF kept
  <2>. DEFINE m == Interrupted(kept)
  <2>5. Vacated(kept, m)
    BY <2>4, InterruptedCleared
  <2>. HIDE DEF m
  <2>6. QueueCalm(c, m)
    BY <2>2, <2>4, <2>5 DEF QueueCalm, QueuedOps, Vacated
  <2>7. \A x \in Lanes : m.phase[x] = c.phase[x] \/ m.phase[x] \in {"absent", "detached"}
    BY <1>1, <2>1, <2>2, <2>4, <2>5 DEF Vacated, Chat
  <2>8. DOMAIN m.outbox = DOMAIN c.outbox /\ \A i \in DOMAIN c.outbox :
          /\ SameEffect(box[i], m.outbox[i])
          /\ c.outbox[i].kind = "resume" /\ m.outbox[i].status = "pending" => box[i].status = "pending"
          /\ c.outbox[i].kind = "create" => m.outbox[i] = box[i]
    <3>1. Fades(box, m.outbox) /\ DOMAIN m.outbox = DOMAIN box
      BY <2>4, <2>5 DEF Vacated
    <3>2. \A i \in DOMAIN box : box[i].kind = "create" => m.outbox[i] = box[i]
      BY <2>4, <2>5 DEF Vacated
    <3>. QED  BY <1>3, <3>1, <3>2 DEF Fades, Extends, Opening, SameEffect
  <2>9. DOMAIN m.outbox = DOMAIN c.outbox /\ \A i \in DOMAIN c.outbox :
          /\ SameEffect(c.outbox[i], m.outbox[i])
          /\ c.outbox[i].kind = "resume" /\ m.outbox[i].status = "pending" => c.outbox[i].status = "pending"
          /\ c.outbox[i].kind = "create" => /\ Over(c.outbox[i]) => Over(m.outbox[i])
                                            /\ Over(m.outbox[i]) \/ m.outbox[i].status = "pending"
    BY <1>3, <2>8 DEF SameEffect
  <2>10. Rereads(c, m)
    BY <2>4, <2>5, <2>6, <2>7, <2>9 DEF Rereads, Vacated
  <2>. QED  BY <1>1, <1>4, <1>9, <2>10 DEF m
<1>. QED  BY <1>7, <1>8, <1>9

\* drive leaves a lane that is being created and has no candidate alone.
LEMMA DriveKeepsCreating ==
    ASSUME NEW c \in Placed, NEW l \in Lanes, c.phase[l] = "creating", c.cand[l] = 0,
           NEW d, d = c \/ d = DriveQueued(c)
    PROVE  d.phase[l] = "creating" /\ d.thread = c.thread
<1>. DEFINE t == DriveTarget(c)
<1>0. c \in Chat
  BY DEF Placed
<1>1. \A k, g, r : k # l => OpenByCreate(c, k, g, r).phase[l] = "creating"
                            /\ OpenByCreate(c, k, g, r).thread = c.thread
  BY <1>0 DEF OpenByCreate, Chat
<1>2. \A k, g : k # l => OpenByResume(c, k, g).phase[l] = "creating"
                         /\ OpenByResume(c, k, g).thread = c.thread
  BY <1>0 DEF OpenByResume, Chat
<1>3. \A k, p : k # l => BeginForeground(c, k, p).phase[l] = "creating"
                         /\ BeginForeground(c, k, p).thread = c.thread
  BY <1>0 DEF BeginForeground, Chat
<1>4. \A k : [c EXCEPT !.active = k].phase[l] = "creating" /\ [c EXCEPT !.active = k].thread = c.thread
  BY <1>0 DEF Chat
<1>5. CASE d = c
  BY <1>5
<1>6. CASE d = DriveLane(c, t, TRUE)
  <2>1. CASE t = l
    <3>1. d = c
      BY <1>6, <2>1 DEF DriveLane
    <3>. QED  BY <3>1
  <2>2. CASE t # l
    <3>. HIDE DEF t
    <3>. QED  BY <1>1, <1>2, <1>3, <1>4, <1>5, <1>6, <2>2 DEF DriveLane
  <2>. QED  BY <2>1, <2>2
<1>. QED  BY <1>5, <1>6 DEF DriveQueued, Drive

\* The chat after the lane pass: what its lanes and its outbox are.
Relaned(m, b, order) ==
    /\ b.thread = m.thread /\ b.cand = m.cand /\ b.queue = m.queue /\ b.lane = m.lane /\ b.fg = m.fg
    /\ b.running = m.running /\ b.consumed = m.consumed /\ b.stopping = m.stopping
    /\ \A l \in Lanes : /\ b.phase[l] = RecoveredPhase(m, l) /\ b.cgen[l] = RecoveredCgen(m, l)
                        /\ b.gen[l] = RecoveredGen(m, l)
    /\ DOMAIN m.outbox \subseteq DOMAIN b.outbox
    /\ \A i \in DOMAIN m.outbox : b.outbox[i] = m.outbox[i]
    /\ \A j \in DOMAIN b.outbox \ DOMAIN m.outbox :
         /\ \A i \in DOMAIN m.outbox : i < j
         /\ j - Len(m.outbox) \in DOMAIN order
         /\ b.outbox[j] = RecoveryEffect(m, order[j - Len(m.outbox)])
    /\ \A k \in DOMAIN order : \E j \in DOMAIN b.outbox : b.outbox[j] = RecoveryEffect(m, order[k])

\* The lane pass of RecoverOutbox.
LEMMA LanePass ==
    ASSUME NEW m \in Placed, NEW order \in Orders(NeedsEffect(m)),
           NEW b, b = [m EXCEPT !.phase  = [l \in Lanes |-> RecoveredPhase(m, l)],
                                !.cgen   = [l \in Lanes |-> RecoveredCgen(m, l)],
                                !.gen    = [l \in Lanes |-> RecoveredGen(m, l)],
                                !.outbox = @ \o [i \in DOMAIN order |-> RecoveryEffect(m, order[i])]]
    PROVE  b \in Placed /\ Relaned(m, b, order)
<1>. DEFINE new == [i \in DOMAIN order |-> RecoveryEffect(m, order[i])]
            phases == [l \in Lanes |-> RecoveredPhase(m, l)]
            cgens == [l \in Lanes |-> RecoveredCgen(m, l)]
            gens == [l \in Lanes |-> RecoveredGen(m, l)]
            box == m.outbox \o new
<1>1. m \in Chat /\ m.outbox \in Seq(Entry)
  BY DEF Placed, Chat
<1>2. order \in [1 .. Cardinality(NeedsEffect(m)) -> NeedsEffect(m)]
  BY DEF Orders
<1>3. new \in Seq(Entry) /\ DOMAIN new = DOMAIN order
  BY <1>1, <1>2, RecoveryEffectsType
<1>4. phases \in [Lanes -> Phases] /\ cgens \in [Lanes -> Nat] /\ gens \in [Lanes -> Nat]
  BY <1>1, RecoveredTypes
<1>5. \A l \in Lanes : /\ phases[l] = RecoveredPhase(m, l) /\ cgens[l] = RecoveredCgen(m, l)
                       /\ gens[l] = RecoveredGen(m, l)
  OBVIOUS
<1>6. \A i \in DOMAIN order : new[i] = RecoveryEffect(m, order[i])
  OBVIOUS
<1>7. b = [m EXCEPT !.phase = phases, !.cgen = cgens, !.gen = gens, !.outbox = box]
  OBVIOUS
<1>. HIDE DEF new, phases, cgens, gens
<1>8. /\ box \in Seq(Entry) /\ Len(box) = Len(m.outbox) + Len(new)
      /\ \A i \in 1 .. Len(box) : box[i] = IF i <= Len(m.outbox) THEN m.outbox[i]
                                           ELSE new[i - Len(m.outbox)]
  BY <1>1, <1>3, ConcatProperties
<1>. HIDE DEF box
<1>9. /\ DOMAIN m.outbox = 1 .. Len(m.outbox) /\ DOMAIN new = 1 .. Len(new)
      /\ DOMAIN box = 1 .. Len(box) /\ Len(m.outbox) \in Nat /\ Len(new) \in Nat
  BY <1>1, <1>3, <1>8
<1>10. /\ DOMAIN m.outbox \subseteq DOMAIN box
       /\ \A i \in DOMAIN m.outbox : box[i] = m.outbox[i]
       /\ \A j \in DOMAIN box \ DOMAIN m.outbox :
            /\ \A i \in DOMAIN m.outbox : i < j
            /\ j - Len(m.outbox) \in DOMAIN order
            /\ box[j] = new[j - Len(m.outbox)]
  BY <1>3, <1>8, <1>9
<1>11. \A k \in DOMAIN order : \E j \in DOMAIN box : box[j] = new[k]
  <2>. SUFFICES ASSUME NEW k \in DOMAIN order  PROVE \E j \in DOMAIN box : box[j] = new[k]
    OBVIOUS
  <2>1. k \in 1 .. Len(new)
    BY <1>3, <1>9
  <2>2. Len(m.outbox) + k \in 1 .. Len(box) /\ ~(Len(m.outbox) + k <= Len(m.outbox))
        /\ (Len(m.outbox) + k) - Len(m.outbox) = k
    BY <1>8, <1>9, <2>1
  <2>3. box[Len(m.outbox) + k] = new[k]
    BY <1>8, <2>2
  <2>. QED  BY <1>9, <2>2, <2>3
<1>12. /\ b \in Chat /\ b.thread = m.thread /\ b.cand = m.cand /\ b.queue = m.queue
       /\ b.lane = m.lane /\ b.fg = m.fg /\ b.running = m.running /\ b.consumed = m.consumed
       /\ b.stopping = m.stopping /\ b.phase = phases /\ b.cgen = cgens /\ b.gen = gens
       /\ b.outbox = box
  BY <1>1, <1>4, <1>7, <1>8 DEF Chat
<1>13. Relaned(m, b, order)
  <2>1. ASSUME NEW k \in DOMAIN order
        PROVE  \E j \in DOMAIN b.outbox : b.outbox[j] = RecoveryEffect(m, order[k])
    <3>1. PICK j \in DOMAIN box : box[j] = new[k]
      BY <1>11
    <3>2. j \in DOMAIN b.outbox /\ b.outbox[j] = new[k]
      BY <1>12, <3>1
    <3>3. new[k] = RecoveryEffect(m, order[k])
      BY <1>6
    <3>. QED  BY <3>2, <3>3
  <2>2. /\ DOMAIN m.outbox \subseteq DOMAIN b.outbox
        /\ \A i \in DOMAIN m.outbox : b.outbox[i] = m.outbox[i]
        /\ \A j \in DOMAIN b.outbox \ DOMAIN m.outbox :
             /\ \A i \in DOMAIN m.outbox : i < j
             /\ j - Len(m.outbox) \in DOMAIN order
             /\ b.outbox[j] = RecoveryEffect(m, order[j - Len(m.outbox)])
    BY <1>6, <1>10, <1>12
  <2>3. \A l \in Lanes : /\ b.phase[l] = RecoveredPhase(m, l) /\ b.cgen[l] = RecoveredCgen(m, l)
                         /\ b.gen[l] = RecoveredGen(m, l)
    BY <1>5, <1>12
  <2>. QED  BY <1>12, <2>1, <2>2, <2>3 DEF Relaned
<1>. QED  BY <1>12, <1>13, Frame

\* The new effects: one for each lane that needs it.
LEMMA RecoveryEffectFacts ==
    ASSUME NEW m, NEW l \in NeedsEffect(m)
    PROVE  /\ RecoveryEffect(m, l).lane = l
           /\ \/ Reverified(m, l) /\ RecoveryEffect(m, l).kind = "create"
                 /\ RecoveryEffect(m, l).gen = RecoveredCgen(m, l)
              \/ ~Reverified(m, l) /\ Reresumed(m, l) /\ RecoveryEffect(m, l).kind = "resume"
                 /\ RecoveryEffect(m, l).gen = RecoveredGen(m, l)
BY DEF NeedsEffect, RecoveryEffect, CreateEffect, ResumeEffect

\* The chat after the lane pass, when its lanes and its foreground can be saved.
LEMMA RelanedShaped ==
    ASSUME NEW c \in Placed, Shaped(c), NEW m \in Placed, Rereads(c, m),
           NEW order \in Orders(NeedsEffect(m)), NEW b \in Placed, Relaned(m, b, order),
           \A l \in Lanes : m.phase[l] # "unselected" /\ PendingOpen(m, l, "create") => m.thread[l] = 0,
           b.fg # NoOp => \/ b.phase[FgLane(b)] = "running"
                          \/ b.phase[FgLane(b)] = "creating" /\ b.cand[FgLane(b)] # 0
                          \/ b.phase[FgLane(b)] = "resuming" /\ ~b.running
    PROVE  Shaped(b)
<1>. DEFINE Old(i) == i \in DOMAIN m.outbox
            At(j) == order[j - Len(m.outbox)]
<1>1. /\ c \in Chat /\ m \in Chat /\ b \in Chat
      /\ m.thread = c.thread /\ m.cand = c.cand /\ m.gen = c.gen /\ m.cgen = c.cgen
      /\ b.thread = m.thread /\ b.cand = m.cand /\ b.queue = m.queue /\ b.lane = m.lane /\ b.fg = m.fg
      /\ ~b.running /\ ~b.consumed /\ ~b.stopping /\ DOMAIN m.outbox = DOMAIN c.outbox
  BY DEF Placed, Rereads, Relaned
<1>2. \A l \in Lanes : /\ b.phase[l] = RecoveredPhase(m, l) /\ b.cgen[l] = RecoveredCgen(m, l)
                       /\ b.gen[l] = RecoveredGen(m, l)
  BY DEF Relaned
<1>3. \A l \in Lanes : /\ m.phase[l] = "unselected" => c.thread[l] = 0 /\ c.cand[l] = 0
                       /\ c.thread[l] # 0 => c.cand[l] = 0 /\ m.phase[l] # "unselected"
                       /\ c.cand[l] # 0 => l \in Deferred
  BY DEF Shaped, PhasesFit, Established, Rereads
<1>4. \A l \in Lanes : m.thread[l] # 0 => b.phase[l] \in {"resuming", "detached"}
  BY <1>1, <1>2, <1>3 DEF RecoveredPhase
<1>5. \A l \in Lanes : m.thread[l] = 0 =>
        \/ b.phase[l] = "unselected" /\ m.cand[l] = 0
        \/ b.phase[l] \in {"creating", "absent"}
  BY <1>1, <1>2, <1>3 DEF RecoveredPhase
<1>6. PhasesFit(b)
  BY <1>1, <1>3, <1>4, <1>5 DEF PhasesFit, Established
<1>7. ForegroundFits(b)
  BY <1>1 DEF ForegroundFits
<1>8. \A l \in Lanes : /\ RecoveredCgen(m, l) >= m.cgen[l] /\ m.cgen[l] \in Nat
                       /\ RecoveredCgen(m, l) \in Nat
                       /\ Reverified(m, l) => RecoveredCgen(m, l) > m.cgen[l]
                       /\ ~Reverified(m, l) => RecoveredCgen(m, l) = m.cgen[l]
  BY <1>1, ChatParts DEF RecoveredCgen
<1>9. /\ \A i \in DOMAIN b.outbox : Old(i) => b.outbox[i] = m.outbox[i]
      /\ \A j \in DOMAIN b.outbox : ~Old(j) =>
           /\ \A i \in DOMAIN m.outbox : i < j
           /\ At(j) \in NeedsEffect(m) /\ j - Len(m.outbox) \in DOMAIN order
           /\ b.outbox[j] = RecoveryEffect(m, At(j))
  <2>1. order \in [1 .. Cardinality(NeedsEffect(m)) -> NeedsEffect(m)]
    BY DEF Orders
  <2>2. \A k \in DOMAIN order : order[k] \in NeedsEffect(m)
    BY <2>1
  <2>. QED  BY <2>2 DEF Relaned
<1>10. \A j \in DOMAIN b.outbox : ~Old(j) =>
         /\ b.outbox[j].lane = At(j) /\ At(j) \in Lanes
         /\ \/ Reverified(m, At(j)) /\ b.outbox[j].kind = "create"
               /\ b.outbox[j].gen = RecoveredCgen(m, At(j))
            \/ ~Reverified(m, At(j)) /\ Reresumed(m, At(j)) /\ b.outbox[j].kind = "resume"
               /\ b.outbox[j].gen = RecoveredGen(m, At(j))
  BY <1>9, RecoveryEffectFacts DEF NeedsEffect
<1>11. \A i, j \in DOMAIN b.outbox : ~Old(i) /\ ~Old(j) /\ At(i) = At(j) => i = j
  <2>1. \A x, y \in DOMAIN order : order[x] = order[y] => x = y
    BY DEF Orders
  <2>2. Len(m.outbox) \in Nat /\ DOMAIN b.outbox \subseteq Nat
    BY OutboxEntries
  <2>3. \A i, j \in Nat : i - Len(m.outbox) = j - Len(m.outbox) => i = j
    BY <2>2
  <2>4. SUFFICES ASSUME NEW i \in DOMAIN b.outbox, NEW j \in DOMAIN b.outbox,
                        ~Old(i), ~Old(j), At(i) = At(j)
                 PROVE  i = j
    OBVIOUS
  <2>5. i - Len(m.outbox) \in DOMAIN order /\ j - Len(m.outbox) \in DOMAIN order
    BY <1>9, <2>4
  <2>6. i - Len(m.outbox) = j - Len(m.outbox)
    BY <2>1, <2>4, <2>5
  <2>. QED  BY <2>2, <2>3, <2>6
<1>12. \A i \in DOMAIN b.outbox : Old(i) =>
         /\ i \in DOMAIN c.outbox /\ SameEffect(c.outbox[i], b.outbox[i])
         /\ b.outbox[i].lane \in Lanes
         /\ b.outbox[i].kind = "resume" /\ b.outbox[i].status = "pending" =>
              c.outbox[i].status = "pending"
         /\ b.outbox[i].kind = "create" =>
              /\ Over(c.outbox[i]) => Over(b.outbox[i])
              /\ Over(b.outbox[i]) \/ b.outbox[i].status = "pending"
  <2>1. \A i \in DOMAIN b.outbox : b.outbox[i].lane \in Lanes
    BY OutboxEntries DEF Entry
  <2>2. \A i \in DOMAIN c.outbox : b.outbox[i] = m.outbox[i]
    BY <1>1 DEF Relaned
  <2>3. \A i \in DOMAIN c.outbox : SameEffect(c.outbox[i], m.outbox[i])
    BY DEF Rereads
  <2>4. \A i \in DOMAIN c.outbox : c.outbox[i].kind = m.outbox[i].kind
    BY <2>3 DEF SameEffect
  <2>. QED  BY <1>1, <2>1, <2>2, <2>3, <2>4 DEF Rereads
<1>. HIDE DEF Old, At
<1>13. StartsOnce(b)
  <2>1. b.fg # NoOp => Starts(b, b.fg) # {}
    <3>1. b.fg # NoOp => b.fg = c.fg /\ Starts(c, c.fg) # {}
      BY <1>1 DEF Rereads, Shaped, StartsOnce
    <3>2. DOMAIN c.outbox \subseteq DOMAIN b.outbox /\ \A i \in DOMAIN c.outbox : Old(i)
      BY <1>1 DEF Relaned, Old
    <3>3. \A i \in Starts(c, c.fg) : i \in Starts(b, c.fg)
      BY <1>12, <3>2 DEF Starts, SameEffect
    <3>. QED  BY <3>1, <3>3
  <2>2. ASSUME NEW i \in DOMAIN b.outbox, b.outbox[i].kind = "start"
        PROVE  /\ b.lane[b.outbox[i].op] = b.outbox[i].lane
               /\ b.outbox[i].op \notin QueuedOps(b)
               /\ \A j \in DOMAIN b.outbox :
                    b.outbox[j].kind = "start" /\ b.outbox[j].op = b.outbox[i].op => j = i
    <3>. DEFINE op == b.outbox[i].op
    <3>1. \A j \in DOMAIN b.outbox : b.outbox[j].kind = "start" =>
             /\ j \in DOMAIN c.outbox /\ c.outbox[j].kind = "start"
             /\ c.outbox[j].op = b.outbox[j].op /\ c.outbox[j].lane = b.outbox[j].lane
      BY <1>10, <1>12 DEF SameEffect
    <3>2. op \in Ops /\ b.outbox[i].lane \in Lanes
      BY <2>2, OutboxEntries, NoOpIsNoOp DEF Entry
    <3>3. c.lane[op] = b.outbox[i].lane /\ op \notin QueuedOps(c)
      BY <2>2, <3>1 DEF Shaped, StartsOnce
    <3>4. c.lane[op] # NoLane
      BY <3>2, <3>3, NoOpIsNoOp
    <3>5. b.lane[op] = c.lane[op] /\ op \notin QueuedOps(m)
      BY <1>1, <3>2, <3>3, <3>4 DEF Rereads, QueueCalm
    <3>6. op \notin QueuedOps(b)
      BY <1>1, <3>5 DEF QueuedOps
    <3>7. \A j \in DOMAIN b.outbox : b.outbox[j].kind = "start" /\ b.outbox[j].op = op => j = i
      BY <2>2, <3>1 DEF Shaped, StartsOnce
    <3>. QED  BY <3>3, <3>5, <3>6, <3>7
  <2>. QED  BY <2>1, <2>2 DEF StartsOnce
<1>14. ResumesCurrent(b)
  <2>. SUFFICES ASSUME NEW i \in DOMAIN b.outbox, b.outbox[i].kind = "resume",
                       b.outbox[i].status = "pending"
                PROVE  /\ b.phase[b.outbox[i].lane] = "resuming"
                       /\ b.outbox[i].gen = b.gen[b.outbox[i].lane]
    BY DEF ResumesCurrent
  <2>. DEFINE l == b.outbox[i].lane
  <2>1. CASE Old(i)
    <3>1. /\ i \in DOMAIN c.outbox /\ c.outbox[i].kind = "resume" /\ c.outbox[i].status = "pending"
          /\ c.outbox[i].lane = l /\ c.outbox[i].gen = b.outbox[i].gen /\ l \in Lanes
      BY <1>12, <2>1 DEF SameEffect
    <3>2. c.phase[l] = "resuming" /\ c.gen[l] = b.outbox[i].gen
      BY <3>1 DEF Shaped, ResumesCurrent
    <3>3. c.thread[l] # 0 /\ c.cand[l] = 0 /\ m.phase[l] # "unselected"
      BY <1>3, <3>1, <3>2 DEF Shaped, PhasesFit, Established
    <3>4. PendingOpen(m, l, "resume")
      BY <1>1, <2>1, <1>9, <3>1 DEF PendingOpen, Old
    <3>5. ~PendingOpen(m, l, "create")
      BY <1>1, <3>1, <3>3
    <3>6. RecoveredPhase(m, l) = "resuming"
      BY <1>1, <3>3, <3>4, <3>5 DEF RecoveredPhase
    <3>7. RecoveredGen(m, l) = m.gen[l]
      BY <1>1, <3>3, <3>4 DEF RecoveredGen, Reverified, Reresumed
    <3>. QED  BY <1>1, <1>2, <3>1, <3>2, <3>6, <3>7
  <2>2. CASE ~Old(i)
    <3>1. l \in Lanes /\ l = At(i) /\ Reresumed(m, l) /\ b.outbox[i].gen = RecoveredGen(m, l)
      BY <1>10, <2>2
    <3>2. RecoveredPhase(m, l) = "resuming"
      BY <1>1, <1>3, <3>1 DEF RecoveredPhase, Reresumed
    <3>. QED  BY <1>2, <3>1, <3>2
  <2>. QED  BY <2>1, <2>2
<1>15. CreatesOrdered(b)
  <2>1. ASSUME NEW i \in DOMAIN b.outbox, b.outbox[i].kind = "create"
        PROVE  b.outbox[i].gen <= b.cgen[b.outbox[i].lane]
    <3>1. CASE Old(i)
      <4>1. /\ c.outbox[i].kind = "create" /\ i \in DOMAIN c.outbox /\ b.outbox[i].lane \in Lanes
            /\ c.outbox[i].lane = b.outbox[i].lane /\ c.outbox[i].gen = b.outbox[i].gen
        BY <1>12, <2>1, <3>1 DEF SameEffect
      <4>2. b.outbox[i].gen <= c.cgen[b.outbox[i].lane] /\ b.outbox[i].gen \in Nat
        BY <4>1, OutboxEntries DEF Shaped, CreatesOrdered, Entry
      <4>. QED  BY <1>1, <1>2, <1>8, <4>1, <4>2
    <3>2. CASE ~Old(i)
      BY <1>2, <1>8, <1>10, <2>1, <3>2
    <3>. QED  BY <3>1, <3>2
  <2>2. ASSUME NEW i \in DOMAIN b.outbox, b.outbox[i].kind = "create", NEW j \in DOMAIN b.outbox,
               i < j, b.outbox[j].kind = "create", b.outbox[j].lane = b.outbox[i].lane
        PROVE  b.outbox[i].gen < b.outbox[j].gen
    <3>1. CASE Old(i) /\ Old(j)
      <4>1. /\ i \in DOMAIN c.outbox /\ c.outbox[i].kind = "create" /\ c.outbox[i].gen = b.outbox[i].gen
            /\ j \in DOMAIN c.outbox /\ c.outbox[j].kind = "create" /\ c.outbox[j].gen = b.outbox[j].gen
            /\ c.outbox[i].lane = b.outbox[i].lane /\ c.outbox[j].lane = b.outbox[j].lane
        BY <1>12, <2>2, <3>1 DEF SameEffect
      <4>. QED  BY <2>2, <4>1 DEF Shaped, CreatesOrdered
    <3>2. CASE Old(i) /\ ~Old(j)
      <4>1. /\ c.outbox[i].kind = "create" /\ i \in DOMAIN c.outbox /\ b.outbox[i].lane \in Lanes
            /\ c.outbox[i].lane = b.outbox[i].lane /\ c.outbox[i].gen = b.outbox[i].gen
        BY <1>12, <2>2, <3>2 DEF SameEffect
      <4>2. b.outbox[i].gen <= c.cgen[b.outbox[i].lane] /\ b.outbox[i].gen \in Nat
        BY <4>1, OutboxEntries DEF Shaped, CreatesOrdered, Entry
      <4>3. b.outbox[j].gen = RecoveredCgen(m, At(j)) /\ Reverified(m, At(j))
            /\ At(j) = b.outbox[i].lane
        BY <1>10, <2>2, <3>2
      <4>. QED  BY <1>1, <1>8, <4>1, <4>2, <4>3
    <3>3. CASE ~Old(i)
      <4>1. Old(j) => j < i
        BY <1>9, <3>3 DEF Old
      <4>2. i \in Nat /\ j \in Nat
        BY OutboxEntries
      <4>3. ~Old(j)
        BY <2>2, <4>1, <4>2
      <4>4. At(i) = At(j)
        BY <1>10, <2>2, <3>3, <4>3
      <4>. QED  BY <1>11, <2>2, <3>3, <4>2, <4>3, <4>4
    <3>. QED  BY <3>1, <3>2, <3>3
  <2>. QED  BY <2>1, <2>2 DEF CreatesOrdered
<1>16. LastCreate(b)
  <2>. SUFFICES ASSUME Waits(b), NEW i \in DOMAIN b.outbox, AfterStart(b, i)
                PROVE  b.outbox[i].gen = b.cgen[FgLane(b)]
    BY DEF LastCreate
  <2>. DEFINE l == FgLane(b)
  <2>1. b.fg # NoOp /\ b.fg = c.fg /\ ~c.running /\ b.cand[l] # 0
    BY <1>1 DEF Rereads, Waits
  <2>2. l = FgLane(c) /\ l \in Lanes /\ c.fg \in Ops /\ c.lane[c.fg] \in Lanes
    <3>1. c.fg \in Ops /\ FgLane(c) \in Lanes /\ FgLane(c) = c.lane[c.fg]
      BY <2>1, ChatParts
    <3>2. b.lane[c.fg] = c.lane[c.fg]
      BY <1>1, <3>1, NoOpIsNoOp DEF Rereads, QueueCalm
    <3>. QED  BY <2>1, <3>1, <3>2 DEF FgLane
  <2>3. Waits(c)
    BY <1>1, <2>1, <2>2 DEF Waits
  <2>4. /\ b.outbox[i].kind = "create" /\ b.outbox[i].lane = l /\ ~Over(b.outbox[i])
        /\ \E j \in Starts(b, b.fg) : j < i
    BY DEF AfterStart
  <2>. HIDE DEF l
  <2>5. CASE Old(i)
    <3>1. /\ i \in DOMAIN c.outbox /\ c.outbox[i].kind = "create" /\ c.outbox[i].lane = l
          /\ c.outbox[i].gen = b.outbox[i].gen /\ ~Over(c.outbox[i]) /\ b.outbox[i].status = "pending"
      BY <1>12, <2>4, <2>5 DEF SameEffect
    <3>2. PICK j \in Starts(b, b.fg) : j < i
      BY <2>4
    <3>3. j \in Starts(c, c.fg)
      BY <1>10, <1>12, <2>1, <3>2 DEF Starts, SameEffect
    <3>4. AfterStart(c, i)
      BY <2>2, <3>1, <3>2, <3>3 DEF AfterStart
    <3>5. b.outbox[i].gen = c.cgen[l]
      BY <2>2, <2>3, <3>1, <3>4 DEF Shaped, LastCreate
    <3>6. PendingOpen(m, l, "create")
      BY <1>9, <2>4, <2>5, <3>1 DEF PendingOpen, Old
    <3>7. ~Reverified(m, l)
      BY <3>6 DEF Reverified
    <3>. QED  BY <1>1, <1>2, <1>8, <2>2, <3>5, <3>7 DEF l
  <2>6. CASE ~Old(i)
    BY <1>2, <1>10, <2>2, <2>4, <2>6 DEF l
  <2>. QED  BY <2>5, <2>6
<1>17. NoCreateRuns(b)
  BY <1>1 DEF NoCreateRuns
<1>. QED  BY <1>6, <1>7, <1>13, <1>14, <1>15, <1>16, <1>17 DEF Shaped

\* RecoverOutbox: a recovered chat that Validate accepts has its shape again.
LEMMA RecoverOutboxShaped ==
    ASSUME NEW c \in Placed, Shaped(c), NEW order \in Orders(NeedsEffect(Reread(c))),
           Valid(RecoverOutbox(c, order)), Apart(RecoverOutbox(c, order))
    PROVE  Shaped(RecoverOutbox(c, order))
<1>. DEFINE m == Reread(c)
            b == [m EXCEPT !.phase  = [l \in Lanes |-> RecoveredPhase(m, l)],
                           !.cgen   = [l \in Lanes |-> RecoveredCgen(m, l)],
                           !.gen    = [l \in Lanes |-> RecoveredGen(m, l)],
                           !.outbox = @ \o [i \in DOMAIN order |-> RecoveryEffect(m, order[i])]]
            d == RecoverOutbox(c, order)
<1>1. m \in Placed /\ Rereads(c, m)
  BY RereadShaped
<1>2. d = b \/ (m.fg = NoOp /\ d = DriveQueued(b))
  BY DEF RecoverOutbox
<1>3. Valid(d) /\ Apart(d)
  OBVIOUS
<1>4. order \in Orders(NeedsEffect(m))
  OBVIOUS
<1>. HIDE DEF m, d
<1>5. b \in Placed /\ Relaned(m, b, order)
  BY <1>1, <1>4, LanePass
<1>. HIDE DEF b
<1>6. \A l \in Lanes : m.phase[l] # "unselected" /\ PendingOpen(m, l, "create") => m.thread[l] = 0
  <2>. SUFFICES ASSUME NEW l \in Lanes, m.phase[l] # "unselected", PendingOpen(m, l, "create"),
                       m.thread[l] # 0
                PROVE  FALSE
    OBVIOUS
  <2>1. b.phase[l] = "creating" /\ b.thread = m.thread /\ b.cand = m.cand
    BY <1>5 DEF Relaned, RecoveredPhase
  <2>2. b.cand[l] = 0
    BY <1>1, <2>1 DEF Rereads, Shaped, PhasesFit, Established
  <2>3. d.phase[l] = "creating" /\ d.thread = b.thread
    BY <1>2, <1>5, <2>1, <2>2, DriveKeepsCreating
  <2>. QED  BY <1>3, <2>1, <2>3 DEF Valid
<1>7. b.fg # NoOp => \/ b.phase[FgLane(b)] = "running"
                     \/ b.phase[FgLane(b)] = "creating" /\ b.cand[FgLane(b)] # 0
                     \/ b.phase[FgLane(b)] = "resuming" /\ ~b.running
  <2>1. b.fg # NoOp => d = b
    BY <1>2, <1>5 DEF Relaned
  <2>. QED  BY <1>3, <2>1 DEF Valid, FgLane
<1>8. Shaped(b)
  BY <1>1, <1>4, <1>5, <1>6, <1>7, RelanedShaped
<1>9. CASE d = b
  BY <1>8, <1>9 DEF d
<1>10. CASE d = DriveQueued(b) /\ d # b
  <2>1. d = Drive(b, TRUE)
    BY <1>10 DEF DriveQueued
  <2>2. Apart(Drive(b, TRUE))
    BY <1>3, <2>1
  <2>3. Shaped(Drive(b, TRUE))
    BY <1>5, <1>8, <2>2, DriveShaped
  <2>. QED  BY <2>1, <2>3 DEF d
<1>. QED  BY <1>2, <1>9, <1>10
=============================================================================
