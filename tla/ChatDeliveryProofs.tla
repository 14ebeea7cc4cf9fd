------------------------- MODULE ChatDeliveryProofs -------------------------
(***************************************************************************)
(* The chat and the process around it: which generations the attachments   *)
(* of the lanes are of, what the effect in hand may rely on, and what the  *)
(* providers were sent.  From it follow that every committed chat can be   *)
(* saved, and that no input crosses to a provider twice.                   *)
(***************************************************************************)
EXTENDS ChatLaneProofs

(***************************************************************************)
(* How the chat c is linked to the attachments h, the losses u that are    *)
(* not committed yet, and the effect x in hand.                            *)
(***************************************************************************)
\* No attachment of lane l, live or lost, is of generation g or a later one.
Past(h, u, l, g) == (h[l] # 0 => h[l] < g) /\ \A v \in u : v[1] = l => v[2] < g

\* An attachment is never ahead of its lane, a loss is older than the
\* attachment that followed, and a lane that is being opened waits for a
\* generation that no attachment has.
Hosted(c, h, u) ==
    /\ \A l \in Lanes : h[l] # 0 => h[l] <= c.gen[l]
    /\ \A v \in u : v[2] <= c.gen[v[1]] /\ (h[v[1]] # 0 => v[2] < h[v[1]])
    /\ \A l \in Lanes : c.phase[l] = "resuming" => Past(h, u, l, c.gen[l])
    /\ \A l \in Lanes : c.thread[l] = 0 =>
         /\ Past(h, u, l, c.cgen[l] + 1)
         /\ \A i \in DOMAIN c.outbox : PendingCreate(c, l, i) => Past(h, u, l, c.outbox[i].gen)

\* The resume in hand is the one its lane waits for; the create in hand has a
\* lane without thread and without a running turn, and is older than any
\* create that is still to come.
ResumeFits(c, x) == x.kind = "resume" => c.phase[x.lane] = "resuming" /\ x.gen = c.gen[x.lane]
CreateFits(c, h, u, x) == x.kind = "create" =>
    /\ c.thread[x.lane] = 0 /\ x.gen <= c.cgen[x.lane] /\ Past(h, u, x.lane, x.gen)
    /\ \A i \in DOMAIN c.outbox : PendingCreate(c, x.lane, i) => x.gen < c.outbox[i].gen
    /\ FgLane(c) = x.lane => ~c.running

\* The start in hand is in the outbox; while it is not admitted and its input
\* is the foreground, nothing else can open, start or send it.
InHand(c, x) == x.kind = "start" /\ x.at \in {"claimed", "calling"} /\ c.fg = x.op
StartFits(c, h, x) ==
    /\ x.kind = "start" => \E i \in Starts(c, x.op) : c.outbox[i].lane = x.lane
    /\ InHand(c, x) =>
         /\ ~c.running /\ c.phase[x.lane] # "resuming"
         /\ \A i \in Starts(c, x.op) : c.outbox[i].status # "pending"
         /\ h[x.lane] # 0 /\ c.cand[x.lane] # 0 =>
              \A i \in DOMAIN c.outbox : ~PendingCreate(c, x.lane, i)

\* An attached candidate lane whose foreground waits is not verified again.
WaitFits(c, h, u) ==
    Waits(c) /\ (h[FgLane(c)] # 0 \/ <<FgLane(c), c.gen[FgLane(c)]>> \in u) =>
        \A i \in DOMAIN c.outbox : ~AfterStart(c, i)

Linked(c, h, u, x) == /\ Hosted(c, h, u) /\ ResumeFits(c, x) /\ CreateFits(c, h, u, x)
                      /\ StartFits(c, h, x) /\ WaitFits(c, h, u)

(***************************************************************************)
(* What the process does to its side of the link while a command changes   *)
(* the chat.                                                               *)
(***************************************************************************)
\* Attachments only go, and a new loss is that of an attachment that went.
Loses(h, u, h2, u2) ==
    /\ \A l \in Lanes : h2[l] \in {0, h[l]}
    /\ \A v \in u2 : v \in u \/ (v[1] \in Lanes /\ v[2] = h[v[1]] /\ h[v[1]] # 0 /\ h2[v[1]] = 0)

\* The effect in hand stays, wherever its call has got to.
Continues(x, y) ==
    /\ y.kind = x.kind /\ y.lane = x.lane /\ y.op = x.op /\ y.gen = x.gen
    /\ y.at \in {"claimed", "calling"} => x.at \in {"claimed", "calling"}

\* What the attachments and losses are.
Process(h, u, x) ==
    /\ h \in [Lanes -> Nat] /\ u \subseteq Lanes \X Nat /\ x.gen \in Nat
    /\ x.kind # "none" => x.lane \in Lanes
    /\ x.kind = "start" => x.op \in Ops

\* Nothing that goes makes a generation current again.
LEMMA LosesPast ==
    ASSUME NEW h, NEW u, NEW h2, NEW u2, Loses(h, u, h2, u2),
           NEW l \in Lanes, NEW g, Past(h, u, l, g)
    PROVE  Past(h2, u2, l, g)
BY DEF Loses, Past

\* The attachments stay behind the lanes.
LEMMA HostedPersists ==
    ASSUME NEW c \in Placed, NEW d \in Placed, Carries(c, d),
           NEW h, NEW u, NEW x, Process(h, u, x), Hosted(c, h, u),
           NEW h2, NEW u2, Loses(h, u, h2, u2)
    PROVE  Hosted(d, h2, u2)
<1>1. \A l \in Lanes : /\ c.gen[l] \in Nat /\ d.gen[l] \in Nat /\ c.cgen[l] \in Nat /\ d.cgen[l] \in Nat
                       /\ d.gen[l] >= c.gen[l] /\ d.cgen[l] >= c.cgen[l] /\ h[l] \in Nat
  BY ChatParts DEF Carries, Process
<1>2. \A v \in u : v[1] \in Lanes /\ v[2] \in Nat
  BY DEF Process
<1>3. \A l \in Lanes : h[l] <= c.gen[l] \/ h[l] = 0
  BY DEF Hosted
<1>4. ASSUME NEW l \in Lanes, NEW g \in Nat, NEW k \in Nat, k <= g, Past(h2, u2, l, k)
      PROVE  Past(h2, u2, l, g)
  <2>1. h2[l] \in Nat /\ \A v \in u2 : v[2] \in Nat
    BY <1>1, <1>2 DEF Loses
  <2>. QED  BY <1>4, <2>1 DEF Past
<1>5. \A l \in Lanes : h2[l] # 0 => h2[l] <= d.gen[l]
  BY <1>1, <1>3 DEF Loses
<1>6. \A v \in u2 : v[2] <= d.gen[v[1]] /\ (h2[v[1]] # 0 => v[2] < h2[v[1]])
  <2>. SUFFICES ASSUME NEW v \in u2
                PROVE  v[2] <= d.gen[v[1]] /\ (h2[v[1]] # 0 => v[2] < h2[v[1]])
    OBVIOUS
  <2>1. CASE v \in u
    <3>1. v[1] \in Lanes /\ v[2] \in Nat /\ v[2] <= c.gen[v[1]] /\ (h[v[1]] # 0 => v[2] < h[v[1]])
      BY <1>2, <2>1 DEF Hosted
    <3>. QED  BY <1>1, <3>1 DEF Loses
  <2>2. CASE v[1] \in Lanes /\ v[2] = h[v[1]] /\ h[v[1]] # 0 /\ h2[v[1]] = 0
    BY <1>1, <1>3, <2>2
  <2>. QED  BY <2>1, <2>2 DEF Loses
<1>7. \A l \in Lanes : d.phase[l] = "resuming" => Past(h2, u2, l, d.gen[l])
  <2>. SUFFICES ASSUME NEW l \in Lanes, d.phase[l] = "resuming"  PROVE Past(h2, u2, l, d.gen[l])
    OBVIOUS
  <2>1. CASE c.phase[l] = "resuming" /\ d.gen[l] = c.gen[l]
    BY <2>1, LosesPast DEF Hosted
  <2>2. CASE d.gen[l] > c.gen[l]
    <3>1. h2[l] # 0 => h2[l] < d.gen[l]
      BY <1>1, <1>3, <2>2 DEF Loses
    <3>2. ASSUME NEW v \in u2, v[1] = l  PROVE v[2] < d.gen[l]
      <4>1. CASE v \in u
        <5>1. v[2] <= c.gen[l] /\ v[2] \in Nat
          BY <1>2, <3>2, <4>1 DEF Hosted
        <5>. QED  BY <1>1, <2>2, <5>1
      <4>2. CASE v[2] = h[l]
        BY <1>1, <1>3, <2>2, <4>2
      <4>. QED  BY <3>2, <4>1, <4>2 DEF Loses
    <3>. QED  BY <3>1, <3>2 DEF Past
  <2>. QED  BY <2>1, <2>2 DEF Carries
<1>8. \A l \in Lanes : d.thread[l] = 0 => Past(h, u, l, c.cgen[l] + 1) /\ Past(h2, u2, l, c.cgen[l] + 1)
  BY LosesPast DEF Hosted, Carries
<1>9. \A l \in Lanes : d.thread[l] = 0 => Past(h2, u2, l, d.cgen[l] + 1)
  BY <1>1, <1>4, <1>8
<1>10. ASSUME NEW l \in Lanes, d.thread[l] = 0, NEW i \in DOMAIN d.outbox, PendingCreate(d, l, i)
       PROVE  Past(h2, u2, l, d.outbox[i].gen)
  <2>1. CASE i \in DOMAIN c.outbox /\ PendingCreate(c, l, i)
    <3>1. d.outbox[i].gen = c.outbox[i].gen /\ c.thread[l] = 0
      BY <1>10, <2>1 DEF Carries, Extends, SameEffect
    <3>. QED  BY <2>1, <3>1, LosesPast DEF Hosted
  <2>2. CASE d.outbox[i].gen > c.cgen[l]
    <3>1. d.outbox[i].gen \in Nat
      BY OutboxEntries DEF Entry
    <3>2. c.cgen[l] + 1 <= d.outbox[i].gen /\ c.cgen[l] + 1 \in Nat
      BY <1>1, <2>2, <3>1
    <3>. QED  BY <1>4, <1>8, <1>10, <3>1, <3>2
  <2>. QED  BY <1>10, <2>1, <2>2 DEF Carries
<1>. QED  BY <1>5, <1>6, <1>7, <1>9, <1>10 DEF Hosted

\* A resume in hand stays current.
LEMMA ResumePersists ==
    ASSUME NEW c, NEW d, Steady(c, d), NEW h, NEW u, NEW x, Process(h, u, x), ResumeFits(c, x),
           NEW y, Continues(x, y)
    PROVE  ResumeFits(d, y)
BY DEF Steady, Process, ResumeFits, Continues

\* A create in hand stays ahead of every other one.
LEMMA CreatePersists ==
    ASSUME NEW c \in Placed, NEW d \in Placed, Carries(c, d),
           Holds(c, d) \/ \E l : Retries(c, d, l),
           NEW h, NEW u, NEW x, Process(h, u, x), CreateFits(c, h, u, x),
           NEW h2, NEW u2, Loses(h, u, h2, u2), NEW y, Continues(x, y)
    PROVE  CreateFits(d, h2, u2, y)
<1>. SUFFICES ASSUME x.kind = "create"
              PROVE  /\ d.thread[x.lane] = 0 /\ x.gen <= d.cgen[x.lane] /\ Past(h2, u2, x.lane, x.gen)
                     /\ \A i \in DOMAIN d.outbox : PendingCreate(d, x.lane, i) => x.gen < d.outbox[i].gen
                     /\ FgLane(d) = x.lane => ~d.running
  BY DEF CreateFits, Continues
<1>. DEFINE l == x.lane
<1>1. l \in Lanes /\ x.gen \in Nat
  BY DEF Process
<1>2. /\ c.thread[l] = 0 /\ x.gen <= c.cgen[l] /\ Past(h, u, l, x.gen)
      /\ \A i \in DOMAIN c.outbox : PendingCreate(c, l, i) => x.gen < c.outbox[i].gen
      /\ FgLane(c) = l => ~c.running
  BY DEF CreateFits
<1>. HIDE DEF l
<1>3. c.cgen[l] \in Nat /\ d.cgen[l] \in Nat /\ d.cgen[l] >= c.cgen[l] /\ d.thread[l] = 0
  BY <1>1, <1>2, ChatParts DEF Carries
<1>4. x.gen <= d.cgen[l]
  BY <1>1, <1>2, <1>3
<1>5. Past(h2, u2, l, x.gen)
  BY <1>1, <1>2, LosesPast
<1>6. ASSUME NEW i \in DOMAIN d.outbox, PendingCreate(d, l, i)
      PROVE  x.gen < d.outbox[i].gen
  <2>1. d.outbox[i].gen \in Nat
    BY OutboxEntries DEF Entry
  <2>2. CASE i \in DOMAIN c.outbox /\ PendingCreate(c, l, i)
    BY <1>2, <2>2 DEF Carries, Extends, SameEffect
  <2>3. CASE d.outbox[i].gen > c.cgen[l]
    BY <1>1, <1>2, <1>3, <2>1, <2>3
  <2>. QED  BY <1>1, <1>6, <2>2, <2>3 DEF Carries
<1>7. FgLane(d) = l => ~d.running
  <2>1. d.fg = NoOp => FgLane(d) # l
    BY <1>1, ChatParts, NoOpIsNoOp
  <2>. QED  BY <1>2, <2>1 DEF Holds, Retries
<1>. QED  BY <1>3, <1>4, <1>5, <1>6, <1>7 DEF l

\* The lane of an operation that started is the one its start names.
LEMMA StartLane ==
    ASSUME NEW c \in Placed, Shaped(c), NEW op, NEW i \in Starts(c, op)
    PROVE  c.lane[op] = c.outbox[i].lane /\ (c.fg = op /\ op # NoOp => FgLane(c) = c.outbox[i].lane)
BY DEF Shaped, StartsOnce, Starts, FgLane

\* So does the start in hand.
LEMMA StartPersists ==
    ASSUME NEW c \in Placed, NEW d \in Placed, Shaped(c), Shaped(d), Carries(c, d), Steady(c, d),
           Holds(c, d) \/ \E l : Retries(c, d, l),
           NEW h, NEW u, NEW x, Process(h, u, x), StartFits(c, h, x),
           NEW h2, NEW u2, Loses(h, u, h2, u2), NEW y, Continues(x, y)
    PROVE  StartFits(d, h2, y)
<1>. SUFFICES ASSUME x.kind = "start"
              PROVE  StartFits(d, h2, y)
  BY DEF StartFits, Continues, InHand
<1>. DEFINE l == x.lane
            op == x.op
<1>1. l \in Lanes /\ op \in Ops /\ op # NoOp
  BY NoOpIsNoOp DEF Process
<1>2. PICK s \in Starts(c, op) : c.outbox[s].lane = l
  BY DEF StartFits
<1>. HIDE DEF l, op
<1>3. s \in Starts(d, op) /\ d.outbox[s].lane = l /\ s \in DOMAIN c.outbox
  BY <1>2 DEF Carries, Extends, Starts, SameEffect
<1>4. \A i \in Starts(d, op) : i = s
  BY <1>3 DEF Shaped, StartsOnce, Starts
<1>5. y.kind = "start" /\ y.op = op /\ y.lane = l
      /\ (y.at \in {"claimed", "calling"} => x.at \in {"claimed", "calling"})
  BY DEF Continues, l, op
<1>6. ASSUME InHand(d, y)
      PROVE  /\ ~d.running /\ d.phase[l] # "resuming"
             /\ \A i \in Starts(d, op) : d.outbox[i].status # "pending"
             /\ h2[l] # 0 /\ d.cand[l] # 0 =>
                  \A i \in DOMAIN d.outbox : ~PendingCreate(d, l, i)
  <2>1. d.fg = op
    BY <1>5, <1>6 DEF InHand
  <2>2. c.fg = op
    BY <1>1, <1>2, <2>1 DEF Holds, Retries
  <2>3. InHand(c, x)
    BY <1>5, <1>6, <2>2 DEF InHand, op
  <2>4. /\ ~c.running /\ c.phase[l] # "resuming"
        /\ \A i \in Starts(c, op) : c.outbox[i].status # "pending"
        /\ h[l] # 0 /\ c.cand[l] # 0 => \A i \in DOMAIN c.outbox : ~PendingCreate(c, l, i)
    BY <2>3 DEF StartFits, l, op
  <2>5. FgLane(c) = l /\ FgLane(d) = l
    BY <1>1, <1>2, <1>3, <2>1, <2>2, StartLane
  <2>6. /\ d.running = c.running /\ (d.phase[l] = "resuming" => c.phase[l] = "resuming")
        /\ \A i \in DOMAIN d.outbox \ DOMAIN c.outbox :
             ~(d.outbox[i].kind = "create" /\ d.outbox[i].lane = l)
    <3>1. \A k : ~Retries(c, d, k)
      BY <2>2, <2>4 DEF Retries, Has
    <3>2. Starts(c, d.fg) # {}
      BY <1>2, <2>1
    <3>. QED  BY <1>1, <2>1, <2>5, <3>1, <3>2 DEF Holds
  <2>7. \A i \in Starts(d, op) : d.outbox[i].status # "pending"
    BY <1>2, <1>3, <1>4, <2>4 DEF Steady, Taken, Starts
  <2>8. ASSUME h2[l] # 0, d.cand[l] # 0, NEW i \in DOMAIN d.outbox, PendingCreate(d, l, i)
        PROVE  FALSE
    <3>1. h[l] # 0 /\ c.cand[l] # 0
      BY <1>1, <2>8 DEF Loses, Carries
    <3>2. i \in DOMAIN c.outbox
      BY <2>6, <2>8 DEF PendingCreate
    <3>3. d.outbox[i].gen > c.cgen[l]
      BY <1>1, <2>4, <2>8, <3>1 DEF Carries
    <3>4. c.outbox[i].kind = "create" /\ c.outbox[i].lane = l /\ c.outbox[i].gen = d.outbox[i].gen
      BY <2>8, <3>2 DEF Carries, Extends, SameEffect, PendingCreate
    <3>5. d.outbox[i].gen <= c.cgen[l]
      BY <3>2, <3>4 DEF Shaped, CreatesOrdered
    <3>6. d.outbox[i].gen \in Nat /\ c.cgen[l] \in Nat
      BY <1>1, ChatParts, OutboxEntries DEF Entry
    <3>. QED  BY <3>3, <3>5, <3>6
  <2>. QED  BY <2>4, <2>6, <2>7, <2>8
<1>. QED  BY <1>3, <1>5, <1>6 DEF StartFits

\* Nothing verifies an attached candidate again while its foreground waits.
LEMMA WaitPersists ==
    ASSUME NEW c \in Placed, NEW d \in Placed, Carries(c, d),
           NEW h, NEW u, NEW x, Process(h, u, x), Hosted(c, h, u), WaitFits(c, h, u),
           NEW h2, NEW u2, Loses(h, u, h2, u2),
           Holds(c, d) \/ \E l \in Lanes : Retries(c, d, l) /\ h2[l] = 0
    PROVE  WaitFits(d, h2, u2)
<1>. SUFFICES ASSUME Waits(d), h2[FgLane(d)] # 0 \/ <<FgLane(d), d.gen[FgLane(d)]>> \in u2,
                     NEW i \in DOMAIN d.outbox, AfterStart(d, i)
              PROVE  FALSE
  BY DEF WaitFits
<1>. DEFINE l == FgLane(d)
<1>1. d.fg # NoOp /\ l \in Lanes /\ ~d.running /\ d.cand[l] # 0
  BY ChatParts DEF Waits
<1>2. h2[l] # 0 \/ <<l, d.gen[l]>> \in u2
  OBVIOUS
<1>3. h[l] \in Nat /\ c.gen[l] \in Nat /\ d.gen[l] \in Nat /\ d.gen[l] >= c.gen[l]
  BY <1>1, ChatParts DEF Process, Carries
<1>4. DOMAIN c.outbox \subseteq Nat /\ DOMAIN d.outbox \subseteq Nat
  BY OutboxEntries
<1>. HIDE DEF l
<1>5. <<l, d.gen[l]>> \in u2 => (<<l, d.gen[l]>> \in u \/ (d.gen[l] = h[l] /\ h[l] # 0 /\ h2[l] = 0))
  BY DEF Loses
<1>6. CASE \E k \in Lanes : Retries(c, d, k) /\ h2[k] = 0
  <2>1. d.gen[l] > c.gen[l] /\ h2[l] = 0
    BY <1>6 DEF Retries, l
  <2>2. <<l, d.gen[l]>> \in u \/ d.gen[l] = h[l]
    BY <1>2, <1>5, <2>1
  <2>3. d.gen[l] <= c.gen[l]
    <3>1. <<l, d.gen[l]>> \in u => d.gen[l] <= c.gen[l]
      BY DEF Hosted
    <3>2. d.gen[l] = h[l] => d.gen[l] <= c.gen[l]
      BY <1>1, <1>3 DEF Hosted
    <3>. QED  BY <2>2, <3>1, <3>2
  <2>. QED  BY <1>3, <2>1, <2>3
<1>7. CASE Holds(c, d)
  <2>1. CASE Starts(c, d.fg) = {} /\ ~d.running /\ \A j \in DOMAIN d.outbox : ~AfterStart(d, j)
    BY <2>1
  <2>2. CASE /\ d.fg = c.fg /\ FgLane(d) = FgLane(c) /\ d.running = c.running
             /\ d.gen[FgLane(c)] = c.gen[FgLane(c)]
             /\ d.phase[FgLane(c)] = "resuming" => c.phase[FgLane(c)] = "resuming"
             /\ \A j \in DOMAIN d.outbox \ DOMAIN c.outbox :
                  ~(d.outbox[j].kind = "create" /\ d.outbox[j].lane = FgLane(c))
    <3>1. Waits(c) /\ FgLane(c) = l /\ c.gen[l] = d.gen[l]
      BY <1>1, <2>2 DEF Waits, Carries, l
    <3>2. h[l] # 0 \/ <<l, c.gen[l]>> \in u
      BY <1>1, <1>2, <1>5, <3>1 DEF Loses
    <3>3. \A j \in DOMAIN c.outbox : ~AfterStart(c, j)
      BY <3>1, <3>2 DEF WaitFits
    <3>4. i \in DOMAIN c.outbox /\ d.outbox[i].kind = "create" /\ d.outbox[i].lane = l /\ ~Over(d.outbox[i])
      BY <2>2 DEF AfterStart, l
    <3>5. PICK j \in Starts(d, d.fg) : j < i
      BY DEF AfterStart
    <3>6. j \in DOMAIN c.outbox
      BY <1>4, <3>4, <3>5 DEF Carries, Extends, Starts
    <3>7. j \in Starts(c, c.fg)
      BY <2>2, <3>5, <3>6 DEF Carries, Extends, Starts, SameEffect
    <3>8. c.outbox[i].kind = "create" /\ c.outbox[i].lane = l
      BY <3>4 DEF Carries, Extends, SameEffect
    <3>9. ~Over(c.outbox[i])
      BY <3>4, <3>8 DEF Carries, Opening
    <3>10. AfterStart(c, i)
      BY <3>1, <3>5, <3>7, <3>8, <3>9 DEF AfterStart
    <3>. QED  BY <3>3, <3>4, <3>10
  <2>. QED  BY <1>1, <1>7, <2>1, <2>2 DEF Holds
<1>. QED  BY <1>6, <1>7

\* The link outlives a command of the reducer.
LEMMA LinkPersists ==
    ASSUME NEW c \in Placed, NEW d \in Placed, Shaped(c), Shaped(d), Carries(c, d),
           NEW h, NEW u, NEW x, Process(h, u, x), Linked(c, h, u, x),
           NEW h2, NEW u2, Loses(h, u, h2, u2),
           Holds(c, d) \/ \E l \in Lanes : Retries(c, d, l) /\ h2[l] = 0,
           NEW y, y = Idle \/ (Continues(x, y) /\ Steady(c, d))
    PROVE  Linked(d, h2, u2, y)
<1>1. Hosted(d, h2, u2)
  BY HostedPersists DEF Linked
<1>2. WaitFits(d, h2, u2)
  BY WaitPersists DEF Linked
<1>3. CASE y = Idle
  BY <1>1, <1>2, <1>3 DEF Linked, ResumeFits, CreateFits, StartFits, InHand, Idle
<1>4. CASE Continues(x, y) /\ Steady(c, d)
  <2>1. Holds(c, d) \/ \E l : Retries(c, d, l)
    OBVIOUS
  <2>2. ResumeFits(d, y)
    BY <1>4, ResumePersists DEF Linked
  <2>3. CreateFits(d, h2, u2, y)
    BY <1>4, <2>1, CreatePersists DEF Linked
  <2>4. StartFits(d, h2, y)
    BY <1>4, <2>1, StartPersists DEF Linked
  <2>. QED  BY <1>1, <1>2, <2>2, <2>3, <2>4 DEF Linked
<1>. QED  BY <1>3, <1>4

(***************************************************************************)
(* The chat c, the workers w of its lanes, and the prompts s that were     *)
(* written to providers.                                                   *)
(***************************************************************************)
\* Each operation is sent at most once, and what was sent is settled or the
\* running foreground; the ledger says of none that was sent that it was
\* refused, and of none that was not sent that its receipt came.
Ledger(c, s) ==
    /\ c.running \/ c.consumed => c.fg # NoOp
    /\ \A op \in Ops : s[op] \in {0, 1}
    /\ \A op \in Ops : s[op] # 0 => c.fate[op] # "open" \/ (c.fg = op /\ c.running)
    /\ c.consumed => s[c.fg] = 1
    /\ \A op \in Ops : /\ c.fate[op] \in {"refused", "withdrawn"} => s[op] = 0
                       /\ c.fate[op] \in {"answered", "interrupted"} => s[op] = 1

\* The worker of lane l has the running foreground, or on a failing lane an
\* input of that lane whose delivery the failure has cut.
Runs(c, l, op) == c.fg # NoOp /\ c.fg = op /\ c.running /\ FgLane(c) = l
Abandoned(c, l, op) ==
    op \in Ops /\ c.lane[op] = l /\ c.fate[op] \in {"uncertain", "interrupted"}

\* A busy worker has one or the other, and sent it once it wrote the prompt.
Busy(c, w, z, s) == \A l \in Lanes :
    /\ w[l].at # "none" =>
         Runs(c, l, w[l].op) \/ (z[l] # "no" /\ Abandoned(c, l, w[l].op))
    /\ w[l].at = "none" => w[l].op = NoOp
    /\ w[l].at = "admitted" => s[w[l].op] = 0
    /\ w[l].at \in {"sent", "taken", "receipted"} => s[w[l].op] = 1

Delivered(c, w, z, s) == Ledger(c, s) /\ Busy(c, w, z, s)

\* The moves that leave a running foreground alone.
Steers(c, d) ==
    \/ Drives(c, d)
    \/ ~c.running /\ Replays(c, d)
    \/ \E i \in Inputs, l \in Lanes : Accepts(c, d, <<i, 0>>, l)
    \/ \E f \in {"refused", "withdrawn"} : SettlesWaiting(c, d, f)

\* How a foreground may be settled: only one that does not run is refused or
\* withdrawn, and only one that was consumed is interrupted or answered.  A
\* notice that was refused does not return.
Settlements(c) == {f \in Closed : /\ f \in {"refused", "withdrawn"} => ~c.running
                                  /\ f \in {"interrupted", "answered"} => c.consumed}
Leads(c, d) ==
    \/ Steers(c, d)
    \/ \E f \in Settlements(c) : \/ Settles(c, d, f)
                                 \/ f \notin {"refused", "withdrawn"} /\ SettlesReturning(c, d, f)

\* drive keeps the ledger true.
LEMMA LedgerDrives ==
    ASSUME NEW c, NEW s, Owned(c), Ledger(c, s), NEW d, Drives(c, d)
    PROVE  Ledger(d, s)
<1>1. CASE Same(c, d)
  BY <1>1 DEF Same, Stays, Ledger
<1>2. CASE Begins(c, d)
  <2>1. d.fg \in Ops /\ d.fg # NoOp
    <3>1. Head(c.queue) \in Ops
      BY <1>2 DEF Begins, Owned
    <3>. QED  BY <1>2, <3>1, NoOpIsNoOp DEF Begins
  <2>. QED  BY <1>2, <2>1, NoOpIsNoOp DEF Begins, Ledger
<1>. QED  BY <1>1, <1>2 DEF Drives

\* So does settling the foreground.
LEMMA LedgerEnds ==
    ASSUME NEW c, NEW s, Owned(c), Ledger(c, s), NEW f \in Settlements(c), NEW d, Ends(c, d, f)
    PROVE  Ledger(d, s)
<1>1. /\ c.fg \in Ops /\ c.fate \in [Ops -> Fates] /\ c.fate[c.fg] = "open"
      /\ d.fate = [c.fate EXCEPT ![c.fg] = f] /\ ~d.running /\ ~d.consumed
  BY DEF Owned, Ends
<1>2. d.fate[c.fg] = f /\ \A op \in Ops \ {c.fg} : d.fate[op] = c.fate[op]
  BY <1>1
<1>3. /\ f # "open" /\ (f \in {"refused", "withdrawn"} => s[c.fg] = 0)
      /\ (f \in {"answered", "interrupted"} => s[c.fg] = 1)
  BY <1>1 DEF Settlements, Closed, Ledger
<1>. QED  BY <1>1, <1>2, <1>3 DEF Ledger

\* And settling an input that waits.
LEMMA LedgerDrops ==
    ASSUME NEW c, NEW s, Owned(c), Ledger(c, s), NEW f \in {"refused", "withdrawn"},
           NEW i, NEW d, Drops(c, d, i, f)
    PROVE  Ledger(d, s)
<1>. DEFINE op == c.queue[i]
<1>1. /\ op \in Ops /\ op # c.fg /\ c.fate[op] = "open" /\ c.fate \in [Ops -> Fates]
      /\ d.fate = [c.fate EXCEPT ![op] = f]
      /\ d.fg = c.fg /\ d.running = c.running /\ d.consumed = c.consumed
  BY DEF Owned, Drops
<1>. HIDE DEF op
<1>2. d.fate[op] = f /\ \A o \in Ops \ {op} : d.fate[o] = c.fate[o]
  BY <1>1
<1>. QED  BY <1>1, <1>2 DEF Ledger

\* A new or returning operation changes nothing in the ledger.
LEMMA LedgerJoins ==
    ASSUME NEW c, NEW s, Ledger(c, s), NEW d,
           (\E op, l : Joins(c, d, op, l)) \/ Returns(c, d) \/ (~c.running /\ Replays(c, d))
    PROVE  Ledger(d, s)
BY DEF Ledger, Joins, Returns, Replays, Stays

\* Every move of the daemon keeps the ledger true.
LEMMA LedgerLeads ==
    ASSUME NEW c, NEW s, Owned(c), Ledger(c, s), NEW d, Leads(c, d)
    PROVE  Ledger(d, s)
<1>1. CASE Drives(c, d)
  BY <1>1, LedgerDrives
<1>2. CASE ~c.running /\ Replays(c, d)
  BY <1>2, LedgerJoins
<1>3. ASSUME NEW i \in Inputs, NEW l \in Lanes, Accepts(c, d, <<i, 0>>, l)
      PROVE  Ledger(d, s)
  <2>1. PICK m : Joins(c, m, <<i, 0>>, l) /\ Drives(m, d)
    BY <1>3 DEF Accepts
  <2>2. <<i, 0>> \in Ops
    BY ChatAssumption DEF Ops
  <2>3. Owned(m) /\ Ledger(m, s)
    BY <2>1, <2>2, JoinsOwned, LedgerJoins
  <2>. QED  BY <2>1, <2>3, LedgerDrives
<1>4. ASSUME NEW f \in {"refused", "withdrawn"}, SettlesWaiting(c, d, f)
      PROVE  Ledger(d, s)
  <2>1. PICK m, i : Drops(c, m, i, f) /\ Drives(m, d)
    BY <1>4 DEF SettlesWaiting
  <2>2. Owned(m) /\ Ledger(m, s)
    BY <2>1, DropsOwned, LedgerDrops, FatesClosed
  <2>. QED  BY <2>1, <2>2, LedgerDrives
<1>5. ASSUME NEW b, Owned(b), Ledger(b, s), NEW f \in Settlements(b), Settles(b, d, f)
      PROVE  Ledger(d, s)
  <2>1. PICK m : Ends(b, m, f) /\ Drives(m, d)
    BY <1>5 DEF Settles
  <2>2. Owned(m) /\ Ledger(m, s)
    BY <1>5, <2>1, EndsOwned, LedgerEnds DEF Settlements
  <2>. QED  BY <2>1, <2>2, LedgerDrives
<1>6. ASSUME NEW f \in Settlements(c), SettlesReturning(c, d, f)
      PROVE  Ledger(d, s)
  <2>1. PICK m : Returns(c, m) /\ Settles(m, d, f)
    BY <1>6 DEF SettlesReturning
  <2>2. Owned(m) /\ Ledger(m, s) /\ f \in Settlements(m)
    BY <2>1, ReturnsOwned, LedgerJoins DEF Returns, Settlements
  <2>. QED  BY <1>5, <2>1, <2>2
<1>. QED  BY <1>1, <1>2, <1>3, <1>4, <1>5, <1>6 DEF Leads, Steers

\* A running foreground stays, on its lane.
Keeps(c, d) == c.running => d.fg = c.fg /\ d.running /\ FgLane(d) = FgLane(c)

LEMMA SteersKeep ==
    ASSUME NEW c, NEW s, Owned(c), Ledger(c, s), NEW d, Steers(c, d) \/ ~c.running
    PROVE  Keeps(c, d)
<1>. SUFFICES ASSUME c.running
              PROVE  d.fg = c.fg /\ d.running /\ FgLane(d) = FgLane(c)
  BY DEF Keeps
<1>1. c.fg # NoOp /\ c.fg \in Ops /\ c.lane[c.fg] # NoLane /\ c.lane \in [Ops -> Lanes \union {NoLane}]
  BY DEF Ledger, Owned
<1>2. \A m : /\ m.fg = c.fg /\ m.running = c.running /\ m.lane[c.fg] = c.lane[c.fg] /\ Drives(m, d)
             => d.fg = c.fg /\ d.running /\ FgLane(d) = FgLane(c)
  BY <1>1 DEF Drives, Same, Stays, Begins, FgLane
<1>3. CASE Drives(c, d)
  BY <1>2, <1>3
<1>4. ASSUME NEW i \in Inputs, NEW l \in Lanes, Accepts(c, d, <<i, 0>>, l)
      PROVE  d.fg = c.fg /\ d.running /\ FgLane(d) = FgLane(c)
  <2>1. PICK m : Joins(c, m, <<i, 0>>, l) /\ Drives(m, d)
    BY <1>4 DEF Accepts
  <2>2. m.fg = c.fg /\ m.running = c.running /\ m.lane[c.fg] = c.lane[c.fg]
    BY <1>1, <2>1 DEF Joins
  <2>. QED  BY <1>2, <2>1, <2>2
<1>5. ASSUME NEW f, SettlesWaiting(c, d, f)
      PROVE  d.fg = c.fg /\ d.running /\ FgLane(d) = FgLane(c)
  <2>1. PICK m, i : Drops(c, m, i, f) /\ Drives(m, d)
    BY <1>5 DEF SettlesWaiting
  <2>. QED  BY <1>2, <2>1 DEF Drops
<1>. QED  BY <1>3, <1>4, <1>5 DEF Steers

\* Workers go on as they are, or end, and a lane that fails goes on failing.
Releases(w, z, w2, z2) == \A l \in Lanes :
    w2[l] = Nobody \/ (w2[l] = w[l] /\ (z[l] # "no" => z2[l] # "no"))

\* What is settled stays settled, on the lane it had.
SettledStay(c, d) ==
    /\ \A op \in Ops : c.fate[op] # "open" => d.fate[op] = c.fate[op]
    /\ \A op \in Ops : c.lane[op] # NoLane => d.lane[op] = c.lane[op]

LEMMA SettledStays ==
    ASSUME NEW c, Owned(c), NEW d, Leads(c, d)
    PROVE  SettledStay(c, d)
<1>1. /\ c.fate \in [Ops -> Fates] /\ c.lane \in [Ops -> Lanes \union {NoLane}]
      /\ c.fg # NoOp => c.fate[c.fg] = "open"
  BY DEF Owned
<1>2. \A m, k : SettledStay(c, m) /\ Drives(m, k) => SettledStay(c, k)
  BY DEF Drives, Same, Stays, Begins, SettledStay
<1>3. CASE Drives(c, d) \/ Replays(c, d)
  BY <1>3 DEF Drives, Same, Stays, Begins, Replays, SettledStay
<1>4. ASSUME NEW i \in Inputs, NEW l \in Lanes, Accepts(c, d, <<i, 0>>, l)
      PROVE  SettledStay(c, d)
  <2>1. PICK m : Joins(c, m, <<i, 0>>, l) /\ Drives(m, d)
    BY <1>4 DEF Accepts
  <2>2. SettledStay(c, m)
    BY <1>1, <2>1 DEF Joins, SettledStay
  <2>. QED  BY <1>2, <2>1, <2>2
<1>5. ASSUME NEW f, SettlesWaiting(c, d, f)
      PROVE  SettledStay(c, d)
  <2>1. PICK m, i : Drops(c, m, i, f) /\ Drives(m, d)
    BY <1>5 DEF SettlesWaiting
  <2>2. c.fate[c.queue[i]] = "open"
    BY <2>1 DEF Drops, Owned
  <2>3. SettledStay(c, m)
    BY <1>1, <2>1, <2>2 DEF Drops, SettledStay
  <2>. QED  BY <1>2, <2>1, <2>3
<1>6. \A m, k, f : SettledStay(c, m) /\ m.fate = c.fate /\ m.fg = c.fg /\ Ends(m, k, f) => SettledStay(c, k)
  BY <1>1 DEF Ends, SettledStay
<1>7. ASSUME NEW f, Settles(c, d, f)
      PROVE  SettledStay(c, d)
  <2>1. PICK m : Ends(c, m, f) /\ Drives(m, d)
    BY <1>7 DEF Settles
  <2>2. SettledStay(c, c)
    BY DEF SettledStay
  <2>3. SettledStay(c, m)
    BY <1>6, <2>1, <2>2
  <2>. QED  BY <1>2, <2>1, <2>3
<1>8. ASSUME NEW f, SettlesReturning(c, d, f)
      PROVE  SettledStay(c, d)
  <2>1. PICK m, k : Returns(c, m) /\ Ends(m, k, f) /\ Drives(k, d)
    BY <1>8 DEF SettlesReturning, Settles
  <2>2. SettledStay(c, m) /\ m.fate = c.fate /\ m.fg = c.fg
    BY <1>1, <2>1 DEF Returns, SettledStay
  <2>3. SettledStay(c, k)
    BY <1>6, <2>1, <2>2
  <2>. QED  BY <1>2, <2>1, <2>3
<1>. QED  BY <1>3, <1>4, <1>5, <1>7, <1>8 DEF Leads, Steers

\* The end of a running foreground, cut by the failure of its lane.
FailureCuts(c, d, z2) ==
    /\ FgLane(c) \in Lanes /\ z2[FgLane(c)] # "no"
    /\ Settles(c, d, CutFate(c))

\* A move keeps deliveries in order, if the worker of a turn that it settles
\* ends with it or is on a lane that fails.
LEMMA DeliveryLeads ==
    ASSUME NEW c, NEW w, NEW z, NEW s, Owned(c), Delivered(c, w, z, s), NEW d, Leads(c, d),
           NEW w2, NEW z2, Releases(w, z, w2, z2),
           \/ Steers(c, d) \/ ~c.running
           \/ \E l \in Lanes : FgLane(c) = l /\ w2[l] = Nobody
           \/ FailureCuts(c, d, z2)
    PROVE  Delivered(d, w2, z2, s)
<1>1. Ledger(d, s)
  BY LedgerLeads DEF Delivered
<1>2. SettledStay(c, d)
  BY SettledStays
<1>3. \A l \in Lanes : \A op : Abandoned(c, l, op) => Abandoned(d, l, op)
  BY <1>2, ChatAssumption DEF Abandoned, SettledStay
<1>4. ASSUME NEW l \in Lanes, w2[l].at # "none", Runs(c, l, w2[l].op)
      PROVE  Runs(d, l, w2[l].op) \/ (z2[l] # "no" /\ Abandoned(d, l, w2[l].op))
  <2>1. c.running /\ FgLane(c) = l /\ c.fg # NoOp /\ c.fg = w2[l].op /\ w2[l] # Nobody
    BY <1>4 DEF Runs, Nobody
  <2>2. CASE Steers(c, d)
    <3>1. Keeps(c, d)
      BY <2>2, SteersKeep DEF Delivered
    <3>. QED  BY <2>1, <3>1 DEF Keeps, Runs
  <2>3. CASE FailureCuts(c, d, z2)
    <3>1. PICK m : Ends(c, m, CutFate(c)) /\ Drives(m, d)
      BY <2>3 DEF FailureCuts, Settles
    <3>2. c.fg \in Ops /\ c.fate \in [Ops -> Fates] /\ c.lane[c.fg] = l
      BY <2>1 DEF Owned, FgLane
    <3>3. d.fate[c.fg] = CutFate(c) /\ d.lane[c.fg] = l
      BY <3>1, <3>2 DEF Ends, Drives, Same, Stays, Begins
    <3>. QED  BY <2>1, <2>3, <3>2, <3>3 DEF FailureCuts, Abandoned, CutFate
  <2>. QED  BY <2>1, <2>2, <2>3
<1>5. Busy(d, w2, z2, s)
  <2>. SUFFICES ASSUME NEW l \in Lanes
                PROVE  /\ w2[l].at # "none" =>
                            Runs(d, l, w2[l].op) \/ (z2[l] # "no" /\ Abandoned(d, l, w2[l].op))
                       /\ w2[l].at = "none" => w2[l].op = NoOp
                       /\ w2[l].at = "admitted" => s[w2[l].op] = 0
                       /\ w2[l].at \in {"sent", "taken", "receipted"} => s[w2[l].op] = 1
    BY DEF Busy
  <2>1. CASE w2[l] = Nobody
    BY <2>1 DEF Nobody
  <2>2. CASE w2[l] = w[l] /\ (z[l] # "no" => z2[l] # "no")
    BY <1>3, <1>4, <2>2 DEF Delivered, Busy
  <2>. QED  BY <2>1, <2>2 DEF Releases
<1>. QED  BY <1>1, <1>5 DEF Delivered

(***************************************************************************)
(* The steps of the daemon keep the shape of the chat and its link to the  *)
(* process.                                                                *)
(***************************************************************************)
\* Only a deferred lane is bound to a thread that is not committed.
Bindings == \A l \in Lanes : bind[l].id # 0 /\ ~bind[l].committed => l \in Deferred

\* The inductive invariant of the daemon.
Fits == Shaped(chat) /\ Linked(chat, host, lost, exec)
Daemon == /\ IInv /\ Threads /\ Owned(chat) /\ Working
          /\ Fits /\ Delivered(chat, worker, failing, sent) /\ Bindings

\* What a step makes of the chat before anything is known of its lanes.
Stepped == chat' \in Placed /\ Owned(chat') /\ Apart(chat')

LEMMA OwnedApart ==
    ASSUME NEW c, Owned(c)
    PROVE  Apart(c)
<1>1. DOMAIN c.queue = 1 .. Len(c.queue)
  BY DEF Owned
<1>. QED  BY <1>1 DEF Owned, Apart, QueuedOps

LEMMA NextStepped ==
    ASSUME Daemon, [Next]_vars
    PROVE  Stepped
<1>1. chat' \in Placed
  BY NextPlaced DEF Daemon
<1>2. Owned(chat')
  BY NextMoves, MovesOwned DEF Daemon
<1>. QED  BY <1>1, <1>2, OwnedApart DEF Stepped

\* The process is what the link takes it for.
LEMMA DaemonProcess ==
    ASSUME Daemon
    PROVE  /\ Process(host, lost, exec) /\ chat \in Placed /\ Shaped(chat)
           /\ Linked(chat, host, lost, exec)
BY DEF Daemon, Fits, IInv, ActorOK, Process

\* Nothing is lost, and the effect in hand stays, where nothing changes.
LEMMA LosesNothing ==
    ASSUME NEW h, NEW u, NEW x
    PROVE  Loses(h, u, h, u) /\ Continues(x, x)
BY DEF Loses, Continues

\* An attachment goes.
LEMMA LosesOne ==
    ASSUME NEW h \in [Lanes -> Nat], NEW u, NEW l \in Lanes
    PROVE  /\ Loses(h, u, [h EXCEPT ![l] = 0], u)
           /\ h[l] # 0 => Loses(h, u, [h EXCEPT ![l] = 0], u \union {<<l, h[l]>>})
BY DEF Loses

\* A step that hands the chat on.
LEMMA PassFits ==
    ASSUME Daemon, Stepped, Shaped(chat'), Carries(chat, chat'), Loses(host, lost, host', lost'),
           Holds(chat, chat') \/ \E l \in Lanes : Retries(chat, chat', l) /\ host'[l] = 0,
           exec' = Idle \/ (Continues(exec, exec') /\ Steady(chat, chat'))
    PROVE  Fits'
<1>1. Linked(chat', host', lost', exec')
  BY DaemonProcess, LinkPersists DEF Stepped
<1>. QED  BY <1>1 DEF Fits

\* A step that leaves the process alone.
LEMMA CommandFits ==
    ASSUME Daemon, Stepped, Passes(chat, chat'), Steady(chat, chat'),
           UNCHANGED <<host, lost, exec>>
    PROVE  Fits'
BY PassFits, LosesNothing DEF Passes

\* A step that leaves the chat alone.
LEMMA SameFits ==
    ASSUME Daemon, Stepped, chat' = chat, Loses(host, lost, host', lost'),
           exec' = Idle \/ Continues(exec, exec')
    PROVE  Fits'
BY PassFits, DaemonProcess, IdlePasses DEF Passes

\* The commands of the user and the Stop executor.
LEMMA UsersFits ==
    ASSUME Daemon, Stepped, Users \/ Stopper
    PROVE  Fits'
<1>. USE DaemonProcess
<1>1. UNCHANGED <<host, lost, exec>>
  BY DEF Users, Stopper, Select, SubmitInput, WithdrawInput, Stop, Command, ClaimStop,
         StopDelivered, StopRejected, drainVars, laneVars
<1>2. ASSUME NEW l \in Lanes, Select(l)  PROVE Passes(chat, chat') /\ Steady(chat, chat')
  <2>1. PICK covered \in BOOLEAN : chat' = SelectLane(chat, l, covered)
    BY <1>2 DEF Select, Command
  <2>. QED  BY <2>1, SelectLaneShaped DEF Stepped
<1>3. ASSUME NEW i \in Inputs, NEW l \in Lanes, SubmitInput(i, l)
      PROVE  Passes(chat, chat') /\ Steady(chat, chat')
  <2>1. <<i, 0>> \in Ops
    BY ChatAssumption DEF Ops
  <2>2. CanSubmit(chat, <<i, 0>>, l) /\ chat' = Submit(chat, <<i, 0>>, l, TRUE)
    BY <1>3 DEF SubmitInput, Command
  <2>. QED  BY <2>1, <2>2, SubmitShaped DEF Stepped
<1>4. ASSUME NEW op \in Ops, WithdrawInput(op)  PROVE Passes(chat, chat') /\ Steady(chat, chat')
  <2>1. PICK covered \in BOOLEAN : CanWithdraw(chat, op) /\ chat' = Withdraw(chat, op, covered)
    BY <1>4 DEF WithdrawInput, Command
  <2>. QED  BY <2>1, WithdrawShaped DEF Stepped
<1>5. CASE Stop
  BY <1>5, StopShaped, CommandFits, <1>1 DEF Stop, Command
<1>6. CASE ClaimStop
  <2>1. \A i \in DOMAIN chat.outbox : i \in CurrentStop(chat) => ~Opening(chat.outbox[i])
    BY DEF CurrentStop, Stops, Opening
  <2>. QED  BY <1>6, <2>1, ClaimShaped, CommandFits, <1>1 DEF ClaimStop
<1>7. CASE StopDelivered \/ StopRejected
  BY <1>7, StopAnsweredShaped, CommandFits, <1>1 DEF StopDelivered, StopRejected
<1>. QED  BY <1>1, <1>2, <1>3, <1>4, <1>5, <1>6, <1>7, CommandFits DEF Users, Stopper

\* The engine claims the first effect that can run.
LEMMA ClaimFits ==
    ASSUME Daemon, Stepped, Claim
    PROVE  Fits'
<1>. USE DaemonProcess
<1>1. PICK i \in Claimable :
        /\ \A j \in Claimable : i <= j
        /\ chat' = [chat EXCEPT !.outbox = Mark(@, {i}, "dispatched")]
        /\ exec' = [kind |-> chat.outbox[i].kind, lane |-> chat.outbox[i].lane,
                    op |-> chat.outbox[i].op, gen |-> chat.outbox[i].gen,
                    recon |-> chat.outbox[i].recon, at |-> "claimed", absent |-> FALSE]
  BY DEF Claim
<1>2. UNCHANGED <<host, lost>> /\ exec = Idle
  BY DEF Claim, laneVars
<1>. DEFINE c == chat
            d == chat'
            e == chat.outbox[i]
            x == exec'
            l == chat.outbox[i].lane
<1>3. /\ i \in DOMAIN c.outbox /\ e \in Entry /\ e.status = "pending" /\ l \in Lanes /\ e.gen \in Nat
      /\ DOMAIN c.outbox \subseteq Nat
  BY OutboxEntries DEF Claimable, Executable, Entry
<1>4. Passes(c, d) /\ Steady(c, d)
  BY <1>1, <1>3, ClaimShaped
<1>5. Linked(d, host', lost', Idle)
  BY <1>2, <1>4, LinkPersists, LosesNothing DEF Stepped, Passes
<1>6. /\ d.phase = c.phase /\ d.gen = c.gen /\ d.cgen = c.cgen /\ d.thread = c.thread
      /\ d.cand = c.cand /\ d.fg = c.fg /\ d.running = c.running /\ d.lane = c.lane
      /\ d.outbox = Mark(c.outbox, {i}, "dispatched") /\ FgLane(d) = FgLane(c)
  BY <1>1 DEF Placed, Chat, FgLane
<1>7. /\ DOMAIN d.outbox = DOMAIN c.outbox
      /\ \A j \in DOMAIN c.outbox : SameEffect(c.outbox[j], d.outbox[j])
      /\ \A j \in DOMAIN c.outbox : j # i => d.outbox[j] = c.outbox[j]
      /\ d.outbox[i].status = "dispatched"
  BY <1>3, <1>6, MarkFacts, OutboxEntries
<1>8. /\ x.kind = e.kind /\ x.lane = l /\ x.op = e.op /\ x.gen = e.gen /\ x.at = "claimed"
  BY <1>1
<1>9. ASSUME NEW j \in DOMAIN d.outbox, PendingCreate(d, l, j)
      PROVE  j # i /\ j \in DOMAIN c.outbox /\ PendingCreate(c, l, j) /\ d.outbox[j].gen = c.outbox[j].gen
  BY <1>7, <1>9 DEF PendingCreate
<1>10. ASSUME NEW j \in DOMAIN c.outbox, PendingCreate(c, l, j), c.phase[l] = "creating"
       PROVE  j \in Claimable /\ i <= j
  BY <1>1, <1>10 DEF Claimable, Executable, PendingCreate
<1>11. PhasesFit(c) /\ ForegroundFits(c) /\ StartsOnce(c) /\ ResumesCurrent(c)
       /\ CreatesOrdered(c) /\ NoCreateRuns(c) /\ Hosted(c, host, lost) /\ WaitFits(c, host, lost)
  BY DEF Shaped, Linked
<1>12. Executable(c, e)
  BY DEF Claimable
<1>. HIDE DEF c, d, e, x, l
<1>13. ResumeFits(d, x)
  <2>. SUFFICES ASSUME e.kind = "resume"  PROVE d.phase[l] = "resuming" /\ e.gen = d.gen[l]
    BY <1>8 DEF ResumeFits
  <2>. QED  BY <1>3, <1>6, <1>11 DEF ResumesCurrent, e, l, c
<1>14. CreateFits(d, host', lost', x)
  <2>. SUFFICES ASSUME e.kind = "create"
                PROVE  /\ d.thread[l] = 0 /\ e.gen <= d.cgen[l] /\ Past(host, lost, l, e.gen)
                       /\ \A j \in DOMAIN d.outbox : PendingCreate(d, l, j) => e.gen < d.outbox[j].gen
                       /\ FgLane(d) = l => ~d.running
    BY <1>2, <1>8 DEF CreateFits
  <2>1. c.phase[l] = "creating" /\ PendingCreate(c, l, i)
    BY <1>3, <1>12 DEF Executable, PendingCreate, e, l, c
  <2>2. c.thread[l] = 0
    BY <1>3, <1>11, <2>1 DEF PhasesFit, Established
  <2>3. e.gen <= c.cgen[l]
    BY <1>3, <1>11 DEF CreatesOrdered, e, l, c
  <2>4. Past(host, lost, l, e.gen)
    BY <1>3, <1>11, <2>1, <2>2 DEF Hosted, e, c
  <2>5. ASSUME NEW j \in DOMAIN d.outbox, PendingCreate(d, l, j)
        PROVE  e.gen < d.outbox[j].gen
    <3>1. j # i /\ j \in DOMAIN c.outbox /\ PendingCreate(c, l, j) /\ d.outbox[j].gen = c.outbox[j].gen
      BY <1>9, <2>5
    <3>2. i <= j
      BY <1>10, <2>1, <3>1
    <3>3. i < j
      BY <1>3, <3>1, <3>2 DEF c
    <3>. QED  BY <1>3, <1>11, <3>1, <3>3 DEF CreatesOrdered, PendingCreate, e, l, c
  <2>6. FgLane(c) = l => ~c.running
    BY <1>3, <1>11, <2>1, ChatParts DEF ForegroundFits, NoCreateRuns, c
  <2>. QED  BY <1>6, <2>2, <2>3, <2>4, <2>5, <2>6
<1>15. StartFits(d, host', x)
  <2>. SUFFICES ASSUME e.kind = "start"
                PROVE  /\ \E j \in Starts(d, e.op) : d.outbox[j].lane = l
                       /\ ~d.running /\ d.phase[l] # "resuming"
                       /\ \A j \in Starts(d, e.op) : d.outbox[j].status # "pending"
                       /\ host[l] # 0 /\ d.cand[l] # 0 =>
                            \A j \in DOMAIN d.outbox : ~PendingCreate(d, l, j)
    BY <1>2, <1>8 DEF StartFits, InHand
  <2>1. i \in Starts(d, e.op) /\ d.outbox[i].lane = l /\ i \in Starts(c, e.op)
    BY <1>3, <1>7 DEF Starts, SameEffect, e, l, c
  <2>2. /\ c.fg = e.op /\ ~c.running
        /\ c.phase[l] = "running" \/ (c.phase[l] = "creating" /\ c.cand[l] # 0)
    BY <1>12 DEF Executable, l, e, c
  <2>3. e.op # NoOp
    BY <1>3 DEF Entry
  <2>4. \A j \in Starts(d, e.op) : j = i
    BY <1>3, <1>7, <1>11, <2>1 DEF StartsOnce, Starts, SameEffect, c
  <2>5. FgLane(c) = l
    BY <2>1, <2>2, <2>3, StartLane DEF c, l
  <2>6. ASSUME host[l] # 0, c.cand[l] # 0, NEW j \in DOMAIN d.outbox, PendingCreate(d, l, j)
        PROVE  FALSE
    <3>1. c.phase[l] = "creating"
      BY <1>3, <1>11, <2>2, <2>6 DEF PhasesFit
    <3>2. j # i /\ j \in DOMAIN c.outbox /\ PendingCreate(c, l, j)
      BY <1>9, <2>6
    <3>3. i < j
      <4>1. i <= j
        BY <1>10, <3>1, <3>2
      <4>. QED  BY <1>3, <3>2, <4>1 DEF c
    <3>4. AfterStart(c, j)
      BY <2>1, <2>2, <2>5, <3>2, <3>3 DEF AfterStart, PendingCreate, Over
    <3>5. Waits(c)
      BY <2>2, <2>3, <2>5, <2>6 DEF Waits
    <3>. QED  BY <1>11, <2>5, <2>6, <3>2, <3>4, <3>5 DEF WaitFits
  <2>. QED  BY <1>6, <1>7, <2>1, <2>2, <2>4, <2>6
<1>. QED  BY <1>4, <1>5, <1>13, <1>14, <1>15 DEF Fits, Linked, Passes, d, x

\* The lane of an attachment, live or lost, whose generation is current does
\* not resume, and nothing opens it after the start of its foreground.
LEMMA CurrentLane ==
    ASSUME Daemon, NEW l \in Lanes, (host[l] # 0 /\ host[l] = chat.gen[l]) \/ <<l, chat.gen[l]>> \in lost
    PROVE  /\ chat.phase[l] # "resuming"
           /\ FgLane(chat) = l /\ Waits(chat) => \A i \in DOMAIN chat.outbox : ~AfterStart(chat, i)
<1>1. chat.gen[l] \in Nat /\ Hosted(chat, host, lost) /\ WaitFits(chat, host, lost)
  BY DaemonProcess, ChatParts DEF Linked
<1>2. chat.phase[l] # "resuming"
  <2>1. ASSUME Past(host, lost, l, chat.gen[l])  PROVE FALSE
    <3>1. ~(chat.gen[l] < chat.gen[l])
      BY <1>1
    <3>. QED  BY <2>1, <3>1 DEF Past
  <2>. QED  BY <1>1, <2>1 DEF Hosted
<1>. QED  BY <1>1, <1>2 DEF WaitFits

\* HostLost of an attachment that went, or of an older one.
LEMMA LossFits ==
    ASSUME Daemon, Stepped, NEW l \in Lanes, NEW g,
           g = chat.gen[l] => \/ (host[l] # 0 /\ host[l] = chat.gen[l]) \/ <<l, chat.gen[l]>> \in lost,
           chat' = HostLost(chat, l, g), Loses(host, lost, host', lost'),
           g = chat.gen[l] => host'[l] = 0,
           exec' = Idle \/ Continues(exec, exec')
    PROVE  Fits'
<1>1. g = chat.gen[l] => /\ chat.phase[l] # "resuming"
                         /\ FgLane(chat) = l /\ Waits(chat) =>
                              \A i \in DOMAIN chat.outbox : ~AfterStart(chat, i)
  BY CurrentLane
<1>2. Apart(HostLost(chat, l, g))
  BY DEF Stepped
<1>3. /\ Shaped(chat') /\ Carries(chat, chat') /\ Steady(chat, chat')
      /\ Holds(chat, chat') \/ (g = chat.gen[l] /\ Retries(chat, chat', l))
  BY <1>1, <1>2, DaemonProcess, HostLostShaped
<1>. QED  BY <1>3, PassFits

\* LaneProtocolFailed of an attachment.
LEMMA ProtocolFits ==
    ASSUME Daemon, Stepped, NEW l \in Lanes, host[l] # 0, ProtocolFailed(l), UNCHANGED <<lost, exec>>
    PROVE  Fits'
<1>1. Apart(LaneProtocolFailed(chat, l, host[l])) /\ chat' = LaneProtocolFailed(chat, l, host[l])
  BY DEF Stepped, ProtocolFailed
<1>2. host[l] = chat.gen[l] => chat.phase[l] # "resuming"
  BY CurrentLane
<1>3. Passes(chat, chat') /\ Steady(chat, chat')
  BY <1>1, <1>2, DaemonProcess, LaneProtocolFailedShaped
<1>. QED  BY <1>3, CommandFits DEF ProtocolFailed

\* The lane of an open call in hand has no running turn.
LEMMA OpeningWaits ==
    ASSUME Daemon, exec.kind \in {"create", "resume"}
    PROVE  exec.lane \in Lanes /\ (FgLane(chat) = exec.lane => ~chat.running)
<1>1. exec.lane \in Lanes
  BY DaemonProcess DEF Process
<1>2. CreateFits(chat, host, lost, exec) /\ ResumeFits(chat, exec) /\ ForegroundFits(chat)
  BY DaemonProcess DEF Linked, Shaped
<1>3. CASE exec.kind = "create"
  BY <1>1, <1>2, <1>3 DEF CreateFits
<1>4. CASE exec.kind = "resume"
  BY <1>1, <1>2, <1>4, DaemonProcess, ChatParts DEF ResumeFits, ForegroundFits
<1>. QED  BY <1>3, <1>4

\* A failed open call.
LEMMA OpenFailureFits ==
    ASSUME Daemon, Stepped, exec.kind \in {"create", "resume"}, NEW ambiguous \in BOOLEAN,
           OpenFailure(exec.lane, ambiguous), Loses(host, lost, host', lost')
    PROVE  Fits'
<1>1. exec' = Idle
  BY DEF OpenFailure, Return
<1>2. CASE chat' = chat
  BY <1>1, <1>2, SameFits
<1>3. CASE chat' # chat
  <2>1. CanFailOpen(chat, exec.lane) /\ chat' = LaneOpenFailed(chat, exec.lane, ambiguous)
    BY <1>3 DEF OpenFailure
  <2>2. Passes(chat, chat')
    BY <2>1, OpeningWaits, DaemonProcess, LaneOpenFailedShaped
  <2>. QED  BY <1>1, <2>2, PassFits DEF Passes
<1>. QED  BY <1>2, <1>3

\* The attachments h of one more lane, under a generation that is past.
LEMMA AttachedHosted ==
    ASSUME NEW c \in Placed, NEW o \in Placed, NEW h, NEW u, NEW x, Process(h, u, x), Hosted(c, h, u),
           NEW l \in Lanes, NEW g \in Nat, Past(h, u, l, g),
           o.gen = [c.gen EXCEPT ![l] = g], o.cgen = c.cgen,
           o.phase[l] # "resuming", \A k \in Lanes \ {l} : o.phase[k] = c.phase[k],
           \A k \in Lanes \ {l} : o.thread[k] = c.thread[k],
           Fades(c.outbox, o.outbox), DOMAIN o.outbox = DOMAIN c.outbox,
           o.thread[l] = 0 => /\ g <= c.cgen[l]
                              /\ \A i \in DOMAIN c.outbox :
                                   PendingCreate(c, l, i) => g < c.outbox[i].gen
    PROVE  Hosted(o, [h EXCEPT ![l] = g], u)
<1>. DEFINE h2 == [h EXCEPT ![l] = g]
<1>1. /\ h \in [Lanes -> Nat] /\ h2[l] = g /\ \A k \in Lanes \ {l} : h2[k] = h[k] /\ h2[k] \in Nat
      /\ \A v \in u : v[1] \in Lanes /\ v[2] \in Nat
  BY DEF Process
<1>2. /\ c.gen \in [Lanes -> Nat] /\ o.gen[l] = g /\ \A k \in Lanes \ {l} : o.gen[k] = c.gen[k]
      /\ \A k \in Lanes : c.cgen[k] \in Nat /\ c.gen[k] \in Nat
  BY DEF Placed, Chat
<1>. HIDE DEF h2
<1>3. \A v \in u : v[1] = l => v[2] < g
  BY DEF Past
<1>4. ASSUME NEW n \in Nat, g < n  PROVE Past(h2, u, l, n)
  BY <1>1, <1>3, <1>4 DEF Past
<1>5. \A k \in Lanes : h2[k] # 0 => h2[k] <= o.gen[k]
  BY <1>1, <1>2 DEF Hosted
<1>6. \A v \in u : v[2] <= o.gen[v[1]] /\ (h2[v[1]] # 0 => v[2] < h2[v[1]])
  <2>. SUFFICES ASSUME NEW v \in u
                PROVE  v[2] <= o.gen[v[1]] /\ (h2[v[1]] # 0 => v[2] < h2[v[1]])
    OBVIOUS
  <2>1. CASE v[1] = l
    BY <1>1, <1>2, <1>3, <2>1
  <2>2. CASE v[1] # l
    BY <1>1, <1>2, <2>2 DEF Hosted
  <2>. QED  BY <2>1, <2>2
<1>7. ASSUME NEW k \in Lanes \ {l}, NEW n, Past(h, u, k, n)  PROVE Past(h2, u, k, n)
  BY <1>1, <1>7 DEF Past
<1>8. \A k \in Lanes : o.phase[k] = "resuming" => Past(h2, u, k, o.gen[k])
  BY <1>2, <1>7 DEF Hosted
<1>9. ASSUME NEW k \in Lanes, NEW i \in DOMAIN o.outbox, PendingCreate(o, k, i)
      PROVE  PendingCreate(c, k, i) /\ i \in DOMAIN c.outbox /\ o.outbox[i].gen = c.outbox[i].gen
             /\ c.outbox[i].gen \in Nat
  <2>1. c.outbox[i].gen \in Nat
    BY <1>9, OutboxEntries DEF Entry
  <2>. QED  BY <1>9, <2>1 DEF PendingCreate, Fades, Extends, SameEffect, Opening
<1>10. ASSUME NEW k \in Lanes, o.thread[k] = 0
       PROVE  /\ Past(h2, u, k, o.cgen[k] + 1)
              /\ \A i \in DOMAIN o.outbox : PendingCreate(o, k, i) => Past(h2, u, k, o.outbox[i].gen)
  <2>1. CASE k = l
    <3>1. g < c.cgen[l] + 1 /\ c.cgen[l] + 1 \in Nat
      BY <1>2, <1>10, <2>1
    <3>2. Past(h2, u, l, o.cgen[l] + 1)
      BY <1>4, <3>1
    <3>3. ASSUME NEW i \in DOMAIN o.outbox, PendingCreate(o, l, i)
          PROVE  Past(h2, u, l, o.outbox[i].gen)
      BY <1>4, <1>9, <1>10, <2>1, <3>3
    <3>. QED  BY <2>1, <3>2, <3>3
  <2>2. CASE k # l
    <3>1. c.thread[k] = 0
      BY <1>10, <2>2
    <3>2. Past(h, u, k, c.cgen[k] + 1)
      BY <3>1 DEF Hosted
    <3>3. ASSUME NEW i \in DOMAIN o.outbox, PendingCreate(o, k, i)
          PROVE  Past(h, u, k, o.outbox[i].gen)
      BY <1>9, <3>1, <3>3 DEF Hosted
    <3>. QED  BY <1>7, <2>2, <3>2, <3>3
  <2>. QED  BY <2>1, <2>2
<1>. QED  BY <1>5, <1>6, <1>8, <1>10 DEF Hosted, h2

\* The link of an idle engine.
LEMMA IdleLinked ==
    ASSUME NEW c, NEW h, NEW u, Hosted(c, h, u), WaitFits(c, h, u)
    PROVE  Linked(c, h, u, Idle)
BY DEF Linked, ResumeFits, CreateFits, StartFits, InHand, Idle

\* LaneOpened of the lane that an open call was for.
LEMMA LaneOpenedFits ==
    ASSUME Daemon, Stepped, NEW l \in Lanes, NEW g \in Nat, NEW t \in Nat \ {0}, NEW covered \in BOOLEAN,
           CanOpen(chat, l, t), Past(host, lost, l, g), FgLane(chat) = l => ~chat.running,
           chat.phase[l] = "resuming" => g = chat.gen[l],
           chat' = LaneOpened(chat, l, g, t, covered),
           host' = [host EXCEPT ![l] = g], lost' = lost, exec' = Idle
    PROVE  Fits'
<1>. DEFINE c == chat
            d == chat'
<1>1. c \in Placed /\ d \in Placed /\ Shaped(c) /\ Apart(LaneOpened(c, l, g, t, covered))
      /\ Process(host, lost, exec) /\ Hosted(c, host, lost) /\ WaitFits(c, host, lost)
  BY DaemonProcess DEF Stepped, Linked
<1>. HIDE DEF c, d
<1>2. PICK o \in Placed : Opened(c, o, l, g, t) /\ Shaped(o) /\ Passes(o, d)
  BY <1>1, LaneOpenedShaped DEF c, d
<1>3. /\ o.thread = [c.thread EXCEPT ![l] = t] /\ o.cand = [c.cand EXCEPT ![l] = 0]
      /\ o.gen = [c.gen EXCEPT ![l] = g] /\ o.cgen = c.cgen /\ o.fg = c.fg /\ o.running = c.running
      /\ o.queue = c.queue /\ o.lane = c.lane
      /\ Fades(c.outbox, o.outbox) /\ DOMAIN o.outbox = DOMAIN c.outbox
  BY <1>2 DEF Opened
<1>4. /\ c.thread \in [Lanes -> Nat] /\ c.cand \in [Lanes -> Nat] /\ c.gen \in [Lanes -> Nat]
      /\ c.phase \in [Lanes -> Phases]
  BY <1>1 DEF Placed, Chat
<1>5. o.phase[l] # "resuming" /\ \A k \in Lanes \ {l} : o.phase[k] = c.phase[k]
  BY <1>2, <1>4 DEF Opened
<1>6. o.thread[l] # 0 /\ \A k \in Lanes \ {l} : o.thread[k] = c.thread[k] /\ o.cand[k] = c.cand[k] /\ o.gen[k] = c.gen[k]
  BY <1>3, <1>4
<1>7. Hosted(o, host', lost')
  <2>1. \A k \in Lanes \ {l} : o.thread[k] = c.thread[k]
    BY <1>6
  <2>2. o.thread[l] = 0 =>
          g <= c.cgen[l] /\ \A i \in DOMAIN c.outbox : PendingCreate(c, l, i) => g < c.outbox[i].gen
    BY <1>6
  <2>3. Hosted(o, [host EXCEPT ![l] = g], lost)
    BY <1>1, <1>3, <1>5, <2>1, <2>2, AttachedHosted
  <2>. QED  BY <2>3, Zenon
<1>8. Settled(c, o)
  BY <1>1, <1>3, InPlaceSettled
<1>9. WaitFits(o, host', lost')
  <2>. SUFFICES ASSUME Waits(o), host'[FgLane(o)] # 0 \/ <<FgLane(o), o.gen[FgLane(o)]>> \in lost,
                       NEW i \in DOMAIN o.outbox, AfterStart(o, i)
                PROVE  FALSE
    BY DEF WaitFits
  <2>1. FgLane(o) = FgLane(c) /\ AfterStart(c, i) /\ i \in DOMAIN c.outbox
    BY <1>3, <1>8 DEF Settled
  <2>2. FgLane(c) \in Lanes
    BY <1>1, <1>3, ChatParts DEF Waits
  <2>3. FgLane(c) # l
    BY <1>3, <1>4, <2>1 DEF Waits
  <2>4. Waits(c) /\ c.gen[FgLane(c)] = o.gen[FgLane(c)]
    BY <1>3, <1>6, <2>1, <2>2, <2>3 DEF Waits
  <2>5. host'[FgLane(c)] = host[FgLane(c)]
    BY <1>1, <2>2, <2>3 DEF Process
  <2>. QED  BY <1>1, <2>1, <2>4, <2>5 DEF WaitFits
<1>10. Linked(o, host', lost', Idle)
  BY <1>7, <1>9, IdleLinked
<1>11. Process(host', lost', Idle) /\ Loses(host', lost', host', lost')
  BY <1>1, LosesNothing DEF Process, Idle
<1>12. Linked(d, host', lost', Idle)
  BY <1>1, <1>2, <1>10, <1>11, LinkPersists DEF Passes
<1>. QED  BY <1>2, <1>12 DEF Passes, Fits, d

\* LaneProvisioned of the lane that a create call was for.
LEMMA LaneProvisionedFits ==
    ASSUME Daemon, Stepped, exec.kind = "create", NEW l, l = exec.lane, NEW t \in Nat \ {0},
           NEW absent \in BOOLEAN, CanProvision(chat, l, t, absent), l \in Deferred,
           chat' = LaneProvisioned(chat, l, exec.gen, t, absent),
           host' = [host EXCEPT ![l] = exec.gen], lost' = lost, exec' = Idle
    PROVE  Fits'
<1>. DEFINE c == chat
            d == chat'
            g == exec.gen
<1>1. /\ c \in Placed /\ d \in Placed /\ Shaped(c) /\ Apart(LaneProvisioned(c, l, g, t, absent))
      /\ Process(host, lost, exec) /\ Hosted(c, host, lost) /\ l \in Lanes /\ g \in Nat
      /\ FgLane(c) = l => ~c.running
  BY DaemonProcess, OpeningWaits DEF Stepped, Linked, Process
<1>2. /\ Past(host, lost, l, g) /\ c.thread[l] = 0 /\ g <= c.cgen[l]
      /\ \A i \in DOMAIN c.outbox : PendingCreate(c, l, i) => g < c.outbox[i].gen
  BY DaemonProcess DEF Linked, CreateFits
<1>3. c.phase[l] = "creating" /\ CanProvision(c, l, t, absent) /\ d = LaneProvisioned(c, l, g, t, absent)
      /\ host' = [host EXCEPT ![l] = g]
  BY DEF CanProvision
<1>. HIDE DEF c, d, g
<1>4. PICK o \in Placed : Provisioned(c, o, l, g, t) /\ Shaped(o) /\ Passes(o, d)
  BY <1>1, <1>3, LaneProvisionedShaped
<1>5. /\ o.thread = c.thread /\ o.gen = [c.gen EXCEPT ![l] = g] /\ o.cgen = c.cgen /\ o.phase = c.phase
      /\ Fades(c.outbox, o.outbox) /\ DOMAIN o.outbox = DOMAIN c.outbox
      /\ \A i \in DOMAIN o.outbox : ~AfterStart(o, i)
  BY <1>4 DEF Provisioned
<1>6. o.phase[l] # "resuming"
  BY <1>3, <1>5
<1>7. Hosted(o, host', lost')
  <2>1. \A k \in Lanes \ {l} : o.thread[k] = c.thread[k] /\ o.phase[k] = c.phase[k]
    BY <1>5
  <2>2. Hosted(o, [host EXCEPT ![l] = g], lost)
    BY <1>1, <1>2, <1>5, <1>6, <2>1, AttachedHosted
  <2>3. host' = [host EXCEPT ![l] = g] /\ lost' = lost
    BY <1>3
  <2>. QED  BY <2>2, <2>3, Zenon
<1>8. WaitFits(o, host', lost')
  BY <1>5 DEF WaitFits
<1>9. Linked(o, host', lost', Idle)
  BY <1>7, <1>8, IdleLinked
<1>10. Process(host', lost', Idle) /\ Loses(host', lost', host', lost')
  BY <1>1, <1>3, LosesNothing DEF Process, Idle
<1>11. Linked(d, host', lost', Idle)
  BY <1>1, <1>4, <1>9, <1>10, LinkPersists DEF Passes
<1>. QED  BY <1>4, <1>11 DEF Passes, Fits, d

\* A report that the actor refuses.
LEMMA ReportRefusedFits ==
    ASSUME Daemon, Stepped, exec.kind \in {"create", "resume"}, NEW opened,
           ReportOpened(FALSE, opened), lost' = lost
    PROVE  Fits'
<1>1. host' = [host EXCEPT ![exec.lane] = 0]
  BY DEF ReportOpened
<1>2. Loses(host, lost, host', lost')
  BY <1>1, OpeningWaits, DaemonProcess, LosesOne DEF Process
<1>3. CASE exec.kind = "create"
  BY <1>2, <1>3, OpenFailureFits DEF ReportOpened
<1>4. CASE exec.kind = "resume"
  BY <1>2, <1>4, SameFits DEF ReportOpened, Return
<1>. QED  BY <1>3, <1>4

\* The steps that open a lane.
LEMMA OpenerFits ==
    ASSUME Daemon, Stepped, Opener
    PROVE  Fits'
<1>. USE DaemonProcess
<1>1. CASE RetireAttachment
  <2>1. exec.kind \in {"create", "resume"} /\ Continues(exec, exec') /\ exec.lane \in Lanes
    BY <1>1, OpeningWaits DEF RetireAttachment, Continues, Daemon, IInv, ActorOK
  <2>2. CASE UNCHANGED <<chat, host, lost>>
    BY <2>1, <2>2, SameFits, LosesNothing
  <2>3. CASE /\ host[exec.lane] # 0 /\ chat' = Detached(exec.lane) /\ UNCHANGED lost
             /\ host' = [host EXCEPT ![exec.lane] = 0]
    <3>1. chat' = Detached(exec.lane) /\ host' = [host EXCEPT ![exec.lane] = 0]
      BY <2>3
    <3>2. Loses(host, lost, host', lost') /\ host'[exec.lane] = 0
      BY <2>1, <2>3, LosesOne DEF Process
    <3>3. CASE host[exec.lane] = chat.gen[exec.lane]
      <4>1. chat' = HostLost(chat, exec.lane, host[exec.lane])
        BY <3>1, <3>3 DEF Detached
      <4>. QED  BY <2>1, <2>3, <3>2, <3>3, <4>1, LossFits
    <3>4. CASE host[exec.lane] # chat.gen[exec.lane]
      <4>1. chat' = chat /\ Continues(exec, exec')
        BY <2>1, <3>1, <3>4 DEF Detached
      <4>. QED  BY <3>2, <4>1, SameFits
    <3>. QED  BY <3>3, <3>4
  <2>4. CASE /\ host[exec.lane] # 0 /\ chat' = chat
             /\ lost' \in {lost, lost \union {<<exec.lane, host[exec.lane]>>}}
             /\ host' = [host EXCEPT ![exec.lane] = 0]
    <3>a. host' = [host EXCEPT ![exec.lane] = 0] /\ host[exec.lane] # 0
      BY <2>4, Zenon
    <3>b. lost' = lost \/ lost' = lost \union {<<exec.lane, host[exec.lane]>>}
      BY <2>4, Zenon
    <3>c. host \in [Lanes -> Nat] /\ exec.lane \in Lanes
      BY <2>1 DEF Process
    <3>d. /\ Loses(host, lost, [host EXCEPT ![exec.lane] = 0], lost)
          /\ Loses(host, lost, [host EXCEPT ![exec.lane] = 0],
                   lost \union {<<exec.lane, host[exec.lane]>>})
      BY <3>a, <3>c, LosesOne
    <3>1. Loses(host, lost, host', lost')
      BY <3>a, <3>b, <3>d
    <3>2. chat' = chat /\ Continues(exec, exec')
      BY <2>1, <2>4
    <3>. QED  BY <3>1, <3>2, SameFits
  <2>. QED  BY <1>1, <2>2, <2>3, <2>4 DEF RetireAttachment, Release, laneVars
<1>2. CASE CreateMinted \/ CreateReattached
  <2>1. chat' = chat /\ UNCHANGED <<host, lost>>
    BY <1>2 DEF CreateMinted, CreateReattached, laneVars
  <2>2. Continues(exec, exec')
    BY <1>2 DEF CreateMinted, CreateReattached, Continues, Daemon, IInv, ActorOK
  <2>. QED  BY <2>1, <2>2, SameFits, LosesNothing
<1>3. CASE CreateRefused \/ CreateFailed \/ CreateUncertain \/ ResumeFailed
  <2>1. exec.kind \in {"create", "resume"} /\ UNCHANGED <<host, lost>>
        /\ \E ambiguous \in BOOLEAN : OpenFailure(exec.lane, ambiguous)
    BY <1>3 DEF CreateRefused, CreateFailed, CreateUncertain, ResumeFailed, Creating, Resuming,
                Daemon, IInv, ActorOK, laneVars
  <2>. QED  BY <2>1, OpenFailureFits, LosesNothing
<1>4. CASE ReportCreated
  <2>1. exec.kind = "create" /\ lost' = lost /\ exec.lane \in Lanes /\ exec.gen \in Nat
    BY <1>4, OpeningWaits DEF ReportCreated, Daemon, IInv, ActorOK
  <2>2. bind[exec.lane].id \in Nat \ {0} /\ exec.absent \in BOOLEAN
    BY <1>4, <2>1 DEF ReportCreated, Daemon, Threads, IInv, ActorOK
  <2>3. CreateFits(chat, host, lost, exec) /\ PhasesFit(chat)
    BY DEF Linked, Shaped
  <2>4. chat.phase[exec.lane] # "resuming"
    BY <2>1, <2>3 DEF CreateFits, PhasesFit, Established
  <2>5. CASE bind[exec.lane].committed
    <3>1. PICK covered \in BOOLEAN :
            ReportOpened(CanOpen(chat, exec.lane, bind[exec.lane].id),
                         LaneOpened(chat, exec.lane, exec.gen, bind[exec.lane].id, covered))
      BY <1>4, <2>5 DEF ReportCreated
    <3>2. CASE CanOpen(chat, exec.lane, bind[exec.lane].id)
      <4>1. /\ chat' = LaneOpened(chat, exec.lane, exec.gen, bind[exec.lane].id, covered)
            /\ exec' = Idle /\ host' = [host EXCEPT ![exec.lane] = exec.gen]
        BY <3>1, <3>2 DEF ReportOpened, Return
      <4>2. Past(host, lost, exec.lane, exec.gen) /\ (FgLane(chat) = exec.lane => ~chat.running)
        BY <2>1, <2>3, OpeningWaits DEF CreateFits
      <4>. QED  BY <2>1, <2>2, <2>4, <3>2, <4>1, <4>2, LaneOpenedFits
    <3>3. CASE ~CanOpen(chat, exec.lane, bind[exec.lane].id)
      BY <2>1, <3>1, <3>3, ReportRefusedFits DEF ReportOpened
    <3>. QED  BY <3>2, <3>3
  <2>6. CASE ~bind[exec.lane].committed
    <3>1. ReportOpened(CanProvision(chat, exec.lane, bind[exec.lane].id, exec.absent),
                       LaneProvisioned(chat, exec.lane, exec.gen, bind[exec.lane].id, exec.absent))
      BY <1>4, <2>6 DEF ReportCreated
    <3>2. CASE CanProvision(chat, exec.lane, bind[exec.lane].id, exec.absent)
      <4>1. /\ chat' = LaneProvisioned(chat, exec.lane, exec.gen, bind[exec.lane].id, exec.absent)
            /\ exec' = Idle /\ host' = [host EXCEPT ![exec.lane] = exec.gen]
        BY <3>1, <3>2 DEF ReportOpened, Return
      <4>2. exec.lane \in Deferred
        BY <2>1, <2>2, <2>6 DEF Daemon, Bindings
      <4>. QED  BY <2>1, <2>2, <3>2, <4>1, <4>2, LaneProvisionedFits
    <3>3. CASE ~CanProvision(chat, exec.lane, bind[exec.lane].id, exec.absent)
      BY <2>1, <3>1, <3>3, ReportRefusedFits DEF ReportOpened
    <3>. QED  BY <3>2, <3>3
  <2>. QED  BY <2>5, <2>6
<1>5. CASE ReportResumed
  <2>1. exec.kind = "resume" /\ lost' = lost /\ exec.lane \in Lanes /\ exec.gen \in Nat
    BY <1>5, OpeningWaits DEF ReportResumed, Resuming, Daemon, IInv, ActorOK
  <2>2. ResumeFits(chat, exec) /\ PhasesFit(chat) /\ Hosted(chat, host, lost)
    BY DEF Linked, Shaped
  <2>3. chat.phase[exec.lane] = "resuming" /\ exec.gen = chat.gen[exec.lane]
    BY <2>1, <2>2 DEF ResumeFits
  <2>4. chat.thread[exec.lane] \in Nat \ {0}
    BY <2>1, <2>2, <2>3, ChatParts DEF PhasesFit, Established
  <2>5. PICK covered \in BOOLEAN :
          ReportOpened(CanOpen(chat, exec.lane, chat.thread[exec.lane]),
                       LaneOpened(chat, exec.lane, exec.gen, chat.thread[exec.lane], covered))
    BY <1>5 DEF ReportResumed
  <2>6. CASE CanOpen(chat, exec.lane, chat.thread[exec.lane])
    <3>1. /\ chat' = LaneOpened(chat, exec.lane, exec.gen, chat.thread[exec.lane], covered)
          /\ exec' = Idle /\ host' = [host EXCEPT ![exec.lane] = exec.gen]
      BY <2>5, <2>6 DEF ReportOpened, Return
    <3>2. Past(host, lost, exec.lane, exec.gen) /\ (FgLane(chat) = exec.lane => ~chat.running)
      BY <2>1, <2>2, <2>3, OpeningWaits DEF Hosted
    <3>. QED  BY <2>1, <2>3, <2>4, <2>6, <3>1, <3>2, LaneOpenedFits
  <2>7. CASE ~CanOpen(chat, exec.lane, chat.thread[exec.lane])
    BY <2>1, <2>5, <2>7, ReportRefusedFits DEF ReportOpened
  <2>. QED  BY <2>6, <2>7
<1>. QED  BY <1>1, <1>2, <1>3, <1>4, <1>5 DEF Opener

\* A start in hand whose input is the foreground still waits for its provider.
LEMMA InHandWaits ==
    ASSUME Daemon, exec.kind = "start", exec.at \in {"claimed", "calling"}, chat.fg = exec.op
    PROVE  /\ exec.op \in Ops /\ exec.lane \in Lanes /\ chat.fg # NoOp /\ FgLane(chat) = exec.lane
           /\ ~chat.running /\ chat.phase[exec.lane] # "resuming"
           /\ host[exec.lane] # 0 /\ chat.cand[exec.lane] # 0 =>
                \A i \in DOMAIN chat.outbox : ~PendingCreate(chat, exec.lane, i)
<1>1. StartFits(chat, host, exec) /\ Shaped(chat) /\ exec.op \in Ops /\ exec.lane \in Lanes
      /\ chat \in Placed
  BY DaemonProcess DEF Linked, Process
<1>2. InHand(chat, exec)
  BY DEF InHand
<1>3. PICK i \in Starts(chat, exec.op) : chat.outbox[i].lane = exec.lane
  BY <1>1 DEF StartFits
<1>4. FgLane(chat) = exec.lane
  BY <1>1, <1>3, NoOpIsNoOp, StartLane
<1>. QED  BY <1>1, <1>2, <1>4, NoOpIsNoOp DEF StartFits

\* The admission is committed.
LEMMA AdmissionFits ==
    ASSUME Daemon, Stepped, CommitAdmission
    PROVE  Fits'
<1>. USE DaemonProcess
<1>1. /\ exec.kind = "start" /\ exec.at = "calling" /\ host[exec.lane] # 0 /\ chat.fg = exec.op
      /\ chat' = TurnAdmitted(chat) /\ UNCHANGED <<host, lost>>
      /\ exec' = [exec EXCEPT !.at = "returning"]
  BY DEF CommitAdmission, Starting, Admissible
<1>2. /\ exec'.kind = "start" /\ exec'.at = "returning" /\ exec'.op = exec.op /\ exec'.lane = exec.lane
  BY <1>1 DEF Daemon, IInv, ActorOK
<1>3. Admitted(chat, chat') /\ Shaped(chat') /\ Carries(chat, chat')
  BY <1>1, InHandWaits, TurnAdmittedShaped
<1>4. Hosted(chat', host', lost')
  BY <1>1, <1>3, HostedPersists, LosesNothing DEF Linked, Stepped
<1>5. ResumeFits(chat', exec') /\ CreateFits(chat', host', lost', exec')
  BY <1>2 DEF ResumeFits, CreateFits
<1>6. StartFits(chat', host', exec')
  <2>1. PICK i \in Starts(chat, exec.op) : chat.outbox[i].lane = exec.lane
    BY <1>1 DEF Linked, StartFits
  <2>2. i \in Starts(chat', exec.op) /\ chat'.outbox[i].lane = exec.lane
    BY <1>3, <2>1 DEF Carries, Extends, Starts, SameEffect
  <2>. QED  BY <1>2, <2>2 DEF StartFits, InHand
<1>7. WaitFits(chat', host', lost')
  BY <1>3 DEF WaitFits, Waits, Admitted
<1>. QED  BY <1>3, <1>4, <1>5, <1>6, <1>7 DEF Fits, Linked

\* The steps that start a turn.
LEMMA StarterFits ==
    ASSUME Daemon, Stepped, Starter
    PROVE  Fits'
<1>. USE DaemonProcess
<1>1. CASE StartCalled
  <2>1. Continues(exec, exec')
    BY <1>1 DEF StartCalled, Continues, Daemon, IInv, ActorOK
  <2>. QED  BY <1>1, <2>1, SameFits, LosesNothing DEF StartCalled, laneVars
<1>2. CASE CommitAdmission
  BY <1>2, AdmissionFits
<1>3. CASE StartUnattached \/ AdmissionReturned \/ StartFailed \/ StartUncertain
  <2>1. exec' = Idle /\ UNCHANGED <<host, lost>>
    BY <1>3 DEF StartUnattached, AdmissionReturned, StartFailed, StartUncertain, Return, laneVars
  <2>2. Loses(host, lost, host', lost')
    BY <2>1, LosesNothing
  <2>3. Passes(chat, chat') => Fits'
    BY <2>1, <2>2, PassFits DEF Passes
  <2>4. CASE chat' = chat
    BY <2>1, <2>2, <2>4, SameFits
  <2>5. CASE chat' = TurnDeferred(chat, exec.op)
    BY <2>3, <2>5, TurnDeferredShaped
  <2>6. CASE /\ exec.kind = "start" /\ exec.at = "calling" /\ chat.fg = exec.op
             /\ chat' = TurnRefused(chat)
    <3>1. Apart(TurnRefused(chat))
      BY <2>6 DEF Stepped
    <3>. QED  BY <2>3, <2>6, <3>1, InHandWaits, TurnRefusedShaped
  <2>7. CASE /\ exec.kind = "start" /\ exec.at = "calling" /\ chat.fg = exec.op
             /\ chat' = TurnAmbiguous(chat)
    <3>1. Apart(TurnAmbiguous(chat))
      BY <2>7 DEF Stepped
    <3>. QED  BY <2>3, <2>7, <3>1, InHandWaits, TurnAmbiguousShaped
  <2>8. CASE StartUnattached \/ AdmissionReturned
    BY <2>4, <2>5, <2>8 DEF StartUnattached, AdmissionReturned
  <2>9. CASE StartFailed
    BY <2>4, <2>5, <2>6, <2>9 DEF StartFailed, Starting
  <2>10. CASE StartUncertain
    BY <2>7, <2>10 DEF StartUncertain, Starting, Admissible
  <2>. QED  BY <1>3, <2>8, <2>9, <2>10
<1>. QED  BY <1>1, <1>2, <1>3 DEF Starter

\* A busy worker has an operation of its lane, which is attached: the running
\* foreground, or on a failing lane one that the failure has settled.
LEMMA BusyWorker ==
    ASSUME Daemon, NEW l \in Lanes, worker[l].at # "none"
    PROVE  /\ host[l] # 0 /\ worker[l].op \in Ops /\ chat.lane[worker[l].op] = l
           /\ \/ Runs(chat, l, worker[l].op)
              \/ failing[l] # "no" /\ Abandoned(chat, l, worker[l].op)
<1>1. host[l] # 0 /\ \/ Runs(chat, l, worker[l].op)
                     \/ failing[l] # "no" /\ Abandoned(chat, l, worker[l].op)
  BY DEF Daemon, Delivered, Busy, Threads
<1>2. Owned(chat)
  BY DEF Daemon
<1>. QED  BY <1>1, <1>2 DEF Runs, Abandoned, FgLane, Owned

\* The receipt of the running foreground.
LEMMA ConsumedFits ==
    ASSUME Daemon, Stepped, chat.running, NEW t \in Nat, CanConsume(chat, chat.fg, t),
           chat' = InputConsumed(chat, t), UNCHANGED <<host, lost, exec>>
    PROVE  Fits'
<1>. DEFINE c == chat
            d == chat'
            l == FgLane(chat)
<1>1. /\ c \in Placed /\ d \in Placed /\ Shaped(c) /\ Process(host, lost, exec)
      /\ Linked(c, host, lost, exec) /\ c.running /\ CanConsume(c, c.fg, t)
      /\ d = InputConsumed(c, t)
  BY DaemonProcess DEF Stepped
<1>. HIDE DEF c, d
<1>2. Receipted(c, d, t) /\ Shaped(d)
  BY <1>1, InputConsumedShaped
<1>3. /\ d.gen = c.gen /\ d.cgen = c.cgen /\ d.fg = c.fg /\ d.lane = c.lane /\ d.running /\ d.consumed
      /\ Fades(c.outbox, d.outbox) /\ DOMAIN d.outbox = DOMAIN c.outbox /\ FgLane(d) = FgLane(c)
  BY <1>2 DEF Receipted, FgLane
<1>4. c.fg # NoOp /\ l \in Lanes /\ l = FgLane(c)
  <2>1. c.fg # NoOp
    BY <1>1 DEF Shaped, ForegroundFits
  <2>. QED  BY <1>1, <2>1, ChatParts DEF c
<1>. HIDE DEF l
<1>5. d.phase[l] = "running" /\ d.thread[l] # 0
  <2>1. d.phase[l] = "running"
    BY <1>2, <1>3, <1>4 DEF Shaped, ForegroundFits
  <2>. QED  BY <1>2, <1>4, <2>1 DEF Shaped, PhasesFit, Established
<1>6. \A k \in Lanes \ {l} : d.phase[k] = c.phase[k] /\ d.thread[k] = c.thread[k]
  BY <1>2, <1>4 DEF Receipted
<1>7. c.phase[l] # "resuming"
  BY <1>1, <1>4 DEF Shaped, ForegroundFits
<1>8. ASSUME NEW k \in Lanes, NEW i \in DOMAIN d.outbox, PendingCreate(d, k, i)
      PROVE  PendingCreate(c, k, i) /\ i \in DOMAIN c.outbox /\ d.outbox[i].gen = c.outbox[i].gen
  BY <1>3, <1>8 DEF PendingCreate, Fades, Extends, SameEffect, Opening
<1>9. Hosted(d, host, lost)
  <2>1. Hosted(c, host, lost)
    BY <1>1 DEF Linked
  <2>2. \A k \in Lanes : d.phase[k] = "resuming" => c.phase[k] = "resuming"
    BY <1>5, <1>6
  <2>3. \A k \in Lanes : d.thread[k] = 0 => c.thread[k] = 0
    BY <1>5, <1>6
  <2>. QED  BY <1>3, <1>8, <2>1, <2>2, <2>3 DEF Hosted
<1>10. ResumeFits(d, exec)
  <2>. SUFFICES ASSUME exec.kind = "resume"
                PROVE  d.phase[exec.lane] = "resuming" /\ exec.gen = d.gen[exec.lane]
    BY DEF ResumeFits
  <2>1. c.phase[exec.lane] = "resuming" /\ exec.gen = c.gen[exec.lane] /\ exec.lane \in Lanes
    BY <1>1 DEF Linked, ResumeFits, Process
  <2>. QED  BY <1>3, <1>6, <1>7, <2>1
<1>11. CreateFits(d, host, lost, exec)
  <2>. SUFFICES ASSUME exec.kind = "create"
                PROVE  /\ d.thread[exec.lane] = 0 /\ exec.gen <= d.cgen[exec.lane]
                       /\ Past(host, lost, exec.lane, exec.gen)
                       /\ \A i \in DOMAIN d.outbox : PendingCreate(d, exec.lane, i) =>
                            exec.gen < d.outbox[i].gen
                       /\ FgLane(d) # exec.lane
    BY DEF CreateFits
  <2>1. /\ c.thread[exec.lane] = 0 /\ exec.gen <= c.cgen[exec.lane] /\ exec.lane \in Lanes
        /\ Past(host, lost, exec.lane, exec.gen)
        /\ \A i \in DOMAIN c.outbox : PendingCreate(c, exec.lane, i) => exec.gen < c.outbox[i].gen
        /\ FgLane(c) # exec.lane
    BY <1>1 DEF Linked, CreateFits, Process
  <2>. QED  BY <1>3, <1>4, <1>6, <1>8, <2>1
<1>12. StartFits(d, host, exec)
  <2>1. exec.kind = "start" => \E i \in Starts(c, exec.op) : c.outbox[i].lane = exec.lane
    BY <1>1 DEF Linked, StartFits
  <2>2. exec.kind = "start" => \E i \in Starts(d, exec.op) : d.outbox[i].lane = exec.lane
    BY <1>3, <2>1 DEF Fades, Extends, Starts, SameEffect
  <2>3. ~InHand(d, exec)
    BY <1>1, <1>3 DEF Linked, StartFits, InHand
  <2>. QED  BY <2>2, <2>3 DEF StartFits
<1>13. WaitFits(d, host, lost)
  BY <1>3 DEF WaitFits, Waits
<1>. QED  BY <1>2, <1>9, <1>10, <1>11, <1>12, <1>13 DEF Fits, Linked, d

\* The worker of a turn.
LEMMA WorkerFits ==
    ASSUME Daemon, Stepped, NEW l \in Lanes, Worker(l)
    PROVE  Fits'
<1>. USE DaemonProcess
<1>1. worker[l].at # "none"
  BY DEF Worker, WritePrompt, TakeInput, ConfirmInput, EndTurn
<1>2. UNCHANGED <<lost, exec>>
  BY DEF Worker, WritePrompt, TakeInput, ConfirmInput, EndTurn, drainVars
<1>3. CASE WritePrompt(l) \/ TakeInput(l)
  BY <1>3, SameFits, LosesNothing DEF WritePrompt, TakeInput, drainVars
<1>4. CASE ProtocolFailed(l)
  BY <1>1, <1>2, <1>4, BusyWorker, ProtocolFits
<1>5. ASSUME ConfirmInput(l) \/ EndTurn(l)
      PROVE  chat.running /\ chat.fg = worker[l].op /\ chat.fg # NoOp
  BY <1>1, <1>5, BusyWorker DEF ConfirmInput, EndTurn, Runs
<1>6. CASE ConfirmInput(l) /\ ~ProtocolFailed(l)
  <2>. DEFINE t == IF chat.cand[l] = 0 THEN 0 ELSE bind[l].id
  <2>1. CanConsume(chat, worker[l].op, t) /\ chat' = InputConsumed(chat, t) /\ UNCHANGED host
    BY <1>6 DEF ConfirmInput, Event
  <2>2. t \in Nat
    BY DEF Daemon, IInv, ActorOK
  <2>. HIDE DEF t
  <2>. QED  BY <1>2, <1>5, <1>6, <2>1, <2>2, ConsumedFits
<1>7. CASE EndTurn(l) /\ ~ProtocolFailed(l)
  <2>1. PICK interrupted \in {FALSE, closing}, covered \in BOOLEAN :
          chat' = TurnTerminated(chat, interrupted, covered)
    BY <1>7 DEF EndTurn, Event
  <2>2. interrupted \in BOOLEAN /\ UNCHANGED host
    BY <1>7 DEF EndTurn, Daemon, IInv, ActorOK
  <2>3. Apart(TurnTerminated(chat, interrupted, covered))
    BY <2>1 DEF Stepped
  <2>4. Passes(chat, chat') /\ Steady(chat, chat')
    BY <1>5, <1>7, <2>1, <2>2, <2>3, TurnTerminatedShaped
  <2>. QED  BY <1>2, <2>2, <2>4, CommandFits
<1>. QED  BY <1>3, <1>4, <1>6, <1>7 DEF Worker

\* The faults of a lane.
LEMMA BreaksFits ==
    ASSUME Daemon, Stepped, NEW l \in Lanes, Breaks(l)
    PROVE  Fits'
<1>. USE DaemonProcess
<1>1. host[l] # 0 /\ UNCHANGED exec /\ Continues(exec, exec')
  BY LosesNothing DEF Breaks, DetachLane, StreamClosed, CloseStream, EventRefused, HealthFailed, Current,
                      drainVars
<1>2. CASE DetachLane(l)
  <2>1. Loses(host, lost, host', lost') /\ host'[l] = 0
    BY <1>1, <1>2, LosesOne DEF DetachLane, Release, Process
  <2>2. CASE Current(l)
    <3>1. chat' = HostLost(chat, l, host[l]) /\ host[l] = chat.gen[l]
      BY <1>2, <2>2 DEF DetachLane, Event, Detached, Current
    <3>. QED  BY <1>1, <2>1, <3>1, LossFits
  <2>3. CASE ~Current(l)
    BY <1>1, <1>2, <2>1, <2>3, SameFits DEF DetachLane
  <2>. QED  BY <2>2, <2>3
<1>3. CASE StreamClosed(l)
  <2>1. Loses(host, lost, host', lost')
    BY <1>1, <1>3, LosesOne DEF StreamClosed, CloseStream, Release, Process
  <2>. QED  BY <1>1, <1>3, <2>1, SameFits DEF StreamClosed, CloseStream
<1>4. CASE EventRefused(l)
  BY <1>1, <1>4, ProtocolFits DEF EventRefused
<1>5. CASE HealthFailed(l)
  <2>1. /\ chat' = LaneUnhealthy(chat, l) /\ host[l] = chat.gen[l]
        /\ UNCHANGED <<host, lost, exec>>
    BY <1>5 DEF HealthFailed, Event, Current
  <2>2. chat.phase[l] # "resuming"
    BY <1>1, <2>1, CurrentLane
  <2>3. Passes(chat, chat') /\ Steady(chat, chat')
    BY <2>1, <2>2, LaneUnhealthyShaped DEF Stepped
  <2>. QED  BY <2>1, <2>3, CommandFits
<1>. QED  BY <1>2, <1>3, <1>4, <1>5 DEF Breaks

\* The attachment of a failing lane comes down.
LEMMA TeardownFits ==
    ASSUME Daemon, Stepped, NEW l \in Lanes, Teardown(l)
    PROVE  Fits'
<1>. USE DaemonProcess
<1>1. /\ chat' = chat /\ UNCHANGED exec /\ host' = [host EXCEPT ![l] = 0]
      /\ lost' \in {lost, lost \union {<<l, host[l]>>}}
  BY DEF Teardown, CloseStream, Release, drainVars
<1>2. Loses(host, lost, host', lost')
  <2>1. host[l] # 0 /\ host \in [Lanes -> Nat]
    BY DEF Teardown, Daemon, Threads, Process
  <2>2. /\ Loses(host, lost, host', lost)
        /\ Loses(host, lost, host', lost \union {<<l, host[l]>>})
    BY <1>1, <2>1, LosesOne
  <2>. QED  BY <1>1, <2>2
<1>3. chat' = chat /\ Continues(exec, exec')
  BY <1>1, LosesNothing
<1>. QED  BY <1>2, <1>3, SameFits

\* The loss of a closed event stream is committed: if its generation is still
\* current, nothing was attached since.
LEMMA LossCommittedFits ==
    ASSUME Daemon, Stepped, NEW loss \in lost, LossCommitted(loss)
    PROVE  Fits'
<1>. USE DaemonProcess
<1>1. /\ loss = <<loss[1], loss[2]>> /\ loss[1] \in Lanes /\ loss[2] \in Nat
      /\ lost' = lost \ {loss} /\ UNCHANGED <<host, exec>>
      /\ chat' = HostLost(chat, loss[1], loss[2])
  BY DEF LossCommitted, Event, Process, laneVars
<1>2. Loses(host, lost, host', lost') /\ Continues(exec, exec')
  BY <1>1, LosesNothing DEF Loses
<1>3. host[loss[1]] \in Nat /\ chat.gen[loss[1]] \in Nat /\ Hosted(chat, host, lost)
  BY <1>1, ChatParts DEF Linked, Process
<1>4. loss[2] = chat.gen[loss[1]] => host'[loss[1]] = 0 /\ <<loss[1], chat.gen[loss[1]]>> \in lost
  BY <1>1, <1>3 DEF Hosted
<1>. QED  BY <1>1, <1>2, <1>4, LossFits

\* A restart that can be saved: nothing is attached, nothing in hand.
LEMMA RestartFits ==
    ASSUME Daemon, Stepped, Restart
    PROVE  Fits'
<1>1. PICK order \in Orders(NeedsEffect(Reread(chat))) :
        chat' = RecoverOutbox(chat, order) /\ Valid(chat')
  BY DEF Restart
<1>2. Shaped(chat')
  <2>1. Apart(RecoverOutbox(chat, order)) /\ Valid(RecoverOutbox(chat, order))
    BY <1>1 DEF Stepped
  <2>. QED  BY <1>1, <2>1, DaemonProcess, RecoverOutboxShaped
<1>3. host' = [l \in Lanes |-> 0] /\ lost' = {} /\ exec' = Idle
  BY DEF Restart
<1>4. Hosted(chat', host', lost')
  BY <1>3 DEF Hosted, Past
<1>5. WaitFits(chat', host', lost')
  <2>1. Waits(chat') => FgLane(chat') \in Lanes
    BY ChatParts DEF Waits, Stepped
  <2>. QED  BY <1>3, <2>1 DEF WaitFits
<1>. QED  BY <1>2, <1>3, <1>4, <1>5, IdleLinked DEF Fits

\* Every step keeps the shape of the chat and its link to the process.
LEMMA NextFits ==
    ASSUME Daemon, Stepped, [Next]_vars
    PROVE  Fits'
<1>1. CASE UNCHANGED vars
  BY <1>1 DEF Daemon, Fits, vars
<1>2. CASE DrainSettled
  BY <1>2, SameFits, LosesNothing, DaemonProcess DEF DrainSettled, laneVars
<1>3. CASE Close
  BY <1>3, SameFits, LosesNothing, DaemonProcess DEF Close, drainVars, laneVars
<1>. QED  BY <1>1, <1>2, <1>3, UsersFits, ClaimFits, OpenerFits, StarterFits, WorkerFits, BreaksFits,
             TeardownFits, LossCommittedFits, RestartFits
          DEF Next, Drainer

\* A binding that is not committed is that of a deferred lane.
LEMMA NextBindings ==
    ASSUME Daemon, [Next]_vars
    PROVE  Bindings'
<1>. USE DEF Daemon, IInv, ActorOK
<1>1. CASE UNCHANGED bind
  BY <1>1 DEF Bindings
<1>2. CASE CreateMinted
  <2>1. bind' = [bind EXCEPT ![exec.lane] = [id |-> minted[exec.lane] + 1, committed |-> exec.lane \notin Deferred]]
    BY <1>2 DEF CreateMinted
  <2>. QED  BY <2>1 DEF Bindings
<1>3. CASE CreateReattached
  <2>1. bind' = [bind EXCEPT ![exec.lane].committed = TRUE]
    BY <1>3 DEF CreateReattached
  <2>. QED  BY <2>1 DEF Bindings
<1>4. CASE CreateUncertain
  <2>1. bind' = [bind EXCEPT ![exec.lane] = [id |-> 0, committed |-> FALSE]]
    BY <1>4 DEF CreateUncertain
  <2>. QED  BY <2>1 DEF Bindings
<1>5. ASSUME NEW l \in Lanes, TakeInput(l)  PROVE Bindings'
  <2>1. bind' = [bind EXCEPT ![l].committed = TRUE]
    BY <1>5 DEF TakeInput
  <2>. QED  BY <2>1 DEF Bindings
<1>6. CASE UNCHANGED vars
  BY <1>6, <1>1 DEF vars
<1>7. CASE Users \/ Stopper
  BY <1>1, <1>7 DEF Users, Stopper, Select, SubmitInput, WithdrawInput, Stop, Command, ClaimStop,
                    StopDelivered, StopRejected, nativeVars
<1>8. CASE Opener
  <2>1. CASE RetireAttachment \/ CreateRefused \/ CreateFailed \/ ReportCreated \/ ReportResumed
             \/ ResumeFailed
    BY <1>1, <2>1 DEF RetireAttachment, CreateRefused, CreateFailed, ReportCreated, ReportResumed,
                      ResumeFailed, nativeVars
  <2>. QED  BY <1>2, <1>3, <1>4, <1>8, <2>1 DEF Opener
<1>9. CASE Starter \/ Claim \/ DrainSettled
  BY <1>1, <1>9 DEF Starter, StartUnattached, StartCalled, CommitAdmission, AdmissionReturned, StartFailed,
                    StartUncertain, Claim, DrainSettled, nativeVars
<1>10. ASSUME NEW l \in Lanes, Worker(l) \/ Breaks(l) \/ Teardown(l)  PROVE Bindings'
  <2>1. CASE WritePrompt(l) \/ ConfirmInput(l) \/ EndTurn(l) \/ Breaks(l) \/ Teardown(l)
    BY <1>1, <2>1 DEF WritePrompt, ConfirmInput, EndTurn, Breaks, DetachLane, StreamClosed, CloseStream,
                      EventRefused, HealthFailed, Teardown, nativeVars
  <2>. QED  BY <1>5, <1>10, <2>1 DEF Worker
<1>11. CASE (\E loss \in lost : LossCommitted(loss)) \/ Close \/ Restart
  BY <1>1, <1>11 DEF LossCommitted, Close, Restart, nativeVars
<1>. QED  BY <1>6, <1>7, <1>8, <1>9, <1>10, <1>11 DEF Next, Drainer

(***************************************************************************)
(* The steps of the daemon keep its deliveries in order.                   *)
(***************************************************************************)
\* A step of the chat is one that InputDelivery promises, or none of its.
Promised == [Delivery!Next]_(Delivery!vars)
Onward == Delivered(chat', worker', failing', sent') /\ Promised

\* The inputs q wait, and then drive may start the first one.
LEMMA DrivesPromote ==
    ASSUME NEW m, Drives(m, chat'), m.queue \in Seq(Ops)
    PROVE  Delivery!Promote(m.queue, m.fg)
BY DEF Drives, Same, Stays, Begins, Delivery!Promote

\* An operation without a lane is not known yet.
LEMMA UnknownOp ==
    ASSUME Owned(chat), NEW op \in Ops, chat.lane[op] = NoLane
    PROVE  ~Delivery!Known(op)
<1>1. DOMAIN chat.queue = 1 .. Len(chat.queue)
  BY DEF Owned
<1>. QED  BY <1>1, NoOpIsNoOp DEF Owned, Delivery!Known, Delivery!Waits

\* Every move of the daemon is one that InputDelivery promises.
LEMMA LeadsPromised ==
    ASSUME Daemon, Leads(chat, chat'), sent' = sent
    PROVE  Promised
<1>1. Owned(chat) /\ Ledger(chat, sent) /\ chat.queue \in Seq(Ops) /\ chat.fate \in [Ops -> Fates]
      /\ DOMAIN chat.queue = 1 .. Len(chat.queue)
  BY DEF Daemon, Delivered, Owned
<1>2. ASSUME Drives(chat, chat')  PROVE Promised
  BY <1>1, <1>2 DEF Drives, Same, Stays, Begins, Promised, Delivery!vars, Delivery!Next, Delivery!Proceed
<1>3. ASSUME Replays(chat, chat')  PROVE Promised
  BY <1>3 DEF Replays, Stays, Promised, Delivery!vars
<1>4. ASSUME NEW i \in Inputs, NEW l \in Lanes, Accepts(chat, chat', <<i, 0>>, l)
      PROVE  Promised
  <2>1. PICK m : Joins(chat, m, <<i, 0>>, l) /\ Drives(m, chat')
    BY <1>4 DEF Accepts
  <2>2. <<i, 0>> \in Ops
    BY ChatAssumption DEF Ops
  <2>3. m.queue = Append(chat.queue, <<i, 0>>) /\ m.fg = chat.fg /\ m.fate = chat.fate
        /\ m.queue \in Seq(Ops)
    BY <1>1, <2>1, <2>2 DEF Joins
  <2>4. Delivery!Promote(Append(chat.queue, <<i, 0>>), chat.fg)
    BY <2>1, <2>3, DrivesPromote
  <2>5. ~Delivery!Known(<<i, 0>>)
    BY <1>1, <2>1, <2>2, UnknownOp DEF Joins
  <2>6. chat'.fate = chat.fate
    BY <2>1, <2>3 DEF Drives, Same, Stays, Begins
  <2>7. Delivery!Accept(i)
    BY <2>4, <2>5, <2>6 DEF Delivery!Accept
  <2>. QED  BY <2>7 DEF Promised, Delivery!Next
<1>5. ASSUME NEW f \in {"refused", "withdrawn"}, SettlesWaiting(chat, chat', f)
      PROVE  Promised
  <2>1. PICK m, i : Drops(chat, m, i, f) /\ Drives(m, chat')
    BY <1>5 DEF SettlesWaiting
  <2>2. /\ i \in 1 .. Len(chat.queue) /\ m.queue = RemoveFirst(chat.queue, i) /\ m.fg = chat.fg
        /\ m.fate = [chat.fate EXCEPT ![chat.queue[i]] = f]
    BY <2>1 DEF Drops
  <2>3. chat.queue[i] \in Ops /\ chat.queue[i] # chat.fg /\ chat.fate[chat.queue[i]] = "open"
    BY <1>1, <2>2 DEF Owned
  <2>4. sent[chat.queue[i]] = 0
    BY <1>1, <2>3 DEF Ledger
  <2>5. chat'.fate = m.fate
    BY <2>1 DEF Drives, Same, Stays, Begins
  <2>6. Owned(m)
    BY <1>1, <2>1, DropsOwned, FatesClosed
  <2>7. Delivery!Promote(RemoveFirst(chat.queue, i), chat.fg)
    BY <2>1, <2>2, <2>6, DrivesPromote DEF Owned
  <2>8. Delivery!SettleWaiting(i, f)
    BY <2>2, <2>3, <2>4, <2>5, <2>7
       DEF Delivery!SettleWaiting, Delivery!Settle, Delivery!Without, RemoveFirst
  <2>. QED  BY <1>1, <2>2, <2>8 DEF Promised, Delivery!Next
<1>6. ASSUME NEW f \in Settlements(chat), chat.fg # NoOp
      PROVE  /\ f \in {"answered", "presumed", "interrupted", "uncertain", "refused", "withdrawn"}
             /\ f \in {"refused", "withdrawn"} => sent[chat.fg] = 0
             /\ f \in {"answered", "interrupted"} => sent[chat.fg] = 1
             /\ chat.fate[chat.fg] = "open" /\ chat.fg \in Ops
  BY <1>1, <1>6 DEF Settlements, Closed, Fates, Ledger, Owned
<1>7. ASSUME NEW f \in Settlements(chat), Settles(chat, chat', f)
      PROVE  Promised
  <2>1. PICK m : Ends(chat, m, f) /\ Drives(m, chat')
    BY <1>7 DEF Settles
  <2>2. chat.fg # NoOp /\ m.fg = NoOp /\ m.queue = chat.queue /\ m.fate = [chat.fate EXCEPT ![chat.fg] = f]
    BY <2>1 DEF Ends
  <2>3. Delivery!Promote(chat.queue, NoOp)
    BY <1>1, <2>1, <2>2, DrivesPromote
  <2>4. chat'.fate = [chat.fate EXCEPT ![chat.fg] = f]
    BY <2>1, <2>2 DEF Drives, Same, Stays, Begins
  <2>5. Delivery!SettleOwner(f)
    BY <1>6, <2>2, <2>3, <2>4 DEF Delivery!SettleOwner, Delivery!Settle
  <2>. QED  BY <1>6, <2>2, <2>5 DEF Promised, Delivery!Next
<1>8. ASSUME NEW f \in Settlements(chat), f \notin {"refused", "withdrawn"},
             SettlesReturning(chat, chat', f)
      PROVE  Promised
  <2>. DEFINE next == <<chat.fg[1], chat.fg[2] + 1>>
  <2>1. PICK m : Returns(chat, m) /\ Settles(m, chat', f)
    BY <1>8 DEF SettlesReturning
  <2>2. PICK k : Ends(m, k, f) /\ Drives(k, chat')
    BY <2>1 DEF Settles
  <2>3. /\ chat.fg # NoOp /\ chat.fg[1] \in Notices /\ chat.fg[2] < RedeliveryLimit
        /\ chat.lane[next] = NoLane /\ m.queue = <<next>> \o chat.queue /\ m.fg = chat.fg
        /\ m.fate = chat.fate
    BY <2>1 DEF Returns, NextAttempt
  <2>4. chat.fg \in Ops /\ next \in Ops
    <3>1. chat.fg \in Ops
      BY <1>6, <2>3
    <3>. QED  BY <2>3, <3>1, ChatAssumption DEF Ops
  <2>. HIDE DEF next
  <2>5. k.fg = NoOp /\ k.queue = <<next>> \o chat.queue /\ k.fate = [chat.fate EXCEPT ![chat.fg] = f]
    BY <2>2, <2>3 DEF Ends
  <2>6. k.queue \in Seq(Ops)
    BY <1>1, <2>4, <2>5
  <2>7. Delivery!Promote(<<next>> \o chat.queue, NoOp)
    BY <2>2, <2>5, <2>6, DrivesPromote
  <2>8. ~Delivery!Known(next)
    BY <1>1, <2>3, <2>4, UnknownOp
  <2>9. chat'.fate = [chat.fate EXCEPT ![chat.fg] = f]
    BY <2>2, <2>5 DEF Drives, Same, Stays, Begins
  <2>10. Delivery!Settle(chat.fg, f)
    BY <1>6, <2>3, <2>9 DEF Delivery!Settle
  <2>11. Delivery!SettleOwner(f)
    BY <1>8, <2>3, <2>7, <2>8, <2>10 DEF Delivery!SettleOwner, next
  <2>. QED  BY <1>6, <2>3, <2>11 DEF Promised, Delivery!Next
<1>. QED  BY <1>2, <1>3, <1>4, <1>5, <1>7, <1>8 DEF Leads, Steers

LEMMA LeadsDeliver ==
    ASSUME Daemon, Leads(chat, chat'), Releases(worker, failing, worker', failing'), sent' = sent,
           \/ Steers(chat, chat') \/ ~chat.running
           \/ \E l \in Lanes : FgLane(chat) = l /\ worker'[l] = Nobody
           \/ FailureCuts(chat, chat', failing')
    PROVE  Onward
BY DeliveryLeads, LeadsPromised DEF Daemon, Onward

LEMMA SameDeliver ==
    ASSUME Daemon, Same(chat, chat') \/ chat' = chat, Releases(worker, failing, worker', failing'),
           sent' = sent
    PROVE  Onward
<1>1. Steers(chat, chat')
  BY DEF Steers, Drives, Same, Stays
<1>. QED  BY <1>1, LeadsDeliver DEF Leads

\* Workers that stay, while lanes may begin to fail.
LEMMA ReleasesNothing ==
    ASSUME NEW w, NEW z
    PROVE  Releases(w, z, w, z)
BY DEF Releases

\* A worker that ends, with its attachment or before it.
LEMMA ReleasesOne ==
    ASSUME Daemon, NEW l \in Lanes, worker' = [worker EXCEPT ![l] = Nobody],
           failing' = failing \/ \E v : failing' = [failing EXCEPT ![l] = v]
    PROVE  Releases(worker, failing, worker', failing') /\ worker'[l] = Nobody
<1>1. worker'[l] = Nobody /\ \A k \in Lanes \ {l} : worker'[k] = worker[k] /\ failing'[k] = failing[k]
  BY DEF Daemon, IInv, ActorOK
<1>. QED  BY <1>1 DEF Releases

\* The fates that the steps settle a foreground with.
LEMMA SettlementFacts ==
    ASSUME NEW c
    PROVE  /\ CutFate(c) \in Settlements(c) /\ {"presumed", "uncertain"} \subseteq Settlements(c)
           /\ CutFate(c) \notin {"refused", "withdrawn"}
           /\ c.consumed => "answered" \in Settlements(c)
           /\ ~c.running => {"refused", "withdrawn"} \subseteq Settlements(c)
BY FatesClosed DEF Settlements, CutFate

\* Where a foreground was, there is its lane.
LEMMA CutLane ==
    ASSUME NEW c \in Placed, NEW d, NEW f, Settles(c, d, f) \/ SettlesReturning(c, d, f)
    PROVE  c.fg # NoOp /\ FgLane(c) \in Lanes
<1>1. c.fg # NoOp
  BY DEF Settles, SettlesReturning, Ends, Returns
<1>. QED  BY <1>1, ChatParts

\* The commands of the user and the Stop executor.
LEMMA UsersDeliver ==
    ASSUME Daemon, Users \/ Stopper
    PROVE  Onward
<1>1. Releases(worker, failing, worker', failing') /\ sent' = sent
  BY ReleasesNothing DEF Users, Stopper, Select, SubmitInput, WithdrawInput, Stop, Command, ClaimStop,
         StopDelivered, StopRejected, nativeVars, laneVars
<1>2. chat \in Placed /\ Apart(chat)
  BY DaemonProcess, OwnedApart DEF Daemon
<1>3. ASSUME NEW l \in Lanes, Select(l)  PROVE Onward
  <2>1. PICK covered \in BOOLEAN : chat' = SelectLane(chat, l, covered)
    BY <1>3 DEF Select, Command
  <2>. QED  BY <1>1, <1>2, <2>1, SelectLaneMoves, LeadsDeliver DEF Leads, Steers
<1>4. ASSUME NEW i \in Inputs, NEW l \in Lanes, SubmitInput(i, l)  PROVE Onward
  <2>1. <<i, 0>> \in Ops
    BY ChatAssumption DEF Ops
  <2>2. CanSubmit(chat, <<i, 0>>, l) /\ chat' = Submit(chat, <<i, 0>>, l, TRUE)
    BY <1>4 DEF SubmitInput, Command
  <2>3. Accepts(chat, chat', <<i, 0>>, l)
    BY <1>2, <2>1, <2>2, SubmitMoves
  <2>. QED  BY <1>1, <2>3, LeadsDeliver DEF Leads, Steers
<1>5. ASSUME NEW op \in Ops, WithdrawInput(op)  PROVE Onward
  <2>1. PICK covered \in BOOLEAN : CanWithdraw(chat, op) /\ chat' = Withdraw(chat, op, covered)
    BY <1>5 DEF WithdrawInput, Command
  <2>2. \/ ~chat.running /\ Settles(chat, chat', "withdrawn")
        \/ SettlesWaiting(chat, chat', "withdrawn")
    BY <1>2, <2>1, WithdrawMoves DEF Apart
  <2>3. CASE ~chat.running /\ Settles(chat, chat', "withdrawn")
    BY <1>1, <2>3, SettlementFacts, LeadsDeliver DEF Leads
  <2>4. CASE SettlesWaiting(chat, chat', "withdrawn")
    BY <1>1, <2>4, LeadsDeliver DEF Leads, Steers
  <2>. QED  BY <2>2, <2>3, <2>4
<1>6. CASE Stop \/ StopDelivered \/ StopRejected
  BY <1>1, <1>2, <1>6, StopMoves, SameDeliver DEF Stop, Command, StopDelivered, StopRejected
<1>7. CASE ClaimStop
  BY <1>1, <1>2, <1>7, OutboxSame, SameDeliver DEF ClaimStop
<1>. QED  BY <1>3, <1>4, <1>5, <1>6, <1>7 DEF Users, Stopper

\* HostLost of an attachment whose worker, if it had one, ended.
LEMMA LossDeliver ==
    ASSUME Daemon, NEW l \in Lanes, NEW g, chat' = HostLost(chat, l, g),
           Releases(worker, failing, worker', failing'), sent' = sent,
           g = chat.gen[l] => worker'[l] = Nobody
    PROVE  Onward
<1>1. \/ Drives(chat, chat')
      \/ g = chat.gen[l] /\ FgLane(chat) = l /\ Cuts(chat, chat')
  BY DaemonProcess, HostLostMoves
<1>2. CASE Drives(chat, chat')
  BY <1>2, LeadsDeliver DEF Leads, Steers
<1>3. CASE g = chat.gen[l] /\ FgLane(chat) = l /\ Cuts(chat, chat')
  BY <1>3, SettlementFacts, LeadsDeliver DEF Leads, Cuts
<1>. QED  BY <1>1, <1>2, <1>3

\* A failure that is committed cuts the turn of its lane; the worker is left to
\* run on.
LEMMA FailureDeliver ==
    ASSUME Daemon, NEW l \in Lanes, NEW how \in Failures \ {"no"},
           failing' = [failing EXCEPT ![l] = how], sent' = sent,
           worker' = worker \/ worker' = [worker EXCEPT ![l] = Nobody],
           Drives(chat, chat') \/ (FgLane(chat) = l /\ Settles(chat, chat', CutFate(chat)))
    PROVE  Onward
<1>1. failing'[l] # "no" /\ \A k \in Lanes \ {l} : failing'[k] = failing[k]
  BY DEF Daemon, IInv, ActorOK
<1>2. worker' = worker => Releases(worker, failing, worker', failing')
  BY <1>1 DEF Releases
<1>3. Releases(worker, failing, worker', failing')
  <2>1. CASE worker' = [worker EXCEPT ![l] = Nobody]
    <3>1. worker'[l] = Nobody /\ \A k \in Lanes \ {l} : worker'[k] = worker[k]
      BY <2>1 DEF Daemon, IInv, ActorOK
    <3>. QED  BY <1>1, <3>1 DEF Releases
  <2>. QED  BY <1>2, <2>1
<1>4. CASE Drives(chat, chat')
  BY <1>3, <1>4, LeadsDeliver DEF Leads, Steers
<1>5. CASE FgLane(chat) = l /\ Settles(chat, chat', CutFate(chat))
  <2>1. FailureCuts(chat, chat', failing')
    BY <1>1, <1>5 DEF FailureCuts
  <2>2. Leads(chat, chat')
    BY <1>5, SettlementFacts DEF Leads
  <2>. QED  BY <1>3, <2>1, <2>2, LeadsDeliver
<1>. QED  BY <1>4, <1>5

\* LaneProtocolFailed: nothing but the chat hears of it yet.
LEMMA ProtocolDeliver ==
    ASSUME Daemon, NEW l \in Lanes, ProtocolFailed(l), sent' = sent,
           worker' = worker \/ worker' = [worker EXCEPT ![l] = Nobody]
    PROVE  Onward
<1>1. chat' = LaneProtocolFailed(chat, l, host[l]) /\ failing' = [failing EXCEPT ![l] = "protocol"]
  BY DEF ProtocolFailed
<1>2. \/ Drives(chat, chat')
      \/ FgLane(chat) = l /\ Settles(chat, chat', CutFate(chat))
  BY <1>1, DaemonProcess, LaneProtocolFailedMoves
<1>. QED  BY <1>1, <1>2, FailureDeliver DEF Failures

\* A failed open call refuses an input that waits.
LEMMA OpenFailureDeliver ==
    ASSUME Daemon, NEW l \in Lanes, NEW ambiguous \in BOOLEAN, OpenFailure(l, ambiguous),
           UNCHANGED <<worker, failing, sent>>
    PROVE  Onward
<1>1. Releases(worker, failing, worker', failing') /\ chat \in Placed
  BY ReleasesNothing, DaemonProcess
<1>2. CASE chat' = chat
  BY <1>1, <1>2, SameDeliver
<1>3. CASE chat' = LaneOpenFailed(chat, l, ambiguous)
  <2>1. Refuses(chat, chat')
    BY <1>1, <1>3, LaneOpenFailedMoves
  <2>2. Drives(chat', chat')
    BY DEF Drives, Same, Stays
  <2>3. CASE Same(chat, chat')
    BY <1>1, <2>3, SameDeliver
  <2>4. CASE ~chat.running /\ Ends(chat, chat', "refused")
    <3>1. Settles(chat, chat', "refused")
      BY <2>2, <2>4 DEF Settles
    <3>. QED  BY <1>1, <2>4, <3>1, SettlementFacts, LeadsDeliver DEF Leads
  <2>5. CASE \E i : Drops(chat, chat', i, "refused")
    <3>1. SettlesWaiting(chat, chat', "refused")
      BY <2>2, <2>5 DEF SettlesWaiting
    <3>. QED  BY <1>1, <3>1, LeadsDeliver DEF Leads, Steers
  <2>. QED  BY <2>1, <2>3, <2>4, <2>5 DEF Refuses
<1>. QED  BY <1>2, <1>3 DEF OpenFailure

\* The report of an opened lane, accepted or refused.
LEMMA ReportDeliver ==
    ASSUME Daemon, exec.lane \in Lanes, NEW opens \in BOOLEAN, NEW opened,
           opens => Drives(chat, opened) \/ (~chat.running /\ Replays(chat, opened)),
           ReportOpened(opens, opened), UNCHANGED <<worker, failing, sent>>
    PROVE  Onward
<1>1. Releases(worker, failing, worker', failing')
  BY ReleasesNothing
<1>2. CASE opens
  BY <1>1, <1>2, LeadsDeliver DEF ReportOpened, Leads, Steers
<1>3. CASE ~opens
  <2>1. OpenFailure(exec.lane, FALSE) \/ chat' = chat
    BY <1>3 DEF ReportOpened
  <2>. QED  BY <1>1, <2>1, OpenFailureDeliver, SameDeliver
<1>. QED  BY <1>2, <1>3

\* The steps that open a lane.
LEMMA OpenerDeliver ==
    ASSUME Daemon, Opener
    PROVE  Onward
<1>. USE DaemonProcess
<1>1. CASE RetireAttachment
  <2>1. exec.lane \in Lanes /\ sent' = sent
    BY <1>1, OpeningWaits DEF RetireAttachment, nativeVars
  <2>2. CASE UNCHANGED <<chat, laneVars>>
    BY <2>1, <2>2, SameDeliver, ReleasesNothing DEF laneVars
  <2>3. CASE (chat' = Detached(exec.lane) \/ chat' = chat) /\ Release(exec.lane)
    <3>1. Releases(worker, failing, worker', failing') /\ worker'[exec.lane] = Nobody
      BY <2>1, <2>3, ReleasesOne DEF Release
    <3>. QED  BY <2>1, <2>3, <3>1, LossDeliver, SameDeliver DEF Detached
  <2>. QED  BY <1>1, <2>2, <2>3 DEF RetireAttachment
<1>2. CASE CreateMinted \/ CreateReattached
  BY <1>2, SameDeliver, ReleasesNothing DEF CreateMinted, CreateReattached, laneVars
<1>3. CASE CreateRefused \/ CreateFailed \/ CreateUncertain \/ ResumeFailed
  <2>1. exec.lane \in Lanes /\ UNCHANGED <<worker, failing, sent>>
        /\ \E ambiguous \in BOOLEAN : OpenFailure(exec.lane, ambiguous)
    BY <1>3, OpeningWaits DEF CreateRefused, CreateFailed, CreateUncertain, ResumeFailed, Creating, Resuming,
                Daemon, IInv, ActorOK, nativeVars, laneVars
  <2>. QED  BY <2>1, OpenFailureDeliver
<1>4. CASE ReportCreated
  <2>1. exec.kind = "create" /\ exec.lane \in Lanes /\ exec.gen \in Nat
        /\ UNCHANGED <<worker, failing, sent>>
        /\ bind[exec.lane].id \in Nat /\ exec.absent \in BOOLEAN
    BY <1>4, OpeningWaits DEF ReportCreated, Daemon, IInv, ActorOK, nativeVars
  <2>2. CASE bind[exec.lane].committed
    <3>1. PICK covered \in BOOLEAN :
            ReportOpened(CanOpen(chat, exec.lane, bind[exec.lane].id),
                         LaneOpened(chat, exec.lane, exec.gen, bind[exec.lane].id, covered))
      BY <1>4, <2>2 DEF ReportCreated
    <3>2. Drives(chat, LaneOpened(chat, exec.lane, exec.gen, bind[exec.lane].id, covered))
      BY <2>1, LaneOpenedMoves
    <3>. QED  BY <2>1, <3>1, <3>2, ReportDeliver DEF CanOpen
  <2>3. CASE ~bind[exec.lane].committed
    <3>1. ReportOpened(CanProvision(chat, exec.lane, bind[exec.lane].id, exec.absent),
                       LaneProvisioned(chat, exec.lane, exec.gen, bind[exec.lane].id, exec.absent))
      BY <1>4, <2>3 DEF ReportCreated
    <3>. DEFINE o == LaneProvisioned(chat, exec.lane, exec.gen, bind[exec.lane].id, exec.absent)
    <3>2. Drives(chat, o) \/ Replays(chat, o)
      BY <2>1, LaneProvisionedMoves
    <3>3. CanProvision(chat, exec.lane, bind[exec.lane].id, exec.absent) /\ chat.fg # NoOp =>
            FgLane(chat) = exec.lane
      BY ChatParts, ChatAssumption DEF CanProvision
    <3>. HIDE DEF o
    <3>4. CanProvision(chat, exec.lane, bind[exec.lane].id, exec.absent) =>
            Drives(chat, o) \/ (~chat.running /\ Replays(chat, o))
      BY <2>1, <3>2, <3>3, OpeningWaits DEF Replays
    <3>. QED  BY <2>1, <3>1, <3>4, ReportDeliver DEF CanProvision, o
  <2>. QED  BY <2>2, <2>3
<1>5. CASE ReportResumed
  <2>1. exec.kind = "resume" /\ exec.lane \in Lanes /\ exec.gen \in Nat
        /\ UNCHANGED <<worker, failing, sent>>
    BY <1>5, OpeningWaits DEF ReportResumed, Resuming, Daemon, IInv, ActorOK, nativeVars
  <2>2. PICK covered \in BOOLEAN :
          ReportOpened(CanOpen(chat, exec.lane, chat.thread[exec.lane]),
                       LaneOpened(chat, exec.lane, exec.gen, chat.thread[exec.lane], covered))
    BY <1>5 DEF ReportResumed
  <2>3. Drives(chat, LaneOpened(chat, exec.lane, exec.gen, chat.thread[exec.lane], covered))
    BY <2>1, LaneOpenedMoves, ChatParts
  <2>. QED  BY <2>1, <2>2, <2>3, ReportDeliver DEF CanOpen
<1>. QED  BY <1>1, <1>2, <1>3, <1>4, <1>5 DEF Opener

\* The admission makes the foreground run, and gives it a worker: the lane's
\* last one is gone, or the lane would fail.
LEMMA AdmissionDeliver ==
    ASSUME Daemon, CommitAdmission
    PROVE  Onward
<1>. USE DaemonProcess
<1>1. /\ exec.kind = "start" /\ exec.at = "calling" /\ chat.fg = exec.op /\ failing' = failing
      /\ chat' = TurnAdmitted(chat) /\ sent' = sent
      /\ worker' = [worker EXCEPT ![exec.lane] = [op |-> exec.op, at |-> "admitted"]]
  BY DEF CommitAdmission, Starting, Admissible, nativeVars
<1>2. /\ exec.op \in Ops /\ exec.lane \in Lanes /\ chat.fg # NoOp /\ FgLane(chat) = exec.lane
      /\ ~chat.running
  BY <1>1, InHandWaits
<1>3. Admits(chat, chat')
  BY <1>1, TurnAdmittedMoves
<1>4. /\ Ledger(chat, sent) /\ Busy(chat, worker, failing, sent) /\ Owned(chat)
      /\ worker \in [Lanes -> [op : Ops \union {NoOp}, at : WorkerStages]]
  BY DEF Daemon, Delivered, IInv, ActorOK
<1>5. sent[chat.fg] = 0 /\ FgLane(chat') = exec.lane /\ chat'.fg = chat.fg /\ chat'.running
  BY <1>1, <1>2, <1>3, <1>4 DEF Ledger, Owned, Admits, Stays, FgLane
<1>6. Ledger(chat', sent)
  BY <1>2, <1>3, <1>4 DEF Ledger, Admits, Stays
<1>7. Busy(chat', worker', failing', sent')
  <2>. SUFFICES ASSUME NEW l \in Lanes
                PROVE  /\ worker'[l].at # "none" =>
                            \/ Runs(chat', l, worker'[l].op)
                            \/ failing[l] # "no" /\ Abandoned(chat', l, worker'[l].op)
                       /\ worker'[l].at = "none" => worker'[l].op = NoOp
                       /\ worker'[l].at = "admitted" => sent[worker'[l].op] = 0
                       /\ worker'[l].at \in {"sent", "taken", "receipted"} => sent[worker'[l].op] = 1
    BY <1>1 DEF Busy
  <2>1. CASE l = exec.lane
    <3>1. worker'[l] = [op |-> exec.op, at |-> "admitted"]
      BY <1>1, <1>4, <2>1
    <3>. QED  BY <1>1, <1>2, <1>5, <2>1, <3>1 DEF Runs
  <2>2. CASE l # exec.lane
    <3>1. worker'[l] = worker[l]
      BY <1>1, <1>4, <2>2
    <3>2. worker[l].at # "none" => failing[l] # "no" /\ Abandoned(chat, l, worker[l].op)
      BY <1>2, BusyWorker DEF Runs
    <3>3. \A op : Abandoned(chat, l, op) => Abandoned(chat', l, op)
      BY <1>3 DEF Abandoned, Admits, Stays
    <3>. QED  BY <1>4, <3>1, <3>2, <3>3 DEF Busy
  <2>. QED  BY <2>1, <2>2
<1>8. Promised
  BY <1>1, <1>3 DEF Admits, Stays, Promised, Delivery!vars
<1>. QED  BY <1>1, <1>6, <1>7, <1>8 DEF Onward, Delivered

\* The steps that start a turn.
LEMMA StarterDeliver ==
    ASSUME Daemon, Starter
    PROVE  Onward
<1>. USE DaemonProcess
<1>1. CASE CommitAdmission
  BY <1>1, AdmissionDeliver
<1>2. CASE ~CommitAdmission
  <2>1. sent' = sent /\ Releases(worker, failing, worker', failing')
    BY <1>2, ReleasesNothing DEF Starter, StartUnattached, StartCalled, AdmissionReturned, StartFailed,
                            StartUncertain, nativeVars, laneVars
  <2>2. CASE chat' = chat
    BY <2>1, <2>2, SameDeliver
  <2>3. CASE chat' = TurnDeferred(chat, exec.op)
    BY <2>1, <2>3, TurnDeferredMoves, SameDeliver
  <2>4. CASE /\ exec.kind = "start" /\ exec.at = "calling" /\ chat.fg = exec.op
             /\ chat' = TurnRefused(chat)
    BY <2>1, <2>4, InHandWaits, TurnRefusedMoves, SettlementFacts, LeadsDeliver DEF Leads
  <2>5. CASE /\ exec.kind = "start" /\ exec.at = "calling" /\ chat.fg = exec.op
             /\ chat' = TurnAmbiguous(chat)
    BY <2>1, <2>5, InHandWaits, TurnAmbiguousMoves, SettlementFacts, LeadsDeliver DEF Leads
  <2>6. CASE StartUnattached \/ StartCalled \/ AdmissionReturned
    BY <2>2, <2>3, <2>6 DEF StartUnattached, StartCalled, AdmissionReturned
  <2>7. CASE StartFailed
    BY <2>2, <2>3, <2>4, <2>7 DEF StartFailed, Starting
  <2>8. CASE StartUncertain
    BY <2>5, <2>8 DEF StartUncertain, Starting, Admissible
  <2>. QED  BY <1>2, <2>6, <2>7, <2>8 DEF Starter
<1>. QED  BY <1>1, <1>2

\* The worker of lane l goes on: the others have operations of other lanes,
\* and the chat settles nothing.
LEMMA WorkerGoesOn ==
    ASSUME Daemon, NEW l \in Lanes, worker[l].at # "none", NEW at \in {"sent", "taken", "receipted"},
           worker' = [worker EXCEPT ![l].at = at], failing' = failing,
           Stays(chat, chat'), chat'.running = chat.running, sent'[worker[l].op] = 1,
           \A op \in Ops \ {worker[l].op} : sent'[op] = sent[op]
    PROVE  Busy(chat', worker', failing', sent')
<1>1. \A k \in Lanes : worker[k].at # "none" =>
        /\ worker[k].op \in Ops /\ chat.lane[worker[k].op] = k
        /\ \/ Runs(chat, k, worker[k].op)
           \/ failing[k] # "no" /\ Abandoned(chat, k, worker[k].op)
  BY BusyWorker
<1>2. \A k, op : /\ Runs(chat, k, op) => Runs(chat', k, op)
                 /\ Abandoned(chat, k, op) => Abandoned(chat', k, op)
  BY DEF Stays, Runs, Abandoned, FgLane
<1>3. /\ Busy(chat, worker, failing, sent)
      /\ worker \in [Lanes -> [op : Ops \union {NoOp}, at : WorkerStages]]
  BY DEF Daemon, Delivered, IInv, ActorOK
<1>. SUFFICES ASSUME NEW k \in Lanes
              PROVE  /\ worker'[k].at # "none" =>
                          \/ Runs(chat', k, worker'[k].op)
                          \/ failing'[k] # "no" /\ Abandoned(chat', k, worker'[k].op)
                     /\ worker'[k].at = "none" => worker'[k].op = NoOp
                     /\ worker'[k].at = "admitted" => sent'[worker'[k].op] = 0
                     /\ worker'[k].at \in {"sent", "taken", "receipted"} => sent'[worker'[k].op] = 1
  BY DEF Busy
<1>4. CASE k = l
  <2>1. worker'[l].at = at /\ worker'[l].op = worker[l].op
    BY <1>3
  <2>. QED  BY <1>1, <1>2, <1>4, <2>1
<1>5. CASE k # l
  <2>1. worker'[k] = worker[k]
    BY <1>3, <1>5
  <2>2. worker[k].at # "none" => sent'[worker[k].op] = sent[worker[k].op]
    BY <1>1, <1>5
  <2>3. worker[k].at \in WorkerStages
    BY <1>3
  <2>. QED  BY <1>1, <1>2, <1>3, <2>1, <2>2, <2>3 DEF Busy
<1>. QED  BY <1>4, <1>5

\* The prompt is written: the foreground crosses, or an input that a failure
\* cut before its worker was stopped, each for the first time.
LEMMA PromptDeliver ==
    ASSUME Daemon, NEW l \in Lanes, WritePrompt(l)
    PROVE  Onward
<1>. DEFINE op == worker[l].op
<1>1. /\ worker[l].at = "admitted" /\ worker' = [worker EXCEPT ![l].at = "sent"]
      /\ sent' = [sent EXCEPT ![op] = @ + 1] /\ chat' = chat /\ failing' = failing
  BY DEF WritePrompt
<1>2. /\ op \in Ops
      /\ Runs(chat, l, op) \/ (failing[l] # "no" /\ Abandoned(chat, l, op))
  BY <1>1, BusyWorker
<1>3. /\ Ledger(chat, sent) /\ Busy(chat, worker, failing, sent) /\ sent \in [Ops -> Nat] /\ Owned(chat)
  BY DEF Daemon, Delivered, IInv, ActorOK
<1>4. sent[op] = 0
  BY <1>1, <1>3 DEF Busy
<1>5. sent' = [sent EXCEPT ![op] = 1] /\ sent'[op] = 1 /\ \A o \in Ops \ {op} : sent'[o] = sent[o]
  BY <1>1, <1>2, <1>3, <1>4
<1>6. (chat.fg = op /\ chat.running /\ chat.fg # NoOp /\ chat.fate[op] = "open") \/ chat.fate[op] = "uncertain"
  <2>1. CASE Runs(chat, l, op)
    BY <1>2, <1>3, <2>1 DEF Runs, Owned
  <2>2. CASE Abandoned(chat, l, op)
    BY <1>2, <1>3, <1>4, <2>2 DEF Abandoned, Ledger
  <2>. QED  BY <1>2, <2>1, <2>2
<1>7. Ledger(chat', sent')
  <2>1. chat.consumed => sent'[chat.fg] = 1
    <3>1. chat.consumed => chat.fg # NoOp /\ chat.fg \in Ops
      BY <1>3 DEF Ledger, Owned
    <3>. QED  BY <1>3, <1>5, <3>1 DEF Ledger
  <2>. QED  BY <1>1, <1>2, <1>3, <1>5, <1>6, <2>1 DEF Ledger
<1>8. Busy(chat', worker', failing', sent')
  <2>1. Stays(chat, chat') /\ chat'.running = chat.running
    BY <1>1 DEF Stays
  <2>. QED  BY <1>1, <1>5, <2>1, WorkerGoesOn
<1>9. Promised
  <2>1. Delivery!Send(op)
    BY <1>1, <1>4, <1>5, <1>6 DEF Delivery!Send
  <2>2. op \in Delivery!Ops
    BY <1>2 DEF Ops, Delivery!Ops
  <2>. QED  BY <2>1, <2>2 DEF Promised, Delivery!Next
<1>. QED  BY <1>7, <1>8, <1>9 DEF Onward, Delivered

\* The worker goes on with a prompt that was sent, and the chat may learn of it.
LEMMA TakenDeliver ==
    ASSUME Daemon, NEW l \in Lanes, worker[l].at \in {"sent", "taken"}, NEW at \in {"taken", "receipted"},
           worker' = [worker EXCEPT ![l].at = at], sent' = sent, failing' = failing,
           chat' = chat \/ (failing[l] = "no" /\ Consumes(chat, chat'))
    PROVE  Onward
<1>1. worker[l].op \in Ops /\ (failing[l] = "no" => Runs(chat, l, worker[l].op))
  BY BusyWorker
<1>2. Ledger(chat, sent) /\ Busy(chat, worker, failing, sent)
  BY DEF Daemon, Delivered
<1>3. sent[worker[l].op] = 1
  BY <1>2 DEF Busy
<1>4. Stays(chat, chat') /\ chat'.running = chat.running
      /\ (chat' = chat \/ (chat'.consumed /\ chat.fg = worker[l].op /\ chat.fg # NoOp))
  BY <1>1 DEF Consumes, Stays, Runs
<1>5. Ledger(chat', sent')
  BY <1>2, <1>3, <1>4 DEF Ledger, Stays
<1>6. Busy(chat', worker', failing', sent')
  BY <1>3, <1>4, WorkerGoesOn
<1>7. Promised
  BY <1>4 DEF Stays, Promised, Delivery!vars
<1>. QED  BY <1>5, <1>6, <1>7 DEF Onward, Delivered

\* The worker of a turn.
LEMMA WorkerDeliver ==
    ASSUME Daemon, NEW l \in Lanes, Worker(l)
    PROVE  Onward
<1>. USE DaemonProcess
<1>1. CASE WritePrompt(l)
  BY <1>1, PromptDeliver
<1>2. CASE TakeInput(l)
  BY <1>2, TakenDeliver DEF TakeInput
<1>3. CASE ProtocolFailed(l) /\ (ConfirmInput(l) \/ EndTurn(l))
  <2>1. sent' = sent
    BY <1>3 DEF ConfirmInput, EndTurn, nativeVars
  <2>2. worker' = worker \/ worker' = [worker EXCEPT ![l] = Nobody]
    <3>1. CASE EndTurn(l)
      BY <3>1 DEF EndTurn
    <3>2. CASE ConfirmInput(l)
      <4>1. failing' # failing
        <5>1. failing[l] = "no" /\ failing \in [Lanes -> Failures]
          BY <3>2 DEF ConfirmInput, Daemon, IInv, ActorOK
        <5>2. failing' = [failing EXCEPT ![l] = "protocol"]
          BY <1>3 DEF ProtocolFailed
        <5>. QED  BY <5>1, <5>2
      <4>. QED  BY <3>2, <4>1 DEF ConfirmInput
    <3>. QED  BY <1>3, <3>1, <3>2
  <2>. QED  BY <1>3, <2>1, <2>2, ProtocolDeliver
<1>4. CASE ConfirmInput(l) /\ ~ProtocolFailed(l)
  <2>. DEFINE t == IF chat.cand[l] = 0 THEN 0 ELSE bind[l].id
  <2>1. /\ worker[l].at = "taken" /\ chat' = InputConsumed(chat, t) /\ sent' = sent
        /\ worker' = [worker EXCEPT ![l].at = "receipted"] /\ failing' = failing /\ failing[l] = "no"
    BY <1>4 DEF ConfirmInput, Event, nativeVars
  <2>2. t \in Nat
    BY DEF Daemon, IInv, ActorOK
  <2>3. Consumes(chat, chat')
    BY <2>1, <2>2, InputConsumedMoves
  <2>. QED  BY <2>1, <2>3, TakenDeliver
<1>5. CASE EndTurn(l) /\ ~ProtocolFailed(l)
  <2>1. PICK interrupted \in {FALSE, closing}, covered \in BOOLEAN :
          chat' = TurnTerminated(chat, interrupted, covered)
    BY <1>5 DEF EndTurn, Event
  <2>2. /\ interrupted \in BOOLEAN /\ sent' = sent /\ worker[l].at # "none" /\ failing[l] = "no"
        /\ worker' = [worker EXCEPT ![l] = Nobody] /\ failing' = failing
    BY <1>5 DEF EndTurn, Daemon, IInv, ActorOK, nativeVars
  <2>3. Releases(worker, failing, worker', failing') /\ worker'[l] = Nobody
    BY <2>2, ReleasesOne
  <2>4. chat.fg # NoOp /\ FgLane(chat) = l
    BY <2>2, BusyWorker DEF Runs
  <2>5. \E f \in {"answered", "presumed", "uncertain"} :
          /\ f = "answered" => chat.consumed
          /\ Settles(chat, chat', f) \/ SettlesReturning(chat, chat', f)
    BY <2>1, <2>2, <2>4, TurnTerminatedMoves
  <2>6. Leads(chat, chat')
    BY <2>5, SettlementFacts DEF Leads
  <2>. QED  BY <2>2, <2>3, <2>4, <2>6, LeadsDeliver
<1>. QED  BY <1>1, <1>2, <1>3, <1>4, <1>5 DEF Worker

\* The faults of a lane.
LEMMA BreaksDeliver ==
    ASSUME Daemon, NEW l \in Lanes, Breaks(l)
    PROVE  Onward
<1>1. sent' = sent
  BY DEF Breaks, DetachLane, StreamClosed, CloseStream, EventRefused, HealthFailed, nativeVars
<1>2. CASE EventRefused(l)
  BY <1>1, <1>2, ProtocolDeliver DEF EventRefused
<1>3. CASE DetachLane(l) \/ StreamClosed(l)
  <2>1. Releases(worker, failing, worker', failing') /\ worker'[l] = Nobody
    BY <1>3, ReleasesOne DEF DetachLane, StreamClosed, CloseStream, Release
  <2>2. chat' = chat \/ chat' = HostLost(chat, l, host[l])
    BY <1>3 DEF DetachLane, StreamClosed, CloseStream, Event, Detached
  <2>. QED  BY <1>1, <2>1, <2>2, SameDeliver, LossDeliver
<1>4. CASE HealthFailed(l)
  <2>1. /\ chat' = LaneUnhealthy(chat, l) /\ worker' = worker
        /\ failing' = [failing EXCEPT ![l] = "health"]
    BY <1>4 DEF HealthFailed, Event
  <2>2. Drives(chat, chat') \/ (FgLane(chat) = l /\ Settles(chat, chat', CutFate(chat)))
    BY <2>1, DaemonProcess, LaneUnhealthyMoves DEF Drives
  <2>. QED  BY <1>1, <2>1, <2>2, FailureDeliver DEF Failures
<1>. QED  BY <1>2, <1>3, <1>4 DEF Breaks

\* With its attachment the worker of a failing lane ends.
LEMMA TeardownDeliver ==
    ASSUME Daemon, NEW l \in Lanes, Teardown(l)
    PROVE  Onward
<1>1. sent' = sent /\ chat' = chat /\ Release(l)
  BY DEF Teardown, CloseStream, nativeVars
<1>2. Releases(worker, failing, worker', failing')
  BY <1>1, ReleasesOne DEF Release
<1>. QED  BY <1>1, <1>2, SameDeliver

\* A lane whose loss is committed late has no worker, if the loss is current.
LEMMA LossCommittedDeliver ==
    ASSUME Daemon, NEW loss \in lost, LossCommitted(loss)
    PROVE  Onward
<1>. USE DaemonProcess
<1>. DEFINE l == loss[1]
<1>1. /\ l \in Lanes /\ loss[2] \in Nat
      /\ UNCHANGED <<host, worker, failing, sent>> /\ chat' = HostLost(chat, l, loss[2])
  BY DEF LossCommitted, Event, Process, nativeVars, laneVars
<1>2. host[l] \in Nat /\ chat.gen[l] \in Nat /\ Hosted(chat, host, lost)
  BY <1>1, ChatParts DEF Linked, Process
<1>3. /\ Busy(chat, worker, failing, sent) /\ Threads
      /\ worker[l] \in [op : Ops \union {NoOp}, at : WorkerStages]
  BY <1>1 DEF Daemon, Delivered, IInv, ActorOK
<1>4. ASSUME loss[2] = chat.gen[l]  PROVE worker[l] = Nobody
  <2>1. host[l] = 0
    BY <1>1, <1>2, <1>4 DEF Hosted
  <2>2. worker[l].at = "none" /\ worker[l].op = NoOp
    BY <1>1, <1>3, <2>1 DEF Busy, Threads
  <2>. QED  BY <1>3, <2>2 DEF Nobody
<1>. QED  BY <1>1, <1>4, ReleasesNothing, LossDeliver

\* A restart cuts the foreground unless its start was never dispatched.
LEMMA RestartDeliver ==
    ASSUME Daemon, Restart
    PROVE  Onward
<1>1. sent' = sent /\ worker' = [l \in Lanes |-> Nobody] /\ Releases(worker, failing, worker', failing')
  BY DEF Restart, Releases, nativeVars
<1>2. Same(chat, chat') \/ Cuts(chat, chat')
  BY RecoverOutboxMoves, DaemonProcess DEF Restart
<1>3. CASE Cuts(chat, chat')
  <2>1. FgLane(chat) \in Lanes /\ worker'[FgLane(chat)] = Nobody
    BY <1>1, <1>3, CutLane, DaemonProcess DEF Cuts
  <2>2. Leads(chat, chat')
    BY <1>3, SettlementFacts DEF Leads, Cuts
  <2>. QED  BY <1>1, <2>1, <2>2, LeadsDeliver
<1>. QED  BY <1>1, <1>2, <1>3, SameDeliver

\* Every step of the daemon keeps its deliveries in order, and is one that
\* InputDelivery promises.
LEMMA NextDeliver ==
    ASSUME Daemon, [Next]_vars
    PROVE  Onward
<1>1. CASE Claim
  <2>1. Same(chat, chat')
    BY <1>1, OutboxSame, DaemonProcess DEF Claim
  <2>. QED  BY <1>1, <2>1, SameDeliver, ReleasesNothing DEF Claim, nativeVars, laneVars
<1>2. CASE DrainSettled \/ Close \/ UNCHANGED vars
  BY <1>2, SameDeliver, ReleasesNothing DEF DrainSettled, Close, vars, nativeVars, laneVars
<1>. QED  BY <1>1, <1>2, UsersDeliver, OpenerDeliver, StarterDeliver, WorkerDeliver, BreaksDeliver,
             TeardownDeliver, LossCommittedDeliver, RestartDeliver
          DEF Next, Drainer

(***************************************************************************)
(* The invariant of the daemon, and what follows from it.                  *)
(***************************************************************************)
\* At first nothing is bound, attached, accepted or sent.
LEMMA DaemonInit == Init => Daemon
<1>. SUFFICES ASSUME Init  PROVE Daemon
  OBVIOUS
<1>1. chat = InitialChat /\ exec = Idle /\ lost = {} /\ host = [l \in Lanes |-> 0]
      /\ worker = [l \in Lanes |-> Nobody] /\ failing = [l \in Lanes |-> "no"] /\ sent = [op \in Ops |-> 0]
      /\ bind = [l \in Lanes |-> [id |-> 0, committed |-> FALSE]]
  BY DEF Init
<1>2. Shaped(chat)
  BY <1>1 DEF InitialChat, Shaped, PhasesFit, ForegroundFits, StartsOnce, ResumesCurrent, CreatesOrdered,
              LastCreate, NoCreateRuns, Waits, Established
<1>3. Linked(chat, host, lost, exec)
  BY <1>1 DEF InitialChat, Idle, Linked, Hosted, Past, ResumeFits, CreateFits, StartFits, InHand, WaitFits,
              Waits
<1>4. Delivered(chat, worker, failing, sent)
  BY <1>1 DEF InitialChat, Nobody, Delivered, Ledger, Busy
<1>5. Bindings
  BY <1>1 DEF Bindings
<1>. QED  BY <1>2, <1>3, <1>4, <1>5, IInvInit, ThreadsInit, OwnedInit DEF Daemon, Fits

\* Every step keeps the invariant.
LEMMA NextDaemon ==
    ASSUME Daemon, [Next]_vars
    PROVE  Daemon' /\ Promised
<1>1. IInv' /\ Threads' /\ Working'
  BY NextPlaced, NextOK, NextThreads, NextWorking DEF Daemon, IInv
<1>2. Owned(chat') /\ Fits' /\ Bindings'
  BY NextStepped, NextFits, NextBindings DEF Stepped
<1>3. Delivered(chat', worker', failing', sent') /\ Promised
  BY NextDeliver DEF Onward
<1>. QED  BY <1>1, <1>2, <1>3 DEF Daemon

\* The invariant holds in every reachable state.
THEOREM DaemonInvariance == Spec => []Daemon
<1>1. Daemon /\ [Next]_vars => Daemon'
  BY NextDaemon
<1>. QED  BY <1>1, DaemonInit, PTL DEF Spec

\* Every chat a command commits, and every chat opened again, passes
\* State.Validate. (Reopens, that every restart can be opened again, is a
\* property of the runs: the model has no step for one that cannot.)
THEOREM AlwaysValid == Spec => []ValidState
<1>1. Daemon => ValidState
  BY DEF Daemon, Fits, Shaped, PhasesFit, ForegroundFits, Established, ValidState, Valid, FgLane
<1>. QED  BY <1>1, DaemonInvariance, PTL

\* A provider only ever works on the admitted foreground of the chat; once a
\* committed failure has cut its turn it may run on until the attachment comes
\* down, with the ledger calling that turn uncertain or interrupted.
THEOREM WorkersOwned == Spec => []WorkerOwned
<1>1. Daemon => WorkerOwned
  BY DEF Daemon, Delivered, Busy, Runs, Abandoned, WorkerOwned
<1>. QED  BY <1>1, DaemonInvariance, PTL

\* No input crosses to a provider twice under its operation id.
THEOREM NeverResent == Spec => []SentOnce
<1>1. Daemon => SentOnce
  BY DEF Daemon, Delivered, Ledger, SentOnce
<1>. QED  BY <1>1, DaemonInvariance, PTL

\* An input that the ledger calls refused or withdrawn never crossed.
THEOREM RefusalIsTrue == Spec => []RefusedNeverSent
<1>1. Daemon => RefusedNeverSent
  BY DEF Daemon, Delivered, Ledger, RefusedNeverSent
<1>. QED  BY <1>1, DaemonInvariance, PTL

\* An input that the ledger calls consumed on a receipt did cross.  (Of one that
\* it only presumes consumed, because the turn ended, nothing follows.)
THEOREM ConsumptionIsTrue == Spec => []ConsumedWasSent
<1>1. Daemon => ConsumedWasSent
  BY DEF Daemon, Delivered, Ledger, ConsumedWasSent
<1>. QED  BY <1>1, DaemonInvariance, PTL

\* The daemon, with its lanes, faults and restarts, implements what a chat
\* promises about its inputs.
THEOREM DeliveryImplemented == Spec => ImplementsDelivery
<1>1. Init => Delivery!Init
  BY DEF Init, InitialChat, Delivery!Init, Ops, Delivery!Ops
<1>2. Daemon /\ [Next]_vars => [Delivery!Next]_(Delivery!vars)
  BY NextDaemon DEF Promised
<1>. QED  BY <1>1, <1>2, DaemonInvariance, PTL DEF Spec, ImplementsDelivery, Delivery!Spec

(***************************************************************************)
(* A lane that is being opened has the effect that opens it.               *)
(***************************************************************************)
EffectOf(e, l, kind) == e.kind = kind /\ e.lane = l
Going(e) == e.status \in {"pending", "dispatched"}

\* The lane resumes, or is created for the first time, by an effect that goes
\* on.  A resume is never of a later generation than its lane; of the creates
\* of a lane with neither thread nor candidate only the one it waits for goes
\* on.
OwesNothing(c, l) ==
    /\ (c.phase[l] \in Established) <=> (c.thread[l] # 0)
    /\ \A i \in DOMAIN c.outbox :
         /\ EffectOf(c.outbox[i], l, "create") => c.outbox[i].gen <= c.cgen[l]
         /\ EffectOf(c.outbox[i], l, "resume") => c.thread[l] # 0 /\ c.outbox[i].gen <= c.gen[l]
Resumed(c, l) == \E i \in DOMAIN c.outbox :
    EffectOf(c.outbox[i], l, "resume") /\ c.outbox[i].gen = c.gen[l] /\ Going(c.outbox[i])
Created(c, l) == \E i \in DOMAIN c.outbox :
    EffectOf(c.outbox[i], l, "create") /\ c.outbox[i].gen = c.cgen[l] /\ Going(c.outbox[i])
OnlyCreate(c, l) == \A i \in DOMAIN c.outbox :
    EffectOf(c.outbox[i], l, "create") /\ ~Over(c.outbox[i]) =>
        c.phase[l] = "creating" /\ c.outbox[i].gen = c.cgen[l]
LaneOwned(c, l) ==
    /\ OwesNothing(c, l)
    /\ c.phase[l] = "resuming" => Resumed(c, l)
    /\ c.thread[l] = 0 /\ c.cand[l] = 0 =>
         (c.phase[l] = "creating" => Created(c, l)) /\ OnlyCreate(c, l)
LanesOwned(c) == \A l \in Lanes : LaneOwned(c, l)

\* Nothing is opened anew, and what is over stays over.
Carried(b, d) ==
    /\ Extends(b, d)
    /\ \A i \in DOMAIN b : Opening(b[i]) /\ Over(b[i]) => Over(d[i])
    /\ \A j \in DOMAIN d \ DOMAIN b : ~Opening(d[j])

\* A lane stays as it is with the effects that open it; or it has a thread and
\* does not resume; or it has none and either a candidate or no create.
LaneStays(c, d, l) ==
    /\ d.phase[l] = c.phase[l] /\ d.thread[l] = c.thread[l] /\ d.cand[l] = c.cand[l]
    /\ d.gen[l] = c.gen[l] /\ d.cgen[l] = c.cgen[l]
    /\ \A i \in DOMAIN c.outbox :
         Opening(c.outbox[i]) /\ c.outbox[i].lane = l /\ Going(c.outbox[i]) => Going(d.outbox[i])
LaneHolds(c, d, l) ==
    /\ d.thread[l] # 0 /\ d.phase[l] \in Established \ {"resuming"} /\ d.cgen[l] >= c.cgen[l]
    /\ c.thread[l] # 0 => d.gen[l] >= c.gen[l]
LaneLacks(c, d, l) ==
    /\ c.thread[l] = 0 /\ d.thread[l] = 0 /\ d.phase[l] \notin Established /\ d.cgen[l] >= c.cgen[l]
    /\ c.cand[l] # 0 => d.cand[l] # 0
    /\ \/ d.cand[l] # 0
       \/ /\ d.phase[l] # "creating"
          /\ \A i \in DOMAIN d.outbox : EffectOf(d.outbox[i], l, "create") => Over(d.outbox[i])
Moved(c, d, l) == LaneStays(c, d, l) \/ LaneHolds(c, d, l) \/ LaneLacks(c, d, l)

\* A lane with a thread or a candidate keeps one.
Rooted(c, l) == c.thread[l] # 0 \/ c.cand[l] # 0
Keeping(c, d) == LanesOwned(d) /\ \A l \in Lanes : Rooted(c, l) => Rooted(d, l)

LEMMA MovedOwned ==
    ASSUME NEW c \in Placed, NEW d \in Placed, LanesOwned(c), Carried(c.outbox, d.outbox),
           \A l \in Lanes : Moved(c, d, l)
    PROVE  Keeping(c, d)
<1>. SUFFICES ASSUME NEW l \in Lanes
              PROVE  LaneOwned(d, l) /\ (Rooted(c, l) => Rooted(d, l))
  BY DEF Keeping, LanesOwned
<1>1. LaneOwned(c, l) /\ Moved(c, d, l)
  BY DEF LanesOwned
<1>2. /\ c.gen[l] \in Nat /\ c.cgen[l] \in Nat /\ d.gen[l] \in Nat /\ d.cgen[l] \in Nat
      /\ \A i \in DOMAIN d.outbox : d.outbox[i].gen \in Nat
  BY ChatParts, OutboxEntries DEF Entry
<1>3. \A i \in DOMAIN d.outbox : Opening(d.outbox[i]) =>
        /\ i \in DOMAIN c.outbox /\ SameEffect(c.outbox[i], d.outbox[i]) /\ Opening(c.outbox[i])
        /\ Over(c.outbox[i]) => Over(d.outbox[i])
  BY DEF Carried, Extends, SameEffect, Opening
<1>4. \A i \in DOMAIN c.outbox : i \in DOMAIN d.outbox /\ SameEffect(c.outbox[i], d.outbox[i])
  BY DEF Carried, Extends
<1>5. CASE LaneStays(c, d, l)
  <2>1. OwesNothing(d, l)
    BY <1>1, <1>3, <1>5 DEF LaneOwned, OwesNothing, LaneStays, EffectOf, Opening, SameEffect
  <2>2. d.phase[l] = "resuming" => Resumed(d, l)
    BY <1>1, <1>4, <1>5 DEF LaneOwned, Resumed, LaneStays, EffectOf, Opening, SameEffect
  <2>3. c.thread[l] = 0 /\ c.cand[l] = 0 /\ d.phase[l] = "creating" => Created(d, l)
    BY <1>1, <1>4, <1>5 DEF LaneOwned, Created, LaneStays, EffectOf, Opening, SameEffect
  <2>4. c.thread[l] = 0 /\ c.cand[l] = 0 => OnlyCreate(d, l)
    BY <1>1, <1>3, <1>5 DEF LaneOwned, OnlyCreate, LaneStays, EffectOf, Opening, SameEffect
  <2>. QED  BY <1>5, <2>1, <2>2, <2>3, <2>4 DEF LaneOwned, LaneStays, Rooted
<1>6. CASE LaneHolds(c, d, l)
  <2>1. OwesNothing(d, l)
    BY <1>1, <1>2, <1>3, <1>6 DEF LaneOwned, OwesNothing, LaneHolds, EffectOf, Opening, SameEffect
  <2>. QED  BY <1>6, <2>1 DEF LaneOwned, LaneHolds, Rooted
<1>7. CASE LaneLacks(c, d, l)
  <2>1. OwesNothing(d, l)
    BY <1>1, <1>2, <1>3, <1>7 DEF LaneOwned, OwesNothing, LaneLacks, EffectOf, Opening, SameEffect
  <2>2. d.phase[l] # "resuming"
    BY <1>7 DEF LaneLacks, Established
  <2>. QED  BY <1>7, <2>1, <2>2 DEF LaneOwned, OnlyCreate, LaneLacks, Rooted
<1>. QED  BY <1>1, <1>5, <1>6, <1>7 DEF Moved

LEMMA OpensTransitive ==
    ASSUME NEW c, NEW m, NEW d, Keeping(c, m), LanesOwned(m) => Keeping(m, d)
    PROVE  Keeping(c, d)
BY DEF Keeping

\* A box that fades carries nothing new, and a change in place of turns and
\* Stops keeps the openings as they are.
LEMMA FadesCarried ==
    ASSUME NEW b, NEW d, Fades(b, d)
    PROVE  Carried(b, d)
BY DEF Fades, Carried, Opening

LEMMA CarriedTransitive ==
    ASSUME NEW b, NEW d, NEW e, Carried(b, d), Carried(d, e), DOMAIN b = DOMAIN d
    PROVE  Carried(b, e)
BY DEF Carried, Extends, SameEffect, Opening

LEMMA MarkTurnCarried ==
    ASSUME NEW b \in Seq(Entry), NEW ids, NEW status,
           \A i \in DOMAIN b : i \in ids => b[i].kind \in {"start", "stop"}
    PROVE  /\ Carried(b, Mark(b, ids, status))
           /\ \A i \in DOMAIN b : Opening(b[i]) => Mark(b, ids, status)[i] = b[i]
<1>1. Carried(b, Mark(b, ids, status))
  BY MarkTurnFades, FadesCarried
<1>. QED  BY <1>1, MarkFacts DEF Opening

\* Only what is not about lanes changes, and the openings of the box go on.
LEMMA StillOwned ==
    ASSUME NEW c \in Placed, NEW d \in Placed, LanesOwned(c), Carried(c.outbox, d.outbox),
           d.phase = c.phase, d.thread = c.thread, d.cand = c.cand, d.gen = c.gen, d.cgen = c.cgen,
           \A i \in DOMAIN c.outbox : Opening(c.outbox[i]) /\ Going(c.outbox[i]) => Going(d.outbox[i])
    PROVE  Keeping(c, d)
<1>1. \A l \in Lanes : Moved(c, d, l)
  BY DEF Moved, LaneStays
<1>. QED  BY <1>1, MovedOwned

LEMMA SameOwned ==
    ASSUME NEW c \in Placed, NEW d \in Placed, LanesOwned(c), d.outbox = c.outbox,
           d.phase = c.phase, d.thread = c.thread, d.cand = c.cand, d.gen = c.gen, d.cgen = c.cgen
    PROVE  Keeping(c, d)
<1>1. Carried(c.outbox, d.outbox)
  BY FadesTransitive, FadesCarried
<1>. QED  BY <1>1, StillOwned


(***************************************************************************)
(* Driving.                                                                *)
(***************************************************************************)
\* A new effect at the end of a box: everything else is as it was.
Added(b, d, e) == \E n \in DOMAIN d :
    /\ d[n] = e /\ DOMAIN d = DOMAIN b \union {n} /\ n \notin DOMAIN b
    /\ \A i \in DOMAIN b : d[i] = b[i]

LEMMA RecordAdded ==
    ASSUME NEW b \in Seq(Entry), NEW e \in Entry, \A i \in DOMAIN b : ~SameEffect(b[i], e)
    PROVE  Added(b, Record(b, e), e)
<1>. DEFINE d == Record(b, e)
            n == Len(b) + 1
<1>1. Recorded(b, d, e)
  BY RecordFacts
<1>. HIDE DEF d
<1>2. DOMAIN d = DOMAIN b \union {n} /\ n \notin DOMAIN b /\ d[n] = e /\ \A i \in DOMAIN b : d[i] = b[i]
  BY <1>1 DEF Recorded
<1>. HIDE DEF n
<1>3. Added(b, d, e)
  BY <1>2 DEF Added
<1>. QED  BY <1>3 DEF d

\* A lane without thread that has no create under way is created anew.
LEMMA CreateOwned ==
    ASSUME NEW c \in Placed, LanesOwned(c), NEW l \in Lanes, NEW g \in Nat, NEW r \in BOOLEAN,
           c.thread[l] = 0, c.phase[l] # "creating" \/ c.cand[l] # 0, g > c.cgen[l]
    PROVE  Keeping(c, OpenByCreate(c, l, g, r))
<1>. DEFINE e == CreateEffect(l, g, r)
            d == OpenByCreate(c, l, g, r)
<1>1. c \in Chat /\ c.outbox \in Seq(Entry) /\ e \in Entry
  BY EffectType DEF Placed, Chat
<1>2. e.kind = "create" /\ e.lane = l /\ e.gen = g /\ e.status = "pending" /\ e.op = NoOp
  BY DEF CreateEffect
<1>. HIDE DEF e
<1>3. /\ d.thread = c.thread /\ d.cand = c.cand /\ d.gen = c.gen
      /\ d.phase = [c.phase EXCEPT ![l] = "creating"] /\ d.cgen = [c.cgen EXCEPT ![l] = g]
      /\ d.outbox = Record(c.outbox, e)
  BY <1>1 DEF OpenByCreate, Chat, e
<1>. HIDE DEF d
<1>4. /\ \A i \in DOMAIN c.outbox : c.outbox[i].gen \in Nat
      /\ \A i \in DOMAIN c.outbox : EffectOf(c.outbox[i], l, "create") => c.outbox[i].gen < g
  <2>1. c.cgen[l] \in Nat /\ \A i \in DOMAIN c.outbox : c.outbox[i].gen \in Nat
    BY ChatParts, OutboxEntries DEF Entry
  <2>. QED  BY <2>1 DEF LanesOwned, LaneOwned, OwesNothing
<1>5. \A i \in DOMAIN c.outbox : ~SameEffect(c.outbox[i], e)
  BY <1>2, <1>4 DEF SameEffect, EffectOf
<1>6. Added(c.outbox, d.outbox, e)
  BY <1>1, <1>3, <1>5, RecordAdded
<1>7. PICK n \in DOMAIN d.outbox : /\ d.outbox[n] = e /\ DOMAIN d.outbox = DOMAIN c.outbox \union {n}
                                   /\ n \notin DOMAIN c.outbox
                                   /\ \A i \in DOMAIN c.outbox : d.outbox[i] = c.outbox[i]
  BY <1>6 DEF Added
<1>8. /\ d.phase[l] = "creating" /\ d.cgen[l] = g
      /\ \A k \in Lanes \ {l} : d.phase[k] = c.phase[k] /\ d.cgen[k] = c.cgen[k]
  BY <1>1, <1>3 DEF Chat
<1>9. LaneOwned(d, l)
  <2>1. LaneOwned(c, l) /\ c.phase[l] \notin Established
    BY DEF LanesOwned, LaneOwned, OwesNothing
  <2>2. OwesNothing(d, l)
    BY <1>2, <1>3, <1>4, <1>7, <1>8, <2>1 DEF LaneOwned, OwesNothing, EffectOf, Established
  <2>3. Created(d, l)
    BY <1>2, <1>7, <1>8 DEF Created, EffectOf, Going
  <2>4. c.cand[l] = 0 => OnlyCreate(d, l)
    BY <1>2, <1>7, <1>8, <2>1 DEF LaneOwned, OnlyCreate, EffectOf
  <2>. QED  BY <1>3, <1>8, <2>2, <2>3, <2>4 DEF LaneOwned
<1>10. ASSUME NEW k \in Lanes \ {l}
       PROVE  LaneOwned(d, k)
  <2>1. LaneOwned(c, k)
    BY DEF LanesOwned
  <2>2. OwesNothing(d, k)
    BY <1>2, <1>3, <1>7, <1>8, <2>1 DEF LaneOwned, OwesNothing, EffectOf
  <2>3. d.phase[k] = "resuming" => Resumed(d, k)
    BY <1>3, <1>7, <1>8, <2>1 DEF LaneOwned, Resumed
  <2>4. c.thread[k] = 0 /\ c.cand[k] = 0 =>
          (d.phase[k] = "creating" => Created(d, k)) /\ OnlyCreate(d, k)
    BY <1>2, <1>7, <1>8, <2>1 DEF LaneOwned, Created, OnlyCreate, EffectOf
  <2>. QED  BY <1>3, <2>2, <2>3, <2>4 DEF LaneOwned
<1>11. Keeping(c, d)
  BY <1>3, <1>9, <1>10 DEF Keeping, LanesOwned, Rooted
<1>. QED  BY <1>11 DEF d

\* A lane with a thread is resumed under a generation of its own.
LEMMA ResumeOwned ==
    ASSUME NEW c \in Placed, LanesOwned(c), NEW l \in Lanes, NEW g \in Nat, c.thread[l] # 0,
           \A i \in DOMAIN c.outbox : EffectOf(c.outbox[i], l, "resume") => c.outbox[i].gen < g
    PROVE  Keeping(c, OpenByResume(c, l, g))
<1>. DEFINE e == ResumeEffect(l, g)
            d == OpenByResume(c, l, g)
<1>1. c \in Chat /\ c.outbox \in Seq(Entry) /\ e \in Entry
  BY EffectType DEF Placed, Chat
<1>2. e.kind = "resume" /\ e.lane = l /\ e.gen = g /\ e.status = "pending" /\ e.op = NoOp
  BY DEF ResumeEffect
<1>. HIDE DEF e
<1>3. /\ d.thread = c.thread /\ d.cand = c.cand /\ d.cgen = c.cgen
      /\ d.phase = [c.phase EXCEPT ![l] = "resuming"] /\ d.gen = [c.gen EXCEPT ![l] = g]
      /\ d.outbox = Record(c.outbox, e)
  BY <1>1 DEF OpenByResume, Chat, e
<1>. HIDE DEF d
<1>4. \A i \in DOMAIN c.outbox : c.outbox[i].gen \in Nat
  BY OutboxEntries DEF Entry
<1>5. \A i \in DOMAIN c.outbox : ~SameEffect(c.outbox[i], e)
  BY <1>2, <1>4 DEF SameEffect, EffectOf
<1>6. Added(c.outbox, d.outbox, e)
  BY <1>1, <1>3, <1>5, RecordAdded
<1>7. PICK n \in DOMAIN d.outbox : /\ d.outbox[n] = e /\ DOMAIN d.outbox = DOMAIN c.outbox \union {n}
                                   /\ n \notin DOMAIN c.outbox
                                   /\ \A i \in DOMAIN c.outbox : d.outbox[i] = c.outbox[i]
  BY <1>6 DEF Added
<1>8. /\ d.phase[l] = "resuming" /\ d.gen[l] = g
      /\ \A k \in Lanes \ {l} : d.phase[k] = c.phase[k] /\ d.gen[k] = c.gen[k]
  BY <1>1, <1>3 DEF Chat
<1>9. LaneOwned(d, l)
  <2>1. LaneOwned(c, l)
    BY DEF LanesOwned
  <2>2. OwesNothing(d, l)
    BY <1>2, <1>3, <1>4, <1>7, <1>8, <2>1 DEF LaneOwned, OwesNothing, EffectOf, Established
  <2>3. Resumed(d, l)
    BY <1>2, <1>7, <1>8 DEF Resumed, EffectOf, Going
  <2>. QED  BY <1>3, <1>8, <2>2, <2>3 DEF LaneOwned
<1>10. ASSUME NEW k \in Lanes \ {l}
       PROVE  LaneOwned(d, k)
  <2>1. LaneOwned(c, k)
    BY DEF LanesOwned
  <2>2. OwesNothing(d, k)
    BY <1>2, <1>3, <1>7, <1>8, <2>1 DEF LaneOwned, OwesNothing, EffectOf
  <2>3. d.phase[k] = "resuming" => Resumed(d, k)
    BY <1>3, <1>7, <1>8, <2>1 DEF LaneOwned, Resumed
  <2>4. c.thread[k] = 0 /\ c.cand[k] = 0 =>
          (d.phase[k] = "creating" => Created(d, k)) /\ OnlyCreate(d, k)
    BY <1>2, <1>3, <1>7, <1>8, <2>1 DEF LaneOwned, Created, OnlyCreate, EffectOf
  <2>. QED  BY <1>3, <2>2, <2>3, <2>4 DEF LaneOwned
<1>11. Keeping(c, d)
  BY <1>3, <1>9, <1>10 DEF Keeping, LanesOwned, Rooted
<1>. QED  BY <1>11 DEF d

\* A recorded start opens nothing.
LEMMA StartCarried ==
    ASSUME NEW b \in Seq(Entry), NEW e \in Entry, e.kind = "start" \/ e.kind = "stop"
    PROVE  /\ Carried(b, Record(b, e)) /\ DOMAIN b \subseteq DOMAIN Record(b, e)
           /\ \A i \in DOMAIN b : Record(b, e)[i] = b[i]
<1>. DEFINE d == Record(b, e)
<1>1. Recorded(b, d, e)
  BY RecordFacts
<1>. HIDE DEF d
<1>2. /\ DOMAIN b \subseteq DOMAIN d /\ \A i \in DOMAIN b : d[i] = b[i]
      /\ \A j \in DOMAIN d \ DOMAIN b : d[j] = e /\ \A i \in DOMAIN b : i < j
  BY <1>1 DEF Recorded
<1>3. Carried(b, d)
  BY <1>2 DEF Carried, Extends, SameEffect, Opening
<1>. QED  BY <1>2, <1>3 DEF d

\* The head of the queue becomes the foreground on a lane that can take it.
LEMMA BeginOwned ==
    ASSUME NEW c \in Placed, LanesOwned(c), NEW l \in Lanes, NEW p,
           c.queue # <<>>, BeginForeground(c, l, p) \in Placed,
           p = c.phase[l] \/ (p = "running" /\ c.thread[l] # 0)
    PROVE  Keeping(c, BeginForeground(c, l, p))
<1>. DEFINE op == Head(c.queue)
            e == StartEffect(l, op)
            d == BeginForeground(c, l, p)
<1>1. c \in Chat /\ c.outbox \in Seq(Entry) /\ op \in Ops /\ d \in Placed
  BY HeadTailProperties DEF Placed, Chat
<1>. HIDE DEF op
<1>2. e \in Entry /\ e.kind = "start"
  BY <1>1, EffectType DEF StartEffect
<1>. HIDE DEF e
<1>3. /\ d.thread = c.thread /\ d.cand = c.cand /\ d.gen = c.gen /\ d.cgen = c.cgen
      /\ d.phase = [c.phase EXCEPT ![l] = p] /\ d.outbox = Record(c.outbox, e)
  BY <1>1 DEF BeginForeground, Chat, e, op
<1>. HIDE DEF d
<1>4. Carried(c.outbox, d.outbox) /\ \A i \in DOMAIN c.outbox : d.outbox[i] = c.outbox[i]
  BY <1>1, <1>2, <1>3, StartCarried
<1>5. d.phase[l] = p /\ \A k \in Lanes \ {l} : d.phase[k] = c.phase[k]
  BY <1>1, <1>3 DEF Chat
<1>6. ASSUME NEW k \in Lanes
      PROVE  Moved(c, d, k)
  <2>1. CASE d.phase[k] = c.phase[k]
    BY <1>3, <1>4, <2>1 DEF Moved, LaneStays
  <2>2. CASE k = l /\ p = "running" /\ c.thread[l] # 0
    BY <1>3, <1>5, <2>2, ChatParts DEF Moved, LaneHolds, Established
  <2>. QED  BY <1>5, <2>1, <2>2
<1>7. Keeping(c, d)
  BY <1>1, <1>4, <1>6, MovedOwned
<1>. QED  BY <1>7 DEF d

\* drive.
LEMMA DriveOwned ==
    ASSUME NEW c \in Placed, LanesOwned(c), NEW covered \in BOOLEAN
    PROVE  Keeping(c, Drive(c, covered))
<1>. DEFINE d == Drive(c, covered)
            l == DriveTarget(c)
<1>1. c \in Chat /\ d \in Placed
  BY DrivePlaced DEF Placed
<1>2. CASE d = c
  <2>. HIDE DEF d
  <2>1. Keeping(c, d)
    BY <1>2 DEF Keeping
  <2>. QED  BY <2>1 DEF d
<1>3. CASE c.fg = NoOp /\ l # NoLane
  <2>1. d = DriveLane(c, l, covered)
    BY <1>3 DEF Drive
  <2>2. l \in Lanes
    <3>1. CASE c.queue # <<>>
      <4>1. Head(c.queue) = c.queue[1] /\ 1 \in 1 .. Len(c.queue)
        BY <1>1, <3>1, HeadTailProperties DEF Chat
      <4>. QED  BY <3>1, <4>1 DEF Placed, DriveTarget
    <3>2. CASE c.queue = <<>>
      BY <1>1, <1>3, <3>2 DEF DriveTarget, Chat
    <3>. QED  BY <3>1, <3>2
  <2>. HIDE DEF l
  <2>3. /\ LaneOwned(c, l) /\ OwesNothing(c, l) /\ c.gen[l] \in Nat /\ c.cgen[l] \in Nat
        /\ \A i \in DOMAIN c.outbox : c.outbox[i].gen \in Nat
    BY <2>2, ChatParts, OutboxEntries DEF LanesOwned, LaneOwned, Entry
  <2>4. CASE c.phase[l] = "absent" /\ d = OpenByCreate(c, l, c.cgen[l] + 1, c.cand[l] # 0)
    <3>1. c.thread[l] = 0
      BY <2>3, <2>4 DEF OwesNothing, Established
    <3>2. \A g \in Nat, r \in BOOLEAN : g > c.cgen[l] => Keeping(c, OpenByCreate(c, l, g, r))
      BY <2>2, <2>4, <3>1, CreateOwned
    <3>3. c.cgen[l] + 1 \in Nat /\ c.cgen[l] + 1 > c.cgen[l] /\ (c.cand[l] # 0) \in BOOLEAN
      BY <2>3
    <3>4. Keeping(c, OpenByCreate(c, l, c.cgen[l] + 1, c.cand[l] # 0))
      BY <3>2, <3>3
    <3>. QED  BY <2>4, <3>4
  <2>5. CASE c.phase[l] = "detached" /\ d = OpenByResume(c, l, c.gen[l] + 1)
    <3>1. c.thread[l] # 0
      BY <2>3, <2>5 DEF OwesNothing, Established
    <3>2. \A i \in DOMAIN c.outbox : EffectOf(c.outbox[i], l, "resume") => c.outbox[i].gen < c.gen[l] + 1
      BY <2>3 DEF OwesNothing
    <3>3. Keeping(c, OpenByResume(c, l, c.gen[l] + 1))
      BY <2>2, <2>3, <3>1, <3>2, ResumeOwned
    <3>. QED  BY <2>5, <3>3
  <2>6. CASE c.phase[l] = "ready" /\ c.queue # <<>> /\ d = BeginForeground(c, l, "running")
    <3>1. c.thread[l] # 0
      BY <2>3, <2>6 DEF OwesNothing, Established
    <3>2. Keeping(c, BeginForeground(c, l, "running"))
      BY <1>1, <2>2, <2>6, <3>1, BeginOwned
    <3>. QED  BY <2>6, <3>2
  <2>7. CASE c.phase[l] = "creating" /\ c.queue # <<>> /\ d = BeginForeground(c, l, "creating")
    <3>1. Keeping(c, BeginForeground(c, l, "creating"))
      BY <1>1, <2>2, <2>7, BeginOwned
    <3>. QED  BY <2>7, <3>1
  <2>8. CASE d = [c EXCEPT !.active = l]
    <3>. HIDE DEF d
    <3>1. /\ d.thread = c.thread /\ d.cand = c.cand /\ d.cgen = c.cgen
          /\ d.phase = c.phase /\ d.gen = c.gen /\ d.outbox = c.outbox
      BY <1>1, <2>8 DEF Chat
    <3>2. Keeping(c, d)
      BY <1>1, <3>1, SameOwned
    <3>. QED  BY <3>2 DEF d
  <2>9. d = c \/ (c.phase[l] = "absent" /\ d = OpenByCreate(c, l, c.cgen[l] + 1, c.cand[l] # 0))
        \/ (c.phase[l] = "detached" /\ d = OpenByResume(c, l, c.gen[l] + 1))
        \/ (c.phase[l] = "ready" /\ c.queue # <<>> /\ d = BeginForeground(c, l, "running"))
        \/ (c.phase[l] = "creating" /\ c.queue # <<>> /\ d = BeginForeground(c, l, "creating"))
        \/ d = [c EXCEPT !.active = l]
    <3>. HIDE DEF d
    <3>. QED  BY <2>1 DEF DriveLane
  <2>. QED  BY <1>2, <2>4, <2>5, <2>6, <2>7, <2>8, <2>9
<1>. QED  BY <1>2, <1>3 DEF Drive

\* A change, and then a drive.
LEMMA DrivenOwned ==
    ASSUME NEW c, NEW m \in Placed, Keeping(c, m), NEW d,
           d = m \/ d = DriveQueued(m) \/ \E covered \in BOOLEAN : d = Drive(m, covered)
    PROVE  Keeping(c, d)
<1>1. LanesOwned(m)
  BY DEF Keeping
<1>2. ASSUME NEW covered \in BOOLEAN, d = Drive(m, covered)
      PROVE  Keeping(c, d)
  BY <1>1, <1>2, DriveOwned, OpensTransitive
<1>. QED  BY <1>2 DEF DriveQueued


(***************************************************************************)
(* Commands of the user, the Stop, and claims.                             *)
(***************************************************************************)
\* Only lane l moves, and comes to rest.
LEMMA RestOwned ==
    ASSUME NEW c \in Placed, NEW d \in Placed, LanesOwned(c), NEW l \in Lanes,
           Carried(c.outbox, d.outbox),
           d.thread = c.thread, d.cand = c.cand, d.cgen = c.cgen, d.gen[l] >= c.gen[l],
           (d.phase[l] \in Established) <=> (c.thread[l] # 0), d.phase[l] # "resuming",
           \A k \in Lanes \ {l} : d.phase[k] = c.phase[k] /\ d.gen[k] = c.gen[k],
           \A i \in DOMAIN c.outbox :
             Opening(c.outbox[i]) /\ c.outbox[i].lane # l /\ Going(c.outbox[i]) => Going(d.outbox[i]),
           c.thread[l] = 0 /\ c.cand[l] = 0 =>
             /\ d.phase[l] # "creating"
             /\ \A i \in DOMAIN d.outbox : EffectOf(d.outbox[i], l, "create") => Over(d.outbox[i])
    PROVE  Keeping(c, d)
<1>1. c.cgen[l] \in Nat
  BY ChatParts
<1>2. Moved(c, d, l)
  <2>1. CASE c.thread[l] # 0
    BY <1>1, <2>1 DEF Moved, LaneHolds
  <2>2. CASE c.thread[l] = 0
    BY <1>1, <2>2 DEF Moved, LaneLacks
  <2>. QED  BY <2>1, <2>2
<1>3. ASSUME NEW k \in Lanes \ {l}
      PROVE  Moved(c, d, k)
  BY DEF Moved, LaneStays
<1>. QED  BY <1>2, <1>3, MovedOwned

\* A lane with neither thread nor candidate that is not being created has no
\* create under way.
LEMMA NoCreateGoes ==
    ASSUME NEW c, NEW d, LanesOwned(c), Carried(c.outbox, d.outbox), NEW l \in Lanes,
           c.thread[l] = 0, c.cand[l] = 0, c.phase[l] # "creating"
    PROVE  \A i \in DOMAIN d.outbox : EffectOf(d.outbox[i], l, "create") => Over(d.outbox[i])
<1>1. OnlyCreate(c, l)
  BY DEF LanesOwned, LaneOwned
<1>. QED  BY <1>1 DEF OnlyCreate, Carried, Extends, SameEffect, Opening, EffectOf

\* A selected or addressed lane that was given up may be opened again.
LEMMA RevivedOwned ==
    ASSUME NEW c \in Placed, NEW m \in Placed, LanesOwned(c), NEW l \in Lanes,
           c.phase[l] \in {"unselected", "blocked"},
           m.thread = c.thread, m.cand = c.cand, m.cgen = c.cgen, m.gen = c.gen,
           m.phase = [c.phase EXCEPT ![l] = "absent"], m.outbox = c.outbox
    PROVE  Keeping(c, m)
<1>1. Carried(c.outbox, m.outbox)
  BY FadesTransitive, FadesCarried
<1>2. m.phase[l] = "absent" /\ \A k \in Lanes \ {l} : m.phase[k] = c.phase[k]
  BY DEF Placed, Chat
<1>3. c.thread[l] = 0 /\ m.gen[l] >= c.gen[l]
  BY ChatParts DEF LanesOwned, LaneOwned, OwesNothing, Established
<1>4. c.cand[l] = 0 => \A i \in DOMAIN m.outbox : EffectOf(m.outbox[i], l, "create") => Over(m.outbox[i])
  BY <1>1, <1>3, NoCreateGoes
<1>. QED  BY <1>1, <1>2, <1>3, <1>4, RestOwned DEF Established

LEMMA SelectLaneOwned ==
    ASSUME NEW c \in Placed, LanesOwned(c), NEW l \in Lanes, NEW covered \in BOOLEAN
    PROVE  Keeping(c, SelectLane(c, l, covered))
<1>. DEFINE again   == c.phase[l] = "unselected" \/ (c.phase[l] = "blocked" /\ c.cand[l] = 0)
            revived == IF again THEN [c EXCEPT !.phase[l] = "absent"] ELSE c
            m == [revived EXCEPT !.desired = l]
            d == SelectLane(c, l, covered)
<1>1. c \in Chat
  BY DEF Placed
<1>2. /\ m \in Chat /\ TurnSame(c, m) /\ m.outbox = c.outbox
      /\ m.thread = c.thread /\ m.cand = c.cand /\ m.cgen = c.cgen /\ m.gen = c.gen
      /\ m.phase = IF again THEN [c.phase EXCEPT ![l] = "absent"] ELSE c.phase
  BY <1>1 DEF Chat, Phases, TurnSame
<1>3. d = IF c.fg # NoOp THEN m ELSE Drive(m, covered)
  BY DEF SelectLane
<1>. HIDE DEF m, d
<1>4. m \in Placed
  BY <1>2, Frame DEF TurnSame
<1>5. Keeping(c, m)
  BY <1>2, <1>4, RevivedOwned, SameOwned
<1>6. Keeping(c, d)
  BY <1>3, <1>4, <1>5, DrivenOwned
<1>. QED  BY <1>6 DEF d

LEMMA SubmitOwned ==
    ASSUME NEW c \in Placed, LanesOwned(c), NEW op \in Ops, NEW l \in Lanes, NEW covered \in BOOLEAN,
           CanSubmit(c, op, l)
    PROVE  Keeping(c, Submit(c, op, l, covered))
<1>. DEFINE revived == IF c.phase[l] = "blocked" THEN [c EXCEPT !.phase[l] = "absent"] ELSE c
            m == [revived EXCEPT !.lane[op] = l, !.queue = Append(@, op)]
            d == Submit(c, op, l, covered)
<1>1. c \in Chat /\ c.queue \in Seq(Ops) /\ c.lane[op] = NoLane
  BY DEF Placed, Chat, CanSubmit
<1>2. /\ m \in Chat /\ m.outbox = c.outbox /\ m.fg = c.fg
      /\ m.thread = c.thread /\ m.cand = c.cand /\ m.cgen = c.cgen /\ m.gen = c.gen
      /\ m.phase = IF c.phase[l] = "blocked" THEN [c.phase EXCEPT ![l] = "absent"] ELSE c.phase
      /\ m.lane = [c.lane EXCEPT ![op] = l] /\ m.queue = Append(c.queue, op)
  <2>1. Append(c.queue, op) \in Seq(Ops)
    BY <1>1
  <2>. QED  BY <1>1, <2>1 DEF Chat, Phases
<1>3. d = Drive(m, covered)
  BY DEF Submit
<1>. HIDE DEF m, d
<1>4. m \in Placed
  <2>1. m.lane[op] \in Lanes /\ \A o \in Ops : c.lane[o] \in Lanes => m.lane[o] \in Lanes
    BY <1>1, <1>2 DEF Chat
  <2>2. \A i \in 1 .. Len(m.queue) : m.lane[m.queue[i]] \in Lanes
    <3>1. \A i \in 1 .. Len(c.queue) : c.queue[i] \in Ops /\ c.lane[c.queue[i]] \in Lanes
      BY <1>1 DEF Placed
    <3>2. Len(c.queue) \in Nat /\ Len(m.queue) = Len(c.queue) + 1 /\ m.queue[Len(c.queue) + 1] = op
          /\ \A i \in 1 .. Len(c.queue) : m.queue[i] = c.queue[i]
      BY <1>1, <1>2
    <3>3. \A i \in 1 .. Len(m.queue) : i \in 1 .. Len(c.queue) \/ i = Len(c.queue) + 1
      BY <3>2
    <3>. QED  BY <2>1, <3>1, <3>2, <3>3
  <2>3. m.fg # NoOp => m.lane[m.fg] \in Lanes
    BY <1>2, <2>1, ChatParts
  <2>. QED  BY <1>2, <2>2, <2>3 DEF Placed
<1>5. Keeping(c, m)
  BY <1>2, <1>4, RevivedOwned, SameOwned
<1>6. Keeping(c, d)
  BY <1>3, <1>4, <1>5, DrivenOwned
<1>. QED  BY <1>6 DEF d

\* The foreground ends: its lane goes to p, or stays.
LEMMA EndedOwned ==
    ASSUME NEW c \in Placed, NEW m \in Placed, LanesOwned(c), NEW l \in Lanes, NEW p,
           m.thread = c.thread, m.cand = c.cand, m.cgen = c.cgen, m.gen = c.gen,
           m.phase = [c.phase EXCEPT ![l] = p], Carried(c.outbox, m.outbox),
           \A i \in DOMAIN c.outbox : Opening(c.outbox[i]) /\ Going(c.outbox[i]) =>
             Going(m.outbox[i]) \/ (c.outbox[i].kind = "resume" /\ c.outbox[i].lane = l),
           \/ p = c.phase[l] /\ p # "resuming"
           \/ (p \in Established <=> c.thread[l] # 0) /\ p # "resuming" /\ Rooted(c, l)
    PROVE  Keeping(c, m)
<1>1. m.phase[l] = p /\ \A k \in Lanes \ {l} : m.phase[k] = c.phase[k]
  BY DEF Placed, Chat
<1>2. ASSUME NEW k \in Lanes \ {l}
      PROVE  Moved(c, m, k)
  BY <1>1 DEF Moved, LaneStays
<1>3. OwesNothing(c, l) /\ c.gen[l] \in Nat /\ c.cgen[l] \in Nat
  BY ChatParts DEF LanesOwned, LaneOwned
<1>4. Moved(c, m, l)
  <2>1. CASE c.thread[l] # 0
    BY <1>1, <1>3, <2>1 DEF Moved, LaneHolds, OwesNothing
  <2>2. CASE c.thread[l] = 0 /\ p = c.phase[l]
    <3>1. \A i \in DOMAIN c.outbox : ~(c.outbox[i].kind = "resume" /\ c.outbox[i].lane = l)
      BY <1>3, <2>2 DEF OwesNothing, EffectOf
    <3>. QED  BY <1>1, <2>2, <3>1 DEF Moved, LaneStays
  <2>3. CASE c.thread[l] = 0 /\ p \notin Established /\ Rooted(c, l)
    BY <1>1, <1>3, <2>3 DEF Moved, LaneLacks, Rooted
  <2>. QED  BY <2>1, <2>2, <2>3
<1>. QED  BY <1>2, <1>4, MovedOwned

LEMMA WithdrawOwned ==
    ASSUME NEW c \in Placed, LanesOwned(c), NEW op \in Ops, CanWithdraw(c, op), NEW covered \in BOOLEAN
    PROVE  Keeping(c, Withdraw(c, op, covered))
<1>. DEFINE l == c.lane[op]
            box == Mark(c.outbox, Starts(c, op), "failed")
            phase == IF c.phase[l] = "running" THEN "ready" ELSE c.phase[l]
            unbegun == [c EXCEPT !.outbox = box,
                                 !.phase[l] = IF @ = "running" THEN "ready" ELSE @]
            dropped == IF c.fg = op THEN ClearForeground(unbegun)
                       ELSE [c EXCEPT !.queue = RemoveFirst(@, FirstOf(@, {op}))]
            m == [dropped EXCEPT !.fate[op] = "withdrawn"]
            d == Withdraw(c, op, covered)
<1>1. c \in Chat /\ c.queue \in Seq(Ops) /\ box \in Seq(Entry)
  BY MarkType DEF Placed, Chat, Statuses
<1>2. d = Drive(m, covered)
  BY DEF Withdraw
<1>3. /\ Carried(c.outbox, box)
      /\ \A i \in DOMAIN c.outbox : Opening(c.outbox[i]) => box[i] = c.outbox[i]
  BY OutboxEntries, MarkTurnCarried DEF Starts
<1>. HIDE DEF box, d
<1>4. CASE c.fg = op
  <2>1. l \in Lanes /\ op # NoOp
    BY <1>4, ChatParts, NoOpIsNoOp
  <2>2. /\ m \in Chat /\ m.queue = c.queue /\ m.fg = NoOp /\ m.lane = c.lane
        /\ m.thread = c.thread /\ m.cand = c.cand /\ m.cgen = c.cgen /\ m.gen = c.gen
        /\ m.phase = [c.phase EXCEPT ![l] = phase] /\ m.outbox = box
    <3>. HIDE DEF l
    <3>1. unbegun = [c EXCEPT !.outbox = box, !.phase = [c.phase EXCEPT ![l] = phase]]
      BY <1>1
    <3>2. phase \in Phases
      BY <1>1, <2>1 DEF Chat, Phases
    <3>. HIDE DEF phase
    <3>3. unbegun \in Chat
      <4>1. [c.phase EXCEPT ![l] = phase] \in [Lanes -> Phases]
        BY <1>1, <3>2 DEF Chat
      <4>. HIDE DEF unbegun
      <4>. QED  BY <1>1, <3>1, <4>1 DEF Chat
    <3>4. /\ unbegun.outbox = box /\ unbegun.phase = [c.phase EXCEPT ![l] = phase]
          /\ unbegun.queue = c.queue /\ unbegun.lane = c.lane /\ unbegun.thread = c.thread
          /\ unbegun.cand = c.cand /\ unbegun.cgen = c.cgen /\ unbegun.gen = c.gen
      BY <1>1, <3>1 DEF Chat
    <3>. HIDE DEF unbegun
    <3>5. m = [unbegun EXCEPT !.fg = NoOp, !.running = FALSE, !.consumed = FALSE,
                              !.fate = [@ EXCEPT ![op] = "withdrawn"]]
      BY <1>4, <3>3 DEF ClearForeground, Chat
    <3>. HIDE DEF m
    <3>. QED  BY <3>3, <3>4, <3>5 DEF Chat, Fates
  <2>. HIDE DEF m, l
  <2>3. m \in Placed
    BY <2>2, Frame
  <2>4. CASE c.phase[l] = "resuming"
    <3>1. m.phase = c.phase
      BY <1>1, <2>2, <2>4 DEF Chat
    <3>2. Keeping(c, m)
      BY <1>3, <2>2, <2>3, <3>1, StillOwned
    <3>. QED  BY <1>2, <2>3, <3>2, DrivenOwned DEF d
  <2>5. CASE c.phase[l] # "resuming"
    <3>1. c.phase[l] = "running" => c.thread[l] # 0
      BY <2>1 DEF LanesOwned, LaneOwned, OwesNothing, Established
    <3>2. \/ phase = c.phase[l] /\ phase # "resuming"
          \/ (phase \in Established <=> c.thread[l] # 0) /\ phase # "resuming" /\ Rooted(c, l)
      BY <2>5, <3>1 DEF Established, Rooted
    <3>. HIDE DEF phase
    <3>3. Keeping(c, m)
      BY <1>3, <2>1, <2>2, <2>3, <3>2, EndedOwned
    <3>. QED  BY <1>2, <2>3, <3>3, DrivenOwned DEF d
  <2>. QED  BY <2>4, <2>5
<1>5. CASE c.fg # op
  <2>. DEFINE i == FirstOf(c.queue, {op})
              q == RemoveFirst(c.queue, i)
  <2>1. i \in 1 .. Len(c.queue)
    BY <1>1, <1>5, FirstOfIn DEF CanWithdraw, QueuedOps
  <2>2. q \in Seq(Ops)
    BY <1>1, <2>1, RemoveFirstType
  <2>3. [c EXCEPT !.queue = q] \in Placed
    BY <2>1, RemovePlaced
  <2>. HIDE DEF i, q
  <2>4. /\ m \in Chat /\ m.queue = q /\ m.fg = c.fg /\ m.lane = c.lane
        /\ m.thread = c.thread /\ m.cand = c.cand /\ m.cgen = c.cgen /\ m.gen = c.gen
        /\ m.phase = c.phase /\ m.outbox = c.outbox
    BY <1>1, <1>5, <2>2 DEF Chat, Fates, q, i
  <2>. HIDE DEF m
  <2>5. m \in Placed
    <3>1. [c EXCEPT !.queue = q].queue = q /\ [c EXCEPT !.queue = q].lane = c.lane
          /\ [c EXCEPT !.queue = q].fg = c.fg
      BY <1>1 DEF Chat
    <3>. QED  BY <2>3, <2>4, <3>1, Frame
  <2>6. Keeping(c, m)
    BY <2>4, <2>5, SameOwned
  <2>. QED  BY <1>2, <2>5, <2>6, DrivenOwned DEF d
<1>. QED  BY <1>4, <1>5


\* Marks that leave the openings going.
LEMMA MarkedOwned ==
    ASSUME NEW c \in Placed, LanesOwned(c), NEW d, NEW ids, NEW status \in Statuses,
           NEW stopping \in BOOLEAN,
           d = [c EXCEPT !.outbox = Mark(@, ids, status), !.stopping = stopping],
           \A i \in DOMAIN c.outbox : i \in ids /\ Opening(c.outbox[i]) =>
             ~Over(c.outbox[i]) /\ status = "dispatched"
    PROVE  d \in Placed /\ Keeping(c, d)
<1>. DEFINE box == Mark(c.outbox, ids, status)
<1>1. c \in Chat /\ c.outbox \in Seq(Entry) /\ box \in Seq(Entry)
  BY MarkType DEF Placed, Chat
<1>2. /\ Fades(c.outbox, box) /\ DOMAIN box = DOMAIN c.outbox
      /\ \A i \in DOMAIN c.outbox : /\ i \in ids => box[i].status = status
                                    /\ i \notin ids => box[i] = c.outbox[i]
  BY <1>1, MarkFades, MarkFacts
<1>. HIDE DEF box
<1>3. /\ d \in Chat /\ d.thread = c.thread /\ d.cand = c.cand /\ d.cgen = c.cgen
      /\ d.phase = c.phase /\ d.gen = c.gen /\ d.queue = c.queue /\ d.lane = c.lane
      /\ d.fg = c.fg /\ d.outbox = box
  BY <1>1 DEF Chat, box
<1>4. d \in Placed /\ Carried(c.outbox, d.outbox)
  BY <1>2, <1>3, Frame, FadesCarried
<1>5. \A i \in DOMAIN c.outbox : Opening(c.outbox[i]) /\ Going(c.outbox[i]) => Going(d.outbox[i])
  BY <1>2, <1>3 DEF Going
<1>. QED  BY <1>3, <1>4, <1>5, StillOwned

LEMMA StopOwned ==
    ASSUME NEW c \in Placed, LanesOwned(c), CanStop(c)
    PROVE  Keeping(c, StopTurn(c))
<1>. DEFINE d == StopTurn(c)
            e == StopEffect(c.lane[c.fg], c.fg, Cardinality(Stops(c, c.fg)) + 1)
<1>1. c \in Chat /\ d \in Placed
  BY StopPlaced DEF Placed
<1>2. d = [c EXCEPT !.stopping = TRUE, !.outbox = Record(@, e)]
  BY DEF StopTurn
<1>3. e \in Entry /\ e.kind = "stop"
  <2>1. Cardinality(Stops(c, c.fg)) + 1 \in Nat
    <3>1. IsFiniteSet(1 .. Len(c.outbox))
      BY OutboxEntries, FS_Interval
    <3>2. Stops(c, c.fg) \subseteq 1 .. Len(c.outbox)
      BY OutboxEntries DEF Stops
    <3>. QED  BY <3>1, <3>2, FS_Subset, FS_CardinalityType
  <2>2. c.fg \in Ops /\ c.lane[c.fg] \in Lanes
    BY ChatParts DEF CanStop
  <2>. QED  BY <2>1, <2>2, EffectType DEF StopEffect
<1>. HIDE DEF d, e
<1>4. /\ d.thread = c.thread /\ d.cand = c.cand /\ d.cgen = c.cgen /\ d.phase = c.phase
      /\ d.gen = c.gen /\ d.outbox = Record(c.outbox, e)
  BY <1>1, <1>2 DEF Chat
<1>5. Carried(c.outbox, d.outbox) /\ \A i \in DOMAIN c.outbox : d.outbox[i] = c.outbox[i]
  BY <1>3, <1>4, OutboxEntries, StartCarried
<1>6. Keeping(c, d)
  BY <1>1, <1>4, <1>5, StillOwned
<1>. QED  BY <1>6 DEF d

LEMMA StopAnsweredOwned ==
    ASSUME NEW c \in Placed, LanesOwned(c)
    PROVE  Keeping(c, StopAcknowledged(c)) /\ Keeping(c, StopFailed(c))
<1>1. c \in Chat /\ c.stopping \in BOOLEAN /\ {"accepted", "failed"} \subseteq Statuses
  BY DEF Placed, Chat, Statuses
<1>2. \A i \in DOMAIN c.outbox : i \in CurrentStop(c) => ~Opening(c.outbox[i])
  BY DEF CurrentStop, Stops, Opening
<1>3. StopAcknowledged(c) = [c EXCEPT !.outbox = Mark(@, CurrentStop(c), "accepted"),
                                      !.stopping = c.stopping]
  BY <1>1 DEF StopAcknowledged, Chat
<1>4. Keeping(c, StopAcknowledged(c))
  BY <1>1, <1>2, <1>3, MarkedOwned
<1>5. Keeping(c, StopFailed(c))
  BY <1>1, <1>2, MarkedOwned DEF StopFailed
<1>. QED  BY <1>4, <1>5

\* A claim takes a pending effect.
LEMMA ClaimOwned ==
    ASSUME NEW c \in Placed, LanesOwned(c), NEW ids,
           \A i \in DOMAIN c.outbox : i \in ids /\ Opening(c.outbox[i]) => c.outbox[i].status = "pending"
    PROVE  Keeping(c, [c EXCEPT !.outbox = Mark(@, ids, "dispatched")])
<1>1. c \in Chat /\ c.stopping \in BOOLEAN /\ "dispatched" \in Statuses
  BY DEF Placed, Chat, Statuses
<1>2. [c EXCEPT !.outbox = Mark(@, ids, "dispatched")]
        = [c EXCEPT !.outbox = Mark(@, ids, "dispatched"), !.stopping = c.stopping]
  BY <1>1 DEF Chat
<1>3. \A i \in DOMAIN c.outbox : i \in ids /\ Opening(c.outbox[i]) => ~Over(c.outbox[i])
  BY DEF Over
<1>. QED  BY <1>1, <1>2, <1>3, MarkedOwned

LEMMA TurnDeferredOwned ==
    ASSUME NEW c \in Placed, LanesOwned(c), NEW op
    PROVE  Keeping(c, TurnDeferred(c, op))
<1>. DEFINE ids == {i \in Starts(c, op) : c.outbox[i].status = "dispatched"}
<1>1. c \in Chat /\ c.stopping \in BOOLEAN /\ "pending" \in Statuses
  BY DEF Placed, Chat, Statuses
<1>2. \A i \in DOMAIN c.outbox : i \in ids => ~Opening(c.outbox[i])
  BY DEF Starts, Opening
<1>3. CASE TurnDeferred(c, op) = [c EXCEPT !.outbox = Mark(@, ids, "pending")]
  <2>. HIDE DEF ids
  <2>1. TurnDeferred(c, op) = [c EXCEPT !.outbox = Mark(@, ids, "pending"), !.stopping = c.stopping]
    BY <1>1, <1>3 DEF Chat
  <2>. QED  BY <1>1, <1>2, <2>1, MarkedOwned
<1>4. CASE TurnDeferred(c, op) = c
  BY <1>4 DEF Keeping
<1>. QED  BY <1>3, <1>4 DEF TurnDeferred

(***************************************************************************)
(* Settling the foreground.                                                *)
(***************************************************************************)
\* What terminalizeInterruptedForeground leaves of the openings, when the lane
\* of the foreground went to phase p before.
LEMMA VacatedOwned ==
    ASSUME NEW c \in Placed, LanesOwned(c), NEW u, NEW m \in Placed, Vacated(u, m),
           NEW l \in Lanes, u.lane[u.fg] = l, NEW p,
           u.thread = c.thread, u.cand = c.cand, u.cgen = c.cgen, u.gen = c.gen,
           u.phase = [c.phase EXCEPT ![l] = p], Carried(c.outbox, u.outbox),
           DOMAIN u.outbox = DOMAIN c.outbox,
           \A i \in DOMAIN c.outbox : Opening(c.outbox[i]) => u.outbox[i] = c.outbox[i],
           \/ p = c.phase[l] /\ p # "resuming"
           \/ (p \in Established <=> c.thread[l] # 0) /\ p # "resuming" /\ Rooted(c, l)
    PROVE  Keeping(c, m)
<1>1. /\ m.thread = c.thread /\ m.cand = c.cand /\ m.cgen = c.cgen /\ m.gen = c.gen
      /\ m.phase = [c.phase EXCEPT ![l] = p]
  BY DEF Vacated
<1>2. Carried(c.outbox, m.outbox)
  <2>1. Carried(u.outbox, m.outbox)
    BY FadesCarried DEF Vacated
  <2>. QED  BY <2>1, CarriedTransitive
<1>3. \A i \in DOMAIN c.outbox : Opening(c.outbox[i]) /\ Going(c.outbox[i]) =>
        Going(m.outbox[i]) \/ (c.outbox[i].kind = "resume" /\ c.outbox[i].lane = l)
  BY DEF Vacated, Opening
<1>. QED  BY <1>1, <1>2, <1>3, EndedOwned

\* The lane of a foreground that is admitted, sent or given up has a thread or
\* a candidate.
LEMMA ForegroundRooted ==
    ASSUME NEW c \in Placed, LanesOwned(c), Shaped(c), c.fg # NoOp
    PROVE  /\ FgLane(c) \in Lanes /\ FgLane(c) = c.lane[c.fg] /\ Rooted(c, FgLane(c))
           /\ (Unattached(c, FgLane(c)) \in Established) <=> (c.thread[FgLane(c)] # 0)
           /\ Unattached(c, FgLane(c)) # "resuming"
<1>1. FgLane(c) \in Lanes /\ FgLane(c) = c.lane[c.fg]
  BY ChatParts
<1>. QED  BY <1>1 DEF Shaped, ForegroundFits, PhasesFit, Rooted, Established, Unattached

LEMMA TurnAmbiguousOwned ==
    ASSUME NEW c \in Placed, LanesOwned(c), Shaped(c), c.fg # NoOp
    PROVE  Keeping(c, TurnAmbiguous(c))
<1>. DEFINE l == c.lane[c.fg]
            box == Mark(c.outbox, Starts(c, c.fg), "ambiguous")
            phase == Unattached(c, l)
            u == [c EXCEPT !.phase[l] = phase, !.outbox = box]
            m == Interrupted(u)
            d == TurnAmbiguous(c)
<1>1. c \in Chat /\ box \in Seq(Entry) /\ c.outbox \in Seq(Entry) /\ phase \in Phases
  BY MarkType, UnattachedType DEF Placed, Chat, Statuses
<1>2. /\ l \in Lanes /\ (phase \in Established <=> c.thread[l] # 0) /\ phase # "resuming"
      /\ Rooted(c, l)
  BY ForegroundRooted
<1>3. d = DriveQueued(m)
  BY DEF TurnAmbiguous
<1>4. /\ Carried(c.outbox, box) /\ DOMAIN box = DOMAIN c.outbox
      /\ \A i \in DOMAIN c.outbox : Opening(c.outbox[i]) => box[i] = c.outbox[i]
  BY <1>1, MarkTurnCarried, MarkFacts DEF Starts
<1>. HIDE DEF box, phase, d
<1>5. /\ u \in Chat /\ u.thread = c.thread /\ u.cand = c.cand /\ u.cgen = c.cgen /\ u.gen = c.gen
      /\ u.phase = [c.phase EXCEPT ![l] = phase] /\ u.outbox = box /\ u.queue = c.queue
      /\ u.lane = c.lane /\ u.fg = c.fg
  <2>. HIDE DEF l
  <2>. QED  BY <1>1, <1>2 DEF Chat
<1>. HIDE DEF u
<1>6. m \in Placed /\ Vacated(u, m) /\ u.lane[u.fg] = l
  BY <1>5, Frame, InterruptedCleared
<1>. HIDE DEF m, l
<1>7. Keeping(c, m)
  BY <1>2, <1>4, <1>5, <1>6, VacatedOwned
<1>. QED  BY <1>3, <1>6, <1>7, DrivenOwned DEF d

LEMMA TurnRefusedOwned ==
    ASSUME NEW c \in Placed, LanesOwned(c), Shaped(c), c.fg # NoOp
    PROVE  Keeping(c, TurnRefused(c))
<1>. DEFINE l == c.lane[c.fg]
            box == Mark(c.outbox, Starts(c, c.fg), "failed")
            phase == Unattached(c, l)
            m == ClearForeground([c EXCEPT !.phase[l] = phase, !.fate[c.fg] = "refused",
                                           !.outbox = box])
            d == TurnRefused(c)
<1>1. c \in Chat /\ box \in Seq(Entry) /\ c.outbox \in Seq(Entry) /\ phase \in Phases
  BY MarkType, UnattachedType DEF Placed, Chat, Statuses
<1>2. /\ l \in Lanes /\ (phase \in Established <=> c.thread[l] # 0) /\ phase # "resuming"
      /\ Rooted(c, l)
  BY ForegroundRooted
<1>3. d = DriveQueued(m)
  BY DEF TurnRefused
<1>4. /\ Carried(c.outbox, box)
      /\ \A i \in DOMAIN c.outbox : Opening(c.outbox[i]) => box[i] = c.outbox[i]
  BY <1>1, MarkTurnCarried DEF Starts
<1>. HIDE DEF box, phase, d, l
<1>5. /\ m \in Chat /\ m.thread = c.thread /\ m.cand = c.cand /\ m.cgen = c.cgen /\ m.gen = c.gen
      /\ m.phase = [c.phase EXCEPT ![l] = phase] /\ m.outbox = box /\ m.queue = c.queue
      /\ m.lane = c.lane /\ m.fg = NoOp
  <2>1. [c.phase EXCEPT ![l] = phase] \in [Lanes -> Phases]
    BY <1>1 DEF Chat
  <2>2. [c.fate EXCEPT ![c.fg] = "refused"] \in [Ops -> Fates]
    BY <1>1 DEF Chat, Fates
  <2>3. m = [c EXCEPT !.phase = [c.phase EXCEPT ![l] = phase],
                      !.fate = [c.fate EXCEPT ![c.fg] = "refused"], !.outbox = box,
                      !.fg = NoOp, !.running = FALSE, !.consumed = FALSE]
    BY <1>1 DEF ClearForeground, Chat
  <2>. HIDE DEF m
  <2>. QED  BY <1>1, <2>1, <2>2, <2>3 DEF Chat
<1>. HIDE DEF m
<1>6. m \in Placed
  BY <1>5, Frame
<1>7. Keeping(c, m)
  BY <1>2, <1>4, <1>5, <1>6, EndedOwned
<1>. QED  BY <1>3, <1>6, <1>7, DrivenOwned DEF d


\* The terminal that stands for the receipt opens nothing and closes nothing.
LEMMA HeardCarried ==
    ASSUME NEW c \in Placed, NEW kept \in Placed, kept.outbox = c.outbox,
           NEW heard, heard = InputConsumed(kept, 0)
    PROVE  /\ Carried(c.outbox, heard.outbox) /\ DOMAIN heard.outbox = DOMAIN c.outbox
           /\ \A i \in DOMAIN c.outbox : Opening(c.outbox[i]) => heard.outbox[i] = c.outbox[i]
<1>. DEFINE box == Mark(c.outbox, Starts(kept, kept.fg), "consumed")
<1>1. kept \in Chat /\ c.outbox \in Seq(Entry)
  BY DEF Placed, Chat
<1>2. /\ Carried(c.outbox, box) /\ DOMAIN box = DOMAIN c.outbox
      /\ \A i \in DOMAIN c.outbox : Opening(c.outbox[i]) => box[i] = c.outbox[i]
  BY <1>1, MarkTurnCarried, MarkFacts DEF Starts
<1>3. Carried(c.outbox, c.outbox)
  BY FadesTransitive, FadesCarried
<1>. HIDE DEF box
<1>4. heard.outbox \in {c.outbox, box}
  <2>1. heard = kept \/ heard = [kept EXCEPT !.consumed = TRUE, !.outbox = box]
    BY DEF InputConsumed, box
  <2>. QED  BY <1>1, <2>1 DEF Chat
<1>. QED  BY <1>2, <1>3, <1>4

LEMMA TurnTerminatedOwned ==
    ASSUME NEW c \in Placed, LanesOwned(c), Shaped(c), c.running, NEW interrupted \in BOOLEAN,
           NEW covered \in BOOLEAN
    PROVE  Keeping(c, TurnTerminated(c, interrupted, covered))
<1>. DEFINE l == c.lane[c.fg]
            kept == IF interrupted THEN Requeued(c) ELSE c
            cut == Interrupted(kept)
            unreceipted == [cut EXCEPT !.phase[l] = "creating",
                                       !.outbox = Mark(@, Starts(c, c.fg), "completed")]
            heard == InputConsumed(kept, 0)
            fate == IF c.consumed THEN "answered" ELSE "presumed"
            box1 == IF c.stopping THEN Mark(heard.outbox, CurrentStop(c), "completed")
                    ELSE heard.outbox
            box2 == Mark(box1, Starts(c, c.fg), "completed")
            answered == ClearForeground(
              [heard EXCEPT !.phase[l] = "ready", !.stopping = FALSE, !.fate[c.fg] = fate,
                            !.outbox = box2])
            m == IF c.cand[l] # 0 /\ ~c.consumed THEN unreceipted ELSE answered
            d == TurnTerminated(c, interrupted, covered)
<1>1. c \in Chat /\ c.outbox \in Seq(Entry) /\ "completed" \in Statuses
  BY DEF Placed, Chat, Statuses
<1>2. c.fg # NoOp /\ l \in Lanes /\ FgLane(c) = l
  BY ChatParts DEF Shaped, ForegroundFits
<1>3. d = Drive(m, covered)
  BY DEF TurnTerminated
<1>4. /\ kept \in Placed
      /\ kept.thread = c.thread /\ kept.cand = c.cand /\ kept.cgen = c.cgen /\ kept.gen = c.gen
      /\ kept.phase = c.phase /\ kept.outbox = c.outbox /\ kept.fg = c.fg
      /\ kept.lane[c.fg] = c.lane[c.fg] /\ kept.stopping = c.stopping
  BY RequeuedCalm
<1>. HIDE DEF kept, d, l
<1>8. fate \in Fates
  BY DEF Fates
<1>9. /\ heard \in Placed /\ heard.thread = c.thread /\ heard.cand = c.cand
      /\ heard.cgen = c.cgen /\ heard.gen = c.gen /\ heard.phase = c.phase
      /\ heard.queue = kept.queue /\ heard.lane = kept.lane /\ heard.stopping = c.stopping
      /\ heard.outbox \in Seq(Entry)
  BY <1>4, HeardCalm
<1>10. /\ Carried(c.outbox, heard.outbox) /\ DOMAIN heard.outbox = DOMAIN c.outbox
       /\ \A i \in DOMAIN c.outbox : Opening(c.outbox[i]) => heard.outbox[i] = c.outbox[i]
  BY <1>4, HeardCarried
<1>. HIDE DEF heard, fate
<1>5. c.phase[l] # "resuming" /\ (c.cand[l] # 0 => c.phase[l] = "creating" /\ c.thread[l] = 0)
      /\ (c.cand[l] = 0 => c.phase[l] = "running" /\ c.thread[l] # 0)
  <2>1. c.phase[l] = "running" \/ (c.phase[l] = "creating" /\ c.cand[l] # 0)
    BY <1>2 DEF Shaped, ForegroundFits
  <2>. QED  BY <1>2, <2>1 DEF Shaped, PhasesFit, Established
<1>6. CASE c.cand[l] # 0 /\ ~c.consumed
  <2>. DEFINE box == Mark(cut.outbox, Starts(c, c.fg), "completed")
  <2>1. cut \in Placed /\ Vacated(kept, cut)
    BY <1>4, InterruptedCleared
  <2>. HIDE DEF cut
  <2>2. cut \in Chat /\ cut.outbox \in Seq(Entry)
    BY <2>1 DEF Placed, Chat
  <2>3. /\ box \in Seq(Entry) /\ Carried(cut.outbox, box)
        /\ \A i \in DOMAIN cut.outbox : Opening(cut.outbox[i]) => box[i] = cut.outbox[i]
    <3>1. \A i \in DOMAIN cut.outbox : i \in Starts(c, c.fg) => cut.outbox[i].kind \in {"start", "stop"}
      BY <1>4, <2>1 DEF Vacated, Fades, Extends, SameEffect, Starts
    <3>. QED  BY <1>1, <2>2, <3>1, MarkTurnCarried, MarkType
  <2>4. m = [cut EXCEPT !.phase[l] = "creating", !.outbox = box]
    BY <1>6
  <2>. HIDE DEF m, box
  <2>5. /\ m \in Chat /\ m.thread = c.thread /\ m.cand = c.cand /\ m.cgen = c.cgen /\ m.gen = c.gen
        /\ m.phase = [c.phase EXCEPT ![l] = "creating"] /\ m.outbox = box /\ m.queue = kept.queue
        /\ m.lane = kept.lane /\ m.fg = NoOp
    <3>1. [c.phase EXCEPT ![l] = "creating"] \in [Lanes -> Phases]
      BY <1>1 DEF Chat, Phases
    <3>2. m = [cut EXCEPT !.phase = [c.phase EXCEPT ![l] = "creating"], !.outbox = box]
      BY <1>4, <2>1, <2>2, <2>4 DEF Vacated
    <3>. QED  BY <1>4, <2>1, <2>2, <2>3, <3>1, <3>2 DEF Vacated, Chat
  <2>6. m \in Placed
    BY <1>4, <2>5, Frame
  <2>7. /\ Carried(c.outbox, m.outbox)
        /\ \A i \in DOMAIN c.outbox : Opening(c.outbox[i]) /\ Going(c.outbox[i]) =>
             Going(m.outbox[i]) \/ (c.outbox[i].kind = "resume" /\ c.outbox[i].lane = l)
    <3>1. Carried(c.outbox, cut.outbox) /\ DOMAIN cut.outbox = DOMAIN c.outbox
      BY <1>4, <2>1, FadesCarried DEF Vacated
    <3>2. \A i \in DOMAIN c.outbox : Opening(c.outbox[i]) /\ Going(c.outbox[i]) =>
             Going(cut.outbox[i]) \/ (c.outbox[i].kind = "resume" /\ c.outbox[i].lane = l)
      <4>1. kept.lane[kept.fg] = l
        BY <1>4 DEF l
      <4>. QED  BY <1>4, <2>1, <4>1 DEF Vacated, Opening
    <3>3. \A i \in DOMAIN c.outbox : Opening(c.outbox[i]) => Opening(cut.outbox[i])
      BY <3>1 DEF Carried, Extends, SameEffect, Opening
    <3>. QED  BY <2>3, <2>5, <3>1, <3>2, <3>3, CarriedTransitive
  <2>8. Keeping(c, m)
    BY <1>2, <1>5, <1>6, <2>5, <2>6, <2>7, EndedOwned
  <2>. QED  BY <1>3, <2>6, <2>8, DrivenOwned DEF d
<1>7. CASE ~(c.cand[l] # 0 /\ ~c.consumed)
  <2>1. c.cand[l] = 0
    BY <1>2, <1>7 DEF Shaped, ForegroundFits
  <2>2. /\ box2 \in Seq(Entry) /\ Carried(c.outbox, box2)
        /\ \A i \in DOMAIN c.outbox : Opening(c.outbox[i]) => box2[i] = c.outbox[i]
    <3>1. /\ box1 \in Seq(Entry) /\ Carried(c.outbox, box1) /\ DOMAIN box1 = DOMAIN c.outbox
          /\ \A i \in DOMAIN c.outbox : Opening(c.outbox[i]) => box1[i] = c.outbox[i]
      <4>1. CASE c.stopping
        <5>. DEFINE box == Mark(heard.outbox, CurrentStop(c), "completed")
        <5>1. \A i \in DOMAIN heard.outbox : i \in CurrentStop(c) =>
                  heard.outbox[i].kind \in {"start", "stop"}
          BY <1>10 DEF Carried, Extends, SameEffect, CurrentStop, Stops
        <5>2. /\ box \in Seq(Entry) /\ Carried(heard.outbox, box)
              /\ DOMAIN box = DOMAIN heard.outbox
              /\ \A i \in DOMAIN heard.outbox : Opening(heard.outbox[i]) => box[i] = heard.outbox[i]
          BY <1>1, <1>9, <5>1, MarkTurnCarried, MarkType, MarkFacts
        <5>3. box1 = box
          BY <4>1
        <5>4. \A i \in DOMAIN c.outbox : Opening(c.outbox[i]) => Opening(heard.outbox[i])
          BY <1>10 DEF Carried, Extends, SameEffect, Opening
        <5>. HIDE DEF box1, box
        <5>. QED  BY <1>10, <5>2, <5>3, <5>4, CarriedTransitive
      <4>2. CASE ~c.stopping
        BY <1>9, <1>10, <4>2
      <4>. QED  BY <4>1, <4>2
    <3>. HIDE DEF box1
    <3>2. \A i \in DOMAIN box1 : i \in Starts(c, c.fg) => box1[i].kind \in {"start", "stop"}
      BY <3>1 DEF Carried, Extends, SameEffect, Starts
    <3>3. /\ box2 \in Seq(Entry) /\ Carried(box1, box2)
          /\ \A i \in DOMAIN box1 : Opening(box1[i]) => box2[i] = box1[i]
      BY <1>1, <3>1, <3>2, MarkTurnCarried, MarkType
    <3>. HIDE DEF box2
    <3>. QED  BY <3>1, <3>3, CarriedTransitive
  <2>. HIDE DEF box2
  <2>3. m = answered
    BY <1>7
  <2>9. heard \in Chat /\ box2 \in Seq(Entry)
    BY <1>9, <2>2 DEF Placed
  <2>4. /\ m \in Chat /\ m.thread = c.thread /\ m.cand = c.cand /\ m.cgen = c.cgen /\ m.gen = c.gen
        /\ m.phase = [c.phase EXCEPT ![l] = "ready"] /\ m.outbox = box2 /\ m.queue = kept.queue
        /\ m.lane = kept.lane /\ m.fg = NoOp
    <3>1. [c.phase EXCEPT ![l] = "ready"] \in [Lanes -> Phases]
      BY <1>1 DEF Chat, Phases
    <3>2. [heard.fate EXCEPT ![c.fg] = fate] \in [Ops -> Fates]
      BY <1>8, <2>9 DEF Chat
    <3>3. m = [heard EXCEPT !.phase = [c.phase EXCEPT ![l] = "ready"],
                            !.fate = [heard.fate EXCEPT ![c.fg] = fate], !.outbox = box2,
                            !.stopping = FALSE, !.fg = NoOp, !.running = FALSE, !.consumed = FALSE]
      <4>. HIDE DEF m
      <4>. QED  BY <1>9, <2>3, <2>9 DEF ClearForeground, Chat
    <3>. HIDE DEF m
    <3>4. m \in Chat
      BY <2>9, <3>1, <3>2, <3>3 DEF Chat
    <3>5. /\ m.thread = heard.thread /\ m.cand = heard.cand /\ m.cgen = heard.cgen
          /\ m.gen = heard.gen
          /\ m.phase = [c.phase EXCEPT ![l] = "ready"] /\ m.outbox = box2 /\ m.queue = heard.queue
          /\ m.lane = heard.lane /\ m.fg = NoOp
      BY <2>9, <3>3 DEF Chat
    <3>. QED  BY <1>9, <3>4, <3>5
  <2>. HIDE DEF m
  <2>5. m \in Placed
    BY <1>4, <2>4, Frame
  <2>6. ("ready" \in Established <=> c.thread[l] # 0) /\ "ready" # "resuming" /\ Rooted(c, l)
    BY <1>5, <2>1 DEF Established, Rooted
  <2>7. Keeping(c, m)
    BY <1>2, <2>2, <2>4, <2>5, <2>6, EndedOwned
  <2>. QED  BY <1>3, <2>5, <2>7, DrivenOwned DEF d
<1>. QED  BY <1>6, <1>7


(***************************************************************************)
(* Receipts.                                                               *)
(***************************************************************************)
\* Only lane l moves.
LEMMA LocalOwned ==
    ASSUME NEW c \in Placed, NEW d \in Placed, LanesOwned(c), NEW l \in Lanes,
           Carried(c.outbox, d.outbox), Moved(c, d, l),
           \A k \in Lanes \ {l} :
             /\ d.phase[k] = c.phase[k] /\ d.thread[k] = c.thread[k] /\ d.cand[k] = c.cand[k]
             /\ d.gen[k] = c.gen[k] /\ d.cgen[k] = c.cgen[k],
           \A i \in DOMAIN c.outbox :
             Opening(c.outbox[i]) /\ c.outbox[i].lane # l /\ Going(c.outbox[i]) => Going(d.outbox[i])
    PROVE  Keeping(c, d)
<1>1. ASSUME NEW k \in Lanes \ {l}
      PROVE  Moved(c, d, k)
  BY DEF Moved, LaneStays
<1>. QED  BY <1>1, MovedOwned

LEMMA TurnAdmittedOwned ==
    ASSUME NEW c \in Placed, LanesOwned(c), Shaped(c), c.fg # NoOp, ~c.running,
           c.phase[FgLane(c)] # "resuming"
    PROVE  Keeping(c, TurnAdmitted(c))
<1>. DEFINE l == c.lane[c.fg]
            box == Mark(c.outbox, Starts(c, c.fg), "accepted")
            p == IF c.cand[l] # 0 THEN "creating" ELSE "running"
            d == TurnAdmitted(c)
<1>1. c \in Chat /\ c.outbox \in Seq(Entry) /\ l \in Lanes /\ l = FgLane(c) /\ d \in Placed
  BY ChatParts, TurnAdmittedPlaced DEF Placed, Chat
<1>2. d = [c EXCEPT !.running = TRUE, !.phase = [c.phase EXCEPT ![l] = p], !.outbox = box]
  BY <1>1 DEF TurnAdmitted
<1>3. c.phase[l] = p
  BY <1>1 DEF Shaped, ForegroundFits, PhasesFit
<1>4. [c.phase EXCEPT ![l] = p] = c.phase
  <2>. HIDE DEF p, l
  <2>. QED  BY <1>1, <1>3 DEF Chat
<1>5. Carried(c.outbox, box) /\ \A i \in DOMAIN c.outbox : Opening(c.outbox[i]) => box[i] = c.outbox[i]
  BY <1>1, MarkTurnCarried DEF Starts
<1>. HIDE DEF box, l, p, d
<1>6. /\ d.thread = c.thread /\ d.cand = c.cand /\ d.gen = c.gen /\ d.cgen = c.cgen
      /\ d.phase = c.phase /\ d.outbox = box
  BY <1>1, <1>2, <1>4 DEF Chat
<1>7. Keeping(c, d)
  BY <1>1, <1>5, <1>6, StillOwned
<1>. QED  BY <1>7 DEF d

LEMMA InputConsumedOwned ==
    ASSUME NEW c \in Placed, LanesOwned(c), Shaped(c), c.running, NEW t \in Nat, CanConsume(c, c.fg, t)
    PROVE  Keeping(c, InputConsumed(c, t))
<1>. DEFINE l == c.lane[c.fg]
            owned == IF t = 0 THEN c
                     ELSE [c EXCEPT !.thread[l] = t, !.cand[l] = 0, !.phase[l] = "running"]
            box == Mark(owned.outbox, Starts(c, c.fg), "consumed")
            done == [owned EXCEPT !.consumed = TRUE, !.outbox = box]
            d == InputConsumed(c, t)
<1>0. c.fg # NoOp
  BY DEF Shaped, ForegroundFits
<1>1. c \in Chat /\ c.outbox \in Seq(Entry) /\ l \in Lanes /\ l = FgLane(c) /\ d \in Placed
  BY <1>0, ChatParts, InputConsumedPlaced DEF Placed, Chat
<1>2. IF t = 0 THEN c.cand[l] = 0 ELSE c.cand[l] = t /\ c.thread[l] = 0
  BY DEF CanConsume
<1>3. d = owned \/ d = done
  BY DEF InputConsumed
<1>4. c.phase[l] # "resuming" /\ c.gen[l] \in Nat /\ c.cgen[l] \in Nat
  BY <1>0, <1>1, ChatParts DEF Shaped, ForegroundFits, PhasesFit, Established
<1>. HIDE DEF l, d
<1>5. owned \in Chat /\ owned.gen = c.gen /\ owned.cgen = c.cgen /\ owned.outbox = c.outbox
  BY <1>1 DEF Chat, Phases
<1>6. /\ owned.thread[l] = (IF t = 0 THEN c.thread[l] ELSE t)
      /\ owned.cand[l] = 0
      /\ owned.phase[l] = (IF t = 0 THEN c.phase[l] ELSE "running")
      /\ \A x \in Lanes \ {l} : /\ owned.thread[x] = c.thread[x] /\ owned.cand[x] = c.cand[x]
                                /\ owned.phase[x] = c.phase[x]
  BY <1>1, <1>2 DEF Chat
<1>. HIDE DEF owned
<1>7. Carried(c.outbox, box) /\ \A i \in DOMAIN c.outbox : Opening(c.outbox[i]) => box[i] = c.outbox[i]
  BY <1>1, <1>5, MarkTurnCarried DEF Starts
<1>. HIDE DEF box
<1>8. /\ d.gen = c.gen /\ d.cgen = c.cgen /\ d.thread = owned.thread /\ d.cand = owned.cand
      /\ d.phase = owned.phase /\ d.outbox \in {c.outbox, box}
  BY <1>3, <1>5 DEF Chat
<1>9. /\ Carried(c.outbox, d.outbox)
      /\ \A i \in DOMAIN c.outbox : Opening(c.outbox[i]) => d.outbox[i] = c.outbox[i]
  <2>1. Carried(c.outbox, c.outbox)
    BY FadesTransitive, FadesCarried
  <2>. QED  BY <1>7, <1>8, <2>1
<1>10. Moved(c, d, l)
  <2>1. CASE t = 0
    <3>1. d.thread[l] = c.thread[l] /\ d.cand[l] = c.cand[l] /\ d.phase[l] = c.phase[l]
      BY <1>2, <1>6, <1>8, <2>1
    <3>. QED  BY <1>8, <1>9, <3>1 DEF Moved, LaneStays
  <2>2. CASE t # 0
    <3>1. d.thread[l] # 0 /\ d.phase[l] = "running" /\ c.thread[l] = 0
      BY <1>2, <1>6, <1>8, <2>2
    <3>. QED  BY <1>4, <1>8, <3>1 DEF Moved, LaneHolds, Established
  <2>. QED  BY <2>1, <2>2
<1>11. Keeping(c, d)
  BY <1>1, <1>6, <1>8, <1>9, <1>10, LocalOwned
<1>. QED  BY <1>11 DEF d

LEMMA LaneOpenedOwned ==
    ASSUME NEW c \in Placed, LanesOwned(c), NEW l \in Lanes, NEW g \in Nat, NEW t \in Nat \ {0},
           CanOpen(c, l, t), NEW covered \in BOOLEAN, c.phase[l] = "resuming" => g = c.gen[l]
    PROVE  Keeping(c, LaneOpened(c, l, g, t, covered)) /\ Rooted(LaneOpened(c, l, g, t, covered), l)
<1>. DEFINE ids == IF c.phase[l] = "creating" THEN Creates(c, l, c.cgen[l]) ELSE Resumes(c, l, g)
            box == IF c.phase[l] = "creating" THEN Mark(c.outbox, Creates(c, l, c.cgen[l]), "completed")
                   ELSE Mark(c.outbox, Resumes(c, l, g), "completed")
            opened == [c EXCEPT !.thread[l] = t, !.cand[l] = 0, !.gen[l] = g, !.attached[l] = TRUE,
                                !.violated = @ \ {l}, !.phase[l] = "ready", !.outbox = box]
            ran == [opened EXCEPT !.phase[l] = "running"]
            mine == FgLane(c) = l /\ ~c.running
            p == IF mine THEN "running" ELSE "ready"
            o == IF mine THEN ran ELSE opened
            d == LaneOpened(c, l, g, t, covered)
<1>1. c \in Chat /\ c.outbox \in Seq(Entry) /\ "completed" \in Statuses
  BY DEF Placed, Chat, Statuses
<1>2. d = IF mine THEN o ELSE Drive(o, covered)
  BY DEF LaneOpened
<1>3. box = Mark(c.outbox, ids, "completed") /\ \A i \in ids : c.outbox[i].lane = l
  BY DEF Creates, Resumes
<1>5. p \in {"ready", "running"} /\ p \in Phases
  BY DEF Phases
<1>. HIDE DEF d, box, ids
<1>7. /\ box \in Seq(Entry) /\ Carried(c.outbox, box)
      /\ \A i \in DOMAIN c.outbox : c.outbox[i].lane # l => box[i] = c.outbox[i]
  <2>1. box \in Seq(Entry) /\ Carried(c.outbox, box)
    BY <1>1, <1>3, MarkType, MarkFades, FadesCarried
  <2>. QED  BY <1>1, <1>3, <2>1, MarkFacts
<1>8. /\ o \in Chat /\ o.thread = [c.thread EXCEPT ![l] = t] /\ o.cand = [c.cand EXCEPT ![l] = 0]
      /\ o.gen = [c.gen EXCEPT ![l] = g] /\ o.cgen = c.cgen /\ o.phase = [c.phase EXCEPT ![l] = p]
      /\ o.queue = c.queue /\ o.lane = c.lane /\ o.fg = c.fg /\ o.outbox = box
  <2>1. o = [c EXCEPT !.thread = [c.thread EXCEPT ![l] = t], !.cand = [c.cand EXCEPT ![l] = 0],
                      !.gen = [c.gen EXCEPT ![l] = g], !.attached = [c.attached EXCEPT ![l] = TRUE],
                      !.violated = c.violated \ {l}, !.phase = [c.phase EXCEPT ![l] = p], !.outbox = box]
    <3>1. opened = [c EXCEPT !.thread = [c.thread EXCEPT ![l] = t], !.cand = [c.cand EXCEPT ![l] = 0],
                             !.gen = [c.gen EXCEPT ![l] = g], !.attached = [c.attached EXCEPT ![l] = TRUE],
                             !.violated = c.violated \ {l}, !.phase = [c.phase EXCEPT ![l] = "ready"], !.outbox = box]
      BY <1>1 DEF Chat
    <3>2. [[c.phase EXCEPT ![l] = "ready"] EXCEPT ![l] = "running"] = [c.phase EXCEPT ![l] = "running"]
      BY <1>1 DEF Chat
    <3>3. opened.phase = [c.phase EXCEPT ![l] = "ready"]
      BY <1>1, <3>1 DEF Chat
    <3>4. ran = [c EXCEPT !.thread = [c.thread EXCEPT ![l] = t], !.cand = [c.cand EXCEPT ![l] = 0],
                          !.gen = [c.gen EXCEPT ![l] = g], !.attached = [c.attached EXCEPT ![l] = TRUE],
                          !.violated = c.violated \ {l}, !.phase = [c.phase EXCEPT ![l] = "running"], !.outbox = box]
      <4>1. ran = [opened EXCEPT !.phase = [opened.phase EXCEPT ![l] = "running"]]
        OBVIOUS
      <4>2. ran = [opened EXCEPT !.phase = [c.phase EXCEPT ![l] = "running"]]
        BY <3>2, <3>3, <4>1
      <4>. QED  BY <1>1, <3>1, <4>2 DEF Chat
    <3>. QED  BY <3>1, <3>4
  <2>2. /\ [c.thread EXCEPT ![l] = t] \in [Lanes -> Nat] /\ [c.cand EXCEPT ![l] = 0] \in [Lanes -> Nat]
        /\ [c.gen EXCEPT ![l] = g] \in [Lanes -> Nat]
        /\ [c.attached EXCEPT ![l] = TRUE] \in [Lanes -> BOOLEAN]
        /\ [c.phase EXCEPT ![l] = p] \in [Lanes -> Phases]
    BY <1>1, <1>5 DEF Chat
  <2>. HIDE DEF o, p
  <2>. QED  BY <1>1, <1>7, <2>1, <2>2 DEF Chat
<1>. HIDE DEF o, p, mine
<1>9. o \in Placed
  BY <1>8, Frame
<1>10. /\ o.thread[l] = t /\ o.gen[l] = g /\ o.phase[l] = p
       /\ \A k \in Lanes \ {l} : /\ o.phase[k] = c.phase[k] /\ o.thread[k] = c.thread[k]
                                 /\ o.cand[k] = c.cand[k] /\ o.gen[k] = c.gen[k]
                                 /\ o.cgen[k] = c.cgen[k]
  BY <1>1, <1>8 DEF Chat
<1>11. Moved(c, o, l)
  <2>1. c.gen[l] \in Nat /\ c.cgen[l] \in Nat
    BY ChatParts
  <2>2. c.thread[l] # 0 => c.phase[l] = "resuming"
    BY DEF CanOpen, LanesOwned, LaneOwned, OwesNothing, Established
  <2>. QED  BY <1>5, <1>8, <1>10, <2>1, <2>2 DEF Moved, LaneHolds, Established
<1>12. Keeping(c, o)
  BY <1>7, <1>8, <1>9, <1>10, <1>11, LocalOwned
<1>13. Keeping(o, d)
  <2>1. Keeping(o, o)
    BY <1>12 DEF Keeping
  <2>. QED  BY <1>2, <1>9, <2>1, DrivenOwned
<1>14. Keeping(c, d) /\ Rooted(d, l)
  <2>1. Rooted(o, l)
    BY <1>10 DEF Rooted
  <2>. QED  BY <1>12, <1>13, <2>1, OpensTransitive DEF Keeping
<1>. QED  BY <1>14 DEF d


LEMMA LaneProvisionedOwned ==
    ASSUME NEW c \in Placed, LanesOwned(c), Shaped(c), NEW l \in Lanes, NEW g \in Nat,
           NEW t \in Nat \ {0}, NEW absent \in BOOLEAN, CanProvision(c, l, t, absent),
           LaneProvisioned(c, l, g, t, absent) \in Placed
    PROVE  /\ Keeping(c, LaneProvisioned(c, l, g, t, absent))
           /\ Rooted(LaneProvisioned(c, l, g, t, absent), l)
<1>. DEFINE ids == Creates(c, l, c.cgen[l])
            made == Mark(c.outbox, ids, "completed")
            again == Mark(made, Starts(c, c.fg), "pending")
            candidate == [c EXCEPT !.cand[l] = t, !.gen[l] = g, !.attached[l] = TRUE,
                                   !.violated = @ \ {l}, !.outbox = made]
            replayed == [candidate EXCEPT !.running = FALSE, !.consumed = FALSE, !.outbox = again]
            d == LaneProvisioned(c, l, g, t, absent)
<1>1. c \in Chat /\ c.outbox \in Seq(Entry) /\ {"completed", "pending"} \subseteq Statuses
  BY DEF Placed, Chat, Statuses
<1>2. c.phase[l] = "creating" /\ c.thread[l] = 0
  BY DEF CanProvision
<1>3. \A i \in ids : c.outbox[i].lane = l
  BY DEF Creates
<1>5. \/ d = replayed
      \/ c.queue # <<>> /\ d = BeginForeground(candidate, l, "creating")
      \/ d = candidate
  <2>1. replayed = [candidate EXCEPT !.running = FALSE, !.consumed = FALSE,
                                     !.outbox = Mark(@, Starts(c, c.fg), "pending")]
    BY <1>1 DEF Chat
  <2>. HIDE DEF candidate
  <2>2. [c EXCEPT !.cand[l] = t, !.gen[l] = g, !.attached[l] = TRUE, !.violated = @ \ {l},
                  !.outbox = Mark(@, Creates(c, l, c.cgen[l]), "completed")] = candidate
    BY DEF candidate
  <2>. HIDE DEF replayed
  <2>. QED  BY <2>1, <2>2 DEF LaneProvisioned
<1>. HIDE DEF ids
<1>6. /\ made \in Seq(Entry) /\ Carried(c.outbox, made) /\ DOMAIN made = DOMAIN c.outbox
      /\ \A i \in DOMAIN c.outbox : c.outbox[i].lane # l => made[i] = c.outbox[i]
  <2>1. made \in Seq(Entry) /\ Carried(c.outbox, made)
    BY <1>1, MarkType, MarkFades, FadesCarried
  <2>. QED  BY <1>1, <1>3, <2>1, MarkFacts
<1>. HIDE DEF made
<1>7. /\ again \in Seq(Entry) /\ Carried(c.outbox, again)
      /\ \A i \in DOMAIN c.outbox : Opening(c.outbox[i]) => again[i] = made[i]
  <2>1. \A i \in DOMAIN made : i \in Starts(c, c.fg) => made[i].kind \in {"start", "stop"}
    BY <1>6 DEF Starts, Carried, Extends, SameEffect
  <2>2. /\ again \in Seq(Entry) /\ Carried(made, again)
        /\ \A i \in DOMAIN made : Opening(made[i]) => again[i] = made[i]
    BY <1>1, <1>6, <2>1, MarkTurnCarried, MarkType
  <2>3. \A i \in DOMAIN c.outbox : Opening(c.outbox[i]) => Opening(made[i])
    BY <1>6 DEF Carried, Extends, SameEffect, Opening
  <2>. HIDE DEF again
  <2>. QED  BY <1>6, <2>2, <2>3, CarriedTransitive
<1>. HIDE DEF again
<1>8. /\ [c.cand EXCEPT ![l] = t] \in [Lanes -> Nat] /\ [c.gen EXCEPT ![l] = g] \in [Lanes -> Nat]
      /\ [c.attached EXCEPT ![l] = TRUE] \in [Lanes -> BOOLEAN]
  BY <1>1 DEF Chat
<1>9. candidate = [c EXCEPT !.cand = [c.cand EXCEPT ![l] = t], !.gen = [c.gen EXCEPT ![l] = g],
                            !.attached = [c.attached EXCEPT ![l] = TRUE],
                            !.violated = c.violated \ {l}, !.outbox = made]
  BY <1>1 DEF Chat
<1>. HIDE DEF candidate
<1>10. /\ candidate \in Chat /\ candidate.thread = c.thread
       /\ candidate.cand = [c.cand EXCEPT ![l] = t] /\ candidate.gen = [c.gen EXCEPT ![l] = g]
       /\ candidate.cgen = c.cgen /\ candidate.phase = c.phase /\ candidate.lane = c.lane
       /\ candidate.queue = c.queue /\ candidate.fg = c.fg /\ candidate.outbox = made
  BY <1>1, <1>6, <1>8, <1>9 DEF Chat
<1>11. /\ replayed \in Chat /\ replayed.thread = c.thread
       /\ replayed.cand = [c.cand EXCEPT ![l] = t] /\ replayed.gen = [c.gen EXCEPT ![l] = g]
       /\ replayed.cgen = c.cgen /\ replayed.phase = c.phase /\ replayed.lane = c.lane
       /\ replayed.queue = c.queue /\ replayed.fg = c.fg /\ replayed.outbox = again
  BY <1>7, <1>10 DEF Chat
<1>. HIDE DEF replayed
<1>12. ASSUME NEW o \in {candidate, replayed}
       PROVE  o \in Placed /\ Keeping(c, o) /\ Rooted(o, l)
  <2>1. o \in Placed
    BY <1>10, <1>11, <1>12, Frame
  <2>2. /\ Carried(c.outbox, o.outbox)
        /\ \A i \in DOMAIN c.outbox :
             Opening(c.outbox[i]) /\ c.outbox[i].lane # l => o.outbox[i] = c.outbox[i]
    BY <1>6, <1>7, <1>10, <1>11, <1>12
  <2>3. /\ o.thread = c.thread /\ o.cgen = c.cgen /\ o.phase = c.phase
        /\ o.cand[l] = t /\ \A k \in Lanes \ {l} : o.cand[k] = c.cand[k] /\ o.gen[k] = c.gen[k]
    <3>1. /\ o.thread = c.thread /\ o.cgen = c.cgen /\ o.phase = c.phase
          /\ o.cand = [c.cand EXCEPT ![l] = t] /\ o.gen = [c.gen EXCEPT ![l] = g]
      BY <1>10, <1>11, <1>12
    <3>. QED  BY <1>1, <3>1 DEF Chat
  <2>4. Moved(c, o, l)
    <3>1. c.cgen[l] \in Nat
      BY ChatParts
    <3>. QED  BY <1>2, <2>3, <3>1 DEF Moved, LaneLacks, Established
  <2>. QED  BY <2>1, <2>2, <2>3, <2>4, LocalOwned DEF Rooted
<1>13. CASE c.queue # <<>> /\ d = BeginForeground(candidate, l, "creating")
  <2>. DEFINE b == BeginForeground(candidate, l, "creating")
  <2>1. b \in Placed
    BY <1>13
  <2>2. candidate \in Placed /\ Keeping(c, candidate) /\ LanesOwned(candidate)
    BY <1>12 DEF Keeping
  <2>3. candidate.queue # <<>> /\ candidate.phase[l] = "creating"
    BY <1>2, <1>10, <1>13
  <2>4. Keeping(candidate, b)
    BY <2>1, <2>2, <2>3, BeginOwned
  <2>. HIDE DEF b
  <2>5. Keeping(c, b) /\ Rooted(b, l)
    BY <1>12, <2>2, <2>4, OpensTransitive DEF Keeping
  <2>. QED  BY <1>13, <2>5 DEF b
<1>. QED  BY <1>5, <1>12, <1>13

LEMMA LaneOpenFailedOwned ==
    ASSUME NEW c \in Placed, LanesOwned(c), NEW l \in Lanes, NEW ambiguous \in BOOLEAN,
           CanFailOpen(c, l)
    PROVE  Keeping(c, LaneOpenFailed(c, l, ambiguous))
<1>. DEFINE ids == IF c.thread[l] = 0 THEN Creates(c, l, c.cgen[l]) ELSE Resumes(c, l, c.gen[l])
            status == IF ambiguous THEN "ambiguous" ELSE "failed"
            box == Mark(c.outbox, ids, status)
            phase == IF c.thread[l] = 0 /\ c.cand[l] = 0 /\ ambiguous THEN "blocked"
                     ELSE Unattached(c, l)
            failed == [c EXCEPT !.phase[l] = phase, !.outbox = box]
            settled == SettleWaiting(failed, l)
            d == LaneOpenFailed(c, l, ambiguous)
<1>1. c \in Chat /\ c.outbox \in Seq(Entry) /\ status \in Statuses /\ phase \in Phases
      /\ status \in {"completed", "failed", "ambiguous"}
  BY UnattachedType DEF Placed, Chat, Statuses, Phases
<1>2. d = Reselected(settled, l) /\ d \in Placed
  BY LaneOpenFailedPlaced DEF LaneOpenFailed
<1>3. (phase \in Established <=> c.thread[l] # 0) /\ phase # "resuming" /\ phase # "creating"
  BY DEF Unattached, Established
<1>. HIDE DEF status, phase, d
<1>4. /\ box \in Seq(Entry) /\ Carried(c.outbox, box) /\ DOMAIN box = DOMAIN c.outbox
      /\ \A i \in DOMAIN c.outbox : i \in ids => Over(box[i])
      /\ \A i \in DOMAIN c.outbox : c.outbox[i].lane # l => box[i] = c.outbox[i]
  <2>1. \A i \in ids : c.outbox[i].lane = l
    BY DEF Creates, Resumes
  <2>. HIDE DEF ids
  <2>2. box \in Seq(Entry) /\ Carried(c.outbox, box)
    BY <1>1, MarkType, MarkFades, FadesCarried
  <2>. QED  BY <1>1, <2>1, <2>2, MarkFacts DEF Over
<1>5. c.thread[l] = 0 /\ c.cand[l] = 0 =>
        \A i \in DOMAIN c.outbox : EffectOf(c.outbox[i], l, "create") => Over(box[i])
  <2>. SUFFICES ASSUME c.thread[l] = 0, c.cand[l] = 0, NEW i \in DOMAIN c.outbox,
                       EffectOf(c.outbox[i], l, "create")
                PROVE  Over(box[i])
    OBVIOUS
  <2>1. CASE Over(c.outbox[i])
    BY <1>4, <2>1 DEF Carried, Opening, EffectOf
  <2>2. CASE ~Over(c.outbox[i])
    <3>1. c.outbox[i].gen = c.cgen[l]
      BY <2>2 DEF LanesOwned, LaneOwned, OnlyCreate
    <3>2. i \in ids
      BY <3>1 DEF Creates, EffectOf
    <3>. QED  BY <1>4, <3>2
  <2>. QED  BY <2>1, <2>2
<1>. HIDE DEF box, ids
<1>6. /\ failed \in Chat /\ failed.thread = c.thread /\ failed.cand = c.cand /\ failed.cgen = c.cgen
      /\ failed.gen = c.gen /\ failed.phase = [c.phase EXCEPT ![l] = phase] /\ failed.outbox = box
      /\ failed.queue = c.queue /\ failed.lane = c.lane /\ failed.fg = c.fg
  BY <1>1, <1>4 DEF Chat
<1>. HIDE DEF failed
<1>7. failed \in Placed
  BY <1>6, Frame
<1>8. settled \in Placed /\ WaitSettled(failed, settled, l)
  BY <1>7, SettleWaitingShaped
<1>. HIDE DEF settled
<1>9. /\ d.thread = settled.thread /\ d.cand = settled.cand /\ d.cgen = settled.cgen
      /\ d.gen = settled.gen /\ d.phase = settled.phase /\ d.outbox = settled.outbox
  <2>1. settled \in Chat
    BY <1>8 DEF Placed
  <2>. QED  BY <1>2, <2>1 DEF Reselected, Chat
<1>10. /\ d.thread = c.thread /\ d.cand = c.cand /\ d.cgen = c.cgen /\ d.gen = c.gen
       /\ d.phase[l] = phase /\ \A x \in Lanes \ {l} : d.phase[x] = c.phase[x]
  <2>1. [c.phase EXCEPT ![l] = phase][l] = phase
        /\ \A x \in Lanes \ {l} : [c.phase EXCEPT ![l] = phase][x] = c.phase[x]
    BY <1>1 DEF Chat
  <2>. QED  BY <1>6, <1>8, <1>9, <2>1 DEF WaitSettled
<1>11. /\ Carried(box, d.outbox) /\ DOMAIN d.outbox = DOMAIN box
       /\ \A i \in DOMAIN box : Opening(box[i]) => d.outbox[i] = box[i]
  BY <1>6, <1>8, <1>9, FadesCarried DEF WaitSettled
<1>12. Carried(c.outbox, d.outbox)
  BY <1>4, <1>11, CarriedTransitive
<1>13. \A i \in DOMAIN c.outbox : Opening(c.outbox[i]) => d.outbox[i] = box[i]
  BY <1>4, <1>11 DEF Carried, Extends, SameEffect, Opening
<1>14. \A i \in DOMAIN c.outbox : Opening(c.outbox[i]) /\ c.outbox[i].lane # l =>
         d.outbox[i] = c.outbox[i]
  BY <1>4, <1>13
<1>15. c.thread[l] = 0 /\ c.cand[l] = 0 =>
         \A i \in DOMAIN d.outbox : EffectOf(d.outbox[i], l, "create") => Over(d.outbox[i])
  BY <1>4, <1>5, <1>11, <1>12, <1>13 DEF Carried, Extends, SameEffect, Opening, EffectOf
<1>16. c.gen[l] \in Nat
  BY ChatParts
<1>17. Keeping(c, d)
  BY <1>2, <1>3, <1>10, <1>12, <1>14, <1>15, <1>16, RestOwned
<1>. QED  BY <1>17 DEF d


(***************************************************************************)
(* Losing the attachment of a lane that has a thread or a candidate.       *)
(***************************************************************************)
LEMMA IdleOwned ==
    ASSUME NEW c, LanesOwned(c)
    PROVE  Keeping(c, c)
BY DEF Keeping

LEMMA HostLostOwned ==
    ASSUME NEW c \in Placed, LanesOwned(c), Shaped(c), NEW l \in Lanes, NEW g,
           g = c.gen[l] => Rooted(c, l)
    PROVE  Keeping(c, HostLost(c, l, g))
<1>. DEFINE phase == IF c.cand[l] # 0 THEN "absent" ELSE Unattached(c, l)
            next == c.gen[l] + 1
            gone == [c EXCEPT !.attached[l] = FALSE, !.gen[l] = @ + 1,
                              !.phase[l] = IF c.cand[l] # 0 THEN "absent" ELSE Unattached(c, l)]
            fresh == IF c.cgen[l] >= gone.gen[l] THEN c.cgen[l] + 1 ELSE gone.gen[l]
            uncertain == [gone EXCEPT !.outbox = Mark(@, Starts(c, c.fg), "ambiguous")]
            kept == Requeued(uncertain)
            opened == OpenByCreate(gone, l, fresh, TRUE)
            reopened == [OpenByCreate(gone, l, fresh, TRUE) EXCEPT !.gen[l] = fresh]
            resumed == OpenByResume(gone, l, gone.gen[l])
            d == HostLost(c, l, g)
<1>1. c \in Chat /\ d \in Placed /\ phase \in Phases /\ next \in Nat /\ next > c.gen[l]
      /\ c.gen[l] \in Nat /\ c.cgen[l] \in Nat
  BY UnattachedType, HostLostPlaced, ChatParts DEF Placed, Phases
<1>2. CASE d = c
  <2>. HIDE DEF d
  <2>2. Keeping(c, d)
    BY <1>2, IdleOwned
  <2>. QED  BY <2>2 DEF d
<1>3. CASE g = c.gen[l] /\ d # c
  <2>1. \/ FgLane(c) # l /\ d = DriveQueued(gone)
        \/ FgLane(c) = l /\ c.cand[l] # 0 /\ d = reopened
        \/ FgLane(c) = l /\ c.thread[l] # 0 /\ d = resumed
        \/ FgLane(c) = l /\ d = DriveQueued(Interrupted(kept))
    BY <1>3 DEF HostLost
  <2>2. /\ (phase \in Established <=> c.thread[l] # 0) /\ phase # "resuming"
        /\ (c.cand[l] # 0 => phase = "absent" /\ c.thread[l] = 0) /\ Rooted(c, l)
    <3>1. c.cand[l] # 0 => phase = "absent" /\ c.thread[l] = 0
      BY UnattachedFits
    <3>2. "absent" \notin Established /\ "absent" # "resuming"
      BY DEF Established
    <3>. QED  BY <1>3, <3>1, <3>2, UnattachedFits
  <2>3. /\ gone \in Chat /\ gone.thread = c.thread /\ gone.cand = c.cand /\ gone.cgen = c.cgen
        /\ gone.gen = [c.gen EXCEPT ![l] = next] /\ gone.phase = [c.phase EXCEPT ![l] = phase]
        /\ gone.outbox = c.outbox /\ gone.queue = c.queue /\ gone.lane = c.lane /\ gone.fg = c.fg
    <3>1. gone = [c EXCEPT !.attached = [c.attached EXCEPT ![l] = FALSE],
                           !.gen = [c.gen EXCEPT ![l] = next], !.phase = [c.phase EXCEPT ![l] = phase]]
      BY <1>1 DEF Chat
    <3>. HIDE DEF phase, next
    <3>2. /\ [c.gen EXCEPT ![l] = next] \in [Lanes -> Nat]
          /\ [c.phase EXCEPT ![l] = phase] \in [Lanes -> Phases]
          /\ [c.attached EXCEPT ![l] = FALSE] \in [Lanes -> BOOLEAN]
      BY <1>1 DEF Chat
    <3>. HIDE DEF gone
    <3>. QED  BY <1>1, <3>1, <3>2 DEF Chat
  <2>10. next = c.gen[l] + 1
    OBVIOUS
  <2>. HIDE DEF gone, phase, next
  <2>4. gone.gen[l] = next /\ gone.phase[l] = phase
        /\ \A x \in Lanes \ {l} : gone.phase[x] = c.phase[x] /\ gone.gen[x] = c.gen[x]
    BY <1>1, <2>3 DEF Chat
  <2>5. gone \in Placed /\ Keeping(c, gone) /\ LanesOwned(gone)
    <3>1. gone \in Placed
      BY <2>3, Frame
    <3>2. Carried(c.outbox, gone.outbox)
      BY <2>3, FadesTransitive, FadesCarried
    <3>3. gone.gen[l] >= c.gen[l]
      BY <1>1, <2>4
    <3>4. /\ gone.thread = c.thread /\ gone.cand = c.cand /\ gone.cgen = c.cgen
          /\ (gone.phase[l] \in Established <=> c.thread[l] # 0) /\ gone.phase[l] # "resuming"
          /\ ~(c.thread[l] = 0 /\ c.cand[l] = 0)
      BY <2>2, <2>3, <2>4 DEF Rooted
    <3>5. \A i \in DOMAIN c.outbox : Going(c.outbox[i]) => Going(gone.outbox[i])
      BY <2>3
    <3>6. Keeping(c, gone)
      BY <2>4, <3>1, <3>2, <3>3, <3>4, <3>5, RestOwned
    <3>. QED  BY <3>1, <3>6 DEF Keeping
  <2>6. fresh \in Nat /\ fresh > c.cgen[l]
    BY <1>1, <2>4
  <2>. HIDE DEF fresh
  <2>7. CASE FgLane(c) # l /\ d = DriveQueued(gone)
    BY <2>5, <2>7, DrivenOwned
  <2>8. CASE FgLane(c) = l /\ c.cand[l] # 0 /\ d = reopened
    <3>1. Keeping(gone, opened) /\ opened \in Placed
      <4>1. gone.thread[l] = 0 /\ gone.phase[l] # "creating" /\ fresh > gone.cgen[l]
        BY <2>2, <2>3, <2>4, <2>6, <2>8
      <4>. QED  BY <2>5, <2>6, <4>1, CreateOwned, OpenPlaced
    <3>2. Keeping(c, opened) /\ LanesOwned(opened)
      BY <2>5, <3>1, OpensTransitive DEF Keeping
    <3>3. /\ opened.thread = c.thread /\ opened.cand = c.cand
          /\ opened.phase = [c.phase EXCEPT ![l] = "creating"]
      <4>1. opened = [gone EXCEPT !.phase = [gone.phase EXCEPT ![l] = "creating"],
                                  !.violated = gone.violated \ {l},
                                  !.cgen = [gone.cgen EXCEPT ![l] = fresh],
                                  !.outbox = Record(gone.outbox, CreateEffect(l, fresh, TRUE))]
        BY <2>3 DEF OpenByCreate, Chat
      <4>2. [gone.phase EXCEPT ![l] = "creating"] = [c.phase EXCEPT ![l] = "creating"]
        BY <1>1, <2>3 DEF Chat
      <4>. HIDE DEF opened
      <4>. QED  BY <2>3, <4>1, <4>2 DEF Chat
    <3>4. /\ d = [opened EXCEPT !.gen[l] = fresh] /\ d \in Placed
      BY <1>1, <2>8
    <3>. HIDE DEF opened, reopened, d
    <3>5. opened \in Chat /\ opened.cgen[l] \in Nat
      BY <3>1, ChatParts DEF Placed
    <3>6. /\ d.thread = opened.thread /\ d.cand = opened.cand /\ d.cgen = opened.cgen
          /\ d.phase = opened.phase /\ d.outbox = opened.outbox
          /\ \A x \in Lanes \ {l} : d.gen[x] = opened.gen[x]
      BY <3>4, <3>5 DEF Chat
    <3>7. opened.thread[l] = 0 /\ opened.cand[l] # 0 /\ opened.phase[l] = "creating"
      BY <1>1, <2>2, <2>8, <3>3 DEF Chat
    <3>8. Moved(opened, d, l)
      BY <3>5, <3>6, <3>7 DEF Moved, LaneLacks, Established
    <3>9. Carried(opened.outbox, d.outbox)
      BY <3>6, FadesTransitive, FadesCarried
    <3>10. Keeping(opened, d)
      BY <3>1, <3>2, <3>4, <3>6, <3>8, <3>9, LocalOwned
    <3>. QED  BY <3>2, <3>10, OpensTransitive DEF d
  <2>9. CASE FgLane(c) = l /\ c.thread[l] # 0 /\ d = resumed
    <3>1. \A i \in DOMAIN gone.outbox : EffectOf(gone.outbox[i], l, "resume") => gone.outbox[i].gen < next
      <4>1. OwesNothing(c, l) /\ \A i \in DOMAIN c.outbox : c.outbox[i].gen \in Nat
        BY OutboxEntries DEF LanesOwned, LaneOwned, Entry
      <4>. QED  BY <1>1, <2>3, <2>10, <4>1 DEF OwesNothing
    <3>2. Keeping(gone, OpenByResume(gone, l, next))
      BY <1>1, <2>3, <2>5, <2>9, <3>1, ResumeOwned
    <3>3. Keeping(gone, resumed)
      BY <2>4, <3>2
    <3>. HIDE DEF resumed
    <3>4. Keeping(c, resumed)
      BY <2>5, <3>3, OpensTransitive
    <3>. QED  BY <2>9, <3>4
  <2>11. CASE FgLane(c) = l /\ d = DriveQueued(Interrupted(kept))
    <3>. DEFINE box == Mark(c.outbox, Starts(c, c.fg), "ambiguous")
                m == Interrupted(kept)
    <3>0. c.outbox \in Seq(Entry) /\ "ambiguous" \in Statuses /\ c.fg \in Ops /\ l = c.lane[c.fg]
      BY <1>1, <2>11, NoOpIsNoOp DEF Chat, Statuses, FgLane
    <3>1. /\ box \in Seq(Entry) /\ Carried(c.outbox, box) /\ DOMAIN box = DOMAIN c.outbox
          /\ \A i \in DOMAIN c.outbox : Opening(c.outbox[i]) => box[i] = c.outbox[i]
      BY <3>0, MarkTurnCarried, MarkType, MarkFacts DEF Starts
    <3>2. uncertain = [gone EXCEPT !.outbox = box]
      BY <2>3
    <3>. HIDE DEF box
    <3>3. /\ uncertain \in Chat /\ uncertain.thread = c.thread /\ uncertain.cand = c.cand
          /\ uncertain.cgen = c.cgen /\ uncertain.gen = gone.gen /\ uncertain.phase = gone.phase
          /\ uncertain.outbox = box /\ uncertain.queue = c.queue /\ uncertain.lane = c.lane
          /\ uncertain.fg = c.fg
      BY <2>3, <3>1, <3>2 DEF Chat
    <3>. HIDE DEF uncertain
    <3>4. uncertain \in Placed
      BY <3>3, Frame
    <3>5. /\ kept \in Placed
          /\ kept.thread = c.thread /\ kept.cand = c.cand /\ kept.cgen = c.cgen
          /\ kept.gen = gone.gen /\ kept.phase = gone.phase /\ kept.outbox = box
          /\ kept.fg = c.fg /\ kept.lane[c.fg] = l
      BY <3>0, <3>3, <3>4, RequeuedCalm
    <3>. HIDE DEF kept
    <3>6. m \in Placed /\ Vacated(kept, m)
      BY <3>5, InterruptedCleared
    <3>. HIDE DEF m
    <3>7. Carried(c.outbox, m.outbox)
      BY <3>1, <3>5, <3>6, FadesCarried, CarriedTransitive DEF Vacated
    <3>8. \A i \in DOMAIN c.outbox : Opening(c.outbox[i]) /\ c.outbox[i].lane # l =>
            m.outbox[i] = c.outbox[i]
      BY <3>1, <3>5, <3>6 DEF Vacated, Opening
    <3>9. /\ m.thread = c.thread /\ m.cand = c.cand /\ m.cgen = c.cgen /\ m.gen[l] >= c.gen[l]
          /\ m.phase[l] = phase /\ \A x \in Lanes \ {l} : m.phase[x] = c.phase[x] /\ m.gen[x] = c.gen[x]
      BY <1>1, <2>4, <3>5, <3>6 DEF Vacated
    <3>10. Keeping(c, m)
      BY <2>2, <3>6, <3>7, <3>8, <3>9, RestOwned DEF Rooted
    <3>. QED  BY <2>11, <3>6, <3>10, DrivenOwned DEF m
  <2>. QED  BY <2>1, <2>7, <2>8, <2>9, <2>11
<1>4. d = c \/ g = c.gen[l]
  BY DEF HostLost
<1>. QED  BY <1>2, <1>3, <1>4

LEMMA ViolatedOwned ==
    ASSUME NEW c \in Placed, LanesOwned(c), Shaped(c), NEW l \in Lanes, Rooted(c, l),
           NEW gone, gone = Violated(c, l)
    PROVE  /\ gone \in Placed /\ gone \in Chat /\ gone.thread = c.thread /\ gone.cand = c.cand
           /\ gone.cgen = c.cgen /\ gone.gen = c.gen
           /\ gone.outbox = c.outbox /\ gone.queue = c.queue /\ gone.lane = c.lane /\ gone.fg = c.fg
           /\ (gone.phase[l] \in Established <=> c.thread[l] # 0) /\ gone.phase[l] # "resuming"
           /\ \A k \in Lanes \ {l} : gone.phase[k] = c.phase[k]
           /\ Keeping(c, gone)
<1>. DEFINE phase == Unattached(c, l)
<1>1. c \in Chat /\ phase \in Phases /\ c.gen[l] \in Nat
  BY UnattachedType, ChatParts DEF Placed
<1>2. (phase \in Established <=> c.thread[l] # 0) /\ phase # "resuming"
  BY UnattachedFits
<1>3. /\ gone \in Chat /\ gone.thread = c.thread /\ gone.cand = c.cand /\ gone.cgen = c.cgen
      /\ gone.gen = c.gen /\ gone.phase = [c.phase EXCEPT ![l] = phase]
      /\ gone.outbox = c.outbox /\ gone.queue = c.queue /\ gone.lane = c.lane /\ gone.fg = c.fg
  <2>. HIDE DEF phase
  <2>. QED  BY <1>1 DEF Violated, Chat, phase
<1>4. gone \in Placed
  BY <1>3, Frame
<1>. HIDE DEF phase
<1>5. gone.phase[l] = phase /\ \A k \in Lanes \ {l} : gone.phase[k] = c.phase[k]
  BY <1>1, <1>3 DEF Chat
<1>6. Keeping(c, gone)
  <2>1. Carried(c.outbox, gone.outbox)
    BY <1>3, FadesTransitive, FadesCarried
  <2>2. gone.gen[l] >= c.gen[l]
        /\ \A k \in Lanes \ {l} : gone.phase[k] = c.phase[k] /\ gone.gen[k] = c.gen[k]
    BY <1>1, <1>3, <1>5
  <2>3. \A i \in DOMAIN c.outbox :
          Opening(c.outbox[i]) /\ c.outbox[i].lane # l /\ Going(c.outbox[i]) => Going(gone.outbox[i])
    BY <1>3
  <2>4. (gone.phase[l] \in Established <=> c.thread[l] # 0) /\ gone.phase[l] # "resuming"
    BY <1>2, <1>5
  <2>5. ~(c.thread[l] = 0 /\ c.cand[l] = 0)
    BY DEF Rooted
  <2>6. gone.thread = c.thread /\ gone.cand = c.cand /\ gone.cgen = c.cgen
    BY <1>3
  <2>. QED  BY <1>4, <2>1, <2>2, <2>3, <2>4, <2>5, <2>6, RestOwned
<1>. QED  BY <1>2, <1>3, <1>4, <1>5, <1>6

\* The failure of a lane that ends its turn.
LEMMA CutOwned ==
    ASSUME NEW c \in Placed, LanesOwned(c), Shaped(c), NEW l \in Lanes, Rooted(c, l), FgLane(c) = l,
           NEW ids, ids \subseteq Starts(c, c.fg), NEW gone, gone = Violated(c, l),
           NEW uncertain, uncertain = [gone EXCEPT !.outbox = Mark(@, ids, "ambiguous")]
    PROVE  Keeping(c, DriveQueued(Interrupted(uncertain)))
<1>. DEFINE box == Mark(c.outbox, ids, "ambiguous")
            m == Interrupted(uncertain)
<1>0. c.outbox \in Seq(Entry) /\ "ambiguous" \in Statuses /\ c.fg \in Ops /\ l = c.lane[c.fg]
      /\ c.gen[l] \in Nat
  BY NoOpIsNoOp, ChatParts DEF Placed, Chat, Statuses, FgLane
<1>1. /\ box \in Seq(Entry) /\ Carried(c.outbox, box) /\ DOMAIN box = DOMAIN c.outbox
      /\ \A i \in DOMAIN c.outbox : Opening(c.outbox[i]) => box[i] = c.outbox[i]
  BY <1>0, MarkTurnCarried, MarkType, MarkFacts DEF Starts
<1>2. /\ gone \in Placed /\ gone \in Chat /\ gone.thread = c.thread /\ gone.cand = c.cand
      /\ gone.cgen = c.cgen /\ gone.gen = c.gen
      /\ gone.outbox = c.outbox /\ gone.queue = c.queue /\ gone.lane = c.lane /\ gone.fg = c.fg
      /\ (gone.phase[l] \in Established <=> c.thread[l] # 0) /\ gone.phase[l] # "resuming"
      /\ \A k \in Lanes \ {l} : gone.phase[k] = c.phase[k]
  BY ViolatedOwned
<1>3. uncertain = [gone EXCEPT !.outbox = box]
  BY <1>2
<1>. HIDE DEF box
<1>4. /\ uncertain \in Chat /\ uncertain.thread = c.thread /\ uncertain.cand = c.cand
      /\ uncertain.cgen = c.cgen /\ uncertain.gen = gone.gen /\ uncertain.phase = gone.phase
      /\ uncertain.outbox = box /\ uncertain.queue = c.queue /\ uncertain.lane = c.lane
      /\ uncertain.fg = c.fg
  BY <1>1, <1>2, <1>3 DEF Chat
<1>5. uncertain \in Placed
  BY <1>4, Frame
<1>6. m \in Placed /\ Vacated(uncertain, m)
  BY <1>5, InterruptedCleared
<1>. HIDE DEF m
<1>7. Carried(c.outbox, m.outbox)
  BY <1>1, <1>4, <1>6, FadesCarried, CarriedTransitive DEF Vacated
<1>8. \A i \in DOMAIN c.outbox : Opening(c.outbox[i]) /\ c.outbox[i].lane # l =>
        m.outbox[i] = c.outbox[i]
  <2>. SUFFICES ASSUME NEW i \in DOMAIN c.outbox, Opening(c.outbox[i]), c.outbox[i].lane # l
                PROVE  m.outbox[i] = c.outbox[i]
    OBVIOUS
  <2>1. box[i] = c.outbox[i] /\ i \in DOMAIN box
    BY <1>1
  <2>2. box[i] \in Entry /\ Opening(box[i])
    BY <1>1, <2>1
  <2>. QED  BY <1>0, <1>4, <1>6, <2>1, <2>2 DEF Vacated, Opening
<1>12. m.thread = c.thread /\ m.cand = c.cand /\ m.cgen = c.cgen /\ m.gen = c.gen
       /\ m.phase = gone.phase
  BY <1>2, <1>4, <1>6 DEF Vacated
<1>9. /\ m.gen[l] >= c.gen[l]
      /\ \A k \in Lanes \ {l} : m.phase[k] = c.phase[k] /\ m.gen[k] = c.gen[k]
  BY <1>0, <1>2, <1>12
<1>10. (m.phase[l] \in Established <=> c.thread[l] # 0) /\ m.phase[l] # "resuming"
  BY <1>2, <1>12
<1>11. Keeping(c, m)
  BY <1>6, <1>7, <1>8, <1>9, <1>10, <1>12, RestOwned DEF Rooted
<1>. QED  BY <1>6, <1>11, DrivenOwned DEF m

LEMMA LaneProtocolFailedOwned ==
    ASSUME NEW c \in Placed, LanesOwned(c), Shaped(c), NEW l \in Lanes, NEW g,
           g = c.gen[l] => Rooted(c, l)
    PROVE  Keeping(c, LaneProtocolFailed(c, l, g))
<1>. DEFINE gone == Violated(c, l)
            uncertain == [gone EXCEPT !.outbox = Mark(@, Starts(c, c.fg), "ambiguous")]
            d == LaneProtocolFailed(c, l, g)
<1>1. \/ d = c
      \/ g = c.gen[l] /\ d = DriveQueued(gone)
      \/ g = c.gen[l] /\ FgLane(c) = l /\ d = DriveQueued(Interrupted(uncertain))
  BY DEF LaneProtocolFailed
<1>. HIDE DEF gone, d
<1>2. CASE d = c
  BY <1>2, IdleOwned DEF d
<1>3. CASE g = c.gen[l] /\ d = DriveQueued(gone)
  <2>1. gone \in Placed /\ Keeping(c, gone)
    BY <1>3, ViolatedOwned DEF gone
  <2>. QED  BY <1>3, <2>1, DrivenOwned DEF d
<1>4. CASE g = c.gen[l] /\ FgLane(c) = l /\ d = DriveQueued(Interrupted(uncertain))
  BY <1>4, CutOwned DEF gone, d
<1>. QED  BY <1>1, <1>2, <1>3, <1>4

LEMMA LaneUnhealthyOwned ==
    ASSUME NEW c \in Placed, LanesOwned(c), Shaped(c), NEW l \in Lanes, Rooted(c, l)
    PROVE  Keeping(c, LaneUnhealthy(c, l))
<1>. DEFINE gone == Violated(c, l)
            undone == {i \in Starts(c, c.fg) : c.outbox[i].status \notin {"completed", "failed"}}
            uncertain == [gone EXCEPT !.outbox = Mark(@, undone, "ambiguous")]
            d == LaneUnhealthy(c, l)
<1>1. \/ d = gone
      \/ FgLane(c) = l /\ d = DriveQueued(Interrupted(uncertain))
  BY DEF LaneUnhealthy
<1>2. undone \subseteq Starts(c, c.fg)
  OBVIOUS
<1>. HIDE DEF gone, d, undone
<1>3. CASE d = gone
  BY <1>3, ViolatedOwned DEF gone, d
<1>4. CASE FgLane(c) = l /\ d = DriveQueued(Interrupted(uncertain))
  BY <1>2, <1>4, CutOwned DEF gone, d
<1>. QED  BY <1>1, <1>3, <1>4


(***************************************************************************)
(* Recovery.                                                               *)
(***************************************************************************)
\* Every lane that needs an effect has its place in the order.
LEMMA OrderedAll ==
    ASSUME NEW S, IsFiniteSet(S), NEW order \in Orders(S), NEW x \in S
    PROVE  \E k \in DOMAIN order : order[k] = x
<1>. DEFINE T == 1 .. Cardinality(S)
<1>1. Cardinality(S) \in Nat
  BY FS_CardinalityType
<1>2. IsFiniteSet(T) /\ Cardinality(T) = Cardinality(S)
  BY <1>1, FS_Interval
<1>3. order \in [T -> S] /\ \A i, j \in DOMAIN order : order[i] = order[j] => i = j
  BY DEF Orders
<1>. HIDE DEF T
<1>4. order \in Injection(T, S)
  BY <1>3 DEF Injection, IsInjective
<1>5. order \in Surjection(T, S)
  BY <1>2, <1>4, FS_Injection
<1>. QED  BY <1>3, <1>5 DEF Surjection

\* What the lane pass leaves of a lane.
LEMMA RelanedOwned ==
    ASSUME NEW c \in Placed, LanesOwned(c), Shaped(c), NEW m \in Placed, Rereads(c, m),
           NEW order \in Orders(NeedsEffect(m)), NEW b \in Placed, Relaned(m, b, order), Shaped(b),
           \A l \in Lanes : m.phase[l] # "unselected" /\ PendingOpen(m, l, "create") => m.thread[l] = 0
    PROVE  Keeping(c, b)
<1>1. /\ m.thread = c.thread /\ m.cand = c.cand /\ m.gen = c.gen /\ m.cgen = c.cgen
      /\ b.thread = c.thread /\ b.cand = c.cand /\ DOMAIN m.outbox = DOMAIN c.outbox
  BY DEF Rereads, Relaned
<1>. SUFFICES ASSUME NEW l \in Lanes
              PROVE  LaneOwned(b, l)
  BY <1>1 DEF Keeping, LanesOwned, Rooted
<1>2. /\ b.phase[l] = RecoveredPhase(m, l) /\ b.cgen[l] = RecoveredCgen(m, l)
      /\ b.gen[l] = RecoveredGen(m, l)
  BY DEF Relaned
<1>3. /\ LaneOwned(c, l) /\ OwesNothing(c, l) /\ c.gen[l] \in Nat /\ c.cgen[l] \in Nat
      /\ \A i \in DOMAIN c.outbox : c.outbox[i].gen \in Nat
  BY ChatParts, OutboxEntries DEF LanesOwned, LaneOwned, Entry
<1>4. c.thread[l] # 0 => c.cand[l] = 0 /\ c.phase[l] \in Established
  BY DEF Shaped, PhasesFit, Established
<1>5. /\ b.cgen[l] >= c.cgen[l] /\ b.gen[l] >= c.gen[l] /\ b.gen[l] \in Nat /\ b.cgen[l] \in Nat
      /\ ~Reverified(m, l) => b.cgen[l] = c.cgen[l]
      /\ ~Reverified(m, l) /\ ~Reresumed(m, l) => b.gen[l] = c.gen[l]
  BY <1>1, <1>2, <1>3 DEF RecoveredCgen, RecoveredGen
<1>6. /\ Reverified(m, l) => c.cand[l] # 0
      /\ Reresumed(m, l) => c.thread[l] # 0
  BY <1>1 DEF Reverified, Reresumed
<1>7. \A i \in DOMAIN c.outbox :
        /\ i \in DOMAIN b.outbox /\ b.outbox[i] = m.outbox[i] /\ SameEffect(c.outbox[i], b.outbox[i])
        /\ c.outbox[i].kind = "resume" /\ m.outbox[i].status = "pending" => c.outbox[i].status = "pending"
        /\ c.outbox[i].kind = "create" => /\ Over(c.outbox[i]) => Over(m.outbox[i])
                                          /\ Over(m.outbox[i]) \/ m.outbox[i].status = "pending"
  <2>1. \A i \in DOMAIN c.outbox : i \in DOMAIN b.outbox /\ b.outbox[i] = m.outbox[i]
    BY <1>1 DEF Relaned
  <2>. QED  BY <2>1 DEF Rereads
<1>8. \A j \in DOMAIN b.outbox \ DOMAIN c.outbox : b.outbox[j].lane = l =>
        \/ Reverified(m, l) /\ b.outbox[j].kind = "create" /\ b.outbox[j].gen = b.cgen[l]
        \/ Reresumed(m, l) /\ b.outbox[j].kind = "resume" /\ b.outbox[j].gen = b.gen[l]
  <2>. SUFFICES ASSUME NEW j \in DOMAIN b.outbox \ DOMAIN c.outbox, b.outbox[j].lane = l
                PROVE  \/ Reverified(m, l) /\ b.outbox[j].kind = "create" /\ b.outbox[j].gen = b.cgen[l]
                       \/ Reresumed(m, l) /\ b.outbox[j].kind = "resume" /\ b.outbox[j].gen = b.gen[l]
    OBVIOUS
  <2>1. PICK k \in DOMAIN order : b.outbox[j] = RecoveryEffect(m, order[k])
    BY <1>1 DEF Relaned
  <2>2. order[k] \in NeedsEffect(m)
    BY DEF Orders
  <2>3. order[k] = l
    BY <2>1, <2>2, RecoveryEffectFacts
  <2>. QED  BY <1>2, <2>1, <2>2, <2>3, RecoveryEffectFacts
<1>9. OwesNothing(b, l)
  <2>1. (b.phase[l] \in Established) <=> (b.thread[l] # 0)
    BY DEF Shaped, PhasesFit
  <2>2. ASSUME NEW i \in DOMAIN b.outbox
        PROVE  /\ EffectOf(b.outbox[i], l, "create") => b.outbox[i].gen <= b.cgen[l]
               /\ EffectOf(b.outbox[i], l, "resume") => b.thread[l] # 0 /\ b.outbox[i].gen <= b.gen[l]
    <3>1. CASE i \in DOMAIN c.outbox
      <4>1. /\ EffectOf(c.outbox[i], l, "create") => c.outbox[i].gen <= c.cgen[l]
            /\ EffectOf(c.outbox[i], l, "resume") => c.thread[l] # 0 /\ c.outbox[i].gen <= c.gen[l]
            /\ c.outbox[i].gen \in Nat /\ SameEffect(c.outbox[i], b.outbox[i])
        BY <1>3, <1>7, <3>1 DEF OwesNothing
      <4>. QED  BY <1>1, <1>3, <1>5, <4>1 DEF EffectOf, SameEffect
    <3>2. CASE i \notin DOMAIN c.outbox
      BY <1>1, <1>5, <1>6, <1>8, <3>2 DEF EffectOf
    <3>. QED  BY <3>1, <3>2
  <2>. QED  BY <2>1, <2>2 DEF OwesNothing
<1>10. b.phase[l] = "resuming" => Resumed(b, l)
  <2>. SUFFICES ASSUME b.phase[l] = "resuming"  PROVE Resumed(b, l)
    OBVIOUS
  <2>1. c.thread[l] # 0 /\ c.cand[l] = 0 /\ ~Reverified(m, l)
    BY <1>1, <1>4, <1>6 DEF Shaped, PhasesFit, Established
  <2>2. m.phase[l] # "unselected" /\ ~PendingOpen(m, l, "create")
        /\ (PendingOpen(m, l, "resume") \/ FgWaits(m, l))
    BY <1>2 DEF RecoveredPhase
  <2>3. CASE PendingOpen(m, l, "resume")
    <3>1. PICK i \in DOMAIN c.outbox : /\ m.outbox[i].kind = "resume" /\ m.outbox[i].lane = l
                                       /\ m.outbox[i].status = "pending"
      BY <1>1, <2>3 DEF PendingOpen
    <3>2. c.outbox[i].kind = "resume" /\ c.outbox[i].lane = l /\ c.outbox[i].status = "pending"
          /\ b.outbox[i] = m.outbox[i] /\ b.outbox[i].gen = c.outbox[i].gen /\ i \in DOMAIN b.outbox
      BY <1>7, <3>1 DEF SameEffect
    <3>3. c.outbox[i].gen = c.gen[l]
      BY <3>2 DEF Shaped, ResumesCurrent
    <3>4. b.gen[l] = c.gen[l]
      BY <1>5, <2>1, <2>3 DEF Reresumed
    <3>. QED  BY <3>1, <3>2, <3>3, <3>4 DEF Resumed, EffectOf, Going
  <2>4. CASE ~PendingOpen(m, l, "resume")
    <3>1. m.phase[l] # "creating"
      BY <1>4, <2>1 DEF Rereads, Established
    <3>2. Reresumed(m, l) /\ l \in NeedsEffect(m)
      BY <1>1, <2>1, <2>2, <2>4, <3>1 DEF Reresumed, NeedsEffect
    <3>3. IsFiniteSet(NeedsEffect(m))
      BY ChatAssumption, FS_Subset DEF NeedsEffect
    <3>4. PICK k \in DOMAIN order : order[k] = l
      BY <3>2, <3>3, OrderedAll
    <3>5. \E j \in DOMAIN b.outbox : b.outbox[j] = RecoveryEffect(m, l)
      BY <3>4 DEF Relaned
    <3>6. RecoveryEffect(m, l) = ResumeEffect(l, b.gen[l])
      BY <1>2, <2>1 DEF RecoveryEffect
    <3>. QED  BY <3>5, <3>6 DEF ResumeEffect, Resumed, EffectOf, Going
  <2>. QED  BY <2>3, <2>4
<1>11. ASSUME c.thread[l] = 0, c.cand[l] = 0
       PROVE  (b.phase[l] = "creating" => Created(b, l)) /\ OnlyCreate(b, l)
  <2>1. ~Reverified(m, l) /\ ~Reresumed(m, l) /\ b.cgen[l] = c.cgen[l] /\ OnlyCreate(c, l)
    BY <1>3, <1>5, <1>6, <1>11 DEF LaneOwned
  <2>2. ASSUME NEW i \in DOMAIN b.outbox, EffectOf(b.outbox[i], l, "create"), ~Over(b.outbox[i])
        PROVE  /\ c.phase[l] = "creating" /\ b.outbox[i].gen = b.cgen[l]
               /\ b.outbox[i].status = "pending" /\ PendingOpen(m, l, "create")
    <3>1. i \in DOMAIN c.outbox
      BY <1>8, <2>1, <2>2 DEF EffectOf
    <3>2. EffectOf(c.outbox[i], l, "create") /\ b.outbox[i].gen = c.outbox[i].gen
          /\ b.outbox[i] = m.outbox[i]
      BY <1>7, <2>2, <3>1 DEF EffectOf, SameEffect
    <3>3. ~Over(c.outbox[i]) /\ b.outbox[i].status = "pending"
      BY <1>7, <2>2, <3>1, <3>2 DEF EffectOf
    <3>4. c.phase[l] = "creating" /\ c.outbox[i].gen = c.cgen[l]
      BY <2>1, <3>1, <3>2, <3>3 DEF OnlyCreate
    <3>5. PendingOpen(m, l, "create")
      BY <1>1, <2>2, <3>1, <3>2, <3>3 DEF PendingOpen, EffectOf
    <3>. QED  BY <2>1, <3>2, <3>3, <3>4, <3>5
  <2>3. OnlyCreate(b, l)
    <3>1. c.phase[l] = "creating" => m.phase[l] # "unselected"
      BY DEF Rereads
    <3>2. c.phase[l] = "creating" /\ PendingOpen(m, l, "create") => b.phase[l] = "creating"
      BY <1>2, <3>1 DEF RecoveredPhase
    <3>. QED  BY <2>2, <3>2 DEF OnlyCreate
  <2>4. b.phase[l] = "creating" => Created(b, l)
    <3>. SUFFICES ASSUME b.phase[l] = "creating"  PROVE Created(b, l)
      OBVIOUS
    <3>1. PendingOpen(m, l, "create")
      BY <1>2, <2>1 DEF RecoveredPhase
    <3>2. PICK i \in DOMAIN c.outbox : /\ m.outbox[i].kind = "create" /\ m.outbox[i].lane = l
                                       /\ m.outbox[i].status = "pending"
      BY <1>1, <3>1 DEF PendingOpen
    <3>3. i \in DOMAIN b.outbox /\ EffectOf(b.outbox[i], l, "create") /\ ~Over(b.outbox[i])
      BY <1>7, <3>2 DEF EffectOf, Over
    <3>. QED  BY <2>2, <3>3 DEF Created, Going
  <2>. QED  BY <2>3, <2>4
<1>. QED  BY <1>1, <1>9, <1>10, <1>11 DEF LaneOwned

LEMMA RecoverOutboxOwned ==
    ASSUME NEW c \in Placed, LanesOwned(c), Shaped(c), NEW order \in Orders(NeedsEffect(Reread(c))),
           Valid(RecoverOutbox(c, order))
    PROVE  Keeping(c, RecoverOutbox(c, order))
<1>. DEFINE m == Reread(c)
            b == [m EXCEPT !.phase  = [l \in Lanes |-> RecoveredPhase(m, l)],
                           !.cgen   = [l \in Lanes |-> RecoveredCgen(m, l)],
                           !.gen    = [l \in Lanes |-> RecoveredGen(m, l)],
                           !.outbox = @ \o [i \in DOMAIN order |-> RecoveryEffect(m, order[i])]]
            d == RecoverOutbox(c, order)
<1>1. m \in Placed /\ Rereads(c, m)
  BY RereadShaped
<1>2. d = b \/ (m.fg = NoOp /\ d = DriveQueued(b))
  BY DEF RecoverOutbox
<1>3. Valid(d) /\ order \in Orders(NeedsEffect(m))
  OBVIOUS
<1>. HIDE DEF m, d
<1>5. b \in Placed /\ Relaned(m, b, order)
  BY <1>1, <1>3, LanePass
<1>. HIDE DEF b
<1>6. \A l \in Lanes : m.phase[l] # "unselected" /\ PendingOpen(m, l, "create") => m.thread[l] = 0
  <2>. SUFFICES ASSUME NEW l \in Lanes, m.phase[l] # "unselected", PendingOpen(m, l, "create"),
                       m.thread[l] # 0
                PROVE  FALSE
    OBVIOUS
  <2>1. b.phase[l] = "creating" /\ b.thread = m.thread /\ b.cand = m.cand
    BY <1>5 DEF Relaned, RecoveredPhase
  <2>2. b.cand[l] = 0
    BY <1>1, <2>1 DEF Rereads, Shaped, PhasesFit, Established
  <2>3. d.phase[l] = "creating" /\ d.thread = b.thread
    BY <1>2, <1>5, <2>1, <2>2, DriveKeepsCreating
  <2>. QED  BY <1>3, <2>1, <2>3 DEF Valid
<1>7. b.fg # NoOp => \/ b.phase[FgLane(b)] = "running"
                     \/ b.phase[FgLane(b)] = "creating" /\ b.cand[FgLane(b)] # 0
                     \/ b.phase[FgLane(b)] = "resuming" /\ ~b.running
  <2>1. b.fg # NoOp => d = b
    BY <1>2, <1>5 DEF Relaned
  <2>. QED  BY <1>3, <2>1 DEF Valid, FgLane
<1>8. Shaped(b)
  BY <1>1, <1>3, <1>5, <1>6, <1>7, RelanedShaped
<1>9. Keeping(c, b)
  BY <1>1, <1>3, <1>5, <1>6, <1>8, RelanedOwned
<1>10. Keeping(c, d)
  BY <1>2, <1>5, <1>9, DrivenOwned
<1>. QED  BY <1>10 DEF d


(***************************************************************************)
(* The steps of the daemon keep every lane that is being opened with the   *)
(* effect that opens it.                                                   *)
(***************************************************************************)
\* A lane that is attached, or was until a loss that is not committed yet, has
\* a thread or a candidate: what goes away can be opened again.
Attended(h, u, l) == h[l] # 0 \/ \E v \in u : v[1] = l
Met(c, h, u) == \A l \in Lanes : Attended(h, u, l) => Rooted(c, l)
Attending == Daemon /\ LanesOwned(chat) /\ Met(chat, host, lost)
Attends == LanesOwned(chat') /\ Met(chat', host', lost')

\* Attachments only go.
LEMMA KeepingAttends ==
    ASSUME Attending, Keeping(chat, chat'), Loses(host, lost, host', lost')
    PROVE  Attends
<1>1. \A l \in Lanes : Attended(host', lost', l) => Attended(host, lost, l)
  BY DEF Attended, Loses
<1>. QED  BY <1>1 DEF Attending, Attends, Met, Keeping

\* The process is left alone.
LEMMA CommandAttends ==
    ASSUME Attending, Keeping(chat, chat') \/ chat' = chat, UNCHANGED <<host, lost>>
    PROVE  Attends
<1>1. Keeping(chat, chat')
  BY IdleOwned DEF Attending
<1>. QED  BY <1>1, LosesNothing, KeepingAttends

\* The commands of the user and the Stop executor.
LEMMA UsersAttend ==
    ASSUME Attending, Users \/ Stopper
    PROVE  Attends
<1>1. UNCHANGED <<host, lost>>
  BY DEF Users, Stopper, Select, SubmitInput, WithdrawInput, Stop, Command, ClaimStop,
         StopDelivered, StopRejected, drainVars, laneVars
<1>2. chat \in Placed /\ LanesOwned(chat)
  BY DaemonProcess DEF Attending
<1>3. ASSUME NEW l \in Lanes, Select(l)  PROVE Keeping(chat, chat')
  <2>1. PICK covered \in BOOLEAN : chat' = SelectLane(chat, l, covered)
    BY <1>3 DEF Select, Command
  <2>. QED  BY <1>2, <2>1, SelectLaneOwned
<1>4. ASSUME NEW i \in Inputs, NEW l \in Lanes, SubmitInput(i, l)  PROVE Keeping(chat, chat')
  <2>1. <<i, 0>> \in Ops
    BY ChatAssumption DEF Ops
  <2>2. CanSubmit(chat, <<i, 0>>, l) /\ chat' = Submit(chat, <<i, 0>>, l, TRUE)
    BY <1>4 DEF SubmitInput, Command
  <2>. QED  BY <1>2, <2>1, <2>2, SubmitOwned
<1>5. ASSUME NEW op \in Ops, WithdrawInput(op)  PROVE Keeping(chat, chat')
  <2>1. PICK covered \in BOOLEAN : CanWithdraw(chat, op) /\ chat' = Withdraw(chat, op, covered)
    BY <1>5 DEF WithdrawInput, Command
  <2>. QED  BY <1>2, <2>1, WithdrawOwned
<1>6. CASE Stop
  BY <1>1, <1>2, <1>6, StopOwned, CommandAttends DEF Stop, Command
<1>7. CASE ClaimStop
  <2>1. \A i \in DOMAIN chat.outbox : i \in CurrentStop(chat) => ~Opening(chat.outbox[i])
    BY DEF CurrentStop, Stops, Opening
  <2>2. Keeping(chat, chat')
    BY <1>2, <1>7, <2>1, ClaimOwned DEF ClaimStop
  <2>. QED  BY <1>1, <2>2, CommandAttends
<1>8. CASE StopDelivered \/ StopRejected
  BY <1>1, <1>2, <1>8, StopAnsweredOwned, CommandAttends DEF StopDelivered, StopRejected
<1>. QED  BY <1>1, <1>3, <1>4, <1>5, <1>6, <1>7, <1>8, CommandAttends DEF Users, Stopper

\* The engine claims an effect.
LEMMA ClaimAttends ==
    ASSUME Attending, Claim
    PROVE  Attends
<1>1. PICK i \in Claimable : chat' = [chat EXCEPT !.outbox = Mark(@, {i}, "dispatched")]
  BY DEF Claim
<1>2. UNCHANGED <<host, lost>> /\ chat.outbox[i].status = "pending"
  BY DEF Claim, Claimable, Executable, laneVars
<1>3. chat \in Placed /\ LanesOwned(chat)
  BY DaemonProcess DEF Attending
<1>4. \A j \in DOMAIN chat.outbox : j \in {i} /\ Opening(chat.outbox[j]) => chat.outbox[j].status = "pending"
  BY <1>2
<1>5. Keeping(chat, chat')
  BY <1>1, <1>3, <1>4, ClaimOwned
<1>. QED  BY <1>2, <1>5, CommandAttends

\* HostLost of an attachment, or of one whose loss waited.
LEMMA LossAttends ==
    ASSUME Attending, NEW l \in Lanes, Attended(host, lost, l), NEW g, chat' = HostLost(chat, l, g),
           Loses(host, lost, host', lost')
    PROVE  Attends
<1>1. chat \in Placed /\ LanesOwned(chat) /\ Shaped(chat) /\ Rooted(chat, l)
  BY DaemonProcess DEF Attending, Met
<1>2. Keeping(chat, chat')
  BY <1>1, HostLostOwned
<1>. QED  BY <1>2, KeepingAttends

\* LaneProtocolFailed of an attachment.
LEMMA ProtocolAttends ==
    ASSUME Attending, NEW l \in Lanes, host[l] # 0, ProtocolFailed(l), UNCHANGED lost
    PROVE  Attends
<1>1. chat \in Placed /\ LanesOwned(chat) /\ Shaped(chat) /\ Rooted(chat, l)
  BY DaemonProcess DEF Attending, Met, Attended
<1>2. Keeping(chat, chat')
  BY <1>1, LaneProtocolFailedOwned DEF ProtocolFailed
<1>. QED  BY <1>2, CommandAttends DEF ProtocolFailed

\* The attachment of a lane comes down.
LEMMA ReleaseAttends ==
    ASSUME Attending, NEW l \in Lanes, host[l] # 0, host' = [host EXCEPT ![l] = 0],
           lost' = lost \/ lost' = lost \union {<<l, host[l]>>},
           chat' = chat \/ chat' = HostLost(chat, l, host[l])
    PROVE  Attends
<1>1. host \in [Lanes -> Nat] /\ Attended(host, lost, l) /\ Keeping(chat, chat)
  BY DaemonProcess, IdleOwned DEF Attending, Process, Attended
<1>2. Loses(host, lost, host', lost')
  <2>1. /\ Loses(host, lost, [host EXCEPT ![l] = 0], lost)
        /\ Loses(host, lost, [host EXCEPT ![l] = 0], lost \union {<<l, host[l]>>})
    BY <1>1, LosesOne
  <2>. QED  BY <2>1, Zenon
<1>3. CASE chat' = chat
  BY <1>1, <1>2, <1>3, KeepingAttends
<1>4. CASE chat' = HostLost(chat, l, host[l])
  BY <1>1, <1>2, <1>4, LossAttends
<1>. QED  BY <1>3, <1>4

\* A failed open call.
LEMMA OpenFailureAttends ==
    ASSUME Attending, NEW l \in Lanes, NEW ambiguous \in BOOLEAN, OpenFailure(l, ambiguous),
           Loses(host, lost, host', lost')
    PROVE  Attends
<1>1. chat \in Placed /\ LanesOwned(chat)
  BY DaemonProcess DEF Attending
<1>2. Keeping(chat, chat')
  BY <1>1, IdleOwned, LaneOpenFailedOwned DEF OpenFailure
<1>. QED  BY <1>2, KeepingAttends

\* The report of a lane that was opened, accepted or refused.
LEMMA ReportAttends ==
    ASSUME Attending, exec.lane \in Lanes, NEW opens \in BOOLEAN, NEW opened,
           opens => Keeping(chat, opened) /\ Rooted(opened, exec.lane),
           ReportOpened(opens, opened), lost' = lost
    PROVE  Attends
<1>1. host \in [Lanes -> Nat]
  BY DaemonProcess DEF Attending, Process
<1>2. CASE opens
  <2>1. Keeping(chat, chat') /\ Rooted(chat', exec.lane) /\ host' = [host EXCEPT ![exec.lane] = exec.gen]
    BY <1>2 DEF ReportOpened
  <2>2. \A l \in Lanes \ {exec.lane} : Attended(host', lost', l) => Attended(host, lost, l)
    BY <1>1, <2>1 DEF Attended
  <2>. QED  BY <2>1, <2>2 DEF Attending, Attends, Met, Keeping
<1>3. CASE ~opens
  <2>1. host' = [host EXCEPT ![exec.lane] = 0] /\ (OpenFailure(exec.lane, FALSE) \/ chat' = chat)
    BY <1>3 DEF ReportOpened
  <2>2. Loses(host, lost, host', lost')
    BY <1>1, <2>1, LosesOne
  <2>3. CASE OpenFailure(exec.lane, FALSE)
    BY <2>2, <2>3, OpenFailureAttends
  <2>4. CASE chat' = chat
    <3>1. Keeping(chat, chat')
      BY <2>4, IdleOwned DEF Attending
    <3>. QED  BY <2>2, <3>1, KeepingAttends
  <2>. QED  BY <2>1, <2>3, <2>4
<1>. QED  BY <1>2, <1>3


\* The steps that open a lane.
LEMMA OpenerAttends ==
    ASSUME Attending, Opener
    PROVE  Attends
<1>. USE DaemonProcess
<1>1. Daemon /\ chat \in Placed /\ LanesOwned(chat) /\ Shaped(chat) /\ host \in [Lanes -> Nat]
  BY DEF Attending, Process
<1>2. CASE RetireAttachment
  <2>1. exec.lane \in Lanes
    BY <1>1, <1>2, OpeningWaits DEF RetireAttachment
  <2>2. \/ UNCHANGED <<chat, host, lost>>
        \/ /\ host[exec.lane] # 0 /\ host' = [host EXCEPT ![exec.lane] = 0]
           /\ lost' = lost \/ lost' = lost \union {<<exec.lane, host[exec.lane]>>}
           /\ chat' = chat \/ chat' = Detached(exec.lane)
    BY <1>2 DEF RetireAttachment, Release, laneVars
  <2>3. Detached(exec.lane) = chat \/ Detached(exec.lane) = HostLost(chat, exec.lane, host[exec.lane])
    BY DEF Detached
  <2>. QED  BY <2>1, <2>2, <2>3, CommandAttends, ReleaseAttends
<1>3. CASE CreateMinted \/ CreateReattached
  BY <1>3, CommandAttends DEF CreateMinted, CreateReattached, laneVars
<1>4. CASE CreateRefused \/ CreateFailed \/ CreateUncertain \/ ResumeFailed
  <2>1. exec.lane \in Lanes /\ UNCHANGED <<host, lost>>
        /\ \E ambiguous \in BOOLEAN : OpenFailure(exec.lane, ambiguous)
    BY <1>1, <1>4, OpeningWaits
       DEF CreateRefused, CreateFailed, CreateUncertain, ResumeFailed, Creating, Resuming,
           Daemon, IInv, ActorOK, laneVars
  <2>. QED  BY <2>1, OpenFailureAttends, LosesNothing
<1>5. CASE ReportCreated
  <2>1. exec.kind = "create" /\ exec.lane \in Lanes /\ exec.gen \in Nat /\ UNCHANGED lost
        /\ bind[exec.lane].id \in Nat \ {0} /\ exec.absent \in BOOLEAN
    BY <1>1, <1>5, OpeningWaits DEF ReportCreated, Daemon, Threads, IInv, ActorOK
  <2>2. chat.phase[exec.lane] # "resuming"
    BY <1>1, <2>1 DEF Linked, CreateFits, Shaped, PhasesFit, Established
  <2>. DEFINE l == exec.lane
              g == exec.gen
              t == bind[exec.lane].id
              absent == exec.absent
  <2>3. l \in Lanes /\ g \in Nat /\ t \in Nat \ {0} /\ absent \in BOOLEAN /\ l = exec.lane
    BY <2>1
  <2>4. CASE bind[exec.lane].committed
    <3>1. PICK covered \in BOOLEAN : ReportOpened(CanOpen(chat, l, t), LaneOpened(chat, l, g, t, covered))
      BY <1>5, <2>4 DEF ReportCreated
    <3>. HIDE DEF l, g, t
    <3>2. CanOpen(chat, l, t) =>
            Keeping(chat, LaneOpened(chat, l, g, t, covered)) /\ Rooted(LaneOpened(chat, l, g, t, covered), l)
      BY <1>1, <2>2, <2>3, LaneOpenedOwned
    <3>. QED  BY <2>1, <2>3, <3>1, <3>2, ReportAttends DEF CanOpen
  <2>5. CASE ~bind[exec.lane].committed
    <3>1. ReportOpened(CanProvision(chat, l, t, absent), LaneProvisioned(chat, l, g, t, absent))
      BY <1>5, <2>5 DEF ReportCreated
    <3>. HIDE DEF l, g, t, absent
    <3>2. CanProvision(chat, l, t, absent) =>
            /\ Keeping(chat, LaneProvisioned(chat, l, g, t, absent))
            /\ Rooted(LaneProvisioned(chat, l, g, t, absent), l)
      BY <1>1, <2>3, LaneProvisionedPlaced, LaneProvisionedOwned
    <3>. QED  BY <2>1, <2>3, <3>1, <3>2, ReportAttends DEF CanProvision
  <2>. QED  BY <2>4, <2>5
<1>6. CASE ReportResumed
  <2>1. exec.kind = "resume" /\ exec.lane \in Lanes /\ exec.gen \in Nat /\ UNCHANGED lost
    BY <1>1, <1>6, OpeningWaits DEF ReportResumed, Resuming, Daemon, IInv, ActorOK
  <2>2. chat.phase[exec.lane] = "resuming" /\ exec.gen = chat.gen[exec.lane]
    BY <1>1, <2>1 DEF Linked, ResumeFits
  <2>3. chat.thread[exec.lane] \in Nat \ {0}
    BY <1>1, <2>1, <2>2, ChatParts DEF Shaped, PhasesFit, Established
  <2>. DEFINE l == exec.lane
              g == exec.gen
              t == chat.thread[exec.lane]
  <2>4. PICK covered \in BOOLEAN : ReportOpened(CanOpen(chat, l, t), LaneOpened(chat, l, g, t, covered))
    BY <1>6 DEF ReportResumed
  <2>5. l \in Lanes /\ g \in Nat /\ t \in Nat \ {0} /\ l = exec.lane /\ g = chat.gen[l]
    BY <2>1, <2>2, <2>3
  <2>. HIDE DEF l, g, t
  <2>6. CanOpen(chat, l, t) =>
          Keeping(chat, LaneOpened(chat, l, g, t, covered)) /\ Rooted(LaneOpened(chat, l, g, t, covered), l)
    BY <1>1, <2>5, LaneOpenedOwned
  <2>. QED  BY <2>1, <2>4, <2>5, <2>6, ReportAttends DEF CanOpen
<1>. QED  BY <1>2, <1>3, <1>4, <1>5, <1>6 DEF Opener

\* The steps that start a turn.
LEMMA StarterAttends ==
    ASSUME Attending, Starter
    PROVE  Attends
<1>1. chat \in Placed /\ LanesOwned(chat) /\ Shaped(chat) /\ Daemon
  BY DaemonProcess DEF Attending
<1>2. UNCHANGED <<host, lost>>
  BY DEF Starter, StartUnattached, StartCalled, CommitAdmission, AdmissionReturned, StartFailed, StartUncertain,
         laneVars
<1>3. CASE CommitAdmission
  <2>1. exec.kind = "start" /\ exec.at = "calling" /\ chat.fg = exec.op /\ chat' = TurnAdmitted(chat)
    BY <1>3 DEF CommitAdmission, Starting, Admissible
  <2>2. chat.fg # NoOp /\ ~chat.running /\ chat.phase[FgLane(chat)] # "resuming"
    BY <1>1, <2>1, InHandWaits
  <2>. QED  BY <1>1, <1>2, <2>1, <2>2, TurnAdmittedOwned, CommandAttends
<1>4. CASE chat' = chat \/ chat' = TurnDeferred(chat, exec.op)
  BY <1>1, <1>2, <1>4, TurnDeferredOwned, CommandAttends
<1>5. CASE /\ exec.kind = "start" /\ exec.at = "calling" /\ chat.fg = exec.op
           /\ chat' = TurnRefused(chat) \/ chat' = TurnAmbiguous(chat)
  <2>1. chat.fg # NoOp
    BY <1>1, <1>5, InHandWaits
  <2>. QED  BY <1>1, <1>2, <1>5, <2>1, TurnRefusedOwned, TurnAmbiguousOwned, CommandAttends
<1>6. CASE StartUnattached \/ StartCalled \/ AdmissionReturned
  BY <1>4, <1>6 DEF StartUnattached, StartCalled, AdmissionReturned
<1>7. CASE StartFailed
  BY <1>4, <1>5, <1>7 DEF StartFailed, Starting
<1>8. CASE StartUncertain
  BY <1>5, <1>8 DEF StartUncertain, Starting, Admissible
<1>. QED  BY <1>3, <1>6, <1>7, <1>8 DEF Starter

\* The worker of a turn.
LEMMA WorkerAttends ==
    ASSUME Attending, NEW l \in Lanes, Worker(l)
    PROVE  Attends
<1>1. chat \in Placed /\ LanesOwned(chat) /\ Shaped(chat) /\ Daemon
  BY DaemonProcess DEF Attending
<1>2. worker[l].at # "none" /\ UNCHANGED lost
  BY DEF Worker, WritePrompt, TakeInput, ConfirmInput, EndTurn, drainVars
<1>3. host[l] # 0 /\ (failing[l] = "no" => chat.running /\ chat.fg = worker[l].op)
  BY <1>1, <1>2, BusyWorker DEF Runs
<1>4. CASE WritePrompt(l) \/ TakeInput(l)
  BY <1>4, CommandAttends DEF WritePrompt, TakeInput
<1>5. CASE ProtocolFailed(l)
  BY <1>2, <1>3, <1>5, ProtocolAttends
<1>6. CASE ConfirmInput(l) /\ ~ProtocolFailed(l)
  <2>. DEFINE t == IF chat.cand[l] = 0 THEN 0 ELSE bind[l].id
  <2>1. /\ CanConsume(chat, worker[l].op, t) /\ chat' = InputConsumed(chat, t) /\ UNCHANGED host
        /\ failing[l] = "no"
    BY <1>6 DEF ConfirmInput, Event
  <2>2. t \in Nat
    BY <1>1 DEF Daemon, IInv, ActorOK
  <2>. HIDE DEF t
  <2>3. Keeping(chat, chat')
    BY <1>1, <1>3, <2>1, <2>2, InputConsumedOwned
  <2>. QED  BY <1>2, <2>1, <2>3, CommandAttends
<1>7. CASE EndTurn(l) /\ ~ProtocolFailed(l)
  <2>1. PICK interrupted \in {FALSE, closing}, covered \in BOOLEAN :
          chat' = TurnTerminated(chat, interrupted, covered)
    BY <1>7 DEF EndTurn, Event
  <2>2. interrupted \in BOOLEAN /\ UNCHANGED host /\ failing[l] = "no"
    BY <1>1, <1>7 DEF EndTurn, Daemon, IInv, ActorOK
  <2>3. Keeping(chat, chat')
    BY <1>1, <1>3, <2>1, <2>2, TurnTerminatedOwned
  <2>. QED  BY <1>2, <2>2, <2>3, CommandAttends
<1>. QED  BY <1>4, <1>5, <1>6, <1>7 DEF Worker

\* The faults of a lane.
LEMMA BreaksAttend ==
    ASSUME Attending, NEW l \in Lanes, Breaks(l)
    PROVE  Attends
<1>1. CASE EventRefused(l)
  BY <1>1, ProtocolAttends DEF EventRefused
<1>2. CASE DetachLane(l) \/ StreamClosed(l)
  <2>1. /\ host[l] # 0 /\ host' = [host EXCEPT ![l] = 0]
        /\ lost' = lost \/ lost' = lost \union {<<l, host[l]>>}
    BY <1>2 DEF DetachLane, StreamClosed, CloseStream, Release
  <2>2. chat' = chat \/ chat' = HostLost(chat, l, host[l])
    BY <1>2 DEF DetachLane, StreamClosed, CloseStream, Event, Detached
  <2>. QED  BY <2>1, <2>2, ReleaseAttends
<1>3. CASE HealthFailed(l)
  <2>1. host[l] # 0 /\ chat' = LaneUnhealthy(chat, l) /\ UNCHANGED <<host, lost>>
    BY <1>3 DEF HealthFailed, Current, Event
  <2>2. chat \in Placed /\ LanesOwned(chat) /\ Shaped(chat) /\ Rooted(chat, l)
    BY <2>1, DaemonProcess DEF Attending, Met, Attended
  <2>3. Keeping(chat, chat')
    BY <2>1, <2>2, LaneUnhealthyOwned
  <2>. QED  BY <2>1, <2>3, CommandAttends
<1>. QED  BY <1>1, <1>2, <1>3 DEF Breaks

\* The attachment of a failing lane comes down.
LEMMA TeardownAttends ==
    ASSUME Attending, NEW l \in Lanes, Teardown(l)
    PROVE  Attends
<1>1. host[l] # 0
  BY DEF Teardown, Attending, Daemon, Threads
<1>2. /\ chat' = chat /\ host' = [host EXCEPT ![l] = 0]
      /\ lost' = lost \/ lost' = lost \union {<<l, host[l]>>}
  BY DEF Teardown, CloseStream, Release
<1>. QED  BY <1>1, <1>2, ReleaseAttends

\* The loss of a closed event stream is committed.
LEMMA LossCommittedAttends ==
    ASSUME Attending, NEW loss \in lost, LossCommitted(loss)
    PROVE  Attends
<1>1. /\ loss[1] \in Lanes /\ lost' = lost \ {loss} /\ UNCHANGED host
      /\ chat' = HostLost(chat, loss[1], loss[2])
  BY DaemonProcess DEF LossCommitted, Event, Process, Attending, laneVars
<1>2. Loses(host, lost, host', lost') /\ Attended(host, lost, loss[1])
  BY <1>1 DEF Loses, Attended
<1>. QED  BY <1>1, <1>2, LossAttends

\* A restart: nothing is attached.
LEMMA RestartAttends ==
    ASSUME Attending, Restart
    PROVE  Attends
<1>1. PICK order \in Orders(NeedsEffect(Reread(chat))) :
        chat' = RecoverOutbox(chat, order) /\ Valid(chat')
  BY DEF Restart
<1>2. Keeping(chat, chat')
  BY <1>1, DaemonProcess, RecoverOutboxOwned DEF Attending
<1>3. Loses(host, lost, host', lost')
  BY DEF Restart, Loses
<1>. QED  BY <1>2, <1>3, KeepingAttends

LEMMA NextAttends ==
    ASSUME Attending, [Next]_vars
    PROVE  Attends
<1>1. CASE DrainSettled \/ Close \/ UNCHANGED vars
  BY <1>1, CommandAttends DEF DrainSettled, Close, vars, laneVars
<1>. QED  BY <1>1, UsersAttend, ClaimAttends, OpenerAttends, StarterAttends, WorkerAttends, BreaksAttend,
             TeardownAttends, LossCommittedAttends, RestartAttends
          DEF Next, Drainer

\* At first no lane is opened and nothing is attached.
LEMMA AttendingInit == Init => Attending
<1>. SUFFICES ASSUME Init  PROVE Attending
  OBVIOUS
<1>1. chat = InitialChat /\ lost = {} /\ host = [l \in Lanes |-> 0]
  BY DEF Init
<1>2. LanesOwned(chat)
  BY <1>1 DEF InitialChat, LanesOwned, LaneOwned, OwesNothing, OnlyCreate, Established
<1>3. Met(chat, host, lost)
  BY <1>1 DEF Met, Attended
<1>. QED  BY <1>2, <1>3, DaemonInit DEF Attending

\* A lane that is being opened never waits for an effect that is over: each
\* resuming lane has its resume, and each lane that is created for the first
\* time its create, pending or dispatched, whatever failed or restarted before.
THEOREM OpeningIsOwned == Spec => []OpeningOwned
<1>1. Attending /\ [Next]_vars => Attending'
  BY NextDaemon, NextAttends DEF Attending, Attends
<1>2. Attending => OpeningOwned
  <2>. SUFFICES ASSUME Attending, NEW l \in Lanes
                PROVE  /\ chat.phase[l] = "resuming" => Live(Resumes(chat, l, chat.gen[l]))
                       /\ chat.phase[l] = "creating" /\ chat.cand[l] = 0 =>
                            Live(Creates(chat, l, chat.cgen[l]))
    BY DEF OpeningOwned
  <2>1. LaneOwned(chat, l)
    BY DEF Attending, LanesOwned
  <2>2. Resumed(chat, l) => Live(Resumes(chat, l, chat.gen[l]))
    BY DEF Resumed, EffectOf, Going, Live, Has, Resumes
  <2>3. Created(chat, l) => Live(Creates(chat, l, chat.cgen[l]))
    BY DEF Created, EffectOf, Going, Live, Has, Creates
  <2>4. chat.phase[l] = "creating" => chat.thread[l] = 0
    BY <2>1 DEF LaneOwned, OwesNothing, Established
  <2>. QED  BY <2>1, <2>2, <2>3, <2>4 DEF LaneOwned
<1>. QED  BY <1>1, <1>2, AttendingInit, PTL DEF Spec


(***************************************************************************)
(* Which chats a restarted daemon can open again.                          *)
(***************************************************************************)
\* A lane that has its native thread still owes a create it never dispatched.
Owing == \E l \in Lanes : chat.thread[l] # 0 /\ PendingOpen(chat, l, "create")

\* Rereading the outbox of a stored chat leaves the pending creates of the
\* established lanes pending, and makes no other.
LEMMA RereadCreates ==
    ASSUME NEW c \in Placed, Shaped(c), NEW l \in Lanes, c.thread[l] # 0
    PROVE  PendingOpen(Reread(c), l, "create") <=> PendingOpen(c, l, "create")
<1>. DEFINE box == [i \in DOMAIN c.outbox |-> RecoveredEntry(c, c.outbox[i])]
            seen == [c EXCEPT !.outbox = box]
            phase == IF seen.cand[seen.lane[seen.fg]] # 0 THEN "absent"
                     ELSE Unattached(seen, seen.lane[seen.fg])
            shut == [seen EXCEPT !.phase[seen.lane[seen.fg]] = phase]
            kept == Requeued(shut)
            m == Reread(c)
<1>1. c \in Chat /\ c.outbox \in Seq(Entry) /\ m \in Placed /\ Rereads(c, m)
  BY RereadShaped DEF Placed, Chat
<1>2. box \in Seq(Entry)
  <2>1. \A i \in 1 .. Len(c.outbox) : RecoveredEntry(c, c.outbox[i]) \in Entry
    BY <1>1, RecoveredEntryType
  <2>2. box = [i \in 1 .. Len(c.outbox) |-> RecoveredEntry(c, c.outbox[i])]
    BY <1>1
  <2>. QED  BY <1>1, <2>1, <2>2, Len(c.outbox) \in Nat
<1>3. ASSUME NEW i \in DOMAIN c.outbox, c.outbox[i].kind = "create", c.outbox[i].lane = l
      PROVE  box[i].kind = "create" /\ (box[i].status = "pending" <=> c.outbox[i].status = "pending")
  <2>1. c.outbox[i] \in Entry /\ box[i] = RecoveredEntry(c, c.outbox[i])
    BY OutboxEntries
  <2>2. SameEffect(c.outbox[i], box[i])
    BY <2>1, RecoveredEntryFacts
  <2>3. CASE c.outbox[i].status \in {"dispatched", "accepted", "consumed"}
    <3>1. RecoveredEntry(c, c.outbox[i]) = [c.outbox[i] EXCEPT !.status = "completed", !.recon = FALSE]
      BY <1>3, <2>3 DEF RecoveredEntry
    <3>2. box[i].status = "completed"
      BY <2>1, <3>1 DEF Entry
    <3>. QED  BY <1>3, <2>2, <2>3, <3>2 DEF SameEffect
  <2>4. CASE c.outbox[i].status \notin {"dispatched", "accepted", "consumed"}
    <3>1. RecoveredEntry(c, c.outbox[i]) = c.outbox[i]
      BY <1>3, <2>4 DEF RecoveredEntry
    <3>. QED  BY <1>3, <2>1, <3>1
  <2>. QED  BY <2>3, <2>4
<1>4. DOMAIN box = DOMAIN c.outbox
  OBVIOUS
<1>5. m = RetiredForeground(seen)
  BY <1>1 DEF Reread
<1>. HIDE DEF box
<1>6. seen \in Chat /\ seen.outbox = box
  BY <1>1, <1>2 DEF Chat
<1>7. seen \in Placed
  <2>1. seen.queue = c.queue /\ seen.fg = c.fg /\ seen.lane = c.lane
    BY <1>1 DEF Chat
  <2>. QED  BY <1>6, <2>1, Frame
<1>8. m = seen \/ m = Interrupted(kept)
  BY <1>5 DEF RetiredForeground
<1>9. \A i \in DOMAIN c.outbox : box[i].kind = "create" => m.outbox[i] = box[i]
  <2>1. CASE m = seen
    BY <1>4, <1>6, <2>1
  <2>2. CASE m = Interrupted(kept)
    <3>1. phase \in Phases
      BY DEF Unattached, Phases
    <3>. HIDE DEF seen, phase
    <3>2. shut \in Chat /\ shut.outbox = box /\ shut.queue = seen.queue /\ shut.fg = seen.fg
          /\ shut.lane = seen.lane
      BY <1>6, <3>1 DEF Chat
    <3>3. shut \in Placed
      BY <1>7, <3>2, Frame
    <3>. HIDE DEF shut
    <3>4. kept \in Placed /\ kept.outbox = box
      BY <3>2, <3>3, RequeuedCalm
    <3>. HIDE DEF kept
    <3>. QED  BY <1>4, <2>2, <3>4, InterruptedCleared DEF Vacated
  <2>. QED  BY <1>8, <2>1, <2>2
<1>. HIDE DEF m
<1>10. DOMAIN m.outbox = DOMAIN c.outbox /\ \A i \in DOMAIN c.outbox : SameEffect(c.outbox[i], m.outbox[i])
  BY <1>1 DEF Rereads
<1>11. ASSUME PendingOpen(m, l, "create")
       PROVE  PendingOpen(c, l, "create")
  <2>1. PICK i \in DOMAIN m.outbox : /\ m.outbox[i].kind = "create" /\ m.outbox[i].lane = l
                                     /\ m.outbox[i].status = "pending"
    BY <1>11 DEF PendingOpen
  <2>2. i \in DOMAIN c.outbox /\ c.outbox[i].kind = "create" /\ c.outbox[i].lane = l
    BY <1>10, <2>1 DEF SameEffect
  <2>3. c.outbox[i].status = "pending"
    BY <1>3, <1>9, <2>1, <2>2
  <2>. QED  BY <2>2, <2>3 DEF PendingOpen
<1>12. ASSUME PendingOpen(c, l, "create")
       PROVE  PendingOpen(m, l, "create")
  <2>1. PICK i \in DOMAIN c.outbox : /\ c.outbox[i].kind = "create" /\ c.outbox[i].lane = l
                                     /\ c.outbox[i].status = "pending"
    BY <1>12 DEF PendingOpen
  <2>2. i \in DOMAIN m.outbox /\ m.outbox[i].kind = "create" /\ m.outbox[i].lane = l
    BY <1>10, <2>1 DEF SameEffect
  <2>3. m.outbox[i].status = "pending"
    BY <1>3, <1>9, <2>1
  <2>. QED  BY <2>2, <2>3 DEF PendingOpen
<1>. QED  BY <1>11, <1>12 DEF m

\* The lanes of a finite set can be walked in some order.
LEMMA OrdersExist ==
    ASSUME NEW c
    PROVE  \E order : order \in Orders(NeedsEffect(c))
<1>. DEFINE S == NeedsEffect(c)
<1>1. IsFiniteSet(S)
  BY ChatAssumption, FS_Subset DEF NeedsEffect
<1>2. ExistsBijection(1 .. Cardinality(S), S)
  BY <1>1, FS_CardinalityType
<1>. HIDE DEF S
<1>3. PICK f : f \in Bijection(1 .. Cardinality(S), S)
  BY <1>2 DEF ExistsBijection
<1>4. f \in [1 .. Cardinality(S) -> S] /\ \A i, j \in 1 .. Cardinality(S) : f[i] = f[j] => i = j
  BY <1>3 DEF Bijection, Injection, IsInjective
<1>5. f \in Orders(S)
  BY <1>4 DEF Orders
<1>. QED  BY <1>5 DEF S

\* A chat that owes nothing passes State.Validate after RecoverOutbox.
LEMMA UnowingRecovers ==
    ASSUME Daemon, ~Owing, NEW order \in Orders(NeedsEffect(Reread(chat)))
    PROVE  Valid(RecoverOutbox(chat, order))
<1>. DEFINE c == chat
            m == Reread(c)
            b == [m EXCEPT !.phase  = [l \in Lanes |-> RecoveredPhase(m, l)],
                           !.cgen   = [l \in Lanes |-> RecoveredCgen(m, l)],
                           !.gen    = [l \in Lanes |-> RecoveredGen(m, l)],
                           !.outbox = @ \o [i \in DOMAIN order |-> RecoveryEffect(m, order[i])]]
            d == RecoverOutbox(c, order)
<1>1. c \in Placed /\ Shaped(c) /\ Owned(c)
  BY DaemonProcess DEF Daemon, Fits
<1>2. m \in Placed /\ Rereads(c, m)
  BY <1>1, RereadShaped
<1>3. d = b \/ d = DriveQueued(b)
  BY DEF RecoverOutbox
<1>4. Apart(d)
  <2>1. Moves(c, d)
    BY <1>1, RecoverOutboxMoves, CutsAreMoves, SameIsMove
  <2>. QED  BY <1>1, <2>1, MovesOwned, OwnedApart
<1>5. order \in Orders(NeedsEffect(m))
  OBVIOUS
<1>6. \A l \in Lanes : m.thread[l] # 0 => ~PendingOpen(m, l, "create")
  <2>. SUFFICES ASSUME NEW l \in Lanes, m.thread[l] # 0  PROVE ~PendingOpen(m, l, "create")
    OBVIOUS
  <2>1. c.thread[l] # 0
    BY <1>2 DEF Rereads
  <2>. QED  BY <1>1, <2>1, RereadCreates DEF Owing
<1>. HIDE DEF c, m, d
<1>7. b \in Placed /\ Relaned(m, b, order)
  BY <1>2, <1>5, LanePass
<1>. HIDE DEF b
<1>8. b.fg # NoOp => \/ b.phase[FgLane(b)] = "running"
                     \/ b.phase[FgLane(b)] = "creating" /\ b.cand[FgLane(b)] # 0
                     \/ b.phase[FgLane(b)] = "resuming" /\ ~b.running
  <2>. SUFFICES ASSUME b.fg # NoOp
                PROVE  \/ b.phase[FgLane(b)] = "creating" /\ b.cand[FgLane(b)] # 0
                       \/ b.phase[FgLane(b)] = "resuming" /\ ~b.running
    OBVIOUS
  <2>. DEFINE l == FgLane(c)
  <2>1. m.fg = c.fg /\ c.fg # NoOp /\ ~c.running /\ ~m.running /\ ~b.running /\ b.cand = c.cand
        /\ m.cand = c.cand /\ m.thread = c.thread /\ b.fg = c.fg /\ b.lane = m.lane
    BY <1>2, <1>7 DEF Rereads, Relaned
  <2>2. c.fg \in Ops /\ l \in Lanes /\ l = c.lane[c.fg]
    BY <1>1, <2>1, ChatParts DEF Placed
  <2>3. m.lane[c.fg] = c.lane[c.fg]
    BY <1>2, <2>1, <2>2, NoOpIsNoOp DEF Rereads, QueueCalm
  <2>4. FgLane(m) = l /\ FgLane(b) = l /\ FgWaits(m, l)
    BY <2>1, <2>2, <2>3 DEF FgLane, FgWaits
  <2>5. m.phase[l] = c.phase[l] \/ m.phase[l] \in {"absent", "detached"}
    BY <1>2, <2>2 DEF Rereads
  <2>6. \/ c.phase[l] \in {"running", "resuming"}
        \/ c.phase[l] = "creating" /\ c.cand[l] # 0
    BY <1>1, <2>1 DEF Shaped, ForegroundFits
  <2>7. b.phase[l] = RecoveredPhase(m, l)
    BY <1>7, <2>2 DEF Relaned
  <2>8. m.phase[l] # "unselected"
    BY <2>5, <2>6
  <2>. HIDE DEF l
  <2>9. CASE c.phase[l] \in {"running", "resuming"}
    <3>1. c.thread[l] # 0
      BY <1>1, <2>2, <2>9 DEF Shaped, PhasesFit, Established
    <3>2. ~PendingOpen(m, l, "create")
      BY <1>6, <2>1, <2>2, <3>1
    <3>3. RecoveredPhase(m, l) = "resuming"
      BY <2>1, <2>4, <2>8, <3>1, <3>2 DEF RecoveredPhase
    <3>. QED  BY <2>1, <2>4, <2>7, <3>3
  <2>10. CASE c.phase[l] = "creating" /\ c.cand[l] # 0
    <3>1. c.thread[l] = 0
      BY <1>1, <2>2, <2>10 DEF Shaped, PhasesFit, Established
    <3>2. PendingOpen(m, l, "create") \/ Reverified(m, l)
      BY <2>1, <2>4, <2>10 DEF Reverified
    <3>3. RecoveredPhase(m, l) = "creating"
      BY <2>1, <2>8, <3>1, <3>2 DEF RecoveredPhase
    <3>. QED  BY <2>1, <2>4, <2>7, <2>10, <3>3
  <2>. QED  BY <2>6, <2>9, <2>10
<1>9. Shaped(b)
  <2>1. \A l \in Lanes : m.phase[l] # "unselected" /\ PendingOpen(m, l, "create") => m.thread[l] = 0
    BY <1>6
  <2>. QED  BY <1>1, <1>2, <1>5, <1>7, <1>8, <2>1, RelanedShaped
<1>10. Shaped(d)
  <2>1. CASE d = b
    BY <1>9, <2>1
  <2>2. CASE d = Drive(b, TRUE)
    <3>1. Apart(Drive(b, TRUE))
      BY <1>4, <2>2
    <3>2. Shaped(Drive(b, TRUE))
      BY <1>7, <1>9, <3>1, DriveShaped
    <3>. QED  BY <2>2, <3>2
  <2>. QED  BY <1>3, <2>1, <2>2 DEF DriveQueued
<1>11. Valid(d)
  BY <1>10 DEF Shaped, PhasesFit, ForegroundFits, Established, Valid, FgLane
<1>. QED  BY <1>11 DEF d, c

\* A chat that owes a create fails State.Validate after RecoverOutbox: the
\* lane pass makes its established lane creating again.
LEMMA OwingFails ==
    ASSUME Daemon, Owing, NEW order \in Orders(NeedsEffect(Reread(chat)))
    PROVE  ~Valid(RecoverOutbox(chat, order))
<1>. DEFINE c == chat
            m == Reread(c)
            b == [m EXCEPT !.phase  = [l \in Lanes |-> RecoveredPhase(m, l)],
                           !.cgen   = [l \in Lanes |-> RecoveredCgen(m, l)],
                           !.gen    = [l \in Lanes |-> RecoveredGen(m, l)],
                           !.outbox = @ \o [i \in DOMAIN order |-> RecoveryEffect(m, order[i])]]
            d == RecoverOutbox(c, order)
<1>1. c \in Placed /\ Shaped(c)
  BY DaemonProcess DEF Daemon, Fits
<1>2. m \in Placed /\ Rereads(c, m)
  BY <1>1, RereadShaped
<1>3. d = b \/ d = DriveQueued(b)
  BY DEF RecoverOutbox
<1>4. order \in Orders(NeedsEffect(m))
  OBVIOUS
<1>5. PICK l \in Lanes : c.thread[l] # 0 /\ PendingOpen(c, l, "create")
  BY DEF Owing
<1>6. PendingOpen(m, l, "create")
  BY <1>1, <1>5, RereadCreates
<1>. HIDE DEF c, m, d
<1>7. b \in Placed /\ Relaned(m, b, order)
  BY <1>2, <1>4, LanePass
<1>. HIDE DEF b
<1>8. c.phase[l] \in Established /\ c.cand[l] = 0
  BY <1>1, <1>5 DEF Shaped, PhasesFit, Established
<1>9. m.phase[l] # "unselected"
  BY <1>2, <1>8 DEF Rereads, Established
<1>10. b.phase[l] = "creating" /\ b.cand[l] = 0 /\ b.thread[l] # 0
  BY <1>2, <1>5, <1>6, <1>7, <1>8, <1>9 DEF Relaned, Rereads, RecoveredPhase
<1>11. d.phase[l] = "creating" /\ d.thread = b.thread
  BY <1>3, <1>7, <1>10, DriveKeepsCreating
<1>12. ~Valid(d)
  BY <1>10, <1>11 DEF Valid
<1>. QED  BY <1>12 DEF d, c

\* What Reopens is violated by (the run ChatReload shows one such chat), for
\* any number of lanes, inputs, faults and restarts: a restarted daemon opens
\* a stored chat again except when a lane that has its native thread still
\* owes a create that was recorded and never dispatched. Then the lane pass of
\* RecoverOutbox calls the established lane creating, and Validate refuses it.
THEOREM ReopensUnlessOwing == Spec => [](Reopens <=> ~Owing)
<1>1. Daemon => (Reopens <=> ~Owing)
  <2>1. ASSUME Daemon, ~Owing  PROVE Reopens
    BY <2>1, UnowingRecovers DEF Reopens
  <2>2. ASSUME Daemon, Owing  PROVE ~Reopens
    <3>1. PICK order : order \in Orders(NeedsEffect(Reread(chat)))
      BY OrdersExist
    <3>. QED  BY <2>2, <3>1, OwingFails DEF Reopens
  <2>. QED  BY <2>1, <2>2
<1>. QED  BY <1>1, DaemonInvariance, PTL

=============================================================================
