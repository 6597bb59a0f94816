------------------------- MODULE PromiseSettleProofs -------------------------
(***************************************************************************)
(* For any sets of promises and async calls: a promise is settled once.    *)
(* What will settle a promise whose latch is taken is held in exactly one  *)
(* place (a job, a reaction, a getter's frame, an open pair), and no place *)
(* holds anything for another promise.  Every step either leaves a place   *)
(* alone, moves it, or uses it up and settles the promise.                 *)
(***************************************************************************)
EXTENDS PromiseProofs, FiniteSetTheorems

-----------------------------------------------------------------------------
(* The places, and the invariant.                                          *)

Carries(r, p)  == r.kind \in {"thenable", "pair"} /\ r.to = p

InQueue(i, p)      == i \in DOMAIN queue /\ Carries(queue[i], p)
InList(q, i, p)    == q \in Promises /\ i \in DOMAIN reactions[q] /\ Carries(reactions[q][i], p)
InFlight(p)        == at = "job" /\ Carries(job, p)
GetterIn(fs, i, p) == i \in DOMAIN fs /\ fs[i].in = "getter" /\ fs[i].of = p
InGetter(i, p)     == GetterIn(frames, i, p)
HasPair(p)         == pair[p] = "open"

\* The place <<t, q, i>> holds what will settle p.
Held(t, q, i, p) ==
  \/ t = 0 /\ q = None /\ InQueue(i, p)
  \/ t = 1 /\ InList(q, i, p)
  \/ t = 2 /\ q = None /\ i = 0 /\ InFlight(p)
  \/ t = 3 /\ q = None /\ InGetter(i, p)
  \/ t = 4 /\ q = None /\ i = 0 /\ HasPair(p)

Owed(p)    == resolved[p] /\ st[p] = "pending"
OneIn(p)   ==
  /\ \E t, q, i : Held(t, q, i, p)
  /\ \A t, q, i, t2, q2, i2 :
       Held(t, q, i, p) /\ Held(t2, q2, i2, p) => t2 = t /\ q2 = q /\ i2 = i
Nowhere(p) == \A t, q, i : ~Held(t, q, i, p)
Placed(p)  == (Owed(p) => OneIn(p)) /\ (~Owed(p) => Nowhere(p))

\* The latch: taken by no promise that does not exist, and by each settled one.
Latched ==
  \A p \in Promises : /\ ~resolved[p] => ~Settled(p)
                      /\ st[p] = "none" => ~resolved[p]

\* Whatever the runtime holds is for a promise that exists.
KnownFrames(fs) == \A i \in DOMAIN fs : Exists(fs[i].of)
Known ==
  /\ \A i \in DOMAIN queue : Exists(queue[i].to)
  /\ \A q \in Promises : \A i \in DOMAIN reactions[q] : Exists(reactions[q][i].to)
  /\ at = "job" => Exists(job.to)
  /\ KnownFrames(frames)

SInv == /\ \A p \in Promises : Placed(p)
        /\ Latched
        /\ Known
        /\ resettled = FALSE

\* A promise names a value.
LEMMA PromiseIsValue == ASSUME NEW p \in Promises PROVE p \in Values
  BY DEF Values

-----------------------------------------------------------------------------
(* Where the places of one promise are after a step.                       *)

\* Every place of q is where it was.
Same(q) ==
  /\ \A i : InQueue(i, q)' <=> InQueue(i, q)
  /\ \A r, i : InList(r, i, q)' <=> InList(r, i, q)
  /\ InFlight(q)' <=> InFlight(q)
  /\ \A i : InGetter(i, q)' <=> InGetter(i, q)
  /\ HasPair(q)' <=> HasPair(q)

\* A promise whose places stay keeps how many it has.
LEMMA SameKeeps ==
  ASSUME NEW q, Same(q)
  PROVE  (OneIn(q) => OneIn(q)') /\ (Nowhere(q) => Nowhere(q)')
  <1>1. \A t, r, i : Held(t, r, i, q)' <=> Held(t, r, i, q)
    BY DEF Same, Held
  <1> QED BY <1>1 DEF OneIn, Nowhere

\* It also stays placed when the step neither takes its latch nor settles it.
LEMMA SamePlaced ==
  ASSUME NEW q, Same(q), Placed(q), Owed(q)' <=> Owed(q)
  PROVE  Placed(q)'
  BY SameKeeps DEF Placed

\* Appending a job, or a reaction.
LEMMA QueueAppended ==
  ASSUME IInv, NEW j, queue' = Append(queue, j)
  PROVE  /\ \A i, q : InQueue(i, q)' <=>
                      InQueue(i, q) \/ (i = Len(queue) + 1 /\ Carries(j, q))
         /\ \A q : ~InQueue(Len(queue) + 1, q)
  <1>1. queue \in Seq(Jobs)
    BY DEF IInv, SlotTypes
  <1>2. /\ Len(queue) \in Nat /\ DOMAIN queue = 1..Len(queue)
        /\ DOMAIN queue' = 1..(Len(queue) + 1)
        /\ queue'[Len(queue) + 1] = j
        /\ \A i \in 1..Len(queue) : queue'[i] = queue[i]
    BY <1>1
  <1> QED BY <1>2 DEF InQueue

\* A reaction appended to the list of p is its last, and holds for its target.
LEMMA ListAppended ==
  ASSUME IInv, NEW p \in Promises, NEW r,
         reactions' = [reactions EXCEPT ![p] = Append(reactions[p], r)]
  PROVE  /\ \A s, i, q : InList(s, i, q)' <=>
              InList(s, i, q) \/ (s = p /\ i = Len(reactions[p]) + 1 /\ Carries(r, q))
         /\ \A q : ~InList(p, Len(reactions[p]) + 1, q)
  <1> DEFINE l == reactions[p]
  <1>1. reactions \in [Promises -> Seq(Reactions)] /\ l \in Seq(Reactions)
    BY DEF IInv, SlotTypes
  <1>2. /\ Len(l) \in Nat /\ DOMAIN l = 1..Len(l)
        /\ DOMAIN Append(l, r) = 1..(Len(l) + 1)
        /\ Append(l, r)[Len(l) + 1] = r
        /\ \A i \in 1..Len(l) : Append(l, r)[i] = l[i]
    BY <1>1
  <1>3. reactions'[p] = Append(l, r) /\ \A s \in Promises \ {p} : reactions'[s] = reactions[s]
    BY <1>1
  <1> HIDE DEF l
  <1>4. ASSUME NEW s, NEW i, NEW q
        PROVE  InList(s, i, q)' <=> InList(s, i, q) \/ (s = p /\ i = Len(l) + 1 /\ Carries(r, q))
    <2>1. CASE s = p
      BY <1>2, <1>3, <2>1 DEF InList, l
    <2>2. CASE s # p
      BY <1>3, <2>2 DEF InList
    <2> QED BY <2>1, <2>2
  <1>5. \A q : ~InList(p, Len(l) + 1, q)
    BY <1>2 DEF InList, l
  <1> QED BY <1>4, <1>5 DEF l

\* Frames: one more, by a call of user code or the read of a `then` ...
LEMMA Pushed ==
  ASSUME NEW fs \in Seq(Frames), NEW f \in Frames
  PROVE  /\ \A i, q : GetterIn(Append(fs, f), i, q) <=>
              GetterIn(fs, i, q) \/ (i = Len(fs) + 1 /\ f.in = "getter" /\ q = f.of)
         /\ \A q : ~GetterIn(fs, Len(fs) + 1, q)
         /\ KnownFrames(fs) /\ Exists(f.of) => KnownFrames(Append(fs, f))
  <1> DEFINE n == Len(fs)
             gs == Append(fs, f)
  <1>1. /\ n \in Nat /\ DOMAIN fs = 1..n
        /\ DOMAIN gs = 1..(n + 1)
        /\ gs[n + 1] = f
        /\ \A i \in 1..n : gs[i] = fs[i]
    OBVIOUS
  <1> HIDE DEF n, gs
  <1>2. ASSUME NEW i, NEW q
        PROVE  GetterIn(gs, i, q) <=>
                 GetterIn(fs, i, q) \/ (i = n + 1 /\ f.in = "getter" /\ q = f.of)
    <2>1. CASE i = n + 1
      <3>1. n + 1 \in DOMAIN gs /\ n + 1 \notin DOMAIN fs
        BY <1>1
      <3> QED BY <1>1, <2>1, <3>1 DEF GetterIn
    <2>2. CASE i # n + 1
      <3>1. i \in DOMAIN gs <=> i \in DOMAIN fs
        BY <1>1, <2>2
      <3>2. i \in DOMAIN fs => gs[i] = fs[i]
        BY <1>1
      <3> QED BY <2>2, <3>1, <3>2 DEF GetterIn
    <2> QED BY <2>1, <2>2
  <1>3. \A q : ~GetterIn(fs, n + 1, q)
    BY <1>1 DEF GetterIn
  <1>4. KnownFrames(fs) /\ Exists(f.of) => KnownFrames(gs)
    BY <1>1 DEF KnownFrames
  <1> QED BY <1>2, <1>3, <1>4 DEF n, gs

\* ... which is a place only when it is a getter's.
LEMMA Called ==
  ASSUME NEW fs \in Seq(Frames), NEW p \in Promises,
         NEW place \in {"handler", "then", "body", "hook"}
  PROVE  /\ \A i, q : GetterIn(Calling(fs, place, p), i, q) <=> GetterIn(fs, i, q)
         /\ KnownFrames(fs) /\ Exists(p) => KnownFrames(Calling(fs, place, p))
  <1>1. PICK f : f = [in |-> place, of |-> p, value |-> None]
    OBVIOUS
  <1>2. f \in Frames /\ f.in = place /\ f.of = p /\ Calling(fs, place, p) = Append(fs, f)
    BY <1>1 DEF Frames, Calling
  <1>3. place # "getter"
    OBVIOUS
  <1> QED BY <1>2, <1>3, Pushed

\* The read of a `then` for p is a place of p.
LEMMA Got ==
  ASSUME NEW fs \in Seq(Frames), NEW p \in Promises, NEW v \in Objects
  PROVE  /\ \A i, q : GetterIn(Getting(fs, p, v), i, q) <=>
              GetterIn(fs, i, q) \/ (i = Len(fs) + 1 /\ q = p)
         /\ \A q : ~GetterIn(fs, Len(fs) + 1, q)
         /\ KnownFrames(fs) /\ Exists(p) => KnownFrames(Getting(fs, p, v))
  <1>1. PICK f : f = [in |-> "getter", of |-> p, value |-> v]
    OBVIOUS
  <1>2. f \in Frames /\ f.in = "getter" /\ f.of = p /\ Getting(fs, p, v) = Append(fs, f)
    BY <1>1 DEF Frames, Getting
  <1> QED BY <1>2, Pushed

\* A return removes the top frame, which was the running promise's.
LEMMA Returned ==
  ASSUME IInv, NEW place, Inside(place)
  PROVE  /\ \A i, q : GetterIn(Popped, i, q) <=> InGetter(i, q) /\ i # Len(frames)
         /\ \A q : InGetter(Len(frames), q) <=> place = "getter" /\ Running = q
         /\ KnownFrames(frames) => KnownFrames(Popped) /\ Exists(Running)
  <1> DEFINE n == Len(frames)
  <1>1. frames \in Seq(Frames) /\ frames # <<>>
    BY DEF IInv, RestTypes, Inside
  <1>2. /\ n \in Nat /\ n > 0 /\ DOMAIN frames = 1..n
        /\ DOMAIN Popped = 1..(n - 1)
        /\ \A i \in 1..(n - 1) : Popped[i] = frames[i]
    BY <1>1 DEF Popped
  <1>3. frames[n] \in Frames /\ frames[n].in = place /\ frames[n].of = Running
    BY <1>1, <1>2 DEF Inside, Running
  <1> HIDE DEF n
  <1>5. \A i, q : GetterIn(Popped, i, q) <=> InGetter(i, q) /\ i # n
    BY <1>2 DEF GetterIn, InGetter
  <1>6. ASSUME NEW q PROVE InGetter(n, q) <=> place = "getter" /\ Running = q
    <2>1. n \in DOMAIN frames
      BY <1>2
    <2> QED BY <1>3, <2>1 DEF GetterIn, InGetter
  <1>7. KnownFrames(frames) => KnownFrames(Popped) /\ Exists(Running)
    BY <1>2, <1>3 DEF KnownFrames
  <1> QED BY <1>5, <1>6, <1>7 DEF n

\* What a concatenation holds.
LEMMA Concatenated ==
  ASSUME NEW S, NEW a \in Seq(S), NEW b \in Seq(S)
  PROVE  /\ DOMAIN (a \o b) = 1..(Len(a) + Len(b))
         /\ \A i \in 1..Len(a) : (a \o b)[i] = a[i]
         /\ \A i \in (Len(a) + 1)..(Len(a) + Len(b)) : (a \o b)[i] = b[i - Len(a)]
  OBVIOUS

\* Settling p moves its reactions to the end of the queue.
LEMMA Moved ==
  ASSUME IInv, NEW p \in Promises, NEW rejected \in BOOLEAN, NEW v \in Values,
         st[p] = "pending", SettleInternal(p, rejected, v)
  PROVE  /\ Len(queue) \in Nat
         /\ \A i, q : InQueue(i, q) => i \in 1..Len(queue)
         /\ \A i, q : InList(p, i, q) => i \in Nat /\ i > 0
         /\ \A i, q : InQueue(i, q)' <=>
              \/ InQueue(i, q)
              \/ i \in Nat /\ i > Len(queue) /\ InList(p, i - Len(queue), q)
         /\ \A s, i, q : InList(s, i, q)' <=> InList(s, i, q) /\ s # p
         /\ Known => /\ \A i \in DOMAIN queue' : Exists(queue'[i].to)
                     /\ \A q \in Promises : \A i \in DOMAIN reactions'[q] :
                          Exists(reactions'[q][i].to)
  <1> DEFINE l == reactions[p]
             u == Triggered(p, rejected, v)
             n == Len(queue)
             m == Len(l)
  <1>1. /\ queue' = queue \o u
        /\ reactions' = [reactions EXCEPT ![p] = <<>>]
    BY DEF SettleInternal
  <1>2. queue \in Seq(Jobs) /\ l \in Seq(Reactions) /\ reactions \in [Promises -> Seq(Reactions)]
    BY DEF IInv, SlotTypes
  <1>3. /\ n \in Nat /\ m \in Nat /\ DOMAIN queue = 1..n /\ DOMAIN l = 1..m
    BY <1>2
  <1>4. /\ DOMAIN u = 1..m
        /\ \A i \in 1..m : u[i].kind = l[i].kind /\ u[i].to = l[i].to
    BY <1>3 DEF Triggered, JobOf
  <1>5. /\ DOMAIN queue' = 1..(n + m)
        /\ \A i \in 1..n : queue'[i] = queue[i]
        /\ \A i \in (n + 1)..(n + m) : queue'[i] = u[i - n]
    <2>1. \A i \in 1..m : JobOf(l[i], rejected, v) \in Jobs
      BY <1>2, <1>3, JobOfType
    <2>2. u \in Seq(Jobs) /\ Len(u) = m
      BY <1>3, <2>1 DEF Triggered
    <2> HIDE DEF u, n, m
    <2> QED BY <1>1, <1>2, <2>2, Concatenated DEF n
  <1>6. /\ reactions'[p] = <<>> /\ DOMAIN reactions'[p] = {}
        /\ \A s \in Promises \ {p} : reactions'[s] = reactions[s]
    BY <1>1, <1>2
  <1> HIDE DEF u, n, m
  <1>7. \A i, q : InQueue(i, q) => i \in 1..n
    BY <1>3 DEF InQueue
  <1>8. \A i, q : InList(p, i, q) => i \in Nat /\ i > 0
    BY <1>3 DEF InList
  <1>9. ASSUME NEW i, NEW q
        PROVE  InQueue(i, q)' <=>
                 InQueue(i, q) \/ (i \in Nat /\ i > n /\ InList(p, i - n, q))
    <2>1. CASE i \in 1..n
      BY <1>3, <1>5, <2>1 DEF InQueue
    <2>2. CASE i \in (n + 1)..(n + m)
      <3>1. (i - n) \in 1..m /\ i \in Nat /\ i > n /\ i \notin 1..n /\ i \in DOMAIN queue'
        BY <1>3, <1>5, <2>2
      <3>2. queue'[i] = u[i - n]
        BY <1>5, <2>2
      <3>3. Carries(queue'[i], q) <=> Carries(l[i - n], q)
        BY <1>4, <3>1, <3>2 DEF Carries
      <3>4. InList(p, i - n, q) <=> Carries(l[i - n], q)
        BY <1>3, <3>1 DEF InList
      <3>5. InQueue(i, q)' <=> Carries(queue'[i], q)
        BY <3>1 DEF InQueue
      <3>6. ~InQueue(i, q)
        BY <1>7, <3>1
      <3> QED BY <3>1, <3>3, <3>4, <3>5, <3>6
    <2>3. CASE i \notin 1..(n + m)
      <3>1. ~InQueue(i, q)' /\ ~InQueue(i, q)
        BY <1>3, <1>5, <2>3 DEF InQueue
      <3>2. i \in Nat /\ i > n => (i - n) \notin 1..m
        BY <1>3, <2>3
      <3> QED BY <1>3, <3>1, <3>2 DEF InList
    <2> QED BY <1>3, <2>1, <2>2, <2>3
  <1>10. \A s, i, q : InList(s, i, q)' <=> InList(s, i, q) /\ s # p
    BY <1>6 DEF InList
  <1>11. ASSUME Known
         PROVE  /\ \A i \in DOMAIN queue' : Exists(queue'[i].to)
                /\ \A q \in Promises : \A i \in DOMAIN reactions'[q] :
                     Exists(reactions'[q][i].to)
    <2>1. ASSUME NEW i \in DOMAIN queue' PROVE Exists(queue'[i].to)
      <3>1. CASE i \in 1..n
        BY <1>3, <1>5, <1>11, <3>1 DEF Known
      <3>2. CASE i \in (n + 1)..(n + m)
        <4>1. (i - n) \in DOMAIN l /\ queue'[i].to = l[i - n].to
          BY <1>3, <1>4, <1>5, <3>2
        <4> QED BY <1>11, <4>1 DEF Known
      <3> QED BY <1>3, <1>5, <3>1, <3>2
    <2>2. ASSUME NEW q \in Promises, NEW i \in DOMAIN reactions'[q]
          PROVE  Exists(reactions'[q][i].to)
      BY <1>6, <1>11, <2>2 DEF Known
    <2> QED BY <2>1, <2>2
  <1> QED BY <1>3, <1>7, <1>8, <1>9, <1>10, <1>11 DEF n

\* The only place of q is in the list of p: it is in the queue now.
LEMMA MovedPlace ==
  ASSUME IInv, NEW p \in Promises, NEW rejected \in BOOLEAN, NEW v \in Values,
         st[p] = "pending", SettleInternal(p, rejected, v),
         NEW q \in Promises,
         InFlight(q)' <=> InFlight(q),
         HasPair(q)' <=> HasPair(q),
         \A i : InGetter(i, q)' <=> InGetter(i, q)
  PROVE  (OneIn(q) => OneIn(q)') /\ (Nowhere(q) => Nowhere(q)')
  <1> DEFINE n == Len(queue)
  <1>1. /\ n \in Nat
        /\ \A i : InQueue(i, q) => i \in 1..n
        /\ \A i : InList(p, i, q) => i \in Nat /\ i > 0
        /\ \A i : InQueue(i, q)' <=>
             InQueue(i, q) \/ (i \in Nat /\ i > n /\ InList(p, i - n, q))
        /\ \A s, i : InList(s, i, q)' <=> InList(s, i, q) /\ s # p
    BY Moved
  <1> HIDE DEF n
  <1>2. CASE \A i : ~InList(p, i, q)
    <2>1. Same(q)
      BY <1>1, <1>2 DEF Same
    <2> QED BY <2>1, SameKeeps
  <1>3. ASSUME NEW i, InList(p, i, q)
        PROVE  (OneIn(q) => OneIn(q)') /\ (Nowhere(q) => Nowhere(q)')
    <2>1. Held(1, p, i, q)
      BY <1>3 DEF Held
    <2>2. ASSUME OneIn(q) PROVE OneIn(q)'
      <3>1. \A t2, q2, i2 : Held(t2, q2, i2, q) <=> t2 = 1 /\ q2 = p /\ i2 = i
        BY <2>1, <2>2 DEF OneIn
      <3>2. \A s, k : InList(s, k, q) <=> s = p /\ k = i
        BY <3>1 DEF Held
      <3>3. /\ \A k : ~InQueue(k, q)
            /\ \A k : ~InGetter(k, q)
            /\ ~InFlight(q) /\ ~HasPair(q)
        <4>1. \A t2, q2, i2 : Held(t2, q2, i2, q) => t2 = 1
          BY <3>1
        <4> QED BY <4>1 DEF Held
      <3>4. \A k : InQueue(k, q)' <=> k = n + i
        <4>1. i \in Nat /\ i > 0
          BY <1>1, <1>3
        <4>2. \A k : k \in Nat /\ k > n /\ k - n = i <=> k = n + i
          BY <1>1, <4>1
        <4> QED BY <1>1, <3>2, <3>3, <4>2
      <3>5. \A s, k : ~InList(s, k, q)'
        BY <1>1, <3>2
      <3>6. \A t, r, k : Held(t, r, k, q)' <=> t = 0 /\ r = None /\ k = n + i
        BY <3>3, <3>4, <3>5 DEF Held
      <3> QED BY <3>6 DEF OneIn
    <2>3. ~Nowhere(q)
      BY <2>1 DEF Nowhere
    <2> QED BY <2>2, <2>3
  <1> QED BY <1>2, <1>3

\* x existed before the step, or does now.
Alive(x) == Exists(x) \/ st'[x] # "none"

\* Every promise that something is held for exists after the step, whether
\* it did before or was made by the step.
LEMMA StillAlive ==
  ASSUME IInv', \A q \in Promises : Exists(q) => Exists(q)',
         \A i \in DOMAIN queue' : Alive(queue'[i].to),
         \A q \in Promises : \A i \in DOMAIN reactions'[q] : Alive(reactions'[q][i].to),
         at' = "job" => Alive(job'.to),
         \A i \in DOMAIN frames' : Alive(frames'[i].of)
  PROVE  Known'
  <1>0. /\ queue' \in Seq(Jobs) /\ frames' \in Seq(Frames)
        /\ reactions' \in [Promises -> Seq(Reactions)]
        /\ at' = "job" => job' \in Jobs
    BY DEF IInv, SlotTypes, RestTypes, ControlTypes
  <1>1. \A i \in DOMAIN queue' : queue'[i].to \in Promises
    <2>1. \A i \in DOMAIN queue' : queue'[i] \in Jobs
      BY <1>0
    <2> QED BY <2>1 DEF Jobs
  <1>2. ASSUME NEW q \in Promises, NEW i \in DOMAIN reactions'[q]
        PROVE  reactions'[q][i].to \in Promises
    <2>1. reactions'[q] \in Seq(Reactions)
      BY <1>0
    <2>2. reactions'[q][i] \in Reactions
      BY <1>2, <2>1
    <2> QED BY <2>2 DEF Reactions
  <1>3. at' = "job" => job'.to \in Promises
    BY <1>0 DEF Jobs
  <1>4. \A i \in DOMAIN frames' : frames'[i].of \in Promises
    <2>1. \A i \in DOMAIN frames' : frames'[i] \in Frames
      BY <1>0
    <2> QED BY <2>1 DEF Frames
  <1>5. \A i \in DOMAIN queue' : st'[queue'[i].to] # "none"
    BY <1>1 DEF Exists, Alive
  <1>6. \A q \in Promises : \A i \in DOMAIN reactions'[q] : st'[reactions'[q][i].to] # "none"
    BY <1>2 DEF Exists, Alive
  <1>7. at' = "job" => st'[job'.to] # "none"
    BY <1>3 DEF Exists, Alive
  <1>8. \A i \in DOMAIN frames' : st'[frames'[i].of] # "none"
    BY <1>4 DEF Exists, Alive
  <1> QED BY <1>5, <1>6, <1>7, <1>8 DEF Known, KnownFrames, Exists

\* What held something for a promise that exists still does.
LEMMA StillKnown ==
  ASSUME IInv', \A q \in Promises : Exists(q) => Exists(q)',
         \A i \in DOMAIN queue' : Exists(queue'[i].to),
         \A q \in Promises : \A i \in DOMAIN reactions'[q] : Exists(reactions'[q][i].to),
         at' = "job" => Exists(job'.to),
         KnownFrames(frames')
  PROVE  Known'
  <1>1. \A x : Exists(x) => Alive(x)
    BY DEF Alive
  <1>2. \A i \in DOMAIN frames' : Alive(frames'[i].of)
    BY <1>1 DEF KnownFrames
  <1> QED BY <1>1, <1>2, StillAlive

\* A step that took the latch of p, or its place, and has the frames fs left.
Cleared(p, fs) ==
  /\ st[p] = "pending" /\ resolved'[p]
  /\ \A i : ~InQueue(i, p) /\ ~GetterIn(fs, i, p)
  /\ \A s, i : ~InList(s, i, p)
  /\ ~InFlight(p)' /\ ~HasPair(p)'
  /\ \A q \in Promises \ {p} :
       /\ resolved'[q] <=> resolved[q]
       /\ InFlight(q)' <=> InFlight(q)
       /\ HasPair(q)' <=> HasPair(q)
       /\ \A i : GetterIn(fs, i, q) <=> InGetter(i, q)
  /\ KnownFrames(fs)
  /\ at' = "job" => at = "job" /\ job' = job

\* It settles p ...
LEMMA Settles ==
  ASSUME IInv, IInv', SInv, NEW p \in Promises, NEW rejected \in BOOLEAN,
         NEW v \in Values, NEW fs,
         Cleared(p, fs), SettleInternal(p, rejected, v), frames' = fs
  PROVE  SInv'
  <1>1. st[p] = "pending" /\ resolved'[p]
    BY DEF Cleared
  <1>2. /\ st' = [st EXCEPT ![p] = IF rejected THEN "rejected" ELSE "fulfilled"]
        /\ resettled' = resettled
    BY <1>1 DEF SettleInternal
  <1>3. /\ st'[p] \in {"fulfilled", "rejected"}
        /\ \A q \in Promises \ {p} : st'[q] = st[q]
    BY <1>2 DEF IInv, SlotTypes
  <1>4. \A i, q : InGetter(i, q)' <=> GetterIn(fs, i, q)
    BY DEF InGetter, GetterIn
  <1>5. ASSUME NEW q \in Promises, q # p PROVE Placed(q)'
    <2>1. (OneIn(q) => OneIn(q)') /\ (Nowhere(q) => Nowhere(q)')
      BY <1>1, <1>4, <1>5, MovedPlace DEF Cleared
    <2>2. Owed(q)' <=> Owed(q)
      BY <1>3, <1>5 DEF Owed, Cleared
    <2> QED BY <2>1, <2>2 DEF SInv, Placed
  <1>6. Placed(p)'
    <2>1. /\ \A i : ~InQueue(i, p)' /\ ~InGetter(i, p)'
          /\ \A s, i : ~InList(s, i, p)'
          /\ ~InFlight(p)' /\ ~HasPair(p)'
      BY <1>1, <1>4, Moved DEF Cleared
    <2>2. ~Owed(p)'
      BY <1>3 DEF Owed
    <2> QED BY <2>1, <2>2 DEF Placed, Nowhere, Held
  <1>7. Latched'
    BY <1>1, <1>3 DEF SInv, Latched, Settled, Cleared
  <1>8. Known'
    <2>1. \A q \in Promises : Exists(q) => Exists(q)'
      BY <1>3 DEF Exists
    <2>2. /\ \A i \in DOMAIN queue' : Exists(queue'[i].to)
          /\ \A q \in Promises : \A i \in DOMAIN reactions'[q] : Exists(reactions'[q][i].to)
      BY <1>1, Moved DEF SInv
    <2>3. (at' = "job" => Exists(job'.to)) /\ KnownFrames(frames')
      BY DEF SInv, Known, Cleared
    <2> QED BY <2>1, <2>2, <2>3, StillKnown
  <1> QED BY <1>2, <1>5, <1>6, <1>7, <1>8 DEF SInv

\* ... or puts what will settle it into the queue ...
LEMMA Enqueues ==
  ASSUME IInv, IInv', SInv, NEW p \in Promises, NEW x, NEW fs,
         Cleared(p, fs), queue' = Append(queue, ThenableJob(p, x)), frames' = fs,
         UNCHANGED <<st, reactions, resettled>>
  PROVE  SInv'
  <1> DEFINE j == ThenableJob(p, x)
  <1>1. \A q : Carries(j, q) <=> q = p
    BY DEF ThenableJob, Carries
  <1>2. /\ \A i, q : InQueue(i, q)' <=> InQueue(i, q) \/ (i = Len(queue) + 1 /\ q = p)
    BY <1>1, QueueAppended
  <1>3. \A s, i, q : InList(s, i, q)' <=> InList(s, i, q)
    BY DEF InList
  <1>4. \A i, q : InGetter(i, q)' <=> GetterIn(fs, i, q)
    BY DEF InGetter, GetterIn
  <1>5. ASSUME NEW q \in Promises, q # p PROVE Placed(q)'
    <2>1. Same(q)
      BY <1>2, <1>3, <1>4, <1>5 DEF Same, Cleared
    <2>2. Owed(q)' <=> Owed(q)
      BY <1>5 DEF Owed, Cleared
    <2> QED BY <2>1, <2>2, SamePlaced DEF SInv
  <1>6. Placed(p)'
    <2>1. /\ \A i : InQueue(i, p)' <=> i = Len(queue) + 1
          /\ \A i : ~InGetter(i, p)'
          /\ \A s, i : ~InList(s, i, p)'
          /\ ~InFlight(p)' /\ ~HasPair(p)'
      BY <1>2, <1>3, <1>4 DEF Cleared
    <2>2. PICK k : k = Len(queue) + 1
      OBVIOUS
    <2>3. Held(0, None, k, p)'
      BY <2>1, <2>2 DEF Held
    <2>4. \A t, r, i : Held(t, r, i, p)' => t = 0 /\ r = None /\ i = k
      BY <2>1, <2>2 DEF Held
    <2>5. Owed(p)'
      BY DEF Owed, Cleared
    <2>6. OneIn(p)'
      BY <2>3, <2>4 DEF OneIn
    <2> QED BY <2>5, <2>6 DEF Placed
  <1>7. Latched'
    BY DEF SInv, Latched, Settled, Cleared
  <1>8. Known'
    <2>1. \A i \in DOMAIN queue' : Exists(queue'[i].to)
      <3>1. queue \in Seq(Jobs) /\ \A i \in DOMAIN queue : Exists(queue[i].to)
        BY DEF IInv, SlotTypes, SInv, Known
      <3>2. j.to = p /\ Exists(p)
        BY DEF ThenableJob, Cleared, Exists
      <3> HIDE DEF j
      <3>3. /\ Len(queue) \in Nat /\ DOMAIN queue = 1..Len(queue)
            /\ DOMAIN Append(queue, j) = 1..(Len(queue) + 1)
            /\ Append(queue, j)[Len(queue) + 1] = j
            /\ \A i \in 1..Len(queue) : Append(queue, j)[i] = queue[i]
        BY <3>1
      <3> QED BY <3>1, <3>2, <3>3 DEF j
    <2>2. /\ \A q \in Promises : Exists(q) => Exists(q)'
          /\ \A q \in Promises : \A i \in DOMAIN reactions'[q] : Exists(reactions'[q][i].to)
      BY DEF SInv, Known, Exists
    <2>3. (at' = "job" => Exists(job'.to)) /\ KnownFrames(frames')
      BY DEF SInv, Known, Cleared
    <2> QED BY <2>1, <2>2, <2>3, StillKnown
  <1> QED BY <1>5, <1>6, <1>7, <1>8 DEF SInv

\* ... or leaves it to a getter of user code.
LEMMA AsksGetter ==
  ASSUME IInv, IInv', SInv, NEW p \in Promises, NEW fs \in Seq(Frames),
         NEW v \in Objects, Cleared(p, fs), frames' = Getting(fs, p, v),
         UNCHANGED <<st, reactions, queue, resettled>>
  PROVE  SInv'
  <1>1. \A i, q : InQueue(i, q)' <=> InQueue(i, q)
    BY DEF InQueue
  <1>2. \A s, i, q : InList(s, i, q)' <=> InList(s, i, q)
    BY DEF InList
  <1>3. \A i, q : InGetter(i, q)' <=> GetterIn(fs, i, q) \/ (i = Len(fs) + 1 /\ q = p)
    <2>1. \A i, q : InGetter(i, q)' <=> GetterIn(Getting(fs, p, v), i, q)
      BY DEF InGetter, GetterIn
    <2> QED BY <2>1, Got
  <1>4. ASSUME NEW q \in Promises, q # p PROVE Placed(q)'
    <2>1. Same(q)
      BY <1>1, <1>2, <1>3, <1>4 DEF Same, Cleared
    <2>2. Owed(q)' <=> Owed(q)
      BY <1>4 DEF Owed, Cleared
    <2> QED BY <2>1, <2>2, SamePlaced DEF SInv
  <1>5. Placed(p)'
    <2>1. /\ \A i : InGetter(i, p)' <=> i = Len(fs) + 1
          /\ \A i : ~InQueue(i, p)'
          /\ \A s, i : ~InList(s, i, p)'
          /\ ~InFlight(p)' /\ ~HasPair(p)'
      BY <1>1, <1>2, <1>3 DEF Cleared
    <2>2. PICK k : k = Len(fs) + 1
      OBVIOUS
    <2>3. Held(3, None, k, p)'
      BY <2>1, <2>2 DEF Held
    <2>4. \A t, r, i : Held(t, r, i, p)' => t = 3 /\ r = None /\ i = k
      BY <2>1, <2>2 DEF Held
    <2>5. Owed(p)'
      BY DEF Owed, Cleared
    <2>6. OneIn(p)'
      BY <2>3, <2>4 DEF OneIn
    <2> QED BY <2>5, <2>6 DEF Placed
  <1>6. Latched'
    BY DEF SInv, Latched, Settled, Cleared
  <1>7. Known'
    <2>1. /\ \A q \in Promises : Exists(q) => Exists(q)'
          /\ \A i \in DOMAIN queue' : Exists(queue'[i].to)
          /\ \A q \in Promises : \A i \in DOMAIN reactions'[q] : Exists(reactions'[q][i].to)
      BY DEF SInv, Known, Exists
    <2>2. KnownFrames(frames')
      BY Got DEF Cleared, Exists
    <2>3. at' = "job" => Exists(job'.to)
      BY DEF SInv, Known, Cleared
    <2> QED BY <2>1, <2>2, <2>3, StillKnown
  <1> QED BY <1>4, <1>5, <1>6, <1>7 DEF SInv

\* A value that is no promise settles p, unless its `then` has to be read.
LEMMA ResolvesValue ==
  ASSUME IInv, IInv', SInv, NEW p \in Promises, NEW v \in Values,
         NEW fs \in Seq(Frames), Cleared(p, fs), ResolveValue(p, v, fs)
  PROVE  SInv'
  <1>1. CASE v \in Objects
    BY <1>1, AsksGetter DEF ResolveValue, slots
  <1>2. CASE v \notin Objects
    BY <1>2, Settles DEF ResolveValue
  <1> QED BY <1>1, <1>2

\* The outcome of another promise: a rejection settles p.
LEMMA TakesOutcome ==
  ASSUME IInv, IInv', SInv, NEW p \in Promises, NEW rejected \in BOOLEAN,
         NEW v \in Values, NEW fs \in Seq(Frames), fs = frames, Cleared(p, fs),
         TakeOutcome(p, rejected, v)
  PROVE  SInv'
  <1>1. CASE rejected
    BY <1>1, Settles DEF TakeOutcome
  <1>2. CASE ~rejected
    <2>1. ResolveValue(p, v, fs)
      BY <1>2 DEF TakeOutcome
    <2> QED BY <2>1, ResolvesValue
  <1> QED BY <1>1, <1>2

\* The outcomes of runResolutionSteps, once p has no place left.
LEMMA RunsResolution ==
  ASSUME IInv, IInv', SInv, NEW p \in Promises, NEW x, NEW fs \in Seq(Frames),
         Cleared(p, fs), RunResolutionSteps(p, x, fs)
  PROVE  SInv'
  <1>0. p \in Values /\ <<p>> \in Values
    BY DEF Values, Objects
  <1>1. CASE SettleInternal(p, TRUE, p) /\ frames' = fs
    BY <1>0, <1>1, Settles
  <1>2. ASSUME NEW v \in Values, ResolveValue(p, v, fs) PROVE SInv'
    BY <1>2, ResolvesValue
  <1>3. CASE /\ queue' = Append(queue, ThenableJob(p, x)) /\ frames' = fs
             /\ UNCHANGED <<st, reactions, resettled>>
    BY <1>3, Enqueues
  <1> QED BY <1>0, <1>1, <1>2, <1>3 DEF RunResolutionSteps

-----------------------------------------------------------------------------
(* Steps that settle nothing.                                              *)

\* User code was called or has returned, and nothing else moved.
Apart(fs) ==
  /\ \A i, q : GetterIn(fs, i, q) <=> InGetter(i, q)
  /\ KnownFrames(fs)

\* A return to anything but a resolution, and calls other than of a getter.
LEMMA ApartNow == ASSUME SInv PROVE Apart(frames)
  BY DEF Apart, InGetter, SInv, Known

\* A return from anything but a getter takes no place away.
LEMMA ApartPopped ==
  ASSUME IInv, SInv, NEW place, Inside(place), place # "getter"
  PROVE  Apart(Popped) /\ Exists(Running)
  <1>1. \A i, q : GetterIn(Popped, i, q) <=> InGetter(i, q)
    BY Returned
  <1>2. KnownFrames(Popped) /\ Exists(Running)
    BY Returned DEF SInv, Known
  <1> QED BY <1>1, <1>2 DEF Apart

\* A call of anything but a getter adds no place.
LEMMA ApartCalled ==
  ASSUME NEW fs \in Seq(Frames), Apart(fs), NEW p \in Promises, Exists(p),
         NEW place \in {"handler", "then", "body", "hook"}
  PROVE  Apart(Calling(fs, place, p))
  BY Called DEF Apart

\* Nothing that matters to a place, a latch or a state changed.
LEMMA NothingMoves ==
  ASSUME IInv, IInv', SInv, NEW fs, Apart(fs), frames' = fs,
         UNCHANGED <<st, reactions, queue, resettled, resolved, pair>>,
         \A q : InFlight(q)' <=> InFlight(q),
         at' = "job" => at = "job" /\ job' = job
  PROVE  SInv'
  <1>1. /\ \A i, q : InQueue(i, q)' <=> InQueue(i, q)
        /\ \A s, i, q : InList(s, i, q)' <=> InList(s, i, q)
        /\ \A q : HasPair(q)' <=> HasPair(q)
    BY DEF InQueue, InList, HasPair
  <1>2. \A i, q : InGetter(i, q)' <=> InGetter(i, q)
    BY DEF InGetter, GetterIn, Apart
  <1>3. ASSUME NEW q \in Promises PROVE Placed(q)'
    <2>1. Same(q) /\ (Owed(q)' <=> Owed(q))
      BY <1>1, <1>2 DEF Same, Owed
    <2> QED BY <2>1, SamePlaced DEF SInv
  <1>4. Latched'
    BY DEF SInv, Latched, Settled
  <1>5. Known'
    <2>1. /\ \A q \in Promises : Exists(q) => Exists(q)'
          /\ \A i \in DOMAIN queue' : Exists(queue'[i].to)
          /\ \A q \in Promises : \A i \in DOMAIN reactions'[q] : Exists(reactions'[q][i].to)
          /\ at' = "job" => Exists(job'.to)
          /\ KnownFrames(frames')
      BY DEF SInv, Known, Exists, Apart
    <2> QED BY <2>1, StillKnown
  <1> QED BY <1>3, <1>4, <1>5 DEF SInv

-----------------------------------------------------------------------------
(* What was cleared before.                                                *)

\* A promise with a place is owed a settlement, and has no other place.
LEMMA Only ==
  ASSUME NEW p, Placed(p), NEW t, NEW q, NEW i, Held(t, q, i, p)
  PROVE  Owed(p) /\ \A t2, q2, i2 : Held(t2, q2, i2, p) => t2 = t /\ q2 = q /\ i2 = i
  BY DEF Placed, Nowhere, OneIn

\* The job in flight is nobody's place, and stays in flight or is done.
FlightKept ==
  /\ \A q : InFlight(q)' <=> InFlight(q)
  /\ at' = "job" => at = "job" /\ job' = job

\* Steps that leave the control state alone, and the end of a job that is
\* nobody's place.
LEMMA FlightFacts ==
  /\ UNCHANGED control => FlightKept
  /\ at = "job" /\ job.kind \notin {"thenable", "pair"} /\ JobDone => FlightKept
  BY DEF control, FlightKept, JobDone, InFlight, Carries

\* The latch of a promise is free: no place holds anything for it.
LEMMA LatchClears ==
  ASSUME IInv, SInv, NEW p \in Promises, NEW fs,
         ~resolved[p], Exists(p), TakeLatch(p), Apart(fs), UNCHANGED pair, FlightKept
  PROVE  Cleared(p, fs)
  <1>1. st[p] = "pending"
    BY DEF IInv, SlotTypes, SInv, Latched, Settled, Exists
  <1>2. resolved'[p] /\ \A q \in Promises \ {p} : resolved'[q] <=> resolved[q]
    BY DEF IInv, RestTypes, TakeLatch
  <1>3. Nowhere(p)
    BY DEF SInv, Placed, Owed
  <1>4. /\ \A i : ~InQueue(i, p) /\ ~InGetter(i, p)
        /\ \A s, i : ~InList(s, i, p)
        /\ ~InFlight(p) /\ ~HasPair(p)
    BY <1>3 DEF Nowhere, Held
  <1> QED BY <1>1, <1>2, <1>4 DEF Cleared, Apart, FlightKept, HasPair

\* Taking the latch of a pair: it was the only place.
LEMMA PairClears ==
  ASSUME IInv, SInv, NEW p \in Promises, NEW fs,
         TakePairLatch(p), Apart(fs), UNCHANGED resolved, FlightKept
  PROVE  Cleared(p, fs)
  <1>1. pair[p] = "open" /\ pair' = [pair EXCEPT ![p] = "taken"]
    BY DEF TakePairLatch
  <1>2. Held(4, None, 0, p)
    BY <1>1 DEF Held, HasPair
  <1>3. Owed(p) /\ \A t, q, i : Held(t, q, i, p) => t = 4
    BY <1>2, Only DEF SInv
  <1>4. /\ \A i : ~InQueue(i, p) /\ ~InGetter(i, p)
        /\ \A s, i : ~InList(s, i, p)
        /\ ~InFlight(p)
    BY <1>3 DEF Held
  <1>5. ~HasPair(p)' /\ \A q \in Promises \ {p} : HasPair(q)' <=> HasPair(q)
    BY <1>1 DEF IInv, RestTypes, HasPair
  <1> QED BY <1>3, <1>4, <1>5 DEF Cleared, Apart, FlightKept, Owed

\* A getter comes back: its frame was the only place.
LEMMA GetterClears ==
  ASSUME IInv, SInv, Inside("getter"), UNCHANGED <<resolved, pair>>, FlightKept,
         NEW p, p = Running, NEW fs, fs = Popped
  PROVE  Cleared(p, fs)
  <1>1. PICK n : n = Len(frames)
    OBVIOUS
  <1>2. /\ p \in Promises
        /\ \A i, q : GetterIn(fs, i, q) <=> InGetter(i, q) /\ i # n
        /\ \A q : InGetter(n, q) <=> p = q
        /\ KnownFrames(fs)
    BY <1>1, FrameFacts, Returned DEF SInv, Known
  <1>3. Held(3, None, n, p)
    BY <1>2 DEF Held
  <1>4. Owed(p) /\ \A t, q, i : Held(t, q, i, p) => t = 3 /\ i = n
    BY <1>2, <1>3, Only DEF SInv
  <1>5. /\ \A i : ~InQueue(i, p)
        /\ \A s, i : ~InList(s, i, p)
        /\ ~InFlight(p) /\ ~HasPair(p)
    <2>1. \A t, q, i : Held(t, q, i, p) => t = 3
      BY <1>4
    <2> QED BY <2>1 DEF Held
  <1>6. \A i : InGetter(i, p) => i = n
    <2>1. \A i : InGetter(i, p) => Held(3, None, i, p)
      BY DEF Held
    <2> QED BY <1>4, <2>1
  <1>7. \A q \in Promises \ {p} : \A i : GetterIn(fs, i, q) <=> InGetter(i, q)
    BY <1>2
  <1> QED BY <1>2, <1>4, <1>5, <1>6, <1>7 DEF Cleared, FlightKept, HasPair, Owed

\* The job in flight was the only place.
LEMMA FlightClears ==
  ASSUME IInv, SInv, NEW p \in Promises, InFlight(p), JobDone,
         UNCHANGED <<resolved, pair>>
  PROVE  Cleared(p, frames)
  <1>1. Held(2, None, 0, p)
    BY DEF Held
  <1>2. Owed(p) /\ \A t, q, i : Held(t, q, i, p) => t = 2
    BY <1>1, Only DEF SInv
  <1>3. /\ \A i : ~InQueue(i, p) /\ ~InGetter(i, p)
        /\ \A s, i : ~InList(s, i, p)
        /\ ~HasPair(p)
    BY <1>2 DEF Held
  <1>4. at' = "drain" /\ \A q : ~InFlight(q)'
    BY DEF JobDone, InFlight
  <1>5. \A q \in Promises \ {p} : ~InFlight(q)
    BY DEF InFlight, Carries
  <1>6. KnownFrames(frames)
    BY DEF SInv, Known
  <1> QED BY <1>2, <1>3, <1>4, <1>5, <1>6 DEF Cleared, HasPair, InGetter, Owed

-----------------------------------------------------------------------------
(* Subscribing.                                                            *)

\* One list or the queue grows by r; no getter is called.
LEMMA SubscribePlaces ==
  ASSUME IInv, SInv, NEW p \in Promises, NEW r, NEW fs \in Seq(Frames), Apart(fs),
         Exists(p), Subscribe(p, r, fs), Alive(r.to)
  PROVE  /\ \/ /\ \A i, q : InQueue(i, q)' <=> InQueue(i, q)
               /\ \A s, i, q : InList(s, i, q)' <=>
                    InList(s, i, q) \/ (s = p /\ i = Len(reactions[p]) + 1 /\ Carries(r, q))
            \/ /\ \A i, q : InQueue(i, q)' <=>
                    InQueue(i, q) \/ (i = Len(queue) + 1 /\ Carries(r, q))
               /\ \A s, i, q : InList(s, i, q)' <=> InList(s, i, q)
         /\ \A i, q : InGetter(i, q)' <=> InGetter(i, q)
         /\ \A i \in DOMAIN queue' : Alive(queue'[i].to)
         /\ \A q \in Promises : \A i \in DOMAIN reactions'[q] : Alive(reactions'[q][i].to)
         /\ \A i \in DOMAIN frames' : Alive(frames'[i].of)
         /\ resettled' = resettled
  <1>1. Handle(p, fs)
    BY DEF Subscribe
  <1>2. resettled' = resettled
    BY <1>1 DEF Handle
  <1>3. Apart(frames')
    <2>1. frames' = Calling(fs, "hook", p) \/ frames' = fs
      BY <1>1 DEF Handle
    <2>2. Apart(Calling(fs, "hook", p))
      BY ApartCalled
    <2> QED BY <2>1, <2>2
  <1>4. /\ \A i, q : InGetter(i, q)' <=> InGetter(i, q)
        /\ \A i \in DOMAIN frames' : Alive(frames'[i].of)
    BY <1>3 DEF Apart, InGetter, GetterIn, KnownFrames, Alive
  <1>5. /\ \A i \in DOMAIN queue : Alive(queue[i].to)
        /\ \A q \in Promises : \A i \in DOMAIN reactions[q] : Alive(reactions[q][i].to)
    BY DEF SInv, Known, Alive
  <1>6. CASE /\ reactions' = [reactions EXCEPT ![p] = Append(reactions[p], r)]
             /\ UNCHANGED queue
    <2>1. \A i, q : InQueue(i, q)' <=> InQueue(i, q)
      BY <1>6 DEF InQueue
    <2>2. \A s, i, q : InList(s, i, q)' <=>
            InList(s, i, q) \/ (s = p /\ i = Len(reactions[p]) + 1 /\ Carries(r, q))
      BY <1>6, ListAppended
    <2>3. ASSUME NEW q \in Promises, NEW i \in DOMAIN reactions'[q]
          PROVE  Alive(reactions'[q][i].to)
      <3>1. reactions \in [Promises -> Seq(Reactions)] /\ reactions[p] \in Seq(Reactions)
        BY DEF IInv, SlotTypes
      <3>2. CASE q # p
        BY <1>5, <1>6, <2>3, <3>1, <3>2
      <3>3. CASE q = p
        <4> DEFINE l == reactions[p]
        <4>1. reactions'[q] = Append(l, r)
          BY <1>6, <3>1, <3>3
        <4>2. (i \in DOMAIN l /\ Append(l, r)[i] = l[i]) \/ Append(l, r)[i] = r
          BY <2>3, <3>1, <4>1
        <4> QED BY <1>5, <4>1, <4>2
      <3> QED BY <3>2, <3>3
    <2> QED BY <1>2, <1>4, <1>5, <1>6, <2>1, <2>2, <2>3
  <1>7. CASE /\ queue' = Append(queue, JobOf(r, st[p] = "rejected", result[p]))
             /\ UNCHANGED reactions
    <2> DEFINE j == JobOf(r, st[p] = "rejected", result[p])
    <2>1. j.kind = r.kind /\ j.to = r.to
      BY DEF JobOf
    <2>2. queue' = Append(queue, j)
      BY <1>7
    <2> HIDE DEF j
    <2>3. \A q : Carries(j, q) <=> Carries(r, q)
      BY <2>1 DEF Carries
    <2>4. \A i, q : InQueue(i, q)' <=> InQueue(i, q) \/ (i = Len(queue) + 1 /\ Carries(r, q))
      BY <2>2, <2>3, QueueAppended
    <2>5. \A s, i, q : InList(s, i, q)' <=> InList(s, i, q)
      BY <1>7 DEF InList
    <2>6. \A i \in DOMAIN queue' : Alive(queue'[i].to)
      <3>1. queue \in Seq(Jobs)
        BY DEF IInv, SlotTypes
      <3>2. \A i \in DOMAIN queue' :
              (i \in DOMAIN queue /\ queue'[i] = queue[i]) \/ queue'[i] = j
        BY <2>2, <3>1
      <3> QED BY <1>5, <2>1, <3>2
    <2> QED BY <1>2, <1>4, <1>5, <1>7, <2>4, <2>5, <2>6
  <1> QED BY <1>6, <1>7 DEF Subscribe

\* A reaction of `then` or of an await is nobody's place.
LEMMA Subscribes ==
  ASSUME IInv, IInv', SInv, NEW p \in Promises, NEW r, NEW fs \in Seq(Frames), Apart(fs),
         Exists(p), Subscribe(p, r, fs), r.kind \notin {"thenable", "pair"}, Alive(r.to),
         Grows, UNCHANGED <<resolved, pair>>, FlightKept
  PROVE  SInv'
  <1>1. \A q : ~Carries(r, q)
    BY DEF Carries
  <1>2. ASSUME NEW q \in Promises PROVE Placed(q)'
    <2>1. Same(q)
      BY <1>1, SubscribePlaces DEF Same, FlightKept, HasPair
    <2>2. Owed(q)' <=> Owed(q)
      BY DEF SInv, Latched, Owed, Grows
    <2> QED BY <2>1, <2>2, SamePlaced DEF SInv
  <1>3. Latched'
    BY DEF SInv, Latched, Settled, Grows
  <1>4. Known'
    <2>1. \A q \in Promises : Exists(q) => Exists(q)'
      BY DEF Exists, Grows
    <2>2. at' = "job" => Alive(job'.to)
      BY DEF SInv, Known, Alive, FlightKept
    <2> QED BY <2>1, <2>2, SubscribePlaces, StillAlive
  <1>5. resettled' = FALSE
    BY SubscribePlaces DEF SInv
  <1> QED BY <1>2, <1>3, <1>4, <1>5 DEF SInv

\* Promises are made, and a call of user code other than a getter may begin.
LEMMA Makes ==
  ASSUME IInv, IInv', SInv, Grows, FlightKept,
         UNCHANGED <<reactions, queue, resettled, resolved, pair>>,
         \A i, q : InGetter(i, q)' <=> InGetter(i, q),
         \A i \in DOMAIN frames' : Alive(frames'[i].of)
  PROVE  SInv'
  <1>1. /\ \A i, q : InQueue(i, q)' <=> InQueue(i, q)
        /\ \A s, i, q : InList(s, i, q)' <=> InList(s, i, q)
        /\ \A q : HasPair(q)' <=> HasPair(q)
    BY DEF InQueue, InList, HasPair
  <1>2. ASSUME NEW q \in Promises PROVE Placed(q)'
    <2>1. Same(q)
      BY <1>1 DEF Same, FlightKept
    <2>2. Owed(q)' <=> Owed(q)
      BY DEF SInv, Latched, Owed, Grows
    <2> QED BY <2>1, <2>2, SamePlaced DEF SInv
  <1>3. Latched'
    BY DEF SInv, Latched, Settled, Grows
  <1>4. Known'
    <2>1. \A q \in Promises : Exists(q) => Exists(q)'
      BY DEF Exists, Grows
    <2>2. /\ \A i \in DOMAIN queue' : Alive(queue'[i].to)
          /\ \A q \in Promises : \A i \in DOMAIN reactions'[q] : Alive(reactions'[q][i].to)
          /\ at' = "job" => Alive(job'.to)
      BY DEF SInv, Known, Alive, FlightKept
    <2> QED BY <2>1, <2>2, StillAlive
  <1> QED BY <1>2, <1>3, <1>4 DEF SInv

-----------------------------------------------------------------------------
(* The actions.                                                            *)

\* The frames as they are, for the actions that neither call nor return.
LEMMA FramesKept == ASSUME IInv, SInv PROVE frames \in Seq(Frames) /\ Apart(frames)
  BY ApartNow DEF IInv, RestTypes

\* Calls of resolving functions through the promise's latch.
LEMMA ResolvesOnce ==
  ASSUME IInv, IInv', SInv, NEW p \in Promises, NEW x, NEW fs \in Seq(Frames),
         Exists(p), Apart(fs), ResolvePromise(p, x, fs), UNCHANGED pair, FlightKept
  PROVE  SInv'
  <1>1. CASE resolved[p]
    <2>1. frames' = fs /\ UNCHANGED <<slots, resolved>>
      BY <1>1 DEF ResolvePromise
    <2> QED BY <2>1, NothingMoves DEF slots, FlightKept
  <1>2. CASE ~resolved[p]
    <2>1. TakeLatch(p) /\ RunResolutionSteps(p, x, fs)
      BY <1>2 DEF ResolvePromise
    <2>2. Cleared(p, fs)
      BY <1>2, <2>1, LatchClears
    <2> QED BY <2>1, <2>2, RunsResolution
  <1> QED BY <1>1, <1>2

\* Calls of rejecting functions through the promise's latch.
LEMMA RejectsOnce ==
  ASSUME IInv, IInv', SInv, NEW p \in Promises, NEW v \in Values, NEW fs,
         Exists(p), Apart(fs), RejectPromise(p, v), frames' = fs, UNCHANGED pair, FlightKept
  PROVE  SInv'
  <1>1. CASE resolved[p]
    <2>1. UNCHANGED <<slots, resolved>>
      BY <1>1 DEF RejectPromise
    <2> QED BY <2>1, NothingMoves DEF slots, FlightKept
  <1>2. CASE ~resolved[p]
    <2>1. TakeLatch(p) /\ SettleInternal(p, TRUE, v)
      BY <1>2 DEF RejectPromise
    <2>2. Cleared(p, fs)
      BY <1>2, <2>1, LatchClears
    <2> QED BY <2>1, <2>2, Settles
  <1> QED BY <1>1, <1>2

\* Whatever user code does keeps each promise's only place.
LEMMA UserPlaces == ASSUME IInv, SInv, User PROVE SInv'
  <1> USE FramesKept
  <1>1. IInv'
    BY UserKeeps
  <1>2. ASSUME NEW p \in Made, New(p) PROVE SInv'
    <2>1. Grows
      BY <1>2, MadeFacts DEF New, Promises
    <2>2. FlightKept
      BY <1>2, FlightFacts DEF New
    <2>3. /\ \A i, q : InGetter(i, q)' <=> InGetter(i, q)
          /\ \A i \in DOMAIN frames' : Alive(frames'[i].of)
      BY <1>2 DEF New, InGetter, GetterIn, Apart, KnownFrames, Alive
    <2> QED BY <1>1, <1>2, <2>1, <2>2, <2>3, Makes DEF New
  <1>3. ASSUME NEW p \in Made, Reject(p) PROVE SInv'
    <2>1. p \in Promises /\ FlightKept
      BY <1>3, FlightFacts DEF Reject, Promises
    <2>2. PICK fs : fs = frames
      OBVIOUS
    <2> QED BY <1>1, <1>3, <2>1, <2>2, PromiseIsValue, RejectsOnce DEF Reject
  <1>4. ASSUME NEW p \in Made, NEW x \in Inputs, Resolve(p, x) PROVE SInv'
    <2>1. p \in Promises /\ FlightKept
      BY <1>4, FlightFacts DEF Resolve, Promises
    <2>2. PICK fs : fs = frames
      OBVIOUS
    <2> QED BY <1>1, <1>4, <2>1, <2>2, ResolvesOnce DEF Resolve
  <1>5. ASSUME NEW p \in Promises, PairReject(p) PROVE SInv'
    <2>1. FlightKept
      BY <1>5, FlightFacts DEF PairReject
    <2>2. PICK fs : fs = frames
      OBVIOUS
    <2>3. Cleared(p, fs)
      BY <1>5, <2>1, <2>2, PairClears DEF PairReject
    <2> QED BY <1>1, <1>5, <2>2, <2>3, PromiseIsValue, Settles DEF PairReject
  <1>6. ASSUME NEW p \in Promises, NEW x \in Inputs, PairResolve(p, x) PROVE SInv'
    <2>1. FlightKept
      BY <1>6, FlightFacts DEF PairResolve
    <2>2. PICK fs : fs = frames
      OBVIOUS
    <2>3. Cleared(p, fs)
      BY <1>6, <2>1, <2>2, PairClears DEF PairResolve
    <2> QED BY <1>1, <1>6, <2>2, <2>3, RunsResolution DEF PairResolve
  <1>7. ASSUME NEW p \in Promises, NEW d \in Derived, NEW onF \in BOOLEAN,
               NEW onR \in BOOLEAN, Then(p, d, onF, onR)
        PROVE  SInv'
    <2> DEFINE r == [kind |-> "then", to |-> d, onF |-> onF, onR |-> onR]
    <2>1. Grows
      BY <1>7, MadeFacts DEF Then, Promises
    <2>2. FlightKept
      BY <1>7, FlightFacts DEF Then
    <2>3. r.kind \notin {"thenable", "pair"} /\ r.to = d
      OBVIOUS
    <2>4. Alive(d)
      BY <1>7 DEF Then, Alive, IInv, SlotTypes, Promises
    <2>5. Subscribe(p, r, frames) /\ Exists(p) /\ UNCHANGED <<resolved, pair>>
      BY <1>7 DEF Then
    <2> HIDE DEF r
    <2>6. PICK fs : fs = frames
      OBVIOUS
    <2> QED BY <1>1, <2>1, <2>2, <2>3, <2>4, <2>5, <2>6, Subscribes
  <1>8. ASSUME NEW a \in Async, AsyncCall(a) PROVE SInv'
    <2>1. Grows
      BY <1>8, MadeFacts DEF AsyncCall, Promises
    <2>2. FlightKept
      BY <1>8, FlightFacts DEF AsyncCall
    <2>3. frames' = Calling(frames, "body", a)
      BY <1>8 DEF AsyncCall
    <2>4. \A i, q : InGetter(i, q)' <=> InGetter(i, q)
      <3>1. \A i, q : GetterIn(Calling(frames, "body", a), i, q) <=> GetterIn(frames, i, q)
        BY Called DEF Promises
      <3> QED BY <2>3, <3>1 DEF InGetter, GetterIn
    <2>5. \A i \in DOMAIN frames' : Alive(frames'[i].of)
      <3>1. Alive(a)
        BY <1>8 DEF AsyncCall, Alive, IInv, SlotTypes, Promises
      <3>2. \A i \in DOMAIN frames' :
              (i \in DOMAIN frames /\ frames'[i] = frames[i]) \/ frames'[i].of = a
        BY <2>3 DEF Calling
      <3> QED BY <3>1, <3>2 DEF Apart, KnownFrames, Alive
    <2> QED BY <1>1, <1>8, <2>1, <2>2, <2>4, <2>5, Makes DEF AsyncCall
  <1> QED BY <1>2, <1>3, <1>4, <1>5, <1>6, <1>7, <1>8 DEF User

\* So does every way in which user code returns or throws.
LEMMA UserEndsPlaces == ASSUME IInv, SInv, UserEnds PROVE SInv'
  <1>1. IInv'
    BY UserEndsKeeps
  <1>2. PICK c, fs : c = Running /\ fs = Popped
    OBVIOUS
  <1>3. \A place : Inside(place) /\ place # "getter" =>
          c \in Promises /\ fs \in Seq(Frames) /\ Apart(fs) /\ Exists(c)
    BY <1>2, FrameFacts, ApartPopped
  <1>4. ASSUME NEW p \in Promises, BodyAwaits(p) PROVE SInv'
    <2> DEFINE r == [kind |-> "await", to |-> c, onF |-> TRUE, onR |-> TRUE]
    <2>1. Grows
      BY <1>4 DEF BodyAwaits, Grows, IInv, SlotTypes
    <2>2. FlightKept
      BY <1>4, FlightFacts DEF BodyAwaits
    <2>3. r.kind \notin {"thenable", "pair"} /\ r.to = c
      OBVIOUS
    <2>4. Subscribe(p, r, fs) /\ Exists(p) /\ UNCHANGED <<resolved, pair>>
      BY <1>2, <1>4 DEF BodyAwaits
    <2>5. fs \in Seq(Frames) /\ Apart(fs) /\ Alive(c)
      BY <1>3, <1>4 DEF BodyAwaits, Alive
    <2> HIDE DEF r
    <2> QED BY <1>1, <2>1, <2>2, <2>3, <2>4, <2>5, Subscribes
  <1>5. ASSUME NEW x \in Inputs, BodyReturns(x) PROVE SInv'
    <2>1. FlightKept
      BY <1>5, FlightFacts DEF BodyReturns
    <2>2. c \in Promises /\ fs \in Seq(Frames) /\ Apart(fs) /\ Exists(c)
      BY <1>3, <1>5 DEF BodyReturns
    <2>3. ResolvePromise(c, x, fs) /\ UNCHANGED pair
      BY <1>2, <1>5 DEF BodyReturns
    <2> QED BY <1>1, <2>1, <2>2, <2>3, ResolvesOnce
  <1>6. ASSUME NEW x \in Inputs, HandlerReturns(x) PROVE SInv'
    <2>1. FlightKept
      BY <1>6, FlightFacts DEF HandlerReturns
    <2>2. c \in Promises /\ fs \in Seq(Frames) /\ Apart(fs) /\ Exists(c)
      BY <1>3, <1>6 DEF HandlerReturns
    <2>3. ResolvePromise(c, x, fs) /\ UNCHANGED pair
      BY <1>2, <1>6 DEF HandlerReturns
    <2> QED BY <1>1, <2>1, <2>2, <2>3, ResolvesOnce
  <1>7. ASSUME NEW got \in {"value", "thenable", "throw"}, GetterReturns(got) PROVE SInv'
    <2>1. FlightKept /\ UNCHANGED <<resolved, pair>> /\ Inside("getter")
      BY <1>7, FlightFacts DEF GetterReturns
    <2>2. Cleared(c, fs) /\ c \in Promises /\ fs \in Seq(Frames)
      BY <1>2, <2>1, GetterClears, FrameFacts
    <2>3. frames' = fs
      BY <1>2, <1>7 DEF GetterReturns
    <2>4. CASE SettleInternal(c, FALSE, ReadFrom) \/ SettleInternal(c, TRUE, c)
      <3>1. PICK v \in Values : v = ReadFrom
        BY <2>1, FrameFacts DEF Values
      <3>2. CASE SettleInternal(c, TRUE, c)
        BY <1>1, <2>2, <2>3, <3>2, PromiseIsValue, Settles
      <3>3. CASE SettleInternal(c, FALSE, v)
        BY <1>1, <2>2, <2>3, <3>3, Settles
      <3> QED BY <2>4, <3>1, <3>2, <3>3
    <2>5. CASE /\ queue' = Append(queue, ThenableJob(c, Foreign))
               /\ UNCHANGED <<st, result, reactions, parked, resettled>>
      BY <1>1, <2>2, <2>3, <2>5, Enqueues
    <2> QED BY <1>2, <1>7, <2>4, <2>5 DEF GetterReturns
  <1>8. ASSUME NEW threw \in BOOLEAN, ThenEnds(threw) PROVE SInv'
    <2>1. FlightKept /\ frames' = fs /\ UNCHANGED resolved
      BY <1>2, <1>8, FlightFacts DEF ThenEnds
    <2>2. c \in Promises /\ fs \in Seq(Frames) /\ Apart(fs) /\ Exists(c)
      BY <1>3, <1>8 DEF ThenEnds
    <2>3. CASE TakePairLatch(c) /\ SettleInternal(c, TRUE, c)
      <3>1. Cleared(c, fs)
        BY <2>1, <2>2, <2>3, PairClears
      <3> QED BY <1>1, <2>1, <2>2, <2>3, <3>1, PromiseIsValue, Settles
    <2>4. CASE UNCHANGED <<slots, pair>>
      BY <1>1, <2>1, <2>2, <2>4, NothingMoves DEF slots, FlightKept
    <2> QED BY <1>2, <1>8, <2>3, <2>4 DEF ThenEnds
  <1>9. ASSUME BodyThrows PROVE SInv'
    <2>1. FlightKept
      BY <1>9, FlightFacts DEF BodyThrows
    <2>2. c \in Promises /\ fs \in Seq(Frames) /\ Apart(fs) /\ Exists(c)
      BY <1>3, <1>9 DEF BodyThrows
    <2>3. RejectPromise(c, c) /\ frames' = fs /\ UNCHANGED pair
      BY <1>2, <1>9 DEF BodyThrows
    <2> QED BY <1>1, <2>1, <2>2, <2>3, PromiseIsValue, RejectsOnce
  <1>10. ASSUME HandlerThrows PROVE SInv'
    <2>1. FlightKept
      BY <1>10, FlightFacts DEF HandlerThrows
    <2>2. c \in Promises /\ fs \in Seq(Frames) /\ Apart(fs) /\ Exists(c)
      BY <1>3, <1>10 DEF HandlerThrows
    <2>3. RejectPromise(c, c) /\ frames' = fs /\ UNCHANGED pair
      BY <1>2, <1>10 DEF HandlerThrows
    <2> QED BY <1>1, <2>1, <2>2, <2>3, PromiseIsValue, RejectsOnce
  <1>11. ASSUME HookReturns PROVE SInv'
    <2>1. FlightKept
      BY <1>11, FlightFacts DEF HookReturns
    <2>2. Apart(fs) /\ frames' = fs
      BY <1>2, <1>3, <1>11 DEF HookReturns
    <2> QED BY <1>1, <1>11, <2>1, <2>2, NothingMoves DEF HookReturns, slots, FlightKept
  <1> QED BY <1>4, <1>5, <1>6, <1>7, <1>8, <1>9, <1>10, <1>11 DEF UserEnds

\* The head of the queue is in flight, and the others move up.
LEMMA Taken ==
  ASSUME IInv, SInv, TakeJob, NEW q \in Promises
  PROVE  (OneIn(q) => OneIn(q)') /\ (Nowhere(q) => Nowhere(q)')
  <1>1. /\ queue # <<>> /\ job' = Head(queue) /\ queue' = Tail(queue)
        /\ at = "drain" /\ at' = "job"
        /\ UNCHANGED <<reactions, frames, pair>>
    BY DEF TakeJob, NextJob
  <1>2. PICK n \in Nat : n = Len(queue) /\ n > 0
    BY <1>1 DEF IInv, SlotTypes
  <1>3. /\ DOMAIN queue = 1..n /\ job' = queue[1] /\ 1 \in 1..n
        /\ DOMAIN queue' = 1..(n - 1)
        /\ \A i \in 1..(n - 1) : queue'[i] = queue[i + 1] /\ (i + 1) \in 1..n
    BY <1>1, <1>2 DEF IInv, SlotTypes
  <1>4. (InFlight(q)' <=> InQueue(1, q)) /\ ~InFlight(q)
    BY <1>1, <1>3 DEF InFlight, InQueue
  <1>5. /\ \A i : InQueue(i, q)' <=> i \in 1..(n - 1) /\ InQueue(i + 1, q)
        /\ \A i : InQueue(i, q) => i \in 1..n
    BY <1>2, <1>3 DEF InQueue
  <1>6. /\ \A s, i : InList(s, i, q)' <=> InList(s, i, q)
        /\ \A i : InGetter(i, q)' <=> InGetter(i, q)
        /\ HasPair(q)' <=> HasPair(q)
    BY <1>1 DEF InList, InGetter, GetterIn, HasPair
  <1>7. CASE \A i : ~InQueue(i, q)
    <2>1. Same(q)
      BY <1>4, <1>5, <1>6, <1>7 DEF Same
    <2> QED BY <2>1, SameKeeps
  <1>8. ASSUME NEW i, InQueue(i, q)
        PROVE  (OneIn(q) => OneIn(q)') /\ (Nowhere(q) => Nowhere(q)')
    <2>1. Held(0, None, i, q)
      BY <1>8 DEF Held
    <2>2. ASSUME OneIn(q) PROVE OneIn(q)'
      <3>1. \A t2, q2, i2 : Held(t2, q2, i2, q) => t2 = 0 /\ i2 = i
        BY <2>1, <2>2 DEF OneIn
      <3>2. \A k : InQueue(k, q) => k = i
        <4>1. \A k : InQueue(k, q) => Held(0, None, k, q)
          BY DEF Held
        <4> QED BY <3>1, <4>1
      <3>3. /\ \A s, k : ~InList(s, k, q)
            /\ \A k : ~InGetter(k, q)
            /\ ~HasPair(q)
        <4>1. \A t2, q2, i2 : Held(t2, q2, i2, q) => t2 = 0
          BY <3>1
        <4> QED BY <4>1 DEF Held
      <3>4. CASE i = 1
        <4>1. InFlight(q)' /\ \A k : ~InQueue(k, q)'
          BY <1>2, <1>4, <1>5, <1>8, <3>2, <3>4
        <4>2. Held(2, None, 0, q)'
          BY <4>1 DEF Held
        <4>3. \A t, r, k : Held(t, r, k, q)' => t = 2 /\ r = None /\ k = 0
          BY <1>6, <3>3, <4>1 DEF Held
        <4> QED BY <4>2, <4>3 DEF OneIn
      <3>5. CASE i # 1
        <4>1. PICK k : k = i - 1
          OBVIOUS
        <4>2. k \in 1..(n - 1) /\ k + 1 = i
          BY <1>2, <1>5, <1>8, <3>5, <4>1
        <4>3. InQueue(k, q)' /\ ~InFlight(q)'
          BY <1>4, <1>5, <1>8, <3>2, <3>5, <4>2
        <4>4. \A m : InQueue(m, q)' => m = k
          BY <1>2, <1>5, <3>2, <4>1
        <4>5. Held(0, None, k, q)'
          BY <4>3 DEF Held
        <4>6. \A t, r, m : Held(t, r, m, q)' => t = 0 /\ r = None /\ m = k
          BY <1>6, <3>3, <4>3, <4>4 DEF Held
        <4> QED BY <4>5, <4>6 DEF OneIn
      <3> QED BY <3>4, <3>5
    <2>3. ~Nowhere(q)
      BY <2>1 DEF Nowhere
    <2> QED BY <2>2, <2>3
  <1> QED BY <1>7, <1>8

\* So does every step of the drain and of the jobs it runs.
LEMMA DrainPlaces == ASSUME IInv, SInv, Drain PROVE SInv'
  <1>1. IInv'
    BY DrainKeeps
  <1>2. PICK fs : fs = frames
    OBVIOUS
  <1>3. fs \in Seq(Frames) /\ Apart(fs)
    BY <1>2, FramesKept
  <1>4. PICK p : p = job.to
    OBVIOUS
  <1>5. at = "job" => p \in Promises /\ Exists(p)
    BY <1>4, JobFacts DEF SInv, Known
  <1>6. ASSUME NEW place \in {"handler", "then", "body", "hook"}, at = "job"
        PROVE  Apart(Calling(fs, place, p))
    BY <1>3, <1>5, <1>6, ApartCalled
  <1>7. ASSUME DrainStarts \/ ReportAll \/ ReportStarts \/ ReportEnds PROVE SInv'
    <2>1. at # "job" /\ at' # "job"
      BY <1>7 DEF DrainStarts, ReportAll, ReportStarts, ReportEnds
    <2>2. FlightKept
      BY <2>1 DEF FlightKept, InFlight
    <2>3. UNCHANGED <<st, reactions, queue, resettled, resolved, pair, frames>>
      BY <1>7 DEF DrainStarts, ReportAll, ReportStarts, ReportEnds, slots
    <2> QED BY <1>1, <1>2, <1>3, <2>2, <2>3, NothingMoves DEF FlightKept
  <1>8. ASSUME ReportNext PROVE SInv'
    <2>1. PICK c : c = Head(parked)
      OBVIOUS
    <2>2. Exists(c) /\ c \in Promises
      BY <1>8, <2>1, ParkedHead DEF ReportNext, Exists
    <2>3. Apart(Calling(fs, "hook", c))
      BY <1>3, <2>2, ApartCalled
    <2>4. PICK gs : gs = Calling(fs, "hook", c)
      OBVIOUS
    <2>5. FlightKept
      BY <1>8 DEF ReportNext, FlightKept, InFlight
    <2>6. frames' = gs /\ UNCHANGED <<st, reactions, queue, resettled, resolved, pair>>
      BY <1>2, <1>8, <2>1, <2>4 DEF ReportNext
    <2> QED BY <1>1, <2>3, <2>4, <2>5, <2>6, NothingMoves DEF FlightKept
  <1>9. ASSUME TakeJob PROVE SInv'
    <2>1. /\ queue # <<>> /\ job' = Head(queue) /\ queue' = Tail(queue)
          /\ UNCHANGED <<st, reactions, resettled, resolved, frames>>
      BY <1>9 DEF TakeJob, NextJob
    <2>2. ASSUME NEW q \in Promises PROVE Placed(q)'
      <3>1. Owed(q)' <=> Owed(q)
        BY <2>1 DEF Owed
      <3> QED BY <1>9, <3>1, Taken DEF SInv, Placed
    <2>3. Latched'
      BY <2>1 DEF SInv, Latched, Settled
    <2>4. Known'
      <3>1. \A i \in DOMAIN queue : Exists(queue[i].to)
        BY DEF SInv, Known
      <3>2. queue \in Seq(Jobs) /\ Len(queue) \in Nat /\ Len(queue) > 0
        BY <2>1 DEF IInv, SlotTypes
      <3>3. /\ Head(queue) = queue[1] /\ 1 \in DOMAIN queue
            /\ \A i \in DOMAIN Tail(queue) :
                 (i + 1) \in DOMAIN queue /\ Tail(queue)[i] = queue[i + 1]
        BY <3>2
      <3>4. (\A i \in DOMAIN queue' : Exists(queue'[i].to)) /\ Exists(job'.to)
        BY <2>1, <3>1, <3>3
      <3>5. /\ \A q \in Promises : Exists(q) => Exists(q)'
            /\ \A q \in Promises : \A i \in DOMAIN reactions'[q] : Exists(reactions'[q][i].to)
            /\ KnownFrames(frames')
        BY <2>1 DEF SInv, Known, Exists
      <3> QED BY <1>1, <3>4, <3>5, StillKnown
    <2> QED BY <2>1, <2>2, <2>3, <2>4 DEF SInv
  <1>10. ASSUME PassThrough PROVE SInv'
    <2>1. FlightKept /\ UNCHANGED pair
      BY <1>10, FlightFacts DEF PassThrough
    <2>2. PICK v : v = job.value
      OBVIOUS
    <2>3. PICK rejected \in BOOLEAN : rejected = job.rejected
      BY <1>10, JobFacts DEF PassThrough
    <2>4. p \in Promises /\ Exists(p) /\ v \in Values
      BY <1>5, <1>10, <2>2, JobFacts DEF PassThrough
    <2>5. CASE resolved[p]
      <3>1. frames' = fs /\ UNCHANGED <<slots, resolved>>
        BY <1>2, <1>4, <1>10, <2>5 DEF PassThrough
      <3> QED BY <1>1, <1>3, <2>1, <3>1, NothingMoves DEF slots, FlightKept
    <2>6. CASE ~resolved[p]
      <3>1. TakeLatch(p) /\ TakeOutcome(p, rejected, v)
        BY <1>4, <1>10, <2>2, <2>3, <2>6 DEF PassThrough
      <3>2. Cleared(p, fs)
        BY <1>3, <2>1, <2>4, <2>6, <3>1, LatchClears
      <3> QED BY <1>1, <1>2, <1>3, <2>4, <3>1, <3>2, TakesOutcome
    <2> QED BY <2>5, <2>6
  <1>11. ASSUME CallHandler \/ ResumeBody PROVE SInv'
    <2>1. FlightKept
      BY <1>11, FlightFacts DEF CallHandler, ResumeBody
    <2>2. PICK place, gs : /\ place \in {"handler", "body"}
                          /\ gs = Calling(fs, place, p) /\ frames' = gs
      BY <1>2, <1>4, <1>11 DEF CallHandler, ResumeBody
    <2>3. Apart(gs)
      BY <1>6, <1>11, <2>2 DEF CallHandler, ResumeBody
    <2>4. UNCHANGED <<st, reactions, queue, resettled, resolved, pair>>
      BY <1>11 DEF CallHandler, ResumeBody, slots
    <2> QED BY <1>1, <2>1, <2>2, <2>3, <2>4, NothingMoves DEF FlightKept
  <1>12. ASSUME AdoptedSettled PROVE SInv'
    <2>1. PICK v : v = job.value
      OBVIOUS
    <2>2. PICK rejected \in BOOLEAN : rejected = job.rejected
      BY <1>12, JobFacts DEF AdoptedSettled
    <2>3. p \in Promises /\ v \in Values
      BY <1>5, <1>12, <2>1, JobFacts DEF AdoptedSettled
    <2>4. Cleared(p, fs)
      <3>1. InFlight(p) /\ JobDone /\ UNCHANGED <<resolved, pair>>
        BY <1>4, <1>12 DEF AdoptedSettled, InFlight, Carries
      <3> QED BY <1>2, <2>3, <3>1, FlightClears
    <2>5. TakeOutcome(p, rejected, v)
      BY <1>4, <1>12, <2>1, <2>2 DEF AdoptedSettled, SettlePair
    <2> QED BY <1>1, <1>2, <1>3, <2>3, <2>4, <2>5, TakesOutcome
  <1>13. ASSUME AdoptPromise PROVE SInv'
    <2> DEFINE r == [kind |-> "pair", to |-> p, onF |-> TRUE, onR |-> TRUE]
    <2>1. PICK v : v = job.value
      OBVIOUS
    <2>2. /\ at = "job" /\ v \in Promises /\ JobDone /\ Subscribe(v, r, fs)
          /\ UNCHANGED <<st, resolved, pair>>
      BY <1>2, <1>4, <1>13, <2>1 DEF AdoptPromise
    <2>3. \A q : Carries(r, q) <=> q = p
      BY DEF Carries
    <2>4. r.to = p
      OBVIOUS
    <2> HIDE DEF r
    <2>5. p \in Promises /\ Alive(r.to) /\ Exists(v)
      BY <1>5, <2>2, <2>4 DEF Alive, Subscribe, Settled, Exists
    <2>6. Cleared(p, frames)
      BY <1>4, <1>13, <2>2, <2>5, FlightClears DEF AdoptPromise, InFlight, Carries
    <2>7. /\ \/ /\ \A i, q : InQueue(i, q)' <=> InQueue(i, q)
                /\ \A s, i, q : InList(s, i, q)' <=>
                     InList(s, i, q) \/ (s = v /\ i = Len(reactions[v]) + 1 /\ q = p)
             \/ /\ \A i, q : InQueue(i, q)' <=>
                     InQueue(i, q) \/ (i = Len(queue) + 1 /\ q = p)
                /\ \A s, i, q : InList(s, i, q)' <=> InList(s, i, q)
          /\ \A i, q : InGetter(i, q)' <=> InGetter(i, q)
      BY <1>3, <2>2, <2>3, <2>5, SubscribePlaces
    <2>8. ASSUME NEW q \in Promises, q # p PROVE Placed(q)'
      <3>1. Same(q)
        BY <2>6, <2>7, <2>8 DEF Same, Cleared
      <3>2. Owed(q)' <=> Owed(q)
        BY <2>2 DEF Owed
      <3> QED BY <3>1, <3>2, SamePlaced DEF SInv
    <2>9. Placed(p)'
      <3>1. /\ \A i : ~InGetter(i, p)' /\ ~InQueue(i, p)
            /\ \A s, i : ~InList(s, i, p)
            /\ ~InFlight(p)' /\ ~HasPair(p)' /\ Owed(p)'
        BY <2>2, <2>6, <2>7 DEF Cleared, Owed, InGetter
      <3>2. PICK m, n : m = Len(reactions[v]) + 1 /\ n = Len(queue) + 1
        OBVIOUS
      <3>3. CASE /\ \A i : ~InQueue(i, p)'
                 /\ \A s, i : InList(s, i, p)' <=> s = v /\ i = m
        <4>1. Held(1, v, m, p)'
          BY <3>3 DEF Held
        <4>2. \A t, s, i : Held(t, s, i, p)' => t = 1 /\ s = v /\ i = m
          BY <3>1, <3>3 DEF Held
        <4> QED BY <3>1, <4>1, <4>2 DEF Placed, OneIn
      <3>4. CASE /\ \A i : InQueue(i, p)' <=> i = n
                 /\ \A s, i : ~InList(s, i, p)'
        <4>1. Held(0, None, n, p)'
          BY <3>4 DEF Held
        <4>2. \A t, s, i : Held(t, s, i, p)' => t = 0 /\ s = None /\ i = n
          BY <3>1, <3>4 DEF Held
        <4> QED BY <3>1, <4>1, <4>2 DEF Placed, OneIn
      <3> QED BY <2>7, <3>1, <3>2, <3>3, <3>4
    <2>10. Latched'
      BY <2>2 DEF SInv, Latched, Settled
    <2>11. Known'
      <3>1. \A q \in Promises : Exists(q) => Exists(q)'
        BY <2>2 DEF Exists
      <3>2. at' # "job"
        BY <2>2 DEF JobDone
      <3> QED BY <1>1, <1>3, <2>2, <2>5, <3>1, <3>2, SubscribePlaces, StillAlive
    <2>12. resettled' = FALSE
      BY <1>3, <2>2, <2>5, SubscribePlaces DEF SInv
    <2> QED BY <2>8, <2>9, <2>10, <2>11, <2>12 DEF SInv
  <1>14. ASSUME CallForeignThen PROVE SInv'
    <2>1. /\ at = "job" /\ JobDone /\ UNCHANGED <<slots, resolved>>
          /\ pair' = [pair EXCEPT ![p] = "open"]
          /\ frames' = Calling(fs, "then", p)
      BY <1>2, <1>4, <1>14 DEF CallForeignThen
    <2>2. p \in Promises /\ InFlight(p)
      BY <1>4, <1>5, <1>14 DEF CallForeignThen, InFlight, Carries
    <2>3. /\ Owed(p)
          /\ \A i : ~InQueue(i, p) /\ ~InGetter(i, p)
          /\ \A s, i : ~InList(s, i, p)
      <3>1. Held(2, None, 0, p)
        BY <2>2 DEF Held
      <3>2. Owed(p) /\ \A t, q, i : Held(t, q, i, p) => t = 2
        BY <2>2, <3>1, Only DEF SInv
      <3> QED BY <3>2 DEF Held
    <2>4. Apart(Calling(fs, "then", p))
      BY <1>6, <2>1
    <2>5. /\ \A i, q : InGetter(i, q)' <=> InGetter(i, q)
          /\ KnownFrames(frames')
      BY <2>1, <2>4 DEF Apart, InGetter, GetterIn
    <2>6. /\ \A i, q : InQueue(i, q)' <=> InQueue(i, q)
          /\ \A s, i, q : InList(s, i, q)' <=> InList(s, i, q)
          /\ \A q : ~InFlight(q)' /\ (q # p => ~InFlight(q))
          /\ \A q \in Promises \ {p} : HasPair(q)' <=> HasPair(q)
          /\ HasPair(p)'
          /\ at' # "job"
      <3>1. pair \in [Promises -> {"none", "open", "taken"}]
        BY DEF IInv, RestTypes
      <3>2. \A q \in Promises \ {p} : HasPair(q)' <=> HasPair(q)
        BY <2>1, <3>1 DEF HasPair
      <3>3. HasPair(p)'
        BY <2>1, <2>2, <3>1 DEF HasPair
      <3>4. \A q : ~InFlight(q)' /\ (q # p => ~InFlight(q))
        BY <2>1, <2>2 DEF InFlight, Carries, JobDone
      <3>5. /\ \A i, q : InQueue(i, q)' <=> InQueue(i, q)
            /\ \A s, i, q : InList(s, i, q)' <=> InList(s, i, q)
        BY <2>1 DEF InQueue, InList, slots
      <3> QED BY <2>1, <3>2, <3>3, <3>4, <3>5 DEF JobDone
    <2>7. ASSUME NEW q \in Promises, q # p PROVE Placed(q)'
      <3>1. Same(q)
        BY <2>5, <2>6, <2>7 DEF Same
      <3>2. Owed(q)' <=> Owed(q)
        BY <2>1 DEF Owed, slots
      <3> QED BY <3>1, <3>2, SamePlaced DEF SInv
    <2>8. Placed(p)'
      <3>1. Owed(p)'
        BY <2>1, <2>3 DEF Owed, slots
      <3>2. Held(4, None, 0, p)'
        BY <2>6 DEF Held
      <3>3. \A t, s, i : Held(t, s, i, p)' => t = 4 /\ s = None /\ i = 0
        BY <2>3, <2>5, <2>6 DEF Held
      <3> QED BY <3>1, <3>2, <3>3 DEF Placed, OneIn
    <2>9. Latched'
      BY <2>1 DEF SInv, Latched, Settled, slots
    <2>10. Known'
      <3>1. /\ \A q \in Promises : Exists(q) => Exists(q)'
            /\ \A i \in DOMAIN queue' : Exists(queue'[i].to)
            /\ \A q \in Promises : \A i \in DOMAIN reactions'[q] : Exists(reactions'[q][i].to)
        BY <2>1 DEF SInv, Known, Exists, slots
      <3> QED BY <1>1, <2>5, <2>6, <3>1, StillKnown
    <2> QED BY <2>1, <2>7, <2>8, <2>9, <2>10 DEF SInv, slots
  <1> QED BY <1>7, <1>8, <1>9, <1>10, <1>11, <1>12, <1>13, <1>14 DEF Drain

-----------------------------------------------------------------------------
(* The theorems.                                                           *)

\* At the start there are no promises to settle, and no places.
LEMMA InitPlaces == ASSUME Init PROVE SInv
  <1>1. /\ \A p \in Promises : st[p] = "none" /\ ~resolved[p] /\ pair[p] = "none"
        /\ \A q \in Promises : DOMAIN reactions[q] = {}
        /\ DOMAIN queue = {} /\ DOMAIN frames = {} /\ at = "script" /\ resettled = FALSE
    BY DEF Init
  <1>2. ASSUME NEW p \in Promises PROVE Placed(p)
    <2>1. /\ \A i : ~InQueue(i, p) /\ ~InGetter(i, p)
          /\ \A s, i : ~InList(s, i, p)
          /\ ~InFlight(p) /\ ~HasPair(p)
      BY <1>1 DEF InQueue, InList, InFlight, InGetter, GetterIn, HasPair
    <2> QED BY <1>1, <2>1 DEF Placed, Owed, Nowhere, Held
  <1>3. Latched /\ Known
    BY <1>1 DEF Latched, Settled, Known, KnownFrames
  <1> QED BY <1>1, <1>2, <1>3 DEF SInv

\* A step that changes nothing.
LEMMA StutterPlaces == ASSUME IInv, SInv, UNCHANGED vars PROVE SInv'
  <1>1. IInv'
    BY StutterKeeps
  <1>2. PICK fs : fs = frames
    OBVIOUS
  <1>3. FlightKept
    BY FlightFacts DEF vars
  <1> QED BY <1>1, <1>2, <1>3, FramesKept, NothingMoves DEF vars, slots, FlightKept

\* The inductive invariant holds of every behaviour.
LEMMA OnePlaceEach == Spec => [](IInv /\ SInv)
  <1>1. Init => IInv /\ SInv
    BY InitIInv, InitPlaces
  <1>2. IInv /\ SInv /\ [Next]_vars => (IInv /\ SInv)'
    <2>1. IInv /\ [Next]_vars => IInv'
      BY UserKeeps, UserEndsKeeps, DrainKeeps, StutterKeeps DEF Next
    <2>2. IInv /\ SInv /\ [Next]_vars => SInv'
      BY UserPlaces, UserEndsPlaces, DrainPlaces, StutterPlaces DEF Next
    <2> QED BY <2>1, <2>2
  <1> QED BY <1>1, <1>2, PTL DEF Spec

\* What the re-check of `pending` in settleInternal is for never happens: no
\* sequence of resolutions, adoptions and re-entrant user code reaches it
\* with a settled promise.
THEOREM SettledOnce == Spec => []RecheckNeverNeeded
  <1>1. SInv => RecheckNeverNeeded
    BY DEF SInv, RecheckNeverNeeded
  <1> QED BY <1>1, OnePlaceEach, PTL

\* The places are the settlers.
LEMMA SettlersArePlaces ==
  ASSUME NEW p, NEW x
  PROVE  x \in Settlers(p) <=>
           \/ \E i : x = <<"queue", i>> /\ InQueue(i, p)
           \/ \E q, i : x = <<q, i>> /\ InList(q, i, p)
           \/ x = <<"job", 1>> /\ InFlight(p)
           \/ \E i : x = <<"getter", i>> /\ InGetter(i, p)
           \/ x = <<"functions", 1>> /\ HasPair(p)
  <1> DEFINE K == {"thenable", "pair"}
  <1>1. x \in Holders(K, p) <=>
           \/ \E i : x = <<"queue", i>> /\ InQueue(i, p)
           \/ \E q, i : x = <<q, i>> /\ InList(q, i, p)
           \/ x = <<"job", 1>> /\ InFlight(p)
    BY DEF Holders, InQueue, InList, InFlight, Carries
  <1>2. x \in FramesOf("getter", p) <=> \E i : x = <<"getter", i>> /\ InGetter(i, p)
    BY DEF FramesOf, InGetter, GetterIn
  <1> QED BY <1>1, <1>2 DEF Settlers, HasPair

\* No promise is wedged and none can be settled twice: a promise whose latch
\* is taken has exactly one thing left that will settle it until it is
\* settled, and none before or after.
THEOREM ExactlyOneSettler == Spec => []OneSettler
  <1>1. SInv => OneSettler
    <2> SUFFICES ASSUME SInv, NEW p \in Promises
                 PROVE  Cardinality(Settlers(p)) =
                          IF resolved[p] /\ st[p] = "pending" THEN 1 ELSE 0
      BY DEF OneSettler
    <2>1. Placed(p)
      BY DEF SInv
    <2>2. CASE Owed(p)
      <3>1. OneIn(p)
        BY <2>1, <2>2 DEF Placed
      <3>2. PICK t, q, i : Held(t, q, i, p)
        BY <3>1 DEF OneIn
      <3>3. \A t2, q2, i2 : Held(t2, q2, i2, p) => t2 = t /\ q2 = q /\ i2 = i
        BY <3>1, <3>2 DEF OneIn
      <3>4. \E x : x \in Settlers(p)
        BY <3>2, SettlersArePlaces DEF Held
      <3>5. \A x, y \in Settlers(p) : x = y
        <4>1. /\ \A k : InQueue(k, p) => t = 0 /\ k = i
              /\ \A s, k : InList(s, k, p) => t = 1 /\ s = q /\ k = i
              /\ InFlight(p) => t = 2
              /\ \A k : InGetter(k, p) => t = 3 /\ k = i
              /\ HasPair(p) => t = 4
          <5>1. /\ \A k : InQueue(k, p) => Held(0, None, k, p)
                /\ \A s, k : InList(s, k, p) => Held(1, s, k, p)
                /\ InFlight(p) => Held(2, None, 0, p)
                /\ \A k : InGetter(k, p) => Held(3, None, k, p)
                /\ HasPair(p) => Held(4, None, 0, p)
            BY DEF Held
          <5> QED BY <3>3, <5>1
        <4> QED BY <4>1, SettlersArePlaces
      <3>6. \E x : Settlers(p) = {x}
        BY <3>4, <3>5
      <3> QED BY <2>2, <3>6, FS_Singleton DEF Owed
    <2>3. CASE ~Owed(p)
      <3>1. Nowhere(p)
        BY <2>1, <2>3 DEF Placed
      <3>2. /\ \A i : ~InQueue(i, p) /\ ~InGetter(i, p)
            /\ \A s, i : ~InList(s, i, p)
            /\ ~InFlight(p) /\ ~HasPair(p)
        BY <3>1 DEF Nowhere, Held
      <3>3. Settlers(p) = {}
        BY <3>2, SettlersArePlaces
      <3> QED BY <2>3, <3>3, FS_EmptySet DEF Owed
    <2> QED BY <2>2, <2>3
  <1> QED BY <1>1, OnePlaceEach, PTL
=============================================================================
