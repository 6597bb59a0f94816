---------------------- MODULE PromiseContinuationProofs ----------------------
(***************************************************************************)
(* For any sets of promises and async calls: no continuation is lost or    *)
(* doubled, and an adoption ends as the adopted promise did.               *)
(*                                                                         *)
(* The continuation of a derived promise is a reaction, a job or a running *)
(* handler; that of an async call a reaction, a job or its running body.   *)
(* Each is stored (in the queue or in one list), in flight or on the stack,*)
(* in one place; a step leaves it, moves it on or ends it.                 *)
(***************************************************************************)
EXTENDS PromiseSettleProofs

-----------------------------------------------------------------------------
(* Where a continuation is.                                                *)

Conts   == {"then", "await"}
Body(k) == IF k = "then" THEN "handler" ELSE "body"

Resumes(r, k, x)   == r.kind = k /\ r.to = x
JobAt(i, k, x)     == i \in DOMAIN queue /\ Resumes(queue[i], k, x)
ListAt(q, i, k, x) == q \in Promises /\ i \in DOMAIN reactions[q] /\ Resumes(reactions[q][i], k, x)

\* The box q is a promise, or None for the queue.
Stored(q, i, k, x) == (q = None /\ JobAt(i, k, x)) \/ ListAt(q, i, k, x)
NoneStored(k, x)   == \A q, i : ~Stored(q, i, k, x)
OneStored(k, x)    ==
  /\ \E q, i : Stored(q, i, k, x)
  /\ \A q, i, q2, i2 : Stored(q, i, k, x) /\ Stored(q2, i2, k, x) => q2 = q /\ i2 = i

Flying(k, x) == at = "job" /\ Resumes(job, k, x)

FrameAt(fs, i, place, x) == i \in DOMAIN fs /\ fs[i].in = place /\ fs[i].of = x
NoFrame(fs, place, x)    == \A i : ~FrameAt(fs, i, place, x)
OneFrame(fs, place, x)   ==
  /\ \E i : FrameAt(fs, i, place, x)
  /\ \A i, j : FrameAt(fs, i, place, x) /\ FrameAt(fs, j, place, x) => j = i

Idle(k, x)  == NoneStored(k, x) /\ ~Flying(k, x) /\ NoFrame(frames, Body(k), x)
Waits(k, x) == /\ NoFrame(frames, Body(k), x)
               /\ (OneStored(k, x) /\ ~Flying(k, x)) \/ (NoneStored(k, x) /\ Flying(k, x))
Runs(k, x)  == NoneStored(k, x) /\ ~Flying(k, x) /\ OneFrame(frames, Body(k), x)

-----------------------------------------------------------------------------
(* The invariant.                                                          *)

\* A derived promise not yet resolved has its continuation, nothing else has.
Unresolved(x) == x \in Derived /\ st[x] = "pending" /\ ~resolved[x]
Derivations ==
  \A x \in Promises : /\ Unresolved(x) => Waits("then", x) \/ Runs("then", x)
                      /\ ~Unresolved(x) => Idle("then", x)

\* An async call is where its machine says.
Calls ==
  \A x \in Promises :
    /\ x \in Async /\ machine[x] = "Executing" => Runs("await", x)
    /\ x \in Async /\ machine[x] = "Suspended" => Waits("await", x)
    /\ x \notin Async \/ machine[x] \in {"none", "Completed"} => Idle("await", x)
    /\ x \in Async /\ st[x] = "none" => machine[x] = "none"

\* What an async call awaits exists and, while pending, holds its resumption.
Awaited ==
  \A a \in Async, p \in Promises :
    waiting[a] = p => /\ Exists(p)
                      /\ st[p] = "pending" => \E i : ListAt(p, i, "await", a)

Drained == \A p \in Promises : Settled(p) => reactions[p] = <<>>

CInv == Derivations /\ Calls /\ Awaited /\ Drained

-----------------------------------------------------------------------------
(* What a step does to the queue and the lists.                            *)

StoreKept(k, x) == (OneStored(k, x) => OneStored(k, x)') /\ (NoneStored(k, x) => NoneStored(k, x)')
StoresKept      == \A k \in Conts : \A x : StoreKept(k, x)

\* Lists only grow while their promise is pending; no promise goes back.
ListsStay == \A p \in Promises : st'[p] = "pending" =>
               \A i, k, x : ListAt(p, i, k, x) => ListAt(p, i, k, x)'
Onward    == \A q \in Promises :
               st[q] # "none" => st'[q] # "none" /\ (st'[q] = "pending" => st[q] = "pending")
Steady    == ListsStay /\ Onward /\ Drained'

\* Places that are where they were.
LEMMA StoreSame ==
  ASSUME NEW k, NEW x, \A q, i : Stored(q, i, k, x)' <=> Stored(q, i, k, x)
  PROVE  StoreKept(k, x)
  BY DEF StoreKept, OneStored, NoneStored

\* A step that touches neither the lists nor the queue.
LEMMA NothingStored ==
  ASSUME Drained, Onward, UNCHANGED <<reactions, queue>>,
         \A q \in Promises : Settled(q)' => Settled(q)
  PROVE  Steady /\ StoresKept
  <1>1. /\ \A i, k, x : JobAt(i, k, x)' <=> JobAt(i, k, x)
        /\ \A q, i, k, x : ListAt(q, i, k, x)' <=> ListAt(q, i, k, x)
    BY DEF JobAt, ListAt
  <1>2. \A q, i, k, x : Stored(q, i, k, x)' <=> Stored(q, i, k, x)
    BY <1>1 DEF Stored
  <1>3. StoresKept
    BY <1>2, StoreSame DEF StoresKept
  <1>4. ListsStay
    BY <1>1 DEF ListsStay
  <1>5. Drained'
    BY DEF Drained
  <1> QED BY <1>3, <1>4, <1>5 DEF Steady

\* A job or a reaction is appended.
LEMMA JobAppended ==
  ASSUME IInv, NEW j, queue' = Append(queue, j)
  PROVE  /\ \A i, k, x : JobAt(i, k, x)' <=>
              JobAt(i, k, x) \/ (i = Len(queue) + 1 /\ Resumes(j, k, x))
         /\ \A k, x : ~JobAt(Len(queue) + 1, k, x)
  <1>1. queue \in Seq(Jobs)
    BY DEF IInv, SlotTypes
  <1>2. /\ Len(queue) \in Nat /\ DOMAIN queue = 1..Len(queue)
        /\ DOMAIN queue' = 1..(Len(queue) + 1)
        /\ queue'[Len(queue) + 1] = j
        /\ \A i \in 1..Len(queue) : queue'[i] = queue[i]
    BY <1>1
  <1> QED BY <1>2 DEF JobAt

\* The list of p grows by r, and no other.
LEMMA ReactionAppended ==
  ASSUME IInv, NEW p \in Promises, NEW r,
         reactions' = [reactions EXCEPT ![p] = Append(reactions[p], r)]
  PROVE  /\ \A q, i, k, x : ListAt(q, i, k, x)' <=>
              ListAt(q, i, k, x) \/ (q = p /\ i = Len(reactions[p]) + 1 /\ Resumes(r, k, x))
         /\ \A k, x : ~ListAt(p, Len(reactions[p]) + 1, k, x)
  <1> DEFINE l == reactions[p]
  <1>1. reactions \in [Promises -> Seq(Reactions)] /\ l \in Seq(Reactions)
    BY DEF IInv, SlotTypes
  <1>2. /\ Len(l) \in Nat /\ DOMAIN l = 1..Len(l)
        /\ DOMAIN Append(l, r) = 1..(Len(l) + 1)
        /\ Append(l, r)[Len(l) + 1] = r
        /\ \A i \in 1..Len(l) : Append(l, r)[i] = l[i]
    BY <1>1
  <1>3. reactions'[p] = Append(l, r) /\ \A s \in Promises \ {p} : reactions'[s] = reactions[s]
    BY <1>1
  <1> HIDE DEF l
  <1>4. ASSUME NEW q, NEW i, NEW k, NEW x
        PROVE  ListAt(q, i, k, x)' <=>
                 ListAt(q, i, k, x) \/ (q = p /\ i = Len(l) + 1 /\ Resumes(r, k, x))
    <2>1. CASE q = p
      BY <1>2, <1>3, <2>1 DEF ListAt, l
    <2>2. CASE q # p
      BY <1>3, <2>2 DEF ListAt
    <2> QED BY <2>1, <2>2
  <1>5. \A k, x : ~ListAt(p, Len(l) + 1, k, x)
    BY <1>2 DEF ListAt, l
  <1> QED BY <1>4, <1>5 DEF l

\* The job of a thenable is nobody's continuation.
LEMMA EnqueueSteady ==
  ASSUME IInv, Drained, NEW p, NEW y, queue' = Append(queue, ThenableJob(p, y)),
         UNCHANGED <<st, reactions>>
  PROVE  Steady /\ StoresKept
  <1> DEFINE j == ThenableJob(p, y)
  <1>1. \A k \in Conts : \A x : ~Resumes(j, k, x)
    BY DEF ThenableJob, Conts, Resumes
  <1>2. \A k \in Conts : \A i, x : JobAt(i, k, x)' <=> JobAt(i, k, x)
    BY <1>1, JobAppended
  <1>3. \A q, i, k, x : ListAt(q, i, k, x)' <=> ListAt(q, i, k, x)
    BY DEF ListAt
  <1>4. \A k \in Conts : \A q, i, x : Stored(q, i, k, x)' <=> Stored(q, i, k, x)
    BY <1>2, <1>3 DEF Stored
  <1>5. StoresKept
    BY <1>4, StoreSame DEF StoresKept
  <1>6. ListsStay /\ Onward /\ Drained'
    BY <1>3 DEF ListsStay, Onward, Drained, Settled
  <1> QED BY <1>5, <1>6 DEF Steady

\* settleInternal moves the reactions of p to the end of the queue.
LEMMA ReactionsMoved ==
  ASSUME IInv, NEW p \in Promises, NEW rejected \in BOOLEAN, NEW v \in Values,
         st[p] = "pending", SettleInternal(p, rejected, v)
  PROVE  /\ Len(queue) \in Nat
         /\ \A i, k, x : JobAt(i, k, x) => i \in 1..Len(queue)
         /\ \A i, k, x : ListAt(p, i, k, x) => i \in Nat /\ i > 0
         /\ \A i, k, x : JobAt(i, k, x)' <=>
              \/ JobAt(i, k, x)
              \/ i \in Nat /\ i > Len(queue) /\ ListAt(p, i - Len(queue), k, x)
         /\ \A q, i, k, x : ListAt(q, i, k, x)' <=> ListAt(q, i, k, x) /\ q # p
  <1> DEFINE l == reactions[p]
             u == Triggered(p, rejected, v)
             n == Len(queue)
             m == Len(l)
  <1>1. queue' = queue \o u /\ reactions' = [reactions EXCEPT ![p] = <<>>]
    BY DEF SettleInternal
  <1>2. queue \in Seq(Jobs) /\ l \in Seq(Reactions) /\ reactions \in [Promises -> Seq(Reactions)]
    BY DEF IInv, SlotTypes
  <1>3. n \in Nat /\ m \in Nat /\ DOMAIN queue = 1..n /\ DOMAIN l = 1..m
    BY <1>2
  <1>4. /\ DOMAIN u = 1..m
        /\ \A i \in 1..m : u[i].kind = l[i].kind /\ u[i].to = l[i].to
    BY <1>3 DEF Triggered, JobOf
  <1>5. /\ DOMAIN queue' = 1..(n + m)
        /\ \A i \in 1..n : queue'[i] = queue[i]
        /\ \A i \in (n + 1)..(n + m) : queue'[i] = u[i - n]
    <2>1. \A i \in 1..m : JobOf(l[i], rejected, v) \in Jobs
      BY <1>2, <1>3, JobOfType
    <2>2. u \in Seq(Jobs) /\ Len(u) = m
      BY <1>3, <2>1 DEF Triggered
    <2> HIDE DEF u, n, m
    <2> QED BY <1>1, <1>2, <2>2, Concatenated DEF n
  <1>6. /\ DOMAIN reactions'[p] = {}
        /\ \A s \in Promises \ {p} : reactions'[s] = reactions[s]
    BY <1>1, <1>2
  <1> HIDE DEF u, n, m
  <1>7. \A i, k, x : JobAt(i, k, x) => i \in 1..n
    BY <1>3 DEF JobAt
  <1>8. \A i, k, x : ListAt(p, i, k, x) => i \in Nat /\ i > 0
    BY <1>3 DEF ListAt
  <1>9. ASSUME NEW i, NEW k, NEW x
        PROVE  JobAt(i, k, x)' <=>
                 JobAt(i, k, x) \/ (i \in Nat /\ i > n /\ ListAt(p, i - n, k, x))
    <2>1. CASE i \in 1..n
      BY <1>3, <1>5, <2>1 DEF JobAt
    <2>2. CASE i \in (n + 1)..(n + m)
      <3>1. (i - n) \in 1..m /\ i \in Nat /\ i > n /\ i \notin 1..n /\ i \in DOMAIN queue'
        BY <1>3, <1>5, <2>2
      <3>2. queue'[i] = u[i - n]
        BY <1>5, <2>2
      <3>3. Resumes(queue'[i], k, x) <=> Resumes(l[i - n], k, x)
        BY <1>4, <3>1, <3>2 DEF Resumes
      <3>4. ListAt(p, i - n, k, x) <=> Resumes(l[i - n], k, x)
        BY <1>3, <3>1 DEF ListAt
      <3>5. JobAt(i, k, x)' <=> Resumes(queue'[i], k, x)
        BY <3>1 DEF JobAt
      <3>6. ~JobAt(i, k, x)
        BY <1>7, <3>1
      <3> QED BY <3>1, <3>3, <3>4, <3>5, <3>6
    <2>3. CASE i \notin 1..(n + m)
      <3>1. ~JobAt(i, k, x)' /\ ~JobAt(i, k, x)
        BY <1>3, <1>5, <2>3 DEF JobAt
      <3>2. i \in Nat /\ i > n => (i - n) \notin 1..m
        BY <1>3, <2>3
      <3> QED BY <1>3, <3>1, <3>2 DEF ListAt
    <2> QED BY <1>3, <2>1, <2>2, <2>3
  <1>10. \A q, i, k, x : ListAt(q, i, k, x)' <=> ListAt(q, i, k, x) /\ q # p
    BY <1>6 DEF ListAt
  <1> QED BY <1>3, <1>7, <1>8, <1>9, <1>10 DEF n

\* What is stored once is stored once after it.
LEMMA SettleStores ==
  ASSUME IInv, NEW p \in Promises, NEW rejected \in BOOLEAN, NEW v \in Values,
         st[p] = "pending", SettleInternal(p, rejected, v), NEW k, NEW x
  PROVE  StoreKept(k, x)
  <1> DEFINE n == Len(queue)
  <1>0. p # None
    BY PromiseAssumption DEF Values
  <1>1. /\ n \in Nat
        /\ \A i : JobAt(i, k, x) => i \in 1..n
        /\ \A i : ListAt(p, i, k, x) => i \in Nat /\ i > 0
        /\ \A i : JobAt(i, k, x)' <=>
             JobAt(i, k, x) \/ (i \in Nat /\ i > n /\ ListAt(p, i - n, k, x))
        /\ \A q, i : ListAt(q, i, k, x)' <=> ListAt(q, i, k, x) /\ q # p
    BY ReactionsMoved
  <1> HIDE DEF n
  <1>2. CASE \A i : ~ListAt(p, i, k, x)
    <2>1. \A q, i : Stored(q, i, k, x)' <=> Stored(q, i, k, x)
      BY <1>1, <1>2 DEF Stored
    <2> QED BY <2>1, StoreSame
  <1>3. ASSUME NEW i, ListAt(p, i, k, x) PROVE StoreKept(k, x)
    <2>1. Stored(p, i, k, x)
      BY <1>3 DEF Stored
    <2>2. ASSUME OneStored(k, x) PROVE OneStored(k, x)'
      <3>1. \A q2, i2 : Stored(q2, i2, k, x) => q2 = p /\ i2 = i
        BY <2>1, <2>2 DEF OneStored
      <3>2. \A q, j : ListAt(q, j, k, x) <=> q = p /\ j = i
        BY <1>3, <3>1 DEF Stored
      <3>3. \A j : ~JobAt(j, k, x)
        <4>1. \A j : JobAt(j, k, x) => Stored(None, j, k, x)
          BY DEF Stored
        <4> QED BY <1>0, <3>1, <4>1
      <3>4. \A j : JobAt(j, k, x)' <=> j = n + i
        <4>1. i \in Nat /\ i > 0
          BY <1>1, <1>3
        <4>2. \A j : j \in Nat /\ j > n /\ j - n = i <=> j = n + i
          BY <1>1, <4>1
        <4> QED BY <1>1, <3>2, <3>3, <4>2
      <3>5. \A q, j : ~ListAt(q, j, k, x)'
        BY <1>1, <3>2
      <3>6. \A q, j : Stored(q, j, k, x)' <=> q = None /\ j = n + i
        BY <3>4, <3>5 DEF Stored
      <3> QED BY <3>6 DEF OneStored
    <2>3. ~NoneStored(k, x)
      BY <2>1 DEF NoneStored
    <2> QED BY <2>2, <2>3 DEF StoreKept
  <1> QED BY <1>2, <1>3

\* Settling keeps every continuation, and leaves the list of p empty.
LEMMA SettleSteady ==
  ASSUME IInv, Drained, NEW p \in Promises, NEW rejected \in BOOLEAN, NEW v \in Values,
         SettleInternal(p, rejected, v)
  PROVE  /\ Steady /\ StoresKept
         /\ \A q \in Promises \ {p} : st'[q] = st[q]
         /\ st[p] # "none" => st'[p] # "none"
  <1>1. CASE st[p] # "pending"
    <2>1. UNCHANGED <<st, result, reactions, parked, queue>>
      BY <1>1 DEF SettleInternal
    <2>2. Onward /\ \A q \in Promises : Settled(q)' => Settled(q)
      BY <2>1 DEF Onward, Settled
    <2> QED BY <2>1, <2>2, NothingStored
  <1>2. CASE st[p] = "pending"
    <2>1. /\ st' = [st EXCEPT ![p] = IF rejected THEN "rejected" ELSE "fulfilled"]
          /\ reactions' = [reactions EXCEPT ![p] = <<>>]
      BY <1>2 DEF SettleInternal
    <2>2. /\ st'[p] \in {"fulfilled", "rejected"} /\ reactions'[p] = <<>>
          /\ \A q \in Promises \ {p} : st'[q] = st[q] /\ reactions'[q] = reactions[q]
      BY <2>1 DEF IInv, SlotTypes
    <2>3. Onward /\ Drained'
      BY <1>2, <2>2 DEF Onward, Drained, Settled
    <2>4. ListsStay
      BY <2>2 DEF ListsStay, ListAt
    <2>5. StoresKept
      BY <1>2, SettleStores DEF StoresKept
    <2> QED BY <2>2, <2>3, <2>4, <2>5 DEF Steady
  <1> QED BY <1>1, <1>2

\* Subscribing stores r and nothing else: in the list of p while it is pending.
LEMMA SubscribeSteady ==
  ASSUME IInv, Drained, NEW p \in Promises, NEW r, NEW fs, Subscribe(p, r, fs), Grows
  PROVE  /\ Steady
         /\ \A k, x : ~Resumes(r, k, x) => StoreKept(k, x)
         /\ \A k, x : Resumes(r, k, x) /\ NoneStored(k, x) => OneStored(k, x)'
         /\ \A k, x : Resumes(r, k, x) /\ st[p] = "pending" => \E i : ListAt(p, i, k, x)'
  <1>0. p # None
    BY PromiseAssumption DEF Values
  <1>1. Onward /\ \A q \in Promises : Settled(q)' <=> Settled(q)
    BY DEF Grows, Onward, Settled
  <1>2. CASE /\ st[p] = "pending"
             /\ reactions' = [reactions EXCEPT ![p] = Append(reactions[p], r)]
             /\ UNCHANGED queue
    <2>1. PICK m : m = Len(reactions[p]) + 1
      OBVIOUS
    <2>2. /\ \A q, i, k, x : ListAt(q, i, k, x)' <=>
               ListAt(q, i, k, x) \/ (q = p /\ i = m /\ Resumes(r, k, x))
          /\ \A i, k, x : JobAt(i, k, x)' <=> JobAt(i, k, x)
      BY <1>2, <2>1, ReactionAppended DEF JobAt
    <2>3. \A q, i, k, x : Stored(q, i, k, x)' <=>
            Stored(q, i, k, x) \/ (q = p /\ i = m /\ Resumes(r, k, x))
      BY <2>2 DEF Stored
    <2>4. \A k, x : ~Resumes(r, k, x) => StoreKept(k, x)
      BY <2>3, StoreSame
    <2>5. ASSUME NEW k, NEW x, Resumes(r, k, x), NoneStored(k, x) PROVE OneStored(k, x)'
      <3>1. \A q, i : Stored(q, i, k, x)' <=> q = p /\ i = m
        BY <2>3, <2>5 DEF NoneStored
      <3> QED BY <3>1 DEF OneStored
    <2>6. ListsStay
      BY <2>2 DEF ListsStay
    <2>7. Drained'
      <3>1. \A q \in Promises \ {p} : reactions'[q] = reactions[q]
        BY <1>2 DEF IInv, SlotTypes
      <3>2. ~Settled(p)'
        BY <1>1, <1>2 DEF Settled
      <3> QED BY <1>1, <3>1, <3>2 DEF Drained
    <2> QED BY <1>1, <2>2, <2>4, <2>5, <2>6, <2>7 DEF Steady
  <1>3. CASE /\ Settled(p)
             /\ queue' = Append(queue, JobOf(r, st[p] = "rejected", result[p]))
             /\ UNCHANGED reactions
    <2> DEFINE j == JobOf(r, st[p] = "rejected", result[p])
    <2>1. \A k, x : Resumes(j, k, x) <=> Resumes(r, k, x)
      BY DEF JobOf, Resumes
    <2>2. queue' = Append(queue, j)
      BY <1>3
    <2> HIDE DEF j
    <2>3. PICK m : m = Len(queue) + 1
      OBVIOUS
    <2>4. /\ \A i, k, x : JobAt(i, k, x)' <=> JobAt(i, k, x) \/ (i = m /\ Resumes(r, k, x))
          /\ \A q, i, k, x : ListAt(q, i, k, x)' <=> ListAt(q, i, k, x)
      BY <1>3, <2>1, <2>2, <2>3, JobAppended DEF ListAt
    <2>5. \A q, i, k, x : Stored(q, i, k, x)' <=>
            Stored(q, i, k, x) \/ (q = None /\ i = m /\ Resumes(r, k, x))
      BY <2>4 DEF Stored
    <2>6. \A k, x : ~Resumes(r, k, x) => StoreKept(k, x)
      BY <2>5, StoreSame
    <2>7. ASSUME NEW k, NEW x, Resumes(r, k, x), NoneStored(k, x) PROVE OneStored(k, x)'
      <3>1. \A q, i : Stored(q, i, k, x)' <=> q = None /\ i = m
        BY <2>5, <2>7 DEF NoneStored
      <3> QED BY <3>1 DEF OneStored
    <2>8. ListsStay /\ Drained'
      BY <1>1, <1>3, <2>4 DEF ListsStay, Drained
    <2>9. st[p] # "pending"
      BY <1>3 DEF Settled
    <2> QED BY <1>1, <2>6, <2>7, <2>8, <2>9 DEF Steady
  <1> QED BY <1>2, <1>3 DEF Subscribe

-----------------------------------------------------------------------------
(* What a step does to the stack.                                          *)

\* The continuations on the stack fs are those on the stack.
Holding(fs, place, x) ==
  /\ OneFrame(frames, place, x) => OneFrame(fs, place, x)
  /\ NoFrame(frames, place, x) => NoFrame(fs, place, x)
FrameKept(k, x) == Holding(frames', Body(k), x)

\* The frames of the next state.
LEMMA FramesPrimed ==
  ASSUME NEW place, NEW x
  PROVE  /\ OneFrame(frames, place, x)' <=> OneFrame(frames', place, x)
         /\ NoFrame(frames, place, x)' <=> NoFrame(frames', place, x)
  BY DEF OneFrame, NoFrame, FrameAt

\* The same stack.
LEMMA HoldingNow == ASSUME NEW place, NEW x PROVE Holding(frames, place, x)
  BY DEF Holding

\* One more frame.
LEMMA FramePushed ==
  ASSUME NEW fs \in Seq(Frames), NEW f, NEW place, NEW x
  PROVE  /\ f.in # place \/ f.of # x =>
              /\ OneFrame(fs, place, x) => OneFrame(Append(fs, f), place, x)
              /\ NoFrame(fs, place, x) => NoFrame(Append(fs, f), place, x)
         /\ f.in = place /\ f.of = x /\ NoFrame(fs, place, x)
              => OneFrame(Append(fs, f), place, x)
  <1> DEFINE n == Len(fs)
             gs == Append(fs, f)
  <1>1. /\ n \in Nat /\ DOMAIN fs = 1..n /\ DOMAIN gs = 1..(n + 1)
        /\ gs[n + 1] = f
        /\ \A i \in 1..n : gs[i] = fs[i]
    OBVIOUS
  <1> HIDE DEF n, gs
  <1>2. \A i : FrameAt(gs, i, place, x) <=>
          FrameAt(fs, i, place, x) \/ (i = n + 1 /\ f.in = place /\ f.of = x)
    BY <1>1 DEF FrameAt
  <1> QED BY <1>2 DEF OneFrame, NoFrame, gs

\* A call adds one frame,
LEMMA FrameCalled ==
  ASSUME NEW fs \in Seq(Frames), NEW there, NEW p, NEW place, NEW x
  PROVE  /\ there # place \/ p # x =>
              /\ OneFrame(fs, place, x) => OneFrame(Calling(fs, there, p), place, x)
              /\ NoFrame(fs, place, x) => NoFrame(Calling(fs, there, p), place, x)
         /\ there = place /\ p = x /\ NoFrame(fs, place, x)
              => OneFrame(Calling(fs, there, p), place, x)
  <1>1. PICK f : f = [in |-> there, of |-> p, value |-> None]
    OBVIOUS
  <1>2. f.in = there /\ f.of = p /\ Calling(fs, there, p) = Append(fs, f)
    BY <1>1 DEF Calling
  <1> QED BY <1>2, FramePushed

\* ... and so does the read of a `then`, which is no continuation.
LEMMA FrameGot ==
  ASSUME NEW fs \in Seq(Frames), NEW p, NEW v, NEW place, place # "getter", NEW x
  PROVE  /\ OneFrame(fs, place, x) => OneFrame(Getting(fs, p, v), place, x)
         /\ NoFrame(fs, place, x) => NoFrame(Getting(fs, p, v), place, x)
  <1>1. PICK f : f = [in |-> "getter", of |-> p, value |-> v]
    OBVIOUS
  <1>2. f.in = "getter" /\ Getting(fs, p, v) = Append(fs, f)
    BY <1>1 DEF Getting
  <1> QED BY <1>2, FramePushed

\* A return removes the frame that was running.
LEMMA FramePopped ==
  ASSUME IInv, NEW there, Inside(there), NEW place, NEW x
  PROVE  /\ there # place \/ Running # x => Holding(Popped, place, x)
         /\ there = place /\ Running = x =>
              /\ ~NoFrame(frames, place, x)
              /\ OneFrame(frames, place, x) => NoFrame(Popped, place, x)
  <1> DEFINE n == Len(frames)
             gs == Popped
  <1>1. frames \in Seq(Frames) /\ frames # <<>>
    BY DEF IInv, RestTypes, Inside
  <1>2. /\ n \in Nat /\ n > 0 /\ DOMAIN frames = 1..n
        /\ DOMAIN gs = 1..(n - 1)
        /\ \A i \in 1..(n - 1) : gs[i] = frames[i]
    BY <1>1 DEF Popped
  <1>3. frames[n] \in Frames /\ frames[n].in = there /\ frames[n].of = Running
    BY <1>1, <1>2 DEF Inside, Running
  <1> HIDE DEF n, gs
  <1>5. \A i : FrameAt(gs, i, place, x) <=> FrameAt(frames, i, place, x) /\ i # n
    BY <1>2 DEF FrameAt
  <1>6. FrameAt(frames, n, place, x) <=> there = place /\ Running = x
    BY <1>2, <1>3 DEF FrameAt
  <1> QED BY <1>5, <1>6 DEF Holding, OneFrame, NoFrame, gs

-----------------------------------------------------------------------------
(* What a step does to a continuation.                                     *)

FlyKept(k, x)  == Flying(k, x)' <=> Flying(k, x)
Kept(k, x) == /\ Idle(k, x) => Idle(k, x)'
              /\ Waits(k, x) => Waits(k, x)'
              /\ Runs(k, x) => Runs(k, x)'
AllKept    == \A k \in Conts : \A x \in Promises : Kept(k, x)

\* It stays where it is when store, job and stack keep it.
LEMMA KeptWhere ==
  ASSUME NEW k, NEW x, StoreKept(k, x), FlyKept(k, x), FrameKept(k, x)
  PROVE  Kept(k, x)
  BY FramesPrimed DEF Kept, Idle, Waits, Runs, StoreKept, FlyKept, FrameKept, Holding, Body

\* Steps that leave the control state alone, or end a job of another kind.
LEMMA FlyFacts ==
  ASSUME NEW k, NEW x
  PROVE  /\ UNCHANGED control => FlyKept(k, x)
         /\ at = "job" /\ JobDone /\ ~Resumes(job, k, x) => FlyKept(k, x)
         /\ JobDone => ~Flying(k, x)'
         /\ at # "job" /\ at' # "job" => FlyKept(k, x)
  BY DEF control, JobDone, FlyKept, Flying

\* The frames of handlers and bodies are theirs alone.
LEMMA BodyFacts ==
  /\ \A k \in Conts : Body(k) \in {"handler", "body"}
  /\ Body("then") = "handler" /\ Body("await") = "body"
  BY DEF Conts, Body

\* After a resolution the stack is fs, or a `then` is read on top of it.
Asked(fs, p) == frames' = fs \/ \E v : frames' = Getting(fs, p, v)

\* Neither that nor a call of a foreign `then` or the hook moves a continuation.
LEMMA HoldingGot ==
  ASSUME NEW fs \in Seq(Frames), NEW p, NEW v, NEW place, NEW x,
         Holding(fs, place, x), place # "getter"
  PROVE  Holding(Getting(fs, p, v), place, x)
  BY FrameGot DEF Holding

\* ... a call elsewhere.
LEMMA HoldingCalled ==
  ASSUME NEW fs \in Seq(Frames), NEW there, NEW p, NEW place, NEW x,
         Holding(fs, place, x), there # place
  PROVE  Holding(Calling(fs, there, p), place, x)
  BY FrameCalled DEF Holding

-----------------------------------------------------------------------------
(* The invariant follows from what a step keeps.                           *)

\* The derived promises, when nothing ends or begins for them.
LEMMA DerivationsKeep ==
  ASSUME Derivations, \A x \in Promises : Kept("then", x),
         \A x \in Promises : Unresolved(x)' <=> Unresolved(x)
  PROVE  Derivations'
  BY DEF Derivations, Kept

\* The async calls, when none is called, resumed, suspended or completed.
LEMMA CallsKeep ==
  ASSUME Calls, \A x \in Promises : Kept("await", x), UNCHANGED machine, Onward
  PROVE  Calls'
  <1>1. ASSUME NEW x \in Promises
        PROVE  /\ x \in Async /\ machine'[x] = "Executing" => Runs("await", x)'
               /\ x \in Async /\ machine'[x] = "Suspended" => Waits("await", x)'
               /\ x \notin Async \/ machine'[x] \in {"none", "Completed"} => Idle("await", x)'
               /\ x \in Async /\ st'[x] = "none" => machine'[x] = "none"
    BY DEF Calls, Kept, Onward
  <1> QED BY <1>1 DEF Calls

\* What is awaited, when no call begins to wait.
LEMMA AwaitedKeeps ==
  ASSUME Awaited, ListsStay, Onward,
         \A a \in Async, p \in Promises : waiting'[a] = p => waiting[a] = p
  PROVE  Awaited'
  <1>1. ASSUME NEW a \in Async, NEW p \in Promises, waiting'[a] = p
        PROVE  st'[p] # "none" /\ (st'[p] = "pending" => \E i : ListAt(p, i, "await", a)')
    <2>1. waiting[a] = p
      BY <1>1
    <2>2. st[p] # "none" /\ (st[p] = "pending" => \E i : ListAt(p, i, "await", a))
      BY <2>1 DEF Awaited, Exists
    <2>3. st'[p] # "none" /\ (st'[p] = "pending" => st[p] = "pending")
      BY <2>2 DEF Onward
    <2>4. st'[p] = "pending" => \E i : ListAt(p, i, "await", a)'
      BY <2>2, <2>3 DEF ListsStay
    <2> QED BY <2>3, <2>4
  <1> QED BY <1>1 DEF Awaited, Exists

\* A step that keeps every continuation and resolves no derived promise.
LEMMA StepKeeps ==
  ASSUME CInv, Steady, AllKept, UNCHANGED async,
         \A x \in Promises : Unresolved(x)' <=> Unresolved(x)
  PROVE  CInv'
  <1>1. \A x \in Promises : Kept("then", x) /\ Kept("await", x)
    BY DEF AllKept, Conts
  <1>2. Derivations'
    BY <1>1, DerivationsKeep DEF CInv
  <1>3. Calls'
    BY <1>1, CallsKeep DEF CInv, Steady, async
  <1>4. Awaited'
    BY AwaitedKeeps DEF CInv, Steady, async
  <1> QED BY <1>2, <1>3, <1>4 DEF CInv, Steady

\* ... when that of c may begin, move or end.
LEMMA DerivationsStep ==
  ASSUME Derivations, NEW c \in Promises,
         \A x \in Promises \ {c} : Kept("then", x) /\ (Unresolved(x)' <=> Unresolved(x)),
         Unresolved(c)' => Waits("then", c)' \/ Runs("then", c)',
         ~Unresolved(c)' => Idle("then", c)'
  PROVE  Derivations'
  BY DEF Derivations, Kept

\* ... when the machine of c may change.
LEMMA CallsStep ==
  ASSUME Calls, NEW c \in Async, Onward, st'[c] # "none",
         \A x \in Promises \ {c} : Kept("await", x),
         \A x \in Async \ {c} : machine'[x] = machine[x],
         \/ machine'[c] = "Executing" /\ Runs("await", c)'
         \/ machine'[c] = "Suspended" /\ Waits("await", c)'
         \/ machine'[c] = "Completed" /\ Idle("await", c)'
  PROVE  Calls'
  <1>1. ASSUME NEW x \in Promises
        PROVE  /\ x \in Async /\ machine'[x] = "Executing" => Runs("await", x)'
               /\ x \in Async /\ machine'[x] = "Suspended" => Waits("await", x)'
               /\ x \notin Async \/ machine'[x] \in {"none", "Completed"} => Idle("await", x)'
               /\ x \in Async /\ st'[x] = "none" => machine'[x] = "none"
    <2>1. CASE x = c
      BY <2>1
    <2>2. CASE x # c
      <3>1. Kept("await", x) /\ (x \in Async => machine'[x] = machine[x])
        BY <2>2
      <3> QED BY <3>1 DEF Calls, Kept, Onward
    <2> QED BY <2>1, <2>2
  <1> QED BY <1>1 DEF Calls

\* A running handler is a derived promise's, a running body an async call's.
LEMMA WhoRuns ==
  ASSUME IInv, CInv, NEW k \in Conts, Inside(Body(k)), NEW c, c = Running
  PROVE  /\ c \in Promises /\ Runs(k, c)
         /\ k = "then" => Unresolved(c)
         /\ k = "await" => c \in Async /\ machine[c] = "Executing" /\ st[c] # "none"
  <1>1. c \in Promises /\ ~NoFrame(frames, Body(k), c)
    BY FrameFacts, FramePopped
  <1>2. ~Idle(k, c) /\ ~Waits(k, c)
    BY <1>1 DEF Idle, Waits
  <1>3. CASE k = "then"
    BY <1>1, <1>2, <1>3 DEF CInv, Derivations
  <1>4. CASE k = "await"
    <2>1. c \in Async /\ machine[c] \notin {"none", "Completed", "Suspended"}
      BY <1>1, <1>2, <1>4 DEF CInv, Calls
    <2>2. machine[c] = "Executing"
      BY <2>1 DEF IInv, RestTypes, Machines
    <2> QED BY <1>1, <1>4, <2>1, <2>2 DEF CInv, Calls
  <1> QED BY <1>3, <1>4 DEF Conts

\* So is a job in flight.
LEMMA WhoFlies ==
  ASSUME IInv, CInv, at = "job", NEW k \in Conts, job.kind = k, NEW c, c = job.to
  PROVE  /\ c \in Promises /\ Flying(k, c) /\ Waits(k, c) /\ NoneStored(k, c)
         /\ k = "then" => Unresolved(c)
         /\ k = "await" => c \in Async /\ machine[c] = "Suspended" /\ st[c] # "none"
  <1>1. c \in Promises /\ Flying(k, c)
    BY JobFacts DEF Flying, Resumes
  <1>2. ~Idle(k, c) /\ ~Runs(k, c)
    BY <1>1 DEF Idle, Runs
  <1>3. CASE k = "then"
    BY <1>1, <1>2, <1>3 DEF CInv, Derivations, Waits
  <1>4. CASE k = "await"
    <2>1. c \in Async /\ machine[c] \notin {"none", "Completed", "Executing"}
      BY <1>1, <1>2, <1>4 DEF CInv, Calls
    <2>2. machine[c] = "Suspended"
      BY <2>1 DEF IInv, RestTypes, Machines
    <2> QED BY <1>1, <1>4, <2>1, <2>2 DEF CInv, Calls, Waits
  <1> QED BY <1>3, <1>4 DEF Conts

-----------------------------------------------------------------------------
(* Resolving.                                                              *)

\* Only p changes, and it is resolved after.
Only1(p) ==
  /\ \A q \in Promises \ {p} : st'[q] = st[q] /\ (resolved'[q] <=> resolved[q])
  /\ resolved'[p]

\* Nothing is settled or stored.
LEMMA SlotsSteady == ASSUME Drained, UNCHANGED slots PROVE Steady /\ StoresKept
  <1>1. Onward /\ \A q \in Promises : Settled(q)' => Settled(q)
    BY DEF Onward, Settled, slots
  <1> QED BY <1>1, NothingStored DEF slots

\* Resolving with a value, and with the outcome of another promise.
LEMMA ValueSteady ==
  ASSUME IInv, Drained, NEW p \in Promises, NEW v \in Values, NEW fs, ResolveValue(p, v, fs)
  PROVE  /\ Steady /\ StoresKept
         /\ \A q \in Promises \ {p} : st'[q] = st[q]
         /\ Asked(fs, p)
  <1>1. CASE v \notin Objects
    <2>1. SettleInternal(p, FALSE, v) /\ frames' = fs
      BY <1>1 DEF ResolveValue
    <2> QED BY <2>1, SettleSteady DEF Asked
  <1>2. CASE v \in Objects
    <2>1. frames' = Getting(fs, p, v) /\ UNCHANGED slots
      BY <1>2 DEF ResolveValue
    <2> QED BY <2>1, SlotsSteady DEF Asked, slots
  <1> QED BY <1>1, <1>2

\* The outcome of another promise.
LEMMA OutcomeSteady ==
  ASSUME IInv, Drained, NEW p \in Promises, NEW rejected \in BOOLEAN, NEW v \in Values,
         TakeOutcome(p, rejected, v)
  PROVE  /\ Steady /\ StoresKept
         /\ \A q \in Promises \ {p} : st'[q] = st[q]
         /\ Asked(frames, p)
  <1>1. CASE rejected
    <2>1. SettleInternal(p, TRUE, v) /\ UNCHANGED frames
      BY <1>1 DEF TakeOutcome
    <2> QED BY <2>1, SettleSteady DEF Asked
  <1>2. CASE ~rejected
    BY <1>2, ValueSteady DEF TakeOutcome
  <1> QED BY <1>1, <1>2

\* Each outcome of runResolutionSteps keeps what is stored.
LEMMA ResolutionSteady ==
  ASSUME IInv, Drained, NEW p \in Promises, NEW y, NEW fs, RunResolutionSteps(p, y, fs)
  PROVE  /\ Steady /\ StoresKept
         /\ \A q \in Promises \ {p} : st'[q] = st[q]
         /\ Asked(fs, p)
  <1>0. p \in Values /\ <<p>> \in Values
    BY DEF Values, Objects
  <1>1. CASE SettleInternal(p, TRUE, p) /\ frames' = fs
    BY <1>0, <1>1, SettleSteady DEF Asked
  <1>2. ASSUME NEW v \in Values, ResolveValue(p, v, fs)
        PROVE  /\ Steady /\ StoresKept
               /\ \A q \in Promises \ {p} : st'[q] = st[q]
               /\ Asked(fs, p)
    BY <1>2, ValueSteady
  <1>3. CASE /\ queue' = Append(queue, ThenableJob(p, y)) /\ frames' = fs
             /\ UNCHANGED <<st, reactions>>
    BY <1>3, EnqueueSteady DEF Asked
  <1> QED BY <1>0, <1>1, <1>2, <1>3 DEF RunResolutionSteps

\* Resolving and rejecting through the latch.
LEMMA ResolveSteady ==
  ASSUME IInv, Drained, NEW p \in Promises, NEW y, NEW fs, ResolvePromise(p, y, fs)
  PROVE  /\ Steady /\ StoresKept /\ Only1(p)
         /\ Asked(fs, p)
  <1>1. CASE resolved[p]
    <2>1. frames' = fs /\ UNCHANGED <<slots, resolved>>
      BY <1>1 DEF ResolvePromise
    <2> QED BY <1>1, <2>1, SlotsSteady DEF Only1, slots, Asked
  <1>2. CASE ~resolved[p]
    <2>1. TakeLatch(p) /\ RunResolutionSteps(p, y, fs)
      BY <1>2 DEF ResolvePromise
    <2>2. resolved'[p] /\ \A q \in Promises \ {p} : resolved'[q] <=> resolved[q]
      BY <2>1 DEF TakeLatch, IInv, RestTypes
    <2> QED BY <2>1, <2>2, ResolutionSteady DEF Only1
  <1> QED BY <1>1, <1>2

\* Rejecting through the latch.
LEMMA RejectSteady ==
  ASSUME IInv, Drained, NEW p \in Promises, NEW v \in Values, RejectPromise(p, v)
  PROVE  Steady /\ StoresKept /\ Only1(p)
  <1>1. CASE resolved[p]
    <2>1. UNCHANGED <<slots, resolved>>
      BY <1>1 DEF RejectPromise
    <2> QED BY <1>1, <2>1, SlotsSteady DEF Only1, slots
  <1>2. CASE ~resolved[p]
    <2>1. TakeLatch(p) /\ SettleInternal(p, TRUE, v)
      BY <1>2 DEF RejectPromise
    <2>2. resolved'[p] /\ \A q \in Promises \ {p} : resolved'[q] <=> resolved[q]
      BY <2>1 DEF TakeLatch, IInv, RestTypes
    <2> QED BY <2>1, <2>2, SettleSteady DEF Only1
  <1> QED BY <1>1, <1>2

\* The stack fs holds every continuation that the stack does.
Whole(fs) == \A k \in Conts : \A x : Holding(fs, Body(k), x)

\* The stack as it is, and after a return to anything but a handler or a body.
LEMMA WholeFacts ==
  ASSUME IInv
  PROVE  /\ Whole(frames)
         /\ \A place \in {"getter", "then", "hook"} : Inside(place) => Whole(Popped)
  <1>1. Whole(frames)
    BY HoldingNow DEF Whole
  <1>2. ASSUME NEW place \in {"getter", "then", "hook"}, Inside(place) PROVE Whole(Popped)
    BY <1>2, FramePopped, BodyFacts DEF Whole
  <1> QED BY <1>1, <1>2

\* Calls of the others.
LEMMA WholeCalled ==
  ASSUME NEW fs \in Seq(Frames), Whole(fs), NEW place \in {"then", "hook"}, NEW p
  PROVE  Whole(Calling(fs, place, p))
  BY HoldingCalled, BodyFacts DEF Whole

\* A promise no continuation will settle is settled, or resolved on the way.
LEMMA SettlesElsewhere ==
  ASSUME IInv, CInv, NEW p \in Promises, Steady, StoresKept, Only1(p),
         p \notin Derived \/ resolved[p],
         \A k \in Conts : \A x : FlyKept(k, x),
         Whole(frames'), UNCHANGED async
  PROVE  CInv'
  <1>1. AllKept
    BY KeptWhere DEF AllKept, StoresKept, Whole, FrameKept
  <1>2. \A x \in Promises : Unresolved(x)' <=> Unresolved(x)
    BY DEF Unresolved, Only1
  <1> QED BY <1>1, <1>2, StepKeeps

-----------------------------------------------------------------------------
(* The actions.                                                            *)

\* What has an open pair, a getter or an adoption in flight has been resolved.
LEMMA OwedFacts ==
  ASSUME IInv, SInv, NEW p \in Promises
  PROVE  /\ pair[p] = "open" => resolved[p]
         /\ InFlight(p) => resolved[p]
         /\ Inside("getter") /\ Running = p => resolved[p]
  <1>1. Placed(p)
    BY DEF SInv
  <1>2. \A t, q, i : Held(t, q, i, p) => resolved[p]
    BY <1>1, Only DEF Owed
  <1>3. pair[p] = "open" => resolved[p]
    <2>1. pair[p] = "open" => Held(4, None, 0, p)
      BY DEF Held, HasPair
    <2> QED BY <1>2, <2>1
  <1>4. InFlight(p) => resolved[p]
    <2>1. InFlight(p) => Held(2, None, 0, p)
      BY DEF Held
    <2> QED BY <1>2, <2>1
  <1>5. ASSUME Inside("getter"), Running = p PROVE resolved[p]
    <2>1. InGetter(Len(frames), p)
      BY <1>5, Returned
    <2>2. Held(3, None, Len(frames), p)
      BY <2>1 DEF Held
    <2> QED BY <1>2, <2>2
  <1> QED BY <1>3, <1>4, <1>5

\* The stack after a resolution.
LEMMA WholeAfter ==
  ASSUME NEW fs \in Seq(Frames), Whole(fs), NEW p, Asked(fs, p)
  PROVE  Whole(frames')
  <1>1. ASSUME NEW v PROVE Whole(Getting(fs, p, v))
    BY HoldingGot, BodyFacts DEF Whole
  <1> QED BY <1>1 DEF Asked

\* Whatever user code does loses no continuation.
LEMMA UserContinues == ASSUME IInv, SInv, CInv, User PROVE CInv'
  <1>1. frames \in Seq(Frames) /\ Whole(frames)
    BY WholeFacts DEF IInv, RestTypes
  <1>2. Drained
    BY DEF CInv
  <1>3. PICK fs : fs = frames
    OBVIOUS
  <1>4. UNCHANGED control => \A k \in Conts : \A x : FlyKept(k, x)
    BY FlyFacts
  <1>5. ASSUME NEW p \in Made, New(p) PROVE CInv'
    <2>1. /\ p \in Promises /\ p \notin Derived
          /\ st[p] = "none" /\ st' = [st EXCEPT ![p] = "pending"]
          /\ UNCHANGED <<reactions, queue, control, resolved, frames, async>>
      BY <1>5, PromiseAssumption DEF New, Promises
    <2>2. Grows
      BY <2>1, MadeFacts
    <2>3. Onward /\ \A q \in Promises : Settled(q)' => Settled(q)
      BY <2>2 DEF Grows, Onward, Settled
    <2>4. Steady /\ StoresKept
      BY <1>2, <2>1, <2>3, NothingStored
    <2>5. AllKept
      BY <1>1, <1>4, <2>1, <2>4, KeptWhere DEF AllKept, StoresKept, Whole, FrameKept
    <2>6. \A x \in Promises : Unresolved(x)' <=> Unresolved(x)
      BY <2>1 DEF Unresolved, IInv, SlotTypes
    <2> QED BY <2>1, <2>4, <2>5, <2>6, StepKeeps
  <1>6. ASSUME NEW p \in Made, Reject(p) PROVE CInv'
    <2>1. p \in Promises /\ p \notin Derived /\ RejectPromise(p, p)
          /\ UNCHANGED <<control, frames, async>>
      BY <1>6, PromiseAssumption DEF Reject, Promises
    <2>2. Steady /\ StoresKept /\ Only1(p)
      BY <1>2, <2>1, PromiseIsValue, RejectSteady
    <2> QED BY <1>1, <1>4, <2>1, <2>2, SettlesElsewhere
  <1>7. ASSUME NEW p \in Made, NEW y \in Inputs, Resolve(p, y) PROVE CInv'
    <2>1. p \in Promises /\ p \notin Derived /\ ResolvePromise(p, y, fs)
          /\ UNCHANGED <<control, async>>
      BY <1>3, <1>7, PromiseAssumption DEF Resolve, Promises
    <2>2. /\ Steady /\ StoresKept /\ Only1(p)
          /\ Asked(fs, p)
      BY <1>2, <2>1, ResolveSteady
    <2>3. Whole(frames')
      BY <1>1, <1>3, <2>2, WholeAfter
    <2> QED BY <1>4, <2>1, <2>2, <2>3, SettlesElsewhere
  <1>8. ASSUME NEW p \in Promises, PairReject(p) PROVE CInv'
    <2>1. SettleInternal(p, TRUE, p) /\ UNCHANGED <<control, resolved, frames, async>>
      BY <1>8 DEF PairReject
    <2>2. resolved[p]
      BY <1>8, OwedFacts DEF PairReject, TakePairLatch
    <2>3. Steady /\ StoresKept /\ Only1(p)
      BY <1>2, <2>1, <2>2, PromiseIsValue, SettleSteady DEF Only1
    <2> QED BY <1>1, <1>4, <2>1, <2>2, <2>3, SettlesElsewhere
  <1>9. ASSUME NEW p \in Promises, NEW y \in Inputs, PairResolve(p, y) PROVE CInv'
    <2>1. RunResolutionSteps(p, y, fs) /\ UNCHANGED <<control, resolved, async>>
      BY <1>3, <1>9 DEF PairResolve
    <2>2. resolved[p]
      BY <1>9, OwedFacts DEF PairResolve, TakePairLatch
    <2>3. /\ Steady /\ StoresKept /\ Only1(p)
          /\ Asked(fs, p)
      BY <1>2, <2>1, <2>2, ResolutionSteady DEF Only1
    <2>4. Whole(frames')
      BY <1>1, <1>3, <2>3, WholeAfter
    <2> QED BY <1>4, <2>1, <2>2, <2>3, <2>4, SettlesElsewhere
  <1>10. ASSUME NEW p \in Promises, NEW d \in Derived, NEW onF \in BOOLEAN,
                NEW onR \in BOOLEAN, Then(p, d, onF, onR)
         PROVE  CInv'
    <2> DEFINE r == [kind |-> "then", to |-> d, onF |-> onF, onR |-> onR]
    <2>1. d \in Promises
      BY DEF Promises
    <2>2. Grows
      BY <1>10, <2>1, MadeFacts DEF Then
    <2>3. /\ Subscribe(p, r, fs) /\ st[d] = "none" /\ st' = [st EXCEPT ![d] = "pending"]
          /\ UNCHANGED <<control, resolved, async>>
      BY <1>3, <1>10 DEF Then
    <2>4. \A k, x : Resumes(r, k, x) <=> k = "then" /\ x = d
      BY DEF Resumes
    <2> HIDE DEF r
    <2>5. /\ Steady
          /\ \A k, x : ~(k = "then" /\ x = d) => StoreKept(k, x)
          /\ NoneStored("then", d) => OneStored("then", d)'
      BY <1>2, <2>2, <2>3, <2>4, SubscribeSteady
    <2>6. Whole(frames')
      <3>1. frames' = fs \/ frames' = Calling(fs, "hook", p)
        BY <2>3 DEF Subscribe, Handle
      <3> QED BY <1>1, <1>3, <3>1, WholeCalled
    <2>7. \A k \in Conts : \A x : ~(k = "then" /\ x = d) => Kept(k, x)
      BY <1>4, <2>3, <2>5, <2>6, KeptWhere DEF Whole, FrameKept
    <2>8. Waits("then", d)'
      <3>1. Idle("then", d)
        BY <2>1, <2>3 DEF CInv, Derivations, Unresolved
      <3>2. OneStored("then", d)'
        BY <2>5, <3>1 DEF Idle
      <3>3. ~Flying("then", d)' /\ NoFrame(frames', Body("then"), d)
        BY <1>4, <2>3, <2>6, <3>1 DEF Idle, FlyKept, Whole, Holding, Conts
      <3> QED BY <3>2, <3>3, FramesPrimed DEF Waits, Body
    <2>9. Derivations'
      <3>1. \A x \in Promises \ {d} : Kept("then", x) /\ (Unresolved(x)' <=> Unresolved(x))
        BY <2>3, <2>7 DEF Unresolved, Conts, IInv, SlotTypes
      <3>2. Unresolved(d)'
        BY <2>1, <2>3 DEF Unresolved, IInv, SlotTypes, SInv, Latched
      <3> QED BY <2>1, <2>8, <3>1, <3>2, DerivationsStep DEF CInv
    <2>10. Calls'
      BY <2>3, <2>5, <2>7, CallsKeep DEF CInv, Conts, Steady, async
    <2>11. Awaited'
      BY <2>3, <2>5, AwaitedKeeps DEF CInv, Steady, async
    <2> QED BY <2>5, <2>9, <2>10, <2>11 DEF CInv, Steady
  <1>11. ASSUME NEW a \in Async, AsyncCall(a) PROVE CInv'
    <2>1. /\ a \in Promises /\ a \notin Derived
          /\ st[a] = "none" /\ st' = [st EXCEPT ![a] = "pending"]
          /\ machine' = [machine EXCEPT ![a] = "Executing"]
          /\ frames' = Calling(fs, "body", a)
          /\ UNCHANGED <<reactions, queue, control, resolved, waiting>>
      BY <1>3, <1>11, PromiseAssumption DEF AsyncCall, Promises
    <2>2. Grows
      BY <2>1, MadeFacts
    <2>3. Onward /\ \A q \in Promises : Settled(q)' => Settled(q)
      BY <2>2 DEF Grows, Onward, Settled
    <2>4. Steady /\ StoresKept
      BY <1>2, <2>1, <2>3, NothingStored
    <2>5. ASSUME NEW k \in Conts, NEW x, k # "await" \/ x # a PROVE FrameKept(k, x)
      <3>1. Body(k) # "body" \/ x # a
        BY <2>5 DEF Conts, Body
      <3> QED BY <1>1, <1>3, <2>1, <3>1, FrameCalled DEF FrameKept, Holding
    <2>6. \A k \in Conts : \A x : k # "await" \/ x # a => Kept(k, x)
      BY <1>4, <2>1, <2>4, <2>5, KeptWhere DEF StoresKept
    <2>7. Runs("await", a)'
      <3>1. Idle("await", a)
        BY <2>1 DEF CInv, Calls
      <3>2. NoneStored("await", a)' /\ ~Flying("await", a)'
        BY <1>4, <2>1, <2>4, <3>1 DEF Idle, StoresKept, StoreKept, FlyKept, Conts
      <3>3. OneFrame(frames', "body", a)
        BY <1>1, <1>3, <2>1, <3>1, FrameCalled, BodyFacts DEF Idle
      <3> QED BY <3>2, <3>3, FramesPrimed, BodyFacts DEF Runs
    <2>8. Derivations'
      <3>1. \A x \in Promises : Kept("then", x) /\ (Unresolved(x)' <=> Unresolved(x))
        BY <2>1, <2>6 DEF Unresolved, Conts, IInv, SlotTypes
      <3> QED BY <3>1, DerivationsKeep DEF CInv
    <2>9. Calls'
      <3>1. /\ machine'[a] = "Executing" /\ st'[a] # "none"
            /\ \A x \in Async \ {a} : machine'[x] = machine[x]
        BY <2>1 DEF IInv, RestTypes, SlotTypes
      <3> QED BY <2>3, <2>6, <2>7, <3>1, CallsStep DEF CInv, Conts
    <2>10. Awaited'
      BY <2>1, <2>4, AwaitedKeeps DEF CInv, Steady
    <2> QED BY <2>4, <2>8, <2>9, <2>10 DEF CInv, Steady
  <1> QED BY <1>5, <1>6, <1>7, <1>8, <1>9, <1>10, <1>11 DEF User

\* The handler or the body of c has returned to the stack fs.
LEMMA FrameEnds ==
  ASSUME IInv, CInv, NEW k \in Conts, Inside(Body(k)), NEW c, c = Running, NEW fs, fs = Popped
  PROVE  /\ fs \in Seq(Frames)
         /\ NoFrame(fs, Body(k), c)
         /\ \A l \in Conts : \A x : l # k \/ x # c => Holding(fs, Body(l), x)
  <1>1. fs \in Seq(Frames)
    BY FrameFacts
  <1>2. NoFrame(fs, Body(k), c)
    BY WhoRuns, FramePopped DEF Runs
  <1>3. ASSUME NEW l \in Conts, NEW x, l # k \/ x # c PROVE Holding(fs, Body(l), x)
    <2>1. Body(l) # Body(k) \/ Running # x
      BY <1>3 DEF Conts, Body
    <2> QED BY <2>1, FramePopped
  <1> QED BY <1>1, <1>2, <1>3

\* A resolution on top of it, or a call of the hook, leaves that so.
LEMMA FrameEndsCalled ==
  ASSUME NEW k \in Conts, NEW c, NEW fs \in Seq(Frames), NoFrame(fs, Body(k), c),
         \A l \in Conts : \A x : l # k \/ x # c => Holding(fs, Body(l), x),
         NEW p, Asked(fs, p) \/ frames' = Calling(fs, "hook", p)
  PROVE  /\ NoFrame(frames', Body(k), c)
         /\ \A l \in Conts : \A x : l # k \/ x # c => FrameKept(l, x)
  <1>1. NoFrame(frames', Body(k), c)
    BY FrameCalled, FrameGot, BodyFacts DEF Asked
  <1>2. ASSUME NEW l \in Conts, NEW x, l # k \/ x # c PROVE FrameKept(l, x)
    <2>1. Holding(fs, Body(l), x) /\ Body(l) \in {"handler", "body"}
      BY <1>2, BodyFacts
    <2>2. Holding(Calling(fs, "hook", p), Body(l), x)
      BY <2>1, HoldingCalled
    <2>3. \A v : Holding(Getting(fs, p, v), Body(l), x)
      BY <2>1, HoldingGot
    <2> QED BY <2>1, <2>2, <2>3 DEF FrameKept, Asked
  <1> QED BY <1>1, <1>2

\* A handler's end resolves its promise.
LEMMA HandlerEnds ==
  ASSUME IInv, CInv, NEW c \in Promises, Unresolved(c),
         Steady, StoresKept, Only1(c), Idle("then", c)', UNCHANGED async,
         \A l \in Conts : \A x \in Promises : l # "then" \/ x # c => Kept(l, x)
  PROVE  CInv'
  <1>1. \A x \in Promises \ {c} : Kept("then", x) /\ (Unresolved(x)' <=> Unresolved(x))
    BY DEF Conts, Only1, Unresolved
  <1>2. ~Unresolved(c)'
    BY DEF Only1, Unresolved
  <1>3. Derivations'
    BY <1>1, <1>2, DerivationsStep DEF CInv
  <1>4. Calls'
    BY CallsKeep DEF CInv, Conts, Steady, async
  <1>5. Awaited'
    BY AwaitedKeeps DEF CInv, Steady, async
  <1> QED BY <1>3, <1>4, <1>5 DEF CInv, Steady

\* A body's end completes its call.
LEMMA BodyEnds ==
  ASSUME IInv, CInv, NEW c \in Async, st[c] # "none",
         Steady, StoresKept, Only1(c), Idle("await", c)', UNCHANGED waiting,
         machine' = [machine EXCEPT ![c] = "Completed"],
         \A l \in Conts : \A x \in Promises : l # "await" \/ x # c => Kept(l, x)
  PROVE  CInv'
  <1>0. c \in Promises /\ c \notin Derived
    BY PromiseAssumption DEF Promises
  <1>1. \A x \in Promises : Kept("then", x) /\ (Unresolved(x)' <=> Unresolved(x))
    BY <1>0 DEF Conts, Only1, Unresolved
  <1>2. Derivations'
    BY <1>1, DerivationsKeep DEF CInv
  <1>3. Calls'
    <2>1. /\ machine'[c] = "Completed" /\ st'[c] # "none"
          /\ \A x \in Async \ {c} : machine'[x] = machine[x]
      BY <1>0 DEF IInv, RestTypes, Steady, Onward
    <2> QED BY <2>1, CallsStep DEF CInv, Conts, Steady
  <1>4. Awaited'
    BY AwaitedKeeps DEF CInv, Steady
  <1> QED BY <1>2, <1>3, <1>4 DEF CInv, Steady

\* The running continuation of c is over: nothing of it is left.
LEMMA RunOver ==
  ASSUME NEW k \in Conts, NEW c, Runs(k, c), StoreKept(k, c), FlyKept(k, c),
         NoFrame(frames', Body(k), c)
  PROVE  Idle(k, c)'
  <1>1. NoneStored(k, c)' /\ ~Flying(k, c)'
    BY DEF Runs, StoreKept, FlyKept
  <1>2. NoFrame(frames, Body(k), c)'
    BY FramesPrimed DEF Body
  <1> QED BY <1>1, <1>2 DEF Idle

\* So does every way in which user code returns or throws.
LEMMA UserEndsContinues == ASSUME IInv, SInv, CInv, UserEnds PROVE CInv'
  <1>1. PICK c, fs : c = Running /\ fs = Popped
    OBVIOUS
  <1>2. Drained
    BY DEF CInv
  <1>3. UNCHANGED control => \A k \in Conts : \A x : FlyKept(k, x)
    BY FlyFacts
  <1>4. ASSUME NEW place \in {"getter", "then", "hook"}, Inside(place)
        PROVE  c \in Promises /\ fs \in Seq(Frames) /\ Whole(fs)
    BY <1>1, <1>4, FrameFacts, WholeFacts
  <1>5. ASSUME Inside("handler")
        PROVE  /\ c \in Promises /\ Runs("then", c) /\ Unresolved(c)
               /\ fs \in Seq(Frames) /\ NoFrame(fs, "handler", c)
               /\ \A l \in Conts : \A x : l # "then" \/ x # c => Holding(fs, Body(l), x)
    <2>1. "then" \in Conts /\ Body("then") = "handler"
      BY DEF Conts, Body
    <2> QED BY <1>1, <1>5, <2>1, WhoRuns, FrameEnds
  <1>6. ASSUME Inside("body")
        PROVE  /\ c \in Promises /\ Runs("await", c) /\ c \in Async
               /\ machine[c] = "Executing" /\ st[c] # "none"
               /\ fs \in Seq(Frames) /\ NoFrame(fs, "body", c)
               /\ \A l \in Conts : \A x : l # "await" \/ x # c => Holding(fs, Body(l), x)
    <2>1. "await" \in Conts /\ Body("await") = "body"
      BY DEF Conts, Body
    <2> QED BY <1>1, <1>6, <2>1, WhoRuns, FrameEnds
  <1>7. ASSUME NEW p \in Promises, BodyAwaits(p) PROVE CInv'
    <2> DEFINE r == [kind |-> "await", to |-> c, onF |-> TRUE, onR |-> TRUE]
    <2>1. /\ Inside("body") /\ Subscribe(p, r, fs) /\ Exists(p)
          /\ machine' = [machine EXCEPT ![c] = "Suspended"]
          /\ waiting' = [waiting EXCEPT ![c] = p]
          /\ UNCHANGED <<st, control, resolved>>
      BY <1>1, <1>7 DEF BodyAwaits
    <2>2. Grows
      BY <2>1 DEF Grows, IInv, SlotTypes
    <2>3. \A k, x : Resumes(r, k, x) <=> k = "await" /\ x = c
      BY DEF Resumes
    <2> HIDE DEF r
    <2>4. /\ Steady
          /\ \A k, x : ~(k = "await" /\ x = c) => StoreKept(k, x)
          /\ NoneStored("await", c) => OneStored("await", c)'
          /\ st[p] = "pending" => \E i : ListAt(p, i, "await", c)'
      BY <1>2, <2>1, <2>2, <2>3, SubscribeSteady
    <2>5. /\ NoFrame(frames', "body", c)
          /\ \A l \in Conts : \A x : l # "await" \/ x # c => FrameKept(l, x)
      <3>1. Asked(fs, p) \/ frames' = Calling(fs, "hook", p)
        BY <2>1 DEF Subscribe, Handle, Asked
      <3>2. "await" \in Conts /\ Body("await") = "body"
        BY DEF Conts, Body
      <3> QED BY <1>6, <2>1, <3>1, <3>2, FrameEndsCalled
    <2>6. \A l \in Conts : \A x : l # "await" \/ x # c => Kept(l, x)
      BY <1>3, <2>1, <2>4, <2>5, KeptWhere
    <2>7. Waits("await", c)'
      <3>1. OneStored("await", c)' /\ ~Flying("await", c)'
        BY <1>3, <1>6, <2>1, <2>4 DEF Runs, FlyKept, Conts
      <3>2. NoFrame(frames, "body", c)'
        BY <2>5, FramesPrimed
      <3> QED BY <3>1, <3>2 DEF Waits, Body
    <2>8. Derivations'
      <3>1. \A x \in Promises : Kept("then", x) /\ (Unresolved(x)' <=> Unresolved(x))
        BY <2>1, <2>6 DEF Conts, Unresolved
      <3> QED BY <3>1, DerivationsKeep DEF CInv
    <2>9. Calls'
      <3>1. /\ machine'[c] = "Suspended" /\ st'[c] # "none"
            /\ \A x \in Async \ {c} : machine'[x] = machine[x]
        BY <1>6, <2>1 DEF IInv, RestTypes
      <3> QED BY <1>6, <2>1, <2>4, <2>6, <2>7, <3>1, CallsStep DEF CInv, Conts, Steady
    <2>10. Awaited'
      <3>1. ASSUME NEW a \in Async, NEW q \in Promises, waiting'[a] = q
            PROVE  st'[q] # "none" /\ (st'[q] = "pending" => \E i : ListAt(q, i, "await", a)')
        <4>1. CASE a = c
          <5>1. q = p
            BY <1>6, <2>1, <3>1, <4>1 DEF IInv, RestTypes
          <5> QED BY <2>1, <2>4, <4>1, <5>1 DEF Exists
        <4>2. CASE a # c
          <5>1. waiting[a] = q
            BY <2>1, <3>1, <4>2 DEF IInv, RestTypes
          <5>2. st[q] # "none" /\ (st[q] = "pending" => \E i : ListAt(q, i, "await", a))
            BY <5>1 DEF CInv, Awaited, Exists
          <5> QED BY <2>1, <2>4, <5>2 DEF Steady, ListsStay
        <4> QED BY <4>1, <4>2
      <3> QED BY <3>1 DEF Awaited, Exists
    <2> QED BY <2>4, <2>8, <2>9, <2>10 DEF CInv, Steady
  <1>8. ASSUME NEW y \in Inputs, BodyReturns(y) PROVE CInv'
    <2>1. /\ Inside("body") /\ ResolvePromise(c, y, fs)
          /\ machine' = [machine EXCEPT ![c] = "Completed"]
          /\ UNCHANGED <<control, waiting>>
      BY <1>1, <1>8 DEF BodyReturns
    <2>2. /\ Steady /\ StoresKept /\ Only1(c)
          /\ Asked(fs, c)
      BY <1>2, <1>6, <2>1, ResolveSteady
    <2>3. "await" \in Conts /\ Body("await") = "body"
      BY DEF Conts, Body
    <2>4. /\ NoFrame(frames', "body", c)
          /\ \A l \in Conts : \A x : l # "await" \/ x # c => FrameKept(l, x)
      BY <1>6, <2>1, <2>2, <2>3, FrameEndsCalled
    <2>5. \A l \in Conts : \A x : l # "await" \/ x # c => Kept(l, x)
      BY <1>3, <2>1, <2>2, <2>4, KeptWhere DEF StoresKept
    <2>6. Idle("await", c)'
      BY <1>3, <1>6, <2>1, <2>2, <2>3, <2>4, RunOver DEF StoresKept
    <2> QED BY <1>6, <2>1, <2>2, <2>5, <2>6, BodyEnds
  <1>9. ASSUME BodyThrows PROVE CInv'
    <2>1. /\ Inside("body") /\ RejectPromise(c, c) /\ frames' = fs
          /\ machine' = [machine EXCEPT ![c] = "Completed"]
          /\ UNCHANGED <<control, waiting>>
      BY <1>1, <1>9 DEF BodyThrows
    <2>2. Steady /\ StoresKept /\ Only1(c)
      BY <1>2, <1>6, <2>1, PromiseIsValue, RejectSteady
    <2>3. "await" \in Conts /\ Body("await") = "body"
      BY DEF Conts, Body
    <2>4. \A l \in Conts : \A x : l # "await" \/ x # c => Kept(l, x)
      BY <1>3, <1>6, <2>1, <2>2, KeptWhere DEF StoresKept, FrameKept
    <2>5. Idle("await", c)'
      BY <1>3, <1>6, <2>1, <2>2, <2>3, RunOver DEF StoresKept
    <2> QED BY <1>6, <2>1, <2>2, <2>4, <2>5, BodyEnds
  <1>10. ASSUME NEW y \in Inputs, HandlerReturns(y) PROVE CInv'
    <2>1. Inside("handler") /\ ResolvePromise(c, y, fs) /\ UNCHANGED <<control, async>>
      BY <1>1, <1>10 DEF HandlerReturns
    <2>2. /\ Steady /\ StoresKept /\ Only1(c)
          /\ Asked(fs, c)
      BY <1>2, <1>5, <2>1, ResolveSteady
    <2>3. "then" \in Conts /\ Body("then") = "handler"
      BY DEF Conts, Body
    <2>4. /\ NoFrame(frames', "handler", c)
          /\ \A l \in Conts : \A x : l # "then" \/ x # c => FrameKept(l, x)
      BY <1>5, <2>1, <2>2, <2>3, FrameEndsCalled
    <2>5. \A l \in Conts : \A x : l # "then" \/ x # c => Kept(l, x)
      BY <1>3, <2>1, <2>2, <2>4, KeptWhere DEF StoresKept
    <2>6. Idle("then", c)'
      BY <1>3, <1>5, <2>1, <2>2, <2>3, <2>4, RunOver DEF StoresKept
    <2> QED BY <1>5, <2>1, <2>2, <2>5, <2>6, HandlerEnds
  <1>11. ASSUME HandlerThrows PROVE CInv'
    <2>1. /\ Inside("handler") /\ RejectPromise(c, c) /\ frames' = fs
          /\ UNCHANGED <<control, async>>
      BY <1>1, <1>11 DEF HandlerThrows
    <2>2. Steady /\ StoresKept /\ Only1(c)
      BY <1>2, <1>5, <2>1, PromiseIsValue, RejectSteady
    <2>3. "then" \in Conts /\ Body("then") = "handler"
      BY DEF Conts, Body
    <2>4. \A l \in Conts : \A x : l # "then" \/ x # c => Kept(l, x)
      BY <1>3, <1>5, <2>1, <2>2, KeptWhere DEF StoresKept, FrameKept
    <2>5. Idle("then", c)'
      BY <1>3, <1>5, <2>1, <2>2, <2>3, RunOver DEF StoresKept
    <2> QED BY <1>5, <2>1, <2>2, <2>4, <2>5, HandlerEnds
  <1>12. ASSUME NEW got \in {"value", "thenable", "throw"}, GetterReturns(got) PROVE CInv'
    <2>1. /\ Inside("getter") /\ frames' = fs
          /\ UNCHANGED <<control, resolved, async>>
      BY <1>1, <1>12 DEF GetterReturns
    <2>2. c \in Promises /\ Whole(frames') /\ resolved[c]
      BY <1>1, <1>4, <2>1, OwedFacts
    <2>3. /\ Steady /\ StoresKept
          /\ \A q \in Promises \ {c} : st'[q] = st[q]
      <3>0. c \in Values /\ ReadFrom \in Values
        BY <2>1, <2>2, FrameFacts DEF Values
      <3>1. CASE SettleInternal(c, FALSE, ReadFrom) \/ SettleInternal(c, TRUE, c)
        BY <1>2, <2>2, <3>0, <3>1, SettleSteady
      <3>2. CASE /\ queue' = Append(queue, ThenableJob(c, Foreign))
                 /\ UNCHANGED <<st, reactions>>
        BY <1>2, <3>2, EnqueueSteady
      <3> QED BY <1>1, <1>12, <3>1, <3>2 DEF GetterReturns
    <2>4. Only1(c)
      BY <2>1, <2>2, <2>3 DEF Only1
    <2> QED BY <1>3, <2>1, <2>2, <2>3, <2>4, SettlesElsewhere
  <1>13. ASSUME NEW threw \in BOOLEAN, ThenEnds(threw) PROVE CInv'
    <2>1. Inside("then") /\ frames' = fs /\ UNCHANGED <<control, resolved, async>>
      BY <1>1, <1>13 DEF ThenEnds
    <2>2. c \in Promises /\ Whole(frames')
      BY <1>4, <2>1
    <2>3. CASE TakePairLatch(c) /\ SettleInternal(c, TRUE, c)
      <3>1. resolved[c]
        BY <2>2, <2>3, OwedFacts DEF TakePairLatch
      <3>2. Steady /\ StoresKept /\ Only1(c)
        BY <1>2, <2>1, <2>2, <2>3, <3>1, PromiseIsValue, SettleSteady DEF Only1
      <3> QED BY <1>3, <2>1, <2>2, <3>1, <3>2, SettlesElsewhere
    <2>4. CASE UNCHANGED slots
      <3>1. Steady /\ StoresKept
        BY <1>2, <2>4, SlotsSteady
      <3>2. AllKept
        BY <1>3, <2>1, <2>2, <3>1, KeptWhere DEF AllKept, StoresKept, Whole, FrameKept
      <3>3. \A x \in Promises : Unresolved(x)' <=> Unresolved(x)
        BY <2>1, <2>4 DEF Unresolved, slots
      <3> QED BY <2>1, <3>1, <3>2, <3>3, StepKeeps
    <2> QED BY <1>1, <1>13, <2>3, <2>4 DEF ThenEnds
  <1>14. ASSUME HookReturns PROVE CInv'
    <2>1. Inside("hook") /\ frames' = fs /\ UNCHANGED <<slots, control, resolved, async>>
      BY <1>1, <1>14 DEF HookReturns
    <2>2. Steady /\ StoresKept
      BY <1>2, <2>1, SlotsSteady
    <2>3. AllKept
      BY <1>3, <1>4, <2>1, <2>2, KeptWhere DEF AllKept, StoresKept, Whole, FrameKept
    <2>4. \A x \in Promises : Unresolved(x)' <=> Unresolved(x)
      BY <2>1 DEF Unresolved, slots
    <2> QED BY <2>1, <2>2, <2>3, <2>4, StepKeeps
  <1> QED BY <1>7, <1>8, <1>9, <1>10, <1>11, <1>12, <1>13, <1>14 DEF UserEnds

\* The head of the queue is in flight, and the others move up.
LEMMA TakenContinues ==
  ASSUME IInv, TakeJob, NEW k, NEW x, FrameKept(k, x)
  PROVE  Kept(k, x)
  <1>1. /\ queue # <<>> /\ job' = Head(queue) /\ queue' = Tail(queue)
        /\ at = "drain" /\ at' = "job" /\ UNCHANGED reactions
    BY DEF TakeJob, NextJob
  <1>2. PICK n \in Nat : n = Len(queue) /\ n > 0
    BY <1>1 DEF IInv, SlotTypes
  <1>3. /\ DOMAIN queue = 1..n /\ job' = queue[1] /\ 1 \in 1..n
        /\ DOMAIN queue' = 1..(n - 1)
        /\ \A i \in 1..(n - 1) : queue'[i] = queue[i + 1] /\ (i + 1) \in 1..n
    BY <1>1, <1>2 DEF IInv, SlotTypes
  <1>4. (Flying(k, x)' <=> JobAt(1, k, x)) /\ ~Flying(k, x)
    BY <1>1, <1>3 DEF Flying, JobAt
  <1>5. /\ \A i : JobAt(i, k, x)' <=> i \in 1..(n - 1) /\ JobAt(i + 1, k, x)
        /\ \A i : JobAt(i, k, x) => i \in 1..n
    BY <1>2, <1>3 DEF JobAt
  <1>6. \A q, i : ListAt(q, i, k, x)' <=> ListAt(q, i, k, x)
    BY <1>1 DEF ListAt
  <1>7. \A q, i : ListAt(q, i, k, x) => q # None
    BY PromiseAssumption DEF ListAt, Values
  <1>8. ASSUME NoneStored(k, x) PROVE NoneStored(k, x)' /\ ~Flying(k, x)'
    <2>1. \A i : ~JobAt(i, k, x)
      BY <1>8 DEF NoneStored, Stored
    <2>2. \A q, i : ~ListAt(q, i, k, x)
      BY <1>8 DEF NoneStored, Stored
    <2> QED BY <1>4, <1>5, <1>6, <2>1, <2>2 DEF NoneStored, Stored
  <1>9. ASSUME OneStored(k, x)
        PROVE  (OneStored(k, x)' /\ ~Flying(k, x)') \/ (NoneStored(k, x)' /\ Flying(k, x)')
    <2>1. PICK s, m : /\ Stored(s, m, k, x)
                      /\ \A q, i : Stored(q, i, k, x) => q = s /\ i = m
      BY <1>9 DEF OneStored
    <2>2. /\ \A i : JobAt(i, k, x) => s = None /\ i = m
          /\ \A q, i : ListAt(q, i, k, x) => q = s /\ i = m
      BY <2>1 DEF Stored
    <2>3. CASE JobAt(m, k, x) /\ m = 1
      <3>1. Flying(k, x)' /\ \A i : ~JobAt(i, k, x)'
        BY <1>2, <1>4, <1>5, <2>2, <2>3
      <3>2. \A q, i : ~ListAt(q, i, k, x)'
        BY <1>6, <1>7, <2>2, <2>3
      <3> QED BY <3>1, <3>2 DEF NoneStored, Stored
    <2>4. CASE JobAt(m, k, x) /\ m # 1
      <3>1. PICK j : j = m - 1
        OBVIOUS
      <3>2. j \in 1..(n - 1) /\ j + 1 = m
        BY <1>2, <1>5, <2>4, <3>1
      <3>3. ~Flying(k, x)' /\ \A i : JobAt(i, k, x)' <=> i = j
        BY <1>2, <1>4, <1>5, <2>2, <2>4, <3>2
      <3>4. \A q, i : ~ListAt(q, i, k, x)'
        BY <1>6, <1>7, <2>2, <2>4
      <3>5. \A q, i : Stored(q, i, k, x)' <=> q = None /\ i = j
        BY <3>3, <3>4 DEF Stored
      <3> QED BY <3>3, <3>5 DEF OneStored
    <2>5. CASE ~JobAt(m, k, x)
      <3>1. \A i : ~JobAt(i, k, x) /\ ~JobAt(i, k, x)'
        BY <1>5, <2>2, <2>5
      <3>2. ~Flying(k, x)'
        BY <1>4, <3>1
      <3>3. \A q, i : Stored(q, i, k, x)' <=> Stored(q, i, k, x)
        BY <1>6, <3>1 DEF Stored
      <3> QED BY <1>9, <3>2, <3>3 DEF OneStored
    <2> QED BY <2>3, <2>4, <2>5
  <1>10. /\ OneFrame(frames, Body(k), x) => OneFrame(frames, Body(k), x)'
         /\ NoFrame(frames, Body(k), x) => NoFrame(frames, Body(k), x)'
    BY FramesPrimed DEF FrameKept, Holding, Body
  <1> QED BY <1>4, <1>8, <1>9, <1>10 DEF Kept, Idle, Waits, Runs

\* The job in flight for c becomes a frame of its own.
LEMMA RunBegins ==
  ASSUME IInv, CInv, at = "job", NEW k \in Conts, job.kind = k, NEW c, c = job.to,
         JobDone, StoresKept, NEW fs, fs = frames,
         frames' = Calling(fs, Body(k), c)
  PROVE  /\ Runs(k, c)'
         /\ \A l \in Conts : \A x : l # k \/ x # c => Kept(l, x)
  <1>1. Waits(k, c) /\ NoneStored(k, c)
    BY WhoFlies
  <1>2. fs \in Seq(Frames)
    BY DEF IInv, RestTypes
  <1>3. OneFrame(frames', Body(k), c)
    BY <1>1, <1>2, FrameCalled DEF Waits
  <1>4. Runs(k, c)'
    <2>1. NoneStored(k, c)' /\ ~Flying(k, c)'
      BY <1>1, FlyFacts DEF StoresKept, StoreKept
    <2> QED BY <1>3, <2>1, FramesPrimed DEF Runs, Body
  <1>5. ASSUME NEW l \in Conts, NEW x, l # k \/ x # c PROVE Kept(l, x)
    <2>1. ~Resumes(job, l, x)
      BY <1>5 DEF Resumes
    <2>2. FlyKept(l, x)
      BY <2>1, FlyFacts
    <2>3. Body(l) # Body(k) \/ x # c
      BY <1>5 DEF Conts, Body
    <2>4. FrameKept(l, x)
      BY <1>2, <2>3, FrameCalled DEF FrameKept, Holding
    <2> QED BY <2>2, <2>4, KeptWhere DEF StoresKept
  <1> QED BY <1>4, <1>5

\* So does every step of the drain and of the jobs it runs.
LEMMA DrainContinues == ASSUME IInv, SInv, CInv, Drain PROVE CInv'
  <1>1. PICK fs, c : fs = frames /\ c = job.to
    OBVIOUS
  <1>2. fs \in Seq(Frames) /\ Whole(fs) /\ Drained
    BY <1>1, WholeFacts DEF IInv, RestTypes, CInv
  <1>3. ASSUME DrainStarts \/ ReportAll \/ ReportStarts \/ ReportEnds \/ ReportNext PROVE CInv'
    <2>1. at # "job" /\ at' # "job" /\ UNCHANGED <<st, reactions, queue, resolved, async>>
      BY <1>3 DEF DrainStarts, ReportAll, ReportStarts, ReportEnds, ReportNext, slots
    <2>2. frames' = fs \/ \E p : frames' = Calling(fs, "hook", p)
      BY <1>1, <1>3 DEF DrainStarts, ReportAll, ReportStarts, ReportEnds, ReportNext
    <2>3. Whole(frames')
      BY <1>2, <2>2, WholeCalled
    <2>4. Onward /\ \A q \in Promises : Settled(q)' => Settled(q)
      BY <2>1 DEF Onward, Settled
    <2>5. Steady /\ StoresKept
      BY <1>2, <2>1, <2>4, NothingStored
    <2>6. AllKept
      BY <2>1, <2>3, <2>5, FlyFacts, KeptWhere DEF AllKept, StoresKept, Whole, FrameKept
    <2>7. \A x \in Promises : Unresolved(x)' <=> Unresolved(x)
      BY <2>1 DEF Unresolved
    <2> QED BY <2>1, <2>5, <2>6, <2>7, StepKeeps
  <1>4. ASSUME TakeJob PROVE CInv'
    <2>1. UNCHANGED <<st, reactions, resolved, async, frames>>
      BY <1>4 DEF TakeJob
    <2>2. \A k \in Conts : \A x : FrameKept(k, x)
      BY <1>1, <1>2, <2>1 DEF Whole, FrameKept
    <2>3. AllKept
      BY <1>4, <2>2, TakenContinues DEF AllKept
    <2>4. \A q, i, k, x : ListAt(q, i, k, x)' <=> ListAt(q, i, k, x)
      BY <2>1 DEF ListAt
    <2>5. Steady
      BY <1>2, <2>1, <2>4 DEF Steady, ListsStay, Onward, Drained, Settled
    <2>6. \A x \in Promises : Unresolved(x)' <=> Unresolved(x)
      BY <2>1 DEF Unresolved
    <2> QED BY <2>1, <2>3, <2>5, <2>6, StepKeeps
  <1>5. ASSUME PassThrough PROVE CInv'
    <2>1. /\ at = "job" /\ job.kind = "then" /\ JobDone
          /\ UNCHANGED async /\ "then" \in Conts
      BY <1>5 DEF PassThrough, Conts
    <2>2. /\ c \in Promises /\ Waits("then", c) /\ NoneStored("then", c) /\ Unresolved(c)
      BY <1>1, <2>1, WhoFlies
    <2>3. PICK v : v = job.value
      OBVIOUS
    <2>4. PICK rejected \in BOOLEAN : rejected = job.rejected
      BY <2>1, JobFacts
    <2>5. v \in Values
      BY <2>1, <2>3, JobFacts
    <2>6. TakeLatch(c) /\ TakeOutcome(c, rejected, v)
      BY <1>1, <1>5, <2>2, <2>3, <2>4 DEF PassThrough, Unresolved
    <2>7. /\ Steady /\ StoresKept /\ \A q \in Promises \ {c} : st'[q] = st[q]
          /\ Asked(fs, c)
      BY <1>1, <1>2, <2>2, <2>5, <2>6, OutcomeSteady
    <2>11. Whole(frames')
      BY <1>2, <2>7, WholeAfter
    <2>8. Only1(c)
      BY <2>2, <2>6, <2>7 DEF Only1, TakeLatch, IInv, RestTypes
    <2>9. ASSUME NEW l \in Conts, NEW x \in Promises, l # "then" \/ x # c PROVE Kept(l, x)
      <3>1. ~Resumes(job, l, x)
        BY <1>1, <2>1, <2>9 DEF Resumes
      <3>2. FlyKept(l, x)
        BY <2>1, <3>1, FlyFacts
      <3> QED BY <2>7, <2>11, <3>2, KeptWhere DEF StoresKept, Whole, FrameKept
    <2>10. Idle("then", c)'
      <3>1. NoneStored("then", c)' /\ ~Flying("then", c)'
        BY <2>1, <2>2, <2>7, FlyFacts DEF StoresKept, StoreKept
      <3>2. NoFrame(frames', Body("then"), c)
        BY <1>1, <2>1, <2>2, <2>11 DEF Waits, Whole, Holding
      <3>3. NoFrame(frames, Body("then"), c)'
        BY <3>2, FramesPrimed DEF Body
      <3> QED BY <3>1, <3>3 DEF Idle
    <2> QED BY <2>1, <2>2, <2>7, <2>8, <2>9, <2>10, HandlerEnds
  <1>6. ASSUME CallHandler PROVE CInv'
    <2>1. /\ at = "job" /\ job.kind = "then" /\ JobDone /\ "then" \in Conts
          /\ frames' = Calling(fs, Body("then"), c)
          /\ UNCHANGED <<slots, resolved, async>>
      BY <1>1, <1>6, BodyFacts DEF CallHandler, Conts
    <2>2. Steady /\ StoresKept
      BY <1>2, <2>1, SlotsSteady
    <2>3. /\ Runs("then", c)'
          /\ \A l \in Conts : \A x : l # "then" \/ x # c => Kept(l, x)
      BY <1>1, <2>1, <2>2, RunBegins
    <2>4. c \in Promises /\ Unresolved(c)
      BY <1>1, <2>1, WhoFlies
    <2>5. \A x \in Promises : Unresolved(x)' <=> Unresolved(x)
      BY <2>1 DEF Unresolved, slots
    <2>6. Derivations'
      BY <2>1, <2>3, <2>4, <2>5, DerivationsStep DEF CInv
    <2>7. Calls'
      BY <2>1, <2>2, <2>3, CallsKeep DEF CInv, Conts, Steady, async
    <2>8. Awaited'
      BY <2>1, <2>2, AwaitedKeeps DEF CInv, Steady, async
    <2> QED BY <2>2, <2>6, <2>7, <2>8 DEF CInv, Steady
  <1>7. ASSUME ResumeBody PROVE CInv'
    <2>1. /\ at = "job" /\ job.kind = "await" /\ JobDone /\ "await" \in Conts
          /\ frames' = Calling(fs, Body("await"), c)
          /\ machine' = [machine EXCEPT ![c] = "Executing"]
          /\ waiting' = [waiting EXCEPT ![c] = None]
          /\ UNCHANGED <<slots, resolved>>
      BY <1>1, <1>7, BodyFacts DEF ResumeBody, Conts
    <2>2. Steady /\ StoresKept
      BY <1>2, <2>1, SlotsSteady
    <2>3. /\ Runs("await", c)'
          /\ \A l \in Conts : \A x : l # "await" \/ x # c => Kept(l, x)
      BY <1>1, <2>1, <2>2, RunBegins
    <2>4. c \in Async /\ st[c] # "none" /\ c \in Promises
      BY <1>1, <2>1, WhoFlies
    <2>5. \A x \in Promises : Unresolved(x)' <=> Unresolved(x)
      BY <2>1 DEF Unresolved, slots
    <2>6. Derivations'
      BY <2>3, <2>5, DerivationsKeep DEF CInv, Conts
    <2>7. Calls'
      <3>1. /\ machine'[c] = "Executing" /\ st'[c] # "none"
            /\ \A x \in Async \ {c} : machine'[x] = machine[x]
        BY <2>1, <2>4 DEF IInv, RestTypes, slots
      <3> QED BY <2>2, <2>3, <2>4, <3>1, CallsStep DEF CInv, Conts, Steady
    <2>8. Awaited'
      <3>1. \A a \in Async, p \in Promises : waiting'[a] = p => waiting[a] = p
        BY <2>1, PromiseAssumption DEF IInv, RestTypes, Values
      <3> QED BY <2>2, <3>1, AwaitedKeeps DEF CInv, Steady
    <2> QED BY <2>2, <2>6, <2>7, <2>8 DEF CInv, Steady
  <1>8. ASSUME at = "job", JobDone, job.kind \in {"thenable", "pair"}, NEW k \in Conts, NEW x
        PROVE  FlyKept(k, x)
    <2>1. ~Resumes(job, k, x)
      BY <1>8 DEF Resumes, Conts
    <2> QED BY <1>8, <2>1, FlyFacts
  <1>9. ASSUME AdoptedSettled PROVE CInv'
    <2>1. /\ at = "job" /\ job.kind = "pair" /\ JobDone
          /\ UNCHANGED <<resolved, async>>
      BY <1>9 DEF AdoptedSettled
    <2>2. PICK v : v = job.value
      OBVIOUS
    <2>3. PICK rejected \in BOOLEAN : rejected = job.rejected
      BY <2>1, JobFacts
    <2>4. v \in Values /\ c \in Promises
      BY <1>1, <2>1, <2>2, JobFacts
    <2>5. TakeOutcome(c, rejected, v)
      BY <1>1, <1>9, <2>2, <2>3 DEF AdoptedSettled, SettlePair
    <2>6. resolved[c]
      <3>1. InFlight(c)
        BY <1>1, <2>1 DEF InFlight, Carries
      <3> QED BY <2>4, <3>1, OwedFacts
    <2>7. Steady /\ StoresKept /\ Only1(c) /\ Asked(fs, c)
      BY <1>1, <1>2, <2>1, <2>4, <2>5, <2>6, OutcomeSteady DEF Only1
    <2>8. Whole(frames')
      BY <1>2, <2>7, WholeAfter
    <2> QED BY <1>8, <2>1, <2>4, <2>6, <2>7, <2>8, SettlesElsewhere
  <1>10. ASSUME AdoptPromise PROVE CInv'
    <2> DEFINE r == [kind |-> "pair", to |-> c, onF |-> TRUE, onR |-> TRUE]
    <2>1. PICK v : v = job.value
      OBVIOUS
    <2>2. /\ at = "job" /\ job.kind = "thenable" /\ v \in Promises /\ JobDone
          /\ Subscribe(v, r, fs) /\ UNCHANGED <<st, resolved, async>>
      BY <1>1, <1>10, <2>1 DEF AdoptPromise
    <2>3. \A k \in Conts : \A x : ~Resumes(r, k, x)
      BY DEF Resumes, Conts
    <2> HIDE DEF r
    <2>4. Grows
      BY <2>2 DEF Grows, IInv, SlotTypes
    <2>5. Steady /\ StoresKept
      BY <1>2, <2>2, <2>3, <2>4, SubscribeSteady DEF StoresKept
    <2>6. Whole(frames')
      <3>1. frames' = fs \/ frames' = Calling(fs, "hook", v)
        BY <2>2 DEF Subscribe, Handle
      <3> QED BY <1>2, <3>1, WholeCalled
    <2>7. AllKept
      BY <1>8, <2>2, <2>5, <2>6, KeptWhere DEF AllKept, StoresKept, Whole, FrameKept
    <2>8. \A x \in Promises : Unresolved(x)' <=> Unresolved(x)
      BY <2>2 DEF Unresolved
    <2> QED BY <2>2, <2>5, <2>7, <2>8, StepKeeps
  <1>11. ASSUME CallForeignThen PROVE CInv'
    <2>1. /\ at = "job" /\ job.kind = "thenable" /\ JobDone
          /\ frames' = Calling(fs, "then", c) /\ UNCHANGED <<slots, resolved, async>>
      BY <1>1, <1>11 DEF CallForeignThen
    <2>2. Steady /\ StoresKept
      BY <1>2, <2>1, SlotsSteady
    <2>3. Whole(frames')
      BY <1>2, <2>1, WholeCalled
    <2>4. AllKept
      BY <1>8, <2>1, <2>2, <2>3, KeptWhere DEF AllKept, StoresKept, Whole, FrameKept
    <2>5. \A x \in Promises : Unresolved(x)' <=> Unresolved(x)
      BY <2>1 DEF Unresolved, slots
    <2> QED BY <2>1, <2>2, <2>4, <2>5, StepKeeps
  <1> QED BY <1>3, <1>4, <1>5, <1>6, <1>7, <1>9, <1>10, <1>11 DEF Drain

-----------------------------------------------------------------------------
(* No continuation is lost.                                                *)

\* At the start there is nothing to continue.
LEMMA InitContinues == ASSUME Init PROVE CInv
  <1>1. /\ \A p \in Promises : st[p] = "none" /\ reactions[p] = <<>> /\ DOMAIN reactions[p] = {}
        /\ \A a \in Async : machine[a] = "none" /\ waiting[a] = None
        /\ DOMAIN queue = {} /\ DOMAIN frames = {} /\ at = "script"
    BY DEF Init, Promises
  <1>2. \A k, x : NoneStored(k, x) /\ ~Flying(k, x) /\ NoFrame(frames, Body(k), x)
    BY <1>1 DEF NoneStored, Stored, JobAt, ListAt, Flying, NoFrame, FrameAt
  <1>3. \A k, x : Idle(k, x)
    BY <1>2 DEF Idle
  <1>4. Derivations /\ Calls /\ Drained
    BY <1>1, <1>3 DEF Derivations, Unresolved, Calls, Drained
  <1>5. Awaited
    BY <1>1, PromiseAssumption DEF Awaited, Values
  <1> QED BY <1>4, <1>5 DEF CInv

\* A step that changes nothing.
LEMMA StutterContinues == ASSUME IInv, CInv, UNCHANGED vars PROVE CInv'
  <1>1. UNCHANGED <<slots, control, resolved, frames, async>>
    BY DEF vars
  <1>2. Steady /\ StoresKept
    BY <1>1, SlotsSteady DEF CInv
  <1>3. Whole(frames')
    BY <1>1, WholeFacts
  <1>4. AllKept
    BY <1>1, <1>2, <1>3, FlyFacts, KeptWhere DEF AllKept, StoresKept, Whole, FrameKept
  <1>5. \A x \in Promises : Unresolved(x)' <=> Unresolved(x)
    BY <1>1 DEF Unresolved, slots
  <1> QED BY <1>1, <1>2, <1>4, <1>5, StepKeeps

\* The three inductive invariants hold of every behaviour.
LEMMA Continues == Spec => [](IInv /\ SInv /\ CInv)
  <1>1. Init => CInv
    BY InitContinues
  <1>2. IInv /\ SInv /\ CInv /\ [Next]_vars => CInv'
    BY UserContinues, UserEndsContinues, DrainContinues, StutterContinues DEF Next
  <1> QED BY <1>1, <1>2, OnePlaceEach, PTL DEF Spec

\* The places of a continuation are its holders and its frames.
LEMMA HoldersArePlaces ==
  ASSUME NEW k, NEW x, NEW h
  PROVE  h \in Holders({k}, x) <=>
           \/ \E i : h = <<"queue", i>> /\ JobAt(i, k, x)
           \/ \E q, i : h = <<q, i>> /\ ListAt(q, i, k, x)
           \/ h = <<"job", 1>> /\ Flying(k, x)
  BY DEF Holders, JobAt, ListAt, Flying, Resumes

\* A stored or flying continuation is one holder, any other none.
LEMMA HoldersCount ==
  ASSUME NEW k, NEW x
  PROVE  /\ (OneStored(k, x) /\ ~Flying(k, x)) \/ (NoneStored(k, x) /\ Flying(k, x))
              => \E h : Holders({k}, x) = {h}
         /\ NoneStored(k, x) /\ ~Flying(k, x) => Holders({k}, x) = {}
  <1>1. ASSUME NoneStored(k, x)
        PROVE  /\ \A i : ~JobAt(i, k, x)
               /\ \A q, i : ~ListAt(q, i, k, x)
    BY <1>1 DEF NoneStored, Stored
  <1>2. NoneStored(k, x) /\ ~Flying(k, x) => Holders({k}, x) = {}
    BY <1>1, HoldersArePlaces
  <1>3. NoneStored(k, x) /\ Flying(k, x) => Holders({k}, x) = {<<"job", 1>>}
    BY <1>1, HoldersArePlaces
  <1>4. ASSUME OneStored(k, x), ~Flying(k, x) PROVE \E h : Holders({k}, x) = {h}
    <2>1. PICK s, m : /\ Stored(s, m, k, x)
                      /\ \A q, i : Stored(q, i, k, x) => q = s /\ i = m
      BY <1>4 DEF OneStored
    <2>2. /\ \A i : JobAt(i, k, x) => s = None /\ i = m
          /\ \A q, i : ListAt(q, i, k, x) => q = s /\ i = m /\ s # None
      BY <2>1, PromiseAssumption DEF Stored, ListAt, Values
    <2>3. CASE JobAt(m, k, x)
      <3>1. /\ \A i : JobAt(i, k, x) <=> i = m
            /\ \A q, i : ~ListAt(q, i, k, x)
        BY <2>2, <2>3
      <3>2. Holders({k}, x) = {<<"queue", m>>}
        BY <1>4, <3>1, HoldersArePlaces
      <3> QED BY <3>2
    <2>4. CASE ~JobAt(m, k, x)
      <3>1. /\ \A i : ~JobAt(i, k, x)
            /\ \A q, i : ListAt(q, i, k, x) <=> q = s /\ i = m
        BY <2>1, <2>2, <2>4 DEF Stored
      <3>2. Holders({k}, x) = {<<s, m>>}
        BY <1>4, <3>1, HoldersArePlaces
      <3> QED BY <3>2
    <2> QED BY <2>3, <2>4
  <1> QED BY <1>2, <1>3, <1>4

\* So are the frames.
LEMMA FramesCount ==
  ASSUME NEW place, NEW x
  PROVE  /\ OneFrame(frames, place, x) => \E h : FramesOf(place, x) = {h}
         /\ NoFrame(frames, place, x) => FramesOf(place, x) = {}
  <1>1. \A h : h \in FramesOf(place, x) <=> \E i : h = <<place, i>> /\ FrameAt(frames, i, place, x)
    BY DEF FramesOf, FrameAt
  <1>2. NoFrame(frames, place, x) => FramesOf(place, x) = {}
    BY <1>1 DEF NoFrame
  <1>3. ASSUME OneFrame(frames, place, x) PROVE \E h : FramesOf(place, x) = {h}
    <2>1. PICK i : FrameAt(frames, i, place, x)
      BY <1>3 DEF OneFrame
    <2>2. \A j : FrameAt(frames, j, place, x) <=> j = i
      BY <1>3, <2>1 DEF OneFrame
    <2>3. FramesOf(place, x) = {<<place, i>>}
      BY <1>1, <2>2
    <2> QED BY <2>3
  <1> QED BY <1>2, <1>3

\* No continuation is lost or doubled, whatever user code does between the
\* steps of the runtime: a derived promise has its one reaction, job or
\* handler until it is resolved, a suspended async call its one resumption, in
\* the list of what it awaits until that settles, and no other call any.
THEOREM NoContinuationLostHolds == Spec => []NoContinuationLost
  <1>1. IInv /\ CInv => NoContinuationLost
    <2> SUFFICES ASSUME IInv, CInv PROVE NoContinuationLost
      OBVIOUS
    <2>1. ASSUME NEW d \in Derived
          PROVE  Cardinality(Holders({"then"}, d) \union FramesOf("handler", d))
                   = IF st[d] = "pending" /\ ~resolved[d] THEN 1 ELSE 0
      <3>0. d \in Promises /\ Body("then") = "handler"
        BY DEF Promises, Body
      <3>1. CASE Unresolved(d)
        <4>1. Waits("then", d) \/ Runs("then", d)
          BY <3>0, <3>1 DEF CInv, Derivations
        <4>2. \E h : Holders({"then"}, d) \union FramesOf("handler", d) = {h}
          <5>1. CASE Waits("then", d)
            <6>1. FramesOf("handler", d) = {} /\ \E h : Holders({"then"}, d) = {h}
              BY <3>0, <5>1, HoldersCount, FramesCount DEF Waits
            <6> QED BY <6>1
          <5>2. CASE Runs("then", d)
            <6>1. Holders({"then"}, d) = {} /\ \E h : FramesOf("handler", d) = {h}
              BY <3>0, <5>2, HoldersCount, FramesCount DEF Runs
            <6> QED BY <6>1
          <5> QED BY <4>1, <5>1, <5>2
        <4> QED BY <3>1, <4>2, FS_Singleton DEF Unresolved
      <3>2. CASE ~Unresolved(d)
        <4>1. Idle("then", d)
          BY <3>0, <3>2 DEF CInv, Derivations
        <4>2. Holders({"then"}, d) \union FramesOf("handler", d) = {}
          BY <3>0, <4>1, HoldersCount, FramesCount DEF Idle
        <4> QED BY <3>2, <4>2, FS_EmptySet DEF Unresolved
      <3> QED BY <3>1, <3>2
    <2>2. ASSUME NEW a \in Async
          PROVE  Cardinality(Holders({"await"}, a)) = IF machine[a] = "Suspended" THEN 1 ELSE 0
      <3>0. a \in Promises /\ machine[a] \in Machines
        BY DEF Promises, IInv, RestTypes
      <3>1. CASE machine[a] = "Suspended"
        <4>1. \E h : Holders({"await"}, a) = {h}
          BY <3>0, <3>1, HoldersCount DEF CInv, Calls, Waits
        <4> QED BY <3>1, <4>1, FS_Singleton
      <3>2. CASE machine[a] # "Suspended"
        <4>1. Idle("await", a) \/ Runs("await", a)
          BY <3>0, <3>2 DEF CInv, Calls, Machines
        <4>2. Holders({"await"}, a) = {}
          BY <4>1, HoldersCount DEF Idle, Runs
        <4> QED BY <3>2, <4>2, FS_EmptySet
      <3> QED BY <3>1, <3>2
    <2>3. ASSUME NEW a \in Async, NEW p \in Promises, waiting[a] = p, st[p] = "pending"
          PROVE  \E h \in Holders({"await"}, a) : h[1] = p
      <3>1. PICK i : ListAt(p, i, "await", a)
        BY <2>3 DEF CInv, Awaited
      <3>2. <<p, i>> \in Holders({"await"}, a) /\ <<p, i>>[1] = p
        BY <3>1, HoldersArePlaces
      <3> QED BY <3>2
    <2>4. \A p \in Promises : Settled(p) => reactions[p] = <<>>
      BY DEF CInv, Drained
    <2> QED BY <2>1, <2>2, <2>3, <2>4 DEF NoContinuationLost
  <1> QED BY <1>1, Continues, PTL

-----------------------------------------------------------------------------
(* Adoptions.                                                              *)

\* What a job says of the adoption it is part of: a thenable job names the
\* adopted promise, the job of a pair carries its outcome.
Tells(j, ad, s, res) ==
  /\ j.kind = "thenable" => ad[j.to] = (IF j.value = Foreign THEN None ELSE j.value)
  /\ j.kind = "pair" => /\ ad[j.to] \in Promises
                        /\ s[ad[j.to]] = (IF j.rejected THEN "rejected" ELSE "fulfilled")
                        /\ res[ad[j.to]] = j.value

QueueTells  == \A i \in DOMAIN queue : Tells(queue[i], adopts, st, result)
FlightTells == at = "job" => Tells(job, adopts, st, result)
ListsTell   == \A q \in Promises : \A i \in DOMAIN reactions[q] :
                 reactions[q][i].kind = "pair" => adopts[reactions[q][i].to] = q

\* A getter for a promise that adopts another reads the `then` of the value
\* the adopted promise was fulfilled with.
FramesTell(fs, ad, s, res) ==
  \A i \in DOMAIN fs :
    fs[i].in = "getter" /\ ad[fs[i].of] # None =>
      s[ad[fs[i].of]] = "fulfilled" /\ res[ad[fs[i].of]] = fs[i].value
Told(fs)    == FramesTell(fs, adopts, st, result)
GettersTell == Told(frames)

\* A promise not yet resolved, or left to a foreign thenable, adopts nothing.
FreshTells  == \A p \in Promises : HasPair(p) \/ ~resolved[p] => adopts[p] = None

AInv == QueueTells /\ FlightTells /\ ListsTell /\ GettersTell /\ FreshTells /\ AdoptsOutcome

\* A settled promise stays as it is.
Fixed == \A q \in Promises : Settled(q) => st'[q] = st[q] /\ result'[q] = result[q]

\* What a job says stays true.
LEMMA TellsKeeps ==
  ASSUME IInv, Fixed, NEW j, Tells(j, adopts, st, result),
         j.kind \in {"thenable", "pair"} => adopts'[j.to] = adopts[j.to]
  PROVE  Tells(j, adopts', st', result')
  <1>1. CASE j.kind = "pair"
    <2>1. adopts[j.to] \in Promises /\ Settled(adopts[j.to])
      BY <1>1 DEF Tells, Settled
    <2> QED BY <1>1, <2>1 DEF Tells, Fixed
  <1>2. CASE j.kind # "pair"
    BY <1>2 DEF Tells
  <1> QED BY <1>1, <1>2

\* Frames say the same after a step that settles and adopts nothing for them.
LEMMA ToldKeeps ==
  ASSUME IInv, Fixed, NEW fs \in Seq(Frames), Told(fs),
         \A i : \A q \in Promises : GetterIn(fs, i, q) => adopts'[q] = adopts[q]
  PROVE  FramesTell(fs, adopts', st', result')
  <1> SUFFICES ASSUME NEW i \in DOMAIN fs, fs[i].in = "getter", adopts'[fs[i].of] # None
               PROVE  /\ st'[adopts'[fs[i].of]] = "fulfilled"
                      /\ result'[adopts'[fs[i].of]] = fs[i].value
    BY DEF FramesTell
  <1>1. PICK q, v : q = fs[i].of /\ v = fs[i].value
    OBVIOUS
  <1>2. fs[i] \in Frames
    OBVIOUS
  <1>3. q \in Promises
    BY <1>1, <1>2 DEF Frames
  <1>4. adopts'[q] = adopts[q] /\ adopts[q] # None
    BY <1>1, <1>3 DEF GetterIn
  <1>5. adopts[q] \in Promises
    BY <1>3, <1>4 DEF IInv, RestTypes
  <1>6. st[adopts[q]] = "fulfilled" /\ result[adopts[q]] = v
    BY <1>1, <1>4 DEF Told, FramesTell
  <1>7. st'[adopts[q]] = "fulfilled" /\ result'[adopts[q]] = v
    BY <1>5, <1>6 DEF Fixed, Settled
  <1> QED BY <1>1, <1>4, <1>7

\* One more frame, the read of the `then` of what a promise adopts included.
LEMMA ToldPushed ==
  ASSUME NEW fs \in Seq(Frames), NEW f \in Frames, NEW ad, NEW s, NEW res,
         FramesTell(fs, ad, s, res),
         f.in = "getter" /\ ad[f.of] # None =>
           s[ad[f.of]] = "fulfilled" /\ res[ad[f.of]] = f.value
  PROVE  FramesTell(Append(fs, f), ad, s, res)
  <1>1. \A i \in DOMAIN Append(fs, f) :
          (i \in DOMAIN fs /\ Append(fs, f)[i] = fs[i]) \/ Append(fs, f)[i] = f
    OBVIOUS
  <1> QED BY <1>1 DEF FramesTell

\* A call of user code says nothing.
LEMMA ToldCalled ==
  ASSUME NEW fs \in Seq(Frames), NEW p \in Promises, Told(fs),
         NEW place \in {"handler", "then", "body", "hook"}
  PROVE  Told(Calling(fs, place, p))
  <1>1. PICK f : f = [in |-> place, of |-> p, value |-> None]
    OBVIOUS
  <1>2. f \in Frames /\ f.in = place /\ Calling(fs, place, p) = Append(fs, f)
    BY <1>1 DEF Frames, Calling
  <1>3. f.in # "getter"
    BY <1>2
  <1> QED BY <1>2, <1>3, ToldPushed DEF Told

\* A return: what the frames left say, and what the getter's said.
LEMMA ToldPopped ==
  ASSUME IInv, AInv, NEW place, Inside(place)
  PROVE  /\ Told(Popped)
         /\ place = "getter" /\ adopts[Running] # None =>
              st[adopts[Running]] = "fulfilled" /\ result[adopts[Running]] = ReadFrom
  <1> DEFINE n == Len(frames)
  <1>1. frames \in Seq(Frames) /\ frames # <<>>
    BY DEF IInv, RestTypes, Inside
  <1>2. /\ n \in Nat /\ n > 0 /\ DOMAIN frames = 1..n
        /\ DOMAIN Popped = 1..(n - 1)
        /\ \A i \in 1..(n - 1) : Popped[i] = frames[i]
    BY <1>1 DEF Popped
  <1>3. frames[n].in = place /\ frames[n].of = Running /\ frames[n].value = ReadFrom
    BY DEF Inside, Running, ReadFrom
  <1> HIDE DEF n
  <1>4. n \in DOMAIN frames /\ DOMAIN Popped \subseteq DOMAIN frames
    BY <1>2
  <1>5. Told(Popped)
    BY <1>2, <1>4 DEF AInv, GettersTell, Told, FramesTell
  <1>6. ASSUME place = "getter", adopts[Running] # None
        PROVE  st[adopts[Running]] = "fulfilled" /\ result[adopts[Running]] = ReadFrom
    BY <1>3, <1>4, <1>6 DEF AInv, GettersTell, Told, FramesTell
  <1> QED BY <1>5, <1>6

\* The parts of the invariant in the next state.
LEMMA AInvPrimed ==
  ASSUME \A i \in DOMAIN queue' : Tells(queue'[i], adopts', st', result'),
         at' = "job" => Tells(job', adopts', st', result'),
         \A q \in Promises : \A i \in DOMAIN reactions'[q] :
           reactions'[q][i].kind = "pair" => adopts'[reactions'[q][i].to] = q,
         FramesTell(frames', adopts', st', result'),
         \A p \in Promises : HasPair(p)' \/ ~resolved'[p] => adopts'[p] = None,
         \A p \in Promises : adopts'[p] # None /\ Settled(p)' =>
           st'[p] = st'[adopts'[p]] /\ result'[p] = result'[adopts'[p]]
  PROVE  AInv'
  <1>1. QueueTells' /\ FlightTells'
    BY DEF QueueTells, FlightTells, Tells
  <1>2. ListsTell' /\ FreshTells'
    BY DEF ListsTell, FreshTells
  <1>3. GettersTell'
    BY DEF GettersTell, Told, FramesTell
  <1>4. AdoptsOutcome'
    BY DEF AdoptsOutcome
  <1> QED BY <1>1, <1>2, <1>3, <1>4 DEF AInv

\* Steps that neither store, settle nor adopt.
LEMMA Quiet ==
  ASSUME IInv, AInv, UNCHANGED <<reactions, queue, adopts>>, Fixed,
         \A q \in Promises : Settled(q)' => Settled(q),
         at' = "job" => at = "job" /\ job' = job,
         NEW fs \in Seq(Frames), Told(fs), frames' = fs,
         \A q \in Promises : HasPair(q)' \/ ~resolved'[q] => adopts[q] = None
  PROVE  AInv'
  <1>1. \A i \in DOMAIN queue' : Tells(queue'[i], adopts', st', result')
    BY TellsKeeps DEF AInv, QueueTells
  <1>2. at' = "job" => Tells(job', adopts', st', result')
    BY TellsKeeps DEF AInv, FlightTells
  <1>3. \A q \in Promises : \A i \in DOMAIN reactions'[q] :
           reactions'[q][i].kind = "pair" => adopts'[reactions'[q][i].to] = q
    BY DEF AInv, ListsTell
  <1>4. FramesTell(frames', adopts', st', result')
    BY ToldKeeps
  <1>5. ASSUME NEW p \in Promises, adopts'[p] # None, Settled(p)'
        PROVE  st'[p] = st'[adopts'[p]] /\ result'[p] = result'[adopts'[p]]
    <2>1. adopts[p] \in Promises /\ Settled(p)
      BY <1>5 DEF IInv, RestTypes
    <2>2. st[p] = st[adopts[p]] /\ result[p] = result[adopts[p]]
      BY <1>5, <2>1 DEF AInv, AdoptsOutcome
    <2>3. Settled(adopts[p])
      BY <2>1, <2>2 DEF Settled
    <2> QED BY <2>1, <2>2, <2>3 DEF Fixed
  <1> QED BY <1>1, <1>2, <1>3, <1>4, <1>5, AInvPrimed

\* The place of p is used up: what is said of the others stays true.
LEMMA ClearedTells ==
  ASSUME IInv, SInv, AInv, NEW p \in Promises, NEW fs \in Seq(Frames), Told(fs),
         Cleared(p, fs), Fixed, \A q \in Promises \ {p} : adopts'[q] = adopts[q]
  PROVE  /\ \A i \in DOMAIN queue : Tells(queue[i], adopts', st', result')
         /\ at' = "job" => Tells(job', adopts', st', result')
         /\ \A q \in Promises : \A i \in DOMAIN reactions[q] :
              reactions[q][i].kind = "pair" => adopts'[reactions[q][i].to] = q
         /\ FramesTell(fs, adopts', st', result')
         /\ \A q \in Promises : HasPair(q)' \/ ~resolved'[q] => adopts'[q] = None
  <1>1. ASSUME NEW i \in DOMAIN queue PROVE Tells(queue[i], adopts', st', result')
    <2>0. queue[i] \in Jobs
      BY DEF IInv, SlotTypes
    <2>1. queue[i].to \in Promises
      BY <2>0 DEF Jobs
    <2>2. queue[i].kind \in {"thenable", "pair"} => queue[i].to # p
      BY DEF Cleared, InQueue, Carries
    <2> QED BY <2>1, <2>2, TellsKeeps DEF AInv, QueueTells
  <1>2. ASSUME at' = "job" PROVE Tells(job', adopts', st', result')
    <2>1. at = "job" /\ job' = job /\ job.to \in Promises
      BY <1>2, JobFacts DEF Cleared
    <2>2. job.kind \in {"thenable", "pair"} => job.to # p
      BY <1>2, <2>1 DEF Cleared, InFlight, Carries
    <2>3. Tells(job, adopts', st', result')
      BY <2>1, <2>2, TellsKeeps DEF AInv, FlightTells
    <2> QED BY <2>1, <2>3
  <1>3. ASSUME NEW q \in Promises, NEW i \in DOMAIN reactions[q], reactions[q][i].kind = "pair"
        PROVE  adopts'[reactions[q][i].to] = q
    <2>0. reactions[q] \in Seq(Reactions)
      BY DEF IInv, SlotTypes
    <2>1. reactions[q][i] \in Reactions
      BY <2>0
    <2>2. reactions[q][i].to \in Promises
      BY <2>1 DEF Reactions
    <2>3. reactions[q][i].to # p
      BY <1>3 DEF Cleared, InList, Carries
    <2> QED BY <1>3, <2>2, <2>3 DEF AInv, ListsTell
  <1>4. FramesTell(fs, adopts', st', result')
    <2>1. \A i : \A q \in Promises : GetterIn(fs, i, q) => q # p
      BY DEF Cleared
    <2> QED BY <2>1, ToldKeeps
  <1>5. \A q \in Promises : HasPair(q)' \/ ~resolved'[q] => adopts'[q] = None
    BY DEF Cleared, AInv, FreshTells
  <1> QED BY <1>1, <1>2, <1>3, <1>4, <1>5

\* What was said of settled promises stays true of those settled before.
LEMMA OutcomesKeep ==
  ASSUME IInv, AInv, Fixed, NEW p, \A q \in Promises \ {p} : adopts'[q] = adopts[q],
         \A q \in Promises \ {p} : Settled(q)' => Settled(q)
  PROVE  \A q \in Promises \ {p} : adopts'[q] # None /\ Settled(q)' =>
           st'[q] = st'[adopts'[q]] /\ result'[q] = result'[adopts'[q]]
  <1> SUFFICES ASSUME NEW q \in Promises \ {p}, adopts[q] # None, Settled(q)
               PROVE  st'[q] = st'[adopts[q]] /\ result'[q] = result'[adopts[q]]
    OBVIOUS
  <1>1. adopts[q] \in Promises /\ st[q] = st[adopts[q]] /\ result[q] = result[adopts[q]]
    BY DEF IInv, RestTypes, AInv, AdoptsOutcome
  <1>2. Settled(adopts[q])
    BY <1>1 DEF Settled
  <1> QED BY <1>1, <1>2 DEF Fixed

\* p is settled, adopting nothing or with the outcome of what it adopted: its
\* reactions become jobs that carry that outcome.
LEMMA SettleTells ==
  ASSUME IInv, IInv', SInv, AInv, NEW p \in Promises, NEW fs \in Seq(Frames), Told(fs),
         Cleared(p, fs), NEW rejected \in BOOLEAN, NEW v \in Values,
         SettleInternal(p, rejected, v), frames' = fs,
         \A q \in Promises \ {p} : adopts'[q] = adopts[q],
         adopts'[p] # None =>
           /\ st[adopts'[p]] = (IF rejected THEN "rejected" ELSE "fulfilled")
           /\ result[adopts'[p]] = v
  PROVE  AInv'
  <1>1. st[p] = "pending"
    BY DEF Cleared
  <1>2. /\ st' = [st EXCEPT ![p] = IF rejected THEN "rejected" ELSE "fulfilled"]
        /\ result' = [result EXCEPT ![p] = v]
        /\ queue' = queue \o Triggered(p, rejected, v)
        /\ reactions' = [reactions EXCEPT ![p] = <<>>]
    BY <1>1 DEF SettleInternal
  <1>3. /\ st'[p] = (IF rejected THEN "rejected" ELSE "fulfilled") /\ result'[p] = v
        /\ \A q \in Promises \ {p} : st'[q] = st[q] /\ result'[q] = result[q]
        /\ DOMAIN reactions'[p] = {}
        /\ \A q \in Promises \ {p} : reactions'[q] = reactions[q]
    BY <1>2 DEF IInv, SlotTypes
  <1>4. Fixed
    BY <1>1, <1>3 DEF Fixed, Settled
  <1>5. /\ \A i \in DOMAIN queue : Tells(queue[i], adopts', st', result')
        /\ at' = "job" => Tells(job', adopts', st', result')
        /\ \A q \in Promises : \A i \in DOMAIN reactions[q] :
             reactions[q][i].kind = "pair" => adopts'[reactions[q][i].to] = q
        /\ FramesTell(fs, adopts', st', result')
        /\ \A q \in Promises : HasPair(q)' \/ ~resolved'[q] => adopts'[q] = None
    BY <1>4, ClearedTells
  <1>6. ASSUME NEW i \in DOMAIN queue' PROVE Tells(queue'[i], adopts', st', result')
    <2> DEFINE l == reactions[p]
               u == Triggered(p, rejected, v)
    <2>1. queue \in Seq(Jobs) /\ l \in Seq(Reactions)
      BY DEF IInv, SlotTypes
    <2>2. \A j \in DOMAIN l : l[j] \in Reactions /\ JobOf(l[j], rejected, v) \in Jobs
      BY <2>1, JobOfType
    <2>3. u \in Seq(Jobs) /\ DOMAIN u = DOMAIN l
          /\ \A j \in DOMAIN l : u[j] = JobOf(l[j], rejected, v)
      BY <2>1, <2>2 DEF Triggered
    <2>4. ASSUME NEW j \in DOMAIN l PROVE Tells(u[j], adopts', st', result')
      <3>0. u[j] = JobOf(l[j], rejected, v)
        BY <2>3
      <3> HIDE DEF u, l
      <3>1. /\ u[j].kind = l[j].kind /\ u[j].to = l[j].to
            /\ u[j].rejected = rejected /\ u[j].value = v
        BY <3>0 DEF JobOf
      <3>2. l[j].kind # "thenable"
        BY <2>2 DEF Reactions
      <3>3. l[j].kind = "pair" => adopts'[l[j].to] = p
        BY <1>5 DEF l
      <3> QED BY <1>3, <3>1, <3>2, <3>3 DEF Tells
    <2> HIDE DEF u, l
    <2>5. (i \in DOMAIN queue /\ queue'[i] = queue[i]) \/ \E j \in DOMAIN u : queue'[i] = u[j]
      <3>1. queue' = queue \o u
        BY <1>2 DEF u
      <3>2. /\ Len(queue) \in Nat /\ DOMAIN queue = 1..Len(queue)
            /\ Len(u) \in Nat /\ DOMAIN u = 1..Len(u)
        BY <2>1, <2>3
      <3>3. /\ i \in 1..(Len(queue) + Len(u))
            /\ i \in 1..Len(queue) => queue'[i] = queue[i]
            /\ i \in (Len(queue) + 1)..(Len(queue) + Len(u)) => queue'[i] = u[i - Len(queue)]
        BY <2>1, <2>3, <3>1, Concatenated
      <3>4. CASE i \in 1..Len(queue)
        BY <3>2, <3>3, <3>4
      <3>5. CASE i \notin 1..Len(queue)
        <4>1. i \in (Len(queue) + 1)..(Len(queue) + Len(u)) /\ i - Len(queue) \in DOMAIN u
          BY <3>2, <3>3, <3>5
        <4> QED BY <3>3, <4>1
      <3> QED BY <3>4, <3>5
    <2> QED BY <1>5, <2>3, <2>4, <2>5
  <1>7. \A q \in Promises : \A i \in DOMAIN reactions'[q] :
          reactions'[q][i].kind = "pair" => adopts'[reactions'[q][i].to] = q
    BY <1>3, <1>5
  <1>8. ASSUME NEW q \in Promises, adopts'[q] # None, Settled(q)'
        PROVE  st'[q] = st'[adopts'[q]] /\ result'[q] = result'[adopts'[q]]
    <2>1. CASE q = p
      <3>1. adopts'[p] \in Promises /\ adopts'[p] # p
        BY <1>1, <1>8, <2>1 DEF IInv, RestTypes
      <3> QED BY <1>3, <1>8, <2>1, <3>1
    <2>2. CASE q # p
      <3>1. \A y \in Promises \ {p} : Settled(y)' => Settled(y)
        BY <1>3 DEF Settled
      <3> QED BY <1>4, <1>8, <2>2, <3>1, OutcomesKeep
    <2> QED BY <2>1, <2>2
  <1> QED BY <1>5, <1>6, <1>7, <1>8, AInvPrimed

\* p is left to a thenable's job, which names what p adopts.
LEMMA EnqueueTells ==
  ASSUME IInv, SInv, AInv, NEW p \in Promises, NEW fs \in Seq(Frames), Told(fs),
         Cleared(p, fs), NEW y,
         queue' = Append(queue, ThenableJob(p, y)), frames' = fs,
         UNCHANGED <<st, result, reactions>>,
         \A q \in Promises \ {p} : adopts'[q] = adopts[q],
         adopts'[p] = IF y = Foreign THEN None ELSE y
  PROVE  AInv'
  <1>1. Fixed /\ \A q \in Promises : Settled(q)' => Settled(q)
    BY DEF Fixed, Settled
  <1>2. /\ \A i \in DOMAIN queue : Tells(queue[i], adopts', st', result')
        /\ at' = "job" => Tells(job', adopts', st', result')
        /\ \A q \in Promises : \A i \in DOMAIN reactions[q] :
             reactions[q][i].kind = "pair" => adopts'[reactions[q][i].to] = q
        /\ FramesTell(fs, adopts', st', result')
        /\ \A q \in Promises : HasPair(q)' \/ ~resolved'[q] => adopts'[q] = None
    BY <1>1, ClearedTells
  <1>3. ASSUME NEW i \in DOMAIN queue' PROVE Tells(queue'[i], adopts', st', result')
    <2> DEFINE j == ThenableJob(p, y)
    <2>1. Tells(j, adopts', st', result')
      BY DEF ThenableJob, Tells
    <2>2. queue \in Seq(Jobs)
      BY DEF IInv, SlotTypes
    <2> HIDE DEF j
    <2>3. (i \in DOMAIN queue /\ queue'[i] = queue[i]) \/ queue'[i] = j
      BY <2>2 DEF j
    <2> QED BY <1>2, <2>1, <2>3
  <1>4. \A q \in Promises : adopts'[q] # None /\ Settled(q)' =>
          st'[q] = st'[adopts'[q]] /\ result'[q] = result'[adopts'[q]]
    <2>1. ~Settled(p)'
      BY DEF Cleared, Settled
    <2>2. \A q \in Promises \ {p} : adopts'[q] # None /\ Settled(q)' =>
            st'[q] = st'[adopts'[q]] /\ result'[q] = result'[adopts'[q]]
      BY <1>1, OutcomesKeep
    <2> QED BY <2>1, <2>2
  <1> QED BY <1>2, <1>3, <1>4, AInvPrimed

\* p is left to the read of a `then`, of what p adopts if it does.
LEMMA GetterTells ==
  ASSUME IInv, SInv, AInv, NEW p \in Promises, NEW fs \in Seq(Frames), Told(fs),
         Cleared(p, fs), NEW v \in Objects, frames' = Getting(fs, p, v),
         UNCHANGED <<slots, adopts>>,
         adopts[p] # None => st[adopts[p]] = "fulfilled" /\ result[adopts[p]] = v
  PROVE  AInv'
  <1>1. /\ Fixed /\ UNCHANGED <<st, result, reactions, queue>>
        /\ \A q \in Promises : Settled(q)' => Settled(q)
    BY DEF Fixed, Settled, slots
  <1>2. /\ \A i \in DOMAIN queue : Tells(queue[i], adopts', st', result')
        /\ at' = "job" => Tells(job', adopts', st', result')
        /\ \A q \in Promises : \A i \in DOMAIN reactions[q] :
             reactions[q][i].kind = "pair" => adopts'[reactions[q][i].to] = q
        /\ FramesTell(fs, adopts', st', result')
        /\ \A q \in Promises : HasPair(q)' \/ ~resolved'[q] => adopts'[q] = None
    BY <1>1, ClearedTells
  <1>3. FramesTell(frames', adopts', st', result')
    <2>1. PICK f : f = [in |-> "getter", of |-> p, value |-> v]
      OBVIOUS
    <2>2. f \in Frames /\ f.of = p /\ f.value = v /\ frames' = Append(fs, f)
      BY <2>1 DEF Frames, Getting
    <2> QED BY <1>1, <1>2, <2>2, ToldPushed
  <1>4. \A q \in Promises : adopts'[q] # None /\ Settled(q)' =>
          st'[q] = st'[adopts'[q]] /\ result'[q] = result'[adopts'[q]]
    <2>1. ~Settled(p)'
      BY <1>1 DEF Cleared, Settled
    <2>2. \A q \in Promises \ {p} : adopts'[q] # None /\ Settled(q)' =>
            st'[q] = st'[adopts'[q]] /\ result'[q] = result'[adopts'[q]]
      BY <1>1, OutcomesKeep
    <2> QED BY <2>1, <2>2
  <1> QED BY <1>1, <1>2, <1>3, <1>4, AInvPrimed

\* p meets a value, that of what it adopts if it does.
LEMMA ValueTells ==
  ASSUME IInv, IInv', SInv, AInv, NEW p \in Promises, NEW fs \in Seq(Frames), Told(fs),
         Cleared(p, fs), NEW v \in Values, ResolveValue(p, v, fs), UNCHANGED adopts,
         adopts[p] # None => st[adopts[p]] = "fulfilled" /\ result[adopts[p]] = v
  PROVE  AInv'
  <1>1. CASE v \in Objects
    BY <1>1, GetterTells DEF ResolveValue
  <1>2. CASE v \notin Objects
    <2>1. SettleInternal(p, FALSE, v) /\ frames' = fs
      BY <1>2 DEF ResolveValue
    <2> QED BY <2>1, SettleTells
  <1> QED BY <1>1, <1>2

\* p meets the outcome of another promise, the one it adopts if it does.
LEMMA OutcomeTells ==
  ASSUME IInv, IInv', SInv, AInv, NEW p \in Promises, NEW fs \in Seq(Frames), fs = frames,
         Told(fs), Cleared(p, fs), NEW rejected \in BOOLEAN, NEW v \in Values,
         TakeOutcome(p, rejected, v), UNCHANGED adopts,
         adopts[p] # None =>
           /\ st[adopts[p]] = (IF rejected THEN "rejected" ELSE "fulfilled")
           /\ result[adopts[p]] = v
  PROVE  AInv'
  <1>1. CASE rejected
    <2>1. SettleInternal(p, rejected, v) /\ frames' = fs
      BY <1>1 DEF TakeOutcome
    <2> QED BY <2>1, SettleTells
  <1>2. CASE ~rejected
    <2>1. ResolveValue(p, v, fs)
      BY <1>2 DEF TakeOutcome
    <2> QED BY <1>2, <2>1, ValueTells
  <1> QED BY <1>1, <1>2

\* Each outcome of runResolutionSteps for a promise that adopts nothing yet.
LEMMA ResolutionTells ==
  ASSUME IInv, IInv', SInv, AInv, NEW p \in Promises, NEW y, NEW fs \in Seq(Frames),
         Told(fs), Cleared(p, fs), adopts[p] = None, RunResolutionSteps(p, y, fs)
  PROVE  AInv'
  <1>0. p \in Values /\ <<p>> \in Values
    BY DEF Values, Objects
  <1>1. CASE SettleInternal(p, TRUE, p) /\ frames' = fs /\ UNCHANGED adopts
    BY <1>0, <1>1, SettleTells
  <1>2. ASSUME NEW v \in Values, ResolveValue(p, v, fs), UNCHANGED adopts PROVE AInv'
    BY <1>2, ValueTells
  <1>3. CASE /\ y \in Promises
             /\ queue' = Append(queue, ThenableJob(p, y))
             /\ adopts' = [adopts EXCEPT ![p] = y]
             /\ frames' = fs /\ UNCHANGED <<st, result, reactions>>
    <2>1. adopts'[p] = y /\ y # Foreign /\ \A q \in Promises \ {p} : adopts'[q] = adopts[q]
      BY <1>3, PromiseAssumption DEF IInv, RestTypes, Values
    <2> QED BY <1>3, <2>1, EnqueueTells
  <1> QED BY <1>0, <1>1, <1>2, <1>3 DEF RunResolutionSteps

\* Subscribing: the reaction of a pair is for a promise that adopts p.
LEMMA SubscribeTells ==
  ASSUME IInv, AInv, NEW p \in Promises, NEW r, NEW fs \in Seq(Frames), Subscribe(p, r, fs),
         Grows, UNCHANGED <<adopts, resolved, pair>>,
         r.kind # "thenable", r.kind = "pair" => adopts[r.to] = p,
         at' = "job" => at = "job" /\ job' = job, Told(fs)
  PROVE  AInv'
  <1>1. result' = result /\ (frames' = fs \/ frames' = Calling(fs, "hook", p))
    BY DEF Subscribe, Handle
  <1>2. Fixed /\ \A q \in Promises : Settled(q)' => Settled(q)
    BY <1>1 DEF Fixed, Grows, Settled
  <1>3. FramesTell(frames', adopts', st', result')
    <2>1. PICK gs \in Seq(Frames) : frames' = gs /\ Told(gs)
      BY <1>1, CallingType, ToldCalled
    <2> QED BY <1>2, <2>1, ToldKeeps
  <1>4. \A q \in Promises : HasPair(q)' \/ ~resolved'[q] => adopts[q] = None
    BY DEF AInv, FreshTells, HasPair
  <1>5. /\ \A i \in DOMAIN queue : Tells(queue[i], adopts', st', result')
        /\ at' = "job" => Tells(job', adopts', st', result')
    BY <1>2, TellsKeeps DEF AInv, QueueTells, FlightTells
  <1>6. \A q \in Promises : \A i \in DOMAIN reactions[q] :
          reactions[q][i].kind = "pair" => adopts[reactions[q][i].to] = q
    BY DEF AInv, ListsTell
  <1>7. \A q \in Promises : adopts'[q] # None /\ Settled(q)' =>
          st'[q] = st'[adopts'[q]] /\ result'[q] = result'[adopts'[q]]
    <2>1. PICK z : z \notin Promises
      BY PromiseAssumption DEF Values
    <2>2. \A q \in Promises \ {z} : adopts'[q] # None /\ Settled(q)' =>
            st'[q] = st'[adopts'[q]] /\ result'[q] = result'[adopts'[q]]
      BY <1>2, OutcomesKeep
    <2> QED BY <2>1, <2>2
  <1>8. CASE /\ reactions' = [reactions EXCEPT ![p] = Append(reactions[p], r)]
             /\ UNCHANGED queue
    <2>1. ASSUME NEW q \in Promises, NEW i \in DOMAIN reactions'[q],
                 reactions'[q][i].kind = "pair"
          PROVE  adopts'[reactions'[q][i].to] = q
      <3>1. reactions \in [Promises -> Seq(Reactions)] /\ reactions[p] \in Seq(Reactions)
        BY DEF IInv, SlotTypes
      <3>2. CASE q # p
        <4>1. reactions'[q] = reactions[q]
          BY <1>8, <3>1, <3>2
        <4> QED BY <1>6, <2>1, <4>1
      <3>3. CASE q = p
        <4> DEFINE l == reactions[p]
        <4>1. reactions'[q] = Append(l, r)
          BY <1>8, <3>1, <3>3
        <4>2. (i \in DOMAIN l /\ Append(l, r)[i] = l[i]) \/ Append(l, r)[i] = r
          BY <2>1, <3>1, <4>1
        <4> QED BY <1>6, <2>1, <3>3, <4>1, <4>2
      <3> QED BY <3>2, <3>3
    <2> QED BY <1>3, <1>4, <1>5, <1>7, <1>8, <2>1, AInvPrimed
  <1>9. CASE /\ Settled(p)
             /\ queue' = Append(queue, JobOf(r, st[p] = "rejected", result[p]))
             /\ UNCHANGED reactions
    <2> DEFINE j == JobOf(r, st[p] = "rejected", result[p])
    <2>1. Tells(j, adopts', st', result')
      <3>1. /\ j.kind = r.kind /\ j.to = r.to /\ j.value = result[p]
            /\ j.rejected = (st[p] = "rejected")
        BY DEF JobOf
      <3>2. st'[p] = st[p] /\ st[p] \in {"fulfilled", "rejected"} /\ result'[p] = result[p]
        BY <1>1, <1>9 DEF Grows, Settled
      <3> HIDE DEF j
      <3> QED BY <3>1, <3>2 DEF Tells
    <2>2. queue \in Seq(Jobs) /\ queue' = Append(queue, j)
      BY <1>9 DEF IInv, SlotTypes
    <2> HIDE DEF j
    <2>3. \A i \in DOMAIN queue' : Tells(queue'[i], adopts', st', result')
      <3>1. \A i \in DOMAIN queue' :
              (i \in DOMAIN queue /\ queue'[i] = queue[i]) \/ queue'[i] = j
        BY <2>2
      <3> QED BY <1>5, <2>1, <3>1
    <2> QED BY <1>3, <1>4, <1>5, <1>6, <1>7, <1>9, <2>3, AInvPrimed
  <1> QED BY <1>8, <1>9 DEF Subscribe

\* Resolving and rejecting through the latch, of a promise that adopts nothing
\* until its latch is taken.
LEMMA ResolveTells ==
  ASSUME IInv, IInv', SInv, AInv, NEW p \in Promises, NEW y, NEW fs \in Seq(Frames),
         Exists(p), Apart(fs), Told(fs), ResolvePromise(p, y, fs), UNCHANGED pair,
         FlightKept
  PROVE  AInv'
  <1>1. CASE resolved[p]
    <2>1. frames' = fs /\ UNCHANGED <<slots, resolved, adopts>>
      BY <1>1 DEF ResolvePromise
    <2>2. /\ Fixed
          /\ \A q \in Promises : Settled(q)' => Settled(q)
          /\ \A q \in Promises : HasPair(q)' \/ ~resolved'[q] => adopts[q] = None
      BY <2>1 DEF Fixed, Settled, slots, AInv, FreshTells, HasPair
    <2> QED BY <2>1, <2>2, Quiet DEF slots, FlightKept
  <1>2. CASE ~resolved[p]
    <2>1. TakeLatch(p) /\ RunResolutionSteps(p, y, fs)
      BY <1>2 DEF ResolvePromise
    <2>2. Cleared(p, fs)
      BY <1>2, <2>1, LatchClears
    <2>3. adopts[p] = None
      BY <1>2 DEF AInv, FreshTells
    <2> QED BY <2>1, <2>2, <2>3, ResolutionTells
  <1> QED BY <1>1, <1>2

\* Rejecting.
LEMMA RejectTells ==
  ASSUME IInv, IInv', SInv, AInv, NEW p \in Promises, NEW v \in Promises,
         NEW fs \in Seq(Frames), Exists(p), Apart(fs), Told(fs), RejectPromise(p, v),
         frames' = fs,
         UNCHANGED <<pair, adopts>>, FlightKept
  PROVE  AInv'
  <1>1. CASE resolved[p]
    <2>1. UNCHANGED <<slots, resolved>>
      BY <1>1 DEF RejectPromise
    <2>2. /\ Fixed
          /\ \A q \in Promises : Settled(q)' => Settled(q)
          /\ \A q \in Promises : HasPair(q)' \/ ~resolved'[q] => adopts[q] = None
      BY <2>1 DEF Fixed, Settled, slots, AInv, FreshTells, HasPair
    <2> QED BY <2>1, <2>2, Quiet DEF slots, FlightKept
  <1>2. CASE ~resolved[p]
    <2>1. TakeLatch(p) /\ SettleInternal(p, TRUE, v)
      BY <1>2 DEF RejectPromise
    <2>2. Cleared(p, fs)
      BY <1>2, <2>1, LatchClears
    <2>3. adopts[p] = None
      BY <1>2 DEF AInv, FreshTells
    <2> QED BY <2>1, <2>2, <2>3, SettleTells, PromiseIsValue
  <1> QED BY <1>1, <1>2

\* Steps of the rest: the slots stay, but for promises being made.
LEMMA RestTells ==
  ASSUME IInv, AInv, NEW fs \in Seq(Frames), Told(fs), frames' = fs, Grows,
         UNCHANGED <<result, reactions, queue, adopts, resolved, pair>>,
         at' = "job" => at = "job" /\ job' = job
  PROVE  AInv'
  <1>1. /\ Fixed
        /\ \A q \in Promises : Settled(q)' => Settled(q)
        /\ \A q \in Promises : HasPair(q)' \/ ~resolved'[q] => adopts[q] = None
    BY DEF Fixed, Settled, Grows, AInv, FreshTells, HasPair
  <1> QED BY <1>1, Quiet

\* Whatever user code does keeps what is said of the adoptions: a promise it
\* resolves or rejects, through its own functions or those a foreign thenable
\* was given, adopts nothing until then.
LEMMA UserAdopts == ASSUME IInv, SInv, AInv, User PROVE AInv'
  <1>1. IInv'
    BY UserKeeps
  <1>2. PICK fs : fs = frames
    OBVIOUS
  <1>3. fs \in Seq(Frames) /\ Apart(fs) /\ Told(fs)
    BY <1>2, FramesKept DEF AInv, GettersTell
  <1>4. ASSUME NEW p \in Made, New(p) PROVE AInv'
    <2>1. Grows
      BY <1>4, MadeFacts DEF New, Promises
    <2>2. FlightKept
      BY <1>4, FlightFacts DEF New
    <2>3. /\ frames' = fs
          /\ UNCHANGED <<result, reactions, queue, adopts, resolved, pair>>
      BY <1>2, <1>4 DEF New
    <2> QED BY <1>3, <2>1, <2>2, <2>3, RestTells DEF FlightKept
  <1>5. ASSUME NEW p \in Made, Reject(p) PROVE AInv'
    <2>1. p \in Promises /\ FlightKept
      BY <1>5, FlightFacts DEF Reject, Promises
    <2>2. /\ Exists(p) /\ RejectPromise(p, p) /\ frames' = fs
          /\ UNCHANGED <<pair, adopts>>
      BY <1>2, <1>5 DEF Reject
    <2> QED BY <1>1, <1>3, <2>1, <2>2, RejectTells
  <1>6. ASSUME NEW p \in Made, NEW y \in Inputs, Resolve(p, y) PROVE AInv'
    <2>1. p \in Promises /\ FlightKept
      BY <1>6, FlightFacts DEF Resolve, Promises
    <2>2. Exists(p) /\ ResolvePromise(p, y, fs) /\ UNCHANGED pair
      BY <1>2, <1>6 DEF Resolve
    <2> QED BY <1>1, <1>3, <2>1, <2>2, ResolveTells
  <1>7. ASSUME NEW p \in Promises, PairReject(p) PROVE AInv'
    <2>1. FlightKept
      BY <1>7, FlightFacts DEF PairReject
    <2>2. /\ TakePairLatch(p) /\ SettleInternal(p, TRUE, p) /\ frames' = fs
          /\ UNCHANGED <<resolved, adopts>>
      BY <1>2, <1>7 DEF PairReject
    <2>3. Cleared(p, fs)
      BY <1>3, <2>1, <2>2, PairClears
    <2>4. adopts[p] = None
      BY <2>2 DEF TakePairLatch, HasPair, AInv, FreshTells
    <2> QED BY <1>1, <1>3, <2>2, <2>3, <2>4, SettleTells, PromiseIsValue
  <1>8. ASSUME NEW p \in Promises, NEW y \in Inputs, PairResolve(p, y) PROVE AInv'
    <2>1. FlightKept
      BY <1>8, FlightFacts DEF PairResolve
    <2>2. /\ TakePairLatch(p) /\ RunResolutionSteps(p, y, fs)
          /\ UNCHANGED resolved
      BY <1>2, <1>8 DEF PairResolve
    <2>3. Cleared(p, fs)
      BY <1>3, <2>1, <2>2, PairClears
    <2>4. adopts[p] = None
      BY <2>2 DEF TakePairLatch, HasPair, AInv, FreshTells
    <2> QED BY <1>1, <1>3, <2>2, <2>3, <2>4, ResolutionTells
  <1>9. ASSUME NEW p \in Promises, NEW d \in Derived, NEW onF \in BOOLEAN,
               NEW onR \in BOOLEAN, Then(p, d, onF, onR)
        PROVE  AInv'
    <2> DEFINE r == [kind |-> "then", to |-> d, onF |-> onF, onR |-> onR]
    <2>1. Grows
      BY <1>9, MadeFacts DEF Then, Promises
    <2>2. FlightKept
      BY <1>9, FlightFacts DEF Then
    <2>3. r.kind # "thenable" /\ r.kind # "pair"
      OBVIOUS
    <2>4. Subscribe(p, r, fs) /\ UNCHANGED <<adopts, resolved, pair>>
      BY <1>2, <1>9 DEF Then
    <2> HIDE DEF r
    <2> QED BY <1>3, <2>1, <2>2, <2>3, <2>4, SubscribeTells DEF FlightKept
  <1>10. ASSUME NEW a \in Async, AsyncCall(a) PROVE AInv'
    <2>1. Grows
      BY <1>10, MadeFacts DEF AsyncCall, Promises
    <2>2. /\ frames' = Calling(fs, "body", a)
          /\ UNCHANGED <<result, reactions, queue, adopts, resolved, pair, at, job>>
      BY <1>2, <1>10 DEF AsyncCall, control
    <2>3. Calling(fs, "body", a) \in Seq(Frames) /\ Told(Calling(fs, "body", a))
      BY <1>3, CallingType, ToldCalled DEF Promises
    <2>4. /\ Fixed
          /\ \A q \in Promises : Settled(q)' => Settled(q)
          /\ \A q \in Promises : HasPair(q)' \/ ~resolved'[q] => adopts[q] = None
      BY <2>1, <2>2 DEF Fixed, Settled, Grows, AInv, FreshTells, HasPair
    <2> QED BY <2>2, <2>3, <2>4, Quiet
  <1> QED BY <1>4, <1>5, <1>6, <1>7, <1>8, <1>9, <1>10 DEF User

\* So does every way in which user code returns or throws.
LEMMA UserEndsAdopts == ASSUME IInv, SInv, AInv, UserEnds PROVE AInv'
  <1>1. IInv'
    BY UserEndsKeeps
  <1>2. PICK c, fs : c = Running /\ fs = Popped
    OBVIOUS
  <1>3. \A place : Inside(place) /\ place # "getter" =>
          c \in Promises /\ fs \in Seq(Frames) /\ Apart(fs) /\ Told(fs) /\ Exists(c)
    BY <1>2, FrameFacts, ApartPopped, ToldPopped
  <1>4. ASSUME NEW p \in Promises, BodyAwaits(p) PROVE AInv'
    <2> DEFINE r == [kind |-> "await", to |-> c, onF |-> TRUE, onR |-> TRUE]
    <2>1. Grows
      BY <1>4 DEF BodyAwaits, Grows, IInv, SlotTypes
    <2>2. FlightKept
      BY <1>4, FlightFacts DEF BodyAwaits
    <2>3. r.kind # "thenable" /\ r.kind # "pair"
      OBVIOUS
    <2>4. Subscribe(p, r, fs) /\ UNCHANGED <<adopts, resolved, pair>>
      BY <1>2, <1>4 DEF BodyAwaits
    <2>5. fs \in Seq(Frames) /\ Told(fs)
      BY <1>3, <1>4 DEF BodyAwaits
    <2> HIDE DEF r
    <2> QED BY <2>1, <2>2, <2>3, <2>4, <2>5, SubscribeTells DEF FlightKept
  <1>5. ASSUME NEW y \in Inputs, BodyReturns(y) \/ HandlerReturns(y) PROVE AInv'
    <2>1. FlightKept
      BY <1>5, FlightFacts DEF BodyReturns, HandlerReturns
    <2>2. c \in Promises /\ fs \in Seq(Frames) /\ Apart(fs) /\ Told(fs) /\ Exists(c)
      BY <1>3, <1>5 DEF BodyReturns, HandlerReturns
    <2>3. ResolvePromise(c, y, fs) /\ UNCHANGED pair
      BY <1>2, <1>5 DEF BodyReturns, HandlerReturns
    <2> QED BY <1>1, <2>1, <2>2, <2>3, ResolveTells
  <1>6. ASSUME BodyThrows \/ HandlerThrows PROVE AInv'
    <2>1. FlightKept
      BY <1>6, FlightFacts DEF BodyThrows, HandlerThrows
    <2>2. c \in Promises /\ fs \in Seq(Frames) /\ Apart(fs) /\ Told(fs) /\ Exists(c)
      BY <1>3, <1>6 DEF BodyThrows, HandlerThrows
    <2>3. RejectPromise(c, c) /\ frames' = fs /\ UNCHANGED <<pair, adopts>>
      BY <1>2, <1>6 DEF BodyThrows, HandlerThrows
    <2> QED BY <1>1, <2>1, <2>2, <2>3, RejectTells
  <1>7. ASSUME NEW got \in {"value", "thenable", "throw"}, GetterReturns(got) PROVE AInv'
    <2>1. FlightKept /\ UNCHANGED <<resolved, pair>> /\ Inside("getter")
      BY <1>7, FlightFacts DEF GetterReturns
    <2>2. /\ Cleared(c, fs) /\ c \in Promises /\ c \in Values
          /\ fs \in Seq(Frames) /\ Told(fs)
      BY <1>2, <2>1, GetterClears, FrameFacts, ToldPopped, PromiseIsValue
    <2>3. frames' = fs
      BY <1>2, <1>7 DEF GetterReturns
    <2>4. PICK v : v = ReadFrom
      OBVIOUS
    <2>5. v \in Values
      BY <2>1, <2>4, FrameFacts DEF Values
    <2>6. adopts[c] # None => st[adopts[c]] = "fulfilled" /\ result[adopts[c]] = v
      BY <1>2, <2>1, <2>4, ToldPopped
    <2>7. CASE SettleInternal(c, FALSE, v) /\ UNCHANGED adopts
      BY <1>1, <2>2, <2>3, <2>5, <2>6, <2>7, SettleTells
    <2>8. ASSUME adopts' = [adopts EXCEPT ![c] = None]
          PROVE  adopts'[c] = None /\ \A q \in Promises \ {c} : adopts'[q] = adopts[q]
      BY <2>2, <2>8 DEF IInv, RestTypes
    <2>9. CASE SettleInternal(c, TRUE, c) /\ adopts' = [adopts EXCEPT ![c] = None]
      BY <1>1, <2>2, <2>3, <2>8, <2>9, SettleTells
    <2>10. CASE /\ queue' = Append(queue, ThenableJob(c, Foreign))
                /\ adopts' = [adopts EXCEPT ![c] = None]
                /\ UNCHANGED <<st, result, reactions, parked, resettled>>
      BY <2>2, <2>3, <2>8, <2>10, EnqueueTells
    <2> QED BY <1>2, <1>7, <2>4, <2>7, <2>9, <2>10 DEF GetterReturns
  <1>8. ASSUME NEW threw \in BOOLEAN, ThenEnds(threw) PROVE AInv'
    <2>1. FlightKept /\ frames' = fs /\ UNCHANGED <<resolved, adopts>>
      BY <1>2, <1>8, FlightFacts DEF ThenEnds
    <2>2. c \in Promises /\ c \in Values /\ fs \in Seq(Frames) /\ Apart(fs) /\ Told(fs)
      BY <1>3, <1>8, PromiseIsValue DEF ThenEnds
    <2>3. CASE TakePairLatch(c) /\ SettleInternal(c, TRUE, c)
      <3>1. Cleared(c, fs)
        BY <2>1, <2>2, <2>3, PairClears
      <3>2. adopts[c] = None
        BY <2>2, <2>3 DEF TakePairLatch, HasPair, AInv, FreshTells
      <3> QED BY <1>1, <2>1, <2>2, <2>3, <3>1, <3>2, SettleTells
    <2>4. CASE UNCHANGED <<slots, pair>>
      <3>1. Grows /\ UNCHANGED <<result, reactions, queue>>
        BY <2>4 DEF Grows, slots, IInv, SlotTypes
      <3> QED BY <2>1, <2>2, <2>4, <3>1, RestTells DEF FlightKept
    <2> QED BY <1>2, <1>8, <2>3, <2>4 DEF ThenEnds
  <1>9. ASSUME HookReturns PROVE AInv'
    <2>1. FlightKept
      BY <1>9, FlightFacts DEF HookReturns
    <2>2. fs \in Seq(Frames) /\ Told(fs) /\ frames' = fs
      BY <1>2, <1>3, <1>9 DEF HookReturns
    <2>3. Grows /\ UNCHANGED <<result, reactions, queue, adopts, resolved, pair>>
      BY <1>9 DEF HookReturns, Grows, slots, IInv, SlotTypes
    <2> QED BY <2>1, <2>2, <2>3, RestTells DEF FlightKept
  <1> QED BY <1>4, <1>5, <1>6, <1>7, <1>8, <1>9 DEF UserEnds

\* The job taken off the queue says in flight what it said in the queue.
LEMMA TakenAdopts == ASSUME IInv, AInv, TakeJob PROVE AInv'
  <1>1. /\ queue # <<>> /\ job' = Head(queue) /\ queue' = Tail(queue)
        /\ UNCHANGED <<st, result, reactions, adopts, resolved, pair, frames>>
    BY DEF TakeJob, NextJob
  <1>2. queue \in Seq(Jobs)
    BY DEF IInv, SlotTypes
  <1>3. /\ Head(queue) = queue[1] /\ 1 \in DOMAIN queue
        /\ \A i \in DOMAIN Tail(queue) :
             (i + 1) \in DOMAIN queue /\ Tail(queue)[i] = queue[i + 1]
    BY <1>1, <1>2
  <1>4. \A i \in DOMAIN queue : Tells(queue[i], adopts', st', result')
    BY <1>1 DEF AInv, QueueTells
  <1>5. /\ \A i \in DOMAIN queue' : Tells(queue'[i], adopts', st', result')
        /\ Tells(job', adopts', st', result')
    BY <1>1, <1>3, <1>4
  <1>6. /\ \A q \in Promises : \A i \in DOMAIN reactions'[q] :
             reactions'[q][i].kind = "pair" => adopts'[reactions'[q][i].to] = q
        /\ FramesTell(frames', adopts', st', result')
    BY <1>1 DEF AInv, ListsTell, GettersTell, Told
  <1>7. \A p \in Promises : HasPair(p)' \/ ~resolved'[p] => adopts'[p] = None
    BY <1>1 DEF AInv, FreshTells, HasPair
  <1>8. \A p \in Promises : adopts'[p] # None /\ Settled(p)' =>
          st'[p] = st'[adopts'[p]] /\ result'[p] = result'[adopts'[p]]
    BY <1>1 DEF AInv, AdoptsOutcome, Settled
  <1> QED BY <1>5, <1>6, <1>7, <1>8, AInvPrimed

\* So does every step of the drain: the job of a pair settles the promise it
\* is for with the outcome of what that promise adopts.
LEMMA DrainAdopts == ASSUME IInv, SInv, AInv, Drain PROVE AInv'
  <1>1. IInv'
    BY DrainKeeps
  <1>2. PICK fs : fs = frames
    OBVIOUS
  <1>3. fs \in Seq(Frames) /\ Apart(fs) /\ Told(fs)
    BY <1>2, FramesKept DEF AInv, GettersTell
  <1>4. PICK c : c = job.to
    OBVIOUS
  <1>5. at = "job" => c \in Promises /\ Exists(c)
    BY <1>4, JobFacts DEF SInv, Known
  <1>6. ASSUME DrainStarts \/ ReportAll \/ ReportStarts \/ ReportEnds PROVE AInv'
    <2>1. /\ at' # "job" /\ frames' = fs
          /\ UNCHANGED <<result, reactions, queue, adopts, resolved, pair>>
      BY <1>2, <1>6 DEF DrainStarts, ReportAll, ReportStarts, ReportEnds, slots
    <2>2. Grows
      BY <1>6 DEF DrainStarts, ReportAll, ReportStarts, ReportEnds, slots, Grows, IInv, SlotTypes
    <2> QED BY <1>3, <2>1, <2>2, RestTells
  <1>7. ASSUME ReportNext PROVE AInv'
    <2>1. PICK d : d = Head(parked)
      OBVIOUS
    <2>2. d \in Promises
      BY <1>7, <2>1, ParkedHead DEF ReportNext
    <2>3. PICK gs : gs = Calling(fs, "hook", d)
      OBVIOUS
    <2>4. gs \in Seq(Frames) /\ Told(gs)
      BY <1>3, <2>2, <2>3, CallingType, ToldCalled
    <2>5. /\ frames' = gs /\ UNCHANGED <<at, job>>
          /\ UNCHANGED <<result, reactions, queue, adopts, resolved, pair>>
      BY <1>2, <1>7, <2>1, <2>3 DEF ReportNext
    <2>6. Grows
      BY <1>7 DEF ReportNext, Grows, IInv, SlotTypes
    <2> QED BY <2>4, <2>5, <2>6, RestTells
  <1>8. ASSUME PassThrough PROVE AInv'
    <2>1. FlightKept /\ UNCHANGED <<pair, adopts>>
      BY <1>8, FlightFacts DEF PassThrough
    <2>2. PICK v : v = job.value
      OBVIOUS
    <2>3. PICK rejected \in BOOLEAN : rejected = job.rejected
      BY <1>8, JobFacts DEF PassThrough
    <2>4. c \in Promises /\ Exists(c) /\ v \in Values
      BY <1>5, <1>8, <2>2, JobFacts DEF PassThrough
    <2>5. CASE resolved[c]
      <3>1. UNCHANGED <<slots, resolved>> /\ frames' = fs
        BY <1>2, <1>4, <1>8, <2>5 DEF PassThrough
      <3>2. Grows /\ UNCHANGED <<result, reactions, queue>>
        BY <3>1 DEF Grows, slots, IInv, SlotTypes
      <3> QED BY <1>3, <2>1, <3>1, <3>2, RestTells DEF FlightKept
    <2>6. CASE ~resolved[c]
      <3>1. TakeLatch(c) /\ TakeOutcome(c, rejected, v)
        BY <1>4, <1>8, <2>2, <2>3, <2>6 DEF PassThrough
      <3>2. Cleared(c, fs)
        BY <1>3, <2>1, <2>4, <2>6, <3>1, LatchClears
      <3>3. adopts[c] = None
        BY <2>4, <2>6 DEF AInv, FreshTells
      <3> QED BY <1>1, <1>2, <1>3, <2>1, <2>4, <3>1, <3>2, <3>3, OutcomeTells
    <2> QED BY <2>5, <2>6
  <1>9. ASSUME CallHandler \/ ResumeBody PROVE AInv'
    <2>1. PICK place, gs : /\ place \in {"handler", "body"}
                          /\ gs = Calling(fs, place, c) /\ frames' = gs
      BY <1>2, <1>4, <1>9 DEF CallHandler, ResumeBody
    <2>2. gs \in Seq(Frames) /\ Told(gs)
      <3>1. c \in Promises /\ place \in {"handler", "then", "body", "hook"}
        BY <1>5, <1>9, <2>1 DEF CallHandler, ResumeBody
      <3> QED BY <1>3, <2>1, <3>1, CallingType, ToldCalled
    <2>3. /\ at' # "job"
          /\ UNCHANGED <<result, reactions, queue, adopts, resolved, pair>>
      BY <1>9 DEF CallHandler, ResumeBody, JobDone, slots
    <2>4. Grows
      BY <1>9 DEF CallHandler, ResumeBody, Grows, slots, IInv, SlotTypes
    <2> QED BY <2>1, <2>2, <2>3, <2>4, RestTells
  <1>10. ASSUME AdoptedSettled PROVE AInv'
    <2>1. PICK v : v = job.value
      OBVIOUS
    <2>2. PICK rejected \in BOOLEAN : rejected = job.rejected
      BY <1>10, JobFacts DEF AdoptedSettled
    <2>3. c \in Promises /\ v \in Values
      BY <1>5, <1>10, <2>1, JobFacts DEF AdoptedSettled
    <2>4. Cleared(c, fs)
      <3>1. InFlight(c) /\ JobDone /\ UNCHANGED <<resolved, pair>>
        BY <1>4, <1>10 DEF AdoptedSettled, InFlight, Carries
      <3>2. Cleared(c, frames)
        BY <2>3, <3>1, FlightClears
      <3> QED BY <1>2, <3>2 DEF Cleared
    <2>5. TakeOutcome(c, rejected, v) /\ UNCHANGED adopts
      BY <1>4, <1>10, <2>1, <2>2 DEF AdoptedSettled, SettlePair
    <2>6. /\ st[adopts[c]] = (IF rejected THEN "rejected" ELSE "fulfilled")
          /\ result[adopts[c]] = v
      BY <1>4, <1>10, <2>1, <2>2 DEF AdoptedSettled, AInv, FlightTells, Tells
    <2> QED BY <1>1, <1>2, <1>3, <2>3, <2>4, <2>5, <2>6, OutcomeTells
  <1>11. ASSUME AdoptPromise PROVE AInv'
    <2> DEFINE r == [kind |-> "pair", to |-> c, onF |-> TRUE, onR |-> TRUE]
    <2>1. PICK v : v = job.value
      OBVIOUS
    <2>2. /\ v \in Promises /\ at' # "job" /\ Subscribe(v, r, fs)
          /\ UNCHANGED <<adopts, resolved, pair>>
      BY <1>2, <1>4, <1>11, <2>1 DEF AdoptPromise, JobDone
    <2>3. Grows
      BY <1>11 DEF AdoptPromise, Grows, IInv, SlotTypes
    <2>4. adopts[c] = v
      <3>1. v # Foreign
        BY <2>2, PromiseAssumption DEF Values
      <3> QED BY <1>4, <1>11, <2>1, <3>1 DEF AdoptPromise, AInv, FlightTells, Tells
    <2>5. r.kind # "thenable" /\ r.to = c
      OBVIOUS
    <2> HIDE DEF r
    <2> QED BY <1>3, <2>2, <2>3, <2>4, <2>5, SubscribeTells
  <1>12. ASSUME CallForeignThen PROVE AInv'
    <2>1. /\ at = "job" /\ at' # "job" /\ UNCHANGED <<slots, resolved, adopts>>
          /\ pair' = [pair EXCEPT ![c] = "open"]
          /\ frames' = Calling(fs, "then", c) /\ c \in Promises
      BY <1>2, <1>4, <1>5, <1>12 DEF CallForeignThen, JobDone
    <2>2. adopts[c] = None
      BY <1>4, <1>12 DEF CallForeignThen, AInv, FlightTells, Tells
    <2>3. \A q \in Promises : HasPair(q)' \/ ~resolved'[q] => adopts[q] = None
      <3>1. \A q \in Promises : q # c => pair'[q] = pair[q]
        BY <2>1 DEF IInv, RestTypes
      <3> QED BY <2>1, <2>2, <3>1 DEF HasPair, AInv, FreshTells
    <2>4. Calling(fs, "then", c) \in Seq(Frames) /\ Told(Calling(fs, "then", c))
      BY <1>3, <2>1, CallingType, ToldCalled
    <2>5. /\ Fixed /\ UNCHANGED <<reactions, queue>>
          /\ \A q \in Promises : Settled(q)' => Settled(q)
      BY <2>1 DEF Fixed, Settled, slots
    <2> QED BY <2>1, <2>3, <2>4, <2>5, Quiet
  <1> QED BY <1>6, <1>7, <1>8, <1>9, <1>10, <1>11, <1>12, TakenAdopts DEF Drain

\* At the start nothing is adopted.
LEMMA InitAdopts == ASSUME Init PROVE AInv
  <1>1. /\ DOMAIN queue = {} /\ DOMAIN frames = {} /\ at = "script"
        /\ \A p \in Promises : DOMAIN reactions[p] = {} /\ adopts[p] = None
    BY DEF Init
  <1> QED BY <1>1 DEF AInv, QueueTells, FlightTells, ListsTell, GettersTell, Told,
             FramesTell, FreshTells, AdoptsOutcome

\* A step that changes nothing.
LEMMA StutterAdopts == ASSUME IInv, SInv, AInv, UNCHANGED vars PROVE AInv'
  <1>1. PICK fs : fs = frames
    OBVIOUS
  <1>2. fs \in Seq(Frames) /\ Told(fs) /\ frames' = fs
    BY <1>1, FramesKept DEF vars, AInv, GettersTell
  <1>3. /\ UNCHANGED <<result, reactions, queue, adopts, resolved, pair, at, job>>
        /\ Grows
    BY DEF vars, slots, control, Grows, IInv, SlotTypes
  <1> QED BY <1>2, <1>3, RestTells

\* The inductive invariant of adoptions holds of every behaviour.
LEMMA Adopts == Spec => [](IInv /\ SInv /\ AInv)
  <1>1. Init => AInv
    BY InitAdopts
  <1>2. IInv /\ SInv /\ AInv /\ [Next]_vars => AInv'
    BY UserAdopts, UserEndsAdopts, DrainAdopts, StutterAdopts DEF Next
  <1> QED BY <1>1, <1>2, OnePlaceEach, PTL DEF Spec

\* A promise resolved with another promise ends as that promise ended, with
\* its value: through the thenable job of runResolutionSteps, the pair that
\* rtRunThenableJob subscribes, the reaction job that calls it and the read of
\* an object's `then` by pairResolve, whatever user code does between them and
\* however long a chain of adoptions is; unless that read throws or gives a
\* function, which ends the adoption.
THEOREM AdoptsOutcomeHolds == Spec => []AdoptsOutcome
  <1>1. AInv => AdoptsOutcome
    BY DEF AInv
  <1> QED BY <1>1, Adopts, PTL
=============================================================================
