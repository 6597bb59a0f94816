---------------------------- MODULE PromiseProofs ----------------------------
(***************************************************************************)
(* For any sets of promises and async calls: the types of Promise.tla, and *)
(* that every unhandled rejection is tracked.  What the queue, the reaction *)
(* lists and the parked registry hold is preserved by the three operations *)
(* every handler is made of (settling, resolving, subscribing); a lemma    *)
(* each says so, and the actions follow from them.                         *)
(***************************************************************************)
EXTENDS Promise, TLAPS

-----------------------------------------------------------------------------
(* The inductive invariant.                                                *)

SlotTypes ==
  /\ st \in [Promises -> {"none", "pending", "fulfilled", "rejected"}]
  /\ result \in [Promises -> Values \union {None}]
  /\ reactions \in [Promises -> Seq(Reactions)]
  /\ queue \in Seq(Jobs)
  /\ parked \in Seq(Promises)
  /\ resettled \in BOOLEAN

MarkTypes ==
  /\ handled \in [Promises -> BOOLEAN]
  /\ reported \in [Promises -> BOOLEAN]
  /\ said \subseteq Promises

ControlTypes ==
  /\ at \in {"script", "drain", "job", "report"}
  /\ job \in Jobs \union {None}
  /\ job # None <=> at = "job"
  /\ left \in Nat
  /\ batch \subseteq Promises
  /\ hook \in BOOLEAN

RestTypes ==
  /\ resolved \in [Promises -> BOOLEAN]
  /\ pair \in [Promises -> {"none", "open", "taken"}]
  /\ frames \in Seq(Frames)
  /\ machine \in [Async -> Machines]
  /\ waiting \in [Async -> Promises \union {None}]
  /\ adopts \in [Promises -> Promises \union {None}]

\* What a reaction will be given is a value: only the job of a foreign thenable
\* carries something else.
Carried ==
  /\ \A p \in Promises : Settled(p) => result[p] \in Values
  /\ \A i \in DOMAIN queue : queue[i].kind # "thenable" => queue[i].value \in Values

JobValue == at = "job" /\ job.kind # "thenable" => job.value \in Values

\* RejectionsTracked, and what was reported is a rejection even without a hook.
Unhandled ==
  /\ \A p \in Promises :
       st[p] = "rejected" /\ ~handled[p] => (Holds(parked, p) <=> p \notin said)
  /\ \A i \in DOMAIN parked : st[parked[i]] = "rejected" /\ ~handled[parked[i]]
Once    == \A i, j \in DOMAIN parked : parked[i] = parked[j] => i = j
Said    == \A p \in said : st[p] = "rejected"
Standing == hook => \A p \in said : ~handled[p] /\ reported[p]

Tracked == Unhandled /\ Once /\ Said /\ Standing

IInv == SlotTypes /\ MarkTypes /\ ControlTypes /\ RestTypes
          /\ Carried /\ JobValue /\ Tracked

\* The parts the proofs work with are the type invariant.
LEMMA PartsOfTypeOK == TypeOK <=> SlotTypes /\ MarkTypes /\ ControlTypes /\ RestTypes
  BY DEF TypeOK, SlotTypes, MarkTypes, ControlTypes, RestTypes

\* The invariant about rejections implies the checked property.
LEMMA TrackedImplies == Tracked => RejectionsTracked
  BY DEF Tracked, Unhandled, Once, Said, Standing, RejectionsTracked, Holds

-----------------------------------------------------------------------------
(* The operations.                                                         *)

\* A job made of a reaction is a job.
LEMMA JobOfType ==
  ASSUME NEW r \in Reactions, NEW rejected \in BOOLEAN, NEW v \in Values
  PROVE  /\ JobOf(r, rejected, v) \in Jobs
         /\ JobOf(r, rejected, v).kind # "thenable"
         /\ JobOf(r, rejected, v).value = v
  BY DEF JobOf, Reactions, Jobs, Kinds

\* The job of a thenable is a job.
LEMMA ThenableJobType ==
  ASSUME NEW p \in Promises, NEW x \in Promises \union {Foreign}
  PROVE  ThenableJob(p, x) \in Jobs /\ ThenableJob(p, x).kind = "thenable"
  BY DEF ThenableJob, Jobs, Kinds, Values

\* rtParkRejection adds p, once.
LEMMA ParkFacts ==
  ASSUME parked \in Seq(Promises), Once, NEW p \in Promises
  PROVE  /\ Park(p) \in Seq(Promises)
         /\ \A q \in Promises : Holds(Park(p), q) <=> Holds(parked, q) \/ q = p
         /\ \A i \in DOMAIN Park(p) : Park(p)[i] = p \/ Holds(parked, Park(p)[i])
         /\ \A i, j \in DOMAIN Park(p) : Park(p)[i] = Park(p)[j] => i = j
  <1>1. CASE Holds(parked, p)
    BY <1>1 DEF Park, Holds, Once
  <1>2. CASE ~Holds(parked, p)
    <2> DEFINE u == Append(parked, p)
    <2>1. Park(p) = u
      BY <1>2 DEF Park
    <2>2. /\ Len(parked) \in Nat /\ DOMAIN parked = 1..Len(parked)
          /\ u \in Seq(Promises) /\ DOMAIN u = 1..(Len(parked) + 1)
          /\ u[Len(parked) + 1] = p
          /\ \A i \in 1..Len(parked) : u[i] = parked[i]
      OBVIOUS
    <2> HIDE DEF u
    <2>3. \A q \in Promises : Holds(u, q) <=> Holds(parked, q) \/ q = p
      BY <2>2 DEF Holds
    <2>4. \A i \in DOMAIN u : u[i] = p \/ Holds(parked, u[i])
      BY <2>2 DEF Holds
    <2>5. \A i, j \in DOMAIN u : u[i] = u[j] => i = j
      BY <1>2, <2>2 DEF Holds, Once
    <2> QED BY <2>1, <2>2, <2>3, <2>4, <2>5
  <1> QED BY <1>1, <1>2

\* rtUnparkRejection removes p, and keeps every other entry, once.
LEMMA UnparkFacts ==
  ASSUME parked \in Seq(Promises), Once, NEW p \in Promises
  PROVE  /\ Unpark(p) \in Seq(Promises)
         /\ \A q \in Promises : Holds(Unpark(p), q) <=> Holds(parked, q) /\ q # p
         /\ \A i, j \in DOMAIN Unpark(p) : Unpark(p)[i] = Unpark(p)[j] => i = j
  <1>1. CASE ~Holds(parked, p)
    BY <1>1 DEF Unpark, Holds, Once
  <1>2. CASE Holds(parked, p)
    <2> DEFINE First(i) == parked[i] = p /\ \A j \in 1..(i - 1) : parked[j] # p
               c == CHOOSE i \in DOMAIN parked : First(i)
               u == [k \in 1..(Len(parked) - 1) |->
                       IF k < c THEN parked[k] ELSE parked[k + 1]]
    <2>1. \E i \in DOMAIN parked : First(i)
      <3>1. PICK i \in DOMAIN parked : parked[i] = p
        BY <1>2 DEF Holds
      <3>2. \A j \in 1..(i - 1) : parked[j] # p
        BY <3>1 DEF Once
      <3> QED BY <3>1, <3>2
    <2>2. c \in DOMAIN parked /\ parked[c] = p
      <3> HIDE DEF First
      <3>1. c \in DOMAIN parked /\ First(c)
        BY <2>1
      <3> QED BY <3>1 DEF First
    <2>3. Unpark(p) = u
      BY <1>2 DEF Unpark
    <2> HIDE DEF c
    <2>4. Len(parked) \in Nat /\ DOMAIN parked = 1..Len(parked) /\ c \in 1..Len(parked)
      BY <2>2
    <2>5. u \in Seq(Promises) /\ DOMAIN u = 1..(Len(parked) - 1)
      BY <2>4
    <2>6. ASSUME NEW q \in Promises, Holds(u, q) PROVE Holds(parked, q) /\ q # p
      BY <2>2, <2>4, <2>5, <2>6 DEF Holds, Once
    <2>7. ASSUME NEW q \in Promises, Holds(parked, q), q # p PROVE Holds(u, q)
      <3>1. PICK i \in 1..Len(parked) : parked[i] = q
        BY <2>4, <2>7 DEF Holds
      <3>2. i # c
        BY <2>2, <2>7, <3>1
      <3>3. CASE i < c
        BY <2>4, <2>5, <3>1, <3>3 DEF Holds
      <3>4. CASE i > c
        <4>1. (i - 1) \in DOMAIN u /\ u[i - 1] = parked[i]
          BY <2>4, <2>5, <3>1, <3>4
        <4> QED BY <4>1, <3>1 DEF Holds
      <3> QED BY <2>4, <3>1, <3>2, <3>3, <3>4
    <2>8. \A i, j \in DOMAIN u : u[i] = u[j] => i = j
      BY <2>2, <2>4, <2>5 DEF Once
    <2> HIDE DEF u
    <2> QED BY <2>3, <2>5, <2>6, <2>7, <2>8
  <1> QED BY <1>1, <1>2

\* What settles p enqueues its reactions and, for an unhandled rejection,
\* parks p.
LEMMA SettleFacts ==
  ASSUME IInv, NEW p \in Promises, NEW v \in Values, NEW rejected \in BOOLEAN,
         SettleInternal(p, rejected, v), UNCHANGED <<marks, hook>>
  PROVE  SlotTypes' /\ Carried' /\ Tracked'
  <1> USE DEF IInv
  <1>1. CASE st[p] # "pending"
    <2>1. UNCHANGED <<st, result, reactions, parked, queue>> /\ resettled' = TRUE
      BY <1>1 DEF SettleInternal
    <2> QED
      BY <2>1 DEF SlotTypes, Carried, Settled, Tracked, Unhandled, Once, Said, Standing,
                  Holds, marks
  <1>2. CASE st[p] = "pending"
    <2>1. /\ st' = [st EXCEPT ![p] = IF rejected THEN "rejected" ELSE "fulfilled"]
          /\ result' = [result EXCEPT ![p] = v]
          /\ parked' = IF rejected /\ ~handled[p] THEN Park(p) ELSE parked
          /\ queue' = queue \o Triggered(p, rejected, v)
          /\ reactions' = [reactions EXCEPT ![p] = <<>>]
          /\ UNCHANGED resettled
      BY <1>2 DEF SettleInternal
    <2>2. /\ Triggered(p, rejected, v) \in Seq(Jobs)
          /\ \A i \in DOMAIN Triggered(p, rejected, v) :
               /\ Triggered(p, rejected, v)[i].kind # "thenable"
               /\ Triggered(p, rejected, v)[i].value \in Values
      <3>1. reactions[p] \in Seq(Reactions)
        BY DEF SlotTypes
      <3>2. \A i \in DOMAIN reactions[p] :
              /\ JobOf(reactions[p][i], rejected, v) \in Jobs
              /\ JobOf(reactions[p][i], rejected, v).kind # "thenable"
              /\ JobOf(reactions[p][i], rejected, v).value = v
        BY <3>1, JobOfType
      <3> QED BY <3>1, <3>2 DEF Triggered
    <2>3. parked \in Seq(Promises) /\ Once /\ Len(parked) \in Nat
      BY DEF SlotTypes, Tracked
    <2>4. SlotTypes'
      <3>1. queue' \in Seq(Jobs)
        BY <2>1, <2>2 DEF SlotTypes
      <3>2. parked' \in Seq(Promises)
        BY <2>1, <2>3, ParkFacts
      <3> QED BY <2>1, <3>1, <3>2 DEF SlotTypes
    <2>5. Carried'
      <3>1. \A q \in Promises : Settled(q)' => result'[q] \in Values
        BY <2>1 DEF SlotTypes, Carried, Settled
      <3>2. \A i \in DOMAIN queue' :
              queue'[i].kind # "thenable" => queue'[i].value \in Values
        <4> DEFINE t == Triggered(p, rejected, v)
        <4>1. queue \in Seq(Jobs) /\ t \in Seq(Jobs) /\ queue' = queue \o t
          BY <2>1, <2>2 DEF SlotTypes
        <4>2. \A i \in DOMAIN queue : queue[i].kind # "thenable" => queue[i].value \in Values
          BY DEF Carried
        <4>3. \A i \in DOMAIN t : t[i].value \in Values
          BY <2>2
        <4> HIDE DEF t
        <4> QED BY <4>1, <4>2, <4>3
      <3> QED BY <3>1, <3>2 DEF Carried
    <2>6. UNCHANGED <<handled, reported, said, hook>>
      BY DEF marks
    <2>7. p \notin said /\ ~Holds(parked, p)
      BY <1>2, <2>3 DEF Tracked, Said, Unhandled, Holds
    <2>8. CASE rejected /\ ~handled[p]
      <3>1. parked' = Park(p) /\ st' = [st EXCEPT ![p] = "rejected"]
        BY <2>1, <2>8
      <3>2. Unhandled'
        <4>1. ASSUME NEW q \in Promises, st'[q] = "rejected", ~handled'[q]
              PROVE  Holds(parked', q) <=> q \notin said'
          <5>1. Holds(parked', q) <=> Holds(parked, q) \/ q = p
            BY <2>3, <3>1, ParkFacts
          <5>2. q # p => st[q] = "rejected" /\ ~handled[q]
            BY <2>6, <3>1, <4>1 DEF SlotTypes
          <5>3. q # p => (Holds(parked, q) <=> q \notin said)
            BY <5>2 DEF Tracked, Unhandled
          <5> QED BY <2>6, <2>7, <5>1, <5>3
        <4>2. ASSUME NEW i \in DOMAIN parked'
              PROVE  st'[parked'[i]] = "rejected" /\ ~handled'[parked'[i]]
          <5>1. parked'[i] = p \/ Holds(parked, parked'[i])
            BY <2>3, <3>1, ParkFacts
          <5> QED
            BY <2>3, <2>6, <2>8, <3>1, <5>1 DEF SlotTypes, Tracked, Unhandled, Holds
        <4> QED BY <4>1, <4>2 DEF Unhandled
      <3>3. Once'
        BY <2>3, <3>1, ParkFacts DEF Once
      <3>4. Said' /\ Standing'
        BY <2>6, <2>7, <3>1 DEF SlotTypes, MarkTypes, Tracked, Said, Standing
      <3> QED BY <2>4, <2>5, <3>2, <3>3, <3>4 DEF Tracked
    <2>9. CASE ~(rejected /\ ~handled[p])
      <3>1. parked' = parked
        BY <2>1, <2>9
      <3>2. \A q \in Promises \ {p} : st'[q] = st[q]
        BY <2>1 DEF SlotTypes
      <3>3. st'[p] = "rejected" => handled[p]
        BY <2>1, <2>9 DEF SlotTypes
      <3>4. Unhandled'
        <4>1. ASSUME NEW q \in Promises, st'[q] = "rejected", ~handled'[q]
              PROVE  Holds(parked', q) <=> q \notin said'
          BY <2>6, <3>1, <3>2, <3>3, <4>1 DEF Tracked, Unhandled, Holds
        <4>2. ASSUME NEW i \in DOMAIN parked'
              PROVE  st'[parked'[i]] = "rejected" /\ ~handled'[parked'[i]]
          BY <2>3, <2>6, <2>7, <3>1, <3>2 DEF Tracked, Unhandled, Holds
        <4> QED BY <4>1, <4>2 DEF Unhandled
      <3>5. Once'
        BY <2>3, <3>1 DEF Once
      <3>6. Said' /\ Standing'
        BY <2>6, <2>7, <3>2 DEF MarkTypes, Tracked, Said, Standing
      <3> QED BY <2>4, <2>5, <3>4, <3>5, <3>6 DEF Tracked
    <2> QED BY <2>4, <2>5, <2>8, <2>9
  <1> QED BY <1>1, <1>2

\* Steps that leave the registry and the marks alone, whatever they enqueue.
LEMMA TrackedKept ==
  ASSUME Tracked, UNCHANGED <<st, parked, marks, hook>>
  PROVE  Tracked'
  BY DEF Tracked, Unhandled, Once, Said, Standing, Holds, marks

\* Enqueueing keeps the type of the queue, and what its jobs carry.
LEMMA EnqueueFacts ==
  ASSUME IInv, NEW j \in Jobs, j.kind # "thenable" => j.value \in Values,
         queue' = Append(queue, j), UNCHANGED <<st, result, reactions>>
  PROVE  queue' \in Seq(Jobs) /\ Carried'
  <1>1. queue \in Seq(Jobs) /\ Len(queue) \in Nat /\ DOMAIN queue = 1..Len(queue)
    BY DEF IInv, SlotTypes
  <1>2. /\ queue' \in Seq(Jobs)
        /\ DOMAIN queue' = 1..(Len(queue) + 1)
        /\ queue'[Len(queue) + 1] = j
        /\ \A i \in 1..Len(queue) : queue'[i] = queue[i]
    BY <1>1
  <1>3. \A i \in DOMAIN queue : queue[i].kind # "thenable" => queue[i].value \in Values
    BY DEF IInv, Carried
  <1>4. \A i \in DOMAIN queue' : queue'[i].kind # "thenable" => queue'[i].value \in Values
    BY <1>1, <1>2, <1>3
  <1> QED BY <1>2, <1>4 DEF IInv, Carried, Settled

\* A call of user code is a frame.
LEMMA CallingType ==
  ASSUME NEW fs \in Seq(Frames), NEW p \in Promises,
         NEW place \in {"handler", "then", "body", "hook"}
  PROVE  Calling(fs, place, p) \in Seq(Frames)
  <1>1. [in |-> place, of |-> p, value |-> None] \in Frames
    BY DEF Frames
  <1> QED BY <1>1 DEF Calling

\* So is the read of an object's `then`.
LEMMA GettingType ==
  ASSUME NEW fs \in Seq(Frames), NEW p \in Promises, NEW v \in Objects
  PROVE  Getting(fs, p, v) \in Seq(Frames)
  <1>1. [in |-> "getter", of |-> p, value |-> v] \in Frames
    BY DEF Frames
  <1> QED BY <1>1 DEF Getting

\* Resolving with a value keeps the types, the values and the tracking of
\* rejections.
LEMMA ResolveValueFacts ==
  ASSUME IInv, NEW p \in Promises, NEW v \in Values, NEW fs \in Seq(Frames),
         ResolveValue(p, v, fs), UNCHANGED <<marks, hook>>
  PROVE  SlotTypes' /\ Carried' /\ Tracked' /\ frames' \in Seq(Frames)
  <1>1. CASE v \notin Objects
    <2>1. SettleInternal(p, FALSE, v) /\ frames' = fs
      BY <1>1 DEF ResolveValue
    <2> QED BY <2>1, SettleFacts
  <1>2. CASE v \in Objects
    <2>0. frames' = Getting(fs, p, v) /\ UNCHANGED slots
      BY <1>2 DEF ResolveValue
    <2>1. frames' \in Seq(Frames)
      BY <1>2, <2>0, GettingType
    <2>2. Tracked'
      BY <2>0, TrackedKept DEF IInv, slots
    <2> QED BY <2>0, <2>1, <2>2 DEF IInv, SlotTypes, Carried, Settled, slots
  <1> QED BY <1>1, <1>2

\* So does meeting the outcome of another promise.
LEMMA TakeOutcomeFacts ==
  ASSUME IInv, NEW p \in Promises, NEW rejected \in BOOLEAN, NEW v \in Values,
         TakeOutcome(p, rejected, v), UNCHANGED <<marks, hook>>
  PROVE  SlotTypes' /\ Carried' /\ Tracked' /\ frames' \in Seq(Frames)
  <1>0. frames \in Seq(Frames)
    BY DEF IInv, RestTypes
  <1>1. CASE rejected
    <2>1. SettleInternal(p, TRUE, v) /\ frames' = frames
      BY <1>1 DEF TakeOutcome
    <2> QED BY <1>0, <2>1, SettleFacts
  <1>2. CASE ~rejected
    <2>1. ResolveValue(p, v, frames)
      BY <1>2 DEF TakeOutcome
    <2> QED BY <1>0, <2>1, ResolveValueFacts
  <1> QED BY <1>1, <1>2

\* Each outcome of runResolutionSteps keeps the types, the values and the
\* tracking of rejections.
LEMMA RunResolutionFacts ==
  ASSUME IInv, NEW p \in Promises, NEW x, NEW fs \in Seq(Frames),
         RunResolutionSteps(p, x, fs), UNCHANGED <<marks, hook>>
  PROVE  /\ SlotTypes' /\ Carried' /\ Tracked'
         /\ frames' \in Seq(Frames)
         /\ adopts' \in [Promises -> Promises \union {None}]
  <1>0. adopts \in [Promises -> Promises \union {None}]
    BY DEF IInv, RestTypes
  <1>1. CASE SettleInternal(p, TRUE, p) /\ frames' = fs /\ UNCHANGED adopts
    BY <1>0, <1>1, SettleFacts DEF Values
  <1>2. CASE /\ ResolveValue(p, IF x = "plain" THEN p ELSE <<p>>, fs)
             /\ UNCHANGED adopts
    <2>1. (IF x = "plain" THEN p ELSE <<p>>) \in Values
      BY DEF Values, Objects
    <2> QED BY <1>0, <1>2, <2>1, ResolveValueFacts
  <1>3. CASE /\ x \in Promises \ {p} /\ Exists(x)
             /\ queue' = Append(queue, ThenableJob(p, x))
             /\ adopts' = [adopts EXCEPT ![p] = x]
             /\ frames' = fs
             /\ UNCHANGED <<st, result, reactions, parked, resettled>>
    <2>1. queue' \in Seq(Jobs) /\ Carried'
      BY <1>3, ThenableJobType, EnqueueFacts
    <2>2. Tracked'
      BY <1>3, TrackedKept DEF IInv
    <2> QED BY <1>0, <1>3, <2>1, <2>2 DEF IInv, SlotTypes
  <1> QED BY <1>1, <1>2, <1>3 DEF RunResolutionSteps

\* So does resolving through the latch.
LEMMA ResolvePromiseFacts ==
  ASSUME IInv, NEW p \in Promises, NEW x, NEW fs \in Seq(Frames),
         ResolvePromise(p, x, fs), UNCHANGED <<marks, hook>>
  PROVE  /\ SlotTypes' /\ Carried' /\ Tracked'
         /\ frames' \in Seq(Frames)
         /\ adopts' \in [Promises -> Promises \union {None}]
         /\ resolved' \in [Promises -> BOOLEAN]
  <1>1. CASE resolved[p]
    <2>1. frames' = fs /\ UNCHANGED <<slots, resolved, adopts>>
      BY <1>1 DEF ResolvePromise
    <2>2. Tracked'
      BY <2>1, TrackedKept DEF IInv, slots
    <2> QED BY <2>1, <2>2 DEF IInv, SlotTypes, RestTypes, Carried, Settled, slots
  <1>2. CASE ~resolved[p]
    <2>1. TakeLatch(p) /\ RunResolutionSteps(p, x, fs)
      BY <1>2 DEF ResolvePromise
    <2>2. resolved' \in [Promises -> BOOLEAN]
      BY <2>1 DEF TakeLatch, IInv, RestTypes
    <2> QED BY <2>1, <2>2, RunResolutionFacts
  <1> QED BY <1>1, <1>2

\* So does rejecting through the latch.
LEMMA RejectPromiseFacts ==
  ASSUME IInv, NEW p \in Promises, NEW v \in Values,
         RejectPromise(p, v), UNCHANGED <<marks, hook>>
  PROVE  /\ SlotTypes' /\ Carried' /\ Tracked'
         /\ resolved' \in [Promises -> BOOLEAN]
  <1>1. CASE resolved[p]
    <2>1. UNCHANGED <<slots, resolved>>
      BY <1>1 DEF RejectPromise
    <2>2. Tracked'
      BY <2>1, TrackedKept DEF IInv, slots
    <2> QED BY <2>1, <2>2 DEF IInv, SlotTypes, RestTypes, Carried, Settled, slots
  <1>2. CASE ~resolved[p]
    <2>1. TakeLatch(p) /\ SettleInternal(p, TRUE, v)
      BY <1>2 DEF RejectPromise
    <2>2. resolved' \in [Promises -> BOOLEAN]
      BY <2>1 DEF TakeLatch, IInv, RestTypes
    <2> QED BY <2>1, <2>2, SettleFacts
  <1> QED BY <1>1, <1>2

\* Promises may be made, and no other state changes.
Grows ==
  /\ st' \in [Promises -> {"none", "pending", "fulfilled", "rejected"}]
  /\ \A q \in Promises : st'[q] = st[q] \/ (st[q] = "none" /\ st'[q] = "pending")

\* HostPromiseRejectionTracker(p, "handle") keeps the registry right.
LEMMA HandleFacts ==
  ASSUME IInv, NEW p \in Promises, NEW fs \in Seq(Frames),
         Handle(p, fs), Grows, UNCHANGED hook
  PROVE  /\ parked' \in Seq(Promises) /\ MarkTypes' /\ Tracked'
         /\ frames' \in Seq(Frames)
  <1> USE DEF IInv
  <1>1. /\ handled' = [handled EXCEPT ![p] = TRUE]
        /\ parked' = Unpark(p)
        /\ reported' = [reported EXCEPT ![p] = reported[p] /\ ~TakenBack(p)]
        /\ said' = IF TakenBack(p) THEN said \ {p} ELSE said
        /\ frames' = IF TakenBack(p) THEN Calling(fs, "hook", p) ELSE fs
    BY DEF Handle
  <1>2. parked \in Seq(Promises) /\ Once
    BY DEF SlotTypes, Tracked
  <1>3. frames' \in Seq(Frames)
    BY <1>1, CallingType
  <1>4. parked' \in Seq(Promises) /\ Once'
    BY <1>1, <1>2, UnparkFacts DEF Once
  <1>5. \A q \in Promises : Holds(parked', q) <=> Holds(parked, q) /\ q # p
    BY <1>1, <1>2, UnparkFacts
  <1>6. MarkTypes'
    <2>1. reported' \in [Promises -> BOOLEAN]
      BY <1>1 DEF MarkTypes
    <2>2. handled' \in [Promises -> BOOLEAN] /\ said' \subseteq Promises
      BY <1>1 DEF MarkTypes
    <2> QED BY <2>1, <2>2 DEF MarkTypes
  <1>7. /\ handled'[p] = TRUE
        /\ \A q \in Promises \ {p} : /\ handled'[q] = handled[q]
                                     /\ reported'[q] = reported[q]
                                     /\ q \in said' <=> q \in said
        /\ said' \subseteq said
    BY <1>1 DEF MarkTypes
  <1>8. Unhandled'
    <2>1. ASSUME NEW q \in Promises, st'[q] = "rejected", ~handled'[q]
          PROVE  Holds(parked', q) <=> q \notin said'
      <3>1. q # p /\ st[q] = "rejected" /\ ~handled[q]
        BY <1>7, <2>1 DEF Grows
      <3> QED BY <1>5, <1>7, <3>1 DEF Tracked, Unhandled
    <2>2. ASSUME NEW i \in DOMAIN parked'
          PROVE  st'[parked'[i]] = "rejected" /\ ~handled'[parked'[i]]
      <3>1. parked'[i] \in Promises /\ Holds(parked', parked'[i])
        BY <1>4, <2>2 DEF Holds
      <3>2. parked'[i] # p /\ Holds(parked, parked'[i])
        BY <1>5, <3>1
      <3>3. st[parked'[i]] = "rejected" /\ ~handled[parked'[i]]
        BY <3>2 DEF Holds, Tracked, Unhandled
      <3> QED BY <1>7, <3>1, <3>2, <3>3 DEF Grows
    <2> QED BY <2>1, <2>2 DEF Unhandled
  <1>9. Said'
    BY <1>7 DEF Tracked, Said, Grows, MarkTypes
  <1>10. Standing'
    <2>1. ASSUME hook, NEW q \in said' PROVE ~handled'[q] /\ reported'[q]
      <3>1. q \in Promises /\ q \in said /\ ~handled[q] /\ reported[q] /\ st[q] = "rejected"
        BY <1>7, <2>1 DEF Tracked, Said, Standing, MarkTypes
      <3>2. q # p
        BY <1>1, <2>1, <3>1 DEF TakenBack
      <3> QED BY <1>7, <3>1, <3>2
    <2> QED BY <2>1 DEF Standing
  <1> QED BY <1>3, <1>4, <1>6, <1>8, <1>9, <1>10 DEF Tracked

\* rtPerformPromiseThen adds a reaction to the list or a job to the queue.
LEMMA SubscribeFacts ==
  ASSUME IInv, NEW p \in Promises, NEW r \in Reactions, NEW fs \in Seq(Frames),
         Subscribe(p, r, fs), Grows, UNCHANGED hook
  PROVE  /\ SlotTypes' /\ MarkTypes' /\ Carried' /\ Tracked'
         /\ frames' \in Seq(Frames)
  <1>1. /\ parked' \in Seq(Promises) /\ MarkTypes' /\ Tracked'
        /\ frames' \in Seq(Frames)
    BY HandleFacts DEF Subscribe
  <1>2. UNCHANGED <<result, resettled>>
    BY DEF Subscribe, Handle
  <1>3. \A q \in Promises : Settled(q)' => result'[q] \in Values
    BY <1>2 DEF IInv, Carried, Settled, Grows
  <1>4. CASE /\ reactions' = [reactions EXCEPT ![p] = Append(reactions[p], r)]
             /\ UNCHANGED queue
    <2>1. reactions' \in [Promises -> Seq(Reactions)]
      BY <1>4 DEF IInv, SlotTypes
    <2> QED BY <1>1, <1>2, <1>3, <1>4, <2>1 DEF IInv, SlotTypes, Carried, Grows
  <1>5. CASE /\ Settled(p)
             /\ queue' = Append(queue, JobOf(r, st[p] = "rejected", result[p]))
             /\ UNCHANGED reactions
    <2> DEFINE j == JobOf(r, st[p] = "rejected", result[p])
    <2>1. result[p] \in Values
      BY <1>5 DEF IInv, Carried
    <2>2. j \in Jobs /\ j.value \in Values
      BY <2>1, JobOfType
    <2>3. queue \in Seq(Jobs) /\ Len(queue) \in Nat /\ queue' = Append(queue, j)
      BY <1>5 DEF IInv, SlotTypes
    <2>4. \A i \in DOMAIN queue : queue[i].kind # "thenable" => queue[i].value \in Values
      BY DEF IInv, Carried
    <2> HIDE DEF j
    <2>5. /\ queue' \in Seq(Jobs)
          /\ \A i \in DOMAIN queue' :
               queue'[i].kind # "thenable" => queue'[i].value \in Values
      BY <2>2, <2>3, <2>4
    <2> QED BY <1>1, <1>2, <1>3, <1>5, <2>5 DEF IInv, SlotTypes, Carried, Grows
  <1> QED BY <1>4, <1>5 DEF Subscribe

-----------------------------------------------------------------------------
(* The actions.                                                            *)

\* The running frame, and the frames after its return.
LEMMA FrameFacts ==
  ASSUME IInv, NEW place, Inside(place)
  PROVE  /\ Running \in Promises /\ Popped \in Seq(Frames)
         /\ place = "getter" => ReadFrom \in Objects
  <1>1. frames \in Seq(Frames) /\ frames # <<>>
    BY DEF IInv, RestTypes, Inside
  <1>2. Len(frames) \in Nat /\ Len(frames) > 0
    BY <1>1
  <1>3. frames[Len(frames)] \in Frames
    BY <1>1, <1>2
  <1>4. Popped \in Seq(Frames)
    BY <1>1, <1>2 DEF Popped
  <1> QED BY <1>3, <1>4 DEF Running, ReadFrom, Inside, Frames

\* What a job in flight refers to.
LEMMA JobFacts ==
  ASSUME IInv, at = "job"
  PROVE  /\ job.to \in Promises
         /\ job.rejected \in BOOLEAN
         /\ job.kind # "thenable" => job.value \in Values
  <1>1. job \in Jobs
    BY DEF IInv, ControlTypes
  <1> QED BY <1>1 DEF IInv, JobValue, Jobs

\* The end of a job.
LEMMA JobDoneFacts ==
  ASSUME IInv, JobDone
  PROVE  ControlTypes' /\ JobValue' /\ hook' = hook
  BY DEF IInv, ControlTypes, JobValue, JobDone

\* Steps that leave the control state alone.
LEMMA ControlKept ==
  ASSUME IInv, UNCHANGED control
  PROVE  ControlTypes' /\ JobValue' /\ hook' = hook
  BY DEF IInv, ControlTypes, JobValue, control

\* Steps that leave the slots, the marks and the hook alone.
LEMMA SlotsKept ==
  ASSUME IInv, UNCHANGED <<slots, marks, hook>>
  PROVE  SlotTypes' /\ MarkTypes' /\ Carried' /\ Tracked'
  <1>1. Tracked'
    BY TrackedKept DEF IInv, slots
  <1> QED BY <1>1 DEF IInv, SlotTypes, MarkTypes, Carried, Settled, slots, marks

\* Steps that leave the marks of rejections alone.
LEMMA MarksKept == ASSUME IInv, UNCHANGED marks PROVE MarkTypes'
  BY DEF IInv, MarkTypes, marks

\* Making a promise changes nothing that is tracked.
LEMMA MadeFacts ==
  ASSUME IInv, NEW p \in Promises, st[p] = "none", st' = [st EXCEPT ![p] = "pending"]
  PROVE  /\ Grows
         /\ UNCHANGED <<result, reactions, parked, queue, resettled, marks, hook>>
              => SlotTypes' /\ MarkTypes' /\ Carried' /\ Tracked'
  <1>1. Grows
    BY DEF IInv, SlotTypes, Grows
  <1>2. ASSUME UNCHANGED <<result, reactions, parked, queue, resettled, marks, hook>>
        PROVE  SlotTypes' /\ MarkTypes' /\ Carried' /\ Tracked'
    <2>1. SlotTypes' /\ MarkTypes' /\ Carried'
      BY <1>1, <1>2, MarksKept DEF IInv, SlotTypes, Carried, Settled, Grows
    <2>2. UNCHANGED <<handled, reported, said, parked, hook>>
      BY <1>2 DEF marks
    <2>3. \A q \in Promises : st'[q] = "rejected" <=> st[q] = "rejected"
      BY <1>1 DEF Grows
    <2>4. Unhandled'
      <3>1. \A i \in DOMAIN parked : parked[i] \in Promises
        BY DEF IInv, SlotTypes
      <3> QED BY <2>2, <2>3, <3>1 DEF IInv, Tracked, Unhandled, Holds
    <2>5. Once' /\ Said' /\ Standing'
      BY <2>2, <2>3 DEF IInv, MarkTypes, Tracked, Once, Said, Standing
    <2> QED BY <2>1, <2>4, <2>5 DEF Tracked
  <1> QED BY <1>1, <1>2

\* The pairs of resolving functions keep their type.
LEMMA PairType ==
  ASSUME IInv, NEW p, NEW y \in {"none", "open", "taken"},
         pair' = [pair EXCEPT ![p] = y]
  PROVE  pair' \in [Promises -> {"none", "open", "taken"}]
  BY DEF IInv, RestTypes

\* What user code calls.
LEMMA UserKeeps == ASSUME IInv, User PROVE IInv'
  <1> USE DEF IInv
  <1>1. ASSUME NEW p \in Made, New(p) PROVE IInv'
    <2>1. p \in Promises
      BY DEF Promises
    <2>2. ControlTypes' /\ JobValue' /\ hook' = hook
      BY <1>1, ControlKept DEF New
    <2>3. SlotTypes' /\ MarkTypes' /\ Carried' /\ Tracked'
      BY <1>1, <2>1, <2>2, MadeFacts DEF New
    <2> QED BY <1>1, <2>2, <2>3 DEF New, RestTypes, async
  <1>2. ASSUME NEW p \in Made, Reject(p) PROVE IInv'
    <2>1. p \in Promises
      BY DEF Promises
    <2>2. ControlTypes' /\ JobValue' /\ hook' = hook /\ MarkTypes'
      BY <1>2, ControlKept, MarksKept DEF Reject
    <2>3. SlotTypes' /\ Carried' /\ Tracked' /\ resolved' \in [Promises -> BOOLEAN]
      BY <1>2, <2>1, <2>2, RejectPromiseFacts DEF Reject, Values
    <2> QED BY <1>2, <2>2, <2>3 DEF Reject, RestTypes, async
  <1>3. ASSUME NEW p \in Made, NEW x \in Inputs, Resolve(p, x) PROVE IInv'
    <2>1. p \in Promises /\ frames \in Seq(Frames)
      BY DEF Promises, RestTypes
    <2>2. ControlTypes' /\ JobValue' /\ hook' = hook /\ MarkTypes'
      BY <1>3, ControlKept, MarksKept DEF Resolve
    <2>3. /\ SlotTypes' /\ Carried' /\ Tracked'
          /\ frames' \in Seq(Frames)
          /\ adopts' \in [Promises -> Promises \union {None}]
          /\ resolved' \in [Promises -> BOOLEAN]
      BY <1>3, <2>1, <2>2, ResolvePromiseFacts DEF Resolve
    <2> QED BY <1>3, <2>2, <2>3 DEF Resolve, RestTypes, async
  <1>4. ASSUME NEW p \in Promises, PairReject(p) PROVE IInv'
    <2>1. ControlTypes' /\ JobValue' /\ hook' = hook /\ MarkTypes'
      BY <1>4, ControlKept, MarksKept DEF PairReject
    <2>2. SlotTypes' /\ Carried' /\ Tracked'
      BY <1>4, <2>1, SettleFacts DEF PairReject, Values
    <2>3. pair' \in [Promises -> {"none", "open", "taken"}]
      BY <1>4, PairType DEF PairReject, TakePairLatch
    <2> QED BY <1>4, <2>1, <2>2, <2>3 DEF PairReject, RestTypes, async
  <1>5. ASSUME NEW p \in Promises, NEW x \in Inputs, PairResolve(p, x) PROVE IInv'
    <2>1. ControlTypes' /\ JobValue' /\ hook' = hook /\ MarkTypes'
      BY <1>5, ControlKept, MarksKept DEF PairResolve
    <2>2. frames \in Seq(Frames)
      BY DEF RestTypes
    <2>3. /\ SlotTypes' /\ Carried' /\ Tracked'
          /\ frames' \in Seq(Frames)
          /\ adopts' \in [Promises -> Promises \union {None}]
      BY <1>5, <2>1, <2>2, RunResolutionFacts DEF PairResolve
    <2>4. pair' \in [Promises -> {"none", "open", "taken"}]
      BY <1>5, PairType DEF PairResolve, TakePairLatch
    <2> QED BY <1>5, <2>1, <2>3, <2>4 DEF PairResolve, RestTypes, async
  <1>6. ASSUME NEW p \in Promises, NEW d \in Derived, NEW onF \in BOOLEAN,
               NEW onR \in BOOLEAN, Then(p, d, onF, onR)
        PROVE  IInv'
    <2>1. ControlTypes' /\ JobValue' /\ hook' = hook
      BY <1>6, ControlKept DEF Then
    <2>2. d \in Promises /\ frames \in Seq(Frames)
      BY DEF Promises, RestTypes
    <2>3. Grows
      BY <1>6, <2>2, MadeFacts DEF Then
    <2>4. [kind |-> "then", to |-> d, onF |-> onF, onR |-> onR] \in Reactions
      BY <2>2 DEF Reactions, Kinds
    <2>5. /\ SlotTypes' /\ MarkTypes' /\ Carried' /\ Tracked'
          /\ frames' \in Seq(Frames)
      BY <1>6, <2>1, <2>2, <2>3, <2>4, SubscribeFacts DEF Then
    <2> QED BY <1>6, <2>1, <2>5 DEF Then, RestTypes, async
  <1>7. ASSUME NEW a \in Async, AsyncCall(a) PROVE IInv'
    <2>1. ControlTypes' /\ JobValue' /\ hook' = hook
      BY <1>7, ControlKept DEF AsyncCall
    <2>2. a \in Promises /\ frames \in Seq(Frames)
      BY DEF Promises, RestTypes
    <2>3. SlotTypes' /\ MarkTypes' /\ Carried' /\ Tracked'
      BY <1>7, <2>1, <2>2, MadeFacts DEF AsyncCall
    <2>4. frames' \in Seq(Frames)
      BY <1>7, <2>2, CallingType DEF AsyncCall
    <2>5. machine' \in [Async -> Machines]
      BY <1>7 DEF AsyncCall, RestTypes, Machines
    <2> QED BY <1>7, <2>1, <2>3, <2>4, <2>5 DEF AsyncCall, RestTypes
  <1> QED BY <1>1, <1>2, <1>3, <1>4, <1>5, <1>6, <1>7 DEF User

\* What user code returns to.
LEMMA UserEndsKeeps == ASSUME IInv, UserEnds PROVE IInv'
  <1> USE DEF IInv
  <1>1. ASSUME NEW p \in Promises, BodyAwaits(p) PROVE IInv'
    <2>1. ControlTypes' /\ JobValue' /\ hook' = hook
      BY <1>1, ControlKept DEF BodyAwaits
    <2>2. Running \in Promises /\ Popped \in Seq(Frames)
      BY <1>1, FrameFacts DEF BodyAwaits
    <2>3. [kind |-> "await", to |-> Running, onF |-> TRUE, onR |-> TRUE] \in Reactions
      BY <2>2 DEF Reactions, Kinds
    <2>4. Grows
      BY <1>1 DEF BodyAwaits, Grows, SlotTypes
    <2>5. /\ SlotTypes' /\ MarkTypes' /\ Carried' /\ Tracked'
          /\ frames' \in Seq(Frames)
      BY <1>1, <2>1, <2>2, <2>3, <2>4, SubscribeFacts DEF BodyAwaits
    <2>6. /\ machine' \in [Async -> Machines]
          /\ waiting' \in [Async -> Promises \union {None}]
      BY <1>1 DEF BodyAwaits, RestTypes, Machines
    <2> QED BY <1>1, <2>1, <2>5, <2>6 DEF BodyAwaits, RestTypes
  <1>2. ASSUME NEW x \in Inputs, BodyReturns(x) PROVE IInv'
    <2>1. ControlTypes' /\ JobValue' /\ hook' = hook /\ MarkTypes'
      BY <1>2, ControlKept, MarksKept DEF BodyReturns
    <2>2. Running \in Promises /\ Popped \in Seq(Frames)
      BY <1>2, FrameFacts DEF BodyReturns
    <2>3. /\ SlotTypes' /\ Carried' /\ Tracked'
          /\ frames' \in Seq(Frames)
          /\ adopts' \in [Promises -> Promises \union {None}]
          /\ resolved' \in [Promises -> BOOLEAN]
      BY <1>2, <2>1, <2>2, ResolvePromiseFacts DEF BodyReturns
    <2>4. machine' \in [Async -> Machines]
      BY <1>2 DEF BodyReturns, RestTypes, Machines
    <2> QED BY <1>2, <2>1, <2>3, <2>4 DEF BodyReturns, RestTypes
  <1>3. ASSUME NEW x \in Inputs, HandlerReturns(x) PROVE IInv'
    <2>1. ControlTypes' /\ JobValue' /\ hook' = hook /\ MarkTypes'
      BY <1>3, ControlKept, MarksKept DEF HandlerReturns
    <2>2. Running \in Promises /\ Popped \in Seq(Frames)
      BY <1>3, FrameFacts DEF HandlerReturns
    <2>3. /\ SlotTypes' /\ Carried' /\ Tracked'
          /\ frames' \in Seq(Frames)
          /\ adopts' \in [Promises -> Promises \union {None}]
          /\ resolved' \in [Promises -> BOOLEAN]
      BY <1>3, <2>1, <2>2, ResolvePromiseFacts DEF HandlerReturns
    <2> QED BY <1>3, <2>1, <2>3 DEF HandlerReturns, RestTypes, async
  <1>4. ASSUME NEW got \in {"value", "thenable", "throw"}, GetterReturns(got) PROVE IInv'
    <2>1. ControlTypes' /\ JobValue' /\ hook' = hook /\ MarkTypes'
      BY <1>4, ControlKept, MarksKept DEF GetterReturns
    <2>2. /\ Running \in Promises /\ Popped \in Seq(Frames)
          /\ Running \in Values /\ ReadFrom \in Values
      BY <1>4, FrameFacts DEF GetterReturns, Values
    <2>3. SlotTypes' /\ Carried' /\ Tracked'
      <3>1. CASE SettleInternal(Running, FALSE, ReadFrom) \/ SettleInternal(Running, TRUE, Running)
        BY <1>4, <2>1, <2>2, <3>1, SettleFacts DEF GetterReturns
      <3>2. CASE /\ queue' = Append(queue, ThenableJob(Running, Foreign))
                 /\ UNCHANGED <<st, result, reactions, parked, resettled>>
        <4>1. queue' \in Seq(Jobs) /\ Carried'
          BY <2>2, <3>2, ThenableJobType, EnqueueFacts
        <4>2. Tracked'
          BY <1>4, <2>1, <3>2, TrackedKept DEF GetterReturns
        <4> QED BY <3>2, <4>1, <4>2 DEF SlotTypes
      <3> QED BY <1>4, <3>1, <3>2 DEF GetterReturns
    <2>4. adopts' \in [Promises -> Promises \union {None}]
      BY <1>4, <2>2 DEF GetterReturns, RestTypes
    <2> QED BY <1>4, <2>1, <2>2, <2>3, <2>4 DEF GetterReturns, RestTypes, async
  <1>5. ASSUME NEW threw \in BOOLEAN, ThenEnds(threw) PROVE IInv'
    <2>1. ControlTypes' /\ JobValue' /\ hook' = hook /\ MarkTypes'
      BY <1>5, ControlKept, MarksKept DEF ThenEnds
    <2>2. Running \in Promises /\ Popped \in Seq(Frames)
      BY <1>5, FrameFacts DEF ThenEnds
    <2>3. /\ SlotTypes' /\ Carried' /\ Tracked'
          /\ pair' \in [Promises -> {"none", "open", "taken"}]
      <3>1. CASE TakePairLatch(Running) /\ SettleInternal(Running, TRUE, Running)
        BY <1>5, <2>1, <2>2, <3>1, SettleFacts, PairType
           DEF ThenEnds, TakePairLatch, Values
      <3>2. CASE UNCHANGED <<slots, pair>>
        BY <1>5, <2>1, <3>2, SlotsKept DEF ThenEnds, RestTypes
      <3> QED BY <1>5, <3>1, <3>2 DEF ThenEnds
    <2> QED BY <1>5, <2>1, <2>2, <2>3 DEF ThenEnds, RestTypes, async
  <1>6. ASSUME BodyThrows PROVE IInv'
    <2>1. ControlTypes' /\ JobValue' /\ hook' = hook /\ MarkTypes'
      BY <1>6, ControlKept, MarksKept DEF BodyThrows
    <2>2. Running \in Promises /\ Popped \in Seq(Frames)
      BY <1>6, FrameFacts DEF BodyThrows
    <2>3. SlotTypes' /\ Carried' /\ Tracked' /\ resolved' \in [Promises -> BOOLEAN]
      BY <1>6, <2>1, <2>2, RejectPromiseFacts DEF BodyThrows, Values
    <2>4. machine' \in [Async -> Machines]
      BY <1>6 DEF BodyThrows, RestTypes, Machines
    <2> QED BY <1>6, <2>1, <2>2, <2>3, <2>4 DEF BodyThrows, RestTypes
  <1>7. ASSUME HandlerThrows PROVE IInv'
    <2>1. ControlTypes' /\ JobValue' /\ hook' = hook /\ MarkTypes'
      BY <1>7, ControlKept, MarksKept DEF HandlerThrows
    <2>2. Running \in Promises /\ Popped \in Seq(Frames)
      BY <1>7, FrameFacts DEF HandlerThrows
    <2>3. SlotTypes' /\ Carried' /\ Tracked' /\ resolved' \in [Promises -> BOOLEAN]
      BY <1>7, <2>1, <2>2, RejectPromiseFacts DEF HandlerThrows, Values
    <2> QED BY <1>7, <2>1, <2>2, <2>3 DEF HandlerThrows, RestTypes, async
  <1>8. ASSUME HookReturns PROVE IInv'
    <2>1. ControlTypes' /\ JobValue' /\ hook' = hook
      BY <1>8, ControlKept DEF HookReturns
    <2>2. Popped \in Seq(Frames)
      BY <1>8, FrameFacts DEF HookReturns
    <2>3. SlotTypes' /\ MarkTypes' /\ Carried' /\ Tracked'
      BY <1>8, <2>1, SlotsKept DEF HookReturns
    <2> QED BY <1>8, <2>1, <2>2, <2>3 DEF HookReturns, RestTypes, async
  <1> QED BY <1>1, <1>2, <1>3, <1>4, <1>5, <1>6, <1>7, <1>8 DEF UserEnds

\* Taking the head of a queue of jobs.
LEMMA TakeFacts ==
  ASSUME IInv, queue # <<>>
  PROVE  /\ Head(queue) \in Jobs /\ Tail(queue) \in Seq(Jobs)
         /\ Head(queue).kind # "thenable" => Head(queue).value \in Values
         /\ \A i \in DOMAIN Tail(queue) :
              Tail(queue)[i].kind # "thenable" => Tail(queue)[i].value \in Values
  <1>1. queue \in Seq(Jobs) /\ Len(queue) \in Nat /\ Len(queue) > 0
    BY DEF IInv, SlotTypes
  <1>2. /\ Head(queue) = queue[1] /\ 1 \in DOMAIN queue
        /\ Tail(queue) \in Seq(Jobs)
        /\ \A i \in DOMAIN Tail(queue) : (i + 1) \in DOMAIN queue /\ Tail(queue)[i] = queue[i + 1]
    BY <1>1
  <1>3. \A i \in DOMAIN queue : queue[i].kind # "thenable" => queue[i].value \in Values
    BY DEF IInv, Carried
  <1> QED BY <1>1, <1>2, <1>3

\* Taking the head of the registry.
LEMMA ParkedHead ==
  ASSUME IInv, parked # <<>>
  PROVE  /\ Head(parked) \in Promises /\ Tail(parked) \in Seq(Promises)
         /\ st[Head(parked)] = "rejected" /\ ~handled[Head(parked)]
         /\ \A q \in Promises : Holds(Tail(parked), q) <=> Holds(parked, q) /\ q # Head(parked)
         /\ \A i, j \in DOMAIN Tail(parked) : Tail(parked)[i] = Tail(parked)[j] => i = j
  <1> DEFINE t == Tail(parked)
             n == Len(parked)
  <1>1. parked \in Seq(Promises) /\ n \in Nat /\ n > 0 /\ DOMAIN parked = 1..n
    BY DEF IInv, SlotTypes
  <1>2. /\ Head(parked) = parked[1] /\ 1 \in 1..n
        /\ t \in Seq(Promises) /\ DOMAIN t = 1..(n - 1)
        /\ \A i \in 1..(n - 1) : (i + 1) \in 1..n /\ t[i] = parked[i + 1]
    BY <1>1
  <1>3. st[parked[1]] = "rejected" /\ ~handled[parked[1]]
    BY <1>1, <1>2 DEF IInv, Tracked, Unhandled
  <1>4. \A i, j \in 1..n : parked[i] = parked[j] => i = j
    BY <1>1 DEF IInv, Tracked, Once
  <1> HIDE DEF t, n
  <1>5. ASSUME NEW q \in Promises, Holds(t, q) PROVE Holds(parked, q) /\ q # parked[1]
    BY <1>1, <1>2, <1>4, <1>5 DEF Holds
  <1>6. ASSUME NEW q \in Promises, Holds(parked, q), q # parked[1] PROVE Holds(t, q)
    <2>1. PICK i \in 1..n : parked[i] = q
      BY <1>1, <1>6 DEF Holds
    <2>2. i > 1 /\ (i - 1) \in 1..(n - 1) /\ t[i - 1] = parked[i]
      BY <1>1, <1>2, <1>6, <2>1
    <2> QED BY <1>2, <2>1, <2>2 DEF Holds
  <1>7. \A i, j \in DOMAIN t : t[i] = t[j] => i = j
    BY <1>1, <1>2, <1>4
  <1> QED BY <1>1, <1>2, <1>3, <1>5, <1>6, <1>7 DEF t

\* The jobs and the reports.
LEMMA DrainKeeps == ASSUME IInv, Drain PROVE IInv'
  <1> USE DEF IInv
  <1>1. ASSUME DrainStarts PROVE IInv'
    <2>1. SlotTypes' /\ MarkTypes' /\ Carried' /\ Tracked'
      BY <1>1, SlotsKept DEF DrainStarts
    <2>2. ControlTypes' /\ JobValue'
      BY <1>1 DEF DrainStarts, ControlTypes, JobValue
    <2> QED BY <1>1, <2>1, <2>2 DEF DrainStarts, RestTypes, async
  <1>2. ASSUME TakeJob PROVE IInv'
    <2>1. /\ job' = Head(queue) /\ queue' = Tail(queue) /\ at' = "job"
          /\ queue # <<>>
          /\ UNCHANGED <<st, result, reactions, parked, resettled, marks, hook>>
      BY <1>2 DEF TakeJob, NextJob
    <2>2. SlotTypes' /\ Carried'
      BY <2>1, TakeFacts DEF SlotTypes, Carried, Settled
    <2>3. ControlTypes' /\ JobValue'
      BY <1>2, <2>1, TakeFacts, NoneAssumption DEF TakeJob, ControlTypes, JobValue
    <2>4. Tracked' /\ MarkTypes'
      BY <2>1, TrackedKept, MarksKept
    <2> QED BY <1>2, <2>2, <2>3, <2>4 DEF TakeJob, RestTypes, async
  <1>3. ASSUME PassThrough PROVE IInv'
    <2>1. ControlTypes' /\ JobValue' /\ hook' = hook /\ MarkTypes'
      BY <1>3, JobDoneFacts, MarksKept DEF PassThrough
    <2>2. job.to \in Promises /\ job.rejected \in BOOLEAN /\ job.value \in Values
      BY <1>3, JobFacts DEF PassThrough
    <2>3. /\ SlotTypes' /\ Carried' /\ Tracked'
          /\ frames' \in Seq(Frames) /\ resolved' \in [Promises -> BOOLEAN]
      <3>1. CASE resolved[job.to]
        BY <1>3, <2>1, <3>1, SlotsKept DEF PassThrough, RestTypes
      <3>2. CASE ~resolved[job.to]
        <4>1. TakeOutcome(job.to, job.rejected, job.value)
          BY <1>3, <3>2 DEF PassThrough
        <4>2. UNCHANGED <<marks, hook>>
          BY <1>3, <2>1 DEF PassThrough
        <4>3. SlotTypes' /\ Carried' /\ Tracked' /\ frames' \in Seq(Frames)
          BY <2>2, <4>1, <4>2, TakeOutcomeFacts
        <4> QED BY <1>3, <3>2, <4>3 DEF PassThrough, TakeLatch, RestTypes
      <3> QED BY <3>1, <3>2
    <2> QED BY <1>3, <2>1, <2>3 DEF PassThrough, RestTypes, async
  <1>4. ASSUME CallHandler PROVE IInv'
    <2>1. ControlTypes' /\ JobValue' /\ hook' = hook
      BY <1>4, JobDoneFacts DEF CallHandler
    <2>2. SlotTypes' /\ MarkTypes' /\ Carried' /\ Tracked'
      BY <1>4, <2>1, SlotsKept DEF CallHandler
    <2>3. frames' \in Seq(Frames)
      BY <1>4, JobFacts, CallingType DEF CallHandler, RestTypes
    <2> QED BY <1>4, <2>1, <2>2, <2>3 DEF CallHandler, RestTypes, async
  <1>5. ASSUME ResumeBody PROVE IInv'
    <2>1. ControlTypes' /\ JobValue' /\ hook' = hook
      BY <1>5, JobDoneFacts DEF ResumeBody
    <2>2. SlotTypes' /\ MarkTypes' /\ Carried' /\ Tracked'
      BY <1>5, <2>1, SlotsKept DEF ResumeBody
    <2>3. frames' \in Seq(Frames)
      BY <1>5, JobFacts, CallingType DEF ResumeBody, RestTypes
    <2>4. /\ machine' \in [Async -> Machines]
          /\ waiting' \in [Async -> Promises \union {None}]
      BY <1>5 DEF ResumeBody, RestTypes, Machines
    <2> QED BY <1>5, <2>1, <2>2, <2>3, <2>4 DEF ResumeBody, RestTypes
  <1>6. ASSUME AdoptedSettled PROVE IInv'
    <2>1. ControlTypes' /\ JobValue' /\ hook' = hook /\ MarkTypes'
      BY <1>6, JobDoneFacts, MarksKept DEF AdoptedSettled
    <2>2. job.to \in Promises /\ job.rejected \in BOOLEAN /\ job.value \in Values
      BY <1>6, JobFacts DEF AdoptedSettled
    <2>3. SlotTypes' /\ Carried' /\ Tracked' /\ frames' \in Seq(Frames)
      BY <1>6, <2>1, <2>2, TakeOutcomeFacts DEF AdoptedSettled, SettlePair
    <2> QED BY <1>6, <2>1, <2>3 DEF AdoptedSettled, RestTypes, async
  <1>7. ASSUME AdoptPromise PROVE IInv'
    <2>1. ControlTypes' /\ JobValue' /\ hook' = hook
      BY <1>7, JobDoneFacts DEF AdoptPromise
    <2>2. job.to \in Promises /\ job.value \in Promises /\ frames \in Seq(Frames)
      BY <1>7, JobFacts DEF AdoptPromise, RestTypes
    <2>3. [kind |-> "pair", to |-> job.to, onF |-> TRUE, onR |-> TRUE] \in Reactions
      BY <2>2 DEF Reactions, Kinds
    <2>4. Grows
      BY <1>7 DEF AdoptPromise, Grows, SlotTypes
    <2>5. /\ SlotTypes' /\ MarkTypes' /\ Carried' /\ Tracked'
          /\ frames' \in Seq(Frames)
      BY <1>7, <2>1, <2>2, <2>3, <2>4, SubscribeFacts DEF AdoptPromise
    <2> QED BY <1>7, <2>1, <2>5 DEF AdoptPromise, RestTypes, async
  <1>8. ASSUME CallForeignThen PROVE IInv'
    <2>1. ControlTypes' /\ JobValue' /\ hook' = hook
      BY <1>8, JobDoneFacts DEF CallForeignThen
    <2>2. SlotTypes' /\ MarkTypes' /\ Carried' /\ Tracked'
      BY <1>8, <2>1, SlotsKept DEF CallForeignThen
    <2>3. frames' \in Seq(Frames)
      BY <1>8, JobFacts, CallingType DEF CallForeignThen, RestTypes
    <2>4. pair' \in [Promises -> {"none", "open", "taken"}]
      BY <1>8, PairType DEF CallForeignThen
    <2> QED BY <1>8, <2>1, <2>2, <2>3, <2>4 DEF CallForeignThen, RestTypes, async
  <1>9. ASSUME ReportAll PROVE IInv'
    <2>1. /\ said' = said \union {parked[i] : i \in DOMAIN parked} /\ parked' = <<>>
          /\ UNCHANGED <<st, result, reactions, queue, resettled, handled, reported, hook>>
          /\ ~hook
      BY <1>9 DEF ReportAll
    <2>2. parked \in Seq(Promises)
      BY DEF SlotTypes
    <2>3. SlotTypes' /\ MarkTypes' /\ Carried'
      BY <2>1, <2>2 DEF SlotTypes, MarkTypes, Carried, Settled
    <2>4. Unhandled'
      <3>1. DOMAIN parked' = {}
        BY <2>1
      <3>2. ASSUME NEW q \in Promises, st[q] = "rejected", ~handled[q]
            PROVE  q \in said'
        BY <2>1, <3>2 DEF Tracked, Unhandled, Holds
      <3> QED BY <2>1, <3>1, <3>2 DEF Unhandled, Holds
    <2>5. Once' /\ Said' /\ Standing'
      BY <2>1, <2>2 DEF Tracked, Unhandled, Once, Said, Standing
    <2>6. ControlTypes' /\ JobValue'
      BY <1>9 DEF ReportAll, ControlTypes, JobValue
    <2> QED BY <1>9, <2>3, <2>4, <2>5, <2>6 DEF ReportAll, Tracked, RestTypes, async
  <1>10. ASSUME ReportStarts PROVE IInv'
    <2>1. SlotTypes' /\ MarkTypes' /\ Carried' /\ Tracked'
      BY <1>10, SlotsKept DEF ReportStarts
    <2>2. ControlTypes' /\ JobValue'
      BY <1>10 DEF ReportStarts, ControlTypes, JobValue, SlotTypes
    <2> QED BY <1>10, <2>1, <2>2 DEF ReportStarts, RestTypes, async
  <1>11. ASSUME ReportNext PROVE IInv'
    <2> DEFINE p == Head(parked)
    <2>1. /\ parked # <<>> /\ parked' = Tail(parked)
          /\ reported' = [reported EXCEPT ![p] = TRUE]
          /\ said' = said \union {p}
          /\ frames' = Calling(frames, "hook", p)
          /\ UNCHANGED <<st, result, reactions, queue, resettled, handled, hook>>
      BY <1>11 DEF ReportNext
    <2>2. /\ p \in Promises /\ parked' \in Seq(Promises)
          /\ st[p] = "rejected" /\ ~handled[p]
          /\ \A q \in Promises : Holds(parked', q) <=> Holds(parked, q) /\ q # p
          /\ Once'
      BY <2>1, ParkedHead DEF Once
    <2> HIDE DEF p
    <2>3. SlotTypes' /\ MarkTypes' /\ Carried'
      BY <2>1, <2>2 DEF SlotTypes, MarkTypes, Carried, Settled
    <2>4. frames' \in Seq(Frames)
      BY <2>1, <2>2, CallingType DEF RestTypes
    <2>5. Unhandled'
      <3>1. ASSUME NEW q \in Promises, st'[q] = "rejected", ~handled'[q]
            PROVE  Holds(parked', q) <=> q \notin said'
        BY <2>1, <2>2, <3>1 DEF Tracked, Unhandled
      <3>2. ASSUME NEW i \in DOMAIN parked'
            PROVE  st'[parked'[i]] = "rejected" /\ ~handled'[parked'[i]]
        <4>1. parked'[i] \in Promises /\ Holds(parked', parked'[i])
          BY <2>2, <3>2 DEF Holds
        <4>2. Holds(parked, parked'[i])
          BY <2>2, <4>1
        <4> QED BY <2>1, <4>2 DEF Tracked, Unhandled, Holds
      <3> QED BY <3>1, <3>2 DEF Unhandled
    <2>6. Said' /\ Standing'
      BY <2>1, <2>2 DEF MarkTypes, Tracked, Said, Standing
    <2>7. ControlTypes' /\ JobValue'
      BY <1>11 DEF ReportNext, ControlTypes, JobValue
    <2> QED BY <1>11, <2>2, <2>3, <2>4, <2>5, <2>6, <2>7
            DEF ReportNext, Tracked, RestTypes, async
  <1>12. ASSUME ReportEnds PROVE IInv'
    <2>1. SlotTypes' /\ MarkTypes' /\ Carried' /\ Tracked'
      BY <1>12, SlotsKept DEF ReportEnds
    <2>2. ControlTypes' /\ JobValue'
      BY <1>12 DEF ReportEnds, ControlTypes, JobValue
    <2> QED BY <1>12, <2>1, <2>2 DEF ReportEnds, RestTypes, async
  <1> QED BY <1>1, <1>2, <1>3, <1>4, <1>5, <1>6, <1>7, <1>8, <1>9, <1>10, <1>11, <1>12
          DEF Drain

-----------------------------------------------------------------------------
(* The theorems.                                                           *)

\* The initial state satisfies the inductive invariant.
LEMMA InitIInv == ASSUME Init PROVE IInv
  <1>1. SlotTypes /\ MarkTypes /\ ControlTypes /\ RestTypes
    <2>1. SlotTypes
      <3>1. <<>> \in Seq(Reactions) /\ <<>> \in Seq(Jobs) /\ <<>> \in Seq(Promises)
        OBVIOUS
      <3>2. queue \in Seq(Jobs) /\ parked \in Seq(Promises) /\ resettled \in BOOLEAN
        BY <3>1 DEF Init
      <3>3. reactions \in [Promises -> Seq(Reactions)]
        BY <3>1 DEF Init
      <3>4. /\ st \in [Promises -> {"none", "pending", "fulfilled", "rejected"}]
            /\ result \in [Promises -> Values \union {None}]
        BY DEF Init
      <3> QED BY <3>2, <3>3, <3>4 DEF SlotTypes
    <2>2. MarkTypes /\ ControlTypes
      BY DEF Init, MarkTypes, ControlTypes
    <2>3. frames \in Seq(Frames) /\ resolved \in [Promises -> BOOLEAN]
      BY DEF Init
    <2>4. RestTypes
      BY <2>3 DEF Init, RestTypes, Machines
    <2> QED BY <2>1, <2>2, <2>4
  <1>2. Carried /\ JobValue
    BY DEF Init, Carried, JobValue, Settled
  <1>3. Tracked
    BY DEF Init, Tracked, Unhandled, Once, Said, Standing, Holds
  <1> QED BY <1>1, <1>2, <1>3 DEF IInv

\* A step that changes nothing.
LEMMA StutterKeeps == ASSUME IInv, UNCHANGED vars PROVE IInv'
  <1>1. UNCHANGED <<slots, marks, control, resolved, pair, frames, async, adopts>>
    BY DEF vars
  <1>2. ControlTypes' /\ JobValue' /\ hook' = hook
    BY <1>1, ControlKept
  <1>3. SlotTypes' /\ MarkTypes' /\ Carried' /\ Tracked'
    BY <1>1, <1>2, SlotsKept
  <1> QED BY <1>1, <1>2, <1>3 DEF IInv, RestTypes, async

\* The inductive invariant holds of every behaviour.
LEMMA Inductive == Spec => []IInv
  <1>1. Init => IInv
    BY InitIInv
  <1>2. IInv /\ [Next]_vars => IInv'
    BY UserKeeps, UserEndsKeeps, DrainKeeps, StutterKeeps DEF Next
  <1> QED BY <1>1, <1>2, PTL DEF Spec

\* Every slot, list, queue and frame of the runtime keeps its type, and a job
\* is in flight exactly while the drain is inside one.
THEOREM TypeCorrect == Spec => []TypeOK
  <1>1. IInv => TypeOK
    BY PartsOfTypeOK DEF IInv
  <1> QED BY <1>1, Inductive, PTL

\* Whatever the jobs, the handlers and the rejection hook do, an unhandled
\* rejection is parked or was reported and not both, the registry holds only
\* unhandled rejections, each once, and a report stands until it is taken back.
THEOREM UnhandledReported == Spec => []RejectionsTracked
  <1>1. IInv => RejectionsTracked
    BY TrackedImplies DEF IInv
  <1> QED BY <1>1, Inductive, PTL
=============================================================================
