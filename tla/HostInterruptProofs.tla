------------------------- MODULE HostInterruptProofs -------------------------
(***************************************************************************)
(* For any number of requests under way and a store buffer of any size: a  *)
(* pending request whose arm was not taken away is on its way, and         *)
(* coalescing loses none.                                                  *)
(***************************************************************************)
EXTENDS HostInterrupt, TLAPS

\* A store of the owning thread changes what fn will be for none of the stores
\* before it, and unless it is a store of fn, for itself neither.
LEMMA AppendKeepsFn ==
  ASSUME NEW f \in BOOLEAN, NEW b \in Seq(Stores), NEW s \in Stores
  PROVE  LET c == Append(b, s)
         IN  /\ c \in Seq(Stores) /\ Len(c) = Len(b) + 1
             /\ \A i \in 1..Len(b) : c[i] = b[i]
             /\ c[Len(b) + 1] = s
             /\ \A i \in 0..Len(b) : FnAfter(f, c, i) <=> FnAfter(f, b, i)
             /\ s \in {"clear", "limit"} =>
                  (FnAfter(f, c, Len(c)) <=> FnAfter(f, b, Len(b)))
             /\ s = "nofn" => ~FnAfter(f, c, Len(c))
<1> DEFINE c == Append(b, s)
<1>1. /\ c \in Seq(Stores) /\ Len(c) = Len(b) + 1
      /\ \A i \in 1..Len(b) : c[i] = b[i]
      /\ c[Len(b) + 1] = s
  OBVIOUS
<1> HIDE DEF c
<1>2. \A i \in 0..Len(b) : FnAfter(f, c, i) <=> FnAfter(f, b, i)
  BY <1>1 DEF FnAfter
<1>3. ASSUME s \in {"clear", "limit"}
      PROVE  FnAfter(f, c, Len(c)) <=> FnAfter(f, b, Len(b))
  <2>1. c[Len(b) + 1] \notin {"fn", "nofn"} /\ Len(b) \in Nat
    BY <1>1, <1>3
  <2> QED
    BY <2>1, <1>1 DEF FnAfter
<1>4. ASSUME s = "nofn" PROVE ~FnAfter(f, c, Len(c))
  <2>1. c[Len(c)] = "nofn" /\ Len(c) \in Nat /\ Len(c) >= 1
    BY <1>1, <1>4
  <2> QED
    BY <2>1 DEF FnAfter
<1> QED
  BY <1>1, <1>2, <1>3, <1>4 DEF c

\* The oldest store reaching memory changes what fn will be for none of the
\* others: what the thread reads of fn stays as it was.
LEMMA TailKeepsFn ==
  ASSUME NEW f \in BOOLEAN, NEW b \in Seq(Stores), b # <<>>,
         NEW g \in BOOLEAN,
         g = IF b[1] \in {"fn", "nofn"} THEN b[1] = "fn" ELSE f
  PROVE  LET c == Tail(b)
         IN  /\ Len(b) >= 1 /\ Head(b) = b[1]
             /\ c \in Seq(Stores) /\ Len(c) = Len(b) - 1
             /\ \A i \in 1..Len(c) : c[i] = b[i + 1]
             /\ \A i \in 0..Len(c) : FnAfter(g, c, i) <=> FnAfter(f, b, i + 1)
<1> DEFINE c == Tail(b)
<1>1. /\ Len(b) >= 1 /\ Head(b) = b[1]
      /\ c \in Seq(Stores) /\ Len(c) = Len(b) - 1
      /\ \A i \in 1..Len(c) : c[i] = b[i + 1]
  OBVIOUS
<1> HIDE DEF c
<1>2. ASSUME NEW i \in 0..Len(c) PROVE FnAfter(g, c, i) <=> FnAfter(f, b, i + 1)
  <2>0. /\ \A k \in 1..i : c[k] = b[k + 1] /\ k + 1 \in 1..(i + 1)
        /\ i \in Nat /\ 1 \in 1..(i + 1)
    BY <1>1
  <2>00. \A k \in 2..(i + 1) : b[k] = c[k - 1] /\ k - 1 \in 1..i
    <3> SUFFICES ASSUME NEW k \in 2..(i + 1) PROVE b[k] = c[k - 1] /\ k - 1 \in 1..i
      OBVIOUS
    <3>1. k - 1 \in 1..i /\ (k - 1) + 1 = k
      BY <2>0
    <3> QED
      BY <3>1, <2>0
  <2>1. ASSUME FnAfter(g, c, i) PROVE FnAfter(f, b, i + 1)
    <3>1. CASE g /\ \A j \in 1..i : c[j] # "nofn"
      <4>1. \A j \in 2..(i + 1) : b[j] # "nofn"
        BY <3>1, <2>00
      <4>2. b[1] = "fn" \/ (f /\ b[1] # "nofn")
        BY <3>1
      <4>3. \A j \in 1..(i + 1) : b[j] # "nofn"
        BY <4>1, <4>2, <2>0
      <4> QED
        BY <4>2, <4>3, <2>0 DEF FnAfter
    <3>2. ASSUME NEW j \in 1..i, c[j] = "fn", \A k \in j..i : c[k] # "nofn"
          PROVE  FnAfter(f, b, i + 1)
      <4>1. j + 1 \in 1..(i + 1) /\ b[j + 1] = "fn"
        BY <3>2, <2>0
      <4>2. \A k \in (j + 1)..(i + 1) : b[k] # "nofn"
        <5> SUFFICES ASSUME NEW k \in (j + 1)..(i + 1) PROVE b[k] # "nofn"
          OBVIOUS
        <5>1. k \in 2..(i + 1) /\ k - 1 \in j..i
          BY <2>0
        <5> QED
          BY <5>1, <3>2, <2>00
      <4> QED
        BY <4>1, <4>2 DEF FnAfter
    <3> QED
      BY <2>1, <3>1, <3>2 DEF FnAfter
  <2>2. ASSUME FnAfter(f, b, i + 1) PROVE FnAfter(g, c, i)
    <3>1. CASE f /\ \A j \in 1..(i + 1) : b[j] # "nofn"
      BY <2>0, <3>1 DEF FnAfter
    <3>2. ASSUME NEW j \in 1..(i + 1), b[j] = "fn",
                 \A k \in j..(i + 1) : b[k] # "nofn"
          PROVE  FnAfter(g, c, i)
      <4>1. CASE j = 1
        BY <2>0, <3>2, <4>1 DEF FnAfter
      <4>2. CASE j # 1
        <5>1. j - 1 \in 1..i /\ c[j - 1] = "fn"
          BY <2>0, <2>00, <3>2, <4>2
        <5>2. \A k \in (j - 1)..i : c[k] # "nofn"
          <6> SUFFICES ASSUME NEW k \in (j - 1)..i PROVE c[k] # "nofn"
            OBVIOUS
          <6>1. k \in 1..i /\ k + 1 \in j..(i + 1)
            BY <2>0, <4>2
          <6> QED
            BY <6>1, <2>0, <3>2
        <5> QED
          BY <5>1, <5>2 DEF FnAfter
      <4> QED
        BY <4>1, <4>2
    <3> QED
      BY <2>2, <3>1, <3>2 DEF FnAfter
  <2> QED
    BY <2>1, <2>2
<1> QED
  BY <1>1, <1>2 DEF c

\* What a step of the owning thread that stores does to its buffer.
LEMMA StoreStep ==
  ASSUME TypeOK, NEW s \in Stores, Store(s), fn' = fn
  PROVE  /\ buffer' \in Seq(Stores) /\ Len(buffer') <= MaxStores
         /\ Len(buffer') = Len(buffer) + 1
         /\ \A i \in 1..Len(buffer) : buffer'[i] = buffer[i]
         /\ buffer'[Len(buffer) + 1] = s
         /\ \A i \in 0..Len(buffer) :
              FnAfter(fn', buffer', i) <=> FnAfter(fn, buffer, i)
         /\ s \in {"clear", "limit"} => (SeesFn' <=> SeesFn)
         /\ s = "nofn" => ~SeesFn'
<1>1. fn \in BOOLEAN /\ buffer \in Seq(Stores) /\ buffer' = Append(buffer, s)
      /\ Len(buffer) < MaxStores
  BY DEF TypeOK, Store
<1>2. Len(buffer) + 1 <= MaxStores
  BY <1>1, MaxStoresAssumption
<1> QED
  BY <1>1, <1>2, AppendKeepsFn DEF SeesFn

\* What the oldest store reaching memory does to the buffer.
LEMMA DrainStep ==
  ASSUME TypeOK, Drain
  PROVE  /\ Len(buffer) \in Nat /\ Len(buffer) >= 1 /\ Head(buffer) = buffer[1]
         /\ buffer' \in Seq(Stores) /\ Len(buffer') <= MaxStores
         /\ Len(buffer') = Len(buffer) - 1
         /\ \A i \in 1..Len(buffer') : buffer'[i] = buffer[i + 1]
         /\ \A i \in 0..Len(buffer') :
              FnAfter(fn', buffer', i) <=> FnAfter(fn, buffer, i + 1)
         /\ SeesFn' <=> SeesFn
         /\ fn' \in BOOLEAN
<1>1. /\ fn \in BOOLEAN /\ buffer \in Seq(Stores) /\ buffer # <<>>
      /\ buffer' = Tail(buffer) /\ Len(buffer) <= MaxStores
  BY DEF TypeOK, Drain
<1>2. Head(buffer) = buffer[1] /\ Len(buffer) \in Nat
  BY <1>1
<1>3. /\ fn' \in BOOLEAN
      /\ fn' = IF buffer[1] \in {"fn", "nofn"} THEN buffer[1] = "fn" ELSE fn
  <2>1. fn' = IF buffer[1] \in {"fn", "nofn"} THEN buffer[1] = "fn" ELSE fn
    BY <1>2 DEF Drain
  <2> QED
    BY <2>1, <1>1
<1>4. /\ Len(buffer) >= 1
      /\ buffer' \in Seq(Stores) /\ Len(buffer') = Len(buffer) - 1
      /\ \A i \in 1..Len(buffer') : buffer'[i] = buffer[i + 1]
      /\ \A i \in 0..Len(buffer') :
           FnAfter(fn', buffer', i) <=> FnAfter(fn, buffer, i + 1)
  BY <1>1, <1>3, TailKeepsFn
<1>5. Len(buffer') <= MaxStores
  BY <1>1, <1>4, MaxStoresAssumption
<1>6. SeesFn' <=> SeesFn
  <2>1. Len(buffer') \in 0..Len(buffer') /\ Len(buffer') + 1 = Len(buffer)
    BY <1>4
  <2> QED
    BY <2>1, <1>4 DEF SeesFn
<1> QED
  BY <1>2, <1>3, <1>4, <1>5, <1>6

\* Every variable keeps its type, the buffer its bound, and an unregister
\* that has yet to clear pending has stored the null function: the owning
\* thread's place, the requesters' and what they share (host_interrupt.cpp).
THEOREM TypeCorrect == Spec => []TypeOK
<1>1. Init => TypeOK
  <2>1. <<>> \in Seq(Stores) /\ Len(<<>>) <= MaxStores
    BY MaxStoresAssumption
  <2> QED
    BY <2>1 DEF Init, TypeOK
<1>2. ASSUME TypeOK, [Next]_vars PROVE TypeOK'
  <2> USE <1>2
  <2>0. CASE Drain
    <3>1. /\ buffer' \in Seq(Stores) /\ Len(buffer') <= MaxStores
          /\ fn' \in BOOLEAN /\ (SeesFn' <=> SeesFn)
      BY <2>0, DrainStep
    <3>2. pending' \in BOOLEAN /\ armed' \in BOOLEAN /\ dropped' \in BOOLEAN
      BY <2>0, Zenon DEF Drain
    <3> QED
      BY <2>0, <3>1, <3>2 DEF Drain, TypeOK
  <2>1. CASE Register
    <3>1. buffer' \in Seq(Stores) /\ Len(buffer') <= MaxStores
      BY <2>1, StoreStep DEF Register, Stores
    <3> QED
      BY <2>1, <3>1 DEF Register, TypeOK
  <2>2. CASE Unregister
    <3>1. CASE at = "script"
      <4>1. /\ buffer' \in Seq(Stores) /\ Len(buffer') <= MaxStores /\ ~SeesFn'
        BY <2>2, <3>1, StoreStep DEF Unregister, Stores
      <4> QED
        BY <2>2, <3>1, <4>1 DEF Unregister, TypeOK
    <3>2. CASE at = "unregister"
      <4>1. /\ buffer' \in Seq(Stores) /\ Len(buffer') <= MaxStores
        BY <2>2, <3>2, StoreStep DEF Unregister, Stores
      <4> QED
        BY <2>2, <3>2, <4>1 DEF Unregister, TypeOK
    <3> QED
      BY <2>2, <3>1, <3>2 DEF Unregister
  <2>3. CASE Poll
    <3>1. buffer' \in Seq(Stores) /\ Len(buffer') <= MaxStores
      BY <2>3, StoreStep DEF Poll, Stores, TypeOK
    <3> QED
      BY <2>3, <3>1 DEF Poll, TypeOK
  <2>4. CASE Service
    <3>1. CASE Takes
      <4>1. buffer' \in Seq(Stores) /\ Len(buffer') <= MaxStores
        BY <2>4, <3>1, StoreStep DEF Service, Takes, Stores
      <4> QED
        BY <2>4, <3>1, <4>1 DEF Service, Takes, TypeOK
    <3>2. CASE FindsNothing \/ IsShort \/ HasRoom \/ Returns \/ FunctionLooks
      <4>1. buffer' = buffer /\ dropped' \in BOOLEAN /\ owed' \in BOOLEAN
            /\ at' \in {"script", "room", "inside"}
        BY <3>2 DEF FindsNothing, IsShort, HasRoom, Returns, FunctionLooks, TypeOK
      <4> QED
        BY <2>4, <4>1 DEF Service, TypeOK
    <3>3. CASE Runs
      <4>1. buffer' = buffer /\ dropped' = dropped /\ at' \in {"called", "script"}
        BY <3>3 DEF Runs
      <4>2. owed' \in BOOLEAN
        BY <3>3, Zenon DEF Runs
      <4> QED
        BY <2>4, <4>1, <4>2 DEF Service, TypeOK
    <3> QED
      BY <2>4, <3>1, <3>2, <3>3 DEF Service
  <2>5. CASE Disarm
    <3>1. buffer' \in Seq(Stores) /\ Len(buffer') <= MaxStores
      BY <2>5, StoreStep DEF Disarm, Stores
    <3> QED
      BY <2>5, <3>1 DEF Disarm, TypeOK
  <2>6. CASE Exit
    BY <2>6 DEF Exit, TypeOK, SeesFn
  <2>7. CASE WatchdogArms
    BY <2>7 DEF WatchdogArms, TypeOK, SeesFn
  <2>8. ASSUME NEW r \in Requesters, Request(r) PROVE TypeOK'
    <3>1. SeesFn' <=> SeesFn
      BY <2>8 DEF Request, SeesFn
    <3>2. owed' \in BOOLEAN
      <4>1. CASE StoresPending(r)
        BY <4>1, Zenon DEF StoresPending
      <4> QED
        BY <2>8, <4>1 DEF Request, LoadsFn, Arms, TypeOK
    <3> QED
      BY <2>8, <3>1, <3>2 DEF Request, LoadsFn, StoresPending, Arms, TypeOK
  <2>9. CASE UNCHANGED vars
    BY <2>9 DEF vars, TypeOK, SeesFn
  <2> QED
    BY <2>0, <2>1, <2>2, <2>3, <2>4, <2>5, <2>6, <2>7, <2>8, <2>9 DEF Next
<1> QED
  BY <1>1, <1>2, PTL DEF Spec

\* A step that stores adds its store to what is buffered, and nothing else.
LEMMA StoreBuffers ==
  ASSUME TypeOK, NEW s \in Stores, Store(s), fn' = fn, NEW t
  PROVE  Buffered(t)' <=> Buffered(t) \/ s = t
<1>1. /\ Len(buffer) \in Nat /\ Len(buffer') = Len(buffer) + 1
      /\ DOMAIN buffer = 1..Len(buffer) /\ DOMAIN buffer' = 1..Len(buffer')
      /\ \A i \in 1..Len(buffer) : buffer'[i] = buffer[i]
      /\ buffer'[Len(buffer) + 1] = s
  BY StoreStep DEF TypeOK
<1> QED
  BY <1>1 DEF Buffered

\* A store that reaches memory brings no request the thread did not see.
LEMMA DrainShowsNone ==
  ASSUME TypeOK, Drain, SeesPending'
  PROVE  SeesPending
<1>1. /\ Len(buffer) \in Nat /\ Len(buffer) >= 1 /\ Len(buffer') = Len(buffer) - 1
      /\ DOMAIN buffer = 1..Len(buffer) /\ DOMAIN buffer' = 1..Len(buffer')
      /\ \A i \in 1..Len(buffer') : buffer'[i] = buffer[i + 1]
      /\ Head(buffer) = buffer[1]
  BY DrainStep DEF TypeOK
<1>2. pending /\ buffer[1] # "clear"
  <2>1. pending'
    BY DEF SeesPending
  <2> QED
    BY <2>1, <1>1, Zenon DEF Drain
<1>3. ASSUME NEW i \in DOMAIN buffer, buffer[i] = "clear" PROVE FALSE
  <2>1. i # 1 /\ i - 1 \in DOMAIN buffer' /\ (i - 1) + 1 = i
    BY <1>1, <1>2, <1>3
  <2>2. buffer'[i - 1] = "clear"
    BY <2>1, <1>1, <1>3
  <2> QED
    BY <2>1, <2>2 DEF SeesPending, Buffered
<1> QED
  BY <1>2, <1>3 DEF SeesPending, Buffered

\* A pending request whose arm was not taken away is armed, about to be taken
\* by a poll, or about to be armed by its requester: rtRequestHostInterrupt's
\* store order against bronze_interrupt_poll's, whose disarm may reach memory
\* after its look at pending.
THEOREM RequestsNotForgotten == Spec => []NoRequestForgotten
<1>1. Init => NoRequestForgotten
  BY DEF Init, NoRequestForgotten, SeesPending
<1>2. ASSUME TypeOK, NoRequestForgotten, [Next]_vars PROVE NoRequestForgotten'
  <2> USE <1>2
  <2>0. CASE Drain
    <3> SUFFICES ASSUME alive', SeesPending', ~dropped'
                 PROVE  \/ armed' \/ Looking'
                        \/ \E r \in Requesters : req'[r] = "stored"
      BY DEF NoRequestForgotten
    <3>1. SeesPending
      BY <2>0, DrainShowsNone
    <3>2. alive /\ ~dropped /\ (Looking' <=> Looking) /\ req' = req
      BY <2>0, Zenon DEF Drain, Looking
    <3>3. armed' \/ ~armed \/ Looking
      BY <2>0, <3>1, Zenon DEF Drain
    <3> QED
      BY <3>1, <3>2, <3>3, Zenon DEF NoRequestForgotten
  <2>1. ASSUME NEW s \in Stores, Store(s), Looking => Looking',
               UNCHANGED <<alive, fn, pending, armed, req, dropped>>
        PROVE  NoRequestForgotten'
    <3>1. SeesPending' => SeesPending
      BY <2>1, StoreBuffers DEF SeesPending
    <3> QED
      BY <2>1, <3>1, Zenon DEF NoRequestForgotten
  <2>2. CASE Register \/ Unregister \/ Disarm
    BY <2>1, <2>2 DEF Register, Unregister, Disarm, Stores, Looking
  <2>3. CASE Poll
    <3>1. Looking'
      BY <2>3 DEF Poll, Looking
    <3> QED
      BY <3>1 DEF NoRequestForgotten
  <2>4. CASE Service
    <3>1. CASE FindsNothing
      <4>1. ~SeesPending'
        BY <2>4, <3>1, Zenon DEF Service, FindsNothing, SeesPending, Buffered
      <4> QED
        BY <4>1, Zenon DEF NoRequestForgotten
    <3>2. CASE IsShort
      BY <3>2 DEF IsShort, NoRequestForgotten
    <3>3. CASE HasRoom
      BY <3>3 DEF HasRoom, NoRequestForgotten, Looking
    <3>4. CASE Takes
      <4>1. Buffered("clear")'
        BY <2>4, <3>4, StoreBuffers DEF Service, Takes, Stores
      <4> QED
        BY <4>1, Zenon DEF NoRequestForgotten, SeesPending
    <3>5. CASE Runs \/ FunctionLooks \/ Returns
      <4>1. UNCHANGED <<alive, pending, buffer, dropped, armed, req>>
        BY <2>4, <3>5 DEF Service, Runs, FunctionLooks, Returns
      <4>2. ~Looking
        BY <3>5 DEF Runs, FunctionLooks, Returns, Looking
      <4> QED
        BY <4>1, <4>2, Zenon DEF NoRequestForgotten, SeesPending, Buffered
    <3> QED
      BY <2>4, <3>1, <3>2, <3>3, <3>4, <3>5 DEF Service
  <2>6. CASE Exit
    BY <2>6 DEF Exit, NoRequestForgotten
  <2>7. CASE WatchdogArms
    BY <2>7 DEF WatchdogArms, NoRequestForgotten
  <2>8. ASSUME NEW r \in Requesters, Request(r) PROVE NoRequestForgotten'
    <3>1. CASE LoadsFn(r)
      <4>1. UNCHANGED <<alive, pending, buffer, at, dropped, armed>>
        BY <2>8, <3>1 DEF Request, LoadsFn
      <4>2. \A q \in Requesters : req[q] = "stored" => req'[q] = "stored"
        BY <3>1 DEF LoadsFn, TypeOK
      <4> QED
        BY <4>1, <4>2, Zenon DEF NoRequestForgotten, SeesPending, Buffered, Looking
    <3>2. CASE StoresPending(r)
      <4>1. req'[r] = "stored"
        BY <3>2 DEF StoresPending, TypeOK
      <4> QED
        BY <4>1 DEF NoRequestForgotten
    <3>3. CASE Arms(r)
      BY <3>3 DEF Arms, NoRequestForgotten
    <3> QED
      BY <2>8, <3>1, <3>2, <3>3 DEF Request
  <2>9. CASE UNCHANGED vars
    BY <2>9, Zenon DEF vars, NoRequestForgotten, SeesPending, Buffered, Looking
  <2> QED
    BY <2>0, <2>2, <2>3, <2>4, <2>6, <2>7, <2>8, <2>9 DEF Next
<1> QED
  BY <1>1, <1>2, TypeCorrect, PTL DEF Spec

\* A store that clears pending is the newest of a poll that goes on to run the
\* function, or it reaches memory while no function is registered there.
ClearsAreAnswered ==
  \A i \in 1..Len(buffer) :
    buffer[i] = "clear" =>
      \/ i = Len(buffer) /\ at \in {"taken", "called"}
      \/ ~FnAfter(fn, buffer, i)

\* A request that read fn after the last unregister found the function the
\* thread has registered now, which no store on its way removes.
OwedIsRegistered ==
  owed \/ (\E r \in Requesters : req[r] = "loaded" /\ r \notin void) =>
    fn /\ ~Buffered("nofn")

\* The inductive invariant of the coalescing argument.
OwedInv == OwedIsPending /\ ClearsAreAnswered /\ OwedIsRegistered

\* A step of the owning thread that stores keeps the invariant, when it leaves
\* a poll that has taken a request alone and owes no more than before.
LEMMA StoreKeepsOwed ==
  ASSUME TypeOK, OwedInv, NEW s \in Stores, Store(s),
         UNCHANGED <<fn, pending, req>>,
         at \notin {"taken", "called"},
         owed' \in BOOLEAN, owed' => owed,
         s = "clear" => at' \in {"taken", "called"} \/ ~SeesFn,
         IF s = "nofn" THEN ~owed' /\ void' = Requesters ELSE void' = void
  PROVE  OwedInv'
<1>1. /\ Len(buffer) \in Nat /\ Len(buffer') = Len(buffer) + 1
      /\ \A i \in 1..Len(buffer) : buffer'[i] = buffer[i]
      /\ buffer'[Len(buffer) + 1] = s
      /\ \A i \in 0..Len(buffer) :
           FnAfter(fn', buffer', i) <=> FnAfter(fn, buffer, i)
      /\ s \in {"clear", "limit"} => (SeesFn' <=> SeesFn)
  BY StoreStep DEF TypeOK
<1>2. OwedIsPending'
  BY DEF OwedInv, OwedIsPending
<1>3. ClearsAreAnswered'
  <2> SUFFICES ASSUME NEW i \in 1..Len(buffer'), buffer'[i] = "clear"
               PROVE  \/ i = Len(buffer') /\ at' \in {"taken", "called"}
                      \/ ~FnAfter(fn', buffer', i)
    BY DEF ClearsAreAnswered
  <2>1. CASE i \in 1..Len(buffer)
    <3>1. ~FnAfter(fn, buffer, i)
      BY <2>1, <1>1 DEF OwedInv, ClearsAreAnswered
    <3> QED
      BY <2>1, <3>1, <1>1
  <2>2. CASE i = Len(buffer) + 1
    <3>1. s = "clear"
      BY <2>2, <1>1
    <3>2. SeesFn' <=> FnAfter(fn', buffer', i)
      BY <2>2, <1>1 DEF SeesFn
    <3> QED
      BY <3>1, <3>2, <2>2, <1>1
  <2> QED
    BY <2>1, <2>2, <1>1
<1>4. OwedIsRegistered'
  <2>1. CASE s = "nofn"
    BY <2>1 DEF OwedIsRegistered
  <2>2. CASE s # "nofn"
    <3>1. Buffered("nofn")' <=> Buffered("nofn")
      BY <2>2, StoreBuffers
    <3> QED
      BY <2>2, <3>1, Zenon DEF OwedInv, OwedIsRegistered
  <2> QED
    BY <2>1, <2>2
<1> QED
  BY <1>2, <1>3, <1>4 DEF OwedInv

\* The oldest store reaching memory keeps the invariant: a clear it lets over
\* an owed request belongs to a poll about to run the function.
LEMMA DrainKeepsOwed ==
  ASSUME TypeOK, OwedInv, Drain
  PROVE  OwedInv'
<1>1. /\ Len(buffer) \in Nat /\ Len(buffer) >= 1 /\ Head(buffer) = buffer[1]
      /\ Len(buffer') = Len(buffer) - 1
      /\ DOMAIN buffer = 1..Len(buffer) /\ DOMAIN buffer' = 1..Len(buffer')
      /\ \A i \in 1..Len(buffer') : buffer'[i] = buffer[i + 1]
      /\ \A i \in 0..Len(buffer') :
           FnAfter(fn', buffer', i) <=> FnAfter(fn, buffer, i + 1)
  BY DrainStep DEF TypeOK
<1>2. UNCHANGED <<at, req, owed, void>>
  BY DEF Drain
<1>3. OwedIsPending'
  <2> SUFFICES ASSUME owed, at \notin {"taken", "called"} PROVE pending'
    BY <1>2 DEF OwedIsPending
  <2>1. pending /\ fn /\ ~Buffered("nofn")
    BY DEF OwedInv, OwedIsPending, OwedIsRegistered
  <2>2. buffer[1] # "clear"
    <3>1. 1 \in 1..Len(buffer)
      BY <1>1
    <3>2. FnAfter(fn, buffer, 1)
      BY <2>1, <1>1 DEF FnAfter, Buffered
    <3> QED
      BY <3>1, <3>2 DEF OwedInv, ClearsAreAnswered
  <2> QED
    BY <2>1, <2>2, <1>1 DEF Drain
<1>4. ClearsAreAnswered'
  <2> SUFFICES ASSUME NEW i \in 1..Len(buffer'), buffer'[i] = "clear"
               PROVE  \/ i = Len(buffer') /\ at \in {"taken", "called"}
                      \/ ~FnAfter(fn', buffer', i)
    BY <1>2 DEF ClearsAreAnswered
  <2>1. i + 1 \in 1..Len(buffer) /\ buffer[i + 1] = "clear" /\ i \in 0..Len(buffer')
    BY <1>1
  <2>2. \/ i + 1 = Len(buffer) /\ at \in {"taken", "called"}
        \/ ~FnAfter(fn, buffer, i + 1)
    BY <2>1 DEF OwedInv, ClearsAreAnswered
  <2> QED
    BY <2>1, <2>2, <1>1
<1>5. OwedIsRegistered'
  <2>1. ASSUME fn, ~Buffered("nofn") PROVE fn' /\ ~Buffered("nofn")'
    <3>1. buffer[1] # "nofn"
      BY <1>1, <2>1 DEF Buffered
    <3>2. fn'
      BY <3>1, <2>1, <1>1 DEF Drain
    <3>3. ASSUME NEW i \in 1..Len(buffer') PROVE buffer'[i] # "nofn"
      BY <1>1, <2>1, <3>3 DEF Buffered
    <3> QED
      BY <3>2, <3>3, <1>1 DEF Buffered
  <2> QED
    BY <2>1, <1>2, Zenon DEF OwedInv, OwedIsRegistered
<1> QED
  BY <1>3, <1>4, <1>5 DEF OwedInv

\* A request the function has not answered stays pending, also one stored
\* while the function runs or while the clear of rtServiceHostInterrupt is on
\* its way to memory: pending is cleared before the function is called.
THEOREM CoalescingLosesNothing == Spec => []OwedIsPending
<1>1. Init => OwedInv
  <2>1. Init => 1..Len(buffer) = {}
    BY DEF Init
  <2> QED
    BY <2>1 DEF Init, OwedInv, OwedIsPending, ClearsAreAnswered, OwedIsRegistered
<1>2. ASSUME TypeOK, OwedInv, [Next]_vars PROVE OwedInv'
  <2> USE <1>2
  <2>0. CASE Drain
    BY <2>0, DrainKeepsOwed
  <2>1. CASE Register
    BY <2>1, StoreKeepsOwed DEF Register, Stores, TypeOK
  <2>2. CASE Unregister
    <3>1. CASE at = "script"
      BY <2>2, <3>1, StoreKeepsOwed DEF Unregister, Stores, TypeOK
    <3>2. CASE at = "unregister"
      BY <2>2, <3>2, StoreKeepsOwed DEF Unregister, Stores, TypeOK
    <3> QED
      BY <2>2, <3>1, <3>2 DEF Unregister
  <2>3. CASE Poll
    <3>1. CASE at = "script"
      <4>1. /\ UNCHANGED <<fn, pending, buffer, req, owed, void>>
            /\ at \notin {"taken", "called"}
        BY <2>3, <3>1 DEF Poll
      <4> QED
        BY <4>1 DEF OwedInv, OwedIsPending, ClearsAreAnswered, OwedIsRegistered, Buffered
    <3>2. CASE at = "polled"
      BY <2>3, <3>2, StoreKeepsOwed DEF Poll, Stores, TypeOK
    <3> QED
      BY <2>3, <3>1, <3>2 DEF Poll
  <2>4. CASE Service
    <3>0. UNCHANGED <<fn, pending, req, void>>
      BY <2>4 DEF Service
    <3>1. CASE FindsNothing \/ IsShort \/ HasRoom \/ Returns
      <4>1. UNCHANGED <<buffer, owed>> /\ at \notin {"taken", "called"}
        BY <3>1 DEF FindsNothing, IsShort, HasRoom, Returns
      <4> QED
        BY <3>0, <4>1 DEF OwedInv, OwedIsPending, ClearsAreAnswered,
                          OwedIsRegistered, Buffered
    <3>2. CASE Takes
      BY <3>0, <3>2, StoreKeepsOwed DEF Takes, Stores, TypeOK
    <3>3. CASE Runs
      <4>1. buffer' = buffer /\ at = "taken" /\ (owed' => owed /\ SeesFn)
            /\ (at' = "called" \/ (at' = "script" /\ ~SeesFn))
        BY <3>3 DEF Runs
      <4>2. OwedIsPending'
        BY <4>1 DEF OwedIsPending
      <4>3. ClearsAreAnswered'
        BY <3>0, <4>1 DEF OwedInv, ClearsAreAnswered, SeesFn
      <4>4. OwedIsRegistered'
        BY <3>0, <4>1 DEF OwedInv, OwedIsRegistered, Buffered
      <4> QED
        BY <4>2, <4>3, <4>4 DEF OwedInv
    <3>4. CASE FunctionLooks
      <4>1. buffer' = <<>> /\ buffer = <<>> /\ owed' = FALSE
        BY <3>4 DEF FunctionLooks
      <4>2. OwedIsPending' /\ ClearsAreAnswered'
        <5>1. 1..Len(buffer') = {}
          BY <4>1
        <5> QED
          BY <4>1, <5>1 DEF OwedIsPending, ClearsAreAnswered
      <4>3. OwedIsRegistered'
        BY <3>0, <4>1 DEF OwedInv, OwedIsRegistered, Buffered
      <4> QED
        BY <4>2, <4>3 DEF OwedInv
    <3> QED
      BY <2>4, <3>1, <3>2, <3>3, <3>4 DEF Service
  <2>5. CASE Disarm
    BY <2>5, StoreKeepsOwed DEF Disarm, Stores, TypeOK
  <2>6. CASE Exit \/ WatchdogArms \/ UNCHANGED vars
    <3>1. UNCHANGED <<fn, pending, buffer, at, req, owed, void>>
      BY <2>6 DEF Exit, WatchdogArms, vars
    <3> QED
      BY <3>1 DEF OwedInv, OwedIsPending, ClearsAreAnswered, OwedIsRegistered, Buffered
  <2>8. ASSUME NEW r \in Requesters, Request(r) PROVE OwedInv'
    <3>0. UNCHANGED <<fn, buffer, at>>
      BY <2>8 DEF Request
    <3>1. ClearsAreAnswered'
      BY <3>0 DEF OwedInv, ClearsAreAnswered
    <3>2. OwedIsPending'
      BY <2>8, <3>0 DEF Request, LoadsFn, StoresPending, Arms, OwedInv, OwedIsPending
    <3>3. OwedIsRegistered'
      <4>0. Buffered("nofn")' <=> Buffered("nofn")
        BY <3>0 DEF Buffered
      <4>1. CASE LoadsFn(r)
        <5>1. fn /\ owed' = owed /\ (~Buffered("nofn") \/ r \in void')
          BY <4>1 DEF LoadsFn
        <5>2. \A q \in Requesters : q # r => req'[q] = req[q] /\ (q \in void' <=> q \in void)
          BY <4>1 DEF LoadsFn, TypeOK
        <5> QED
          BY <3>0, <4>0, <5>1, <5>2 DEF OwedInv, OwedIsRegistered
      <4>2. CASE StoresPending(r)
        BY <3>0, <4>0, <4>2 DEF StoresPending, TypeOK, OwedInv, OwedIsRegistered
      <4>3. CASE Arms(r)
        BY <3>0, <4>0, <4>3 DEF Arms, TypeOK, OwedInv, OwedIsRegistered
      <4> QED
        BY <2>8, <4>1, <4>2, <4>3 DEF Request
    <3> QED
      BY <3>1, <3>2, <3>3 DEF OwedInv
  <2> QED
    BY <2>0, <2>1, <2>2, <2>3, <2>4, <2>5, <2>6, <2>8 DEF Next
<1>3. OwedInv => OwedIsPending
  BY DEF OwedInv
<1> QED
  BY <1>1, <1>2, <1>3, TypeCorrect, PTL DEF Spec
=============================================================================
