------------------------ MODULE AsyncIterationProofs ------------------------
(***************************************************************************)
(* Proofs about an async generator and the combinator that takes its       *)
(* promises (AsyncGenerator, Combinator, AsyncIteration): no request is    *)
(* forgotten, values are given in order, and a combinator finishes exactly *)
(* when all its results are in.                                            *)
(***************************************************************************)
EXTENDS AsyncIteration, FiniteSetTheorems, SequenceTheorems, TLAPS

-----------------------------------------------------------------------------
(* The inductive invariant of the generator *)

PlainFrames == {Frame(at) : at \in Places}
SettleFrames == {Settling(r, a) : r \in Requests, a \in Answers}
Frames == PlainFrames \union SettleFrames

\* The frames about to answer, and the requests they answer.
Settlers == {j \in DOMAIN stack : stack[j].at = "settle"}
Bodies == {j \in DOMAIN stack : stack[j].at = "body"}
Handlers == {j \in DOMAIN stack : stack[j].at \in {"next", "body", "yielded", "drain"}}

\* The queue is in the order the requests were made.
QueueSorted ==
  /\ \A i, j \in DOMAIN queue : i < j => queue[i].req < queue[j].req
  /\ \A i \in DOMAIN queue : queue[i].req \in Made

\* A request waits in one place: in the queue, or in one frame.
OnePlace ==
  /\ \A j \in Settlers : stack[j].req \in Made /\ stack[j].req \notin Waiting
  /\ \A i, j \in Settlers : i # j => stack[i].req # stack[j].req

\* Exactly the requests that wait somewhere are unanswered.
Unanswered ==
  \A r \in Requests :
    answer[r] = "none" <=>
      r > made \/ r \in Waiting \/ \E j \in Settlers : stack[j].req = r

\* The body is in one place while the generator executes: a frame, or an await.
OneBody ==
  /\ state = "executing" <=> (awaiting \/ Bodies # {})
  /\ ~ (awaiting /\ Bodies # {})
  /\ \A i, j \in Bodies : i = j

\* Someone comes back for the queue.
Attended ==
  /\ state = "executing" => queue # <<>>
  /\ queue # <<>> => awaiting \/ Handlers # {}

\* A value was given, or is about to be, only to a request older than those
\* that wait.
OldestFirst ==
  \A w \in Waiting :
    /\ \A r \in Made : answer[r] = "value" => r < w
    /\ \A j \in Settlers : stack[j].with = "value" => stack[j].req < w

GenInv ==
  TypeOK /\ QueueSorted /\ OnePlace /\ Unanswered /\ OneBody /\ Attended /\ OldestFirst

-----------------------------------------------------------------------------
(* The inductive invariant of the combinator *)

CombTypeOK ==
  /\ kind \in Kinds /\ phase \in {"none", "walking", "walked", "thrown"}
  /\ elements \in Seq(Requests) /\ stored \in SUBSET (DOMAIN elements)
  /\ remaining \in Nat /\ cap \in {"pending", "finished", "early"}
  /\ jobs \in Seq(DOMAIN elements)

\* Before the walk there is nothing.
NotYet == phase = "none" => elements = <<>> /\ remaining = 0 /\ cap = "pending"

\* The count is of the results that are missing, and of the walk.
Missing == DOMAIN elements \ stored
CountIs ==
  Counts =>
    remaining = Cardinality(Missing) + (IF phase \in {"walking", "thrown"} THEN 1 ELSE 0)

\* A reaction is queued once, and only for a promise that is answered.
Answered(i) == answer[elements[i]] # "none"
JobsOnce ==
  /\ \A k, l \in DOMAIN jobs : jobs[k] = jobs[l] => k = l
  /\ \A k \in DOMAIN jobs : jobs[k] \notin stored /\ Answered(jobs[k])
  /\ \A i \in stored : Answered(i)

\* What settled the capability early never comes again: the count stays above 0.
EarlyStays ==
  cap = "early" =>
    \/ ~Counts \/ phase = "thrown"
    \/ \E i \in Missing : Answered(i) /\ \A k \in DOMAIN jobs : jobs[k] # i

CombInv == CombTypeOK /\ NotYet /\ CountIs /\ JobsOnce /\ EarlyStays /\ FinishesWithAll

IterInv == GenInv /\ CombInv

-----------------------------------------------------------------------------
(* Frames and the stack *)

\* Frames are told apart by their place, and a settling frame has its request
\* and its answer.
LEMMA FrameFacts ==
  /\ \A at \in Places : /\ Frame(at) \in Frames /\ Frame(at).at = at
                        /\ Frame(at).at # "settle"
  /\ \A r \in Requests, a \in Answers :
       /\ Settling(r, a) \in Frames /\ Settling(r, a).at = "settle"
       /\ Settling(r, a).req = r /\ Settling(r, a).with = a
  /\ \A f \in Frames : f.at = "settle" => f.req \in Requests /\ f.with \in Answers
<1>1. \A at \in Places : Frame(at).at = at /\ at # "settle"
  BY DEF Frame, Places
<1>2. \A r \in Requests, a \in Answers :
        /\ Settling(r, a).at = "settle"
        /\ Settling(r, a).req = r /\ Settling(r, a).with = a
  BY DEF Settling
<1>3. \A at \in Places : Frame(at) \in Frames
  BY DEF Frames, PlainFrames
<1>4. \A r \in Requests, a \in Answers : Settling(r, a) \in Frames
  BY DEF Frames, SettleFrames
<1>5. ASSUME NEW f \in Frames, f.at = "settle"
      PROVE  f.req \in Requests /\ f.with \in Answers
  <2>1. f \notin PlainFrames
    BY <1>5, <1>1 DEF PlainFrames
  <2>2. PICK r \in Requests, a \in Answers : f = Settling(r, a)
    BY <2>1 DEF Frames, SettleFrames
  <2> QED
    BY <2>2, <1>2
<1> QED
  BY <1>1, <1>2, <1>3, <1>4, <1>5

\* The length of a prefix.
LEMMA FrontLength ==
  ASSUME NEW S, NEW s \in Seq(S), NEW n \in Nat, n < Len(s)
  PROVE  Len(SubSeq(s, 1, n)) = n
<1>1. CASE n = 0
  BY <1>1
<1>2. CASE n # 0
  BY <1>2
<1> QED
  BY <1>1, <1>2

\* The stack under its top frame.
LEMMA BelowFacts ==
  ASSUME stack \in Seq(Frames), ~Idle
  PROVE  /\ Len(stack) \in Nat /\ Len(stack) > 0
         /\ Below \in Seq(Frames) /\ Len(Below) = Len(stack) - 1
         /\ \A i \in 1 .. Len(stack) - 1 : Below[i] = stack[i]
<1>1. Len(stack) \in Nat /\ Len(stack) > 0
  BY DEF Idle
<1>2. Len(Below) = Len(stack) - 1
  <2>1. Len(stack) - 1 \in Nat /\ Len(stack) - 1 < Len(stack)
    BY <1>1
  <2> QED
    BY <2>1, FrontLength, Zenon DEF Below
<1>3. Below \in Seq(Frames)
  BY <1>1 DEF Below
<1>4. \A i \in 1 .. Len(stack) - 1 : Below[i] = stack[i]
  BY <1>1 DEF Below
<1> QED
  BY <1>1, <1>2, <1>3, <1>4

\* The stack whose top frame goes to place p.
LEMMA TurnedFacts ==
  ASSUME stack \in Seq(Frames), ~Idle, NEW p \in Places
  PROVE  /\ Turned(p) \in Seq(Frames) /\ Len(Turned(p)) = Len(stack)
         /\ \A i \in 1 .. Len(stack) - 1 : Turned(p)[i] = stack[i]
         /\ Turned(p)[Len(stack)] = Frame(p)
<1>1. Frame(p) \in Frames
  BY FrameFacts
<1> QED
  BY <1>1, BelowFacts DEF Turned

\* The stack with a call to place p.
LEMMA PushFacts ==
  ASSUME stack \in Seq(Frames), NEW p \in Places
  PROVE  LET st == Append(stack, Frame(p))
         IN  /\ st \in Seq(Frames) /\ Len(st) = Len(stack) + 1
             /\ \A i \in 1 .. Len(stack) : st[i] = stack[i]
             /\ st[Len(stack) + 1] = Frame(p)
BY FrameFacts

\* What resolving with an iterator result leaves (rtResolvePromise): settled, or
\* the frame that will settle under the getter.
LEMMA ResolveFacts ==
  ASSUME NEW under \in Seq(Frames), NEW r \in Requests, NEW a \in Answers,
         Resolve(r, a, under)
  PROVE  \/ answer' = [answer EXCEPT ![r] = a] /\ stack' = under
         \/ /\ answer' = answer
            /\ stack' \in Seq(Frames) /\ Len(stack') = Len(under) + 2
            /\ \A i \in 1 .. Len(under) : stack'[i] = under[i]
            /\ stack'[Len(under) + 1] = Settling(r, a)
            /\ stack'[Len(under) + 2] = Frame("program")
<1>1. Settling(r, a) \in Frames /\ Frame("program") \in Frames
  BY FrameFacts DEF Places
<1>2. CASE answer' = [answer EXCEPT ![r] = a] /\ stack' = under
  BY <1>2
<1>3. CASE /\ stack' = under \o <<Settling(r, a), Frame("program")>>
           /\ UNCHANGED answer
  <2> DEFINE two == <<Settling(r, a), Frame("program")>>
  <2>1. two \in Seq(Frames) /\ Len(two) = 2 /\ two[1] = Settling(r, a) /\ two[2] = Frame("program")
    BY <1>1
  <2> HIDE DEF two
  <2>2. stack' = under \o two /\ answer' = answer
    BY <1>3 DEF two
  <2>3. /\ under \o two \in Seq(Frames) /\ Len(under \o two) = Len(under) + Len(two)
        /\ \A i \in 1 .. Len(under) + Len(two) :
             (under \o two)[i] = IF i <= Len(under) THEN under[i] ELSE two[i - Len(under)]
    BY <2>1, ConcatProperties
  <2>4. Len(under) \in Nat
    OBVIOUS
  <2>5. stack'[Len(under) + 1] = two[1] /\ stack'[Len(under) + 2] = two[2]
    BY <2>1, <2>2, <2>3, <2>4
  <2> QED
    BY <2>1, <2>2, <2>3, <2>4, <2>5
<1> QED
  BY <1>2, <1>3 DEF Resolve

\* A frame is of one place or another.
LEMMA TopFacts ==
  ASSUME stack \in Seq(Frames), NEW p, At(p)
  PROVE  ~Idle /\ Len(stack) \in Nat /\ Len(stack) > 0 /\ stack[Len(stack)].at = p
BY DEF At, Top, Idle

-----------------------------------------------------------------------------
(* What a step does to the frames that are about to answer *)

KeepSettlers ==
  Settlers' = Settlers /\ \A j \in Settlers : stack'[j] = stack[j]
AddSettler(r, a) ==
  \E n : /\ n \notin Settlers /\ Settlers' = Settlers \union {n}
         /\ stack'[n] = Settling(r, a)
         /\ \A j \in Settlers : stack'[j] = stack[j]
DropSettler(n) ==
  /\ n \in Settlers /\ Settlers' = Settlers \ {n}
  /\ \A j \in Settlers' : stack'[j] = stack[j]

\* Returning from a frame that answers nobody leaves the answering frames alone.
LEMMA PopKeeps ==
  ASSUME stack \in Seq(Frames), ~Idle, stack' = Below,
         stack[Len(stack)].at # "settle"
  PROVE  /\ KeepSettlers
         /\ Bodies' = Bodies \ {Len(stack)} /\ Handlers' = Handlers \ {Len(stack)}
BY BelowFacts DEF KeepSettlers, Settlers, Bodies, Handlers

\* So does a frame that moves on to another place.
LEMMA TurnKeeps ==
  ASSUME stack \in Seq(Frames), ~Idle, NEW p \in Places,
         stack' \in Seq(Frames), Len(stack') = Len(stack),
         \A i \in 1 .. Len(stack) - 1 : stack'[i] = stack[i],
         stack'[Len(stack)] = Frame(p),
         stack[Len(stack)].at # "settle"
  PROVE  /\ KeepSettlers
         /\ Bodies' = (Bodies \ {Len(stack)}) \union (IF p = "body" THEN {Len(stack)} ELSE {})
         /\ p \in {"next", "body", "yielded", "drain"} => Len(stack) \in Handlers'
<1>1. stack'[Len(stack)].at = p /\ stack'[Len(stack)].at # "settle"
  BY FrameFacts
<1>2. Len(stack) \in Nat /\ Len(stack) > 0
  BY BelowFacts
<1> QED
  BY <1>1, <1>2 DEF KeepSettlers, Settlers, Bodies, Handlers

\* So does a call.
LEMMA PushKeeps ==
  ASSUME stack \in Seq(Frames), NEW p \in Places, stack' = Append(stack, Frame(p))
  PROVE  /\ stack' \in Seq(Frames) /\ KeepSettlers
         /\ Bodies' = Bodies \union (IF p = "body" THEN {Len(stack) + 1} ELSE {})
         /\ Handlers \subseteq Handlers'
         /\ p \in {"next", "body", "yielded", "drain"} => Len(stack) + 1 \in Handlers'
<1>1. stack'[Len(stack) + 1].at = p /\ stack'[Len(stack) + 1].at # "settle"
  BY FrameFacts, PushFacts
<1>2. /\ stack' \in Seq(Frames) /\ Len(stack') = Len(stack) + 1 /\ Len(stack) \in Nat
      /\ \A i \in 1 .. Len(stack) : stack'[i] = stack[i]
  BY PushFacts
<1> QED
  BY <1>1, <1>2 DEF KeepSettlers, Settlers, Bodies, Handlers

-----------------------------------------------------------------------------
(* Where a request is, and where a step takes it *)

Entries == [req : Requests, mode : Modes]

\* Waiting requests were made.
LEMMA WaitingFacts ==
  ASSUME TypeOK, QueueSorted
  PROVE  /\ \A w \in Waiting : w \in Made /\ w \in Requests /\ w \in Nat
         /\ made \in Nat /\ MaxRequests \in Nat
         /\ queue \in Seq(Entries) /\ stack \in Seq(Frames)
<1>1. queue \in Seq(Entries) /\ stack \in Seq(Frames)
  BY DEF TypeOK, Entries, Frames, PlainFrames, SettleFrames
<1>2. made \in Nat /\ MaxRequests \in Nat /\ made <= MaxRequests
  BY BoundsAssumption DEF TypeOK
<1> QED
  BY <1>1, <1>2 DEF QueueSorted, Waiting, Made, Requests

\* Taking the head of the queue (queuePopFront) takes its oldest request.
LEMMA TailWaits ==
  ASSUME TypeOK, QueueSorted, queue # <<>>, queue' = Tail(queue), made' = made
  PROVE  /\ Head(queue) \in Entries /\ Head(queue).req \in Waiting
         /\ queue' \in Seq(Entries)
         /\ Waiting' = Waiting \ {Head(queue).req}
         /\ \A w \in Waiting' : Head(queue).req < w
         /\ QueueSorted'
<1>1. queue \in Seq(Entries)
  BY WaitingFacts
<1>2. /\ Head(queue) = queue[1] /\ 1 \in DOMAIN queue
      /\ queue' \in Seq(Entries) /\ Len(queue') = Len(queue) - 1
      /\ \A i \in DOMAIN queue' : queue'[i] = queue[i + 1] /\ i + 1 \in DOMAIN queue /\ 1 < i + 1
  <2>1. Len(queue) \in Nat /\ Len(queue) > 0 /\ Head(queue) = queue[1] /\ 1 \in DOMAIN queue
    BY <1>1
  <2>2. queue' \in Seq(Entries) /\ Len(queue') = Len(queue) - 1
    BY <1>1
  <2>3. \A i \in 1 .. Len(queue) - 1 : queue'[i] = queue[i + 1]
    BY <1>1
  <2>4. DOMAIN queue = 1 .. Len(queue) /\ DOMAIN queue' = 1 .. Len(queue) - 1
    BY <1>1, <2>2
  <2>5. \A i \in DOMAIN queue' : i + 1 \in DOMAIN queue /\ 1 < i + 1
    BY <2>1, <2>4
  <2> QED
    BY <2>1, <2>2, <2>3, <2>4, <2>5
<1>3. \A i \in DOMAIN queue : i # 1 => i - 1 \in DOMAIN queue' /\ queue'[i - 1] = queue[i] /\ 1 < i
  BY <1>1, <1>2
<1>4. \A i \in DOMAIN queue : queue[i] \in Entries
  BY <1>1
<1>5. Head(queue) \in Entries /\ Head(queue).req \in Waiting
  BY <1>2, <1>4 DEF Waiting
<1>6. \A i \in DOMAIN queue : i # 1 => Head(queue).req < queue[i].req
  BY <1>2, <1>3 DEF QueueSorted
<1>7. \A w \in Waiting' : w \in Waiting /\ Head(queue).req < w
  BY <1>2, <1>6 DEF Waiting
<1>8. ASSUME NEW w \in Waiting, w # Head(queue).req PROVE w \in Waiting'
  <2>1. PICK i \in DOMAIN queue : w = queue[i].req
    BY DEF Waiting
  <2>2. i - 1 \in DOMAIN queue' /\ w = queue'[i - 1].req
    BY <2>1, <1>2, <1>3, <1>8
  <2> QED
    BY <2>2 DEF Waiting
<1>9. QueueSorted'
  <2>1. \A i, j \in DOMAIN queue' : i < j => queue'[i].req < queue'[j].req
    <3> SUFFICES ASSUME NEW i \in DOMAIN queue', NEW j \in DOMAIN queue', i < j
                 PROVE  queue'[i].req < queue'[j].req
      OBVIOUS
    <3>1. i + 1 < j + 1
      BY <1>2
    <3> QED
      BY <3>1, <1>2 DEF QueueSorted
  <2>2. \A i \in DOMAIN queue' : queue'[i].req \in Made'
    BY <1>2 DEF QueueSorted, Made
  <2> QED
    BY <2>1, <2>2 DEF QueueSorted
<1>10. Head(queue).req \in Nat /\ \A w \in Waiting' : w # Head(queue).req
  BY <1>5, <1>7, WaitingFacts
<1> QED
  BY <1>2, <1>5, <1>7, <1>8, <1>9, <1>10

\* A new request goes behind all others (enqueueRequest).
LEMMA AppendWaits ==
  ASSUME TypeOK, QueueSorted, made' = made + 1, made + 1 \in Requests, NEW m \in Modes,
         queue' = Append(queue, [req |-> made + 1, mode |-> m])
  PROVE  /\ queue' \in Seq(Entries) /\ queue' # <<>>
         /\ Waiting' = Waiting \union {made + 1}
         /\ QueueSorted'
<1> DEFINE e == [req |-> made + 1, mode |-> m]
<1>1. queue \in Seq(Entries) /\ made \in Nat /\ Len(queue) \in Nat
  BY WaitingFacts
<1>2. e \in Entries /\ e.req = made + 1
  BY DEF Entries
<1> HIDE DEF e
<1>3. queue' = Append(queue, e)
  BY DEF e
<1>4. /\ queue' \in Seq(Entries) /\ Len(queue') = Len(queue) + 1
      /\ \A i \in DOMAIN queue : i \in DOMAIN queue' /\ queue'[i] = queue[i]
      /\ queue'[Len(queue) + 1] = e /\ DOMAIN queue' = DOMAIN queue \union {Len(queue) + 1}
      /\ \A i \in DOMAIN queue : i < Len(queue) + 1
  BY <1>1, <1>2, <1>3
<1>5. Waiting' = Waiting \union {made + 1}
  BY <1>2, <1>4 DEF Waiting
<1>6. \A w \in Waiting : w < made + 1
  BY WaitingFacts DEF Made
<1>7. \A i \in DOMAIN queue : queue[i].req < made + 1
  BY <1>6 DEF Waiting
<1>8. \A i, j \in DOMAIN queue' : i < j => queue'[i].req < queue'[j].req
  <2> SUFFICES ASSUME NEW i \in DOMAIN queue', NEW j \in DOMAIN queue', i < j
               PROVE  queue'[i].req < queue'[j].req
    OBVIOUS
  <2>1. i \in DOMAIN queue
    BY <1>4, <1>1
  <2> QED
    BY <2>1, <1>2, <1>4, <1>7 DEF QueueSorted
<1>9. \A i \in DOMAIN queue' : queue'[i].req \in Made'
  <2>1. \A i \in DOMAIN queue : queue[i].req \in Made'
    BY <1>1 DEF QueueSorted, Made
  <2>2. made + 1 \in Made'
    BY <1>1 DEF Made
  <2> QED
    BY <2>1, <2>2, <1>2, <1>4
<1> QED
  BY <1>4, <1>5, <1>8, <1>9, <1>1 DEF QueueSorted

\* The part of the invariant about where requests are.
PlacesInv == QueueSorted /\ OnePlace /\ Unanswered /\ OldestFirst

\* A step gives an answer once: it never changes one.
AnswersOnce ==
  \A r \in Requests : answer'[r] # answer[r] => answer[r] = "none" /\ answer'[r] # "none"

\* Nothing moves.
LEMMA NoneMoves ==
  ASSUME TypeOK, PlacesInv, KeepSettlers, UNCHANGED <<queue, made, answer>>
  PROVE  PlacesInv' /\ AnswersOnce
<1>1. Waiting' = Waiting /\ Made' = Made
  BY DEF Waiting, Made
<1>2. QueueSorted'
  BY <1>1 DEF PlacesInv, QueueSorted
<1>3. OnePlace'
  BY <1>1 DEF PlacesInv, OnePlace, KeepSettlers
<1>4. Unanswered'
  BY <1>1 DEF PlacesInv, Unanswered, KeepSettlers
<1>5. OldestFirst'
  BY <1>1 DEF PlacesInv, OldestFirst, KeepSettlers
<1> QED
  BY <1>2, <1>3, <1>4, <1>5 DEF PlacesInv, AnswersOnce

\* A new request joins the queue (enqueueRequest).
LEMMA JoinsQueue ==
  ASSUME TypeOK, PlacesInv, KeepSettlers, made' = made + 1, made + 1 \in Requests,
         NEW m \in Modes, queue' = Append(queue, [req |-> made + 1, mode |-> m]),
         answer' = answer
  PROVE  PlacesInv' /\ AnswersOnce
<1>1. Waiting' = Waiting \union {made + 1} /\ QueueSorted'
  BY AppendWaits DEF PlacesInv
<1>2. made \in Nat /\ Made' = Made \union {made + 1} /\ \A r \in Made : r < made + 1 /\ r \in Nat
  BY WaitingFacts DEF Made, PlacesInv
<1>3. OnePlace'
  BY <1>1, <1>2 DEF PlacesInv, OnePlace, KeepSettlers
<1>4. \A r \in Requests : r \in Nat /\ (r > made <=> r > made + 1 \/ r = made + 1)
  BY <1>2 DEF Requests
<1>5. Unanswered'
  BY <1>1, <1>4 DEF PlacesInv, Unanswered, KeepSettlers
<1>6. answer[made + 1] # "value"
  BY <1>2, <1>4 DEF PlacesInv, Unanswered
<1>7. OldestFirst'
  BY <1>1, <1>2, <1>6 DEF PlacesInv, OldestFirst, OnePlace, KeepSettlers
<1> QED
  BY <1>1, <1>3, <1>5, <1>7 DEF PlacesInv, AnswersOnce

\* A request r leaves: a new one that never joins, or the oldest of the queue.
Leaves(r, a) ==
  \/ r = made + 1 /\ made' = made + 1 /\ queue' = queue /\ a # "value"
  \/ queue # <<>> /\ r = Head(queue).req /\ made' = made /\ queue' = Tail(queue)

\* What a request that leaves the queue to be answered leaves behind.
LEMMA LeavesFacts ==
  ASSUME TypeOK, PlacesInv, NEW r \in Requests, NEW a \in Answers, Leaves(r, a)
  PROVE  /\ QueueSorted' /\ queue' \in Seq(Entries)
         /\ made' \in 0 .. MaxRequests
         /\ answer[r] = "none" /\ r \in Made' /\ r \notin Waiting'
         /\ Waiting' \subseteq Waiting /\ Made \subseteq Made'
         /\ \A x \in Requests : x # r => (x \in Waiting' <=> x \in Waiting)
         /\ \A x \in Requests : x # r => (x > made' <=> x > made)
         /\ \A x \in Made' : x # r => x \in Made
         /\ \A j \in Settlers : stack[j].req # r
         /\ a = "value" => \A w \in Waiting' : r < w
<1>1. CASE r = made + 1 /\ made' = made + 1 /\ queue' = queue /\ a # "value"
  <2>1. made \in Nat /\ MaxRequests \in Nat /\ made <= MaxRequests
    BY WaitingFacts, BoundsAssumption DEF PlacesInv, TypeOK
  <2>2. Waiting' = Waiting /\ r \notin Waiting /\ queue' \in Seq(Entries)
    BY <1>1, <2>1, WaitingFacts DEF PlacesInv, Waiting, Made
  <2>3. Made \subseteq Made' /\ r \in Made' /\ \A x \in Made' : x # r => x \in Made
    BY <1>1, <2>1 DEF Made
  <2>4. \A x \in Requests : x # r => (x > made' <=> x > made)
    BY <1>1, <2>1 DEF Requests
  <2>5. answer[r] = "none"
    BY <1>1, <2>1 DEF PlacesInv, Unanswered
  <2>6. \A j \in Settlers : stack[j].req # r
    BY <1>1, <2>1 DEF PlacesInv, OnePlace, Made
  <2>7. QueueSorted'
    BY <1>1, <2>3 DEF PlacesInv, QueueSorted
  <2>8. made' \in 0 .. MaxRequests
    BY <1>1, <2>1 DEF Requests
  <2> QED
    BY <1>1, <2>2, <2>3, <2>4, <2>5, <2>6, <2>7, <2>8
<1>2. CASE queue # <<>> /\ r = Head(queue).req /\ made' = made /\ queue' = Tail(queue)
  <2>1. /\ r \in Waiting /\ queue' \in Seq(Entries) /\ Waiting' = Waiting \ {r}
        /\ \A w \in Waiting' : r < w
        /\ QueueSorted'
    BY <1>2, TailWaits DEF PlacesInv
  <2>2. r \in Made /\ Made' = Made
    BY <1>2, <2>1, WaitingFacts DEF PlacesInv, Made
  <2>3. answer[r] = "none" /\ \A j \in Settlers : stack[j].req # r
    BY <2>1 DEF PlacesInv, Unanswered, OnePlace
  <2>4. made' \in 0 .. MaxRequests
    BY <1>2 DEF TypeOK
  <2> QED
    BY <1>2, <2>1, <2>2, <2>3, <2>4
<1> QED
  BY <1>1, <1>2 DEF Leaves

\* The request that leaves is answered at once (settleInternal).
LEMMA LeavesAnswered ==
  ASSUME TypeOK, PlacesInv, NEW r \in Requests, NEW a \in Answers, Leaves(r, a),
         KeepSettlers, answer' = [answer EXCEPT ![r] = a]
  PROVE  PlacesInv' /\ AnswersOnce
<1>1. /\ answer'[r] = a /\ a # "none"
      /\ \A x \in Requests : x # r => answer'[x] = answer[x]
  BY DEF TypeOK, Answers
<1>2. \A x \in Made' : x \in Requests
  BY LeavesFacts, BoundsAssumption DEF Made, Requests
<1>3. OnePlace'
  BY LeavesFacts DEF PlacesInv, OnePlace, KeepSettlers
<1>4. ~ (r > made')
  BY LeavesFacts DEF Made
<1>5. Unanswered'
  BY <1>1, <1>4, LeavesFacts DEF PlacesInv, Unanswered, KeepSettlers
<1>6. OldestFirst'
  <2> SUFFICES ASSUME NEW w \in Waiting'
               PROVE  /\ \A x \in Made' : answer'[x] = "value" => x < w
                      /\ \A j \in Settlers' : stack'[j].with = "value" => stack'[j].req < w
    BY DEF OldestFirst
  <2>1. w \in Waiting
    BY LeavesFacts
  <2>2. ASSUME NEW x \in Made', answer'[x] = "value" PROVE x < w
    <3>1. CASE x = r
      BY <3>1, <2>2, <1>1, LeavesFacts
    <3>2. CASE x # r
      BY <3>2, <2>1, <2>2, <1>1, <1>2, LeavesFacts DEF PlacesInv, OldestFirst
    <3> QED
      BY <3>1, <3>2
  <2> QED
    BY <2>1, <2>2 DEF PlacesInv, OldestFirst, KeepSettlers
<1>7. AnswersOnce
  BY <1>1, LeavesFacts DEF AnswersOnce
<1> QED
  BY <1>3, <1>5, <1>6, <1>7, LeavesFacts DEF PlacesInv

\* The request that leaves waits for a getter to return (runResolutionSteps).
LEMMA LeavesToFrame ==
  ASSUME TypeOK, PlacesInv, NEW r \in Requests, NEW a \in Answers, Leaves(r, a),
         AddSettler(r, a), answer' = answer
  PROVE  PlacesInv' /\ AnswersOnce
<1>1. PICK n : /\ n \notin Settlers /\ Settlers' = Settlers \union {n}
               /\ stack'[n] = Settling(r, a)
               /\ \A j \in Settlers : stack'[j] = stack[j]
  BY DEF AddSettler
<1>2. stack'[n].req = r /\ stack'[n].with = a
  BY <1>1, FrameFacts
<1>3. \A x \in Made' : x \in Requests
  BY LeavesFacts, BoundsAssumption DEF Made, Requests
<1>4. OnePlace'
  <2>1. \A j \in Settlers' : stack'[j].req \in Made' /\ stack'[j].req \notin Waiting'
    BY <1>1, <1>2, LeavesFacts DEF PlacesInv, OnePlace
  <2>2. \A i, j \in Settlers' : i # j => stack'[i].req # stack'[j].req
    BY <1>1, <1>2, LeavesFacts DEF PlacesInv, OnePlace
  <2> QED
    BY <2>1, <2>2 DEF OnePlace
<1>5. Unanswered'
  <2> SUFFICES ASSUME NEW x \in Requests
               PROVE  answer'[x] = "none" <=>
                        x > made' \/ x \in Waiting' \/ \E j \in Settlers' : stack'[j].req = x
    BY DEF Unanswered
  <2>1. CASE x = r
    BY <2>1, <1>1, <1>2, LeavesFacts
  <2>2. CASE x # r
    <3>1. (\E j \in Settlers' : stack'[j].req = x) <=> (\E j \in Settlers : stack[j].req = x)
      BY <2>2, <1>1, <1>2
    <3> QED
      BY <3>1, <2>2, LeavesFacts DEF PlacesInv, Unanswered
  <2> QED
    BY <2>1, <2>2
<1>6. OldestFirst'
  <2> SUFFICES ASSUME NEW w \in Waiting'
               PROVE  /\ \A x \in Made' : answer'[x] = "value" => x < w
                      /\ \A j \in Settlers' : stack'[j].with = "value" => stack'[j].req < w
    BY DEF OldestFirst
  <2>1. w \in Waiting
    BY LeavesFacts
  <2>2. ASSUME NEW x \in Made', answer'[x] = "value" PROVE x < w
    BY <2>1, <2>2, LeavesFacts DEF PlacesInv, OldestFirst
  <2>3. ASSUME NEW j \in Settlers', stack'[j].with = "value" PROVE stack'[j].req < w
    <3>1. CASE j = n
      BY <3>1, <2>3, <1>2, LeavesFacts
    <3>2. CASE j # n
      BY <3>2, <2>1, <2>3, <1>1 DEF PlacesInv, OldestFirst
    <3> QED
      BY <3>1, <3>2
  <2> QED
    BY <2>2, <2>3
<1> QED
  BY <1>4, <1>5, <1>6, LeavesFacts DEF PlacesInv, AnswersOnce

\* A frame answers its request.
LEMMA FrameAnswers ==
  ASSUME TypeOK, PlacesInv, NEW n, DropSettler(n), UNCHANGED <<queue, made>>,
         NEW a \in {stack[n].with, "error"},
         answer' = [answer EXCEPT ![stack[n].req] = a]
  PROVE  PlacesInv' /\ AnswersOnce /\ answer' \in [Requests -> Answers \union {"none"}]
<1>1. Waiting' = Waiting /\ Made' = Made
  BY DEF Waiting, Made
<1> DEFINE r == stack[n].req
<1>2. n \in Settlers /\ n \in DOMAIN stack /\ stack[n] \in Frames
  BY WaitingFacts DEF DropSettler, Settlers, PlacesInv
<1>3. r \in Requests /\ a \in Answers /\ a # "none" /\ r \in Made /\ r \notin Waiting
  BY <1>2, FrameFacts DEF PlacesInv, OnePlace, Settlers, Answers
<1>4. /\ answer'[r] = a /\ answer[r] = "none"
      /\ \A x \in Requests : x # r => answer'[x] = answer[x]
      /\ answer' \in [Requests -> Answers \union {"none"}]
  BY <1>2, <1>3 DEF TypeOK, PlacesInv, Unanswered
<1>5. \A j \in Settlers' : j \in Settlers /\ j # n /\ stack'[j] = stack[j] /\ stack[j].req # r
  BY <1>2 DEF DropSettler, PlacesInv, OnePlace
<1>6. \A j \in Settlers : j # n => j \in Settlers'
  BY DEF DropSettler
<1>7. QueueSorted'
  BY <1>1 DEF PlacesInv, QueueSorted
<1>8. OnePlace'
  BY <1>1, <1>5 DEF PlacesInv, OnePlace
<1>9. Unanswered'
  <2> SUFFICES ASSUME NEW x \in Requests
               PROVE  answer'[x] = "none" <=>
                        x > made' \/ x \in Waiting' \/ \E j \in Settlers' : stack'[j].req = x
    BY DEF Unanswered
  <2>1. CASE x = r
    <3>1. ~ (r > made) /\ \A j \in Settlers' : stack'[j].req # r
      BY <1>3, <1>5, WaitingFacts DEF Made, PlacesInv
    <3> QED
      BY <2>1, <3>1, <1>1, <1>3, <1>4
  <2>2. CASE x # r
    <3>1. (\E j \in Settlers' : stack'[j].req = x) <=> (\E j \in Settlers : stack[j].req = x)
      BY <2>2, <1>5, <1>6
    <3> QED
      BY <3>1, <2>2, <1>1, <1>4 DEF PlacesInv, Unanswered
  <2> QED
    BY <2>1, <2>2
<1>10. OldestFirst'
  <2> SUFFICES ASSUME NEW w \in Waiting
               PROVE  /\ \A x \in Made : answer'[x] = "value" => x < w
                      /\ \A j \in Settlers' : stack'[j].with = "value" => stack'[j].req < w
    BY <1>1 DEF OldestFirst
  <2>1. ASSUME NEW x \in Made, answer'[x] = "value" PROVE x < w
    <3>1. CASE x = r
      <4>1. stack[n].with = "value"
        BY <3>1, <2>1, <1>4
      <4> QED
        BY <3>1, <4>1, <1>2 DEF PlacesInv, OldestFirst
    <3>2. CASE x # r
      <4>1. x \in Requests
        BY BoundsAssumption DEF Made, Requests, TypeOK
      <4> QED
        BY <3>2, <4>1, <2>1, <1>4 DEF PlacesInv, OldestFirst
    <3> QED
      BY <3>1, <3>2
  <2> QED
    BY <2>1, <1>5 DEF PlacesInv, OldestFirst
<1>11. AnswersOnce
  BY <1>3, <1>4 DEF AnswersOnce
<1> QED
  BY <1>4, <1>7, <1>8, <1>9, <1>10, <1>11 DEF PlacesInv

\* A throw out of the body rejects every request that waits.
LEMMA AllRejected ==
  ASSUME TypeOK, PlacesInv, KeepSettlers, queue' = <<>>, made' = made,
         answer' = [r \in Requests |-> IF r \in Waiting THEN "error" ELSE answer[r]]
  PROVE  PlacesInv' /\ AnswersOnce /\ answer' \in [Requests -> Answers \union {"none"}]
<1>1. Waiting' = {} /\ Made' = Made
  BY DEF Waiting, Made
<1>2. QueueSorted'
  BY DEF QueueSorted
<1>3. OnePlace'
  BY <1>1 DEF PlacesInv, OnePlace, KeepSettlers
<1>4. \A w \in Waiting : w \in Requests /\ ~ (w > made)
  BY WaitingFacts DEF PlacesInv, Made
<1>5. Unanswered'
  BY <1>1, <1>4 DEF PlacesInv, Unanswered, KeepSettlers, OnePlace
<1>6. OldestFirst'
  BY <1>1 DEF OldestFirst
<1>7. AnswersOnce
  BY DEF AnswersOnce, PlacesInv, Unanswered
<1>8. answer' \in [Requests -> Answers \union {"none"}]
  BY DEF TypeOK, Answers
<1> QED
  BY <1>2, <1>3, <1>5, <1>6, <1>7, <1>8 DEF PlacesInv

-----------------------------------------------------------------------------
(* Answering on a stack *)

\* What an answer does: it is given, or a frame is about to give it.
Answering(r, a) ==
  \/ KeepSettlers /\ answer' = [answer EXCEPT ![r] = a]
  \/ AddSettler(r, a) /\ answer' = answer

\* Resolving from a frame that may have moved on: the answering frames stay, and
\* one is added when a getter runs in between.
LEMMA ResolveOver ==
  ASSUME stack \in Seq(Frames), NEW under \in Seq(Frames), Len(under) = Len(stack),
         \A i \in 1 .. Len(stack) : (under[i].at = "settle" <=> stack[i].at = "settle"),
         \A i \in 1 .. Len(stack) : stack[i].at = "settle" => under[i] = stack[i],
         NEW r \in Requests, NEW a \in Answers, Resolve(r, a, under)
  PROVE  /\ stack' \in Seq(Frames) /\ Answering(r, a)
         /\ Bodies' = {j \in 1 .. Len(stack) : under[j].at = "body"}
         /\ \A j \in 1 .. Len(stack) :
              under[j].at \in {"next", "body", "yielded", "drain"} => j \in Handlers'
<1>0. Len(stack) \in Nat /\ DOMAIN stack = 1 .. Len(stack) /\ DOMAIN under = 1 .. Len(stack)
  OBVIOUS
<1>1. CASE answer' = [answer EXCEPT ![r] = a] /\ stack' = under
  <2>1. KeepSettlers
    BY <1>0, <1>1 DEF KeepSettlers, Settlers
  <2> QED
    BY <1>0, <1>1, <2>1 DEF Answering, Bodies, Handlers
<1>2. CASE /\ answer' = answer
           /\ stack' \in Seq(Frames) /\ Len(stack') = Len(under) + 2
           /\ \A i \in 1 .. Len(under) : stack'[i] = under[i]
           /\ stack'[Len(under) + 1] = Settling(r, a)
           /\ stack'[Len(under) + 2] = Frame("program")
  <2> DEFINE n == Len(stack) + 1
  <2>1. /\ stack'[n] = Settling(r, a) /\ stack'[n].at = "settle" /\ stack'[n].at # "body"
        /\ stack'[n + 1].at = "program"
    BY <1>0, <1>2, FrameFacts DEF Places
  <2>2. DOMAIN stack' = DOMAIN stack \union {n, n + 1} /\ n \notin DOMAIN stack
    BY <1>0, <1>2
  <2>3. \A i \in DOMAIN stack : stack'[i] = under[i]
    BY <1>0, <1>2
  <2> HIDE DEF n
  <2>4. n \notin Settlers /\ Settlers' = Settlers \union {n}
    BY <1>0, <2>1, <2>2, <2>3 DEF Settlers
  <2>5. \A j \in Settlers : stack'[j] = stack[j]
    BY <1>0, <2>3 DEF Settlers
  <2>6. Bodies' = {j \in 1 .. Len(stack) : under[j].at = "body"}
    BY <1>0, <2>1, <2>2, <2>3 DEF Bodies
  <2>7. \A j \in 1 .. Len(stack) :
          under[j].at \in {"next", "body", "yielded", "drain"} => j \in Handlers'
    BY <1>0, <2>2, <2>3 DEF Handlers
  <2> QED
    BY <1>2, <2>1, <2>4, <2>5, <2>6, <2>7 DEF Answering, AddSettler
<1> QED
  BY <1>1, <1>2, ResolveFacts

\* Resolving from a frame that stays where it is.
LEMMA ResolveOnStack ==
  ASSUME stack \in Seq(Frames), NEW r \in Requests, NEW a \in Answers, Resolve(r, a, stack)
  PROVE  /\ stack' \in Seq(Frames) /\ Answering(r, a)
         /\ Bodies' = Bodies /\ Handlers \subseteq Handlers'
<1>1. DOMAIN stack = 1 .. Len(stack)
  OBVIOUS
<1> QED
  BY <1>1, ResolveOver DEF Bodies, Handlers

\* Resolving from the body, which goes on to `yielded` or to the drain
\* (processResumeResult).
LEMMA ResolveTurned ==
  ASSUME stack \in Seq(Frames), ~Idle, stack[Len(stack)].at = "body",
         NEW p \in {"yielded", "drain"},
         NEW r \in Requests, NEW a \in Answers, Resolve(r, a, Turned(p))
  PROVE  /\ stack' \in Seq(Frames) /\ Answering(r, a)
         /\ Bodies' = Bodies \ {Len(stack)} /\ Handlers' # {}
<1> DEFINE under == Turned(p)
<1>1. /\ under \in Seq(Frames) /\ Len(under) = Len(stack)
      /\ \A i \in 1 .. Len(stack) - 1 : under[i] = stack[i]
      /\ under[Len(stack)].at = p /\ p # "body" /\ p # "settle"
  BY TurnedFacts, FrameFacts DEF Places
<1>2. Len(stack) \in Nat /\ Len(stack) > 0 /\ DOMAIN stack = 1 .. Len(stack)
  BY DEF Idle
<1> HIDE DEF under
<1>3. Resolve(r, a, under)
  BY DEF under
<1>4. \A i \in 1 .. Len(stack) : /\ (under[i].at = "settle" <=> stack[i].at = "settle")
                                 /\ (stack[i].at = "settle" => under[i] = stack[i])
  BY <1>1, <1>2
<1>5. /\ stack' \in Seq(Frames) /\ Answering(r, a)
      /\ Bodies' = {j \in 1 .. Len(stack) : under[j].at = "body"}
      /\ \A j \in 1 .. Len(stack) :
           under[j].at \in {"next", "body", "yielded", "drain"} => j \in Handlers'
  BY <1>1, <1>3, <1>4, ResolveOver
<1>6. Bodies' = Bodies \ {Len(stack)}
  BY <1>1, <1>2, <1>5 DEF Bodies
<1> QED
  BY <1>1, <1>2, <1>5, <1>6

\* The places of the requests after an answer.
LEMMA AnsweringPlaces ==
  ASSUME TypeOK, PlacesInv, NEW r \in Requests, NEW a \in Answers, Leaves(r, a), Answering(r, a)
  PROVE  PlacesInv' /\ AnswersOnce /\ answer' \in [Requests -> Answers \union {"none"}]
<1>1. answer' \in [Requests -> Answers \union {"none"}]
  BY DEF Answering, TypeOK
<1> QED
  BY <1>1, LeavesAnswered, LeavesToFrame DEF Answering

-----------------------------------------------------------------------------
(* Every step of the generator keeps the invariant *)

StateOK == state \in {"start", "yield", "executing", "completed"}
AwaitOK == awaiting \in BOOLEAN /\ awaits \in 0 .. MaxAwaits

\* The type invariant, conjunct by conjunct.
LEMMA TypeParts ==
  /\ TypeOK <=>
       /\ StateOK /\ AwaitOK
       /\ queue \in Seq(Entries) /\ made \in 0 .. MaxRequests
       /\ answer \in [Requests -> Answers \union {"none"}]
       /\ stack \in Seq(Frames)
  /\ TypeOK' <=>
       /\ StateOK' /\ AwaitOK'
       /\ queue' \in Seq(Entries) /\ made' \in 0 .. MaxRequests
       /\ answer' \in [Requests -> Answers \union {"none"}]
       /\ stack' \in Seq(Frames)
BY DEF TypeOK, StateOK, AwaitOK, Entries, Frames, PlainFrames, SettleFrames

\* The generator's invariant, part by part.
LEMMA GenInvParts ==
  /\ GenInv <=> TypeOK /\ PlacesInv /\ OneBody /\ Attended
  /\ GenInv' <=> TypeOK' /\ PlacesInv' /\ OneBody' /\ Attended'
BY DEF GenInv, PlacesInv

\* A request answered without the body (asyncGeneratorResumeNext) is answered
\* once and starts no body.
LEMMA AloneFacts ==
  ASSUME TypeOK, NEW r \in Requests, NEW m \in Modes, AnswerAlone(r, m, stack)
  PROVE  \E a \in {"done", "error"} :
           /\ Answering(r, a) /\ stack' \in Seq(Frames)
           /\ Bodies' = Bodies /\ Handlers \subseteq Handlers'
<1>1. stack \in Seq(Frames)
  BY TypeParts
<1>2. CASE m = "throw"
  <2>1. /\ stack' = stack
        /\ answer' = [x \in Requests |-> IF x \in {r} THEN "error" ELSE answer[x]]
    BY <1>2 DEF AnswerAlone, Reject
  <2>2. answer' = [answer EXCEPT ![r] = "error"]
    <3>1. answer = [x \in Requests |-> answer[x]]
      BY DEF TypeOK
    <3> QED
      BY <2>1, <3>1, SMT
  <2>3. KeepSettlers /\ Bodies' = Bodies /\ Handlers' = Handlers
    BY <2>1 DEF KeepSettlers, Settlers, Bodies, Handlers
  <2> QED
    BY <1>1, <2>1, <2>2, <2>3 DEF Answering
<1>3. CASE m # "throw"
  <2>1. "done" \in Answers /\ Resolve(r, "done", stack)
    BY <1>3 DEF AnswerAlone, Answers
  <2> QED
    BY <1>1, <2>1, ResolveOnStack
<1> QED
  BY <1>2, <1>3

\* A step that moves the stack only, and not the body.
LEMMA StackOnly ==
  ASSUME GenInv, UNCHANGED <<state, queue, made, answer, awaiting, awaits>>,
         stack' \in Seq(Frames), KeepSettlers, Bodies' = Bodies,
         queue # <<>> /\ ~awaiting => Handlers' # {}
  PROVE  GenInv' /\ AnswersOnce
<1>1. PlacesInv' /\ AnswersOnce
  BY NoneMoves, GenInvParts
<1>2. TypeOK'
  BY GenInvParts, TypeParts DEF StateOK, AwaitOK
<1>3. OneBody' /\ Attended'
  BY DEF GenInv, OneBody, Attended
<1> QED
  BY <1>1, <1>2, <1>3, GenInvParts

\* next, return and throw (enqueueRequest).
LEMMA AskKeeps ==
  ASSUME GenInv, NEW m \in Modes, Ask(m)
  PROVE  GenInv' /\ AnswersOnce
<1>1. TypeOK /\ PlacesInv /\ OneBody /\ Attended /\ stack \in Seq(Frames)
  BY GenInvParts, TypeParts
<1>2. made \in Nat /\ made + 1 \in Requests /\ made' = made + 1 /\ made' \in 0 .. MaxRequests
  BY <1>1, BoundsAssumption DEF Ask, TypeOK, Requests
<1>3. CASE RunsAlone(m)
  <2>1. /\ state' = "completed" /\ queue' = queue /\ UNCHANGED <<awaiting, awaits>>
        /\ AnswerAlone(made + 1, m, stack) /\ state # "executing"
    BY <1>3 DEF Ask, RunsAlone
  <2>2. PICK a \in {"done", "error"} :
          /\ Answering(made + 1, a) /\ stack' \in Seq(Frames)
          /\ Bodies' = Bodies /\ Handlers \subseteq Handlers'
    BY <1>1, <1>2, <2>1, AloneFacts
  <2>3. Leaves(made + 1, a) /\ a \in Answers
    BY <1>2, <2>1 DEF Leaves, Answers
  <2>4. PlacesInv' /\ AnswersOnce /\ answer' \in [Requests -> Answers \union {"none"}]
    BY <1>1, <1>2, <2>2, <2>3, AnsweringPlaces
  <2>5. TypeOK'
    BY <1>1, <1>2, <2>1, <2>2, <2>4, TypeParts DEF StateOK, AwaitOK
  <2>6. OneBody' /\ Attended'
    BY <1>1, <2>1, <2>2 DEF OneBody, Attended
  <2> QED
    BY <2>4, <2>5, <2>6, GenInvParts
<1>4. CASE ~RunsAlone(m)
  <2>1. /\ queue' = Append(queue, [req |-> made + 1, mode |-> m])
        /\ UNCHANGED <<state, answer, awaiting, awaits>>
        /\ \/ state = "executing" /\ stack' = stack
           \/ state # "executing" /\ stack' = Append(stack, Frame("next"))
    BY <1>4 DEF Ask, Queued
  <2>2. /\ stack' \in Seq(Frames) /\ KeepSettlers /\ Bodies' = Bodies
        /\ state # "executing" => Handlers' # {}
        /\ state = "executing" => Handlers' = Handlers
    <3>1. CASE state = "executing" /\ stack' = stack
      BY <3>1, <1>1 DEF KeepSettlers, Settlers, Bodies, Handlers
    <3>2. CASE state # "executing" /\ stack' = Append(stack, Frame("next"))
      <4>1. "next" \in Places /\ "next" # "body"
        BY DEF Places
      <4> QED
        BY <3>2, <4>1, <1>1, PushKeeps
    <3> QED
      BY <2>1, <3>1, <3>2
  <2>3. queue' \in Seq(Entries) /\ queue' # <<>>
    BY <1>1, <1>2, <2>1, AppendWaits DEF PlacesInv
  <2>4. PlacesInv' /\ AnswersOnce
    BY <1>1, <1>2, <2>1, <2>2, JoinsQueue
  <2>5. TypeOK'
    BY <1>1, <1>2, <2>1, <2>2, <2>3, TypeParts DEF StateOK, AwaitOK
  <2>6. OneBody'
    BY <1>1, <2>1, <2>2 DEF OneBody
  <2>7. Attended'
    BY <1>1, <2>1, <2>2, <2>3 DEF Attended
  <2> QED
    BY <2>4, <2>5, <2>6, <2>7, GenInvParts
<1> QED
  BY <1>3, <1>4

\* The end of a resolution whose getter has returned (runResolutionSteps).
LEMMA SettleKeeps ==
  ASSUME GenInv, Settle
  PROVE  GenInv' /\ AnswersOnce
<1>1. TypeOK /\ PlacesInv /\ OneBody /\ Attended /\ stack \in Seq(Frames)
  BY GenInvParts, TypeParts
<1> DEFINE n == Len(stack)
<1>2. ~Idle /\ n \in Nat /\ n > 0 /\ stack[n].at = "settle" /\ n \in DOMAIN stack
  BY <1>1, TopFacts DEF Settle
<1>3. stack' = Below /\ UNCHANGED <<state, queue, made, awaiting, awaits>>
  BY DEF Settle
<1>4. PICK a \in {stack[n].with, "error"} : answer' = [answer EXCEPT ![stack[n].req] = a]
  BY DEF Settle
<1>5. /\ stack' \in Seq(Frames) /\ DOMAIN stack' = DOMAIN stack \ {n}
      /\ \A i \in DOMAIN stack' : stack'[i] = stack[i]
  <2>1. /\ stack' \in Seq(Frames) /\ Len(stack') = n - 1
        /\ \A i \in 1 .. n - 1 : stack'[i] = stack[i]
    BY <1>1, <1>2, <1>3, BelowFacts
  <2>2. DOMAIN stack' = 1 .. n - 1 /\ DOMAIN stack = 1 .. n
    BY <1>1, <1>2, <2>1
  <2> QED
    BY <1>2, <2>1, <2>2
<1> HIDE DEF n
<1>6. DropSettler(n) /\ Bodies' = Bodies /\ Handlers' = Handlers
  BY <1>2, <1>5 DEF DropSettler, Settlers, Bodies, Handlers
<1>7. PlacesInv' /\ AnswersOnce /\ answer' \in [Requests -> Answers \union {"none"}]
  BY <1>1, <1>3, <1>4, <1>6, FrameAnswers
<1>8. TypeOK'
  BY <1>1, <1>3, <1>5, <1>7, TypeParts DEF StateOK, AwaitOK
<1>9. OneBody' /\ Attended'
  BY <1>1, <1>3, <1>6 DEF OneBody, Attended
<1> QED
  BY <1>7, <1>8, <1>9, GenInvParts

\* asyncGeneratorResumeNext.
LEMMA ResumeNextKeeps ==
  ASSUME GenInv, ResumeNext
  PROVE  GenInv' /\ AnswersOnce
<1>1. TypeOK /\ PlacesInv /\ OneBody /\ Attended /\ stack \in Seq(Frames)
  BY GenInvParts, TypeParts
<1>2. /\ ~Idle /\ Len(stack) \in Nat /\ Len(stack) > 0 /\ stack[Len(stack)].at = "next"
      /\ Len(stack) \in DOMAIN stack
  BY <1>1, TopFacts DEF ResumeNext
<1>3. Len(stack) \notin Bodies /\ stack[Len(stack)].at # "settle"
  BY <1>2 DEF Bodies
<1>4. UNCHANGED <<made, awaiting, awaits>>
  BY DEF ResumeNext
<1>5. CASE /\ queue = <<>> \/ state = "executing"
           /\ stack' = Below /\ UNCHANGED <<state, queue, answer>>
  <2>1. KeepSettlers /\ Bodies' = Bodies /\ Handlers' = Handlers \ {Len(stack)}
    BY <1>1, <1>2, <1>3, <1>5, PopKeeps
  <2>2. stack' \in Seq(Frames)
    BY <1>1, <1>2, <1>5, BelowFacts
  <2>3. queue # <<>> /\ ~awaiting => Handlers' # {}
    <3> SUFFICES ASSUME queue # <<>>, ~awaiting PROVE Handlers' # {}
      OBVIOUS
    <3>1. Bodies # {}
      BY <1>1, <1>5 DEF OneBody
    <3>2. PICK b : b \in Bodies
      BY <3>1
    <3>3. b \in Handlers /\ b # Len(stack)
      BY <3>2, <1>3 DEF Bodies, Handlers
    <3> QED
      BY <3>3, <2>1
  <2> QED
    BY <1>4, <1>5, <2>1, <2>2, <2>3, StackOnly
<1>6. CASE queue # <<>> /\ state # "executing" /\ RunsAlone(Head(queue).mode)
  <2> DEFINE q == Head(queue)
  <2>1. /\ state' = "completed" /\ queue' = Tail(queue)
        /\ AnswerAlone(q.req, q.mode, stack)
    BY <1>6 DEF ResumeNext
  <2>2. q \in Entries
    BY <1>1, <1>4, <1>6, <2>1, TailWaits DEF PlacesInv
  <2>3. q.req \in Requests /\ q.mode \in Modes
    BY <2>2 DEF Entries
  <2>4. PICK a \in {"done", "error"} :
          /\ Answering(q.req, a) /\ stack' \in Seq(Frames)
          /\ Bodies' = Bodies /\ Handlers \subseteq Handlers'
    BY <1>1, <2>1, <2>3, AloneFacts
  <2>5. Leaves(q.req, a) /\ a \in Answers
    BY <1>4, <1>6, <2>1 DEF Leaves, Answers
  <2>6. PlacesInv' /\ AnswersOnce /\ answer' \in [Requests -> Answers \union {"none"}]
    BY <1>1, <2>3, <2>4, <2>5, AnsweringPlaces
  <2>7. queue' \in Seq(Entries) /\ made' \in 0 .. MaxRequests
    BY <1>1, <2>3, <2>5, LeavesFacts
  <2>8. TypeOK'
    BY <1>1, <1>4, <2>1, <2>4, <2>6, <2>7, TypeParts DEF StateOK, AwaitOK
  <2>9. Len(stack) \in Handlers
    BY <1>2 DEF Handlers
  <2>10. OneBody' /\ Attended'
    BY <1>1, <1>4, <1>6, <2>1, <2>4, <2>9 DEF OneBody, Attended
  <2> QED
    BY <2>6, <2>8, <2>10, GenInvParts
<1>7. CASE queue # <<>> /\ state # "executing" /\ ~RunsAlone(Head(queue).mode)
  <2>1. /\ state' = "executing" /\ stack' = Turned("body") /\ UNCHANGED <<queue, answer>>
    BY <1>7 DEF ResumeNext
  <2>2. "body" \in Places
    BY DEF Places
  <2>3. /\ stack' \in Seq(Frames) /\ Len(stack') = Len(stack)
        /\ \A i \in 1 .. Len(stack) - 1 : stack'[i] = stack[i]
        /\ stack'[Len(stack)] = Frame("body")
    BY <1>1, <1>2, <2>1, <2>2, TurnedFacts
  <2>4. /\ KeepSettlers /\ Bodies' = Bodies \union {Len(stack)}
        /\ Len(stack) \in Handlers'
    BY <1>1, <1>2, <1>3, <2>2, <2>3, TurnKeeps
  <2>5. PlacesInv' /\ AnswersOnce
    BY <1>1, <1>4, <2>1, <2>4, NoneMoves
  <2>6. TypeOK'
    BY <1>1, <1>4, <2>1, <2>3, TypeParts DEF StateOK, AwaitOK
  <2>7. ~awaiting /\ Bodies = {}
    BY <1>1, <1>7 DEF OneBody
  <2>8. OneBody' /\ Attended'
    BY <1>4, <1>7, <2>1, <2>4, <2>7 DEF OneBody, Attended
  <2> QED
    BY <2>5, <2>6, <2>8, GenInvParts
<1> QED
  BY <1>5, <1>6, <1>7 DEF ResumeNext

\* The body is at the top: it is the only one, and it has a request.
LEMMA BodyRuns ==
  ASSUME GenInv, At("body")
  PROVE  /\ ~Idle /\ stack[Len(stack)].at = "body" /\ stack[Len(stack)].at # "settle"
         /\ Bodies = {Len(stack)} /\ ~awaiting /\ state = "executing" /\ queue # <<>>
<1>1. TypeOK /\ OneBody /\ Attended /\ stack \in Seq(Frames)
  BY GenInvParts, TypeParts
<1>2. /\ ~Idle /\ Len(stack) \in Nat /\ Len(stack) > 0 /\ stack[Len(stack)].at = "body"
  BY <1>1, TopFacts
<1>3. Len(stack) \in Bodies
  BY <1>1, <1>2 DEF Bodies
<1>4. Bodies = {Len(stack)} /\ ~awaiting /\ state = "executing"
  BY <1>1, <1>3 DEF OneBody
<1> QED
  BY <1>1, <1>2, <1>4 DEF Attended

\* The body awaits (resumeBody).
LEMMA BodyAwaitsKeeps ==
  ASSUME GenInv, BodyAwaits
  PROVE  GenInv' /\ AnswersOnce
<1>1. TypeOK /\ PlacesInv /\ OneBody /\ Attended /\ stack \in Seq(Frames)
  BY GenInvParts, TypeParts
<1>2. At("body") /\ awaiting' = TRUE /\ awaits' \in 0 .. MaxAwaits
  BY <1>1, BoundsAssumption DEF BodyAwaits, TypeOK
<1>3. stack' = Below /\ UNCHANGED <<state, queue, made, answer>>
  BY DEF BodyAwaits
<1>4. KeepSettlers /\ Bodies' = {} /\ stack' \in Seq(Frames)
  BY <1>1, <1>2, <1>3, BodyRuns, PopKeeps, BelowFacts
<1>5. PlacesInv' /\ AnswersOnce
  BY <1>1, <1>3, <1>4, NoneMoves
<1>6. TypeOK'
  BY <1>1, <1>2, <1>3, <1>4, TypeParts DEF StateOK, AwaitOK
<1>7. OneBody' /\ Attended'
  BY <1>1, <1>2, <1>3, <1>4, BodyRuns DEF OneBody, Attended
<1> QED
  BY <1>5, <1>6, <1>7, GenInvParts

\* The body yields or returns (processResumeResult).
LEMMA CompletesKeeps ==
  ASSUME GenInv, NEW new \in {"yield", "completed"}, NEW a \in {"value", "done"},
         NEW p \in {"yielded", "drain"}, Completes(new, a, p)
  PROVE  GenInv' /\ AnswersOnce
<1>1. TypeOK /\ PlacesInv /\ OneBody /\ Attended /\ stack \in Seq(Frames)
  BY GenInvParts, TypeParts
<1>2. At("body") /\ state' = new /\ UNCHANGED <<made, awaiting, awaits>>
  BY DEF Completes
<1> DEFINE r == Head(queue).req
<1>3. queue # <<>> /\ queue' = Tail(queue) /\ Resolve(r, a, Turned(p))
  BY <1>2, BodyRuns DEF Completes
<1>4. Head(queue) \in Entries
  BY <1>1, <1>2, <1>3, TailWaits DEF PlacesInv
<1>5. r \in Requests /\ a \in Answers
  BY <1>4 DEF Entries, Answers
<1>6. /\ stack' \in Seq(Frames) /\ Answering(r, a)
      /\ Bodies' = {} /\ Handlers' # {}
  BY <1>1, <1>2, <1>3, <1>5, BodyRuns, ResolveTurned
<1>7. Leaves(r, a)
  BY <1>2, <1>3 DEF Leaves
<1>8. PlacesInv' /\ AnswersOnce /\ answer' \in [Requests -> Answers \union {"none"}]
  BY <1>1, <1>5, <1>6, <1>7, AnsweringPlaces
<1>9. queue' \in Seq(Entries) /\ made' \in 0 .. MaxRequests
  BY <1>1, <1>5, <1>7, LeavesFacts
<1>10. TypeOK'
  BY <1>1, <1>2, <1>6, <1>8, <1>9, TypeParts DEF StateOK, AwaitOK
<1>11. OneBody' /\ Attended'
  BY <1>1, <1>2, <1>6, BodyRuns DEF OneBody, Attended
<1> QED
  BY <1>8, <1>10, <1>11, GenInvParts

\* The body throws (resumeBody).
LEMMA BodyThrowsKeeps ==
  ASSUME GenInv, BodyThrows
  PROVE  GenInv' /\ AnswersOnce
<1>1. TypeOK /\ PlacesInv /\ OneBody /\ Attended /\ stack \in Seq(Frames)
  BY GenInvParts, TypeParts
<1>2. /\ At("body") /\ state' = "completed" /\ queue' = <<>> /\ stack' = Below
      /\ UNCHANGED <<made, awaiting, awaits>>
      /\ answer' = [r \in Requests |-> IF r \in Waiting THEN "error" ELSE answer[r]]
  BY DEF BodyThrows, Reject, Thrown
<1>3. KeepSettlers /\ Bodies' = {} /\ stack' \in Seq(Frames)
  BY <1>1, <1>2, BodyRuns, PopKeeps, BelowFacts
<1>4. PlacesInv' /\ AnswersOnce /\ answer' \in [Requests -> Answers \union {"none"}]
  BY <1>1, <1>2, <1>3, AllRejected
<1>5. TypeOK'
  BY <1>1, <1>2, <1>3, <1>4, TypeParts DEF StateOK, AwaitOK
<1>6. OneBody' /\ Attended'
  BY <1>2, <1>3, BodyRuns DEF OneBody, Attended
<1> QED
  BY <1>4, <1>5, <1>6, GenInvParts

\* A frame that is neither a body nor an answer is popped, and is not needed.
LEMMA PopOnly ==
  ASSUME GenInv, NEW p \in {"program", "walk", "yielded", "drain"}, At(p),
         p \in {"yielded", "drain"} => queue = <<>>,
         stack' = Below, UNCHANGED <<state, queue, made, answer, awaiting, awaits>>
  PROVE  GenInv' /\ AnswersOnce
<1>1. stack \in Seq(Frames) /\ Attended
  BY GenInvParts, TypeParts
<1>2. /\ ~Idle /\ stack[Len(stack)].at = p /\ p # "settle" /\ p # "body"
      /\ Len(stack) \in DOMAIN stack
  BY <1>1, TopFacts
<1>3. KeepSettlers /\ Bodies' = Bodies \ {Len(stack)} /\ Handlers' = Handlers \ {Len(stack)}
  BY <1>1, <1>2, PopKeeps
<1>4. Bodies' = Bodies /\ (queue # <<>> => Handlers' = Handlers)
  BY <1>2, <1>3 DEF Bodies, Handlers
<1>5. stack' \in Seq(Frames)
  BY <1>1, <1>2, BelowFacts
<1> QED
  BY <1>1, <1>3, <1>4, <1>5, StackOnly DEF Attended

\* A frame that is neither a body nor an answer is pushed.
LEMMA PushOnly ==
  ASSUME GenInv, NEW p \in {"program", "walk", "next"}, stack' = Append(stack, Frame(p)),
         UNCHANGED <<state, queue, made, answer, awaiting, awaits>>
  PROVE  GenInv' /\ AnswersOnce
<1>1. stack \in Seq(Frames) /\ Attended
  BY GenInvParts, TypeParts
<1>2. p \in Places /\ p # "body"
  BY DEF Places
<1>3. /\ stack' \in Seq(Frames) /\ KeepSettlers
      /\ Bodies' = Bodies /\ Handlers \subseteq Handlers'
  BY <1>1, <1>2, PushKeeps
<1> QED
  BY <1>1, <1>3, StackOnly DEF Attended

\* After a yield the next request is looked for (processResumeResult).
LEMMA AfterYieldKeeps ==
  ASSUME GenInv, AfterYield
  PROVE  GenInv' /\ AnswersOnce
<1>1. stack \in Seq(Frames)
  BY GenInvParts, TypeParts
<1>2. At("yielded") /\ UNCHANGED <<state, queue, made, answer, awaiting, awaits>>
  BY DEF AfterYield
<1>3. CASE queue = <<>>
  BY <1>2, <1>3, PopOnly DEF AfterYield, NextFrame
<1>4. CASE queue # <<>>
  <2>1. stack' = Turned("next") /\ "next" \in Places
    BY <1>4 DEF AfterYield, NextFrame, Places
  <2>2. /\ ~Idle /\ Len(stack) \in DOMAIN stack /\ stack[Len(stack)].at = "yielded"
    BY <1>1, <1>2, TopFacts
  <2>3. /\ stack' \in Seq(Frames) /\ Len(stack') = Len(stack)
        /\ \A i \in 1 .. Len(stack) - 1 : stack'[i] = stack[i]
        /\ stack'[Len(stack)] = Frame("next")
    BY <1>1, <2>1, <2>2, TurnedFacts
  <2>4. /\ KeepSettlers /\ Bodies' = Bodies \ {Len(stack)} /\ Len(stack) \in Handlers'
    BY <1>1, <2>1, <2>2, <2>3, TurnKeeps
  <2>5. Bodies' = Bodies
    BY <2>2, <2>4 DEF Bodies
  <2> QED
    BY <1>2, <2>3, <2>4, <2>5, StackOnly
<1> QED
  BY <1>3, <1>4

\* After the end the rest of the queue is answered (processResumeResult).
LEMMA DrainKeeps ==
  ASSUME GenInv, Drain
  PROVE  GenInv' /\ AnswersOnce
<1>1. At("drain") /\ UNCHANGED <<state, queue, made, answer, awaiting, awaits>>
  BY DEF Drain
<1>2. CASE stack' = Append(stack, Frame("next"))
  BY <1>1, <1>2, PushOnly
<1>3. CASE queue = <<>> /\ stack' = Below
  BY <1>1, <1>3, PopOnly
<1> QED
  BY <1>2, <1>3 DEF Drain

\* What the body awaits settles (rtAsyncGeneratorResumeFromAwait).
LEMMA AwaitSettlesKeeps ==
  ASSUME GenInv, AwaitSettles
  PROVE  GenInv' /\ AnswersOnce
<1>1. TypeOK /\ PlacesInv /\ OneBody /\ Attended /\ stack \in Seq(Frames)
  BY GenInvParts, TypeParts
<1>2. /\ stack = <<>> /\ awaiting /\ awaiting' = FALSE /\ state' = "executing"
      /\ stack' = <<Frame("body")>> /\ UNCHANGED <<queue, made, answer, awaits>>
  BY DEF AwaitSettles, Idle
<1>3. Frame("body") \in Frames /\ Frame("body").at = "body"
  BY FrameFacts DEF Places
<1>4. stack' \in Seq(Frames) /\ DOMAIN stack' = {1} /\ stack'[1] = Frame("body")
  BY <1>2, <1>3
<1>5. KeepSettlers /\ Bodies' = {1} /\ Handlers' = {1}
  BY <1>2, <1>3, <1>4 DEF KeepSettlers, Settlers, Bodies, Handlers
<1>6. PlacesInv' /\ AnswersOnce
  BY <1>1, <1>2, <1>5, NoneMoves
<1>7. TypeOK'
  BY <1>1, <1>2, <1>4, TypeParts DEF StateOK, AwaitOK
<1>8. OneBody' /\ Attended'
  BY <1>1, <1>2, <1>5 DEF OneBody, Attended
<1> QED
  BY <1>6, <1>7, <1>8, GenInvParts

\* Scripts and callbacks come and go.
LEMMA ProgramKeeps ==
  ASSUME GenInv, ProgramStarts \/ ProgramReturns
  PROVE  GenInv' /\ AnswersOnce
<1>1. CASE ProgramReturns
  BY <1>1, PopOnly DEF ProgramReturns
<1>2. CASE ProgramStarts
  <2>1. stack = <<>> /\ stack' = <<Frame("program")>>
    BY <1>2 DEF ProgramStarts, Idle
  <2>2. stack' = Append(stack, Frame("program"))
    BY <2>1
  <2> QED
    BY <1>2, <2>2, PushOnly DEF ProgramStarts
<1> QED
  BY <1>1, <1>2

\* Every step of the generator.
LEMMA GeneratorKeeps ==
  ASSUME GenInv, Next
  PROVE  GenInv' /\ AnswersOnce
<1>1. CASE BodyYields
  BY <1>1, CompletesKeeps DEF BodyYields
<1>2. CASE BodyReturns
  BY <1>2, CompletesKeeps DEF BodyReturns
<1> QED
  BY <1>1, <1>2, AskKeeps, SettleKeeps, ResumeNextKeeps, AfterYieldKeeps, DrainKeeps,
     BodyAwaitsKeeps, BodyThrowsKeeps, AwaitSettlesKeeps, ProgramKeeps DEF Next, Step

-----------------------------------------------------------------------------
(* Every step keeps the invariant of the combinator *)

\* The finite sets the combinator counts.
LEMMA CombFacts ==
  ASSUME CombTypeOK
  PROVE  /\ Len(elements) \in Nat /\ DOMAIN elements = 1 .. Len(elements)
         /\ IsFiniteSet(DOMAIN elements)
         /\ IsFiniteSet(Missing) /\ Cardinality(Missing) \in Nat
         /\ (Cardinality(Missing) = 0 <=> Missing = {})
         /\ (Missing = {} <=> stored = DOMAIN elements)
         /\ \A i \in DOMAIN elements : elements[i] \in Requests
         /\ \A k \in DOMAIN jobs : jobs[k] \in DOMAIN elements
<1>1. Len(elements) \in Nat /\ DOMAIN elements = 1 .. Len(elements)
  BY DEF CombTypeOK
<1>2. IsFiniteSet(DOMAIN elements)
  BY <1>1, FS_Interval
<1>3. Missing \subseteq DOMAIN elements
  BY DEF Missing
<1>4. IsFiniteSet(Missing) /\ Cardinality(Missing) \in Nat
  BY <1>2, <1>3, FS_Subset, FS_CardinalityType
<1>5. Cardinality(Missing) = 0 <=> Missing = {}
  BY <1>4, FS_EmptySet
<1>6. Missing = {} <=> stored = DOMAIN elements
  BY DEF Missing, CombTypeOK
<1>7. /\ \A i \in DOMAIN elements : elements[i] \in Requests
      /\ \A k \in DOMAIN jobs : jobs[k] \in DOMAIN elements
  BY DEF CombTypeOK
<1> QED
  BY <1>1, <1>2, <1>4, <1>5, <1>6, <1>7

\* An answer that is there stays there.
LEMMA AnswersStay ==
  ASSUME CombTypeOK, AnswersOnce, elements' = elements, NEW i \in DOMAIN elements, Answered(i)
  PROVE  Answered(i)' /\ answer'[elements[i]] # "none"
BY CombFacts DEF AnswersOnce, Answered

\* The reactions that a step of the generator queues (settleInternal).
LEMMA NoticeFacts ==
  ASSUME CombTypeOK, AnswersOnce, Notice({r \in Requests : answer[r] # answer'[r]})
  PROVE  \E s \in Seq(DOMAIN elements) :
           /\ jobs' = jobs \o s
           /\ \A k, l \in DOMAIN s : s[k] = s[l] => k = l
           /\ \A k \in DOMAIN s : ~Answered(s[k]) /\ answer'[elements[s[k]]] # "none"
<1> DEFINE now == {r \in Requests : answer[r] # answer'[r]}
           S == Reactions(now)
<1>1. PICK s \in Orders(S) : jobs' = jobs \o s
  BY DEF Notice
<1>2. S \subseteq DOMAIN elements /\ \A i \in S : elements[i] \in now
  BY DEF Reactions
<1>3. Cardinality(S) \in Nat
  BY <1>2, CombFacts, FS_Subset, FS_CardinalityType
<1>4. s \in [1 .. Cardinality(S) -> S]
  BY DEF Orders
<1>5. s \in Seq(DOMAIN elements) /\ DOMAIN s = 1 .. Cardinality(S) /\ \A k \in DOMAIN s : s[k] \in S
  <2>1. DOMAIN s = 1 .. Cardinality(S) /\ \A k \in DOMAIN s : s[k] \in S
    BY <1>4
  <2>2. s \in [1 .. Cardinality(S) -> DOMAIN elements]
    BY <1>2, <1>4
  <2>3. \A n \in Nat : [1 .. n -> DOMAIN elements] \subseteq Seq(DOMAIN elements)
    BY SeqDef
  <2> QED
    BY <1>3, <2>1, <2>2, <2>3
<1>6. \A k \in DOMAIN s : ~Answered(s[k]) /\ answer'[elements[s[k]]] # "none"
  BY <1>2, <1>5 DEF AnswersOnce, Answered
<1>7. \A i \in DOMAIN elements : ~Earlier(i, i)
  BY CombFacts DEF Earlier, Requests
<1>8. \A k, l \in DOMAIN s : k < l => Earlier(s[k], s[l])
  BY <1>1 DEF Orders
<1>9. \A k, l \in DOMAIN s : s[k] = s[l] => k = l
  <2> SUFFICES ASSUME NEW k \in DOMAIN s, NEW l \in DOMAIN s, s[k] = s[l], k # l
               PROVE  FALSE
    OBVIOUS
  <2>1. k < l \/ l < k
    BY <1>3, <1>5
  <2>2. s[k] \in DOMAIN elements
    BY <1>2, <1>5
  <2> QED
    BY <2>1, <2>2, <1>7, <1>8
<1> QED
  BY <1>1, <1>5, <1>6, <1>9

\* Requests that are answered queue the reactions of their elements
\* (settleInternal), each once.
LEMMA NoticeKeeps ==
  ASSUME CombInv, AnswersOnce, Notice({r \in Requests : answer[r] # answer'[r]})
  PROVE  CombInv'
<1>1. UNCHANGED <<kind, phase, elements, stored, remaining, cap>>
  BY DEF Notice
<1>2. CombTypeOK
  BY DEF CombInv
<1>3. PICK s \in Seq(DOMAIN elements) :
        /\ jobs' = jobs \o s
        /\ \A k, l \in DOMAIN s : s[k] = s[l] => k = l
        /\ \A k \in DOMAIN s : ~Answered(s[k]) /\ answer'[elements[s[k]]] # "none"
  BY <1>2, NoticeFacts
<1>4. jobs \in Seq(DOMAIN elements) /\ Len(jobs) \in Nat /\ Len(s) \in Nat
  BY <1>2 DEF CombTypeOK
<1>5. /\ jobs' \in Seq(DOMAIN elements) /\ Len(jobs') = Len(jobs) + Len(s)
      /\ \A k \in 1 .. Len(jobs) + Len(s) :
           jobs'[k] = IF k <= Len(jobs) THEN jobs[k] ELSE s[k - Len(jobs)]
  BY <1>3, <1>4, ConcatProperties
<1>6. /\ DOMAIN jobs' = 1 .. Len(jobs) + Len(s) /\ DOMAIN jobs = 1 .. Len(jobs)
      /\ DOMAIN s = 1 .. Len(s)
  BY <1>3, <1>4, <1>5
<1>7. \A k \in DOMAIN jobs' : \/ k \in DOMAIN jobs /\ jobs'[k] = jobs[k]
                              \/ k - Len(jobs) \in DOMAIN s /\ jobs'[k] = s[k - Len(jobs)]
  BY <1>4, <1>5, <1>6
<1>8. CombTypeOK'
  BY <1>1, <1>2, <1>5 DEF CombTypeOK
<1>9. NotYet' /\ CountIs' /\ FinishesWithAll'
  BY <1>1 DEF CombInv, NotYet, CountIs, Counts, Missing, FinishesWithAll
<1>10. JobsOnce'
  <2>1. \A k \in DOMAIN jobs : jobs[k] \in DOMAIN elements /\ jobs[k] \notin stored /\ Answered(jobs[k])
    BY <1>2, CombFacts DEF CombInv, JobsOnce
  <2>2. \A k, l \in DOMAIN jobs' : jobs'[k] = jobs'[l] => k = l
    <3> SUFFICES ASSUME NEW k \in DOMAIN jobs', NEW l \in DOMAIN jobs', jobs'[k] = jobs'[l]
                 PROVE  k = l
      OBVIOUS
    <3>1. k \in Int /\ l \in Int
      BY <1>4, <1>6
    <3>2. CASE k \in DOMAIN jobs /\ jobs'[k] = jobs[k] /\ l \in DOMAIN jobs /\ jobs'[l] = jobs[l]
      BY <3>2 DEF CombInv, JobsOnce
    <3>3. CASE /\ k - Len(jobs) \in DOMAIN s /\ jobs'[k] = s[k - Len(jobs)]
               /\ l - Len(jobs) \in DOMAIN s /\ jobs'[l] = s[l - Len(jobs)]
      <4>1. k - Len(jobs) = l - Len(jobs)
        BY <3>3, <1>3
      <4> QED
        BY <3>1, <4>1, <1>4
    <3> QED
      BY <3>2, <3>3, <1>3, <1>7, <2>1
  <2>3. (\A k \in DOMAIN jobs : jobs[k] \notin stored /\ Answered(jobs[k]))'
    <3> SUFFICES ASSUME NEW k \in DOMAIN jobs'
                 PROVE  jobs'[k] \notin stored /\ answer'[elements[jobs'[k]]] # "none"
      BY <1>1 DEF Answered
    <3>1. CASE k \in DOMAIN jobs /\ jobs'[k] = jobs[k]
      BY <3>1, <2>1, <1>1, <1>2, AnswersStay
    <3>2. CASE k - Len(jobs) \in DOMAIN s /\ jobs'[k] = s[k - Len(jobs)]
      BY <3>2, <1>3 DEF CombInv, JobsOnce
    <3> QED
      BY <3>1, <3>2, <1>7
  <2>4. \A i \in stored' : Answered(i)'
    <3> SUFFICES ASSUME NEW i \in stored PROVE Answered(i)'
      BY <1>1
    <3>1. i \in DOMAIN elements /\ Answered(i)
      BY <1>2 DEF CombTypeOK, CombInv, JobsOnce
    <3> QED
      BY <3>1, <1>1, <1>2, AnswersStay
  <2> QED
    BY <2>2, <2>3, <2>4 DEF JobsOnce
<1>11. EarlyStays'
  <2> SUFFICES ASSUME cap = "early", Counts, phase # "thrown"
               PROVE  \E i \in Missing' : Answered(i)' /\ \A k \in DOMAIN jobs' : jobs'[k] # i
    BY <1>1 DEF EarlyStays, Counts
  <2>1. PICK i \in Missing : Answered(i) /\ \A k \in DOMAIN jobs : jobs[k] # i
    BY DEF CombInv, EarlyStays
  <2>2. i \in DOMAIN elements /\ i \in Missing'
    BY <1>1 DEF Missing
  <2>3. Answered(i)'
    BY <2>1, <2>2, <1>1, <1>2, AnswersStay
  <2>4. \A k \in DOMAIN jobs' : jobs'[k] # i
    BY <2>1, <1>3, <1>7
  <2> QED
    BY <2>2, <2>3, <2>4
<1> QED
  BY <1>8, <1>9, <1>10, <1>11 DEF CombInv

\* The combinator begins with a count of one (runCombinator).
LEMMA WalkStartsKeeps ==
  ASSUME CombInv, WalkStarts, answer' = answer
  PROVE  CombInv'
<1>1. /\ phase = "none" /\ phase' = "walking" /\ remaining' = StartCount
      /\ UNCHANGED <<kind, elements, stored, cap, jobs>>
  BY DEF WalkStarts
<1>2. CombTypeOK /\ elements = <<>> /\ cap = "pending"
  BY <1>1 DEF CombInv, NotYet
<1>3. Missing = {} /\ Cardinality(Missing) = 0 /\ Missing' = Missing
  <2>1. DOMAIN elements = {}
    BY <1>2
  <2>2. Missing = {}
    BY <2>1 DEF Missing
  <2> QED
    BY <1>1, <1>2, <2>2, CombFacts DEF Missing
<1>4. CombTypeOK' /\ NotYet'
  BY <1>1, <1>2 DEF CombTypeOK, NotYet, StartCount
<1>5. CountIs'
  BY <1>1, <1>3 DEF CountIs, Counts, StartCount
<1>6. JobsOnce'
  BY <1>1 DEF CombInv, JobsOnce, Answered
<1>7. EarlyStays' /\ FinishesWithAll'
  BY <1>1, <1>2 DEF EarlyStays, FinishesWithAll
<1> QED
  BY <1>4, <1>5, <1>6, <1>7 DEF CombInv

\* An element is taken and counted before it is subscribed to (runCombinator).
LEMMA WalkTakesKeeps ==
  ASSUME CombInv, NEW p \in Requests, WalkTakes(p, answer[p] # "none"), answer' = answer
  PROVE  CombInv'
<1> DEFINE n == Len(elements) + 1
<1>1. /\ phase = "walking" /\ elements' = Append(elements, p)
      /\ remaining' = IF Counts THEN remaining + 1 ELSE 0
      /\ jobs' = IF answer[p] # "none" THEN Append(jobs, n) ELSE jobs
      /\ UNCHANGED <<kind, phase, stored, cap>>
  BY DEF WalkTakes
<1>2. CombTypeOK
  BY DEF CombInv
<1>3. /\ elements' \in Seq(Requests) /\ DOMAIN elements' = DOMAIN elements \union {n}
      /\ n \notin DOMAIN elements /\ elements'[n] = p
      /\ \A i \in DOMAIN elements : elements'[i] = elements[i]
  BY <1>1, <1>2 DEF CombTypeOK
<1> HIDE DEF n
<1>4. stored \subseteq DOMAIN elements /\ n \notin stored
  BY <1>2, <1>3 DEF CombTypeOK
<1>5. Missing' = Missing \union {n} /\ n \notin Missing
  BY <1>1, <1>3, <1>4 DEF Missing
<1>6. Cardinality(Missing') = Cardinality(Missing) + 1 /\ Cardinality(Missing) \in Nat
  BY <1>2, <1>5, CombFacts, FS_AddElement
<1>7. /\ jobs' \in Seq(DOMAIN elements')
      /\ \A k \in DOMAIN jobs' : \/ k \in DOMAIN jobs /\ jobs'[k] = jobs[k]
                                 \/ k = Len(jobs) + 1 /\ jobs'[k] = n /\ answer[p] # "none"
  <2>1. jobs \in Seq(DOMAIN elements') /\ n \in DOMAIN elements'
    BY <1>2, <1>3 DEF CombTypeOK
  <2>2. CASE answer[p] = "none"
    BY <2>1, <2>2, <1>1
  <2>3. CASE answer[p] # "none"
    BY <2>1, <2>3, <1>1
  <2> QED
    BY <2>2, <2>3
<1>8. CombTypeOK' /\ NotYet'
  <2>1. remaining' \in Nat
    BY <1>1, <1>2 DEF CombTypeOK
  <2>2. stored' \in SUBSET DOMAIN elements'
    BY <1>1, <1>3, <1>4
  <2> QED
    BY <1>1, <1>2, <1>3, <1>7, <2>1, <2>2 DEF CombTypeOK, NotYet
<1>9. CountIs'
  BY <1>1, <1>6 DEF CombInv, CountIs, Counts
<1>10. \A k \in DOMAIN jobs : jobs[k] \in DOMAIN elements
  BY <1>2, CombFacts
<1>11. JobsOnce'
  <2>1. \A k, l \in DOMAIN jobs' : jobs'[k] = jobs'[l] => k = l
    BY <1>3, <1>7, <1>10 DEF CombInv, JobsOnce
  <2>2. (\A k \in DOMAIN jobs : jobs[k] \notin stored /\ Answered(jobs[k]))'
    <3> SUFFICES ASSUME NEW k \in DOMAIN jobs'
                 PROVE  jobs'[k] \notin stored' /\ answer'[elements'[jobs'[k]]] # "none"
      BY DEF Answered
    <3> QED
      BY <1>1, <1>3, <1>4, <1>7, <1>10 DEF CombInv, JobsOnce, Answered
  <2>3. \A i \in stored' : Answered(i)'
    BY <1>1, <1>3, <1>4 DEF CombInv, JobsOnce, Answered
  <2> QED
    BY <2>1, <2>2, <2>3 DEF JobsOnce
<1>12. EarlyStays'
  <2> SUFFICES ASSUME cap = "early", Counts
               PROVE  \E i \in Missing' : Answered(i)' /\ \A k \in DOMAIN jobs' : jobs'[k] # i
    BY <1>1 DEF EarlyStays, Counts
  <2>1. PICK i \in Missing : Answered(i) /\ \A k \in DOMAIN jobs : jobs[k] # i
    BY <1>1 DEF CombInv, EarlyStays
  <2>2. i \in DOMAIN elements /\ i \in Missing'
    BY <1>5 DEF Missing
  <2>3. Answered(i)'
    BY <2>1, <2>2, <1>3 DEF Answered
  <2>4. \A k \in DOMAIN jobs' : jobs'[k] # i
    BY <2>1, <2>2, <1>3, <1>7
  <2> QED
    BY <2>2, <2>3, <2>4
<1>13. FinishesWithAll'
  BY <1>1 DEF CombInv, FinishesWithAll
<1> QED
  BY <1>8, <1>9, <1>11, <1>12, <1>13 DEF CombInv

\* The iterator is done and the count of the walk is given back (runCombinator).
LEMMA WalkEndsKeeps ==
  ASSUME CombInv, WalkEnds, answer' = answer
  PROVE  CombInv'
<1>1. /\ phase = "walking" /\ phase' = "walked" /\ UNCHANGED <<kind, elements, stored, jobs>>
      /\ Counts => remaining' = remaining - 1 /\ cap' = IF remaining = 1 THEN Settled("finished") ELSE cap
      /\ ~Counts => remaining' = remaining /\ cap' = cap
  BY DEF WalkEnds, Decrement
<1>2. CombTypeOK /\ cap # "finished" /\ Missing' = Missing
  BY <1>1 DEF CombInv, FinishesWithAll, Missing
<1>3. Counts => remaining = Cardinality(Missing) + 1
  BY <1>1 DEF CombInv, CountIs
<1>4. CombTypeOK' /\ NotYet'
  <2>1. remaining' \in Nat /\ cap' \in {"pending", "finished", "early"}
    BY <1>1, <1>2, <1>3, CombFacts DEF CombTypeOK, Settled
  <2> QED
    BY <1>1, <1>2, <2>1 DEF CombTypeOK, NotYet
<1>5. CountIs'
  BY <1>1, <1>2, <1>3, CombFacts DEF CountIs, Counts
<1>6. JobsOnce'
  BY <1>1 DEF CombInv, JobsOnce, Answered
<1>7. cap' = "early" => cap = "early"
  BY <1>1 DEF Settled
<1>8. EarlyStays'
  BY <1>1, <1>2, <1>7 DEF CombInv, EarlyStays, Counts, Answered
<1>9. FinishesWithAll'
  <2>1. CASE ~Counts
    BY <2>1, <1>1, <1>2 DEF FinishesWithAll, Counts
  <2>2. CASE Counts /\ Missing = {}
    <3>1. remaining = 1
      BY <2>2, <1>2, <1>3, CombFacts
    <3>2. cap = "pending"
      BY <2>2, <1>1, <1>2 DEF CombInv, EarlyStays, CombTypeOK
    <3>3. cap' = "finished"
      BY <2>2, <3>1, <3>2, <1>1 DEF Settled
    <3> QED
      BY <2>2, <3>3, <1>1, <1>2, CombFacts DEF FinishesWithAll, Counts
  <2>3. CASE Counts /\ Missing # {}
    <3>1. remaining # 1
      BY <2>3, <1>2, <1>3, CombFacts
    <3> QED
      BY <2>3, <3>1, <1>1, <1>2, CombFacts DEF FinishesWithAll
  <2> QED
    BY <2>1, <2>2, <2>3
<1> QED
  BY <1>4, <1>5, <1>6, <1>8, <1>9 DEF CombInv

\* The iterator throws (rejectAndCloseOnThrow).
LEMMA WalkThrowsKeeps ==
  ASSUME CombInv, WalkThrows, answer' = answer
  PROVE  CombInv'
<1>1. /\ phase = "walking" /\ phase' = "thrown" /\ cap' = Settled("early")
      /\ UNCHANGED <<kind, elements, stored, remaining, jobs>>
  BY DEF WalkThrows
<1>2. cap' # "finished" /\ cap' \in {"pending", "finished", "early"}
  BY <1>1 DEF CombInv, FinishesWithAll, Settled, CombTypeOK
<1>3. CombTypeOK' /\ NotYet' /\ FinishesWithAll'
  BY <1>1, <1>2 DEF CombInv, CombTypeOK, NotYet, FinishesWithAll
<1>4. CountIs'
  BY <1>1 DEF CombInv, CountIs, Counts, Missing
<1>5. JobsOnce' /\ EarlyStays'
  BY <1>1 DEF CombInv, JobsOnce, Answered, EarlyStays
<1> QED
  BY <1>3, <1>4, <1>5 DEF CombInv

\* A reaction stores its result and counts down (allOnFulfilled, settledElement,
\* anyOnRejected), or settles early (capResolve, capReject).
LEMMA ReactionKeeps ==
  ASSUME CombInv, RunReaction(answer), answer' = answer
  PROVE  CombInv'
<1>0. PICK i : i = Head(jobs)
  OBVIOUS
<1>1. /\ jobs # <<>> /\ jobs' = Tail(jobs) /\ UNCHANGED <<kind, phase, elements>>
      /\ \/ /\ Keeps(answer[elements[i]]) /\ stored' = stored \union {i}
            /\ remaining' = remaining - 1
            /\ cap' = IF remaining = 1 THEN Settled("finished") ELSE cap
         \/ /\ cap' = Settled("early") /\ UNCHANGED <<stored, remaining>>
  BY <1>0 DEF RunReaction, Decrement
<1>2. CombTypeOK /\ jobs \in Seq(DOMAIN elements)
  BY DEF CombInv, CombTypeOK
<1>3. /\ i = jobs[1] /\ 1 \in DOMAIN jobs /\ i \in DOMAIN elements
      /\ jobs' \in Seq(DOMAIN elements)
      /\ \A k \in DOMAIN jobs' : k + 1 \in DOMAIN jobs /\ jobs'[k] = jobs[k + 1] /\ k + 1 # 1 /\ k \in Int
  <2>1. Len(jobs) \in Nat /\ Len(jobs) > 0 /\ i = jobs[1] /\ i \in DOMAIN elements
    BY <1>0, <1>1, <1>2
  <2>2. jobs' \in Seq(DOMAIN elements) /\ Len(jobs') = Len(jobs) - 1
    BY <1>1, <1>2
  <2>3. \A k \in 1 .. Len(jobs) - 1 : jobs'[k] = jobs[k + 1]
    BY <1>1, <1>2
  <2>4. DOMAIN jobs = 1 .. Len(jobs) /\ DOMAIN jobs' = 1 .. Len(jobs) - 1
    BY <1>2, <2>2
  <2>5. 1 \in DOMAIN jobs /\ \A k \in DOMAIN jobs' : k + 1 \in DOMAIN jobs /\ k + 1 # 1 /\ k \in Int
    BY <2>1, <2>4
  <2> QED
    BY <2>1, <2>2, <2>3, <2>4, <2>5
<1>4. i \notin stored /\ Answered(i) /\ i \in Missing
  BY <1>3 DEF CombInv, JobsOnce, Missing
<1>5. \A k \in DOMAIN jobs' : jobs'[k] # i
  BY <1>3 DEF CombInv, JobsOnce
<1>6. cap # "finished" /\ Missing # {} /\ stored # DOMAIN elements
  BY <1>4, <1>2, CombFacts DEF CombInv, FinishesWithAll
<1>7. \A k, l \in DOMAIN jobs' : jobs'[k] = jobs'[l] => k = l
  <2> SUFFICES ASSUME NEW k \in DOMAIN jobs', NEW l \in DOMAIN jobs', jobs'[k] = jobs'[l]
               PROVE  k = l
    OBVIOUS
  <2>1. k + 1 = l + 1
    BY <1>3 DEF CombInv, JobsOnce
  <2> QED
    BY <1>3, <2>1
<1>8. \A k \in DOMAIN jobs' : jobs'[k] \notin stored /\ answer'[elements'[jobs'[k]]] # "none"
  BY <1>1, <1>3 DEF CombInv, JobsOnce, Answered
<1>9. phase # "none"
  <2>1. elements = <<>> => DOMAIN elements = {}
    OBVIOUS
  <2> QED
    BY <2>1, <1>3 DEF CombInv, NotYet
<1>10. CASE /\ Keeps(answer[elements[i]]) /\ stored' = stored \union {i}
            /\ remaining' = remaining - 1
            /\ cap' = IF remaining = 1 THEN Settled("finished") ELSE cap
  <2>1. Counts
    BY <1>10 DEF Keeps, Counts
  <2>2. Missing' = Missing \ {i}
    BY <1>1, <1>10 DEF Missing
  <2>3. Cardinality(Missing') = Cardinality(Missing) - 1 /\ Cardinality(Missing) \in Nat
    BY <1>2, <1>4, <2>2, CombFacts, FS_RemoveElement
  <2>4. remaining = Cardinality(Missing) + (IF phase \in {"walking", "thrown"} THEN 1 ELSE 0)
    BY <2>1 DEF CombInv, CountIs
  <2>5. Cardinality(Missing) > 0
    BY <1>2, <1>6, CombFacts
  <2>6. cap' \in {"pending", "finished", "early"} /\ (cap' = "early" => cap = "early")
    BY <1>2, <1>10 DEF CombTypeOK, Settled
  <2>7. CombTypeOK'
    <3>1. remaining' \in Nat
      BY <1>2, <1>10, <2>3, <2>4, <2>5 DEF CombTypeOK
    <3>2. stored' \in SUBSET DOMAIN elements'
      BY <1>1, <1>2, <1>3, <1>10 DEF CombTypeOK
    <3> QED
      BY <1>1, <1>2, <1>3, <2>6, <3>1, <3>2 DEF CombTypeOK
  <2>8. NotYet'
    BY <1>1, <1>9 DEF NotYet
  <2>9. CountIs'
    BY <1>1, <1>10, <2>3, <2>4 DEF CountIs, Counts
  <2>10. JobsOnce'
    <3>1. (\A k \in DOMAIN jobs : jobs[k] \notin stored /\ Answered(jobs[k]))'
      BY <1>5, <1>8, <1>10 DEF Answered
    <3>2. \A j \in stored' : Answered(j)'
      BY <1>1, <1>4, <1>10 DEF CombInv, JobsOnce, Answered
    <3> QED
      BY <1>7, <3>1, <3>2 DEF JobsOnce
  <2>11. \/ cap # "early" \/ phase = "thrown"
         \/ \E j \in Missing : j # i /\ Answered(j) /\ \A k \in DOMAIN jobs : jobs[k] # j
    BY <1>3, <2>1 DEF CombInv, EarlyStays
  <2>12. EarlyStays'
    <3> SUFFICES ASSUME cap = "early", phase # "thrown"
                 PROVE  \E j \in Missing' : Answered(j)' /\ \A k \in DOMAIN jobs' : jobs'[k] # j
      BY <1>1, <2>6 DEF EarlyStays
    <3>1. PICK j \in Missing : j # i /\ Answered(j) /\ \A k \in DOMAIN jobs : jobs[k] # j
      BY <2>11
    <3>2. j \in Missing' /\ Answered(j)'
      BY <1>1, <2>2, <3>1 DEF Answered
    <3>3. \A k \in DOMAIN jobs' : jobs'[k] # j
      BY <1>3, <3>1
    <3> QED
      BY <3>2, <3>3
  <2>13. FinishesWithAll'
    <3>1. CASE remaining = 1
      <4>1. Cardinality(Missing) = 1 /\ phase \notin {"walking", "thrown"}
        BY <3>1, <2>3, <2>4, <2>5
      <4>2. phase = "walked"
        BY <4>1, <1>2, <1>9 DEF CombTypeOK
      <4>3. Missing' = {}
        <5>1. IsFiniteSet(Missing') /\ Cardinality(Missing') = 0
          BY <1>2, <2>2, <2>3, <4>1, CombFacts, FS_RemoveElement
        <5> QED
          BY <5>1, FS_EmptySet
      <4>4. cap = "pending"
        BY <1>2, <1>6, <2>2, <2>11, <4>2, <4>3 DEF CombTypeOK
      <4>5. cap' = "finished"
        BY <3>1, <4>4, <1>10 DEF Settled
      <4>6. stored' = DOMAIN elements'
        BY <4>3, <2>7 DEF Missing, CombTypeOK
      <4> QED
        BY <1>1, <2>1, <4>2, <4>5, <4>6 DEF FinishesWithAll, Counts
    <3>2. CASE remaining # 1
      <4>1. cap' # "finished"
        BY <3>2, <1>6, <1>10
      <4>2. phase = "walked" => Cardinality(Missing') # 0
        BY <3>2, <2>3, <2>4
      <4>3. phase = "walked" => Missing' # {}
        BY <4>2, FS_EmptySet
      <4> QED
        BY <1>1, <4>1, <4>3 DEF FinishesWithAll, Missing
    <3> QED
      BY <3>1, <3>2
  <2> QED
    BY <2>7, <2>8, <2>9, <2>10, <2>12, <2>13 DEF CombInv
<1>11. CASE cap' = Settled("early") /\ UNCHANGED <<stored, remaining>>
  <2>1. Missing' = Missing
    BY <1>1, <1>11 DEF Missing
  <2>2. cap' # "finished" /\ cap' \in {"pending", "finished", "early"}
    BY <1>2, <1>6, <1>11 DEF Settled, CombTypeOK
  <2>3. CombTypeOK' /\ NotYet'
    BY <1>1, <1>2, <1>3, <1>9, <1>11, <2>2 DEF CombTypeOK, NotYet
  <2>4. CountIs'
    BY <1>1, <1>11, <2>1 DEF CombInv, CountIs, Counts
  <2>5. JobsOnce'
    <3>1. (\A k \in DOMAIN jobs : jobs[k] \notin stored /\ Answered(jobs[k]))'
      BY <1>8, <1>11 DEF Answered
    <3>2. \A j \in stored' : Answered(j)'
      BY <1>1, <1>11 DEF CombInv, JobsOnce, Answered
    <3> QED
      BY <1>7, <3>1, <3>2 DEF JobsOnce
  <2>6. EarlyStays'
    <3>1. i \in Missing' /\ Answered(i)'
      BY <1>1, <1>4, <2>1 DEF Answered
    <3> QED
      BY <1>5, <3>1 DEF EarlyStays
  <2>7. FinishesWithAll'
    BY <1>1, <1>6, <1>11, <2>2 DEF FinishesWithAll
  <2> QED
    BY <2>3, <2>4, <2>5, <2>6, <2>7 DEF CombInv
<1> QED
  BY <1>1, <1>10, <1>11

-----------------------------------------------------------------------------
(* The composition *)

\* The invariant holds at first.
LEMMA IterInitInv ==
  ASSUME IterInit
  PROVE  IterInv
<1>1. /\ state = "start" /\ queue = <<>> /\ made = 0
      /\ answer = [r \in Requests |-> "none"]
      /\ stack = <<>> /\ awaiting = FALSE /\ awaits = 0
  BY DEF IterInit, Init
<1>2. /\ kind \in Kinds /\ phase = "none" /\ elements = <<>> /\ stored = {}
      /\ remaining = 0 /\ cap = "pending" /\ jobs = <<>>
  BY DEF IterInit, CombInit
<1>3. /\ Settlers = {} /\ Bodies = {} /\ Handlers = {} /\ Waiting = {} /\ Made = {}
      /\ DOMAIN queue = {}
  BY <1>1 DEF Settlers, Bodies, Handlers, Waiting, Made
<1>4. TypeOK
  <2>1. 0 \in 0 .. MaxRequests /\ 0 \in 0 .. MaxAwaits
    BY BoundsAssumption
  <2>2. answer \in [Requests -> Answers \union {"none"}]
    BY <1>1
  <2> QED
    <3>1. StateOK /\ AwaitOK
      BY <1>1, <2>1 DEF StateOK, AwaitOK
    <3>2. queue \in Seq(Entries) /\ stack \in Seq(Frames) /\ made \in 0 .. MaxRequests
      BY <1>1, <2>1
    <3> QED
      BY <2>2, <3>1, <3>2, TypeParts
<1>5. \A r \in Requests : r > 0
  BY BoundsAssumption DEF Requests
<1>6. QueueSorted /\ OnePlace /\ Unanswered /\ OneBody /\ Attended /\ OldestFirst
  BY <1>1, <1>3, <1>5 DEF QueueSorted, OnePlace, Unanswered, OneBody, Attended, OldestFirst
<1>7. CombTypeOK /\ NotYet
  BY <1>2 DEF CombTypeOK, NotYet
<1>8. DOMAIN elements = {} /\ DOMAIN jobs = {} /\ Missing = {}
  BY <1>2 DEF Missing
<1>9. CountIs
  BY <1>2, <1>8, FS_EmptySet DEF CountIs
<1>10. JobsOnce /\ EarlyStays /\ FinishesWithAll
  BY <1>2, <1>8 DEF JobsOnce, EarlyStays, FinishesWithAll
<1> QED
  BY <1>4, <1>6, <1>7, <1>9, <1>10 DEF IterInv, GenInv, CombInv

\* A step of the generator, and the reactions it queues.
LEMMA GeneratorStepKeeps ==
  ASSUME IterInv, Next, Notice({r \in Requests : answer[r] # answer'[r]})
  PROVE  IterInv' /\ AnswersOnce
BY GeneratorKeeps, NoticeKeeps DEF IterInv

\* A script calls a combinator on the generator.
LEMMA StartWalkKeeps ==
  ASSUME IterInv, StartWalk
  PROVE  IterInv' /\ AnswersOnce
BY PushOnly, WalkStartsKeeps DEF IterInv, StartWalk

\* The combinator's walk calls next, or ends.
LEMMA WalkStepKeeps ==
  ASSUME IterInv, WalkStep
  PROVE  IterInv' /\ AnswersOnce
<1>1. At("walk") /\ UNCHANGED <<state, queue, made, answer, awaiting, awaits>>
  BY DEF WalkStep
<1>2. CASE UNCHANGED stack /\ \E r \in Made : WalkTakes(r, answer[r] # "none")
  <2>1. KeepSettlers /\ Bodies' = Bodies /\ Handlers' = Handlers /\ stack' = stack
    BY <1>2 DEF KeepSettlers, Settlers, Bodies, Handlers
  <2>2. GenInv' /\ AnswersOnce
    BY <1>1, <2>1, StackOnly, GenInvParts, TypeParts DEF IterInv, Attended
  <2>3. \A r \in Made : r \in Requests
    BY BoundsAssumption DEF Made, Requests, IterInv, GenInv, TypeOK
  <2> QED
    BY <1>1, <1>2, <2>2, <2>3, WalkTakesKeeps DEF IterInv
<1>3. CASE (WalkEnds \/ WalkThrows) /\ stack' = Below
  BY <1>1, <1>3, PopOnly, WalkEndsKeeps, WalkThrowsKeeps DEF IterInv
<1> QED
  BY <1>2, <1>3 DEF WalkStep

\* A step that leaves the generator alone.
LEMMA VarsStay ==
  ASSUME GenInv, UNCHANGED vars
  PROVE  GenInv' /\ AnswersOnce
<1>1. UNCHANGED <<state, queue, made, answer, stack, awaiting, awaits>>
  BY DEF vars
<1>2. KeepSettlers /\ Bodies' = Bodies /\ Handlers' = Handlers
  BY <1>1 DEF KeepSettlers, Settlers, Bodies, Handlers
<1> QED
  BY <1>1, <1>2, StackOnly, GenInvParts, TypeParts DEF Attended

\* Every step of the composition keeps the invariant and every answer.
LEMMA IterStepInv ==
  ASSUME IterInv, [Goes \/ Acts]_allVars
  PROVE  IterInv' /\ AnswersOnce
<1>1. CASE GeneratorStep(Step)
  BY <1>1, GeneratorStepKeeps DEF GeneratorStep, Next
<1>2. CASE GeneratorStep(ProgramStarts)
  BY <1>2, GeneratorStepKeeps DEF GeneratorStep, Next
<1>3. CASE GeneratorStep(\E m \in Modes : Ask(m))
  BY <1>3, GeneratorStepKeeps DEF GeneratorStep, Next
<1>4. CASE StartWalk
  BY <1>4, StartWalkKeeps
<1>5. CASE WalkStep
  BY <1>5, WalkStepKeeps
<1>6. CASE Reaction
  <2>1. GenInv' /\ AnswersOnce /\ answer' = answer
    BY <1>6, VarsStay DEF Reaction, IterInv, vars
  <2> QED
    BY <1>6, <2>1, ReactionKeeps DEF Reaction, IterInv
<1>7. CASE UNCHANGED allVars
  <2>1. GenInv' /\ AnswersOnce /\ answer' = answer
    BY <1>7, VarsStay DEF allVars, IterInv, vars
  <2>2. UNCHANGED <<kind, phase, elements, stored, remaining, cap, jobs>>
    BY <1>7 DEF allVars, comb
  <2>3. CombInv'
    BY <2>1, <2>2 DEF IterInv, CombInv, CombTypeOK, NotYet, CountIs, Counts, Missing,
                      JobsOnce, Answered, EarlyStays, FinishesWithAll
  <2> QED
    BY <2>1, <2>3 DEF IterInv
<1> QED
  BY <1>1, <1>2, <1>3, <1>4, <1>5, <1>6, <1>7 DEF Goes, Acts

\* The inductive invariant of generator and combinator holds always.
LEMMA IterInvariant == Spec => []IterInv
<1>1. IterInit => IterInv
  BY IterInitInv
<1>2. IterInv /\ [Goes \/ Acts]_allVars => IterInv'
  BY IterStepInv
<1> QED
  BY <1>1, <1>2, PTL DEF Spec

\* The generator keeps its types, whatever the bounds are.
THEOREM GeneratorTypes == Spec => []TypeOK
<1>1. IterInv => TypeOK
  BY DEF IterInv, GenInv
<1> QED
  BY <1>1, IterInvariant, PTL

\* No request to an async generator is forgotten: unanswered, it is in the queue
\* or in a frame that will answer it; the queue is empty when nothing runs and
\* nothing is awaited; and a body that runs has a request (enqueueRequest,
\* asyncGeneratorResumeNext, processResumeResult).  For any number of requests,
\* awaits, elements and any depth of calls.
THEOREM NothingStuckHolds == Spec => []NothingStuck
<1>1. ASSUME IterInv PROVE NothingStuck
  <2>1. TypeOK /\ QueueSorted /\ OnePlace /\ Unanswered /\ OneBody /\ Attended
    BY <1>1 DEF IterInv, GenInv
  <2>2. made \in Nat /\ made <= MaxRequests /\ MaxRequests \in Nat
    BY <2>1, BoundsAssumption DEF TypeOK
  <2>3. \A r \in Made : r \in Requests /\ ~ (r > made)
    BY <2>2 DEF Made, Requests
  <2>4. \A w \in Waiting : w \in Made
    BY <2>1, WaitingFacts
  <2>5. {r \in Made : answer[r] = "none"} = Waiting \union {stack[i].req : i \in Settlers}
    BY <2>1, <2>3, <2>4 DEF OnePlace, Unanswered
  <2>6. Idle => Handlers = {}
    BY DEF Idle, Handlers
  <2> QED
    BY <2>1, <2>5, <2>6 DEF NothingStuck, Settlers, Attended
<1> QED
  BY <1>1, IterInvariant, PTL

\* What the body yields goes to the oldest request (queuePopFront).
THEOREM ValuesInOrderHolds == Spec => []ValuesInOrder
<1>1. IterInv => ValuesInOrder
  BY DEF IterInv, GenInv, OldestFirst, ValuesInOrder
<1> QED
  BY <1>1, IterInvariant, PTL

\* A combinator that counts answers with its results exactly when its walk is
\* over and every result is in, whatever its elements are answered and when
\* (runCombinator, combinatorDecrement, combinatorFinish).
THEOREM FinishesWithAllHolds == Spec => []FinishesWithAll
<1>1. IterInv => FinishesWithAll
  BY DEF IterInv, CombInv
<1> QED
  BY <1>1, IterInvariant, PTL

\* A request is answered once: no step changes an answer, whoever else was about
\* to give one - the body, a frame under a getter, the generator by itself or a
\* throw that rejects the queue.
THEOREM AnsweredOnce == Spec => [][AnswersOnce]_allVars
<1>1. IterInv /\ [Goes \/ Acts]_allVars => [AnswersOnce]_allVars
  BY IterStepInv
<1> QED
  BY <1>1, IterInvariant, PTL DEF Spec
=============================================================================
