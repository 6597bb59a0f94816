------------------------------- MODULE Promise -------------------------------
(***************************************************************************)
(* Promises, the microtask queue of one stack and async functions          *)
(* (src/src/runtime/promise.cpp, microtask.cpp, builtin_async.cpp, coro.cpp *)
(* and the constructor and `then` of builtin_promise.cpp).                 *)
(*                                                                         *)
(* One thread: the interleaving is that of user code with the runtime.     *)
(* User code is the script, and whatever the runtime calls: each such call *)
(* is a frame, the last one running.  In any of them user code may call    *)
(* any operation on any promise it holds.                                  *)
(*                                                                         *)
(* A value is named by the promise p it was first the result of: p for one *)
(* that is no object, <<p>> for an object, whose `then` user code answers  *)
(* for each time it is read.                                               *)
(* Left out: job contexts (inJobContext), species and subclasses (their    *)
(* capabilities are user functions), the derived promise of the `then` an  *)
(* adoption calls (nothing refers to it and it is never rejected), awaits  *)
(* of a value that is no promise (a promise made and resolved first), and  *)
(* the FinalizationRegistry jobs between microtasks.                       *)
(***************************************************************************)
EXTENDS Naturals, Sequences, FiniteSets

CONSTANTS
  Made,       \* promises of the constructor: user code has their functions
  Derived,    \* promises of `then`: only their reaction settles them
  Async,      \* async calls, each named by its promise
  None,       \* undefined
  Foreign     \* a thenable that is not a promise

Promises == Made \union Derived \union Async
Objects  == {<<p>> : p \in Promises}
Values   == Promises \union Objects

ASSUME PromiseAssumption ==
  /\ Made \intersect Derived = {}
  /\ Async \intersect (Made \union Derived) = {}
  /\ Promises \intersect Objects = {}
  /\ None \notin Values
  /\ Foreign \notin Values \union {None}

VARIABLES
  st, result, resolved, handled, reported,  \* PromiseSlot: state, result, latch
  reactions,                                \* both reaction lists of a promise
  pair,       \* the resolving pair a foreign thenable of p was last given
  queue,      \* g_queue
  parked,     \* g_parked
  at, job,    \* where the stack is below the frames, and the job in flight
  frames,     \* the calls of user code the runtime is waiting for
  left,       \* reports left in the pass of reportParkedRejections
  machine,    \* the state of an async call
  waiting,    \* the promise it awaits
  hook,       \* an embedder installed g_rejectionHook
  adopts,     \* history: the promise p was resolved with and still follows
  said,       \* history: rejections reported and not taken back
  batch,      \* history: the promises parked when the pass began
  resettled   \* history: settleInternal was called on a settled promise

slots   == <<st, result, reactions, parked, queue, resettled>>
marks   == <<handled, reported, said>>
control == <<at, job, left, batch, hook>>
async   == <<machine, waiting>>
vars    == <<slots, marks, control, resolved, pair, frames, async, adopts>>

Kinds     == {"then", "pair", "await", "thenable"}
Reactions == [kind : Kinds \ {"thenable"}, to : Promises, onF : BOOLEAN, onR : BOOLEAN]
Jobs      == [kind : Kinds, to : Promises, callable : BOOLEAN,
              rejected : BOOLEAN, value : Values \union {Foreign}]
\* A getter of `then` (of: the promise being resolved; value: the object it is
\* read from), a reaction's handler (its capability), a foreign `then` (the
\* promise it resolves), an async body, the rejection hook.
Frames    == [in : {"getter"}, of : Promises, value : Objects]
               \union [in : {"handler", "then", "body", "hook"}, of : Promises,
                       value : {None}]
Machines  == {"none", "Executing", "Suspended", "Completed"}

\* `job = None` says that no job is in flight.
ASSUME NoneAssumption == None \notin Jobs

TypeOK ==
  /\ st \in [Promises -> {"none", "pending", "fulfilled", "rejected"}]
  /\ result \in [Promises -> Values \union {None}]
  /\ resolved \in [Promises -> BOOLEAN]
  /\ handled \in [Promises -> BOOLEAN]
  /\ reported \in [Promises -> BOOLEAN]
  /\ reactions \in [Promises -> Seq(Reactions)]
  /\ pair \in [Promises -> {"none", "open", "taken"}]
  /\ queue \in Seq(Jobs)
  /\ parked \in Seq(Promises)
  /\ at \in {"script", "drain", "job", "report"}
  /\ job \in Jobs \union {None}
  /\ job # None <=> at = "job"
  /\ frames \in Seq(Frames)
  /\ left \in Nat
  /\ machine \in [Async -> Machines]
  /\ waiting \in [Async -> Promises \union {None}]
  /\ hook \in BOOLEAN
  /\ adopts \in [Promises -> Promises \union {None}]
  /\ said \subseteq Promises /\ batch \subseteq Promises
  /\ resettled \in BOOLEAN

Init ==
  /\ st = [p \in Promises |-> "none"]
  /\ result = [p \in Promises |-> None]
  /\ resolved = [p \in Promises |-> FALSE]
  /\ handled = [p \in Promises |-> FALSE]
  /\ reported = [p \in Promises |-> FALSE]
  /\ reactions = [p \in Promises |-> <<>>]
  /\ pair = [p \in Promises |-> "none"]
  /\ queue = <<>> /\ parked = <<>>
  /\ at = "script" /\ job = None /\ frames = <<>> /\ left = 0
  /\ machine = [a \in Async |-> "none"]
  /\ waiting = [a \in Async |-> None]
  /\ hook \in BOOLEAN
  /\ adopts = [p \in Promises |-> None]
  /\ said = {} /\ batch = {} /\ resettled = FALSE

Exists(p)  == st[p] # "none"
Settled(p) == st[p] \in {"fulfilled", "rejected"}
Holds(s, x) == \E i \in DOMAIN s : s[i] = x

\* The frames: user code runs in the last one, or as the script.
UserCode == frames # <<>> \/ at = "script"
Native   == frames = <<>>
Calling(fs, place, p) == Append(fs, [in |-> place, of |-> p, value |-> None])
Getting(fs, p, v) == Append(fs, [in |-> "getter", of |-> p, value |-> v])
Inside(place) == frames # <<>> /\ frames[Len(frames)].in = place
Running == frames[Len(frames)].of
ReadFrom == frames[Len(frames)].value
Popped  == SubSeq(frames, 1, Len(frames) - 1)

-----------------------------------------------------------------------------
(* Settling.                                                               *)

JobOf(r, rejected, v) ==
  [kind |-> r.kind, to |-> r.to, callable |-> IF rejected THEN r.onR ELSE r.onF,
   rejected |-> rejected, value |-> v]

ThenableJob(p, x) ==
  [kind |-> "thenable", to |-> p, callable |-> TRUE, rejected |-> FALSE, value |-> x]

\* rtParkRejection: once each.
Park(p) == IF Holds(parked, p) THEN parked ELSE Append(parked, p)

Unpark_Forgotten(p) == parked
\* rtUnparkRejection: the first entry of p is erased.
Unpark(p) ==
  IF ~Holds(parked, p) THEN parked
  ELSE LET i == CHOOSE i \in DOMAIN parked :
                  parked[i] = p /\ \A j \in 1..(i - 1) : parked[j] # p
       IN [k \in 1..(Len(parked) - 1) |-> IF k < i THEN parked[k] ELSE parked[k + 1]]

\* TriggerPromiseReactions, in the order of subscription.
Triggered(p, rejected, v) ==
  [i \in DOMAIN reactions[p] |-> JobOf(reactions[p][i], rejected, v)]

\* settleInternal, its re-check of `pending` included.
SettleInternal(p, rejected, v) ==
  IF st[p] # "pending"
  THEN /\ resettled' = TRUE
       /\ UNCHANGED <<st, result, reactions, parked, queue>>
  ELSE /\ st' = [st EXCEPT ![p] = IF rejected THEN "rejected" ELSE "fulfilled"]
       /\ result' = [result EXCEPT ![p] = v]
       /\ parked' = IF rejected /\ ~handled[p] THEN Park(p) ELSE parked
       /\ queue' = queue \o Triggered(p, rejected, v)
       /\ reactions' = [reactions EXCEPT ![p] = <<>>]
       /\ UNCHANGED resettled

\* runResolutionSteps with a value that is no promise: the `then` of an object
\* is read through user code (GetterReturns).  fs: the frames it runs above.
ResolveValue(p, v, fs) ==
  IF v \in Objects
  THEN frames' = Getting(fs, p, v) /\ UNCHANGED slots
  ELSE SettleInternal(p, FALSE, v) /\ frames' = fs

\* runResolutionSteps with x: the promise itself, a fresh value, or another
\* promise (whose `then` is the builtin).
RunResolutionSteps(p, x, fs) ==
  \/ /\ x = p
     /\ SettleInternal(p, TRUE, p)
     /\ frames' = fs
     /\ UNCHANGED adopts
  \/ /\ x \in {"plain", "object"}
     /\ ResolveValue(p, IF x = "plain" THEN p ELSE <<p>>, fs)
     /\ UNCHANGED adopts
  \/ /\ x \in Promises \ {p} /\ Exists(x)
     /\ queue' = Append(queue, ThenableJob(p, x))
     /\ adopts' = [adopts EXCEPT ![p] = x]
     /\ frames' = fs
     /\ UNCHANGED <<st, result, reactions, parked, resettled>>

Inputs == {"plain", "object"} \union Promises

\* takePromiseLatch.
TakeLatch(p) == resolved' = [resolved EXCEPT ![p] = TRUE]

ResolvePromise(p, x, fs) ==
  IF resolved[p]
  THEN frames' = fs /\ UNCHANGED <<slots, resolved, adopts>>
  ELSE TakeLatch(p) /\ RunResolutionSteps(p, x, fs)

RejectPromise(p, v) ==
  IF resolved[p]
  THEN UNCHANGED <<slots, resolved>>
  ELSE TakeLatch(p) /\ SettleInternal(p, TRUE, v)

-----------------------------------------------------------------------------
(* Subscribing: rtPerformPromiseThen.                                      *)

\* HostPromiseRejectionTracker(promise, "handle"): the hook is called last.
TakenBack(p) == ~handled[p] /\ st[p] = "rejected" /\ reported[p]

Handle(p, fs) ==
  /\ handled' = [handled EXCEPT ![p] = TRUE]
  /\ parked' = Unpark(p)
  /\ reported' = [reported EXCEPT ![p] = @ /\ ~TakenBack(p)]
  /\ said' = IF TakenBack(p) THEN said \ {p} ELSE said
  /\ frames' = IF TakenBack(p) THEN Calling(fs, "hook", p) ELSE fs
  /\ UNCHANGED <<result, resettled>>

Subscribe_NeverQueued(p, r, fs) ==
  /\ reactions' = [reactions EXCEPT ![p] = Append(@, r)]
  /\ UNCHANGED queue
  /\ Handle(p, fs)
Subscribe(p, r, fs) ==
  /\ \/ /\ st[p] = "pending"
        /\ reactions' = [reactions EXCEPT ![p] = Append(@, r)]
        /\ UNCHANGED queue
     \/ /\ Settled(p)
        /\ queue' = Append(queue, JobOf(r, st[p] = "rejected", result[p]))
        /\ UNCHANGED reactions
  /\ Handle(p, fs)

-----------------------------------------------------------------------------
(* User code.                                                              *)

\* new Promise(executor): the executor's calls are the actions below.
New(p) ==
  /\ UserCode
  /\ st[p] = "none"
  /\ st' = [st EXCEPT ![p] = "pending"]
  /\ UNCHANGED <<result, reactions, parked, queue, resettled, marks, control,
                 resolved, pair, frames, async, adopts>>

Resolve(p, x) ==
  /\ UserCode /\ Exists(p)
  /\ ResolvePromise(p, x, frames)
  /\ UNCHANGED <<marks, control, pair, async>>

\* A call of its reject function, or a throw of its executor.
Reject(p) ==
  /\ UserCode /\ Exists(p)
  /\ RejectPromise(p, p)
  /\ UNCHANGED <<marks, control, pair, frames, async, adopts>>

TakePairLatch_Ignored(p) ==
  /\ pair[p] # "none"
  /\ pair' = [pair EXCEPT ![p] = "taken"]
\* takePairLatch, for the functions a foreign thenable holds.
TakePairLatch(p) ==
  /\ pair[p] = "open"
  /\ pair' = [pair EXCEPT ![p] = "taken"]

PairResolve(p, x) ==
  /\ UserCode
  /\ TakePairLatch(p)
  /\ RunResolutionSteps(p, x, frames)
  /\ UNCHANGED <<marks, control, resolved, async>>

PairReject(p) ==
  /\ UserCode
  /\ TakePairLatch(p)
  /\ SettleInternal(p, TRUE, p)
  /\ UNCHANGED <<marks, control, resolved, frames, async, adopts>>

\* promiseThen (and catch, which forwards to it) with a fresh capability d.
Then(p, d, onF, onR) ==
  /\ UserCode /\ Exists(p)
  /\ st[d] = "none"
  /\ st' = [st EXCEPT ![d] = "pending"]
  /\ Subscribe(p, [kind |-> "then", to |-> d, onF |-> onF, onR |-> onR], frames)
  /\ UNCHANGED <<control, resolved, pair, async, adopts>>

\* rtStartAsyncFunction: the body runs at once, up to its first await.
AsyncCall(a) ==
  /\ UserCode
  /\ st[a] = "none"
  /\ st' = [st EXCEPT ![a] = "pending"]
  /\ machine' = [machine EXCEPT ![a] = "Executing"]
  /\ frames' = Calling(frames, "body", a)
  /\ UNCHANGED <<result, reactions, parked, queue, resettled, marks, control,
                 resolved, pair, waiting, adopts>>

-----------------------------------------------------------------------------
(* The user code of a frame comes to an end.                               *)

\* rtAsyncFunctionResume and rtCoroAwait: a reaction without a capability.
BodyAwaits(p) ==
  /\ Inside("body") /\ Exists(p)
  /\ machine' = [machine EXCEPT ![Running] = "Suspended"]
  /\ waiting' = [waiting EXCEPT ![Running] = p]
  /\ Subscribe(p, [kind |-> "await", to |-> Running, onF |-> TRUE, onR |-> TRUE],
               Popped)
  /\ UNCHANGED <<st, control, resolved, pair, adopts>>

\* complete: the call's promise settles through its own latch.
BodyReturns(x) ==
  /\ Inside("body")
  /\ machine' = [machine EXCEPT ![Running] = "Completed"]
  /\ ResolvePromise(Running, x, Popped)
  /\ UNCHANGED <<marks, control, pair, waiting>>

BodyThrows ==
  /\ Inside("body")
  /\ machine' = [machine EXCEPT ![Running] = "Completed"]
  /\ RejectPromise(Running, Running)
  /\ frames' = Popped
  /\ UNCHANGED <<marks, control, pair, waiting, adopts>>

\* The getter of `then` returns something not callable, a function, or throws.
GetterReturns(got) ==
  /\ Inside("getter")
  /\ \/ /\ got = "value"
        /\ SettleInternal(Running, FALSE, ReadFrom)
        /\ UNCHANGED adopts
     \/ /\ got = "throw"
        /\ SettleInternal(Running, TRUE, Running)
        /\ adopts' = [adopts EXCEPT ![Running] = None]
     \/ /\ got = "thenable"
        /\ queue' = Append(queue, ThenableJob(Running, Foreign))
        /\ adopts' = [adopts EXCEPT ![Running] = None]
        /\ UNCHANGED <<st, result, reactions, parked, resettled>>
  /\ frames' = Popped
  /\ UNCHANGED <<marks, control, resolved, pair, async>>

\* The rest of rtRunReactionJob: rtSettleCapability.
HandlerReturns(x) ==
  /\ Inside("handler")
  /\ ResolvePromise(Running, x, Popped)
  /\ UNCHANGED <<marks, control, pair, async>>

HandlerThrows ==
  /\ Inside("handler")
  /\ RejectPromise(Running, Running)
  /\ frames' = Popped
  /\ UNCHANGED <<marks, control, pair, async, adopts>>

\* The rest of rtRunThenableJob: a throw goes through the pair's latch.
ThenEnds(threw) ==
  /\ Inside("then")
  /\ IF threw /\ pair[Running] = "open"
     THEN TakePairLatch(Running) /\ SettleInternal(Running, TRUE, Running)
     ELSE UNCHANGED <<slots, pair>>
  /\ frames' = Popped
  /\ UNCHANGED <<marks, control, resolved, async, adopts>>

HookReturns ==
  /\ Inside("hook")
  /\ frames' = Popped
  /\ UNCHANGED <<slots, marks, control, resolved, pair, async, adopts>>

-----------------------------------------------------------------------------
(* The drain.                                                              *)

\* The script ends, or the host calls in again: rtDrainMicrotasks.
DrainStarts ==
  /\ at = "script" /\ Native
  /\ at' = "drain"
  /\ UNCHANGED <<slots, marks, job, left, batch, hook, resolved, pair, frames,
                 async, adopts>>

\* The next job leaves the queue before its body runs.
NextJob_Newest ==
  /\ job' = queue[Len(queue)]
  /\ queue' = SubSeq(queue, 1, Len(queue) - 1)
NextJob ==
  /\ job' = Head(queue)
  /\ queue' = Tail(queue)

TakeJob ==
  /\ at = "drain" /\ Native
  /\ queue # <<>>
  /\ NextJob
  /\ at' = "job"
  /\ UNCHANGED <<st, result, reactions, parked, resettled, marks, left, batch,
                 hook, resolved, pair, frames, async, adopts>>

\* What is left of a job once its user code runs, or none had to, is a frame.
JobDone_Kept == at' = "drain" /\ UNCHANGED <<job, left, batch, hook>>
JobDone == at' = "drain" /\ job' = None /\ UNCHANGED <<left, batch, hook>>

\* A latched promise meets the outcome of another: a value it was fulfilled
\* with goes through the resolution steps again.
TakeOutcome(p, rejected, v) ==
  IF rejected
  THEN SettleInternal(p, TRUE, v) /\ UNCHANGED frames
  ELSE ResolveValue(p, v, frames)

\* rtRunReactionJob without a handler: rtSettleCapability with the argument.
PassThrough ==
  /\ at = "job" /\ job.kind = "then" /\ ~job.callable
  /\ IF resolved[job.to]
     THEN UNCHANGED <<slots, resolved, frames>>
     ELSE TakeLatch(job.to) /\ TakeOutcome(job.to, job.rejected, job.value)
  /\ JobDone
  /\ UNCHANGED <<marks, pair, async, adopts>>

\* ... with a handler of user code,
CallHandler ==
  /\ at = "job" /\ job.kind = "then" /\ job.callable
  /\ frames' = Calling(frames, "handler", job.to)
  /\ JobDone
  /\ UNCHANGED <<slots, marks, resolved, pair, async, adopts>>

\* ... or one that resumes an async body (awaitSettled).
ResumeBody ==
  /\ at = "job" /\ job.kind = "await"
  /\ machine' = [machine EXCEPT ![job.to] = "Executing"]
  /\ waiting' = [waiting EXCEPT ![job.to] = None]
  /\ frames' = Calling(frames, "body", job.to)
  /\ JobDone
  /\ UNCHANGED <<slots, marks, resolved, pair, adopts>>

SettlePair_AlwaysResolves ==
  TakeOutcome(job.to, FALSE, job.value)
SettlePair_PromiseLatch ==
  IF resolved[job.to] THEN UNCHANGED <<slots, frames>>
  ELSE TakeOutcome(job.to, job.rejected, job.value)
\* pairResolve or pairReject, called as the handler of an adopted promise.
SettlePair ==
  TakeOutcome(job.to, job.rejected, job.value)

AdoptedSettled ==
  /\ at = "job" /\ job.kind = "pair"
  /\ SettlePair
  /\ JobDone
  /\ UNCHANGED <<marks, resolved, pair, async, adopts>>

\* rtRunThenableJob: a fresh pair, which the builtin `then` subscribes and a
\* foreign one is called with.
AdoptPromise ==
  /\ at = "job" /\ job.kind = "thenable" /\ job.value \in Promises
  /\ Subscribe(job.value,
               [kind |-> "pair", to |-> job.to, onF |-> TRUE, onR |-> TRUE], frames)
  /\ JobDone
  /\ UNCHANGED <<st, resolved, pair, async, adopts>>

CallForeignThen ==
  /\ at = "job" /\ job.kind = "thenable" /\ job.value = Foreign
  /\ pair' = [pair EXCEPT ![job.to] = "open"]
  /\ frames' = Calling(frames, "then", job.to)
  /\ JobDone
  /\ UNCHANGED <<slots, marks, resolved, async, adopts>>

-----------------------------------------------------------------------------
(* reportParkedRejections, once the queue is empty.                        *)

\* Without a hook: one line each on stderr.
ReportAll ==
  /\ at = "drain" /\ Native /\ queue = <<>>
  /\ ~hook
  /\ said' = said \union {parked[i] : i \in DOMAIN parked}
  /\ parked' = <<>>
  /\ at' = "script"
  /\ UNCHANGED <<st, result, reactions, queue, resettled, handled, reported, job,
                 left, batch, hook, resolved, pair, frames, async, adopts>>

ReportStarts ==
  /\ at = "drain" /\ Native /\ queue = <<>>
  /\ hook
  /\ left' = Len(parked)
  /\ batch' = {parked[i] : i \in DOMAIN parked}
  /\ at' = "report"
  /\ UNCHANGED <<slots, marks, job, hook, resolved, pair, frames, async, adopts>>

\* Taken off the registry and marked before the hook runs.
ReportNext ==
  /\ at = "report" /\ Native
  /\ left > 0 /\ parked # <<>>
  /\ parked' = Tail(parked)
  /\ reported' = [reported EXCEPT ![Head(parked)] = TRUE]
  /\ said' = said \union {Head(parked)}
  /\ left' = left - 1
  /\ frames' = Calling(frames, "hook", Head(parked))
  /\ UNCHANGED <<st, result, reactions, queue, resettled, handled, at, job, batch,
                 hook, resolved, pair, async, adopts>>

ReportEnds ==
  /\ at = "report" /\ Native
  /\ left = 0 \/ parked = <<>>
  /\ at' = "script"
  /\ left' = 0 /\ batch' = {}
  /\ UNCHANGED <<slots, marks, job, hook, resolved, pair, frames, async, adopts>>

-----------------------------------------------------------------------------
User ==
  \/ \E p \in Made : New(p) \/ Reject(p) \/ \E x \in Inputs : Resolve(p, x)
  \/ \E p \in Promises : PairReject(p) \/ \E x \in Inputs : PairResolve(p, x)
  \/ \E p \in Promises, d \in Derived, onF, onR \in BOOLEAN : Then(p, d, onF, onR)
  \/ \E a \in Async : AsyncCall(a)

UserEnds ==
  \/ \E p \in Promises : BodyAwaits(p)
  \/ \E x \in Inputs : BodyReturns(x) \/ HandlerReturns(x)
  \/ \E got \in {"value", "thenable", "throw"} : GetterReturns(got)
  \/ \E threw \in BOOLEAN : ThenEnds(threw)
  \/ BodyThrows \/ HandlerThrows \/ HookReturns

Drain ==
  \/ DrainStarts \/ TakeJob \/ PassThrough \/ CallHandler \/ ResumeBody
  \/ AdoptedSettled \/ AdoptPromise \/ CallForeignThen
  \/ ReportAll \/ ReportStarts \/ ReportNext \/ ReportEnds

Next == User \/ UserEnds \/ Drain

Spec == Init /\ [][Next]_vars

\* The drain goes on, and user code the runtime called returns.
FairSpec == Spec /\ WF_vars(Drain) /\ WF_vars(UserEnds)

-----------------------------------------------------------------------------
(* Properties.                                                             *)

\* Where a reaction or job of one of these kinds for p is held.
Holders(kinds, p) ==
  {<<"queue", i>> : i \in {j \in DOMAIN queue :
                             queue[j].kind \in kinds /\ queue[j].to = p}}
  \union
  (UNION {{<<q, i>> : i \in {j \in DOMAIN reactions[q] :
                               /\ reactions[q][j].kind \in kinds
                               /\ reactions[q][j].to = p}} : q \in Promises})
  \union
  (IF at = "job" /\ job.kind \in kinds /\ job.to = p THEN {<<"job", 1>>} ELSE {})

FramesOf(place, p) ==
  {<<place, i>> : i \in {j \in DOMAIN frames :
                             frames[j].in = place /\ frames[j].of = p}}

\* What will still settle p once its latch is taken: an adoption on its way,
\* the open functions of a foreign thenable, or a getter not yet back.
Settlers(p) ==
  Holders({"thenable", "pair"}, p)
    \union FramesOf("getter", p)
    \union (IF pair[p] = "open" THEN {<<"functions", 1>>} ELSE {})

\* No promise is wedged and none can be settled twice: a promise whose latch
\* is taken and that is still pending has exactly one thing that will settle
\* it (the fresh latch of rtRunThenableJob, promise.cpp:207-211), and any other
\* promise has none.
OneSettler ==
  \A p \in Promises :
    Cardinality(Settlers(p)) = IF resolved[p] /\ st[p] = "pending" THEN 1 ELSE 0

\* The re-check of `pending` in settleInternal never finds a settled promise:
\* what its comment calls cheaper than proving (promise.cpp:98-100).
RecheckNeverNeeded == ~resettled

\* A promise resolved with a promise ends as that promise ended, with its
\* value, however many jobs the adoption takes and whatever runs meanwhile,
\* unless that value is an object whose `then`, read once more by pairResolve,
\* throws or is a function.
AdoptsOutcome ==
  \A p \in Promises :
    adopts[p] # None /\ Settled(p)
      => /\ st[p] = st[adopts[p]]
         /\ result[p] = result[adopts[p]]

\* No continuation is lost or doubled between the reaction lists, the queue,
\* the job in flight and the stack: a derived promise not yet resolved has
\* exactly one reaction or running handler, a suspended async call exactly
\* one resumption (held by the promise it awaits until that settles), any
\* other async call none, so none is resumed after it completed (the fatal
\* error of rtAsyncFunctionResume); a settled promise holds no reaction back.
NoContinuationLost ==
  /\ \A d \in Derived :
       Cardinality(Holders({"then"}, d) \union FramesOf("handler", d))
         = IF st[d] = "pending" /\ ~resolved[d] THEN 1 ELSE 0
  /\ \A a \in Async :
       /\ Cardinality(Holders({"await"}, a))
            = IF machine[a] = "Suspended" THEN 1 ELSE 0
       /\ \A p \in Promises :
            waiting[a] = p /\ st[p] = "pending"
              => \E h \in Holders({"await"}, a) : h[1] = p
  /\ \A p \in Promises : Settled(p) => reactions[p] = <<>>

\* A rejection nobody subscribed to is parked or has been reported, never
\* both and never neither; what is parked is unhandled and parked once; and
\* with a hook, what was reported and not taken back is unhandled.
RejectionsTracked ==
  /\ \A p \in Promises :
       st[p] = "rejected" /\ ~handled[p] => (Holds(parked, p) # (p \in said))
  /\ \A i \in DOMAIN parked :
       /\ st[parked[i]] = "rejected" /\ ~handled[parked[i]]
       /\ \A j \in DOMAIN parked : parked[i] = parked[j] => i = j
  /\ hook => \A p \in said : st[p] = "rejected" /\ ~handled[p] /\ reported[p]

\* An async call suspended on a settled promise is resumed, whatever the
\* other jobs enqueue: the queue is served in order.
AwaitsResume ==
  \A a \in Async, p \in Promises :
    waiting[a] = p /\ Settled(p) ~> waiting[a] # p

\* "Only the promises parked NOW are reported in this pass" (microtask.cpp:101):
\* what a pass reports was parked when it began.
OnlyParkedNow ==
  [][\A p \in Promises : at = "report" /\ p \in said' \ said => p \in batch]_vars
=============================================================================
