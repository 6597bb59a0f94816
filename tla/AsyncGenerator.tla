--------------------------- MODULE AsyncGenerator ---------------------------
(***************************************************************************)
(* One async generator object (runtime/builtin_async_generator.cpp, the    *)
(* await of coro.cpp): its state, the queue of its requests (next, return, *)
(* throw), the body that answers them, and the call stack they run on.     *)
(*                                                                         *)
(* An answer is an ordinary object, and resolving a promise with it reads  *)
(* its `then` (promise.cpp, runResolutionSteps): a getter may run, and may *)
(* call the generator again before the answer is given.  So the functions  *)
(* are frames of an explicit stack, and every read of `then` may put       *)
(* program code on top of them.                                            *)
(***************************************************************************)
EXTENDS Naturals, Sequences, FiniteSets

CONSTANTS
  MaxRequests,   \* bound on the calls of next, return and throw
  MaxAwaits,     \* bound on the awaits of the body
  MaxDepth       \* bound on the frames

ASSUME BoundsAssumption == {MaxRequests, MaxAwaits, MaxDepth} \subseteq Nat

Requests == 1 .. MaxRequests
Modes == {"next", "return", "throw"}

VARIABLES
  state,      \* AsyncGeneratorSlot::State
  queue,      \* AsyncGeneratorSlot::Queue: the requests that wait, their numbers and modes
  made,       \* how many were made
  answer,     \* what its promise was settled with
  stack,      \* the frames of the thread, the running one last
  awaiting,   \* the body's frame waits for a promise
  awaits      \* how often it has

vars == <<state, queue, made, answer, stack, awaiting, awaits>>

Frame(at) == [at |-> at, req |-> 0, with |-> "none"]
Settling(r, a) == [at |-> "settle", req |-> r, with |-> a]
Answers == {"value", "done", "error"}
Places == {"program", "walk", "next", "body", "yielded", "drain"}

TypeOK ==
  /\ state \in {"start", "yield", "executing", "completed"}
  /\ queue \in Seq([req : Requests, mode : Modes])
  /\ made \in 0 .. MaxRequests
  /\ answer \in [Requests -> Answers \union {"none"}]
  /\ stack \in Seq({Frame(at) : at \in Places} \union
                   {Settling(r, a) : r \in Requests, a \in Answers})
  /\ awaiting \in BOOLEAN /\ awaits \in 0 .. MaxAwaits

Made == 1 .. made
Waiting == {queue[i].req : i \in DOMAIN queue}
Idle == stack = <<>>
Top == stack[Len(stack)].at
Below == SubSeq(stack, 1, Len(stack) - 1)
At(place) == ~Idle /\ Top = place
Turned(place) == Append(Below, Frame(place))   \* the running frame goes on at place

\* rtCreateAsyncGeneratorObject: the body has run to its start.
Init ==
  /\ state = "start" /\ queue = <<>> /\ made = 0
  /\ answer = [r \in Requests |-> "none"]
  /\ stack = <<>> /\ awaiting = FALSE /\ awaits = 0

-----------------------------------------------------------------------------
(* Answering a request *)

\* rtResolvePromise with an iterator result, the frames under it being `under`:
\* settled at once, or after a getter has run.
Resolve(r, a, under) ==
  \/ /\ answer' = [answer EXCEPT ![r] = a]
     /\ stack' = under
  \/ /\ Len(under) + 2 <= MaxDepth
     /\ stack' = under \o <<Settling(r, a), Frame("program")>>
     /\ UNCHANGED answer

\* rtRejectPromise runs no program code.
Reject(rs, under) ==
  /\ answer' = [r \in Requests |-> IF r \in rs THEN "error" ELSE answer[r]]
  /\ stack' = under

\* A completed generator, or one that never started, answers by itself.
AnswerAlone(r, m, under) ==
  IF m = "throw" THEN Reject({r}, under) ELSE Resolve(r, "done", under)

\* The getter returned (something that is not a function: a `then` to call is
\* not modelled), or it threw.
Settle ==
  /\ At("settle")
  /\ LET f == stack[Len(stack)]
     IN  answer' \in {[answer EXCEPT ![f.req] = a] : a \in {f.with, "error"}}
  /\ stack' = Below
  /\ UNCHANGED <<state, queue, made, awaiting, awaits>>

-----------------------------------------------------------------------------
(* enqueueRequest *)

\* Program code is what runs: a script or callback, the body itself, or the
\* iterator a combinator walks.
ProgramRuns == ~Idle /\ Top \in {"program", "body", "walk"}

Queued_First(q) == <<q>> \o queue
Queued(q) == Append(queue, q)

RunsAlone(m) == state = "completed" \/ (state = "start" /\ m # "next")

Ask(m) ==
  LET r == made + 1
  IN  /\ ProgramRuns /\ r <= MaxRequests
      /\ made' = r
      /\ UNCHANGED <<awaiting, awaits>>
      /\ IF RunsAlone(m)
         THEN /\ state' = "completed"
              /\ AnswerAlone(r, m, stack)
              /\ UNCHANGED queue
         ELSE /\ queue' = Queued([req |-> r, mode |-> m])
              /\ \/ state = "executing" /\ UNCHANGED stack
                 \/ /\ state # "executing" /\ Len(stack) < MaxDepth
                    /\ stack' = Append(stack, Frame("next"))
              /\ UNCHANGED <<state, answer>>

-----------------------------------------------------------------------------
(* asyncGeneratorResumeNext *)

ResumeNext ==
  /\ At("next")
  /\ UNCHANGED <<made, awaiting, awaits>>
  /\ \/ /\ queue = <<>> \/ state = "executing"
        /\ stack' = Below
        /\ UNCHANGED <<state, queue, answer>>
     \/ /\ queue # <<>> /\ state # "executing"
        /\ LET q == Head(queue)
           IN  IF RunsAlone(q.mode)
               THEN /\ state' = "completed"
                    /\ queue' = Tail(queue)
                    /\ AnswerAlone(q.req, q.mode, stack)
               ELSE /\ state' = "executing"
                    /\ stack' = Turned("body")
                    /\ UNCHANGED <<queue, answer>>

-----------------------------------------------------------------------------
(* resumeBody and processResumeResult: the body suspends or ends *)

\* The request stays at the head of the queue and the state executing.
BodyAwaits ==
  /\ At("body") /\ awaits < MaxAwaits
  /\ awaiting' = TRUE /\ awaits' = awaits + 1
  /\ stack' = Below
  /\ UNCHANGED <<state, queue, made, answer>>

\* awaitSettled: the awaited promise's reaction, from the microtask queue.
AwaitSettles ==
  /\ Idle /\ awaiting
  /\ awaiting' = FALSE /\ state' = "executing"
  /\ stack' = <<Frame("body")>>
  /\ UNCHANGED <<queue, made, answer, awaits>>

Completes(newState, a, then) ==
  /\ At("body")
  /\ state' = newState
  /\ IF queue = <<>>
     THEN stack' = Below /\ UNCHANGED <<queue, answer>>
     ELSE queue' = Tail(queue) /\ Resolve(Head(queue).req, a, Turned(then))
  /\ UNCHANGED <<made, awaiting, awaits>>

BodyYields == Completes("yield", "value", "yielded")
BodyReturns == Completes("completed", "done", "drain")

Thrown_Oldest == {Head(queue).req}
Thrown == Waiting

\* A throw out of the body rejects every queued request; with none queued it
\* propagates.
BodyThrows ==
  /\ At("body")
  /\ state' = "completed" /\ queue' = <<>>
  /\ Reject(Thrown, Below)
  /\ UNCHANGED <<made, awaiting, awaits>>

\* After the answer: a yield goes on with the next request, if there is one;
\* the end of the body answers them all.
NextFrame_Ends == Below
NextFrame == IF queue # <<>> THEN Turned("next") ELSE Below

AfterYield ==
  /\ At("yielded")
  /\ stack' = NextFrame
  /\ UNCHANGED <<state, queue, made, answer, awaiting, awaits>>

Drain ==
  /\ At("drain")
  /\ \/ queue # <<>> /\ stack' = Append(stack, Frame("next"))
     \/ queue = <<>> /\ stack' = Below
  /\ UNCHANGED <<state, queue, made, answer, awaiting, awaits>>

-----------------------------------------------------------------------------
(* The program *)

ProgramStarts ==
  /\ Idle
  /\ stack' = <<Frame("program")>>
  /\ UNCHANGED <<state, queue, made, answer, awaiting, awaits>>

ProgramReturns ==
  /\ At("program")
  /\ stack' = Below
  /\ UNCHANGED <<state, queue, made, answer, awaiting, awaits>>

\* What is on the stack goes on by itself.
Step ==
  \/ Settle \/ ResumeNext \/ AfterYield \/ Drain
  \/ BodyAwaits \/ BodyYields \/ BodyReturns \/ BodyThrows
  \/ AwaitSettles \/ ProgramReturns

Next == Step \/ ProgramStarts \/ (\E m \in Modes : Ask(m))

-----------------------------------------------------------------------------
(* Properties *)

\* No request is forgotten: one that is not answered is in the queue or about
\* to be answered by a frame, the queue is empty once nothing runs and nothing
\* is awaited, and a body that runs has a request to answer - so a throw out
\* of it always has one to reject - however requests were made from inside the
\* body, or from a getter in the middle of an answer (resumeBody,
\* processResumeResult, asyncGeneratorResumeNext).
NothingStuck ==
  /\ {r \in Made : answer[r] = "none"} =
       Waiting \union
       {stack[i].req : i \in {j \in DOMAIN stack : stack[j].at = "settle"}}
  /\ Idle /\ ~awaiting => queue = <<>>
  /\ state = "executing" => queue # <<>>

\* What the body yields goes to the oldest request: no request waits while a
\* later one has been given a value (processResumeResult, queuePopFront).
ValuesInOrder ==
  \A r \in Made, w \in Waiting : answer[r] = "value" => r < w
=============================================================================
