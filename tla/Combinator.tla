----------------------------- MODULE Combinator -----------------------------
(***************************************************************************)
(* One call of Promise.all, allSettled, any or race (builtin_promise.cpp,  *)
(* runCombinator, staticRace): the walk over the iterable, the count of    *)
(* what remains, the results by index and the capability.  The promises it *)
(* is given are known by their answers; their reactions run from the       *)
(* microtask queue.                                                        *)
(***************************************************************************)
EXTENDS Naturals, Sequences, FiniteSets

VARIABLES
  kind,        \* SharedSlot::Kind
  phase,       \* "none", "walking", "walked" or "thrown"
  elements,    \* the promise of every index
  stored,      \* the indexes whose result was written
  remaining,   \* SharedSlot::Remaining
  cap,         \* the capability: "pending", "finished" by the count, or "early"
  jobs         \* the reactions queued, by index

comb == <<kind, phase, elements, stored, remaining, cap, jobs>>

Kinds == {"all", "allSettled", "any", "race"}

CombInit ==
  /\ kind \in Kinds /\ phase = "none"
  /\ elements = <<>> /\ stored = {} /\ remaining = 0
  /\ cap = "pending" /\ jobs = <<>>

\* rtSettleCapability: the first to settle it wins.
Settled(how) == IF cap = "pending" THEN how ELSE cap

\* The count starts at 1, for the walk itself.  A race keeps no count.
Counts == kind # "race"
StartCount_Zero == 0
StartCount == IF Counts THEN 1 ELSE 0

WalkStarts ==
  /\ phase = "none"
  /\ phase' = "walking" /\ remaining' = StartCount
  /\ UNCHANGED <<kind, elements, stored, cap, jobs>>

\* One element: rtPerformPromiseThen, then the count.  A promise that is
\* settled already queues its reaction at once.
WalkTakes(p, isSettled) ==
  /\ phase = "walking"
  /\ elements' = Append(elements, p)
  /\ remaining' = IF Counts THEN remaining + 1 ELSE 0
  /\ jobs' = IF isSettled THEN Append(jobs, Len(elements) + 1) ELSE jobs
  /\ UNCHANGED <<kind, phase, stored, cap>>

\* combinatorDecrement, and combinatorFinish at zero.
Decrement ==
  /\ remaining' = remaining - 1
  /\ cap' = IF remaining = 1 THEN Settled("finished") ELSE cap

WalkEnds_NoDecrement ==
  /\ phase = "walking" /\ phase' = "walked"
  /\ UNCHANGED <<kind, elements, stored, remaining, cap, jobs>>
WalkEnds ==
  /\ phase = "walking" /\ phase' = "walked"
  /\ IF Counts THEN Decrement ELSE UNCHANGED <<remaining, cap>>
  /\ UNCHANGED <<kind, elements, stored, jobs>>

\* rejectAndCloseOnThrow
WalkThrows ==
  /\ phase = "walking" /\ phase' = "thrown"
  /\ cap' = Settled("early")
  /\ UNCHANGED <<kind, elements, stored, remaining, jobs>>

\* Which answers are kept as results, the others settling the capability:
\* allOnFulfilled, settledOnFulfilled, settledOnRejected, anyOnRejected;
\* capReject, capResolve, and the pass-through reactions of a race.
Keeps(answer) ==
  \/ kind = "allSettled"
  \/ kind = "all" /\ answer # "error"
  \/ kind = "any" /\ answer = "error"

RunReaction(answerOf) ==
  /\ jobs # <<>>
  /\ jobs' = Tail(jobs)
  /\ LET i == Head(jobs)
     IN  IF Keeps(answerOf[elements[i]])
         THEN stored' = stored \union {i} /\ Decrement
         ELSE cap' = Settled("early") /\ UNCHANGED <<stored, remaining>>
  /\ UNCHANGED <<kind, phase, elements>>

\* The promises of `now` settle, the oldest first: the reactions of each are
\* queued in the order they were added.
Reactions(now) == {i \in DOMAIN elements : elements[i] \in now}
Earlier(i, j) ==
  elements[i] < elements[j] \/ (elements[i] = elements[j] /\ i < j)
Orders(S) ==
  {s \in [1 .. Cardinality(S) -> S] :
     \A k, l \in DOMAIN s : k < l => Earlier(s[k], s[l])}

Notice(now) ==
  /\ \E s \in Orders(Reactions(now)) : jobs' = jobs \o s
  /\ UNCHANGED <<kind, phase, elements, stored, remaining, cap>>

\* The combinator answers with its results exactly when the walk is over and
\* the last of them is in: never with a placeholder, and never not at all
\* (combinatorDecrement; the initial 1, runCombinator).
FinishesWithAll ==
  Counts /\ phase = "walked" /\ stored = DOMAIN elements <=> cap = "finished"
=============================================================================
