--------------------------- MODULE AsyncIteration ---------------------------
(***************************************************************************)
(* A program that asks an async generator for values and hands the         *)
(* promises it gets to a promise combinator: the walk of the combinator is *)
(* a frame of the same stack, and its iterator may call the generator too. *)
(***************************************************************************)
EXTENDS AsyncGenerator

CONSTANT MaxElements   \* bound on the elements of the iterable

ASSUME ElementsAssumption == MaxElements \in Nat

VARIABLES kind, phase, elements, stored, remaining, cap, jobs

INSTANCE Combinator

allVars == <<vars, comb>>

IterInit == Init /\ CombInit

\* A step of the generator queues the reactions of the promises it settles.
GeneratorStep(A) == A /\ Notice({r \in Requests : answer[r] # answer'[r]})

StartWalk ==
  /\ At("program") /\ Len(stack) < MaxDepth
  /\ WalkStarts
  /\ stack' = Append(stack, Frame("walk"))
  /\ UNCHANGED <<state, queue, made, answer, awaiting, awaits>>

WalkStep ==
  /\ At("walk")
  /\ \/ /\ Len(elements) < MaxElements
        /\ \E r \in Made : WalkTakes(r, answer[r] # "none")
        /\ UNCHANGED stack
     \/ (WalkEnds \/ WalkThrows) /\ stack' = Below
  /\ UNCHANGED <<state, queue, made, answer, awaiting, awaits>>

Reaction ==
  /\ Idle
  /\ RunReaction(answer)
  /\ UNCHANGED vars

\* What goes on by itself, and what the program chooses to do.
Goes == GeneratorStep(Step) \/ WalkStep \/ Reaction
Acts == GeneratorStep(ProgramStarts) \/ GeneratorStep(\E m \in Modes : Ask(m)) \/ StartWalk

Spec == IterInit /\ [][Goes \/ Acts]_allVars

\* The thread runs what is on its stack: program code returns and a body does
\* not run for ever.  What the body awaits is settled; then its job, like the
\* reactions of the combinator, is run in a checkpoint that no new script comes
\* before.
FairSpec ==
  /\ Spec /\ WF_allVars(Goes)
  /\ SF_allVars(GeneratorStep(AwaitSettles)) /\ SF_allVars(Reaction)

\* Every request is answered in the end: no chain of calls from getters, from
\* the body or from an iterator leaves one in the queue of a generator that
\* nobody resumes (asyncGeneratorResumeNext, processResumeResult).
EveryRequestAnswered ==
  \A r \in Requests : (r \in Made) ~> (answer[r] # "none")

\* A combinator over the generator's promises settles in the end, whatever its
\* elements are answered, in whatever order, during the walk or after it; only
\* a race of nothing stays pending (runCombinator, combinatorDecrement,
\* staticRace).
CombinatorSettles ==
  (phase = "walked" /\ (Counts \/ elements # <<>>)) ~> (cap # "pending")
=============================================================================
