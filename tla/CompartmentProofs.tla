-------------------------- MODULE CompartmentProofs --------------------------
(***************************************************************************)
(* For any set of compartments, nested to any depth: the safety properties *)
(* of Compartment.tla, from one inductive invariant.  It says that the     *)
(* enterFiber activations form a stack (Nesting), what the watchdog and    *)
(* the armed word may know of it (Watching), where the fiber of each       *)
(* compartment stands, by whether it is at rest, below the running one, or *)
(* at each point of the innermost enterFiber (Standing), and which errors  *)
(* a status may still report (Errors).                                     *)
(***************************************************************************)
EXTENDS Compartment, TLAPS

\* The types, and: a thread inside enterFiber runs a compartment.
Typed == TypeOK /\ (phase # "run" => running # Host)

\* The activations are numbered from the outermost, each above its caller.
Nesting ==
  /\ running # Host => Entered(running)
  /\ \A c \in Comps : Entered(c) =>
       /\ at[c] # "none"
       /\ level[c] <= Depth
       /\ prev[c] = Host => level[c] = 1
       /\ prev[c] # Host => Entered(prev[c]) /\ level[c] = 1 + level[prev[c]]
  /\ \A c, d \in Comps : Entered(c) /\ level[c] = level[d] => c = d

Watching ==
  /\ \A c \in active : Entered(c)
  /\ phase = "stopped" => running \notin active
  /\ running = Host => armed \notin {"slice", "terminate"}

\* No enterFiber activation of c is on the thread.
AtRest(c) ==
  /\ state[c] = "Idle" => at[c] \in {"none", "fresh", "loop"} /\ ~jobPending[c]
  /\ state[c] = "Yielded" => at[c] \in {"job", "drain"} /\ jobPending[c]
  /\ state[c] = "Terminated" => at[c] \in {"fresh", "finished"} /\ ~jobPending[c]
  /\ uncaught[c] => state[c] = "Terminated"
  /\ c \notin noYield

\* c runs its job, or called the native that entered another compartment.
InJob(c) ==
  /\ at[c] \in {"job", "drain"}
  /\ jobPending[c]
  /\ state[c] # "Terminated"
  /\ after[c] = "status"

\* c is being entered: what it was entered for is settled.
Entering(c) ==
  /\ at[c] \in {"fresh", "loop", "job", "drain"}
  /\ jobPending[c]
  /\ state[c] # "Terminated"
  /\ c \notin noYield
  /\ after[c] # "status" => terminateRequested[c] /\ at[c] \in {"job", "drain"}

\* c's fiber has suspended or returned.
Leaving(c) ==
  /\ at[c] \in {"loop", "job", "drain", "finished"}
  /\ state[c] = "Terminated" <=> at[c] = "finished"
  /\ jobPending[c] <=> at[c] \in {"job", "drain"}
  /\ after[c] # "status" => at[c] = "finished"
  /\ c \notin noYield
  /\ jobPending[c] => noYield = {}

\* Where c's fiber stands, by where the thread is.
Stands(c) ==
  /\ ~Entered(c) => AtRest(c)
  /\ Entered(c) =>
       /\ c # running \/ phase = "run" => InJob(c)
       /\ c = running /\ phase \in {"start", "switch"} => Entering(c)
       /\ c = running /\ phase \in {"left", "stopped"} => Leaving(c)

Standing == \A c \in Comps : Stands(c)

Errors ==
  /\ told \subseteq threw
  /\ \A c \in Comps : uncaught[c] => c \in threw \/ state[c] = "Terminated"

IInv == Typed /\ Nesting /\ Watching /\ Standing /\ Errors

-----------------------------------------------------------------------------
(* Type correctness.                                                       *)

\* The types hold initially.
LEMMA InitTyped == Init => Typed
  BY CompartmentAssumption DEF Init, Typed, TypeOK, Stacks, Phases, Arms, Places, States

\* An enterFiber call, a termination and a handed-out status keep the types.
LEMMA EnterFiberTyped ==
  ASSUME Typed, NEW c \in Comps, NEW then \in {"status", "nothing", "delete"},
         EnterFiber(c, then)
  PROVE  /\ running' \in Stacks /\ prev' \in [Comps -> Stacks]
         /\ level' \in [Comps -> Nat] /\ phase' \in Phases
         /\ after' \in [Comps -> {"status", "nothing", "delete"}]
         /\ running' # Host
  BY CompartmentAssumption DEF Typed, TypeOK, EnterFiber, Depth, Stacks, Phases

\* Every step keeps the types.
LEMMA NextTyped == Typed /\ [Next]_vars => Typed'
<1> SUFFICES ASSUME Typed, [Next]_vars PROVE Typed'
  OBVIOUS
<1> USE CompartmentAssumption
    DEF Typed, TypeOK, Stacks, Phases, Arms, Places, States,
        thread, timing, comp, history
<1>1. CASE StartSlice
  BY <1>1 DEF StartSlice, Watched
<1>2. CASE SwitchIn
  BY <1>2 DEF SwitchIn, Unwind, UnwoundJob, ThrowsOnResume
<1>3. CASE StopSlice
  BY <1>3 DEF StopSlice, Unwatched
<1>4. CASE LeaveFiber
  <2> DEFINE c == running
  <2>1. c \in Comps /\ phase' = "run"
    BY <1>4 DEF LeaveFiber
  <2>2. LeftState(c) \in States
    BY DEF LeftState
  <2>3. running' \in Stacks /\ level' \in [Comps -> Nat] /\ armed' \in Arms
    BY <1>4, <2>1 DEF LeaveFiber, Disarmed
  <2>4. CASE after[c] = "status" /\ ReportStatus(c)
    BY <1>4, <2>1, <2>2, <2>3, <2>4 DEF LeaveFiber, ReportStatus, Reported
  <2>5. CASE /\ state' = [state EXCEPT ![c] = LeftState(c)]
             /\ UNCHANGED <<at, jobPending, uncaught, terminateRequested, history>>
    BY <1>4, <2>1, <2>2, <2>3, <2>5 DEF LeaveFiber
  <2>6. CASE Delete(c)
    BY <1>4, <2>1, <2>3, <2>6 DEF LeaveFiber, Delete
  <2> QED
    BY <1>4, <2>4, <2>5, <2>6 DEF LeaveFiber
<1>5. CASE Poll
  BY <1>5 DEF Poll, Unwind, UnwoundJob, ThrowsAtPoll, Yields
<1>6. CASE SetStackLimit \/ WatchdogArms \/ HostArms
  BY <1>6 DEF SetStackLimit, WatchdogArms, HostArms
<1>7. ASSUME NEW c \in Comps, Create(c) PROVE Typed'
  BY <1>7 DEF Create
<1>8. ASSUME NEW c \in Comps, Run(c) PROVE Typed'
  BY <1>8, EnterFiberTyped DEF Run
<1>9. ASSUME NEW c \in Comps, Resume(c) PROVE Typed'
  BY <1>9, EnterFiberTyped DEF Resume
<1>10. ASSUME NEW c \in Comps, Destroy(c) PROVE Typed'
  <2>1. CASE state[c] = "Yielded"
    BY <1>10, <2>1, EnterFiberTyped DEF Destroy, Request
  <2>2. CASE state[c] # "Yielded"
    <3>1. armed' \in Arms
      BY <1>10, <2>2 DEF Destroy
    <3>2. Delete(c) /\ UNCHANGED <<thread, timing, noYield>>
      BY <1>10, <2>2 DEF Destroy
    <3> QED
      BY <3>1, <3>2 DEF Delete
  <2> QED
    BY <2>1, <2>2
<1>11. ASSUME NEW c \in Comps, Refused(c) PROVE Typed'
  BY <1>11 DEF Refused, ReportStatus, Reported, LeftState
<1>12. ASSUME NEW c \in Comps, TerminateRunning(c) PROVE Typed'
  BY <1>12 DEF TerminateRunning, Request
<1>13. ASSUME NEW c \in Comps, Terminate(c) PROVE Typed'
  <2>1. CASE state[c] = "Yielded"
    BY <1>13, <2>1, EnterFiberTyped DEF Terminate, Request
  <2>2. CASE state[c] = "Idle"
    <3>1. EndIdle(c) /\ Request(c)
      BY <1>13, <2>2 DEF Terminate
    <3>2. UNCHANGED <<thread, jobPending, uncaught, timing, noYield, history>>
      BY <1>13, <2>2 DEF Terminate
    <3>3. armed' \in Arms
      BY <3>1 DEF EndIdle
    <3>4. EndedPlace(c) \in Places
      BY DEF EndedPlace
    <3>5. at' \in [Comps -> Places] /\ state' \in [Comps -> States]
      BY <3>1, <3>4 DEF EndIdle
    <3> QED
      BY <3>1, <3>2, <3>3, <3>5 DEF Request
  <2> QED
    BY <1>13, <2>1, <2>2 DEF Terminate
<1>14. ASSUME NEW c \in Comps, JobReturns(c) PROVE Typed'
  BY <1>14 DEF JobReturns, Executing
<1>15. ASSUME NEW c \in Comps, DrainReturns(c) PROVE Typed'
  BY <1>15 DEF DrainReturns, Executing
<1>16. ASSUME NEW c \in Comps, HostError(c) PROVE Typed'
  BY <1>16 DEF HostError, Unwind, UnwoundJob, Executing
<1>17. ASSUME NEW c \in Comps, SliceSpent(c) PROVE Typed'
  BY <1>17 DEF SliceSpent
<1>18. ASSUME NEW s \in Stacks, BeginNoYield(s) \/ EndNoYield(s) PROVE Typed'
  BY <1>18 DEF BeginNoYield, EndNoYield
<1>19. CASE UNCHANGED vars
  BY <1>19 DEF vars
<1> QED
  BY <1>1, <1>2, <1>3, <1>4, <1>5, <1>6, <1>7, <1>8, <1>9, <1>10, <1>11,
     <1>12, <1>13, <1>14, <1>15, <1>16, <1>17, <1>18, <1>19 DEF Next

\* Every variable keeps its type through every operation of compartment.cpp;
\* for that, the thread is never inside enterFiber with the host's stack as
\* the running one.
THEOREM TypeCorrect == Spec => []TypeOK
<1>1. Typed => TypeOK
  BY DEF Typed
<1> QED
  BY <1>1, InitTyped, NextTyped, PTL DEF Spec

-----------------------------------------------------------------------------
(* The activations form a stack.                                           *)

\* The stacks are well nested initially.
LEMMA InitNesting == Init => Nesting
  BY DEF Init, Nesting, Entered

\* A step that neither enters nor leaves a fiber.
LEMMA KeepNesting ==
  ASSUME Typed, Nesting, UNCHANGED <<running, prev, level>>,
         \A c \in Comps : Entered(c) => at'[c] # "none"
  PROVE  Nesting'
  BY DEF Nesting, Entered, Depth

\* enterFiber's first half puts c on top of the stack.
LEMMA EnterNesting ==
  ASSUME Typed, Nesting, NEW c \in Comps, NEW then, EnterFiber(c, then),
         ~Entered(c), at[c] # "none", UNCHANGED at
  PROVE  Nesting'
<1> USE CompartmentAssumption DEF Typed, TypeOK, Stacks
<1>1. /\ running' = c /\ c # Host /\ c # running
      /\ level' = [level EXCEPT ![c] = Depth + 1]
      /\ prev' = [prev EXCEPT ![c] = running]
      /\ Depth \in Nat /\ level[c] = 0
  BY DEF EnterFiber, Depth, Nesting, Entered
<1>2. Depth' = Depth + 1 /\ Entered(running)'
  BY <1>1 DEF Depth, Entered
<1>3. \A d \in Comps : level[d] <= Depth
  BY <1>1 DEF Nesting, Entered
<1>4. ASSUME NEW d \in Comps, Entered(d)'
      PROVE  /\ at'[d] # "none"
             /\ level'[d] <= Depth'
             /\ prev'[d] = Host => level'[d] = 1
             /\ prev'[d] # Host => Entered(prev[d])' /\ level'[d] = 1 + level'[prev'[d]]
  <2>1. CASE d = c
    BY <1>1, <1>2, <2>1 DEF Depth, Nesting, Entered
  <2>2. CASE d # c
    <3>1. Entered(d) /\ level'[d] = level[d] /\ prev'[d] = prev[d]
      BY <1>1, <1>4, <2>2 DEF Entered
    <3>2. prev[d] # c
      BY <3>1, <1>1 DEF Nesting, Entered
    <3> QED
      BY <1>1, <1>2, <1>3, <3>1, <3>2 DEF Nesting, Entered
  <2> QED
    BY <2>1, <2>2
<1>5. ASSUME NEW d \in Comps, NEW e \in Comps, Entered(d)', level'[d] = level'[e]
      PROVE  d = e
  BY <1>1, <1>3, <1>5 DEF Nesting, Entered
<1> QED
  BY <1>2, <1>4, <1>5 DEF Nesting

\* The second half takes the top off; the caller is the top again.
LEMMA LeaveNesting ==
  ASSUME Typed, Nesting, LeaveFiber
  PROVE  Nesting'
<1> USE CompartmentAssumption DEF Typed, TypeOK, Stacks
<1> DEFINE c == running
<1>1. /\ c \in Comps /\ Entered(c)
      /\ running' = prev[c] /\ prev' = prev
      /\ level' = [level EXCEPT ![c] = 0]
      /\ \A d \in Comps : d # c => at'[d] = at[d]
  BY DEF LeaveFiber, Nesting, ReportStatus, Delete
<1>2. \A d \in Comps : level[d] <= level[c] /\ (level[d] = level[c] => d = c)
  BY <1>1 DEF Nesting, Entered, Depth
<1>3. prev[c] # c
  BY <1>1 DEF Nesting, Entered
<1>4. Depth' = level[c] - 1
  BY <1>1, <1>3 DEF Nesting, Entered, Depth
<1>5. running' # Host => Entered(running)'
  BY <1>1, <1>3 DEF Nesting, Entered
<1>6. ASSUME NEW d \in Comps, Entered(d)'
      PROVE  /\ at'[d] # "none"
             /\ level'[d] <= Depth'
             /\ prev'[d] = Host => level'[d] = 1
             /\ prev'[d] # Host => Entered(prev[d])' /\ level'[d] = 1 + level'[prev'[d]]
  <2>1. d # c /\ Entered(d) /\ level'[d] = level[d]
    BY <1>1, <1>6 DEF Entered
  <2>2. prev[d] # c
    BY <1>1, <1>2, <2>1 DEF Nesting, Entered
  <2> QED
    BY <1>1, <1>2, <1>4, <2>1, <2>2 DEF Nesting, Entered
<1>7. ASSUME NEW d \in Comps, NEW e \in Comps, Entered(d)', level'[d] = level'[e]
      PROVE  d = e
  BY <1>1, <1>7 DEF Nesting, Entered
<1> QED
  BY <1>5, <1>6, <1>7 DEF Nesting

\* Every step keeps the activations a stack.
LEMMA NextNesting == Typed /\ Nesting /\ Standing /\ [Next]_vars => Nesting'
<1> SUFFICES ASSUME Typed, Nesting, Standing, [Next]_vars PROVE Nesting'
  OBVIOUS
<1> USE CompartmentAssumption DEF Typed, TypeOK, thread, timing, comp, history
<1>1. CASE StartSlice
  BY <1>1, KeepNesting DEF StartSlice, Nesting
<1>2. CASE SwitchIn
  <2>1. UNCHANGED <<running, prev, level>> /\ running \in Comps
    BY <1>2 DEF SwitchIn, Stacks
  <2>2. \A c \in Comps : at'[c] \in {at[c], "job", "finished"}
    BY <1>2, <2>1 DEF SwitchIn, Unwind
  <2> QED
    BY <2>1, <2>2, KeepNesting DEF Nesting
<1>3. CASE StopSlice
  BY <1>3, KeepNesting DEF StopSlice, Nesting
<1>4. CASE LeaveFiber
  BY <1>4, LeaveNesting
<1>5. CASE Poll
  <2>1. UNCHANGED <<running, prev, level>>
    BY <1>5 DEF Poll
  <2>2. \A c \in Comps : at'[c] \in {at[c], "finished"}
    BY <1>5 DEF Poll, Unwind, Stacks
  <2> QED
    BY <2>1, <2>2, KeepNesting DEF Nesting
<1>6. CASE SetStackLimit \/ WatchdogArms \/ HostArms
  BY <1>6, KeepNesting DEF SetStackLimit, WatchdogArms, HostArms, Nesting
<1>7. ASSUME NEW c \in Comps, Create(c) PROVE Nesting'
  BY <1>7, KeepNesting DEF Create, Nesting
<1>8. ASSUME NEW c \in Comps, Run(c) PROVE Nesting'
  BY <1>8, EnterNesting DEF Run
<1>9. ASSUME NEW c \in Comps, state[c] = "Yielded", ~Entered(c) PROVE at[c] # "none"
  BY <1>9 DEF Standing, Stands, AtRest
<1>10. ASSUME NEW c \in Comps, Resume(c) PROVE Nesting'
  BY <1>9, <1>10, EnterNesting DEF Resume
<1>11. ASSUME NEW c \in Comps, Destroy(c) PROVE Nesting'
  <2>1. CASE state[c] = "Yielded"
    BY <1>11, <2>1, EnterNesting DEF Destroy
  <2>2. CASE state[c] # "Yielded"
    <3>1. UNCHANGED <<running, prev, level>> /\ Delete(c) /\ ~Entered(c)
      BY <1>11, <2>2 DEF Destroy
    <3>2. \A d \in Comps : d # c => at'[d] = at[d]
      BY <3>1 DEF Delete
    <3> QED
      BY <3>1, <3>2, KeepNesting DEF Nesting
  <2> QED
    BY <2>1, <2>2
<1>12. ASSUME NEW c \in Comps, Refused(c) \/ TerminateRunning(c) PROVE Nesting'
  BY <1>12, KeepNesting DEF Refused, ReportStatus, TerminateRunning, Nesting
<1>13. ASSUME NEW c \in Comps, Terminate(c) PROVE Nesting'
  <2>1. CASE state[c] = "Yielded"
    BY <1>13, <2>1, EnterNesting DEF Terminate
  <2>2. CASE state[c] # "Yielded"
    <3>1. UNCHANGED <<running, prev, level>> /\ EndIdle(c) /\ ~Entered(c)
      BY <1>13, <2>2 DEF Terminate
    <3>2. \A d \in Comps : d # c => at'[d] = at[d]
      BY <3>1 DEF EndIdle
    <3> QED
      BY <3>1, <3>2, KeepNesting DEF Nesting
  <2> QED
    BY <2>1, <2>2
<1>14. ASSUME NEW c \in Comps, JobReturns(c) \/ DrainReturns(c) PROVE Nesting'
  <2>1. UNCHANGED <<running, prev, level>>
    BY <1>14 DEF JobReturns, DrainReturns
  <2>2. \A d \in Comps : at'[d] \in {at[d], "drain", "loop"}
    BY <1>14 DEF JobReturns, DrainReturns
  <2> QED
    BY <2>1, <2>2, KeepNesting DEF Nesting
<1>15. ASSUME NEW c \in Comps, HostError(c) PROVE Nesting'
  <2>1. UNCHANGED <<running, prev, level>>
    BY <1>15 DEF HostError
  <2>2. \A d \in Comps : at'[d] \in {at[d], "finished"}
    BY <1>15 DEF HostError, Unwind
  <2> QED
    BY <2>1, <2>2, KeepNesting DEF Nesting
<1>16. ASSUME NEW c \in Comps, SliceSpent(c) PROVE Nesting'
  BY <1>16, KeepNesting DEF SliceSpent, Nesting
<1>17. ASSUME NEW s \in Stacks, BeginNoYield(s) \/ EndNoYield(s) PROVE Nesting'
  BY <1>17, KeepNesting DEF BeginNoYield, EndNoYield, Nesting
<1>18. CASE UNCHANGED vars
  BY <1>18, KeepNesting DEF vars, Nesting
<1> QED
  BY <1>1, <1>2, <1>3, <1>4, <1>5, <1>6, <1>7, <1>8, <1>10, <1>11, <1>12,
     <1>13, <1>14, <1>15, <1>16, <1>17, <1>18 DEF Next

-----------------------------------------------------------------------------
(* Where each fiber stands.                                                *)

\* The phases agree initially.
LEMMA InitStanding == Init => Standing
<1> SUFFICES ASSUME Init, NEW c \in Comps PROVE Stands(c)
  BY DEF Standing
<1>1. level[c] = 0 /\ at[c] = "none" /\ state[c] = "Idle" /\ noYield = {}
  BY DEF Init
<1>2. ~jobPending[c] /\ ~uncaught[c]
  BY Zenon DEF Init
<1> QED
  BY <1>1, <1>2 DEF Stands, AtRest, Entered

\* A compartment the step does not touch, at rest or in its job before and
\* after.
LEMMA KeepStands ==
  ASSUME NEW d \in Comps, Stands(d),
         d # running \/ phase = "run",
         d # running' \/ phase' = "run",
         level'[d] = level[d], at'[d] = at[d], state'[d] = state[d],
         jobPending'[d] = jobPending[d], after'[d] = after[d],
         uncaught'[d] => uncaught[d],
         d \in noYield' => d \in noYield
  PROVE  Stands(d)'
  BY DEF Stands, Entered, AtRest, InJob

\* enterFiber's first half, with what it is entered for settled.
LEMMA EnterStands ==
  ASSUME Typed, Nesting, NEW c \in Comps, NEW d \in Comps, Stands(c), Stands(d),
         NEW then, MayCall, EnterFiber(c, then), ~Entered(c),
         UNCHANGED <<at, state, uncaught, noYield>>,
         d # c => jobPending'[d] = jobPending[d],
         jobPending'[c], state[c] # "Terminated", at[c] # "none",
         then # "status" => terminateRequested'[c] /\ at[c] \in {"job", "drain"}
  PROVE  Stands(d)'
<1> USE DEF Typed, TypeOK
<1>1. /\ running' = c /\ phase = "run" /\ phase' = "start"
      /\ level' = [level EXCEPT ![c] = Depth + 1]
      /\ after' = [after EXCEPT ![c] = then]
  BY DEF EnterFiber, MayCall
<1>2. CASE d = c
  <2>1. Entered(d)'
    BY <1>1, <1>2, CompartmentAssumption DEF Entered, Depth, Stacks
  <2>2. after'[c] = then /\ AtRest(c)
    BY <1>1 DEF Stands
  <2>3. Entering(c)'
    BY <2>2 DEF Entering, AtRest, States
  <2> QED
    BY <1>1, <1>2, <2>1, <2>3 DEF Stands
<1>3. CASE d # c
  BY <1>1, <1>3, KeepStands
<1> QED
  BY <1>2, <1>3

\* Every step keeps what the phases say of one another.
LEMMA NextStanding == Typed /\ Nesting /\ Standing /\ [Next]_vars => Standing'
<1> SUFFICES ASSUME Typed, Nesting, Standing, [Next]_vars, NEW d \in Comps
             PROVE  Stands(d)'
  BY DEF Standing
<1>0. Stands(d)
  BY DEF Standing
<1> USE CompartmentAssumption DEF Typed, TypeOK, Stacks, Phases, thread, timing, comp, history
\* d is running inside enterFiber, or it is where KeepStands wants it.
<1>1. CASE StartSlice
  <2>1. CASE d = running
    BY <1>0, <1>1, <2>1 DEF StartSlice, Stands, Entered, Entering, Nesting
  <2>2. CASE d # running
    BY <1>0, <1>1, <2>2, KeepStands DEF StartSlice
  <2> QED
    BY <2>1, <2>2
<1>2. CASE SwitchIn
  <2>1. CASE d # running
    BY <1>0, <1>2, <2>1, KeepStands DEF SwitchIn, Unwind, UnwoundJob
  <2>2. CASE d = running
    <3>1. Entered(d) /\ Entering(d) /\ UNCHANGED <<running, level, after>>
      BY <1>0, <1>2, <2>2 DEF SwitchIn, Stands, Nesting
    <3>2. Entered(d)'
      BY <3>1 DEF Entered
    <3>3. CASE ThrowsOnResume(d) /\ Unwind(d)
      BY <2>2, <3>1, <3>2, <3>3 DEF Unwind, UnwoundJob, Stands, Leaving
    <3>4. CASE /\ at[d] \in {"job", "drain"} /\ ~ThrowsOnResume(d)
               /\ phase' = "run" /\ UNCHANGED <<comp, noYield>>
      BY <2>2, <3>1, <3>2, <3>4 DEF ThrowsOnResume, Stands, Entering, InJob
    <3>5. CASE /\ at[d] \in {"fresh", "loop"} /\ at' = [at EXCEPT ![d] = "job"]
               /\ phase' = "run" /\ UNCHANGED <<state, jobPending, noYield>>
      BY <2>2, <3>1, <3>2, <3>5 DEF Stands, Entering, InJob
    <3> QED
      BY <1>2, <2>2, <3>3, <3>4, <3>5 DEF SwitchIn
  <2> QED
    BY <2>1, <2>2
<1>3. CASE StopSlice
  <2>1. CASE d = running
    BY <1>0, <1>3, <2>1 DEF StopSlice, Stands, Entered, Leaving, Nesting
  <2>2. CASE d # running
    BY <1>0, <1>3, <2>2, KeepStands DEF StopSlice
  <2> QED
    BY <2>1, <2>2
<1>4. CASE LeaveFiber
  <2>1. CASE d # running
    <3>1. /\ phase' = "run" /\ level'[d] = level[d] /\ UNCHANGED <<after, noYield>>
          /\ at'[d] = at[d] /\ state'[d] = state[d]
          /\ jobPending'[d] = jobPending[d] /\ uncaught'[d] = uncaught[d]
      BY <1>4, <2>1 DEF LeaveFiber, ReportStatus, Reported, Delete
    <3> QED
      BY <1>0, <2>1, <3>1, KeepStands
  <2>2. CASE d = running
    <3>1. Leaving(d) /\ ~Entered(d)' /\ UNCHANGED noYield
      BY <1>0, <1>4, <2>2 DEF LeaveFiber, Stands, Entered, Nesting
    <3>2. d \notin noYield'
      BY <3>1 DEF Leaving
    <3>3. CASE after[d] = "status" /\ ReportStatus(d)
      <4>1. ~uncaught'[d] /\ UNCHANGED <<at, jobPending>> /\ state'[d] = LeftState(d)
        BY <3>3 DEF ReportStatus, Reported
      <4> QED
        BY <3>1, <3>2, <4>1 DEF Stands, AtRest, Leaving, LeftState
    <3>4. CASE /\ after[d] = "nothing"
               /\ state' = [state EXCEPT ![d] = LeftState(d)]
               /\ UNCHANGED <<at, jobPending, uncaught, terminateRequested, history>>
      BY <3>1, <3>2, <3>4 DEF Stands, AtRest, Leaving, LeftState
    <3>5. CASE Delete(d)
      BY <3>1, <3>2, <3>5 DEF Stands, AtRest, Delete
    <3> QED
      BY <1>4, <2>2, <3>3, <3>4, <3>5 DEF LeaveFiber
  <2> QED
    BY <2>1, <2>2
<1>5. CASE Poll
  <2>1. CASE d # running
    BY <1>0, <1>5, <2>1, KeepStands DEF Poll, Unwind, UnwoundJob
  <2>2. CASE d = running
    <3>1. Entered(d) /\ InJob(d) /\ UNCHANGED <<running, level, after>> /\ d # Host
      BY <1>0, <1>5, <2>2 DEF Poll, Stands, Nesting
    <3>2. Entered(d)'
      BY <3>1 DEF Entered
    <3>3. CASE Unwind(d)
      BY <2>2, <3>1, <3>2, <3>3 DEF Unwind, UnwoundJob, Stands, Leaving, InJob
    <3>4. CASE /\ phase' = IF Yields(d) THEN "left" ELSE "run"
               /\ UNCHANGED <<comp, noYield>>
      BY <2>2, <3>1, <3>2, <3>4 DEF Yields, Stands, Leaving, InJob
    <3> QED
      BY <1>5, <2>2, <3>1, <3>3, <3>4 DEF Poll
  <2> QED
    BY <2>1, <2>2
<1>6. CASE UNCHANGED <<running, phase, level, after, comp, noYield>>
  BY <1>0, <1>6 DEF Stands, Entered, AtRest, InJob, Entering, Leaving
<1>7. ASSUME NEW c \in Comps, Create(c) PROVE Stands(d)'
  <2>1. CASE d # c
    BY <1>0, <1>7, <2>1, KeepStands DEF Create, MayCall
  <2>2. CASE d = c
    BY <1>0, <1>7, <2>2 DEF Create, Stands, Entered, AtRest, Nesting, InJob, States
  <2> QED
    BY <2>1, <2>2
<1>8. ASSUME NEW c \in Comps PROVE Stands(c)
  BY DEF Standing
<1>9. ASSUME NEW c \in Comps, ~Entered(c), state[c] = "Yielded"
      PROVE  jobPending[c] /\ at[c] \in {"job", "drain"}
  BY <1>8, <1>9 DEF Stands, AtRest
<1>10. ASSUME NEW c \in Comps, Run(c) PROVE Stands(d)'
  <2>1. jobPending'[c] /\ (d # c => jobPending'[d] = jobPending[d])
    BY <1>10 DEF Run
  <2> QED
    BY <1>0, <1>8, <1>10, <2>1, EnterStands DEF Run
<1>11. ASSUME NEW c \in Comps, Resume(c) PROVE Stands(d)'
  BY <1>0, <1>8, <1>9, <1>11, EnterStands DEF Resume
<1>12. ASSUME NEW c \in Comps, Destroy(c) PROVE Stands(d)'
  <2>1. CASE state[c] = "Yielded"
    <3>1. terminateRequested'[c]
      BY <1>12, <2>1 DEF Destroy, Request
    <3> QED
      BY <1>0, <1>8, <1>9, <1>12, <2>1, <3>1, EnterStands DEF Destroy
  <2>2. CASE state[c] # "Yielded"
    <3>1. Delete(c) /\ UNCHANGED <<thread, noYield>> /\ ~Entered(c) /\ phase = "run"
      BY <1>12, <2>2 DEF Destroy, MayCall
    <3>2. CASE d # c
      BY <1>0, <3>1, <3>2, KeepStands DEF Delete
    <3>3. CASE d = c
      BY <1>0, <3>1, <3>3 DEF Delete, Stands, Entered, AtRest
    <3> QED
      BY <3>2, <3>3
  <2> QED
    BY <2>1, <2>2
<1>13. ASSUME NEW c \in Comps, Refused(c) PROVE Stands(d)'
  <2>1. CASE d # c
    BY <1>0, <1>13, <2>1, KeepStands DEF Refused, MayCall, ReportStatus, Reported
  <2>2. CASE d = c
    <3>1. ~uncaught'[c] /\ state'[c] = state[c] /\ UNCHANGED <<at, jobPending, level, noYield>>
      BY <1>0, <1>13, <2>2 DEF Refused, ReportStatus, Reported, LeftState, Stands, AtRest, States
    <3> QED
      BY <1>0, <1>13, <2>2, <3>1 DEF Refused, Stands, Entered, AtRest
  <2> QED
    BY <2>1, <2>2
<1>14. ASSUME NEW c \in Comps, TerminateRunning(c) PROVE Stands(d)'
  BY <1>0, <1>14, KeepStands DEF TerminateRunning, Executing
<1>15. ASSUME NEW c \in Comps, Terminate(c) PROVE Stands(d)'
  <2>1. CASE state[c] = "Yielded"
    <3>1. terminateRequested'[c]
      BY <1>15, <2>1 DEF Terminate, Request
    <3> QED
      BY <1>0, <1>8, <1>9, <1>15, <2>1, <3>1, EnterStands DEF Terminate
  <2>2. CASE state[c] # "Yielded"
    <3>1. /\ EndIdle(c) /\ UNCHANGED <<thread, jobPending, uncaught, noYield>>
          /\ ~Entered(c) /\ state[c] = "Idle" /\ at[c] # "none" /\ phase = "run"
      BY <1>15, <2>2 DEF Terminate, MayCall
    <3>2. CASE d # c
      BY <1>0, <3>1, <3>2, KeepStands DEF EndIdle
    <3>3. CASE d = c
      BY <1>0, <3>1, <3>3 DEF EndIdle, EndedPlace, Stands, Entered, AtRest
    <3> QED
      BY <3>2, <3>3
  <2> QED
    BY <2>1, <2>2
<1>16. ASSUME NEW c \in Comps, Executing(c), d # c, UNCHANGED <<running, level, after>>,
              at'[d] = at[d], state'[d] = state[d], jobPending'[d] = jobPending[d],
              uncaught'[d] = uncaught[d], noYield' \subseteq noYield
       PROVE  Stands(d)'
  BY <1>0, <1>16, KeepStands DEF Executing
<1>17. ASSUME NEW c \in Comps, Executing(c), UNCHANGED <<running, level, after>>
       PROVE  Entered(c) /\ Entered(c)' /\ running' = c /\ InJob(c)
  BY <1>8, <1>17 DEF Executing, Entered, Nesting, Stands
<1>18. ASSUME NEW c \in Comps, JobReturns(c) PROVE Stands(d)'
  <2>1. CASE d # c
    BY <1>16, <1>18, <2>1 DEF JobReturns
  <2>2. CASE d = c
    BY <1>17, <1>18, <2>2 DEF JobReturns, Executing, Stands, InJob
  <2> QED
    BY <2>1, <2>2
<1>19. ASSUME NEW c \in Comps, DrainReturns(c) PROVE Stands(d)'
  <2>1. CASE d # c
    BY <1>16, <1>19, <2>1 DEF DrainReturns
  <2>2. CASE d = c
    BY <1>17, <1>19, <2>2 DEF DrainReturns, Stands, InJob, Leaving
  <2> QED
    BY <2>1, <2>2
<1>20. ASSUME NEW c \in Comps, HostError(c) PROVE Stands(d)'
  <2>1. CASE d # c
    BY <1>16, <1>20, <2>1 DEF HostError, Unwind, UnwoundJob
  <2>2. CASE d = c
    BY <1>17, <1>20, <2>2 DEF HostError, Unwind, UnwoundJob, Stands, InJob, Leaving
  <2> QED
    BY <2>1, <2>2
<1>21. ASSUME NEW s \in Stacks, BeginNoYield(s) PROVE Stands(d)'
  <2>1. CASE d # s
    BY <1>0, <1>21, <2>1, KeepStands DEF BeginNoYield, Executing
  <2>2. CASE d = s
    <3>1. InJob(d) /\ Entered(d)
      BY <1>17, <1>21, <2>2 DEF BeginNoYield, Executing, Nesting, Stands
    <3> QED
      BY <1>21, <2>2, <3>1 DEF BeginNoYield, Executing, Stands, Entered, InJob
  <2> QED
    BY <2>1, <2>2
<1>22. ASSUME NEW s \in Stacks, EndNoYield(s) PROVE Stands(d)'
  BY <1>0, <1>22, KeepStands DEF EndNoYield, Executing
<1>23. CASE SetStackLimit \/ WatchdogArms \/ HostArms
  BY <1>6, <1>23 DEF SetStackLimit, WatchdogArms, HostArms
<1>24. ASSUME NEW c \in Comps, SliceSpent(c) PROVE Stands(d)'
  BY <1>6, <1>24 DEF SliceSpent
<1>25. CASE UNCHANGED vars
  BY <1>6, <1>25 DEF vars
<1> QED
  BY <1>1, <1>2, <1>3, <1>4, <1>5, <1>7, <1>10, <1>11, <1>12, <1>13, <1>14,
     <1>15, <1>18, <1>19, <1>20, <1>21, <1>22, <1>23, <1>24, <1>25 DEF Next

-----------------------------------------------------------------------------
(* What the watchdog knows, and the errors still to report.                *)

\* Nothing is watched initially.
LEMMA InitWatching == Init => Watching
  BY DEF Init, Watching

\* A step that neither leaves a fiber nor changes what is watched or armed.
LEMMA KeepWatching ==
  ASSUME Watching, UNCHANGED <<active, level>>,
         UNCHANGED running, phase' = "stopped" => phase = "stopped",
         running = Host => armed' \in {armed, "no", "host"}
  PROVE  Watching'
  BY DEF Watching, Entered

\* Entering a fiber before its slice is armed.
LEMMA EnterWatching ==
  ASSUME Typed, Watching, NEW c \in Comps, NEW then, EnterFiber(c, then),
         ~Entered(c), UNCHANGED active
  PROVE  Watching'
<1>1. running' # Host /\ phase' # "stopped"
  BY CompartmentAssumption DEF EnterFiber, Stacks
<1>2. \A d \in active : Entered(d) /\ d # c /\ d \in Comps
  BY DEF Watching, Typed, TypeOK
<1>3. \A d \in active : Entered(d)'
  BY <1>2 DEF EnterFiber, Entered, Typed, TypeOK
<1> QED
  BY <1>1, <1>3 DEF Watching

\* Every step keeps the watched slices among the entered ones.
LEMMA NextWatching == Typed /\ Nesting /\ Watching /\ [Next]_vars => Watching'
<1> SUFFICES ASSUME Typed, Nesting, Watching, [Next]_vars PROVE Watching'
  OBVIOUS
<1> USE CompartmentAssumption DEF Stacks, thread, timing, comp, history
<1>1. CASE StartSlice
  BY <1>1 DEF StartSlice, Watched, Watching, Nesting, Entered, Typed
<1>2. CASE SwitchIn
  <2>1. phase' # "stopped" /\ armed' = "no"
    BY <1>2 DEF SwitchIn, Unwind
  <2> QED
    BY <1>2, <2>1, KeepWatching DEF SwitchIn
<1>3. CASE StopSlice
  BY <1>3 DEF StopSlice, Unwatched, Watching, Entered
<1>4. CASE LeaveFiber
  <2>1. \A d \in active : Entered(d) /\ d # running /\ d \in Comps
    BY <1>4 DEF LeaveFiber, Watching, Typed, TypeOK
  <2>2. \A d \in active : Entered(d)'
    BY <1>4, <2>1 DEF LeaveFiber, Entered, Typed, TypeOK
  <2>3. armed' = "no" /\ phase' = "run" /\ UNCHANGED active
    BY <1>4 DEF LeaveFiber, Disarmed
  <2> QED
    BY <2>2, <2>3 DEF Watching
<1>5. CASE Poll
  <2>1. phase' # "stopped" /\ armed' = "no"
    BY <1>5 DEF Poll, Unwind
  <2> QED
    BY <1>5, <2>1, KeepWatching DEF Poll
<1>6. CASE SetStackLimit \/ HostArms
  BY <1>6, KeepWatching DEF SetStackLimit, HostArms
<1>7. CASE WatchdogArms
  <2>1. PICK c \in active : Entered(c)
    BY <1>7 DEF WatchdogArms, Watching
  <2>2. running # Host
    BY <2>1 DEF Nesting, Entered, Depth, Typed, TypeOK
  <2> QED
    BY <1>7, <2>2, KeepWatching DEF WatchdogArms
<1>8. ASSUME NEW c \in Comps, Create(c) \/ Refused(c) PROVE Watching'
  BY <1>8, KeepWatching DEF Create, Refused
<1>9. ASSUME NEW c \in Comps, Run(c) \/ Resume(c) PROVE Watching'
  BY <1>9, EnterWatching DEF Run, Resume
<1>10. ASSUME NEW c \in Comps, Destroy(c) PROVE Watching'
  <2>1. CASE state[c] = "Yielded"
    BY <1>10, <2>1, EnterWatching DEF Destroy
  <2>2. CASE state[c] # "Yielded"
    BY <1>10, <2>2, KeepWatching DEF Destroy
  <2> QED
    BY <2>1, <2>2
<1>11. ASSUME NEW c \in Comps, TerminateRunning(c) PROVE Watching'
  BY <1>11, KeepWatching DEF TerminateRunning, Executing
<1>12. ASSUME NEW c \in Comps, Terminate(c) PROVE Watching'
  <2>1. CASE state[c] = "Yielded"
    BY <1>12, <2>1, EnterWatching DEF Terminate
  <2>2. CASE state[c] # "Yielded"
    BY <1>12, <2>2, KeepWatching DEF Terminate, EndIdle
  <2> QED
    BY <2>1, <2>2
<1>13. ASSUME NEW c \in Comps, JobReturns(c) \/ DrainReturns(c) \/ HostError(c)
       PROVE  Watching'
  BY <1>13, KeepWatching DEF JobReturns, DrainReturns, HostError, Unwind
<1>14. ASSUME NEW c \in Comps, SliceSpent(c) PROVE Watching'
  BY <1>14, KeepWatching DEF SliceSpent
<1>15. ASSUME NEW s \in Stacks, BeginNoYield(s) \/ EndNoYield(s) PROVE Watching'
  BY <1>15, KeepWatching DEF BeginNoYield, EndNoYield
<1>16. CASE UNCHANGED vars
  BY <1>16, KeepWatching DEF vars
<1> QED
  BY <1>1, <1>2, <1>3, <1>4, <1>5, <1>6, <1>7, <1>8, <1>9, <1>10, <1>11,
     <1>12, <1>13, <1>14, <1>15, <1>16 DEF Next

\* No error is held initially.
LEMMA InitErrors == Init => Errors
<1> SUFFICES ASSUME Init PROVE Errors
  OBVIOUS
<1>1. \A c \in Comps : ~uncaught[c]
  BY Zenon DEF Init
<1> QED
  BY <1>1 DEF Init, Errors

\* A step after which no error is new, and no dead compartment alive.
LEMMA KeepErrors ==
  ASSUME Errors, UNCHANGED history,
         \A c \in Comps : uncaught'[c] => uncaught[c],
         \A c \in Comps : state[c] = "Terminated" => state'[c] = "Terminated"
  PROVE  Errors'
  BY DEF Errors, history

\* statusOf, with c in the state LeftState(c): what it reports, c threw.
LEMMA ReportErrors ==
  ASSUME Typed, Errors, NEW c \in Comps, ReportStatus(c)
  PROVE  Errors'
<1> USE DEF Typed, TypeOK
<1>1. ~uncaught'[c] /\ UNCHANGED threw
  BY DEF ReportStatus, Reported
<1>2. \A d \in Comps : d # c => uncaught'[d] = uncaught[d] /\ state'[d] = state[d]
  BY DEF ReportStatus, Reported
<1>3. LeftState(c) = "Idle" /\ uncaught[c] => c \in threw
  BY DEF Errors, LeftState
<1>4. told' \subseteq threw'
  BY <1>1, <1>3 DEF Errors, ReportStatus
<1> QED
  BY <1>1, <1>2, <1>4 DEF Errors

\* Freeing a compartment drops its error.
LEMMA DeleteErrors ==
  ASSUME Typed, Errors, NEW c \in Comps, Delete(c)
  PROVE  Errors'
<1> USE DEF Typed, TypeOK
<1>1. ~uncaught'[c] /\ threw' = threw \ {c} /\ told' = told \ {c}
  BY DEF Delete
<1>2. \A d \in Comps : d # c => uncaught'[d] = uncaught[d] /\ state'[d] = state[d]
  BY DEF Delete
<1> QED
  BY <1>1, <1>2 DEF Errors

\* Every step keeps that an error is the current job's.
LEMMA NextErrors == Typed /\ Standing /\ Errors /\ [Next]_vars => Errors'
<1> SUFFICES ASSUME Typed, Standing, Errors, [Next]_vars PROVE Errors'
  OBVIOUS
<1> USE CompartmentAssumption DEF Typed, TypeOK, Stacks, thread, timing, comp
<1>1. CASE StartSlice \/ StopSlice \/ SetStackLimit \/ WatchdogArms \/ HostArms
  BY <1>1, KeepErrors DEF StartSlice, StopSlice, SetStackLimit, WatchdogArms, HostArms
<1>2. CASE SwitchIn
  <2>1. UNCHANGED <<history, uncaught>>
    BY <1>2 DEF SwitchIn
  <2>2. \A d \in Comps : state'[d] \in {state[d], "Terminated"}
    BY <1>2 DEF SwitchIn, Unwind
  <2> QED
    BY <2>1, <2>2, KeepErrors
<1>3. CASE LeaveFiber
  <2> DEFINE c == running
  <2>1. c \in Comps
    BY <1>3 DEF LeaveFiber
  <2>2. CASE ReportStatus(c)
    BY <2>1, <2>2, ReportErrors
  <2>3. CASE /\ state' = [state EXCEPT ![c] = LeftState(c)]
             /\ UNCHANGED <<at, jobPending, uncaught, terminateRequested, history>>
    <3>1. \A d \in Comps : state[d] = "Terminated" => state'[d] = "Terminated"
      BY <2>1, <2>3 DEF LeftState
    <3> QED
      BY <2>3, <3>1, KeepErrors
  <2>4. CASE Delete(c)
    BY <2>1, <2>4, DeleteErrors
  <2> QED
    BY <1>3, <2>2, <2>3, <2>4 DEF LeaveFiber
<1>4. CASE Poll
  <2>1. UNCHANGED <<history, uncaught>>
    BY <1>4 DEF Poll
  <2>2. \A d \in Comps : state'[d] \in {state[d], "Terminated"}
    BY <1>4 DEF Poll, Unwind
  <2> QED
    BY <2>1, <2>2, KeepErrors
<1>5. ASSUME NEW c \in Comps, Create(c) PROVE Errors'
  BY <1>5, KeepErrors DEF Create
<1>6. ASSUME NEW c \in Comps, Run(c) PROVE Errors'
  <2>1. ~uncaught[c]
    BY <1>6 DEF Run, Standing, Stands, AtRest
  <2> QED
    BY <1>6, <2>1 DEF Run, Errors
<1>7. ASSUME NEW c \in Comps, Resume(c) PROVE Errors'
  BY <1>7, KeepErrors DEF Resume
<1>8. ASSUME NEW c \in Comps, Destroy(c) PROVE Errors'
  <2>1. CASE state[c] = "Yielded"
    BY <1>8, <2>1, KeepErrors DEF Destroy
  <2>2. CASE state[c] # "Yielded"
    BY <1>8, <2>2, DeleteErrors DEF Destroy
  <2> QED
    BY <2>1, <2>2
<1>9. ASSUME NEW c \in Comps, Refused(c) PROVE Errors'
  BY <1>9, ReportErrors DEF Refused
<1>10. ASSUME NEW c \in Comps, TerminateRunning(c) PROVE Errors'
  BY <1>10, KeepErrors DEF TerminateRunning
<1>11. ASSUME NEW c \in Comps, Terminate(c) PROVE Errors'
  <2>1. UNCHANGED <<history, uncaught>>
    BY <1>11 DEF Terminate
  <2>2. \A d \in Comps : state'[d] \in {state[d], "Terminated"}
    BY <1>11 DEF Terminate, EndIdle
  <2> QED
    BY <2>1, <2>2, KeepErrors
<1>12. ASSUME NEW c \in Comps, JobReturns(c) PROVE Errors'
  <2>1. CASE UNCHANGED <<uncaught, threw>>
    BY <1>12, <2>1, KeepErrors DEF JobReturns, history
  <2>2. CASE /\ uncaught' = [uncaught EXCEPT ![c] = TRUE]
             /\ threw' = threw \union {c}
    BY <1>12, <2>2 DEF JobReturns, Errors
  <2> QED
    BY <1>12, <2>1, <2>2 DEF JobReturns
<1>13. ASSUME NEW c \in Comps, DrainReturns(c) PROVE Errors'
  BY <1>13, KeepErrors DEF DrainReturns
<1>14. ASSUME NEW c \in Comps, HostError(c) PROVE Errors'
  <2>1. state'[c] = "Terminated" /\ UNCHANGED history
    BY <1>14 DEF HostError, Unwind
  <2>2. \A d \in Comps : d # c => uncaught'[d] = uncaught[d] /\ state'[d] = state[d]
    BY <1>14 DEF HostError, Unwind
  <2> QED
    BY <2>1, <2>2 DEF Errors, history
<1>15. ASSUME NEW c \in Comps, SliceSpent(c) PROVE Errors'
  BY <1>15, KeepErrors DEF SliceSpent
<1>16. ASSUME NEW s \in Stacks, BeginNoYield(s) \/ EndNoYield(s) PROVE Errors'
  BY <1>16, KeepErrors DEF BeginNoYield, EndNoYield
<1>17. CASE UNCHANGED vars
  BY <1>17, KeepErrors DEF vars
<1> QED
  BY <1>1, <1>2, <1>3, <1>4, <1>5, <1>6, <1>7, <1>8, <1>9, <1>10, <1>11,
     <1>12, <1>13, <1>14, <1>15, <1>16, <1>17 DEF Next

-----------------------------------------------------------------------------
(* The theorems.                                                           *)

\* The inductive invariant holds of every behaviour of compartment.cpp's
\* operations, the watchdog, the clock and the host's requests.
THEOREM InductiveInvariant == Spec => []IInv
<1>1. Init => IInv
  BY InitTyped, InitNesting, InitWatching, InitStanding, InitErrors DEF IInv
<1>2. IInv /\ [Next]_vars => IInv'
  BY NextTyped, NextNesting, NextWatching, NextStanding, NextErrors DEF IInv
<1> QED
  BY <1>1, <1>2, PTL DEF Spec

\* The host's own code is never interrupted on a compartment's behalf, and
\* no slice is watched while it runs.
THEOREM HostUndisturbed == Spec => []HostRunsUndisturbed
<1>1. IInv => HostRunsUndisturbed
  BY DEF IInv, HostRunsUndisturbed, Executing, Watching, Nesting, Typed, TypeOK,
         Entered, Depth
<1> QED
  BY <1>1, InductiveInvariant, PTL

\* The watchdog's thread never reaches a compartment that was destroyed.
THEOREM WatchdogSafe == Spec => []WatchdogSeesLiveSlices
<1>1. IInv => WatchdogSeesLiveSlices
  BY DEF IInv, WatchdogSeesLiveSlices, Watching, Nesting, Typed, TypeOK
<1> QED
  BY <1>1, InductiveInvariant, PTL

\* Between turns a compartment is Yielded exactly when a job is suspended in
\* it; the fatal error of rtCompartmentRun is out of reach of a host that
\* looks at the state.
THEOREM YieldedMeansSuspended == Spec => []YieldedIsSuspended
<1>1. IInv => YieldedIsSuspended
  BY DEF IInv, YieldedIsSuspended, Standing, Stands, AtRest, Typed, TypeOK, States
<1> QED
  BY <1>1, InductiveInvariant, PTL

\* A dead compartment's fiber has no frame of the app on it.
THEOREM DeadIsUnwound == Spec => []DeadHasNoFrames
<1>1. IInv => DeadHasNoFrames
  BY DEF IInv, DeadHasNoFrames, Standing, Stands, AtRest
<1> QED
  BY <1>1, InductiveInvariant, PTL

\* No yield crosses an open NoYieldScope, whichever stack opened it.
THEOREM ScopesHold == Spec => []NoYieldHolds
<1>1. ASSUME IInv PROVE NoYieldHolds
  <2>1. \A c \in noYield \ {Host} : Entered(c)
    BY <1>1 DEF IInv, Standing, Stands, AtRest, Typed, TypeOK, Stacks
  <2>2. ASSUME phase \in {"left", "stopped"}, jobPending[running] PROVE noYield = {}
    <3>1. running \in Comps /\ Entered(running)
      BY <1>1, <2>2 DEF IInv, Typed, TypeOK, Stacks, Nesting
    <3> QED
      BY <1>1, <2>2, <3>1 DEF IInv, Standing, Stands, Leaving
  <2> QED
    BY <2>1, <2>2 DEF NoYieldHolds
<1> QED
  BY <1>1, InductiveInvariant, PTL

\* The compartments below the running one are in the middle of a job.
THEOREM CallersInJobs == Spec => []CallersAreInJobs
<1>1. IInv => CallersAreInJobs
  BY DEF IInv, CallersAreInJobs, Standing, Stands, InJob
<1> QED
  BY <1>1, InductiveInvariant, PTL

\* A status reports no error but one the job it is about threw.
THEOREM ReportsAreReal == Spec => []NoPhantomError
<1>1. IInv => NoPhantomError
  BY DEF IInv, NoPhantomError, Errors
<1> QED
  BY <1>1, InductiveInvariant, PTL

\* A fiber that is freed had no job on it: rtDestroyCompartment's terminate
\* unwound the one that was suspended.
THEOREM FreedIsEmpty == Spec => FreedWithoutFrames
<1>1. ASSUME IInv, [Next]_vars
      PROVE  [\A c \in Comps : at[c] # "none" /\ at'[c] = "none" =>
                at[c] \in {"fresh", "loop", "finished"}]_vars
  <2> SUFFICES ASSUME Next, NEW d \in Comps, at[d] # "none", at'[d] = "none"
               PROVE  at[d] \in {"fresh", "loop", "finished"}
    BY <1>1
  <2> USE CompartmentAssumption DEF Typed, TypeOK, Stacks, thread, timing, comp, history
  <2>0. Typed /\ Nesting /\ Stands(d)
    BY <1>1 DEF IInv, Standing
  <2>1. CASE LeaveFiber
    <3>1. d = running /\ after[d] = "delete"
      BY <2>0, <2>1 DEF LeaveFiber, ReportStatus, Delete
    <3>2. Leaving(d)
      BY <2>0, <2>1, <3>1 DEF LeaveFiber, Stands, Nesting
    <3> QED
      BY <3>1, <3>2 DEF Leaving
  <2>2. ASSUME NEW c \in Comps, Destroy(c) PROVE at[d] \in {"fresh", "loop", "finished"}
    <3>1. d = c /\ state[c] # "Yielded" /\ ~Entered(c)
      BY <2>0, <2>2 DEF Destroy, Delete
    <3> QED
      BY <2>0, <3>1 DEF Stands, AtRest, States
  <2>3. CASE StartSlice \/ StopSlice \/ SetStackLimit \/ WatchdogArms \/ HostArms
    BY <2>3 DEF StartSlice, StopSlice, SetStackLimit, WatchdogArms, HostArms
  <2>4. CASE SwitchIn \/ Poll
    BY <2>0, <2>4 DEF SwitchIn, Poll, Unwind
  <2>5. ASSUME NEW c \in Comps,
               \/ Create(c) \/ Run(c) \/ Resume(c) \/ Refused(c) \/ TerminateRunning(c)
               \/ JobReturns(c) \/ DrainReturns(c) \/ HostError(c) \/ SliceSpent(c)
        PROVE  FALSE
    BY <2>0, <2>5 DEF Create, Run, Resume, Refused, ReportStatus, TerminateRunning,
                      JobReturns, DrainReturns, HostError, Unwind, SliceSpent
  <2>6. ASSUME NEW c \in Comps, Terminate(c) PROVE FALSE
    BY <2>0, <2>6 DEF Terminate, EndIdle, EndedPlace
  <2>7. ASSUME NEW s \in Stacks, BeginNoYield(s) \/ EndNoYield(s) PROVE FALSE
    BY <2>7 DEF BeginNoYield, EndNoYield
  <2> QED
    BY <2>1, <2>2, <2>3, <2>4, <2>5, <2>6, <2>7 DEF Next
<1> QED
  BY <1>1, InductiveInvariant, PTL DEF Spec, FreedWithoutFrames

-----------------------------------------------------------------------------
(* Compartments implement the contract of compartment.h.                   *)

life == [c \in Comps |-> Life(c)]

\* A step that no compartment's life notices.
LEMMA StutterStep ==
  ASSUME UNCHANGED <<running, prev, after>>, \A d \in Comps : Life(d)' = Life(d)
  PROVE  UNCHANGED Contract!vars
<1>1. life' = life
  BY DEF life
<1> QED
  BY <1>1 DEF Contract!vars, life

\* The life of c alone changes.
LEMMA LifeChanges ==
  ASSUME NEW c \in Comps, NEW l, Life(c)' = l,
         \A d \in Comps : d # c => Life(d)' = Life(d)
  PROVE  life' = [life EXCEPT ![c] = l]
  BY DEF life

\* enterFiber's first half is the contract's Enter.
LEMMA EnterStep ==
  ASSUME Typed, NEW c \in Comps, NEW then \in {"status", "nothing", "delete"},
         EnterFiber(c, then), ~Entered(c), at[c] # "none", UNCHANGED <<at, state>>,
         state[c] = "Yielded" \/ (state[c] = "Idle" /\ then = "status")
  PROVE  Contract!Next
<1> USE CompartmentAssumption DEF Typed, TypeOK, Stacks
<1>1. Life(c)' = "Running"
  BY DEF EnterFiber, Life, Entered, Depth
<1>2. \A d \in Comps : d # c => Life(d)' = Life(d)
  BY DEF EnterFiber, Life, Entered
<1>3. life' = [life EXCEPT ![c] = "Running"]
  BY <1>1, <1>2, LifeChanges
<1>4. life[c] = state[c]
  BY DEF life, Life
<1>5. Contract!Enter(c, then)
  BY <1>3, <1>4 DEF Contract!Enter, life, EnterFiber
<1> QED
  BY <1>5 DEF Contract!Next

\* Every step of a compartment is one the contract allows, or none.
LEMMA RefinementStep == IInv /\ [Next]_vars => [Contract!Next]_(Contract!vars)
<1> SUFFICES ASSUME IInv, [Next]_vars PROVE Contract!Next \/ UNCHANGED Contract!vars
  OBVIOUS
<1>0. Typed /\ Nesting /\ Standing
  BY DEF IInv
<1> USE CompartmentAssumption DEF Typed, TypeOK, Stacks, thread, timing, comp, history
<1>1. CASE StartSlice \/ StopSlice \/ SetStackLimit \/ WatchdogArms \/ HostArms
  BY <1>1, StutterStep
  DEF StartSlice, StopSlice, SetStackLimit, WatchdogArms, HostArms, Life, Entered
\* A step that touches only a compartment that is entered and stays entered.
<1>2. ASSUME NEW c \in Comps, Entered(c), UNCHANGED <<running, prev, after, level>>,
             at'[c] # "none",
             \A d \in Comps : d # c => at'[d] = at[d] /\ state'[d] = state[d]
      PROVE  UNCHANGED Contract!vars
  <2>1. \A d \in Comps : Life(d)' = Life(d)
    BY <1>0, <1>2 DEF Life, Entered, Nesting
  <2> QED
    BY <1>2, <2>1, StutterStep
<1>3. CASE SwitchIn
  <2>1. running \in Comps /\ Entered(running) /\ UNCHANGED <<running, prev, after, level>>
    BY <1>0, <1>3 DEF SwitchIn, Nesting
  <2>2. /\ at'[running] # "none"
        /\ \A d \in Comps : d # running => at'[d] = at[d] /\ state'[d] = state[d]
    BY <1>0, <1>3, <2>1 DEF SwitchIn, Unwind, Nesting
  <2> QED
    BY <1>2, <2>1, <2>2
<1>4. CASE Poll
  <2>1. CASE running = Host
    BY <1>0, <1>4, <2>1, StutterStep DEF Poll, Life, Entered
  <2>2. CASE running # Host
    <3>1. running \in Comps /\ Entered(running) /\ UNCHANGED <<running, prev, after, level>>
      BY <1>0, <1>4, <2>2 DEF Poll, Nesting
    <3>2. /\ at'[running] # "none"
          /\ \A d \in Comps : d # running => at'[d] = at[d] /\ state'[d] = state[d]
      BY <1>0, <1>4, <3>1 DEF Poll, Unwind, Nesting
    <3> QED
      BY <1>2, <3>1, <3>2
  <2> QED
    BY <2>1, <2>2
<1>5. CASE LeaveFiber
  <2>0. PICK c \in Comps : c = running
    BY <1>0, <1>5 DEF LeaveFiber
  <2>1. Entered(c) /\ Leaving(c) /\ ~Entered(c)' /\ at[c] # "none"
    BY <1>0, <1>5, <2>0 DEF LeaveFiber, Nesting, Standing, Stands, Entered
  <2>2. \A d \in Comps : d # c => Life(d)' = Life(d)
    BY <1>0, <1>5, <2>0 DEF LeaveFiber, ReportStatus, Delete, Life, Entered
  <2>3. Life(c)' \in Contract!Outcomes(after[c])
    <3>1. CASE after[c] = "status" /\ ReportStatus(c)
      <4>1. state'[c] = LeftState(c) /\ at'[c] = at[c]
        BY <1>0, <2>1, <3>1 DEF ReportStatus
      <4> QED
        BY <2>1, <3>1, <4>1 DEF Life, LeftState, Contract!Outcomes
    <3>2. CASE /\ after[c] = "nothing"
               /\ state' = [state EXCEPT ![c] = LeftState(c)]
               /\ UNCHANGED <<at, jobPending, uncaught, terminateRequested, history>>
      <4>1. state'[c] = "Terminated" /\ at'[c] = at[c]
        BY <1>0, <2>1, <3>2 DEF Leaving, LeftState
      <4> QED
        BY <2>1, <3>2, <4>1 DEF Life, Contract!Outcomes
    <3>3. CASE after[c] = "delete" /\ Delete(c)
      BY <1>0, <2>1, <3>3 DEF Delete, Life, Contract!Outcomes
    <3> QED
      BY <1>5, <2>0, <3>1, <3>2, <3>3 DEF LeaveFiber
  <2>4. life' = [life EXCEPT ![c] = Life(c)']
    BY <2>2, LifeChanges
  <2>5. Contract!Leave(c)
    BY <1>5, <2>0, <2>3, <2>4 DEF Contract!Leave, LeaveFiber, life
  <2> QED
    BY <2>5 DEF Contract!Next
<1>6. ASSUME NEW c \in Comps, Create(c) PROVE Contract!Next
  <2>1. Life(c) = "Absent" /\ Life(c)' = "Idle"
    BY <1>0, <1>6 DEF Create, Life, Entered, Nesting, Standing, Stands, AtRest, States
  <2>2. \A d \in Comps : d # c => Life(d)' = Life(d)
    BY <1>0, <1>6 DEF Create, Life, Entered
  <2>3. life' = [life EXCEPT ![c] = "Idle"]
    BY <2>1, <2>2, LifeChanges
  <2>4. Contract!Create(c)
    BY <1>6, <2>1, <2>3 DEF Contract!Create, Create, life
  <2> QED
    BY <2>4 DEF Contract!Next
<1>7. ASSUME NEW c \in Comps, Run(c) PROVE Contract!Next
  BY <1>0, <1>7, EnterStep DEF Run
<1>8. ASSUME NEW c \in Comps, state[c] = "Yielded", ~Entered(c) PROVE at[c] # "none"
  BY <1>0, <1>8 DEF Standing, Stands, AtRest
<1>9. ASSUME NEW c \in Comps, Resume(c) PROVE Contract!Next
  BY <1>0, <1>8, <1>9, EnterStep DEF Resume
<1>10. ASSUME NEW c \in Comps, Destroy(c) PROVE Contract!Next
  <2>1. CASE state[c] = "Yielded"
    BY <1>0, <1>10, <2>1, EnterStep DEF Destroy
  <2>2. CASE state[c] # "Yielded"
    <3>1. Life(c) \in {"Idle", "Terminated"} /\ Life(c)' = "Absent"
      BY <1>0, <1>10, <2>2 DEF Destroy, Delete, Life, Entered, States
    <3>2. \A d \in Comps : d # c => Life(d)' = Life(d)
      BY <1>0, <1>10, <2>2 DEF Destroy, Delete, Life, Entered
    <3>3. life' = [life EXCEPT ![c] = "Absent"]
      BY <3>1, <3>2, LifeChanges
    <3>4. Contract!Destroy(c)
      BY <1>10, <2>2, <3>1, <3>3 DEF Contract!Destroy, Destroy, life
    <3> QED
      BY <3>4 DEF Contract!Next
  <2> QED
    BY <2>1, <2>2
<1>11. ASSUME NEW c \in Comps, Refused(c) PROVE UNCHANGED Contract!vars
  <2>1. AtRest(c) /\ state[c] # "Yielded"
    BY <1>0, <1>11 DEF Refused, Standing, Stands
  <2>2. LeftState(c) = state[c]
    BY <1>0, <2>1 DEF LeftState, AtRest, States
  <2>3. UNCHANGED <<running, prev, after, level, at, state>>
    BY <1>0, <1>11, <2>2 DEF Refused, ReportStatus
  <2> QED
    BY <2>3, StutterStep DEF Life, Entered
<1>12. ASSUME NEW c \in Comps, Terminate(c) PROVE Contract!Next
  <2>1. CASE state[c] = "Yielded"
    BY <1>0, <1>12, <2>1, EnterStep DEF Terminate
  <2>2. CASE state[c] # "Yielded"
    <3>1. EndIdle(c) /\ UNCHANGED thread /\ state[c] = "Idle" /\ at[c] # "none" /\ ~Entered(c)
      BY <1>12, <2>2 DEF Terminate
    <3>2. Life(c) = "Idle" /\ Life(c)' = "Terminated"
      BY <1>0, <3>1 DEF EndIdle, EndedPlace, Life, Entered
    <3>3. \A d \in Comps : d # c => Life(d)' = Life(d)
      BY <1>0, <3>1 DEF EndIdle, Life, Entered
    <3>4. life' = [life EXCEPT ![c] = "Terminated"]
      BY <3>2, <3>3, LifeChanges
    <3>5. Contract!End(c)
      BY <3>1, <3>2, <3>4 DEF Contract!End, life
    <3> QED
      BY <3>5 DEF Contract!Next
  <2> QED
    BY <2>1, <2>2
<1>13. ASSUME NEW c \in Comps, TerminateRunning(c) \/ SliceSpent(c)
       PROVE  UNCHANGED Contract!vars
  BY <1>13, StutterStep DEF TerminateRunning, SliceSpent, Life, Entered
<1>14. ASSUME NEW c \in Comps, JobReturns(c) \/ DrainReturns(c) \/ HostError(c)
       PROVE  UNCHANGED Contract!vars
  <2>1. Entered(c) /\ UNCHANGED <<running, prev, after, level>>
    BY <1>0, <1>14 DEF JobReturns, DrainReturns, HostError, Executing, Nesting
  <2>2. /\ at'[c] # "none"
        /\ \A d \in Comps : d # c => at'[d] = at[d] /\ state'[d] = state[d]
    BY <1>0, <1>14 DEF JobReturns, DrainReturns, HostError, Unwind
  <2> QED
    BY <1>2, <2>1, <2>2
<1>15. ASSUME NEW s \in Stacks, BeginNoYield(s) \/ EndNoYield(s)
       PROVE  UNCHANGED Contract!vars
  BY <1>15, StutterStep DEF BeginNoYield, EndNoYield, Life, Entered
<1>16. CASE UNCHANGED vars
  BY <1>16, StutterStep DEF vars, Life, Entered
<1> QED
  BY <1>1, <1>3, <1>4, <1>5, <1>6, <1>7, <1>9, <1>10, <1>11, <1>12, <1>13,
     <1>14, <1>15, <1>16 DEF Next

\* compartment.cpp implements the contract compartment.h states.
THEOREM Refinement == Spec => ImplementsContract
<1>1. Init => Contract!Init
  BY DEF Init, Contract!Init, Life
<1> QED
  BY <1>1, RefinementStep, InductiveInvariant, PTL
  DEF Spec, ImplementsContract, Contract!Spec
=============================================================================
