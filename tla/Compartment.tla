----------------------------- MODULE Compartment -----------------------------
(***************************************************************************)
(* Compartments: realms whose jobs run on fibers of their own, in time     *)
(* slices (src/src/runtime/compartment.cpp, with the interrupt word of     *)
(* src/src/runtime/tls_block.cpp and the poll of exception.cpp).           *)
(*                                                                         *)
(* One thread runs the host and every compartment.  `running` is           *)
(* t_running, `prev[c]` the local of the enterFiber activation that        *)
(* entered c, `level[c]` how deep that activation is nested (0: none).     *)
(* `phase` is where that thread stands inside enterFiber: running script   *)
(* or native code on the running stack ("run"), before the watchdog knows  *)
(* the slice ("start"), before the switch onto the fiber ("switch"), back  *)
(* from the fiber ("left") and after the watchdog has forgotten the slice  *)
(* ("stopped").  The watchdog, the clock and host-interrupt requests of    *)
(* other threads interleave with every one of these points.                *)
(*                                                                         *)
(* Left out: the overrun counters, the reason and the site of a termination*)
(* (reports); what a job computes; the microtasks of the drain             *)
(* (Promise.tla).                                                          *)
(***************************************************************************)
EXTENDS Naturals

CONSTANTS
  Comps,       \* the compartments a host may create
  Host,        \* the host's own stack, t_running = nullptr
  NestFrom,    \* bound: stacks whose native code enters another compartment
  ScopeStacks  \* bound: stacks whose native code opens a NoYieldScope

Stacks == Comps \union {Host}

ASSUME CompartmentAssumption ==
  /\ Host \notin Comps
  /\ NestFrom \subseteq Stacks
  /\ ScopeStacks \subseteq Stacks

VARIABLES
  running, prev, level, phase, after,      \* the thread
  armed,                                   \* the block's stack_limit word
  active, spent,                           \* the watchdog and the clock
  at, state, jobPending, uncaught,         \* each compartment
  terminateRequested,
  noYield,                                 \* stacks with an open NoYieldScope
  threw, told                              \* history: errors thrown, reported

thread   == <<running, prev, level, phase, after>>
timing   == <<active, spent>>
comp     == <<at, state, jobPending, uncaught, terminateRequested>>
history  == <<threw, told>>
vars     == <<thread, armed, timing, comp, noYield, history>>

\* Where the fiber of a compartment stands: no compartment, a fiber never
\* entered, fiberMain's loop between jobs, inside the job, inside the drain
\* after it, returned.  A suspended fiber stands in the poll of its "job" or
\* "drain", or in the "loop".
Places == {"none", "fresh", "loop", "job", "drain", "finished"}
States == {"Idle", "Yielded", "Terminated"}
Phases == {"run", "start", "switch", "left", "stopped"}
\* Who stored kInterruptArmed over the limit ("no": the real limit is there).
Arms   == {"no", "slice", "terminate", "host"}

TypeOK ==
  /\ running \in Stacks
  /\ prev \in [Comps -> Stacks]
  /\ level \in [Comps -> Nat]
  /\ phase \in Phases
  /\ after \in [Comps -> {"status", "nothing", "delete"}]
  /\ armed \in Arms
  /\ active \subseteq Comps
  /\ spent \subseteq Comps
  /\ at \in [Comps -> Places]
  /\ state \in [Comps -> States]
  /\ jobPending \in [Comps -> BOOLEAN]
  /\ uncaught \in [Comps -> BOOLEAN]
  /\ terminateRequested \in [Comps -> BOOLEAN]
  /\ noYield \subseteq Stacks
  /\ threw \subseteq Comps
  /\ told \subseteq Comps

Init ==
  /\ running = Host
  /\ prev = [c \in Comps |-> Host]
  /\ level = [c \in Comps |-> 0]
  /\ phase = "run"
  /\ after = [c \in Comps |-> "status"]
  /\ armed = "no"
  /\ active = {}
  /\ spent = {}
  /\ at = [c \in Comps |-> "none"]
  /\ state = [c \in Comps |-> "Idle"]
  /\ jobPending = [c \in Comps |-> FALSE]
  /\ uncaught = [c \in Comps |-> FALSE]
  /\ terminateRequested = [c \in Comps |-> FALSE]
  /\ noYield = {}
  /\ threw = {}
  /\ told = {}

-----------------------------------------------------------------------------
(* What the running stack may do.                                          *)

\* How many enterFiber activations are on the thread's stacks.
Depth == IF running = Host THEN 0 ELSE level[running]

\* An enterFiber activation of c is on the thread.
Entered(c) == level[c] > 0

\* Code runs on stack s: the host's, or script of a compartment's job or
\* drain and the natives it calls.
Executing(s) == phase = "run" /\ running = s

-----------------------------------------------------------------------------
(* enterFiber: the compartment becomes the running one, the watchdog is    *)
(* told its slice, the thread switches onto the fiber; once the fiber      *)
(* suspends or ends, the watchdog forgets the slice, the caller's stack is *)
(* the running one again and the real limit is put back.                   *)

\* The call, up to `t_running = c`.  then: what the caller does afterwards.
EnterFiber(c, then) ==
  /\ running' = c
  /\ prev' = [prev EXCEPT ![c] = running]
  /\ level' = [level EXCEPT ![c] = Depth + 1]
  /\ after' = [after EXCEPT ![c] = then]
  /\ phase' = "start"

\* The slices the watchdog knows, after start(c) and after stop(c).
Watched_NotOnResume(c) == IF state[c] = "Yielded" THEN active ELSE active \union {c}
Watched_Caller(c) == active \union {prev[c]}
Watched(c) == active \union {c}
Unwatched_Forgotten(c) == active
Unwatched(c) == active \ {c}

\* watchdog().start(c): a fresh deadline, and the slice is watched.
StartSlice ==
  /\ phase = "start"
  /\ active' = Watched(running)
  /\ spent' = spent \ {running}
  /\ phase' = "switch"
  /\ UNCHANGED <<running, prev, level, after, armed, comp, noYield, history>>

\* rtServiceInterrupt throws the TerminationException: as the poll starts,
\* and again when a fiber suspended in it is resumed.
ThrowsAtPoll_UnlessScoped(c) == terminateRequested[c] /\ noYield = {}
ThrowsAtPoll(c) == terminateRequested[c]
ThrowsOnResume(c) == terminateRequested[c]

\* A TerminationException unwinds the fiber to fiberMain, which ends it; the
\* frames it leaves take their NoYieldScopes with them.
UnwoundJob_Kept(c) == jobPending
UnwoundJob(c) == [jobPending EXCEPT ![c] = FALSE]
Unwind(c) ==
  /\ state' = [state EXCEPT ![c] = "Terminated"]
  /\ jobPending' = UnwoundJob(c)
  /\ at' = [at EXCEPT ![c] = "finished"]
  /\ noYield' = noYield \ {c}
  /\ phase' = "left"

\* fiber->resume().  The switch restores the entered stack's own limit.  A
\* fiber suspended at a poll goes on, or unwinds when termination was asked
\* for meanwhile; one in fiberMain's loop takes the pending job.
SwitchIn ==
  LET c == running IN
  /\ phase = "switch"
  /\ armed' = "no"
  /\ \/ /\ at[c] \in {"job", "drain"}
        /\ ThrowsOnResume(c)
        /\ Unwind(c)
        /\ UNCHANGED <<uncaught, terminateRequested>>
     \/ /\ at[c] \in {"job", "drain"}
        /\ ~ThrowsOnResume(c)
        /\ phase' = "run"
        /\ UNCHANGED <<comp, noYield>>
     \/ /\ at[c] \in {"fresh", "loop"}
        /\ at' = [at EXCEPT ![c] = "job"]
        /\ phase' = "run"
        /\ UNCHANGED <<state, jobPending, uncaught, terminateRequested, noYield>>
  /\ UNCHANGED <<running, prev, level, after, timing, history>>

\* watchdog().stop(c), on the caller's stack.
StopSlice ==
  /\ phase = "left"
  /\ active' = Unwatched(running)
  /\ phase' = "stopped"
  /\ UNCHANGED <<running, prev, level, after, armed, spent, comp, noYield, history>>

\* The word after rtDisarmInterrupt.
Disarmed_Forgotten == armed
Disarmed == "no"

\* The state enterFiber leaves a compartment in that was not terminated.
LeftState_Overwrites(c) == IF jobPending[c] THEN "Yielded" ELSE "Idle"
LeftState(c) ==
  IF state[c] = "Terminated" THEN "Terminated"
  ELSE IF jobPending[c] THEN "Yielded" ELSE "Idle"

\* statusOf: an uncaught error is handed out with an Idle status, and cleared
\* whatever the status is.
Reported_Kept(c) == uncaught
Reported(c) == [uncaught EXCEPT ![c] = FALSE]
ReportStatus(c) ==
  /\ told' = IF LeftState(c) = "Idle" /\ uncaught[c] THEN told \union {c} ELSE told
  /\ uncaught' = Reported(c)
  /\ state' = [state EXCEPT ![c] = LeftState(c)]
  /\ UNCHANGED <<at, jobPending, terminateRequested, threw>>

\* `delete c`: nothing of the compartment is left (a later one starts afresh).
Delete(c) ==
  /\ at' = [at EXCEPT ![c] = "none"]
  /\ state' = [state EXCEPT ![c] = "Idle"]
  /\ jobPending' = [jobPending EXCEPT ![c] = FALSE]
  /\ uncaught' = [uncaught EXCEPT ![c] = FALSE]
  /\ terminateRequested' = [terminateRequested EXCEPT ![c] = FALSE]
  /\ threw' = threw \ {c}
  /\ told' = told \ {c}

\* The rest of enterFiber, and what its caller does with the compartment.
LeaveFiber ==
  LET c == running IN
  /\ phase = "stopped"
  /\ running' = prev[c]
  /\ level' = [level EXCEPT ![c] = 0]
  /\ armed' = Disarmed
  /\ phase' = "run"
  /\ \/ after[c] = "status" /\ ReportStatus(c)
     \/ /\ after[c] = "nothing"
        /\ state' = [state EXCEPT ![c] = LeftState(c)]
        /\ UNCHANGED <<at, jobPending, uncaught, terminateRequested, history>>
     \/ after[c] = "delete" /\ Delete(c)
  /\ UNCHANGED <<prev, after, timing, noYield>>

-----------------------------------------------------------------------------
(* The host's calls.  A native a job called may make them too: a nested    *)
(* enterFiber is one from a stack of NestFrom.  The contract of            *)
(* compartment.h is a precondition: no call on a compartment that an       *)
(* enterFiber activation already has on the thread, except terminating the *)
(* running one from inside its own job.                                    *)

MayCall == phase = "run" /\ running \in NestFrom \union {Host}

Create(c) ==
  /\ MayCall
  /\ at[c] = "none"
  /\ at' = [at EXCEPT ![c] = "fresh"]
  /\ UNCHANGED <<thread, armed, timing, state, jobPending, uncaught,
                 terminateRequested, noYield, history>>

\* rtCompartmentRun of an Idle compartment.
Run(c) ==
  /\ MayCall
  /\ at[c] # "none" /\ ~Entered(c)
  /\ state[c] = "Idle" /\ ~jobPending[c]
  /\ jobPending' = [jobPending EXCEPT ![c] = TRUE]
  /\ threw' = threw \ {c}
  /\ told' = told \ {c}
  /\ EnterFiber(c, "status")
  /\ UNCHANGED <<armed, timing, at, state, uncaught, terminateRequested, noYield>>

\* rtCompartmentResume.
Resume(c) ==
  /\ MayCall
  /\ ~Entered(c)
  /\ state[c] = "Yielded"
  /\ EnterFiber(c, "status")
  /\ UNCHANGED <<armed, timing, comp, noYield, history>>

\* rtCompartmentRun of a dead one, rtCompartmentResume of one that is not
\* Yielded: only the status is handed out.
Refused(c) ==
  /\ MayCall
  /\ at[c] # "none" /\ ~Entered(c)
  /\ state[c] # "Yielded"
  /\ ReportStatus(c)
  /\ UNCHANGED <<thread, armed, timing, noYield>>

\* The mark a terminate leaves (its reason, a report, is left out).
Request(c) == terminateRequested' = [terminateRequested EXCEPT ![c] = TRUE]

\* rtCompartmentTerminate from inside one of its own jobs: the next poll
\* throws.
TerminateRunning(c) ==
  /\ Executing(c)
  /\ Request(c)
  /\ armed' = "terminate"
  /\ UNCHANGED <<thread, timing, at, state, jobPending, uncaught, noYield, history>>

\* A fiber that never ran, or one in fiberMain's loop, which is resumed once
\* to return (the two switches put the real limit back).
EndedPlace_NotResumed(c) == at[c]
EndedPlace(c) == IF at[c] = "fresh" THEN "fresh" ELSE "finished"
EndIdle(c) ==
  /\ at' = [at EXCEPT ![c] = EndedPlace(c)]
  /\ state' = [state EXCEPT ![c] = "Terminated"]
  /\ armed' = IF at[c] = "fresh" THEN armed ELSE "no"

\* rtCompartmentTerminate from another stack.
Terminate(c) ==
  /\ MayCall
  /\ at[c] # "none" /\ ~Entered(c)
  /\ \/ /\ state[c] = "Idle"
        /\ EndIdle(c)
        /\ Request(c)
        /\ UNCHANGED <<thread, jobPending, uncaught>>
     \/ /\ state[c] = "Yielded"
        /\ Request(c)
        /\ EnterFiber(c, "nothing")
        /\ UNCHANGED <<armed, at, state, jobPending, uncaught>>
  /\ UNCHANGED <<timing, noYield, history>>

Destroy_NotTerminated(c) ==
  /\ MayCall
  /\ at[c] # "none" /\ ~Entered(c)
  /\ Delete(c)
  /\ UNCHANGED <<armed, thread, timing, noYield>>
\* rtDestroyCompartment: terminate, then delete.
Destroy(c) ==
  /\ MayCall
  /\ at[c] # "none" /\ ~Entered(c)
  /\ \/ /\ state[c] = "Yielded"
        /\ Request(c)
        /\ EnterFiber(c, "delete")
        /\ UNCHANGED <<armed, at, state, jobPending, uncaught, history>>
     \/ /\ state[c] # "Yielded"
        /\ Delete(c)
        /\ armed' = IF at[c] = "loop" THEN "no" ELSE armed
        /\ UNCHANGED thread
  /\ UNCHANGED <<timing, noYield>>

BeginNoYield(s) ==
  /\ Executing(s) /\ s \in ScopeStacks \ noYield
  /\ noYield' = noYield \union {s}
  /\ UNCHANGED <<thread, armed, timing, comp, history>>

EndNoYield(s) ==
  /\ Executing(s) /\ s \in noYield
  /\ noYield' = noYield \ {s}
  /\ UNCHANGED <<thread, armed, timing, comp, history>>

-----------------------------------------------------------------------------
(* The fiber: the job ends, normally or with an uncaught error, and its    *)
(* microtasks drain; the drain ends and the fiber suspends; an exception   *)
(* of the host's own ends the compartment.                                 *)

JobReturns_NotPending(c) ==
  /\ Executing(c) /\ at[c] = "job" /\ c \notin noYield
  /\ at' = [at EXCEPT ![c] = "drain"]
  /\ jobPending' = [jobPending EXCEPT ![c] = FALSE]
  /\ UNCHANGED <<thread, armed, timing, state, uncaught, terminateRequested,
                 noYield, history>>
JobReturns(c) ==
  /\ Executing(c) /\ at[c] = "job" /\ c \notin noYield
  /\ at' = [at EXCEPT ![c] = "drain"]
  /\ \/ UNCHANGED <<uncaught, threw>>
     \/ /\ uncaught' = [uncaught EXCEPT ![c] = TRUE]
        /\ threw' = threw \union {c}
  /\ UNCHANGED <<thread, armed, timing, state, jobPending, terminateRequested,
                 noYield, told>>

DrainReturns(c) ==
  /\ Executing(c) /\ at[c] = "drain" /\ c \notin noYield
  /\ at' = [at EXCEPT ![c] = "loop"]
  /\ jobPending' = [jobPending EXCEPT ![c] = FALSE]
  /\ armed' = "no"
  /\ phase' = "left"
  /\ UNCHANGED <<running, prev, level, after, timing, state, uncaught,
                 terminateRequested, noYield, history>>

HostError(c) ==
  /\ Executing(c)
  /\ Unwind(c)
  /\ uncaught' = [uncaught EXCEPT ![c] = TRUE]
  /\ armed' = "no"
  /\ UNCHANGED <<running, prev, level, after, timing, terminateRequested, history>>

\* A spent slice suspends the running fiber, unless a NoYieldScope is open
\* anywhere on the thread.
Yields_InScope(c) == c \in spent
Yields(c) == c \in spent /\ noYield = {}

\* bronze_interrupt_poll and rtServiceInterrupt: a loop backedge or function
\* entry found the word armed.  The real limit goes back first; the host's
\* own stack is never preempted.
Poll ==
  /\ phase = "run"
  /\ armed # "no"
  /\ armed' = "no"
  /\ LET c == running IN
     \/ /\ c = Host
        /\ UNCHANGED <<phase, comp, noYield>>
     \/ /\ c # Host /\ ThrowsAtPoll(c)
        /\ Unwind(c)
        /\ UNCHANGED <<uncaught, terminateRequested>>
     \/ /\ c # Host /\ ~ThrowsAtPoll(c)
        /\ phase' = IF Yields(c) THEN "left" ELSE "run"
        /\ UNCHANGED <<comp, noYield>>
  /\ UNCHANGED <<running, prev, level, after, timing, history>>

\* bronze_tls_enter on a stack whose limit it must set: the store drops
\* whatever was armed.
SetStackLimit ==
  /\ phase = "run" /\ armed # "no"
  /\ armed' = "no"
  /\ UNCHANGED <<thread, timing, comp, noYield, history>>

-----------------------------------------------------------------------------
(* The other threads.                                                      *)

\* The deadline of a watched slice passes.
SliceSpent(c) ==
  /\ c \in active \ spent
  /\ spent' = spent \union {c}
  /\ UNCHANGED <<thread, armed, active, comp, noYield, history>>

\* A tick of the watchdog, under its mutex: the thread of a spent slice, and
\* again while the slice stays spent.
WatchdogArms_Once ==
  /\ active \intersect spent # {}
  /\ armed' = "slice"
  /\ active' = active \ spent
  /\ UNCHANGED <<thread, spent, comp, noYield, history>>
WatchdogArms ==
  /\ active \intersect spent # {}
  /\ armed' = "slice"
  /\ UNCHANGED <<thread, timing, comp, noYield, history>>

\* rtRequestHostInterrupt's arming store (host_interrupt.cpp), any thread.
HostArms ==
  /\ armed' = "host"
  /\ UNCHANGED <<thread, timing, comp, noYield, history>>

Next ==
  \/ StartSlice \/ SwitchIn \/ StopSlice \/ LeaveFiber
  \/ Poll \/ SetStackLimit \/ WatchdogArms \/ HostArms
  \/ \E c \in Comps :
       \/ Create(c) \/ Run(c) \/ Resume(c) \/ Destroy(c)
       \/ Refused(c) \/ TerminateRunning(c) \/ Terminate(c)
       \/ JobReturns(c) \/ DrainReturns(c) \/ HostError(c)
       \/ SliceSpent(c)
  \/ \E s \in Stacks : BeginNoYield(s) \/ EndNoYield(s)

Spec == Init /\ [][Next]_vars

\* A thread inside enterFiber goes on; the clock and the watchdog's thread
\* run; a job that never returns passes loop backedges and function entries
\* over and over, so one of them finds the word armed if it is armed again
\* and again.  A job need not return, a host need not call.
Fairness ==
  /\ WF_vars(StartSlice) /\ WF_vars(SwitchIn)
  /\ WF_vars(StopSlice) /\ WF_vars(LeaveFiber)
  /\ SF_vars(Poll) /\ WF_vars(WatchdogArms)
  /\ \A c \in Comps : WF_vars(SliceSpent(c))

FairSpec == Spec /\ Fairness

-----------------------------------------------------------------------------
(* Safety.                                                                 *)

\* The host's own code is never interrupted for a compartment: no slice is
\* watched while it runs, and whatever was armed for a slice, or by a
\* terminate inside a job, went away with enterFiber (its rtDisarmInterrupt
\* races the watchdog's last tick).
HostRunsUndisturbed ==
  Executing(Host) => active = {} /\ armed \notin {"slice", "terminate"}

\* The watchdog's thread only ever looks at compartments that exist and that
\* an enterFiber activation keeps alive: Watchdog::run dereferences them with
\* no reference of its own while the thread may destroy compartments.
WatchdogSeesLiveSlices ==
  \A c \in active : Entered(c) /\ at[c] # "none"

\* Between turns the state a host reads says where the fiber is: Yielded
\* exactly while a job is pending in it and suspended at a poll, so running a
\* job in an Idle one never reaches rtCompartmentRun's fatal error.
YieldedIsSuspended ==
  \A c \in Comps : ~Entered(c) =>
    /\ jobPending[c] <=> state[c] = "Yielded"
    /\ at[c] \in {"job", "drain"} <=> state[c] = "Yielded"

\* A dead compartment's fiber has returned, or never ran: no frame of the app
\* is left on it, whichever of the ways to die it took.
DeadHasNoFrames ==
  \A c \in Comps : ~Entered(c) /\ state[c] = "Terminated" =>
    at[c] \in {"fresh", "finished"}

\* No yield crosses a NoYieldScope, not even one open on another stack of the
\* thread: what is suspended holds no scope, and a fiber left with its job
\* pending was left with no scope open anywhere.
NoYieldHolds ==
  /\ \A c \in noYield \ {Host} : Entered(c)
  /\ phase \in {"left", "stopped"} /\ jobPending[running] => noYield = {}

\* The stacks below the running one are in the middle of a job: each called
\* the native that entered the next, and none was suspended or unwound from
\* under it.
CallersAreInJobs ==
  \A c \in Comps : Entered(c) /\ c # running =>
    at[c] \in {"job", "drain"} /\ jobPending[c] /\ state[c] # "Terminated"

\* An uncaught error is only reported for the job that threw it: one a yield,
\* a termination or an earlier job left behind never shows up later.
NoPhantomError == told \subseteq threw

\* A fiber whose compartment is destroyed has no job on it: terminating a
\* Yielded one unwinds it before the delete.
FreedWithoutFrames ==
  [][\A c \in Comps : at[c] # "none" /\ at'[c] = "none" =>
       at[c] \in {"fresh", "loop", "finished"}]_vars

-----------------------------------------------------------------------------
(* The contract of compartment.h, of which this is an implementation.      *)

Life(c) ==
  IF at[c] = "none" THEN "Absent" ELSE IF Entered(c) THEN "Running" ELSE state[c]

Contract == INSTANCE CompartmentContract WITH
  on <- running, caller <- prev, purpose <- after,
  life <- [c \in Comps |-> Life(c)]

\* Every step of the compartments is a step of the contract, or none: in
\* particular a terminated one never comes back and a nested enterFiber
\* always returns to the stack that called it.
ImplementsContract == Contract!Spec

-----------------------------------------------------------------------------
(* Liveness.                                                               *)

\* A job that never returns gives the thread back: its slice ends in a yield
\* unless a NoYieldScope holds it off.
RunawayYields ==
  \A c \in Comps : (running = c) ~> (running # c \/ noYield # {})

\* A compartment terminated from inside its own job leaves the thread, even
\* with a NoYieldScope open.
TerminateStopsJob ==
  \A c \in Comps : (running = c /\ terminateRequested[c]) ~> (running # c)

-----------------------------------------------------------------------------
(* What compartment.h says and the code does not do.                       *)

\* "The job threw and nothing caught it (the text ...), or "" when it did
\* not": by the time the host has seen the job end, it has been told that it
\* threw.
UncaughtIsReported ==
  \A c \in Comps :
    ~Entered(c) /\ at[c] = "loop" /\ state[c] = "Idle" /\ c \in threw => c \in told

\* "Afterwards the compartment is dead: every later job is refused": no job
\* starts in a compartment that was terminated.
TerminatedRunsNoJob ==
  [][\A c \in Comps : at[c] # "job" /\ at'[c] = "job" => ~terminateRequested[c]]_vars
=============================================================================
