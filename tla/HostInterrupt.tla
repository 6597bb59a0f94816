---------------------------- MODULE HostInterrupt ----------------------------
(***************************************************************************)
(* Host interrupts (src/src/runtime/host_interrupt.cpp): a host registers  *)
(* a function on the thread it wants to reach, any thread requests it, and *)
(* the thread runs it at its next interrupt poll.                          *)
(*                                                                         *)
(* A request is three accesses of another thread (read fn, store pending,  *)
(* store the armed limit into the thread's TLS block), a poll is several   *)
(* of the owning thread (put the real limit back, read pending, clear it,  *)
(* read fn, run it).  No fence stands between them, so the owning thread's *)
(* stores wait in its store buffer, as on x86-64: it reads its own stores  *)
(* at once, the other threads read memory, and the oldest store reaches    *)
(* memory in a step of its own.  A requester's stores are placed where     *)
(* they reach memory, in its program's order; it reads nothing after them. *)
(* `fn` says whether a function is registered: its address and argument    *)
(* are written and read by the owning thread alone.                        *)
(***************************************************************************)
EXTENDS Naturals, Sequences

CONSTANTS
  Requesters,   \* the requests that may be under way at a time
  MaxStores     \* how many stores the owning thread's buffer holds

ASSUME MaxStoresAssumption == MaxStores \in Nat \ {0}

VARIABLES
  alive,     \* the owning thread, and with it its TLS block, exists
  host,      \* t_host is not null
  fn,        \* memory: HostInterrupt::fn is not null
  pending,   \* memory: HostInterrupt::pending
  armed,     \* memory: the block's stack_limit is kInterruptArmed
  buffer,    \* the owning thread's stores that have not reached memory
  at,        \* where the owning thread is
  req,       \* where each requester is in rtRequestHostInterrupt
  dropped,   \* history: an arm went away and left its request pending
  owed,      \* history: a request of the registered function is unanswered
  void       \* history: requesters whose read of fn an unregister came after

vars == <<alive, host, fn, pending, armed, buffer, at, req, dropped, owed, void>>

\* fn = f, fn = nullptr, pending = false, stack_limit = the real limit.
Stores == {"fn", "nofn", "clear", "limit"}

Buffered(s) == \E i \in DOMAIN buffer : buffer[i] = s

\* fn, now f, once the first i stores of b have reached memory.
FnAfter(f, b, i) ==
  \/ f /\ \A j \in 1..i : b[j] # "nofn"
  \/ \E j \in 1..i : b[j] = "fn" /\ \A k \in j..i : b[k] # "nofn"

\* What the owning thread reads: its newest store, or else memory.
SeesFn == FnAfter(fn, buffer, Len(buffer))
SeesPending == pending /\ ~Buffered("clear")
SeesArmed == armed /\ ~Buffered("limit")

\* The thread is in a poll that has yet to look at pending, or found a request.
Looking == at \in {"polled", "service", "room"}

TypeOK ==
  /\ alive \in BOOLEAN /\ host \in BOOLEAN /\ fn \in BOOLEAN
  /\ pending \in BOOLEAN /\ armed \in BOOLEAN
  /\ buffer \in Seq(Stores) /\ Len(buffer) <= MaxStores
  /\ at \in {"script", "unregister", "polled", "service", "room", "taken",
             "called", "inside"}
  /\ req \in [Requesters -> {"idle", "loaded", "stored"}]
  /\ dropped \in BOOLEAN /\ owed \in BOOLEAN /\ void \subseteq Requesters
  /\ at = "unregister" => ~SeesFn

Init ==
  /\ alive = TRUE /\ host = FALSE
  /\ fn = FALSE /\ pending = FALSE /\ armed = FALSE
  /\ buffer = <<>>
  /\ at = "script"
  /\ req = [r \in Requesters |-> "idle"]
  /\ dropped = FALSE /\ owed = FALSE /\ void = {}

-----------------------------------------------------------------------------
(* The owning thread.                                                      *)

\* A store waits for room in the buffer.
Store(s) ==
  /\ Len(buffer) < MaxStores
  /\ buffer' = Append(buffer, s)

\* The oldest store reaches memory.  The real limit, when it reaches memory
\* over an arm made since the thread last looked at pending, takes the arm of
\* a pending request away.
Drain ==
  /\ buffer # <<>>
  /\ buffer' = Tail(buffer)
  /\ fn' = IF Head(buffer) \in {"fn", "nofn"} THEN Head(buffer) = "fn" ELSE fn
  /\ pending' = (pending /\ Head(buffer) # "clear")
  /\ armed' = (armed /\ Head(buffer) # "limit")
  /\ dropped' = (dropped \/ (Head(buffer) = "limit" /\ armed /\ SeesPending
                                /\ ~Looking))
  /\ UNCHANGED <<alive, host, at, req, owed, void>>

Register ==
  /\ alive /\ at = "script"
  /\ Store("fn")
  /\ host' = TRUE
  /\ UNCHANGED <<alive, fn, pending, armed, at, req, dropped, owed, void>>

\* rtUnregisterHostInterrupt: a null function, then no request.
Unregister_PendingFirst ==
  /\ alive /\ host
  /\ \/ /\ at = "script"
        /\ Store("clear")
        /\ at' = "unregister"
        /\ owed' = FALSE /\ void' = Requesters
     \/ /\ at = "unregister"
        /\ Store("nofn")
        /\ at' = "script"
        /\ UNCHANGED <<owed, void>>
  /\ UNCHANGED <<alive, host, fn, pending, armed, req, dropped>>
Unregister ==
  /\ alive /\ host
  /\ \/ /\ at = "script"
        /\ Store("nofn")
        /\ at' = "unregister"
        /\ owed' = FALSE /\ void' = Requesters
     \/ /\ at = "unregister"
        /\ Store("clear")
        /\ at' = "script"
        /\ UNCHANGED <<owed, void>>
  /\ UNCHANGED <<alive, host, fn, pending, armed, req, dropped>>

\* bronze_interrupt_poll, or an armed bronze_stack_overflow: the store of the
\* real limit goes before the look at the request, and may reach memory after.
Poll ==
  /\ alive
  /\ \/ /\ at = "script" /\ SeesArmed
        /\ at' = "polled"
        /\ UNCHANGED buffer
     \/ /\ at = "polled"
        /\ Store("limit")
        /\ at' = "service"
  /\ UNCHANGED <<alive, host, fn, pending, armed, req, dropped, owed, void>>

\* rtServiceHostInterrupt.
FindsNothing ==
  /\ at = "service" /\ ~SeesPending
  /\ at' = "script"
  /\ UNCHANGED <<buffer, dropped, owed>>

\* Short of stack: left pending.
IsShort_Clears ==
  /\ at = "service" /\ SeesPending
  /\ Store("clear")
  /\ at' = "script"
  /\ dropped' = TRUE
  /\ UNCHANGED owed
IsShort ==
  /\ at = "service" /\ SeesPending
  /\ at' = "script"
  /\ dropped' = TRUE
  /\ UNCHANGED <<buffer, owed>>

HasRoom ==
  /\ at = "service" /\ SeesPending
  /\ at' = "room"
  /\ UNCHANGED <<buffer, dropped, owed>>

Takes ==
  /\ at = "room"
  /\ Store("clear")
  /\ at' = "taken"
  /\ UNCHANGED <<dropped, owed>>

Runs ==
  /\ at = "taken"
  /\ at' = IF SeesFn THEN "called" ELSE "script"
  /\ owed' = (owed /\ SeesFn)
  /\ UNCHANGED <<buffer, dropped>>

\* The host's function, which takes a lock or enters the system before it
\* looks at what it was called for: the stores before it have reached memory.
FunctionLooks ==
  /\ at = "called" /\ buffer = <<>>
  /\ at' = "inside"
  /\ owed' = FALSE
  /\ UNCHANGED <<buffer, dropped>>

Returns_ThenClears ==
  /\ at = "inside"
  /\ Store("clear")
  /\ at' = "script"
  /\ UNCHANGED <<dropped, owed>>
Returns ==
  /\ at = "inside"
  /\ at' = "script"
  /\ UNCHANGED <<buffer, dropped, owed>>

Service ==
  /\ alive
  /\ \/ FindsNothing \/ IsShort \/ HasRoom \/ Takes \/ Runs
     \/ FunctionLooks \/ Returns
  /\ UNCHANGED <<alive, host, fn, pending, armed, req, void>>

\* A poll inside the function (t_inHost), a fiber switch, a new limit and the
\* rtDisarmInterrupt of an enterFiber (compartment.cpp) put the real limit
\* back, armed or not, and leave the request alone.
Disarm ==
  /\ alive /\ at \in {"script", "inside"}
  /\ Store("limit")
  /\ UNCHANGED <<alive, host, fn, pending, armed, at, req, dropped, owed, void>>

\* The thread ends, having unregistered its function.
Exit ==
  /\ alive /\ at = "script" /\ buffer = <<>> /\ ~fn
  /\ alive' = FALSE
  /\ UNCHANGED <<host, fn, pending, armed, buffer, at, req, dropped, owed, void>>

-----------------------------------------------------------------------------
(* The other threads.                                                      *)

LoadsFn(r) ==
  /\ req[r] = "idle" /\ fn
  /\ req' = [req EXCEPT ![r] = "loaded"]
  /\ void' = IF Buffered("nofn") THEN void \union {r} ELSE void \ {r}
  /\ UNCHANGED <<pending, armed, dropped, owed>>

StoresPending(r) ==
  /\ req[r] = "loaded"
  /\ pending' = TRUE
  /\ owed' = (owed \/ r \notin void)
  /\ req' = [req EXCEPT ![r] = "stored"]
  /\ UNCHANGED <<armed, dropped, void>>

Arms(r) ==
  /\ req[r] = "stored"
  /\ armed' = TRUE
  /\ dropped' = FALSE
  /\ req' = [req EXCEPT ![r] = "idle"]
  /\ UNCHANGED <<pending, owed, void>>

\* rtRequestHostInterrupt.
Request_ArmsFirst(r) ==
  /\ \/ LoadsFn(r)
     \/ /\ req[r] = "loaded"
        /\ armed' = TRUE
        /\ dropped' = FALSE
        /\ req' = [req EXCEPT ![r] = "stored"]
        /\ UNCHANGED <<pending, owed, void>>
     \/ /\ req[r] = "stored"
        /\ pending' = TRUE
        /\ owed' = (owed \/ r \notin void)
        /\ req' = [req EXCEPT ![r] = "idle"]
        /\ UNCHANGED <<armed, dropped, void>>
  /\ UNCHANGED <<alive, host, fn, buffer, at>>
Request(r) ==
  /\ LoadsFn(r) \/ StoresPending(r) \/ Arms(r)
  /\ UNCHANGED <<alive, host, fn, buffer, at>>

\* The compartments' watchdog arms the same word, and only that of a thread
\* that runs a slice.
WatchdogArms ==
  /\ alive
  /\ armed' = TRUE
  /\ dropped' = FALSE
  /\ UNCHANGED <<alive, host, fn, pending, buffer, at, req, owed, void>>

Next ==
  \/ Drain \/ Register \/ Unregister \/ Poll \/ Service \/ Disarm \/ Exit
  \/ WatchdogArms
  \/ \E r \in Requesters : Request(r)

Spec == Init /\ [][Next]_vars

\* Stores reach memory, script polls, what a poll began it ends, a function
\* the host registered returns, a poll is not short of stack for ever, and a
\* thread inside rtRequestHostInterrupt goes on.
FairSpec ==
  /\ Spec
  /\ WF_vars(Drain)
  /\ WF_vars(Poll) /\ WF_vars(Service) /\ WF_vars(Unregister /\ at = "unregister")
  /\ SF_vars(HasRoom /\ Service)
  /\ \A r \in Requesters : WF_vars(req[r] # "idle" /\ Request(r))

\* And a thread that is armed over and over polls while it is, and in the end
\* only polls: no more blind disarms, and its function stays registered.
StrongFairSpec ==
  FairSpec /\ SF_vars(Poll) /\ <>[][~Disarm /\ ~Register /\ ~Unregister]_vars

-----------------------------------------------------------------------------

\* A pending request whose arm the thread has not taken away is on its way:
\* the limit is armed, or a poll is about to take it, or the requester
\* that stored it has yet to arm.  With the arm gone, a poll found too little
\* stack or a store of the real limit reached memory that no look at pending
\* follows: a blind disarm, or a poll's own, left in the store buffer until
\* after its look.
NoRequestForgotten ==
  alive /\ SeesPending /\ ~dropped =>
    armed \/ Looking \/ \E r \in Requesters : req[r] = "stored"

\* Coalescing loses nothing: a request of the registered function that no run
\* of it has followed is still pending, or the run is about to begin, even
\* when it was made while the function ran, or while the store that clears
\* pending was on its way to memory.
OwedIsPending == owed => pending \/ at \in {"taken", "called"}

\* A pending request is taken by a poll, unless its arm is taken away, the
\* function is unregistered or the thread ends.
RequestServed ==
  (SeesPending /\ ~dropped) ~> (~SeesPending \/ dropped \/ ~SeesFn \/ ~alive)

\* A request whose arm is gone is not gone with it: a thread that something
\* goes on making poll runs the function, or unregisters it.
LaterPollTakesIt == []<>(at = "service") => (owed ~> ~owed)

-----------------------------------------------------------------------------
(* What host_interrupt.h says and the code does not do.                    *)

\* "the request stays pending and the next poll with room takes it": a
\* request made of a thread that goes on polling is taken.
PendingIsTaken == (SeesPending /\ SeesFn) ~> (~SeesPending \/ ~SeesFn)

\* "a request racing the thread's exit ... finds it inert": nothing is stored
\* into the TLS block of a thread that has ended.
DeadThreadNotArmed == [][~alive => armed' = armed]_vars
=============================================================================
