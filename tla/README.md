# TLA+ models of bronze

bronze compiles TypeScript/JavaScript ahead of time and just in time, and runs
it on a runtime of its own (`src/src/runtime`) that other programs embed. This
directory models the parts of it in which several parties act on shared state:
the compartments and their watchdog, the host interrupts, the promises with
their microtask queue and async functions, async generators and the promise
combinators, the tables under maps and sets with the collector and the
iterators at work on them, and the compilation of programs through the on-disk
code cache. TLC checks the models on small instances; TLAPS proves every safety
property of the passing runs, the two refinements included, for every instance.
What is left to TLC alone is liveness.

## 1. Inventory

| Component | State | Operations | Interacts with | Hard behaviour |
|---|---|---|---|---|
| Compartments (`compartment.cpp`) | `t_running`, `t_noYield`, per compartment: fiber, state, `jobPending`, `uncaught`, `terminateRequested`, deadline | create, destroy, run, resume, terminate, begin/end no-yield | watchdog thread, interrupt word, microtask drain, realms | nesting, a tick racing the end of a slice, termination from inside, unwinding a suspended job |
| Interrupt word (`tls_block.cpp`, `exception.cpp`) | `stack_limit` of the TLS block, `g_stackLimit` per stack | arm, disarm, poll, restore on switch, `bronze_tls_enter` | everything that arms or polls | one word shared by the watchdog, hosts and terminations: arms overwrite and drop each other |
| Host interrupts (`host_interrupt.cpp`) | `fn`, `arg`, `pending`, `t_inHost` | register, unregister, request, service | interrupt word, any thread | request racing poll, unregister and thread exit |
| Promises (`promise.cpp`, `builtin_promise.cpp`) | state, result, reaction lists, `AlreadyResolved`, `IsHandled`, `Reported`; latch of a resolving pair | construct, resolve, reject, then/catch/finally, combinators | microtask queue, user code at every call | re-entrancy: getters, foreign thenables and hooks run inside a resolution |
| Microtask queue (`microtask.cpp`) | `g_queue`, `g_parked`, hook, per stack | enqueue, drain, park, unpark, report | promises, FinalizationRegistry, compartments | jobs enqueue jobs; hooks change the list being reported |
| Async functions (`builtin_async.cpp`, `coro.cpp`) | machine state, frame, promise | start, await, resume, complete | promises, brass coroutines | a resumption lost or doubled |
| Async generators (`builtin_async_generator.cpp`) | request queue, state, frame | next, throw, return, resume | promises, program code at every answer | requests made while the body runs, or from a getter in the middle of an answer |
| Combinators (`builtin_promise.cpp`) | remaining count, results, capability | all, allSettled, any, race | promises, iterators | elements that settle during and after the walk |
| Maps and sets (`map.cpp`, `builtin_map_*.cpp`) | entry list with tombstones, hash index, counts; a slot number per iterator | get, has, set, delete, clear, iterate | collector | keys hashed by an address that moves; compaction under a cursor; weak entries vanishing |
| Weak references (`weak_ref.cpp`) | kept objects, cells, cleanup list | deref, register, unregister, collection, cleanup | collector, drain | a target dying between two jobs |
| Code cache (`eval/code_cache.cpp`, `eval/eval.cpp`) | files of a cache directory, shared programs, keys in flight, `TrimState` | load, store, trim, compile, clear | other threads and processes, the source files | sources edited between two reads, rename races, crash between write and rename, waiting for another thread's compile |
| Modules (`modules/`, `module_registry.cpp`) | graph, instances | resolve, link, evaluate | evaluator | cycles, failing evaluation |
| Compiler (`lex`, `parse`, `types`, `lower`, `il`, `opt`, `codegen-brass`, `check`) | trees and IL | passes | the evaluator and the CLI | semantic equivalence, not protocols |
| Built-ins, values, heap, shapes, regular expressions, CLI | data | library functions | — | data algorithms |

What makes the modelled ones correct:

* Compartments: the host's code is never interrupted for a slice; the watchdog
  never looks at a freed compartment; the state a host reads says where the
  fiber is; a fiber is freed or left dead only without frames; entering and
  leaving nest; a runaway job gives the thread back.
* Host interrupts: a request is not forgotten while its arm stands, none is lost
  by coalescing, and one whose arm went is taken when the thread polls again.
* Promises: settled once by exactly one party; an adopted outcome is the
  adopted promise's; every continuation runs exactly once; every unhandled
  rejection is reported exactly once.
* Async generators and combinators: values go to requests in order, no request
  stays unanswered, a combinator finishes exactly when its last result is in.
* Maps and sets: whatever the collector moved, the table answers as an ordered
  map; a probe ends; an iterator gives every key once.
* Code cache: what runs was compiled from the texts the caller holds; a shared
  program compiles on one thread at a time and nobody waits for a compile that
  is over; a trim that was asked for takes place.

`PROJECT.json` lists all components, also those not modelled with the reason,
and under `hazards` the places where each of these can go wrong.

## 2. Modules

| Module | What it is |
|---|---|
| `Compartment` | compartments on one thread, the watchdog, the interrupt word |
| `CompartmentContract` | what `compartment.h` promises a host; `Compartment` implements it |
| `CompartmentProofs` | its theorems |
| `HostInterrupt`, `HostInterruptProofs` | host interrupts, and their theorems |
| `Promise` | promises, the microtask queue and async functions of one stack |
| `PromiseProofs` | its types and the tracking of rejections, proved |
| `PromiseSettleProofs` | that a promise is settled once, proved |
| `PromiseContinuationProofs` | that no continuation is lost or doubled and an adoption ends as the adopted promise did, proved |
| `AsyncGenerator` | an async generator, the stack it runs on and its requests |
| `Combinator` | one call of `all`, `allSettled`, `any` or `race` |
| `AsyncIteration` | the two composed: a combinator over the generator's promises |
| `AsyncIterationProofs` | their theorems |
| `OrderedMap` | what a map or set promises a program |
| `Filter` | the rest of a sequence without some elements, in order (used by both) |
| `MapTable` | the table of `map.cpp` with collector and iterators; it implements `OrderedMap` |
| `MapTableProofs` | its theorems, the refinement among them |
| `CodeCache`, `CodeCacheProofs` | compiling through the code cache, and its theorems |
| `MCPromise`, `MCMapTable`, `MCCodeCache` | symmetry sets for TLC |

Definitions named `X_Something` just before a definition `X` are variants of it
with a defect; they are used nowhere in the specifications and serve to show
that a property notices the defect (`mutants` in `PROJECT.json`).

### Compartment

One thread runs the host and all compartments. `running` is `t_running`,
`prev[c]` and `level[c]` stand for the `enterFiber` activation of `c`. An
activation is not atomic: `EnterFiber` (up to `t_running = c`), `StartSlice`
(`watchdog().start`), `SwitchIn` (`fiber->resume()`), the fiber's own steps,
`StopSlice`, `LeaveFiber` (the disarm, the state, and what the caller does:
return a status, nothing, or delete). The watchdog (`SliceSpent`,
`WatchdogArms`) and other threads (`HostArms`) may act between any two of them.
`armed` records who stored `kInterruptArmed` last, so that a property can tell
an arm left over from a slice from a host's request. `at[c]` is where the fiber
stands (never entered, in the loop, in the job, in the drain, returned).

`Poll` is `bronze_interrupt_poll`/`bronze_stack_overflow` followed by
`rtServiceInterrupt`; `SetStackLimit` is the store of `bronze_tls_enter` that
drops an arm. `TerminateRunning`, `Terminate` and `Destroy` are the branches of
`rtCompartmentTerminate` and `rtDestroyCompartment`. `HostError` is a C++
exception leaving the job. The preconditions are those of `compartment.h`: no
`run` of a Yielded compartment, and no call on a compartment that is entered
further down the thread, except terminating the running one.

Left out: overrun counters, the texts of reason and site (reports), the realm
stack, what the job computes.

### HostInterrupt

Each atomic access of `rtRequestHostInterrupt`, `rtUnregisterHostInterrupt` and
`rtServiceHostInterrupt` is a step of its own. `Disarm` is everything that puts
the real limit back without looking at `pending`.

The owning thread's stores are relaxed or release stores with no fence after
them, so they are modelled as on x86-64: they wait in `buffer`, the thread reads
its own newest store (`SeesFn`, `SeesPending`, `SeesArmed`), other threads read
memory, and `Drain` lets the oldest store reach memory at any time. In
particular the real limit a poll stores (`tls_block.cpp:236`) may reach memory
after the poll's look at `pending` (`host_interrupt.cpp:54`) and over the arm of
a request made in between: the request is pending and nothing is armed. A
requester reads nothing after its stores, so it needs no buffer: its steps are
where its stores reach memory. Reaching the host's function (`FunctionLooks`)
empties the buffer: a function that learns what it was called for takes a lock
or enters the system. On arm64 a requester's relaxed arm could moreover pass its
release store of `pending`; that order is not modelled.

`dropped`, `owed` and `void` are history: an arm went away with its request
still pending and no look to follow; a request of the registered function has
not been answered by a run; a requester read `fn` before an unregister.

### Promise

A promise is its slots. User code runs as the script or in a *frame*: a call
the runtime is waiting for (a getter of `then`, a reaction's handler, a foreign
`then`, an async body, the rejection hook). In each of them user code may make
promises, resolve, reject, subscribe, and call the functions a foreign thenable
was given; `UserEnds` returns from the last frame and does what the runtime
does with the result. `SettleInternal`, `RunResolutionSteps` and `Subscribe`
are `settleInternal`, `runResolutionSteps` and `rtPerformPromiseThen`. A job
leaves the queue (`TakeJob`) before its body runs. `pair[p]` is the latch of
the last resolving pair a foreign thenable of `p` holds; the pair that the
builtin `then` subscribes is the reaction of kind `"pair"`, whose functions
only that reaction can call, once.

A value is named by the promise `p` it was first the result of, so that a
property can say whose value arrived: `p` for one that is no object, `<<p>>` for
an object. Every resolution with an object reads its `then` through user code
(`ResolveValue`, the frame `Getting`), also when the value comes from an adopted
promise (`pairResolve`, in `SettlePair`) or passes through a reaction without a
handler (`rtSettleCapability`, in `PassThrough`); each read may give something
that is not callable, a function, or throw, whatever the reads before it gave
(`GetterReturns`). `adopts[p]` is history: what `p` was resolved with and still
follows; a read that throws or gives a function ends the adoption.

Left out: `finally`, capabilities of subclasses (user functions), a `then` of a
promise that is not the builtin one, job contexts, FinalizationRegistry jobs,
awaits of non-promises (a constructed and resolved promise), and a re-entrant
drain from a hook.

### AsyncGenerator, Combinator, AsyncIteration

The functions of `builtin_async_generator.cpp` call each other and, through
`rtResolvePromise`, the program: an answer is an ordinary object and resolving a
promise with it reads `then`, which may be a getter on `Object.prototype`. So
`stack` holds the frames of the thread: `"next"` is `asyncGeneratorResumeNext`,
`"body"` the body inside `resumeBody`, `"yielded"` and `"drain"` what
`processResumeResult` does after its answer, `"settle"` a resolution that waits
for a getter, `"program"` any program code, `"walk"` the loop of
`runCombinator`, during which the program's iterator runs. Every frame in which
program code runs may call `next`, `return` and `throw` (`Ask`). The queue holds
request numbers; a request that has left it is answered by its frame.

`Combinator` knows its elements by their answers. `cap` says how the capability
was settled: by the count (`"finished"`) or by an element or a throw
(`"early"`); a race keeps no count. In `AsyncIteration` a step of the generator
that settles promises queues the reactions of the elements they are (`Notice`):
those of one promise in the order of its elements, which is the order they were
subscribed in; those of two promises settled in one step oldest first, as the
code answers them.

Under such a getter two answers may be given in another order than asked; that
is why `ValuesInOrder` speaks of requests that still wait. Left out: a `then`
*function* on an iterator result (the answer then arrives two jobs later, as in
`Promise`), the read of `then` of the result array a combinator resolves its
capability with (the same resolution, in `Promise`), elements that are not
promises, the sync generators. The branch of
`processResumeResult` for an empty queue is in the model (`Completes`) and never
taken: `NothingStuck` says why.

### MapTable and OrderedMap

`entries` are the used slots, `buckets` the index block, `op` the operation that
runs: it stops where the code allocates (the block of `reindex`, that of
`growEntries`), and `Collect` may happen there: young objects and the map itself
move, objects grow old, dead keys of a weak table become tombstones, `epoch`
counts the collections that moved something. `HashKey` of an object is its
address, and the addresses of the run collide in the smallest index. An operation that
finds the index valid does not allocate before its probe, which is `findFast`.
`owed` and `given` are history: the keys an iterator has yet to give, and those
it gave, with keys removed since taken out.

The loops that double a size (`Doubled`), rebuild the list (`Compacted`) and
fill the index (`Reindexed`) are recursive functions over a range.

`OrderedMap` has the same calls as single steps on a list of keys and a function
of values, and the answer of each; the mapping takes the live entries in slot
order. Left out: the Set algebra methods, `groupBy`, the constructors, key
equality (`sameValueZero`) beyond equal keys having equal hashes.

### CodeCache

An entry file and one file it imports; a text is its version number. `Begin`
reads the entry for the key, `Load` and `Verify` are the two halves of `load`
(the file read whole; the sources read again), `Parse` and `Import` are
`loadProgram`, which reads the entry a second time. `Claim`, `Lower`, `Codegen`
are `compileUnit` with every way out, `Protect`, `Rename`, `RequestTrim` the
steps of `store` after the temporary file, `TrimStart` … `TrimEnd` the trimmer
thread; `kept` gives its lock up before the file is removed, so `TrimKeeps` and
`TrimRemove` are two steps and an entry stored between them goes. `Edit`, `OtherStores`, `OtherTrims` and `Crash` are the world: other
processes may have stored under any key what this code could have stored under
it. `asked` is history: a walk was asked for and no listing has begun since.

Left out: warm lists and module records, damaged files (the header and checksum
tests turn them into misses), `Tier2_Optimized` compiles (serialised by the
lock), programs with other options (another key).

Noticed and not stated as properties: `Trimmer::run` overwrites the estimate
with the walk's total, forgetting what was stored during the walk
(`code_cache.cpp:549`); `keep` is one key per directory, so of two threads that
store at once only the later one's entry is protected (`:570`). Both cost time,
not correctness.

## 3. Runs

| Run | Bounds | What it shows |
|---|---|---|
| `compartment` | 2 compartments, every stack may nest and open a scope; 327 000 states | eight invariants, `FreedWithoutFrames`, the refinement of `CompartmentContract`, `RunawayYields`, `TerminateStopsJob` |
| `compartment_error` | 2 compartments | **violated**: an error thrown by a job whose drain yields is never reported |
| `compartment_refuse` | 2 compartments | **violated**: a compartment terminated inside its job may run another |
| `host_interrupt` | 2 requesters, 4 stores in the buffer; 27 000 states | no request forgotten while its arm stands, none lost by coalescing, requests are served, and one whose arm was lost is served by a thread that polls again |
| `host_interrupt_lost` | 1 requester, 2 stores | **violated**: a dropped arm leaves a request pending for ever |
| `host_interrupt_exit` | 1 requester, 2 stores | **violated**: a late request stores into a dead thread's block |
| `promise` | one constructed, one derived, one async promise; 126 000 states | settling, adoption, continuations, rejection tracking, `AwaitsResume`: no async call starves |
| `promise_report` | three constructed promises, one async call | **violated**: a pass of the report may report a promise parked during it |
| `async_iteration` | 3 requests, 1 await, 9 frames, 2 elements; 332 000 states | values in order, every request answered, combinators finish with all results and settle |
| `map_table` | 2 object keys, 2 values, 1 moving collection, 1 iterator, capacity from 2, 4 buckets; 2.4 million states | `ImplementsOrderedMap`, `ProbesEnd`, `NeverGivenTwice`, and `TypeOK`: the entries never outgrow their block |
| `map_walk` | 2 string keys | **violated**: a compaction makes an open iterator skip keys |
| `code_cache` | 2 threads, 1 edit or crash, room for one entry; 5.1 million states | exact hits, one compile of a key, no waiter left, no walk forgotten |

The violated ones state what a comment of the code says; `findings` quotes it.

Why the bounds suffice: two compartments give every nesting that matters (host
over c1 over c2, and each resumed from the other's stack), since the code only
ever looks at the running compartment and the one it is called with; the
proofs remove the bound. Two requesters give a request that overtakes another
between any two of its stores, and four places in the buffer hold a disarm, the
stores of an unregister and those of the next register or poll at once; the
proofs remove both bounds. Three promises give a chain of adoptions, a cycle, and an adoption of a promise that
is itself subscribed; an async call can be starved by the handlers that other
promises' jobs run.

Three requests are the fewest with one being answered, one made by a getter of
that answer and one made by the body it resumes; nine frames let all of them
nest. Two keys with the smallest capacity give collisions, tombstones in a
chain, growth and compaction; one moving collection per behaviour may fall at
any allocation, and what it leaves (a stale index, an old object) is what later
operations meet; the other sizes of the code (8 slots, 8 buckets) only make the
same cases rarer; the proofs remove these bounds as well. One edit suffices to separate the two reads of a file, one
crash to leave a temporary file; a directory with room for a single entry makes
every second store a trim, and the proofs remove the bounds.

Symmetry is used in the runs without liveness properties: threads, keys and
values are interchangeable there.

Deadlock checking is off for `HostInterrupt` only, where a thread may end.

## 4. Fairness

* `Compartment`: weak fairness of the steps inside `enterFiber` (straight-line
  code), of the clock and of the watchdog's tick (a detached thread that wakes
  every millisecond while a slice is spent); strong fairness of `Poll`, because
  a job that never returns passes loop backedges and function entries for ever
  while the word is armed over and over. No fairness for jobs (they may loop)
  or for the host.
* `HostInterrupt`: weak fairness of the store buffer (a store reaches memory), of
  the poll and of the steps of a poll, a request and an unregister; strong
  fairness of finding room, since a thread is not short of stack at every poll.
  `LaterPollTakesIt` assumes in its own statement that something keeps making
  the thread poll. The run `host_interrupt_lost` adds strong fairness of the
  poll and an end to disarms and registrations, and is violated even so.
* `Promise`: weak fairness of the drain, and of user code the runtime called
  returning. User code that never returns blocks the stack in the code too.
* `AsyncIteration`: weak fairness of what is on the stack (program code returns,
  bodies do not loop for ever); strong fairness of the two kinds of job, the
  resumption of an awaiting body and the combinator's reactions. They need the
  stack to be empty, which new scripts interrupt again and again; in the code a
  checkpoint drains the queue before the next script. That the awaited promise
  settles at all is an assumption about the program.

## 5. Proofs

`CompartmentProofs` proves, for any sets of compartments, nesting stacks and
scope stacks satisfying `CompartmentAssumption`, each safety property of the
run `compartment`, and the refinement. None is inductive as it stands. The
inductive invariant `IInv` has five parts: `Typed`; `Nesting` (the levels of
entered compartments are exactly 1..depth along `prev`, so the stack an
activation returns to is one level down); `Watching` (watched slices are
entered, and only the running activation can be between `start` and `stop`);
`Standing` (what `at`, `state`, `jobPending` and `after` say of one another in
each phase, for the running, the entered and the suspended compartments);
`Errors` (a held or reported error was thrown by the current job). The proof
has one step per action and, under it, one per part.

`HostInterruptProofs` proves the safety properties of `HostInterrupt` for any
set of requesters and any size of the store buffer, from `MaxStoresAssumption`.
`NoRequestForgotten` is inductive with the types. `OwedIsPending` is not: a
store that clears `pending` may reach memory long after the poll that made it.
`OwedInv` adds that such a store is the newest of a poll about to run the
function, or reaches memory while no function is registered there
(`ClearsAreAnswered`), and that a request is owed only while a function is
registered in memory and no store on its way removes it (`OwedIsRegistered`).
Both rest on what `FnAfter` gives when a store is appended or drained
(`AppendKeepsFn`, `TailKeepsFn`).

`PromiseProofs` proves `TypeOK` and `RejectionsTracked` for any sets of promises
and async calls. The invariant adds to them that a settled promise has a value,
that only the job of a foreign thenable carries something else than a promise's
value, and that what was reported is a rejection also without a hook. Every
handler of the runtime is made of settling, resolving and subscribing; one lemma
about each (`SettleFacts`, `ResolvePromiseFacts`, `SubscribeFacts`) carries the
argument, and the actions cite them.

`PromiseSettleProofs` proves `RecheckNeverNeeded` and `OneSettler`, again for any
sets: what the comment on `settleInternal`'s re-check of `pending` calls cheaper
to keep than to prove (`promise.cpp:98-100`). Neither is inductive. The invariant
`SInv` says where what will settle a promise is held: a promise whose latch is
taken and that is still pending has exactly one place (a job in the queue, a
reaction in another promise's list, the job in flight, the frame of a getter, an
open pair of functions), and every other promise has none. With it go
`Latched` (a settled promise's latch is taken, and that of a promise not made yet
is not) and `Known` (whatever is held is for a promise that exists), without
which making a promise could give it a place. A step leaves a place alone, moves
it (a settled promise's reactions go to the queue, the head of the queue goes into
flight), or clears it (`Cleared`) and then settles the promise, enqueues its
adoption or asks a getter (`Settles`, `Enqueues`, `AsksGetter`). `OneSettler`
follows because the settlers are those places.

`CodeCacheProofs` proves the four invariants of the run `code_cache` for any set
of threads and any bounds on edits, crashes and bytes, from `BoundsAssumption`.
`OneCompileOfAKey` and `WaitersHaveAHolder` follow from `Claims`: the keys in
flight are exactly those of the threads that compile, no two of which have the
same, and a waiter's key is in flight. It is not enough to say that no two
compile the same: a step that gives up a claim must know whose it was.
`HitIsOfItsTexts` follows from `Hits`, which carries the comparison of the
lookup along the thread's way: from `Load` on the file is of the entry's text,
from `Verify` on of both texts. `AskedIsWalked` is inductive with the shape of
the trimmer's record.

`PromiseContinuationProofs` rests on `PromiseSettleProofs` and proves
`NoContinuationLost` and `AdoptsOutcome` for any sets of promises and async
calls. The property counts holders; the invariant `CInv` says instead where the
one continuation is: stored (in the queue or in one reaction list), in flight,
or running on the stack. A derived promise that is not resolved has one of
these (`Derivations`), an async call the one its machine's state says (`Calls`),
what it awaits holds the resumption while pending (`Awaited`), and a settled
promise holds nothing (`Drained`). A step keeps each place, moves it on or ends
it. `HoldersCount` and `FramesCount` turn places back into cardinalities.
`AdoptsOutcome` needs that every message of an adoption tells the truth
(`AInv`): a thenable job names the promise its target adopts, a queued reaction
of a pair carries the state and the value of a settled promise that the target
adopts, the frame of a getter for a promise that adopts one reads the value that
one was fulfilled with (`GettersTell`), and a promise with an open pair adopts
nothing. No induction along a chain of adoptions is needed, since each link is
settled from the one before it.

`AsyncIterationProofs` proves `NothingStuck`, `ValuesInOrder` and
`FinishesWithAll`, and that an answer is never given twice (`AnsweredOnce`, an
action property), for any number of requests, awaits and elements and any depth
of calls, from `BoundsAssumption`. The generator's invariant `GenInv` says that a
request waits in one place (the queue, or one frame), that exactly those are
unanswered, that while the generator executes the body is in one place (a frame
or an await), that a frame or an await will come back for a queue that is not
empty, and that no value goes past a waiting request, also one about to be given
under a getter. `FinishesWithAll` needs the meaning of the count (`CountIs`: the
missing results, and one for the walk), that each reaction is queued once
(`JobsOnce`), and that after an early settlement the count cannot reach zero
(`EarlyStays`: the element that settled the capability stays missing).

`MapTableProofs` proves `TypeOK`, `ProbesEnd`, `NeverGivenTwice`, `FindIsRight` (a
probe ends at its key's live slot or, without one, at an empty bucket) and the
refinement of `OrderedMap`, for any keys, values, addresses, hashes, initial
capacity and smallest index, from `SizesAssumption` and `KeysAssumption`. The
invariant `Inv` has, beside the types: `ListInv` (one live slot for a key, a count
that is not too small: the collector makes it too large in a weak table);
`IndexInv` (an index that is stable or of this epoch leads every live key's probe
to its slot with no empty bucket before it, no two buckets hold a slot, and a
stable one holds no young key; a usable index may still be behind the map's own
move, which is what the anchor is for); `OpInv` (what an operation has found out
survives the collections at its allocations: a missed key is still missing, there
is a free slot to insert into, a valid index is valid when probed); `WalkInv`. The
half-full bound follows from `Indexes`: at least twice as many buckets as slots,
and no slot twice. `ReindexedIndexes` and `PlaceLeads` show that the rebuild and
the insert build such an index, `ProbeFinds` that a lookup in it is right, and the
lemmas on `Filtered` that a compaction keeps keys, order and values. The table's
steps map to stutters, except the answer of a call (`Miss`, `ProbeGet`,
`ProbeSet`, `ProbeDelete`, `Insert`), `Call`, `Return`, `Clear` and the loss of dead keys,
each of which is one step of the ordered map; iterators stutter.

These loops need induction over data. The library's induction theorems have an
operator as a parameter and cannot be cited here, so `MapTableProofs` starts from
the least element of a set of naturals (`Least`), states induction for a set
(`Induct`: a set with 0, and with the successor of each of its naturals, has all
of them) and derives from it that a recursion over a range has a solution (`Recursion`, `Unfold`),
which is what a recursive function needs before its equation may be used.

Only model-checked: the liveness properties (`RunawayYields`,
`TerminateStopsJob`, `RequestServed`, `LaterPollTakesIt`, `AwaitsResume`, `EveryRequestAnswered`,
`CombinatorSettles`), which rest on fairness and are out of the prover's reach. The
violated properties are false of the code and have no theorem.

## 6. Not modelled

The compiler passes, the built-in library, regular expressions, values, shapes
and the heap are data algorithms without a protocol; the collector, fibers and
the JIT are the external `brass` library. The embedding API wraps the modelled
calls. `PROJECT.json` gives the reason per component. These parts are by far the
larger share of the code: the models cover the protocols, not the volume.

## 7. Plan

In order of importance; the first eight are done.

1. `Compartment`, its contract, refinement and proofs.
2. `HostInterrupt` and proofs.
3. `Promise`: queue, adoption, rejection tracking, async functions.
4. `PromiseProofs`, `PromiseSettleProofs` and `PromiseContinuationProofs`.
5. `AsyncGenerator`, `Combinator` and their composition, and its proofs.
6. `MapTable`, its proofs and the refinement of `OrderedMap`.
7. `CodeCache` and its proofs.
8. A theorem for every safety property of a passing run.
9. Action properties from the invariants that are there: a settled promise keeps
   state and value; a key is lost only while the program cannot name it. What
   still holds of the violated ones: an iterator gives every key when no
   compaction happens under it.
10. `WeakRefs`: kept objects against collections and cleanup jobs, composed
   with the drain.
11. Two stacks: promises shared between the queues of a compartment and the
    host (a rejection handled from another stack).
12. Modules: evaluation order and errors in a cyclic graph.
