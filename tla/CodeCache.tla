------------------------------ MODULE CodeCache ------------------------------
(***************************************************************************)
(* Compiling one program through the on-disk code cache                    *)
(* (eval/code_cache.cpp, eval/eval.cpp): an entry file that imports one    *)
(* other file, the threads of a process that compile it, the cache         *)
(* directory, the process's table of shared programs and its trimmer       *)
(* thread; other processes that use the same directory, edits of the       *)
(* sources, and crashes.                                                   *)
(*                                                                         *)
(* A text is its version number, and two texts have one digest only if     *)
(* they are equal.  The key of a compile is taken from the entry's text,   *)
(* all its other inputs being the same; IL is named by the texts it was    *)
(* lowered from.  Every compile here is one to share across threads.       *)
(***************************************************************************)
EXTENDS Integers, Sequences, FiniteSets

CONSTANTS
  Threads,
  MaxEvents,    \* bound on the edits of the sources and the crashes together
  EntryBytes,   \* what an entry takes on disk
  MaxBytes,     \* the limit of the directory (codeCacheMaxBytes)
  None

ASSUME BoundsAssumption ==
  /\ MaxEvents \in Nat
  /\ EntryBytes \in Nat \ {0} /\ MaxBytes \in Nat

Texts == 0 .. MaxEvents
Keys == Texts
IL == [entry : Texts, dep : Texts]

VARIABLES
  disk,       \* the two source files
  dir,        \* the entries of the cache directory, by key
  lru,        \* their keys, least recently used (oldest mtime) first
  tmps,       \* files being written, [key, il, by]; by = None: the writer died
  th,         \* the threads
  shared,     \* sharedPrograms: the programs compiled to be shared
  inFlight,   \* sharedInFlight: the keys some thread is compiling
  trim,       \* the TrimState of the directory, and the walk
  asked,      \* a store asked for a walk that has not listed yet
  crashes

files == <<dir, lru, tmps>>
vars == <<disk, files, th, shared, inFlight, trim, asked, crashes>>

NoIL == [entry |-> 0, dep |-> 0]
IdleThread == [pc |-> "idle", text |-> 0, file |-> NoIL, il |-> NoIL, store |-> FALSE]
FreshTrim == [estimate |-> 0, keep |-> None, walked |-> FALSE, pending |-> FALSE,
              walk |-> "none", items |-> <<>>, total |-> 0]

Pcs == {"idle", "load", "verify", "parse", "import", "claim", "waiting", "lower",
        "protect", "rename", "request", "codegen"}

TypeOK ==
  /\ disk \in IL
  /\ dir \in [Keys -> IL \union {None}] /\ lru \in Seq(Keys)
  /\ tmps \subseteq [key : Keys, il : IL, by : Threads \union {None}] /\ IsFiniteSet(tmps)
  /\ th \in [Threads -> [pc : Pcs, text : Texts, file : IL, il : IL, store : BOOLEAN]]
  /\ shared \subseteq IL /\ inFlight \subseteq IL
  /\ trim \in [estimate : Int, keep : Keys \union {None}, walked : BOOLEAN, pending : BOOLEAN,
               walk : {"none", "start", "remove", "unlink"}, items : Seq(Keys), total : Int]
  /\ asked \in BOOLEAN /\ crashes \in Nat

Init ==
  /\ disk = NoIL
  /\ dir = [k \in Keys |-> None] /\ lru = <<>> /\ tmps = {}
  /\ th = [t \in Threads |-> IdleThread]
  /\ shared = {} /\ inFlight = {}
  /\ trim = FreshTrim /\ asked = FALSE
  /\ crashes = 0

At(t, pc) == th[t].pc = pc
Goto(t, pc) == th' = [th EXCEPT ![t].pc = pc]
\* store returns: its key and the file it looked at are needed no more.
Stored(t) == th' = [th EXCEPT ![t].pc = "codegen", ![t].text = 0]
Used(k) == Append(SelectSeq(lru, LAMBDA x : x # k), k)

-----------------------------------------------------------------------------
(* compileEntry: look the program up, or read it and compile it *)

\* compileFile reads the entry once to make the key.
Begin(t) ==
  /\ At(t, "idle")
  /\ th' = [th EXCEPT ![t] = [IdleThread EXCEPT !.pc = "load", !.text = disk.entry]]
  /\ UNCHANGED <<disk, files, shared, inFlight, trim, asked, crashes>>

\* The entry digest in the file must be that of the text the caller holds.
IsOfText_Unchecked(file, text) == TRUE
IsOfText(file, text) == file.entry = text

\* load: the file of the key, read whole.
Load(t) ==
  /\ At(t, "load")
  /\ LET file == dir[th[t].text]
     IN  IF file # None /\ IsOfText(file, th[t].text)
         THEN th' = [th EXCEPT ![t].pc = "verify", ![t].file = file]
         ELSE Goto(t, "parse")
  /\ UNCHANGED <<disk, files, shared, inFlight, trim, asked, crashes>>

\* verifyProvenance: the imported file is read again and compared; what was
\* read becomes the program's text.  A hit makes the entry recently used.
Verify(t) ==
  /\ At(t, "verify")
  /\ IF th[t].file.dep = disk.dep
     THEN /\ th' = [th EXCEPT ![t].pc = "claim", ![t].il = [entry |-> th[t].text, dep |-> disk.dep]]
          /\ lru' = IF dir[th[t].text] # None THEN Used(th[t].text) ELSE lru
     ELSE /\ th' = [th EXCEPT ![t].pc = "parse", ![t].file = NoIL]
          /\ UNCHANGED lru
  /\ UNCHANGED <<disk, dir, tmps, shared, inFlight, trim, asked, crashes>>

\* loadProgram: compileFile reads the entry AGAIN (compileScript has its text).
Parse(t) ==
  /\ At(t, "parse")
  /\ \E e \in {disk.entry, th[t].text} :
       th' = [th EXCEPT ![t].pc = "import", ![t].il.entry = e, ![t].store = TRUE]
  /\ UNCHANGED <<disk, files, shared, inFlight, trim, asked, crashes>>

\* ... and then the file it imports; a program with errors is not compiled.
Import(t) ==
  /\ At(t, "import")
  /\ \/ th' = [th EXCEPT ![t].pc = "claim", ![t].il.dep = disk.dep]
     \/ th' = [th EXCEPT ![t] = IdleThread]
  /\ UNCHANGED <<disk, files, shared, inFlight, trim, asked, crashes>>

-----------------------------------------------------------------------------
(* compileUnit *)

Taken_Compiled(il) == il \in inFlight \intersect shared
Taken(il) == il \in inFlight

\* A shared key compiles on one thread at a time; the others wait for it.  A
\* program compiled before is handed out, the claim going with the lock that
\* took it; a thread that already runs it compiles another instance.
Claim(t) ==
  /\ At(t, "claim")
  /\ \/ /\ Taken(th[t].il)
        /\ Goto(t, "waiting")
        /\ UNCHANGED inFlight
     \/ /\ ~Taken(th[t].il) /\ th[t].il \in shared
        /\ th' = [th EXCEPT ![t] = IdleThread]
        /\ UNCHANGED inFlight
     \/ /\ ~Taken(th[t].il)
        /\ inFlight' = inFlight \union {th[t].il}
        /\ Goto(t, IF th[t].store THEN "lower" ELSE "codegen")
  /\ UNCHANGED <<disk, files, shared, trim, asked, crashes>>

\* notify_all
Woken_Not(u) == th[u]
Woken(u) == IF At(u, "waiting") THEN [th[u] EXCEPT !.pc = "claim"] ELSE th[u]

\* ~InFlightClaim, on every path out: the claim goes and the waiters wake.
Release(t) ==
  /\ inFlight' = inFlight \ {th[t].il}
  /\ th' = [u \in Threads |-> IF u = t THEN IdleThread ELSE Woken(u)]

\* The temporary file of t's store.
Written(t) == [key |-> th[t].text, il |-> th[t].il, by |-> t]

\* lowerProgram fails, or store begins: a write that fails leaves no file and
\* the compile goes on.
Lower(t) ==
  /\ At(t, "lower")
  /\ \/ Release(t) /\ UNCHANGED tmps
     \/ /\ tmps' = tmps \union {Written(t)}
        /\ Goto(t, "protect")
        /\ UNCHANGED inFlight
     \/ Stored(t) /\ UNCHANGED <<tmps, inFlight>>
  /\ UNCHANGED <<disk, dir, lru, shared, trim, asked, crashes>>

\* The backend fails, or the program is published and the claim given up under
\* one lock.
Codegen(t) ==
  /\ At(t, "codegen")
  /\ shared' \in {shared, shared \union {th[t].il}}
  /\ Release(t)
  /\ UNCHANGED <<disk, files, trim, asked, crashes>>

\* clearRetainedPrograms
ClearShared ==
  /\ shared # {} /\ shared' = {}
  /\ UNCHANGED <<disk, files, th, inFlight, trim, asked, crashes>>

-----------------------------------------------------------------------------
(* store: a temporary file, renamed into place; then the trim is asked for *)

\* The estimate stops counting past the limit: nothing tells larger ones apart.
Counted(bytes) == IF bytes > MaxBytes THEN MaxBytes + 1 ELSE bytes

\* protectKey, before the file appears.
Protect(t) ==
  /\ At(t, "protect")
  /\ trim' = [trim EXCEPT !.keep = th[t].text]
  /\ Goto(t, "rename")
  /\ UNCHANGED <<disk, files, shared, inFlight, asked, crashes>>

Rename(t) ==
  /\ At(t, "rename")
  /\ tmps' = {f \in tmps : f.by # t}
  /\ \/ /\ dir' = [dir EXCEPT ![th[t].text] = th[t].il]
        /\ lru' = Used(th[t].text)
        /\ Goto(t, "request")
     \/ Stored(t) /\ UNCHANGED <<dir, lru>>
  /\ UNCHANGED <<disk, shared, inFlight, trim, asked, crashes>>

\* requestTrim: a walk is asked for when the estimate passes the limit, or
\* when this process has not walked the directory yet.
RequestTrim(t) ==
  LET estimate == Counted(trim.estimate + EntryBytes)
      ask == ~trim.walked \/ estimate > MaxBytes
  IN  /\ At(t, "request")
      /\ trim' = [trim EXCEPT !.estimate = estimate, !.keep = th[t].text, !.pending = @ \/ ask]
      /\ asked' = (asked \/ ask)
      /\ Stored(t)
      /\ UNCHANGED <<disk, files, shared, inFlight, crashes>>

-----------------------------------------------------------------------------
(* Trimmer::run and trimDir *)

LowWater == MaxBytes - MaxBytes \div 8

\* The request is taken before the walk starts, so that one made during it
\* asks for another.
TrimStart ==
  /\ trim.pending /\ trim.walk = "none"
  /\ trim' = [trim EXCEPT !.pending = FALSE, !.walk = "start"]
  /\ UNCHANGED <<disk, files, th, shared, inFlight, asked, crashes>>

\* The listing: writes in progress count, those of dead writers go once they
\* are old; entries by their age when there are too many.
TrimList ==
  /\ trim.walk = "start"
  /\ \E old \in SUBSET {f \in tmps : f.by = None} :
       LET total == (Len(lru) + Cardinality(tmps \ old)) * EntryBytes
       IN  /\ tmps' = tmps \ old
           /\ trim' = [trim EXCEPT !.walk = "remove", !.total = total,
                                   !.items = IF total > MaxBytes THEN lru ELSE <<>>]
  /\ asked' = FALSE
  /\ UNCHANGED <<disk, dir, lru, th, shared, inFlight, crashes>>

\* kept, under its lock: the entry just stored stays.  The lock is given up
\* before the entry is removed, so one stored in between goes.
TrimKeeps ==
  /\ trim.walk = "remove"
  /\ trim.items # <<>> /\ trim.total > LowWater
  /\ trim' = IF Head(trim.items) = trim.keep
             THEN [trim EXCEPT !.items = Tail(@)]
             ELSE [trim EXCEPT !.walk = "unlink"]
  /\ UNCHANGED <<disk, files, th, shared, inFlight, asked, crashes>>

\* The oldest entry of the listing goes; one already gone frees nothing.
TrimRemove ==
  LET k == Head(trim.items)
      gone == dir[k] # None
  IN  /\ trim.walk = "unlink"
      /\ trim' = [trim EXCEPT !.walk = "remove", !.items = Tail(@),
                              !.total = IF gone THEN @ - EntryBytes ELSE @]
      /\ dir' = IF gone THEN [dir EXCEPT ![k] = None] ELSE dir
      /\ lru' = IF gone THEN SelectSeq(lru, LAMBDA x : x # k) ELSE lru
      /\ UNCHANGED <<disk, tmps, th, shared, inFlight, asked, crashes>>

\* The walk's total is the new estimate; a request made meanwhile stands.
AfterWalk_NoRequest ==
  [FreshTrim EXCEPT !.keep = trim.keep, !.estimate = Counted(trim.total), !.walked = TRUE]
AfterWalk ==
  [trim EXCEPT !.walk = "none", !.items = <<>>, !.total = 0,
               !.estimate = Counted(trim.total), !.walked = TRUE]

TrimEnd ==
  /\ trim.walk = "remove"
  /\ trim.items = <<>> \/ trim.total <= LowWater
  /\ trim' = AfterWalk
  /\ UNCHANGED <<disk, files, th, shared, inFlight, asked, crashes>>

-----------------------------------------------------------------------------
(* The world *)

Events == disk.entry + disk.dep + crashes

Edit ==
  /\ Events < MaxEvents
  /\ disk' \in {[disk EXCEPT !.entry = @ + 1], [disk EXCEPT !.dep = @ + 1]}
  /\ UNCHANGED <<files, th, shared, inFlight, trim, asked, crashes>>

\* Another process runs the same code on the same directory: it may have
\* stored what it read at any time under the key of what it read before, and
\* its walks delete what they please.
OtherStores(k, il) ==
  /\ k <= disk.entry /\ il.entry \in k .. disk.entry /\ il.dep <= disk.dep
  /\ dir' = [dir EXCEPT ![k] = il] /\ lru' = Used(k)
  /\ UNCHANGED <<disk, tmps, th, shared, inFlight, trim, asked, crashes>>

OtherTrims(k) ==
  /\ dir[k] # None
  /\ dir' = [dir EXCEPT ![k] = None] /\ lru' = SelectSeq(lru, LAMBDA x : x # k)
  /\ UNCHANGED <<disk, tmps, th, shared, inFlight, trim, asked, crashes>>

\* The process dies and is started again: what it kept in memory is lost, the
\* files it was writing stay.
Crash ==
  /\ Events < MaxEvents
  /\ crashes' = crashes + 1
  /\ th' = [t \in Threads |-> IdleThread]
  /\ tmps' = {[f EXCEPT !.by = None] : f \in tmps}
  /\ shared' = {} /\ inFlight' = {}
  /\ trim' = FreshTrim /\ asked' = FALSE
  /\ UNCHANGED <<disk, dir, lru>>

Step(t) ==
  \/ Load(t) \/ Verify(t) \/ Parse(t) \/ Import(t)
  \/ Claim(t) \/ Lower(t) \/ Codegen(t) \/ Protect(t) \/ Rename(t) \/ RequestTrim(t)
TrimStep == TrimStart \/ TrimList \/ TrimKeeps \/ TrimRemove \/ TrimEnd

Next ==
  \/ \E t \in Threads : Begin(t) \/ Step(t)
  \/ TrimStep \/ ClearShared \/ Edit \/ Crash
  \/ \E k \in Keys, il \in IL : OtherStores(k, il)
  \/ \E k \in Keys : OtherTrims(k)

Spec == Init /\ [][Next]_vars

-----------------------------------------------------------------------------
(* Properties *)

\* What a hit runs was lowered from exactly the texts the caller holds and the
\* lookup read: although an entry may be stored under the key of a text that
\* was edited before it was compiled, replaced by another process between two
\* steps of the lookup, or left by a process that died (code_cache.cpp, load).
HitIsOfItsTexts ==
  \A t \in Threads : At(t, "codegen") /\ ~th[t].store => th[t].file = th[t].il

\* Two threads of a process never compile the same shared program at once,
\* whatever fails on the way and whoever clears the table (eval.cpp,
\* InFlightClaim).
Claiming == {"lower", "protect", "rename", "request", "codegen"}
OneCompileOfAKey ==
  \A t, u \in Threads :
    t # u /\ th[t].pc \in Claiming /\ th[u].pc \in Claiming
      => th[t].il # th[u].il

\* A store that asks for a walk gets one that lists the directory after it,
\* even if a walk was running when it asked (Trimmer::run, requestTrim).
AskedIsWalked ==
  asked => trim.pending \/ trim.walk = "start"

\* A thread that waits for a shared program waits for one that another thread
\* is compiling now: no claim outlives its compile, failed or not, and none is
\* given up without waking those who wait (compileUnit, ~InFlightClaim).
WaitersHaveAHolder ==
  \A t \in Threads : At(t, "waiting") =>
    \E u \in Threads : th[u].pc \in Claiming /\ th[u].il = th[t].il
=============================================================================
