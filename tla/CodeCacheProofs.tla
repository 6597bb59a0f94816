-------------------------- MODULE CodeCacheProofs --------------------------
(***************************************************************************)
(* For any number of threads, edits and crashes: what a hit runs is of the *)
(* texts its caller holds, a shared program compiles on one thread at a    *)
(* time, whoever waits waits for a compile that runs, and a store that     *)
(* asks for a walk gets one.                                               *)
(***************************************************************************)
EXTENDS CodeCache, TLAPS

-----------------------------------------------------------------------------
(* Types: as much of TypeOK as the arguments use.  Of the trimmer's record  *)
(* they use only which fields it has.                                       *)

ThreadType == [pc : Pcs, text : Texts, file : IL, il : IL, store : BOOLEAN]

TrimRecord ==
  trim = [estimate |-> trim.estimate, keep |-> trim.keep, walked |-> trim.walked,
          pending |-> trim.pending, walk |-> trim.walk, items |-> trim.items,
          total |-> trim.total]

Typed ==
  /\ disk \in IL
  /\ dir \in [Keys -> IL \union {None}]
  /\ th \in [Threads -> ThreadType]
  /\ inFlight \subseteq IL
  /\ crashes \in Nat

\* The variables start with their types.
LEMMA TypedInit == Init => Typed
  BY BoundsAssumption DEF Init, Typed, ThreadType, IL, Texts, Keys, Pcs, NoIL, IdleThread

\* A thread without a compile is a thread.
LEMMA IdleTyped == IdleThread \in ThreadType
  BY BoundsAssumption DEF ThreadType, IL, Texts, Pcs, NoIL, IdleThread

\* Giving a claim up (InFlightClaim) keeps the threads and the table typed.
LEMMA TypedRelease ==
  ASSUME Typed, NEW t \in Threads, Release(t)
  PROVE  th' \in [Threads -> ThreadType] /\ inFlight' \subseteq IL
<1>1. ASSUME NEW u \in Threads PROVE Woken(u) \in ThreadType
  <2>1. th[u] \in ThreadType
    BY DEF Typed
  <2>2. [th[u] EXCEPT !.pc = "claim"] \in ThreadType
    BY <2>1 DEF ThreadType, Pcs
  <2> QED
    BY <2>1, <2>2 DEF Woken
<1> QED
  BY <1>1, IdleTyped DEF Typed, Release

\* A thread that stored its entry is still a thread.
LEMMA TypedStored ==
  ASSUME Typed, NEW t \in Threads, Stored(t) PROVE th' \in [Threads -> ThreadType]
<1>1. th[t] \in ThreadType /\ 0 \in Texts
  BY BoundsAssumption DEF Typed, Texts
<1>2. [th[t] EXCEPT !.pc = "codegen", !.text = 0] \in ThreadType
  BY <1>1 DEF ThreadType, Pcs
<1> QED
  BY <1>2 DEF Typed, Stored

\* Moving a thread on in compileUnit keeps it typed.
LEMMA TypedGoto ==
  ASSUME Typed, NEW t \in Threads, NEW pc \in Pcs, Goto(t, pc)
  PROVE  th' \in [Threads -> ThreadType]
<1>1. [th[t] EXCEPT !.pc = pc] \in ThreadType
  BY DEF Typed, ThreadType
<1> QED
  BY <1>1 DEF Typed, Goto

\* Every step keeps the types.
LEMMA TypedStep == ASSUME Typed, [Next]_vars PROVE Typed'
<1> USE BoundsAssumption DEF Typed
<1>1. ASSUME NEW t \in Threads, Begin(t) PROVE Typed'
  <2>1. disk.entry \in Texts
    BY DEF IL
  <2>2. [IdleThread EXCEPT !.pc = "load", !.text = disk.entry] \in ThreadType
    BY <2>1, IdleTyped DEF ThreadType, Pcs
  <2> QED
    BY <1>1, <2>2 DEF Begin, files
<1>2. ASSUME NEW t \in Threads, Load(t) PROVE Typed'
  BY <1>2 DEF Load, Goto, files, ThreadType, Pcs, Keys
<1>3. ASSUME NEW t \in Threads, Verify(t) PROVE Typed'
  <2> DEFINE read == [entry |-> th[t].text, dep |-> disk.dep]
  <2>1. th[t] \in ThreadType
    OBVIOUS
  <2>2. read \in IL /\ NoIL \in IL
    BY <2>1 DEF ThreadType, IL, NoIL, Texts
  <2> HIDE DEF read
  <2>3. [th[t] EXCEPT !.pc = "claim", !.il = read] \in ThreadType
    BY <2>1, <2>2 DEF ThreadType, Pcs
  <2>4. [th[t] EXCEPT !.pc = "parse", !.file = NoIL] \in ThreadType
    BY <2>1, <2>2 DEF ThreadType, Pcs
  <2>5. th' \in [Threads -> ThreadType]
    BY <1>3, <2>3, <2>4 DEF Verify, read
  <2> QED
    BY <1>3, <2>5 DEF Verify
<1>4. ASSUME NEW t \in Threads, Parse(t) PROVE Typed'
  <2>1. PICK e \in {disk.entry, th[t].text} :
          th' = [th EXCEPT ![t].pc = "import", ![t].il.entry = e, ![t].store = TRUE]
    BY <1>4 DEF Parse
  <2>2. th[t] \in ThreadType /\ e \in Texts
    BY DEF ThreadType, IL
  <2>3. [th[t].il EXCEPT !.entry = e] \in IL
    BY <2>2 DEF ThreadType, IL
  <2>4. [th[t] EXCEPT !.pc = "import", !.il = [th[t].il EXCEPT !.entry = e], !.store = TRUE]
          \in ThreadType
    BY <2>2, <2>3 DEF ThreadType, Pcs
  <2>5. th' \in [Threads -> ThreadType]
    BY <2>1, <2>4
  <2> QED
    BY <1>4, <2>5 DEF Parse, files
<1>5. ASSUME NEW t \in Threads, Import(t) PROVE Typed'
  <2>1. th[t] \in ThreadType /\ disk.dep \in Texts
    BY DEF IL
  <2>2. [th[t].il EXCEPT !.dep = disk.dep] \in IL
    BY <2>1 DEF ThreadType, IL
  <2>3. [th[t] EXCEPT !.pc = "claim", !.il = [th[t].il EXCEPT !.dep = disk.dep]] \in ThreadType
    BY <2>1, <2>2 DEF ThreadType, Pcs
  <2>4. th' \in [Threads -> ThreadType]
    <3>1. CASE th' = [th EXCEPT ![t].pc = "claim", ![t].il.dep = disk.dep]
      BY <3>1, <2>3
    <3>2. CASE th' = [th EXCEPT ![t] = IdleThread]
      BY <3>2, IdleTyped
    <3> QED
      BY <1>5, <3>1, <3>2 DEF Import
  <2> QED
    BY <1>5, <2>4 DEF Import, files
<1>6. ASSUME NEW t \in Threads, Claim(t) PROVE Typed'
  BY <1>6, IdleTyped DEF Claim, Goto, files, ThreadType, Pcs
<1>7. ASSUME NEW t \in Threads, Lower(t) PROVE Typed'
  <2>1. CASE Release(t)
    BY <1>7, <2>1, TypedRelease DEF Lower
  <2>2. CASE ~Release(t)
    <3>1. "protect" \in Pcs
      BY DEF Pcs
    <3> QED
      BY <1>7, <2>2, <3>1, TypedGoto, TypedStored DEF Lower
  <2> QED
    BY <2>1, <2>2
<1>8. ASSUME NEW t \in Threads, Codegen(t) PROVE Typed'
  BY <1>8, TypedRelease DEF Codegen, files
<1>9. ASSUME NEW t \in Threads, Protect(t) PROVE Typed'
  BY <1>9 DEF Protect, Goto, files, ThreadType, Pcs
<1>10. ASSUME NEW t \in Threads, Rename(t) PROVE Typed'
  <2>1. "request" \in Pcs
    BY DEF Pcs
  <2>2. th' \in [Threads -> ThreadType]
    BY <1>10, <2>1, TypedGoto, TypedStored DEF Rename
  <2>3. th[t].il \in IL
    BY DEF ThreadType
  <2> QED
    BY <1>10, <2>2, <2>3 DEF Rename
<1>11. ASSUME NEW t \in Threads, RequestTrim(t) PROVE Typed'
  BY <1>11, TypedStored DEF RequestTrim, files
<1>12. CASE TrimStep
  BY <1>12 DEF TrimStep, TrimStart, TrimList, TrimKeeps, TrimRemove, TrimEnd, files
<1>13. CASE ClearShared
  BY <1>13 DEF ClearShared, files
<1>14. CASE Edit
  <2>1. disk.entry \in Nat /\ disk.dep \in Nat
    BY DEF IL, Texts
  <2>2. disk.entry + 1 \in Texts /\ disk.dep + 1 \in Texts
    BY <1>14, <2>1 DEF Edit, Events, Texts
  <2>3. disk' \in IL
    BY <1>14, <2>2 DEF Edit, IL
  <2> QED
    BY <1>14, <2>3 DEF Edit, files
<1>15. CASE Crash
  BY <1>15, IdleTyped DEF Crash
<1>16. ASSUME NEW k \in Keys, NEW il \in IL, OtherStores(k, il) PROVE Typed'
  BY <1>16 DEF OtherStores
<1>17. ASSUME NEW k \in Keys, OtherTrims(k) PROVE Typed'
  BY <1>17 DEF OtherTrims
<1>18. CASE UNCHANGED vars
  BY <1>18 DEF vars, files
<1> QED
  BY <1>1, <1>2, <1>3, <1>4, <1>5, <1>6, <1>7, <1>8, <1>9, <1>10, <1>11, <1>12, <1>13, <1>14,
     <1>15, <1>16, <1>17, <1>18 DEF Next, Step

-----------------------------------------------------------------------------
(* The claims on shared programs: a thread that compiles, or waits for a     *)
(* compile, has its key in flight, and every key in flight has a thread that *)
(* compiles it.                                                              *)

Claims ==
  /\ \A t \in Threads : th[t].pc \in Claiming \/ At(t, "waiting") => th[t].il \in inFlight
  /\ \A il \in inFlight : \E t \in Threads : th[t].pc \in Claiming /\ th[t].il = il
  /\ OneCompileOfAKey

\* No program is claimed at first.
LEMMA ClaimsInit == Init => Claims
  BY DEF Init, Claims, OneCompileOfAKey, At, Claiming, IdleThread

\* A step of a thread that neither takes nor gives up a claim.
LEMMA ClaimsQuiet ==
  ASSUME Claims, NEW t \in Threads,
         inFlight' = inFlight,
         \A u \in Threads \ {t} : th'[u] = th[u],
         th'[t].pc \in Claiming <=> th[t].pc \in Claiming,
         th[t].pc \in Claiming => th'[t].il = th[t].il,
         th'[t].pc = "waiting" => th'[t].il \in inFlight
  PROVE  Claims'
<1>1. \A u \in Threads : th'[u].pc \in Claiming <=> th[u].pc \in Claiming
  OBVIOUS
<1>2. \A u \in Threads : th[u].pc \in Claiming => th'[u].il = th[u].il
  OBVIOUS
<1>3. \A u \in Threads : th'[u].pc \in Claiming \/ th'[u].pc = "waiting" => th'[u].il \in inFlight
  BY <1>1, <1>2 DEF Claims, At
<1>4. \A il \in inFlight : \E u \in Threads : th'[u].pc \in Claiming /\ th'[u].il = il
  BY <1>1, <1>2 DEF Claims
<1>5. OneCompileOfAKey'
  BY <1>1, <1>2 DEF Claims, OneCompileOfAKey
<1> QED
  BY <1>3, <1>4, <1>5 DEF Claims, At

\* The holder's release takes exactly its own claim and wakes the waiters
\* (InFlightClaim::~InFlightClaim).
LEMMA ClaimsRelease ==
  ASSUME Typed, Claims, NEW t \in Threads, th[t].pc \in Claiming, Release(t)
  PROVE  Claims'
<1>1. th'[t].pc = "idle"
  BY DEF Release, IdleThread
<1>2. ASSUME NEW u \in Threads \ {t}
      PROVE  /\ th'[u].il = th[u].il
             /\ th'[u].pc \in Claiming <=> th[u].pc \in Claiming
             /\ th'[u].pc # "waiting"
  <2>1. th'[u] = Woken(u) /\ th[u] \in ThreadType
    BY DEF Release, Typed
  <2> QED
    BY <2>1 DEF Woken, At, ThreadType, Claiming
<1>3. \A u \in Threads \ {t} : th[u].pc \in Claiming => th[u].il # th[t].il
  BY DEF Claims, OneCompileOfAKey
<1>4. inFlight' = inFlight \ {th[t].il}
  BY DEF Release
<1>5. "idle" \notin Claiming
  BY DEF Claiming
<1>6. ASSUME NEW u \in Threads, th'[u].pc \in Claiming \/ th'[u].pc = "waiting"
      PROVE  th'[u].il \in inFlight'
  <2>1. u # t
    BY <1>1, <1>5, <1>6
  <2>2. th[u].pc \in Claiming
    BY <1>2, <1>6, <2>1
  <2> QED
    BY <1>2, <1>3, <1>4, <2>1, <2>2 DEF Claims
<1>7. ASSUME NEW il \in inFlight'
      PROVE  \E u \in Threads : th'[u].pc \in Claiming /\ th'[u].il = il
  <2>1. PICK u \in Threads : th[u].pc \in Claiming /\ th[u].il = il
    BY <1>4 DEF Claims
  <2> QED
    BY <1>2, <1>4, <2>1
<1>8. OneCompileOfAKey'
  BY <1>1, <1>2, <1>5 DEF Claims, OneCompileOfAKey
<1> QED
  BY <1>6, <1>7, <1>8 DEF Claims, At

\* Claiming a program that nobody compiles (compileUnit) keeps one holder for
\* each claimed program.
LEMMA ClaimsTake ==
  ASSUME Typed, Claims, NEW t \in Threads, NEW pc \in Claiming,
         At(t, "claim"), ~Taken(th[t].il),
         inFlight' = inFlight \union {th[t].il}, Goto(t, pc)
  PROVE  Claims'
<1>1. th'[t].pc = pc /\ th'[t].il = th[t].il /\ \A u \in Threads \ {t} : th'[u] = th[u]
  BY DEF Goto, Typed, ThreadType
<1>2. \A u \in Threads : th[u].pc \in Claiming => th[u].il # th[t].il
  BY DEF Claims, Taken
<1>3. "claim" \notin Claiming /\ "waiting" \notin Claiming
  BY DEF Claiming
<1>4. \A u \in Threads : th'[u].pc \in Claiming \/ th'[u].pc = "waiting" => th'[u].il \in inFlight'
  BY <1>1 DEF Claims, At
<1>5. ASSUME NEW il \in inFlight'
      PROVE  \E u \in Threads : th'[u].pc \in Claiming /\ th'[u].il = il
  <2>1. CASE il = th[t].il
    BY <1>1, <2>1
  <2>2. CASE il \in inFlight
    <3>1. PICK u \in Threads : th[u].pc \in Claiming /\ th[u].il = il
      BY <2>2 DEF Claims
    <3>2. u # t
      BY <3>1, <1>3 DEF At
    <3> QED
      BY <3>1, <3>2, <1>1
  <2> QED
    BY <2>1, <2>2
<1>6. OneCompileOfAKey'
  BY <1>1, <1>2 DEF Claims, OneCompileOfAKey
<1> QED
  BY <1>4, <1>5, <1>6 DEF Claims, At

\* Every step keeps one holder for each claimed program.
LEMMA ClaimsStep == ASSUME Typed, Claims, [Next]_vars PROVE Claims'
<1> USE DEF At
<1>1. ASSUME NEW t \in Threads, Begin(t) \/ Load(t) \/ Verify(t) \/ Parse(t) \/ Import(t)
      PROVE  Claims'
  <2>1. th'[t].pc \notin Claiming /\ th[t].pc \notin Claiming /\ th'[t].pc # "waiting"
    <3>2. th[t] \in ThreadType
      BY DEF Typed
    <3>3. CASE Begin(t)
      BY <3>3, <3>2 DEF Begin, Typed, IdleThread, ThreadType, Claiming
    <3>4. CASE Load(t)
      BY <3>4, <3>2 DEF Load, Goto, Typed, ThreadType, Claiming
    <3>5. CASE Verify(t)
      BY <3>5, <3>2 DEF Verify, Typed, ThreadType, Claiming
    <3>6. CASE Parse(t)
      BY <3>6, <3>2 DEF Parse, Typed, ThreadType, Claiming
    <3>7. CASE Import(t)
      <4>1. CASE th' = [th EXCEPT ![t].pc = "claim", ![t].il.dep = disk.dep]
        BY <3>7, <3>2, <4>1 DEF Import, Typed, ThreadType, Claiming
      <4>2. CASE th' = [th EXCEPT ![t] = IdleThread]
        BY <3>7, <4>2 DEF Import, Typed, IdleThread, Claiming
      <4> QED
        BY <3>7, <4>1, <4>2 DEF Import
    <3> QED
      BY <1>1, <3>3, <3>4, <3>5, <3>6, <3>7
  <2>2. inFlight' = inFlight /\ \A u \in Threads \ {t} : th'[u] = th[u]
    BY <1>1 DEF Begin, Load, Verify, Parse, Import, Goto, Typed
  <2> QED
    BY <2>1, <2>2, ClaimsQuiet
<1>2. ASSUME NEW t \in Threads, Claim(t) PROVE Claims'
  <2>1. CASE Taken(th[t].il) /\ Goto(t, "waiting") /\ UNCHANGED inFlight
    BY <1>2, <2>1, ClaimsQuiet DEF Claim, Taken, Goto, Typed, ThreadType, Claiming
  <2>2. CASE th' = [th EXCEPT ![t] = IdleThread] /\ UNCHANGED inFlight
    BY <1>2, <2>2, ClaimsQuiet DEF Claim, Typed, IdleThread, Claiming
  <2>3. CASE /\ ~Taken(th[t].il)
             /\ inFlight' = inFlight \union {th[t].il}
             /\ Goto(t, IF th[t].store THEN "lower" ELSE "codegen")
    <3>1. (IF th[t].store THEN "lower" ELSE "codegen") \in Claiming
      BY DEF Claiming
    <3> QED
      BY <1>2, <2>3, <3>1, ClaimsTake DEF Claim
  <2> QED
    BY <1>2, <2>1, <2>2, <2>3 DEF Claim
<1>3. ASSUME NEW t \in Threads, Lower(t) PROVE Claims'
  <2>1. CASE Release(t)
    BY <1>3, <2>1, ClaimsRelease DEF Lower, Claiming
  <2>2. CASE (Goto(t, "protect") \/ Stored(t)) /\ UNCHANGED inFlight
    BY <1>3, <2>2, ClaimsQuiet DEF Lower, Goto, Stored, Typed, ThreadType, Claiming
  <2> QED
    BY <1>3, <2>1, <2>2 DEF Lower
<1>4. ASSUME NEW t \in Threads, Codegen(t) PROVE Claims'
  BY <1>4, ClaimsRelease DEF Codegen, Claiming
<1>5. ASSUME NEW t \in Threads, Protect(t) PROVE Claims'
  BY <1>5, ClaimsQuiet DEF Protect, Goto, Typed, ThreadType, Claiming
<1>6. ASSUME NEW t \in Threads, Rename(t) PROVE Claims'
  BY <1>6, ClaimsQuiet DEF Rename, Goto, Stored, Typed, ThreadType, Claiming
<1>7. ASSUME NEW t \in Threads, RequestTrim(t) PROVE Claims'
  BY <1>7, ClaimsQuiet DEF RequestTrim, Stored, Typed, ThreadType, Claiming
<1>8. CASE Crash
  BY <1>8 DEF Crash, Claims, OneCompileOfAKey, IdleThread, Claiming
<1>9. ASSUME UNCHANGED <<th, inFlight>> PROVE Claims'
  BY <1>9 DEF Claims, OneCompileOfAKey
<1>10. CASE TrimStep \/ ClearShared \/ Edit
  BY <1>9, <1>10 DEF TrimStep, TrimStart, TrimList, TrimKeeps, TrimRemove, TrimEnd, ClearShared, Edit
<1>11. ASSUME NEW k \in Keys, (\E il \in IL : OtherStores(k, il)) \/ OtherTrims(k) PROVE Claims'
  BY <1>9, <1>11 DEF OtherStores, OtherTrims
<1>12. CASE UNCHANGED vars
  BY <1>9, <1>12 DEF vars
<1> QED
  BY <1>1, <1>2, <1>3, <1>4, <1>5, <1>6, <1>7, <1>8, <1>10, <1>11, <1>12 DEF Next, Step

\* The invariant of the claims: every claim is held by exactly one thread that
\* compiles, and every waiter's program is claimed (eval.cpp, compileUnit).
LEMMA ClaimsHold == Spec => [](Typed /\ Claims)
  BY TypedInit, TypedStep, ClaimsInit, ClaimsStep, PTL DEF Spec

\* For any number of threads: two never compile the same shared program at
\* once, whatever fails on the way (eval.cpp, InFlightClaim).
THEOREM CompilesOnce == Spec => []OneCompileOfAKey
<1>1. Claims => OneCompileOfAKey
  BY DEF Claims
<1> QED
  BY <1>1, ClaimsHold, PTL

\* For any number of threads: whoever waits for a shared program waits for a
\* thread that is compiling it (compileUnit, ~InFlightClaim).
THEOREM WaitersAreHeld == Spec => []WaitersHaveAHolder
<1>1. Claims => WaitersHaveAHolder
  BY DEF Claims, WaitersHaveAHolder
<1> QED
  BY <1>1, ClaimsHold, PTL

-----------------------------------------------------------------------------
(* A hit: what the lookup has checked of the file it read, and what stays    *)
(* so until the program compiles.                                            *)

FromLookup == {"claim", "waiting", "lower", "protect", "rename", "request", "codegen"}

Looked(r) ==
  /\ r.pc = "import" => r.store
  /\ r.pc = "verify" => r.file.entry = r.text
  /\ r.pc \in FromLookup /\ ~r.store => r.file = r.il

Hits == \A t \in Threads : Looked(th[t])

\* Nothing was hit at first.
LEMMA HitsInit == Init => Hits
  BY DEF Init, Hits, Looked, FromLookup, IdleThread

\* A step of one thread.
LEMMA HitsOne ==
  ASSUME Hits, NEW t \in Threads, \A u \in Threads \ {t} : th'[u] = th[u], Looked(th'[t])
  PROVE  Hits'
  BY DEF Hits

\* The end of a compile turns no entry into a hit of other texts.
LEMMA HitsRelease ==
  ASSUME Typed, Hits, NEW t \in Threads, Release(t) PROVE Hits'
<1>1. Looked(IdleThread)
  BY DEF Looked, IdleThread, FromLookup
<1>2. ASSUME NEW u \in Threads PROVE Looked(Woken(u))
  <2>1. th[u] \in ThreadType /\ Looked(th[u])
    BY DEF Typed, Hits
  <2> QED
    BY <2>1 DEF Woken, At, Looked, FromLookup, ThreadType
<1> QED
  BY <1>1, <1>2 DEF Release, Hits

\* Every step keeps what was loaded equal to what its texts lower to.
LEMMA HitsStep == ASSUME Typed, Hits, [Next]_vars PROVE Hits'
<1> USE DEF At
<1>1. ASSUME NEW t \in Threads, Begin(t) PROVE Hits'
  BY <1>1, HitsOne DEF Begin, Typed, IdleThread, Looked, FromLookup
<1>2. ASSUME NEW t \in Threads, Load(t) PROVE Hits'
  <2>1. th[t] \in ThreadType /\ Looked(th[t])
    BY DEF Typed, Hits
  <2>2. Looked(th'[t]) /\ \A u \in Threads \ {t} : th'[u] = th[u]
    BY <1>2, <2>1 DEF Load, IsOfText, Goto, Typed, Looked, FromLookup, ThreadType
  <2> QED
    BY <2>2, HitsOne
<1>3. ASSUME NEW t \in Threads, Verify(t) PROVE Hits'
  <2> DEFINE read == [entry |-> th[t].text, dep |-> disk.dep]
  <2>1. th[t] \in ThreadType /\ Looked(th[t])
    BY DEF Typed, Hits
  <2>2. ASSUME th[t].file.dep = disk.dep PROVE th[t].file = read
    <3>1. th[t].file \in IL /\ th[t].file.entry = th[t].text
      BY <1>3, <2>1 DEF Verify, ThreadType, Looked
    <3> QED
      BY <2>2, <3>1 DEF IL
  <2>3. CASE th[t].file.dep = disk.dep
    <3>1. th' = [th EXCEPT ![t].pc = "claim", ![t].il = read]
      BY <1>3, <2>3 DEF Verify
    <3> HIDE DEF read
    <3>2. th'[t].pc = "claim" /\ th'[t].il = read /\ th'[t].file = th[t].file
      BY <2>1, <3>1 DEF Typed, ThreadType
    <3>3. Looked(th'[t])
      BY <2>2, <2>3, <3>2 DEF Looked
    <3> QED
      BY <3>1, <3>3, HitsOne DEF Typed
  <2>4. CASE th[t].file.dep # disk.dep
    BY <1>3, <2>1, <2>4, HitsOne DEF Verify, Typed, Looked, FromLookup, ThreadType
  <2> QED
    BY <2>3, <2>4
<1>4. ASSUME NEW t \in Threads, Parse(t) PROVE Hits'
  <2>1. PICK e : th' = [th EXCEPT ![t].pc = "import", ![t].il.entry = e, ![t].store = TRUE]
    BY <1>4 DEF Parse
  <2>2. Looked(th'[t]) /\ \A u \in Threads \ {t} : th'[u] = th[u]
    BY <2>1 DEF Typed, ThreadType, Looked, FromLookup
  <2> QED
    BY <2>2, HitsOne
<1>5. ASSUME NEW t \in Threads, Import(t) PROVE Hits'
  <2>1. CASE th' = [th EXCEPT ![t] = IdleThread]
    BY <2>1, HitsOne DEF Typed, IdleThread, Looked, FromLookup
  <2>2. CASE th' = [th EXCEPT ![t].pc = "claim", ![t].il.dep = disk.dep]
    <3>1. th[t].store
      BY <1>5 DEF Import, Hits, Looked
    <3>2. th'[t].pc = "claim" /\ th'[t].store
      BY <2>2, <3>1 DEF Typed, ThreadType
    <3> QED
      BY <2>2, <3>2, HitsOne DEF Typed, Looked
  <2> QED
    BY <1>5, <2>1, <2>2 DEF Import
<1>6. ASSUME NEW t \in Threads, Claim(t) PROVE Hits'
  <2>1. th[t] \in ThreadType /\ Looked(th[t])
    BY DEF Typed, Hits
  <2>2. Looked(th'[t]) /\ \A u \in Threads \ {t} : th'[u] = th[u]
    BY <1>6, <2>1 DEF Claim, Goto, IdleThread, Typed, Looked, FromLookup, ThreadType
  <2> QED
    BY <2>2, HitsOne
<1>7. ASSUME NEW t \in Threads, Lower(t) PROVE Hits'
  <2>1. CASE Release(t)
    BY <2>1, HitsRelease
  <2>2. CASE Goto(t, "protect") \/ Stored(t)
    <3>1. th[t] \in ThreadType /\ Looked(th[t])
      BY DEF Typed, Hits
    <3>2. Looked(th'[t]) /\ \A u \in Threads \ {t} : th'[u] = th[u]
      BY <1>7, <2>2, <3>1 DEF Lower, Goto, Stored, Typed, Looked, FromLookup, ThreadType
    <3> QED
      BY <3>2, HitsOne
  <2> QED
    BY <1>7, <2>1, <2>2 DEF Lower
<1>8. ASSUME NEW t \in Threads, Codegen(t) PROVE Hits'
  BY <1>8, HitsRelease DEF Codegen
<1>9. ASSUME NEW t \in Threads, Protect(t) \/ Rename(t) \/ RequestTrim(t) PROVE Hits'
  <2>1. th[t] \in ThreadType /\ Looked(th[t])
    BY DEF Typed, Hits
  <2>2. /\ th[t].pc \in {"protect", "rename", "request"}
        /\ Goto(t, "rename") \/ Goto(t, "request") \/ Stored(t)
    BY <1>9 DEF Protect, Rename, RequestTrim
  <2>3. Looked(th'[t]) /\ \A u \in Threads \ {t} : th'[u] = th[u]
    BY <2>1, <2>2 DEF Goto, Stored, Typed, Looked, FromLookup, ThreadType
  <2> QED
    BY <2>3, HitsOne
<1>10. CASE Crash
  BY <1>10 DEF Crash, Hits, Looked, IdleThread, FromLookup
<1>11. ASSUME UNCHANGED th PROVE Hits'
  BY <1>11 DEF Hits
<1>12. CASE TrimStep \/ ClearShared \/ Edit
  BY <1>11, <1>12 DEF TrimStep, TrimStart, TrimList, TrimKeeps, TrimRemove, TrimEnd, ClearShared, Edit
<1>13. ASSUME NEW k \in Keys, (\E il \in IL : OtherStores(k, il)) \/ OtherTrims(k) PROVE Hits'
  BY <1>11, <1>13 DEF OtherStores, OtherTrims
<1>14. CASE UNCHANGED vars
  BY <1>11, <1>14 DEF vars
<1> QED
  BY <1>1, <1>2, <1>3, <1>4, <1>5, <1>6, <1>7, <1>8, <1>9, <1>10, <1>12, <1>13, <1>14
     DEF Next, Step

\* For any number of threads, edits of the sources and crashes: the program
\* that a hit compiles was lowered from the texts its caller holds and the
\* lookup read (code_cache.cpp, load and verifyProvenance).
THEOREM HitsAreExact == Spec => []HitIsOfItsTexts
<1>1. Hits => HitIsOfItsTexts
  BY DEF Hits, Looked, FromLookup, HitIsOfItsTexts, At
<1> QED
  BY <1>1, TypedInit, TypedStep, HitsInit, HitsStep, PTL DEF Spec

-----------------------------------------------------------------------------
(* The trimmer *)

\* No walk is asked for at first.
LEMMA WalkedInit == Init => TrimRecord /\ AskedIsWalked
  BY DEF Init, FreshTrim, TrimRecord, AskedIsWalked

\* Every step keeps a requested walk pending until a listing begins
\* (Trimmer::run).
LEMMA WalkedStep ==
  ASSUME TrimRecord, AskedIsWalked, [Next]_vars PROVE TrimRecord' /\ AskedIsWalked'
<1> USE DEF TrimRecord, AskedIsWalked
<1>1. CASE UNCHANGED <<trim, asked>>
  BY <1>1
<1>2. ASSUME NEW t \in Threads, Protect(t) PROVE TrimRecord' /\ AskedIsWalked'
  BY <1>2 DEF Protect
<1>3. ASSUME NEW t \in Threads, RequestTrim(t) PROVE TrimRecord' /\ AskedIsWalked'
  BY <1>3 DEF RequestTrim
<1>4. CASE TrimStart
  BY <1>4 DEF TrimStart
<1>5. CASE TrimList
  BY <1>5 DEF TrimList
<1>6. CASE TrimKeeps
  <2>1. CASE Head(trim.items) = trim.keep
    BY <1>6, <2>1 DEF TrimKeeps
  <2>2. CASE Head(trim.items) # trim.keep
    <3>1. trim' = [trim EXCEPT !.walk = "unlink"] /\ asked' = asked /\ trim.walk = "remove"
      BY <1>6, <2>2 DEF TrimKeeps
    <3> QED
      BY <3>1
  <2> QED
    BY <2>1, <2>2
<1>14. CASE TrimRemove
  BY <1>14 DEF TrimRemove
<1>7. CASE TrimEnd
  BY <1>7 DEF TrimEnd, AfterWalk
<1>8. CASE Crash
  BY <1>8 DEF Crash, FreshTrim
<1>9. ASSUME NEW t \in Threads, Begin(t) \/ Load(t) \/ Verify(t) \/ Parse(t) \/ Import(t)
      PROVE  UNCHANGED <<trim, asked>>
  BY <1>9 DEF Begin, Load, Verify, Parse, Import
<1>10. ASSUME NEW t \in Threads, Claim(t) \/ Lower(t) \/ Codegen(t) \/ Rename(t)
       PROVE  UNCHANGED <<trim, asked>>
  BY <1>10 DEF Claim, Lower, Codegen, Rename
<1>11. ASSUME ClearShared \/ Edit PROVE UNCHANGED <<trim, asked>>
  BY <1>11 DEF ClearShared, Edit
<1>12. ASSUME NEW k \in Keys, (\E il \in IL : OtherStores(k, il)) \/ OtherTrims(k)
       PROVE  UNCHANGED <<trim, asked>>
  BY <1>12 DEF OtherStores, OtherTrims
<1>13. ASSUME UNCHANGED vars PROVE UNCHANGED <<trim, asked>>
  BY <1>13 DEF vars
<1> QED
  BY <1>1, <1>2, <1>3, <1>4, <1>5, <1>6, <1>7, <1>8, <1>9, <1>10, <1>11, <1>12, <1>13,
     <1>14 DEF Next, Step, TrimStep

\* A store that asks for a walk gets one that lists the directory after it,
\* although requests and walks overlap as they please (Trimmer::run).
THEOREM WalksFollowRequests == Spec => []AskedIsWalked
  BY WalkedInit, WalkedStep, PTL DEF Spec
=============================================================================
