----------------------------- MODULE OrderedMap -----------------------------
(***************************************************************************)
(* What a Map or Set promises its program: an insertion-ordered list of    *)
(* keys, a value for each, and an answer for every call.  Updating a key   *)
(* keeps its position; removing and adding it again moves it to the end.   *)
(* A weak table may also lose the keys nobody else holds.                  *)
(***************************************************************************)
EXTENDS Sequences, Filter

CONSTANTS Keys, Vals, Absent, NoKey

VARIABLES
  order,   \* the keys, oldest first
  val,     \* their values, Absent for the others
  held,    \* the keys the program can still name
  call,    \* the call the program is in
  ret      \* its answer, "none" until there is one

vars == <<order, val, held, call, ret>>

NoCall == [name |-> "none", key |-> NoKey, val |-> Absent]

Init ==
  /\ order = <<>>
  /\ val = [k \in Keys |-> Absent]
  /\ held = Keys
  /\ call = NoCall /\ ret = "none"

Without(s, gone) == Filtered(s, Keys \ gone)

Call(name, k, v) ==
  /\ call = NoCall
  /\ call' = [name |-> name, key |-> k, val |-> v]
  /\ UNCHANGED <<order, val, held, ret>>

Answers(name) == call.name = name /\ ret = "none"

Get ==
  /\ Answers("get")
  /\ ret' = val[call.key]
  /\ UNCHANGED <<order, val, held, call>>

Set ==
  /\ Answers("set")
  /\ ret' = "ok"
  /\ order' = IF val[call.key] = Absent THEN Append(order, call.key) ELSE order
  /\ val' = [val EXCEPT ![call.key] = call.val]
  /\ UNCHANGED <<held, call>>

Delete ==
  /\ Answers("delete")
  /\ ret' = IF val[call.key] = Absent THEN "false" ELSE "true"
  /\ order' = Without(order, {call.key})
  /\ val' = [val EXCEPT ![call.key] = Absent]
  /\ UNCHANGED <<held, call>>

Return ==
  /\ ret # "none"
  /\ call' = NoCall /\ ret' = "none"
  /\ UNCHANGED <<order, val, held>>

Clear ==
  /\ call = NoCall
  /\ order' = <<>>
  /\ val' = [k \in Keys |-> Absent]
  /\ UNCHANGED <<held, call, ret>>

Forget(k) ==
  /\ held' = held \ {k}
  /\ UNCHANGED <<order, val, call, ret>>

\* Only keys the program can no longer name may disappear.
Lose(gone) ==
  /\ gone \cap held = {}
  /\ order' = Without(order, gone)
  /\ val' = [k \in Keys |-> IF k \in gone THEN Absent ELSE val[k]]
  /\ UNCHANGED <<held, call, ret>>

Next ==
  \/ \E name \in {"get", "delete"}, k \in held : Call(name, k, Absent)
  \/ \E k \in held, v \in Vals : Call("set", k, v)
  \/ Get \/ Set \/ Delete \/ Return \/ Clear
  \/ \E k \in Keys : Forget(k)
  \/ \E gone \in SUBSET Keys : Lose(gone)

Spec == Init /\ [][Next]_vars
=============================================================================
