------------------------- MODULE CompartmentContract -------------------------
(***************************************************************************)
(* What compartment.h promises the host of a thread's compartments: a      *)
(* compartment is created Idle; a job runs in it, from Idle, until it ends *)
(* (Idle), is suspended (Yielded) or dies (Terminated); only a Yielded one *)
(* is resumed; entering nests, and the stack that entered it runs again    *)
(* when it is left; terminating a Yielded one leaves it Terminated, and    *)
(* nothing runs in it again until it is destroyed.                         *)
(***************************************************************************)
CONSTANTS Comps, Host

VARIABLES
  on,       \* the stack that runs
  caller,   \* the stack an entered compartment returns to
  life,     \* what the host knows of each compartment
  purpose   \* why a Running compartment was entered

vars == <<on, caller, life, purpose>>

\* How each purpose may leave the compartment.
Outcomes(p) ==
  CASE p = "status"  -> {"Idle", "Yielded", "Terminated"}
    [] p = "nothing" -> {"Terminated"}
    [] p = "delete"  -> {"Absent"}

Init ==
  /\ on = Host
  /\ caller \in [Comps -> {Host}]
  /\ life = [c \in Comps |-> "Absent"]
  /\ purpose \in [Comps -> {"status"}]

Create(c) ==
  /\ life[c] = "Absent"
  /\ life' = [life EXCEPT ![c] = "Idle"]
  /\ UNCHANGED <<on, caller, purpose>>

Enter(c, p) ==
  /\ life[c] = "Yielded" \/ (life[c] = "Idle" /\ p = "status")
  /\ life' = [life EXCEPT ![c] = "Running"]
  /\ on' = c
  /\ caller' = [caller EXCEPT ![c] = on]
  /\ purpose' = [purpose EXCEPT ![c] = p]

Leave(c) ==
  /\ on = c
  /\ on' = caller[c]
  /\ \E l \in Outcomes(purpose[c]) : life' = [life EXCEPT ![c] = l]
  /\ UNCHANGED <<caller, purpose>>

\* Terminated between jobs.
End(c) ==
  /\ life[c] = "Idle"
  /\ life' = [life EXCEPT ![c] = "Terminated"]
  /\ UNCHANGED <<on, caller, purpose>>

Destroy(c) ==
  /\ life[c] \in {"Idle", "Terminated"}
  /\ life' = [life EXCEPT ![c] = "Absent"]
  /\ UNCHANGED <<on, caller, purpose>>

Next ==
  \E c \in Comps :
    \/ Create(c) \/ Leave(c) \/ End(c) \/ Destroy(c)
    \/ \E p \in {"status", "nothing", "delete"} : Enter(c, p)

Spec == Init /\ [][Next]_vars
=============================================================================
