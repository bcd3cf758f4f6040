------------------------------ MODULE Nesting -------------------------------
(***************************************************************************)
(* What entering and leaving the states of a hierarchy promises: a state   *)
(* is entered only while its parent is active and none of its siblings is, *)
(* and left only when none of its children is active.                      *)
(***************************************************************************)
CONSTANTS
  States,   \* the states below the root
  Root,     \* always active, never entered
  Parent    \* the state, or the root, that a state is a child of

VARIABLE active

Init == active = {}

Enter(s) ==
  /\ Parent[s] \in active \cup {Root}
  /\ \A r \in active : Parent[r] # Parent[s]
  /\ active' = active \cup {s}

Exit(s) ==
  /\ s \in active
  /\ \A r \in active : Parent[r] # s
  /\ active' = active \ {s}

Next == \E s \in States : Enter(s) \/ Exit(s)

Spec == Init /\ [][Next]_active

-----------------------------------------------------------------------------

\* An active state's parent is active, and no two children of one parent are.
Chain ==
  /\ active \subseteq States
  /\ \A s \in active : Parent[s] \in active \cup {Root}
  /\ \A r, s \in active : Parent[r] = Parent[s] => r = s
=============================================================================
