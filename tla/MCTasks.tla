------------------------------- MODULE MCTasks -------------------------------
(***************************************************************************)
(* A machine with a state busy, which has the activities poll (a function) *)
(* and fetch (a named operation), a state beat with a timer, and rest.     *)
(***************************************************************************)
EXTENDS Tasks

CONSTANTS busy, beat, rest, poll, fetch, tick, timeout, k1, k2

MCOwner == [b \in Bodies |-> IF b \in Timers THEN beat ELSE busy]

MCStarts == [s \in States |-> SelectSeq(<<poll, fetch, tick, timeout>>,
                                        LAMBDA b : b \in Bodies /\ MCOwner[b] = s)]

MCTarget == [t \in Timers |-> busy]

KeySymmetry == Permutations(Keys)

=============================================================================
