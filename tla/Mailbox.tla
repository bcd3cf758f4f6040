------------------------------ MODULE Mailbox -------------------------------
(***************************************************************************)
(* What a machine promises for the events handed to it, whoever hands them *)
(* in: an event is refused or accepted; accepted events are run one at a   *)
(* time and to completion, each at most once; an event that is not wanted  *)
(* yet is given back and waits again; only an event of Losable may be lost *)
(* after it was accepted.                                                  *)
(***************************************************************************)
CONSTANTS Events, Losable

VARIABLE status

Statuses == {"unsent", "offered", "refused", "waiting", "running", "handled", "lost"}

Init == status = [e \in Events |-> "unsent"]

Move(E, from, to) ==
  /\ \A e \in E : status[e] \in from
  /\ status' = [e \in Events |-> IF e \in E THEN to ELSE status[e]]

Offer(e) == Move({e}, {"unsent"}, "offered")

Refuse(e) == Move({e}, {"offered"}, "refused")

\* A machine hands itself events without being asked whether it takes them.
Accept(e) == Move({e}, {"unsent", "offered"}, "waiting")

Run(e) ==
  /\ \A f \in Events : status[f] # "running"
  /\ Move({e}, {"waiting"}, "running")

Handle(e) == Move({e}, {"running"}, "handled")

GiveBack(e) == Move({e}, {"running"}, "waiting")

Lose(E) == E \subseteq Losable /\ Move(E, {"offered", "waiting", "running"}, "lost")

Next ==
  \/ \E e \in Events : \/ Offer(e) \/ Refuse(e) \/ Accept(e)
                       \/ Run(e) \/ Handle(e) \/ GiveBack(e)
  \/ \E E \in SUBSET Events : Lose(E)

Spec == Init /\ [][Next]_status
=============================================================================
