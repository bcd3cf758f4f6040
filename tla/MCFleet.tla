------------------------------- MODULE MCFleet -------------------------------
(***************************************************************************)
(* Machines alpha and bravo share the context home; guest is another one.  *)
(* The controller starts, stops and restarts them, singly and as a group,  *)
(* while the user dispatches and fans out, and behaviours fan out as well. *)
(***************************************************************************)
EXTENDS Fleet

CONSTANTS alpha, bravo, home, guest, control, user, a, b

MCName == [m \in Machines |-> IF m = alpha THEN a ELSE b]

\* bravo goes by the name of its model.
MCId == [m \in Machines |-> IF m = alpha THEN a ELSE None]

MCPrecedes == {<<alpha, bravo>>}

MCHome == [m \in Machines |-> home]

Fleet1 == <<alpha, bravo>>
Fleet2 == <<bravo>>

MCGroups == {Fleet1, Fleet2}

Call(verb, ctx, over) == [verb |-> verb, ctx |-> ctx, over |-> over]

Controls == {Call("group start", home, Fleet1), Call("stop", guest, alpha),
             Call("restart", home, bravo), Call("group restart", guest, Fleet2)}

Uses == {Call("fan out", home, {}), Call("to current", home, None),
         Call("dispatch", guest, alpha), Call("group dispatch", home, Fleet1)}

MCOffers == [c \in Clients |-> IF c = control THEN Controls ELSE Uses]

MCMaxCalls == [c \in Clients |-> IF c = control THEN 2 ELSE 1]

MCNested == {Call("fan out", home, {a})}

\* What Findable and ReachesAllStarted need of the machines and their users.
ASSUME Manageable == NamesApart /\ OneController

=============================================================================
