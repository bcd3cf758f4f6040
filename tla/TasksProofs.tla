----------------------------- MODULE TasksProofs -----------------------------
(***************************************************************************)
(* What holds of Tasks for any states, activities, timers and addresses:   *)
(* everything Tasks states.  A context that is gone leaves nothing in the  *)
(* tables; a task can be cancelled as long as it runs, and once cancelled  *)
(* only comes nearer to its end; the end of an activity is reported once;  *)
(* and an activity without the machine has lost it to one that ended.      *)
(*                                                                         *)
(* None of them is inductive.  All rest on Held, which says which state    *)
(* has a context at each point of a transition: at most one, the state the *)
(* machine is in or enters, and none while it is between two; and on       *)
(* Fresh: nothing that is still to be started has a task.                  *)
(***************************************************************************)
EXTENDS Tasks, SequenceFacts

\* The state that may have a context.
Holder == IF machine.at = "start" THEN machine.goal ELSE current

Held ==
  /\ \A s \in States : stateContexts[s] # None =>
       /\ s = Holder /\ ~Plain(s)
       /\ machine.at \notin {"read mark", "collect", "enter"}
  /\ machine.at \in {"idle", "release", "select", "cancel"} /\ ~Plain(current) =>
       stateContexts[current] # None
  /\ machine.at = "cancel" => ~Plain(current)
  /\ machine.at = "select" => machine.event # None
  /\ machine.at \in {"read mark", "collect"} => machine.key # None
  /\ machine.at = "start" =>
       /\ machine.goal \in States /\ machine.key # None
       /\ stateContexts[machine.goal] = machine.key
       /\ \A i \in DOMAIN machine.todo : Owner[machine.todo[i]] = machine.goal

\* What is still to be started has no task yet, and is started once.
Fresh ==
  machine.at = "start" =>
    /\ \A j \in DOMAIN machine.todo : pc[<<machine.todo[j], machine.key>>] = None
    /\ IsInjective(machine.todo)

\* What is listed under an address belongs to a state's context, or to one being cancelled.
Listed ==
  \A k \in Keys : active[k] # <<>> =>
    \/ \E s \in States : stateContexts[s] = k
    \/ machine.key = k /\ machine.at \in {"read mark", "collect"}

\* What is marked under an address is marked by a task.
Marked ==
  \A k \in Keys : running[k] # None =>
    \E a \in Activities : pc[<<a, k>>] = "runs marked"

\* The labels of an activity that has registered the machine and will take that back.
Registering == {"looks", "marks", "runs", "runs marked", "unregisters", "gives up"}

\* A registration that is not left behind will be taken back by a task.
Registered ==
  \A k \in registered \ unowned :
    \E a \in Activities : pc[<<a, k>>] \in Registering

\* A task that is not cancelled runs under the context of its state.
Owned ==
  \A i \in TaskIds : pc[i] # None /\ ~cancelled[i[2]] =>
    \E s \in States : stateContexts[s] = i[2] /\ Owner[i[1]] = s

\* A context that a state has is not cancelled.
Open == \A s \in States : stateContexts[s] # None => ~cancelled[stateContexts[s]]

\* The tasks under one address belong to one state.
OneOwner ==
  \A i, j \in TaskIds :
    i[2] = j[2] /\ pc[i] # None /\ pc[j] # None => Owner[i[1]] = Owner[j[1]]

\* An activity is listed, about to be reported, or reported: only one of them, and once.
IsListed(a, k) == a \in Range(active[k])

Accounted(a, k) ==
  /\ reports[<<a, k>>] <= 1
  /\ IsListed(a, k) \/ pc[<<a, k>>] = "checks" => reports[<<a, k>>] = 0
  /\ ~(IsListed(a, k) /\ pc[<<a, k>>] = "checks")

Unreported ==
  /\ \A a \in Activities, k \in Keys : Accounted(a, k)
  /\ \A k \in Keys : IsInjective(active[k])
  /\ machine.at = "start" =>
       \A n \in DOMAIN machine.todo : machine.todo[n] \in Activities =>
         /\ reports[<<machine.todo[n], machine.key>>] = 0
         /\ machine.todo[n] \notin Range(active[machine.key])

\* An activity without the registration has lost it to one that has ended for good.
Registers == {"looks", "marks"} \cup Running

Started(b, k) == ~(machine.at = "start" /\ machine.key = k /\ b \in Range(machine.todo))

Shared ==
  \A a \in Activities, k \in Keys :
    pc[<<a, k>>] \in Registers /\ k \notin registered =>
      \E b \in Activities \ {a} :
        Owner[b] = Owner[a] /\ pc[<<b, k>>] \in Ended /\ Started(b, k)

\* Timers and activities have labels of their own.
Labelled ==
  \A i \in TaskIds : /\ pc[i] \in TimerLabels => i[1] \in Timers
                     /\ pc[i] \in ActivityLabels => i[1] \in Activities

TasksInv ==
  /\ TypeOK /\ Labelled /\ Held /\ Fresh
  /\ Listed /\ Marked /\ Registered
  /\ Owned /\ Open /\ OneOwner /\ Unreported /\ Shared

-----------------------------------------------------------------------------
(* Sequences *)

\* The first of some element is at the least of its places.
LEMMA RemoveFirstAt ==
  ASSUME NEW E, NEW s \in Seq(E), NEW e, NEW n \in 1 .. Len(s), s[n] = e
  PROVE  \E m \in 1 .. Len(s) :
           s[m] = e /\ RemoveFirst(s, e) = SubSeq(s, 1, m - 1) \o SubSeq(s, m + 1, Len(s))
<1> DEFINE I == {i \in 1 .. Len(s) : s[i] = e}
           m == Min(I)
<1>1. I \in SUBSET Nat /\ I # {}
  OBVIOUS
<1>2. \E i \in I : \A k \in I : i <= k
  BY <1>1, LeastElement
<1>3. m \in I
  BY <1>2 DEF Min
<1>4. RemoveFirst(s, e) = SubSeq(s, 1, m - 1) \o SubSeq(s, m + 1, Len(s))
  BY <1>1 DEF RemoveFirst, RemoveAt, SelectInSeq
<1>5. QED BY <1>3, <1>4

\* Taking an element off leaves a sequence of the same set.
LEMMA RemoveFirstType ==
  ASSUME NEW E, NEW s \in Seq(E), NEW e
  PROVE  RemoveFirst(s, e) \in Seq(E)
<1>1. CASE \E i \in 1 .. Len(s) : s[i] = e
  <2>1. PICK m \in 1 .. Len(s) :
           RemoveFirst(s, e) = SubSeq(s, 1, m - 1) \o SubSeq(s, m + 1, Len(s))
    BY <1>1, RemoveFirstAt
  <2>2. SubSeq(s, 1, m - 1) \in Seq(E) /\ SubSeq(s, m + 1, Len(s)) \in Seq(E)
    OBVIOUS
  <2>3. QED BY <2>1, <2>2
<1>2. CASE ~\E i \in 1 .. Len(s) : s[i] = e
  BY <1>2 DEF RemoveFirst
<1>3. QED BY <1>1, <1>2

\* Of a list without repetitions it leaves the others, without repetitions.
LEMMA RemoveFirstRange ==
  ASSUME NEW E, NEW s \in Seq(E), NEW e, IsInjective(s)
  PROVE  /\ IsInjective(RemoveFirst(s, e))
         /\ Range(RemoveFirst(s, e)) = Range(s) \ {e}
<1>1. CASE \E i \in 1 .. Len(s) : s[i] = e
  <2>1. PICK m \in 1 .. Len(s) :
           s[m] = e /\ RemoveFirst(s, e) = SubSeq(s, 1, m - 1) \o SubSeq(s, m + 1, Len(s))
    BY <1>1, RemoveFirstAt
  <2> DEFINE q == RemoveFirst(s, e)
             p == SubSeq(s, 1, m - 1)
             t == SubSeq(s, m + 1, Len(s))
  <2>2. /\ p \in Seq(E) /\ Len(p) = m - 1 /\ \A n \in 1 .. m - 1 : p[n] = s[n]
        /\ t \in Seq(E) /\ Len(t) = Len(s) - m /\ \A n \in 1 .. Len(s) - m : t[n] = s[n + m]
    OBVIOUS
  <2> HIDE DEF p, t
  <2>3. /\ DOMAIN q = 1 .. Len(s) - 1
        /\ \A n \in 1 .. Len(s) - 1 : q[n] = IF n < m THEN s[n] ELSE s[n + 1]
    <3>1. q = p \o t
      BY <2>1 DEF p, t
    <3> HIDE DEF q
    <3>2. Len(q) = Len(s) - 1 /\ q \in Seq(E)
      BY <2>2, <3>1
    <3>3. \A n \in 1 .. Len(q) : q[n] = IF n <= Len(p) THEN p[n] ELSE t[n - Len(p)]
      BY <2>2, <3>1
    <3>4. ASSUME NEW n \in 1 .. Len(s) - 1 PROVE q[n] = IF n < m THEN s[n] ELSE s[n + 1]
      <4>1. CASE n < m
        BY <2>2, <3>2, <3>3, <4>1
      <4>2. CASE n >= m
        <5>1. q[n] = t[n - (m - 1)]
          BY <2>2, <3>2, <3>3, <4>2
        <5>2. n - (m - 1) \in 1 .. Len(s) - m /\ n - (m - 1) + m = n + 1
          BY <4>2
        <5>3. QED BY <2>2, <4>2, <5>1, <5>2
      <4>3. QED BY <4>1, <4>2
    <3>5. QED BY <3>2, <3>4
  <2> HIDE DEF q
  <2>4. \A i, j \in 1 .. Len(s) : s[i] = s[j] => i = j
    BY DEF IsInjective
  <2>5. IsInjective(q)
    BY <2>3, <2>4 DEF IsInjective
  <2>6. Range(q) \subseteq Range(s) \ {e}
    BY <2>1, <2>3, <2>4 DEF Range
  <2>7. ASSUME NEW x \in Range(s) \ {e} PROVE x \in Range(q)
    <3>1. PICK n \in 1 .. Len(s) : s[n] = x
      BY <2>7 DEF Range
    <3>2. CASE n < m
      BY <2>3, <3>1, <3>2 DEF Range
    <3>3. CASE n > m
      <4>1. n - 1 \in 1 .. Len(s) - 1 /\ q[n - 1] = x
        BY <2>3, <3>1, <3>3
      <4>2. QED BY <2>3, <4>1 DEF Range
    <3>4. QED BY <2>1, <2>7, <3>1, <3>2, <3>3
  <2>8. QED BY <2>5, <2>6, <2>7 DEF q
<1>2. CASE ~\E i \in 1 .. Len(s) : s[i] = e
  <2>1. RemoveFirst(s, e) = s
    BY <1>2 DEF RemoveFirst
  <2>2. QED BY <1>2, <2>1 DEF Range
<1>3. QED BY <1>1, <1>2

\* Nothing comes of an empty sequence.
LEMMA RemoveFirstOfEmpty == \A e : RemoveFirst(<<>>, e) = <<>>
BY DEF RemoveFirst

\* What an update of a function at one argument leaves at any other.
LEMMA ExceptAt ==
  ASSUME NEW f, NEW x, NEW y, NEW k \in DOMAIN f
  PROVE  [f EXCEPT ![x] = y][k] = IF k = x THEN y ELSE f[k]
OBVIOUS

-----------------------------------------------------------------------------
(* The invariant *)

LEMMA InvInit == Init => TasksInv
<1> SUFFICES ASSUME Init PROVE TasksInv
  OBVIOUS
<1>1. TypeOK
  BY TasksAssumption DEF Init, TypeOK, MachineLabels
<1>2. Held
  BY DEF Init, Held, Plain
<1>3. Listed /\ Marked /\ Registered /\ Owned /\ Open /\ OneOwner
  BY DEF Init, Listed, Marked, Registered, Owned, Open, OneOwner
<1>4. Labelled
  BY TasksAssumption DEF Init, Labelled, TaskIds, TimerLabels, ActivityLabels
<1>5. Fresh
  BY DEF Init, Fresh
<1>6. Unreported
  <2>1. machine.at = "idle" /\ \A k \in Keys : active[k] = <<>>
    BY DEF Init
  <2>2. IsInjective(<<>>) /\ Range(<<>>) = {}
    BY DEF IsInjective, Range
  <2>3. \A a \in Activities, k \in Keys : reports[<<a, k>>] = 0 /\ pc[<<a, k>>] = None
    BY DEF Init, TaskIds, Bodies
  <2>4. \A a \in Activities, k \in Keys : ~IsListed(a, k)
    BY <2>1, <2>2 DEF IsListed
  <2>5. ASSUME NEW a \in Activities, NEW k \in Keys PROVE Accounted(a, k)
    <3>1. reports[<<a, k>>] = 0 /\ pc[<<a, k>>] # "checks"
      BY <2>3, TasksAssumption DEF ActivityLabels
    <3>2. QED BY <2>4, <3>1 DEF Accounted
  <2>6. QED
    BY <2>1, <2>2, <2>4, <2>5 DEF Unreported
<1>7. Shared
  BY TasksAssumption
     DEF Init, Shared, Registers, Running, TaskIds, Bodies, ActivityLabels
<1>8. QED BY <1>1, <1>2, <1>3, <1>4, <1>5, <1>6, <1>7 DEF TasksInv

\* What is dispatched is queued, and who finds nobody draining drains.
LEMMA DispatchType ==
  ASSUME TypeOK, NEW i \in TaskIds \cup {Caller}, NEW e \in Events, Dispatch(i, e)
  PROVE  queue' \in Seq(Events) /\ drainer' \in TaskIds \cup {Caller, None}
<1>1. queue' = Append(queue, e) /\ queue \in Seq(Events)
  BY DEF TypeOK, Dispatch
<1>2. drainer' \in {drainer, i}
  BY DEF Dispatch
<1>3. QED BY <1>1, <1>2 DEF TypeOK

\* Every step keeps the types.
LEMMA TypeStep == TypeOK /\ Labelled /\ Held /\ [Next]_vars => TypeOK'
<1> SUFFICES ASSUME TypeOK, Labelled, Held, [Next]_vars PROVE TypeOK'
  OBVIOUS
<1> USE TasksAssumption DEF TypeOK
<1> DEFINE Machine == [at : MachineLabels, event : Events \cup {None}, key : Keys \cup {None},
                            mark : Activities \cup {None}, todo : Seq(Bodies),
                            goal : States \cup {Off}]
<1>1. ASSUME NEW i \in TaskIds, TimerWakes(i) PROVE TypeOK'
  BY <1>1 DEF TimerWakes, Goto, TimerLabels
<1>2. ASSUME NEW i \in TaskIds, TimerFires(i) PROVE TypeOK'
  <2>1. TimerEvent(i) \in Events
    BY <1>2 DEF TimerFires, Labelled, TimerLabels, TimerEvent, Events, TaskIds
  <2>2. queue' \in Seq(Events) /\ drainer' \in TaskIds \cup {Caller, None}
    BY <1>2, <2>1, DispatchType DEF TimerFires
  <2>3. QED BY <1>2, <2>2 DEF TimerFires, Goto, TimerLabels
<1>3. ASSUME NEW i \in TaskIds, TimerReturns(i) PROVE TypeOK'
  BY <1>3 DEF TimerReturns, Goto, Again, TimerLabels
<1>4. ASSUME NEW i \in TaskIds, ActivityBegins(i) PROVE TypeOK'
  BY <1>4 DEF ActivityBegins, TaskIds, Goto, RegisterMachine, ActivityLabels
<1>5. ASSUME NEW i \in TaskIds, OperationLooks(i) PROVE TypeOK'
  BY <1>5 DEF OperationLooks, Goto, ActivityLabels
<1>6. ASSUME NEW i \in TaskIds, BeginActivity(i) PROVE TypeOK'
  BY <1>6 DEF BeginActivity, Labelled, TaskIds, Goto, ActivityLabels
<1>7. ASSUME NEW i \in TaskIds, ActivityDispatches(i) PROVE TypeOK'
  <2>1. \A s \in Wishes : [to |-> s] \in Events
    BY DEF Events
  <2>2. queue' \in Seq(Events) /\ drainer' \in TaskIds \cup {Caller, None}
    BY <1>7, <2>1, DispatchType DEF ActivityDispatches
  <2>3. QED BY <1>7, <2>2 DEF ActivityDispatches
<1>8. ASSUME NEW i \in TaskIds, ActivityReturns(i) PROVE TypeOK'
  BY <1>8 DEF ActivityReturns, Goto, Completed, UnregisterMachine, MayFail, ActivityLabels
<1>9. ASSUME NEW i \in TaskIds, EndActivity(i) PROVE TypeOK'
  <2>1. running' \in [Keys -> Activities \cup {None}]
    BY <1>9 DEF EndActivity, Unmark, TaskIds
  <2>2. pc' \in [TaskIds -> TimerLabels \cup ActivityLabels \cup {None}]
    BY <1>9 DEF EndActivity, Goto, ActivityLabels
  <2>3. QED BY <1>9, <2>1, <2>2 DEF EndActivity
<1>10. ASSUME NEW i \in TaskIds, ActivityUnregisters(i) PROVE TypeOK'
  BY <1>10 DEF ActivityUnregisters, Goto, Completed, UnregisterMachine, ActivityLabels
<1>11. ASSUME NEW i \in TaskIds, ActivityPanics(i) PROVE TypeOK'
  BY <1>11 DEF ActivityPanics, TaskIds, Goto
<1>12. ASSUME NEW i \in TaskIds, ActivityFinishes(i) PROVE TypeOK'
  BY <1>12, RemoveFirstType DEF ActivityFinishes, TaskIds, Goto, FinishActivity, ActivityLabels
<1>13. ASSUME NEW i \in TaskIds, ActivityDone(i) PROVE TypeOK'
  BY <1>13 DEF ActivityDone, Goto, Reported
<1>14. CASE TakeEvent
  <2>1. Head(queue) \in Events /\ queue' \in Seq(Events)
    BY <1>14 DEF TakeEvent
  <2>2. machine' \in Machine
    BY <1>14, <2>1 DEF TakeEvent, MachineLabels
  <2>3. QED BY <1>14, <2>1, <2>2 DEF TakeEvent, Self
<1>15. CASE EndDrain \/ ReleaseDrain
  <2>1. machine \in Machine /\ \E l \in {"idle", "release"} : machine' = [machine EXCEPT !.at = l]
    BY <1>15 DEF EndDrain, ReleaseDrain
  <2>2. machine' \in Machine
    BY <2>1 DEF MachineLabels
  <2>3. QED BY <1>15, <2>2 DEF EndDrain, ReleaseDrain, Self
<1>16. CASE Select
  <2>1. machine \in Machine /\ machine.event \in Events
    BY <1>16 DEF Select, Held
  <2>2. (IF IsTimeEvent(machine.event) THEN Target[machine.event.timer] ELSE machine.event.to)
          \in States
    BY <2>1 DEF IsTimeEvent, Events
  <2>3. \/ \E l \in {"cancel", "enter"}, s \in States :
             machine' = [machine EXCEPT !.at = l, !.goal = s]
        \/ machine' = [machine EXCEPT !.at = "idle", !.event = None]
    <3> HIDE DEF TypeOK, Machine
    <3> QED BY <1>16, <2>2 DEF Select
  <2>4. machine' \in Machine
    <3>1. {"cancel", "enter", "idle"} \subseteq MachineLabels
      BY DEF MachineLabels
    <3> HIDE DEF TypeOK
    <3> QED BY <2>1, <2>3, <3>1
  <2>5. UNCHANGED <<cancelled, stateContexts, queue, drainer, current, Self>>
    BY <1>16 DEF Select
  <2>6. QED BY <2>4, <2>5 DEF Self
<1>17. CASE CancelContext
  BY <1>17 DEF CancelContext, Held, Plain, MachineLabels, Self
<1>18. CASE ReadMark
  BY <1>18 DEF ReadMark, Held, MachineLabels, Self
<1>19. CASE CancelActivities
  <2>1. active' \in [Keys -> Seq(Activities)]
    <3>1. <<>> \in Seq(Activities)
      OBVIOUS
    <3>2. QED BY <1>19, <3>1 DEF CancelActivities
  <2>2. reports' \in [Activities \X Keys -> Nat]
    BY <1>19 DEF CancelActivities, Reported
  <2>3. machine' \in Machine
    BY <1>19 DEF CancelActivities, MachineLabels
  <2>4. QED BY <1>19, <2>1, <2>2, <2>3 DEF CancelActivities
<1>20. CASE EnterPlain
  BY <1>20 DEF EnterPlain, Arrive, MachineLabels, Self
<1>21. CASE EnterState
  <2>1. PICK k \in Free :
           /\ cancelled' = [cancelled EXCEPT ![k] = FALSE]
           /\ stateContexts' = [stateContexts EXCEPT ![machine.goal] = k]
           /\ machine' = [machine EXCEPT !.at = "start", !.todo = Starts[machine.goal],
                                         !.key = k]
           /\ reports' = [i \in DOMAIN reports |-> IF i[2] = k THEN 0 ELSE reports[i]]
    BY <1>21 DEF EnterState
  <2>2. k \in Keys
    BY DEF Free
  <2>3. machine.goal \in States
    BY <1>21 DEF EnterState, Plain
  <2>4. machine' \in Machine
    BY <2>1, <2>2, <2>3 DEF MachineLabels
  <2>5. cancelled' \in [Keys -> BOOLEAN] /\ stateContexts' \in [States -> Keys \cup {None}]
    BY <2>1, <2>2, <2>3
  <2>6. reports' \in [Activities \X Keys -> Nat]
    BY <2>1
  <2>7. QED BY <1>21, <2>4, <2>5, <2>6 DEF EnterState
<1>22. CASE StartActivity
  <2>1. machine.key \in Keys
    BY <1>22 DEF StartActivity, Held
  <2>2. active' \in [Keys -> Seq(Activities)]
    BY <1>22, <2>1 DEF StartActivity, RegisterActivity
  <2>3. pc' \in [TaskIds -> TimerLabels \cup ActivityLabels \cup {None}]
    BY <1>22, <2>1 DEF StartActivity, ActivityLabels
  <2>4. machine' \in Machine
    <3>1. Tail(machine.todo) \in Seq(Bodies)
      BY <1>22 DEF StartActivity
    <3>2. QED BY <1>22, <3>1 DEF StartActivity, MachineLabels
  <2>5. QED BY <1>22, <2>2, <2>3, <2>4 DEF StartActivity
<1>23. CASE StartTimer
  <2>1. machine.key \in Keys
    BY <1>23 DEF StartTimer, Held
  <2>2. registered' \subseteq Keys /\ unowned' \subseteq Keys
    BY <1>23, <2>1 DEF StartTimer, RegisterMachine
  <2>3. pc' \in [TaskIds -> TimerLabels \cup ActivityLabels \cup {None}]
    BY <1>23, <2>1 DEF StartTimer, TimerLabels
  <2>4. machine' \in Machine
    <3>1. Tail(machine.todo) \in Seq(Bodies)
      BY <1>23 DEF StartTimer
    <3>2. QED BY <1>23, <3>1 DEF StartTimer, MachineLabels
  <2>5. QED BY <1>23, <2>2, <2>3, <2>4 DEF StartTimer
<1>24. CASE AllStarted
  BY <1>24 DEF AllStarted, Arrive, MachineLabels, Self
<1>25. CASE Invoke
  <2>1. \A s \in Wishes : [to |-> s] \in Events
    BY DEF Events
  <2>2. queue' \in Seq(Events) /\ drainer' \in TaskIds \cup {Caller, None}
    BY <1>25, <2>1, DispatchType DEF Invoke
  <2>3. QED BY <1>25, <2>2 DEF Invoke, Self
<1>26. CASE UNCHANGED vars
  BY <1>26 DEF vars
<1>27. QED
  BY <1>1, <1>2, <1>3, <1>4, <1>5, <1>6, <1>7, <1>8, <1>9, <1>10, <1>11, <1>12, <1>13,
     <1>14, <1>15, <1>16, <1>17, <1>18, <1>19, <1>20, <1>21, <1>22, <1>23, <1>24, <1>25,
     <1>26
     DEF Next, TimerStep, ActivityStep, Returns, MachineStep

\* A task keeps to the labels of its kind.
LEMMA LabelledStep == TypeOK /\ Labelled /\ Held /\ [Next]_vars => Labelled'
<1> SUFFICES ASSUME TypeOK, Labelled, Held, [Next]_vars PROVE Labelled'
  OBVIOUS
<1> USE TasksAssumption DEF TypeOK, Labelled
<1>1. ASSUME NEW i \in TaskIds, TimerWakes(i) PROVE Labelled'
  BY <1>1 DEF TimerWakes, Goto, TaskIds, TimerLabels, ActivityLabels
<1>2. ASSUME NEW i \in TaskIds, TimerFires(i) PROVE Labelled'
  BY <1>2 DEF TimerFires, Goto, TaskIds, TimerLabels, ActivityLabels
<1>3. ASSUME NEW i \in TaskIds, TimerReturns(i) PROVE Labelled'
  <2>1. /\ pc[i] = "sent"
        /\ \A j \in TaskIds : pc'[j] \in {pc[j], None} \/ (j = i /\ pc'[j] = "asleep")
    BY <1>3 DEF TimerReturns, Goto
  <2>2. QED BY <2>1 DEF TimerLabels, ActivityLabels
<1>4. ASSUME NEW i \in TaskIds, ActivityBegins(i) PROVE Labelled'
  BY <1>4 DEF ActivityBegins, Goto, TaskIds, TimerLabels, ActivityLabels
<1>5. ASSUME NEW i \in TaskIds, OperationLooks(i) PROVE Labelled'
  BY <1>5 DEF OperationLooks, Goto, TaskIds, TimerLabels, ActivityLabels
<1>6. ASSUME NEW i \in TaskIds, BeginActivity(i) PROVE Labelled'
  BY <1>6 DEF BeginActivity, Goto, TaskIds, TimerLabels, ActivityLabels
<1>7. ASSUME NEW i \in TaskIds, ActivityDispatches(i) PROVE Labelled'
  BY <1>7 DEF ActivityDispatches
<1>8. ASSUME NEW i \in TaskIds, ActivityReturns(i) PROVE Labelled'
  <2>1. /\ pc[i] = "runs"
        /\ \A j \in TaskIds : pc'[j] \in {pc[j], None} \/ (j = i /\ pc'[j] = "finishes")
    BY <1>8 DEF ActivityReturns, Completed, Goto
  <2>2. QED BY <2>1 DEF TimerLabels, ActivityLabels
<1>9. ASSUME NEW i \in TaskIds, ActivityUnregisters(i) PROVE Labelled'
  BY <1>9 DEF ActivityUnregisters, Goto, Completed, TaskIds, TimerLabels, ActivityLabels
<1>10. ASSUME NEW i \in TaskIds, ActivityPanics(i) PROVE Labelled'
  BY <1>10 DEF ActivityPanics, Goto, Completed, TaskIds, TimerLabels, ActivityLabels
<1>11. ASSUME NEW i \in TaskIds, EndActivity(i) PROVE Labelled'
  <2>1. /\ pc[i] = "runs marked"
        /\ \A j \in TaskIds :
             pc'[j] \in {pc[j], None} \/ (j = i /\ pc'[j] \in {"unregisters", "gives up"})
    BY <1>11 DEF EndActivity, Goto
  <2>2. QED BY <2>1 DEF TimerLabels, ActivityLabels
<1>12. ASSUME NEW i \in TaskIds, ActivityFinishes(i) PROVE Labelled'
  <2>1. /\ pc[i] = "finishes"
        /\ \A j \in TaskIds : pc'[j] \in {pc[j], None} \/ (j = i /\ pc'[j] = "checks")
    BY <1>12 DEF ActivityFinishes, Goto
  <2>2. QED BY <2>1 DEF TimerLabels, ActivityLabels
<1>13. ASSUME NEW i \in TaskIds, ActivityDone(i) PROVE Labelled'
  <2>1. \A j \in TaskIds : pc'[j] \in {pc[j], None}
    BY <1>13 DEF ActivityDone, Goto
  <2>2. QED BY <2>1 DEF TimerLabels, ActivityLabels
<1>14. CASE TakeEvent \/ EndDrain \/ ReleaseDrain \/ Select \/ CancelContext \/ ReadMark \/ EnterPlain
             \/ AllStarted \/ Invoke
  BY <1>14 DEF TakeEvent, EndDrain, ReleaseDrain, Select, CancelContext, ReadMark, EnterPlain, AllStarted, Invoke,
     Self
<1>15. CASE CancelActivities
  BY <1>15 DEF CancelActivities
<1>16. CASE EnterState
  BY <1>16 DEF EnterState
<1>17. CASE StartActivity
  <2>1. Head(machine.todo) \in Activities
    BY <1>17 DEF StartActivity
  <2>2. \A j \in TaskIds : /\ pc'[j] \in {pc[j], "spawned"}
                           /\ pc'[j] # pc[j] => j[1] = Head(machine.todo)
    BY <1>17 DEF StartActivity, TaskIds
  <2>3. QED BY <2>1, <2>2 DEF TimerLabels, ActivityLabels
<1>18. CASE StartTimer
  <2>1. Head(machine.todo) \in Timers
    BY <1>18 DEF StartTimer
  <2>2. pc' = pc \/ pc' = [pc EXCEPT ![<<Head(machine.todo), machine.key>>] = "asleep"]
    BY <1>18 DEF StartTimer
  <2>3. ASSUME NEW j \in TaskIds, pc'[j] # pc[j]
        PROVE  j = <<Head(machine.todo), machine.key>> /\ pc'[j] = "asleep"
    BY <2>2, <2>3
  <2>4. \A j \in TaskIds : pc'[j] # pc[j] => j[1] \in Timers /\ pc'[j] = "asleep"
    BY <2>1, <2>3
  <2>5. QED BY <2>4 DEF TimerLabels, ActivityLabels
<1>19. CASE UNCHANGED vars
  BY <1>19 DEF vars
<1>20. QED
  BY <1>1, <1>2, <1>3, <1>4, <1>5, <1>6, <1>7, <1>8, <1>9, <1>10, <1>11, <1>12, <1>13,
     <1>14, <1>15, <1>16, <1>17, <1>18, <1>19
     DEF Next, TimerStep, ActivityStep, Returns, MachineStep

\* A step of a task moves that task only.
Moves(i) == pc[i] # None /\ \A j \in TaskIds : j # i => pc'[j] = pc[j]

TaskStep(i) ==
  TimerStep(i) \/ ActivityStep(i) \/ ActivityDispatches(i) \/ Returns(i) \/ ActivityPanics(i)

LEMMA TaskMoves ==
  ASSUME TypeOK, NEW i \in TaskIds, TaskStep(i)
  PROVE  Moves(i) /\ UNCHANGED <<cancelled, stateContexts, current, machine>>
<1> USE TasksAssumption DEF TypeOK, Moves, TimerLabels, ActivityLabels
<1>1. CASE TimerWakes(i)
  BY <1>1 DEF TimerWakes, Goto
<1>2. CASE TimerFires(i)
  BY <1>2 DEF TimerFires, Goto
<1>3. CASE TimerReturns(i)
  BY <1>3 DEF TimerReturns, Goto
<1>4. CASE ActivityBegins(i)
  BY <1>4 DEF ActivityBegins, Goto
<1>5. CASE OperationLooks(i)
  BY <1>5 DEF OperationLooks, Goto
<1>6. CASE BeginActivity(i)
  BY <1>6 DEF BeginActivity, Goto
<1>7. CASE ActivityDispatches(i)
  BY <1>7 DEF ActivityDispatches, Goto, Running
<1>8. CASE ActivityReturns(i)
  BY <1>8 DEF ActivityReturns, Goto, Completed
<1>9. CASE EndActivity(i)
  BY <1>9 DEF EndActivity, Goto
<1>10. CASE ActivityUnregisters(i)
  BY <1>10 DEF ActivityUnregisters, Goto, Completed
<1>11. CASE ActivityPanics(i)
  BY <1>11 DEF ActivityPanics, Goto
<1>12. CASE ActivityFinishes(i)
  BY <1>12 DEF ActivityFinishes, Goto
<1>13. CASE ActivityDone(i)
  BY <1>13 DEF ActivityDone, Goto
<1>14. QED
  BY <1>1, <1>2, <1>3, <1>4, <1>5, <1>6, <1>7, <1>8, <1>9, <1>10, <1>11, <1>12, <1>13
     DEF TaskStep, TimerStep, ActivityStep, Returns

\* At most one state has a context, and which one follows from where the machine is.
LEMMA HeldStep == TypeOK /\ Held /\ [Next]_vars => Held'
<1> SUFFICES ASSUME TypeOK, Held, [Next]_vars PROVE Held'
  OBVIOUS
<1> USE TasksAssumption DEF TypeOK, Held, Holder, Plain
<1>1. ASSUME NEW i \in TaskIds, TaskStep(i) PROVE Held'
  BY <1>1, TaskMoves
<1>2. CASE TakeEvent
  <2>1. Head(queue) \in Events
    BY <1>2 DEF TakeEvent
  <2>2. Head(queue) # None
    BY <2>1
  <2>3. QED BY <1>2, <2>2 DEF TakeEvent, Self
<1>3. CASE EnterState
  <2>1. PICK k \in Free :
           /\ stateContexts' = [stateContexts EXCEPT ![machine.goal] = k]
           /\ machine' = [machine EXCEPT !.at = "start", !.todo = Starts[machine.goal],
                                         !.key = k]
    BY <1>3 DEF EnterState
  <2>2. k \in Keys /\ k # None
    BY DEF Free
  <2>3. machine.goal \in States /\ Starts[machine.goal] # <<>> /\ machine.at = "enter"
    BY <1>3 DEF EnterState
  <2>4. \A i \in DOMAIN Starts[machine.goal] : Owner[Starts[machine.goal][i]] = machine.goal
    BY <2>3 DEF Range
  <2>5. \A s \in States : stateContexts[s] = None
    BY <2>3
  <2>6. QED BY <2>1, <2>2, <2>3, <2>4, <2>5
<1>4. CASE StartActivity
  <2>1. machine.at = "start" /\ machine.todo # <<>> /\ machine.todo \in Seq(Bodies)
    BY <1>4 DEF StartActivity
  <2>2. machine' = [machine EXCEPT !.todo = Tail(machine.todo)]
    BY <1>4 DEF StartActivity
  <2>3. \A i \in DOMAIN Tail(machine.todo) :
           i + 1 \in DOMAIN machine.todo /\ Tail(machine.todo)[i] = machine.todo[i + 1]
    BY <2>1
  <2>4. /\ machine'.at = "start" /\ machine'.goal = machine.goal /\ machine'.key = machine.key
        /\ machine'.todo = Tail(machine.todo)
    BY <2>1, <2>2
  <2>5. UNCHANGED <<stateContexts, current>>
    BY <1>4 DEF StartActivity
  <2>6. QED BY <2>1, <2>3, <2>4, <2>5
<1>5. CASE StartTimer
  <2>1. machine.at = "start" /\ machine.todo # <<>> /\ machine.todo \in Seq(Bodies)
    BY <1>5 DEF StartTimer
  <2>2. machine' = [machine EXCEPT !.todo = Tail(machine.todo)]
    BY <1>5 DEF StartTimer
  <2>3. \A i \in DOMAIN Tail(machine.todo) :
           i + 1 \in DOMAIN machine.todo /\ Tail(machine.todo)[i] = machine.todo[i + 1]
    BY <2>1
  <2>4. /\ machine'.at = "start" /\ machine'.goal = machine.goal /\ machine'.key = machine.key
        /\ machine'.todo = Tail(machine.todo)
    BY <2>1, <2>2
  <2>5. UNCHANGED <<stateContexts, current>>
    BY <1>5 DEF StartTimer
  <2>6. QED BY <2>1, <2>3, <2>4, <2>5
<1>6. CASE EndDrain \/ ReleaseDrain
  <2>1. /\ machine.at \in {"idle", "release"} /\ machine'.at \in {"idle", "release"}
        /\ UNCHANGED <<stateContexts, current>>
    BY <1>6 DEF EndDrain, ReleaseDrain
  <2>2. QED BY <2>1
<1>7. CASE Select
  BY <1>7 DEF Select, Leaves, Self
<1>8. CASE CancelContext
  BY <1>8 DEF CancelContext, Self
<1>9. CASE ReadMark
  BY <1>9 DEF ReadMark, Self
<1>10. CASE CancelActivities
  BY <1>10 DEF CancelActivities
<1>11. CASE EnterPlain
  BY <1>11 DEF EnterPlain, Arrive, Self
<1>12. CASE AllStarted
  BY <1>12 DEF AllStarted, Arrive, Self
<1>13. CASE Invoke
  BY <1>13 DEF Invoke, Self
<1>14. CASE UNCHANGED vars
  BY <1>14 DEF vars
<1>15. QED
  BY <1>1, <1>2, <1>3, <1>4, <1>5, <1>6, <1>7, <1>8, <1>9, <1>10, <1>11, <1>12, <1>13,
     <1>14
     DEF Next, TaskStep, MachineStep

\* Each task is started once, under an address that no task has.
LEMMA FreshStep == TypeOK /\ Held /\ Fresh /\ [Next]_vars => Fresh'
<1> SUFFICES ASSUME TypeOK, Held, Fresh, [Next]_vars PROVE Fresh'
  OBVIOUS
<1> USE TasksAssumption DEF TypeOK, Fresh
<1>1. ASSUME NEW i \in TaskIds, TaskStep(i) PROVE Fresh'
  <2>1. machine.at = "start" => machine.key \in Keys
    BY DEF Held
  <2>2. machine.at = "start" =>
          \A j \in DOMAIN machine.todo : <<machine.todo[j], machine.key>> \in TaskIds
    BY <2>1 DEF TaskIds
  <2>3. QED BY <1>1, <2>2, TaskMoves DEF Moves
<1>2. CASE TakeEvent
  BY <1>2 DEF TakeEvent, Self
<1>3. CASE EndDrain \/ ReleaseDrain
  BY <1>3 DEF EndDrain, ReleaseDrain, Self
<1>4. CASE Select
  BY <1>4 DEF Select, Leaves, Self
<1>5. CASE CancelContext
  BY <1>5 DEF CancelContext, Self
<1>6. CASE ReadMark
  BY <1>6 DEF ReadMark, Self
<1>7. CASE CancelActivities
  BY <1>7 DEF CancelActivities
<1>8. CASE EnterPlain
  BY <1>8 DEF EnterPlain, Arrive, Self
<1>9. CASE AllStarted
  BY <1>9 DEF AllStarted, Arrive, Self
<1>10. CASE Invoke
  BY <1>10 DEF Invoke, Self
<1>11. CASE EnterState
  <2>1. PICK k \in Free :
           machine' = [machine EXCEPT !.at = "start", !.todo = Starts[machine.goal], !.key = k]
    BY <1>11 DEF EnterState
  <2>2. machine.goal \in States /\ pc' = pc
    BY <1>11 DEF EnterState, Plain
  <2>3. \A b \in Bodies : pc[<<b, k>>] = None
    BY DEF Free, Live
  <2>4. Starts[machine.goal] \in Seq(Bodies) /\ IsInjective(Starts[machine.goal])
    BY <2>2
  <2>5. QED BY <2>1, <2>2, <2>3, <2>4
<1>12. CASE StartActivity
  <2>1. machine.at = "start" /\ machine.todo # <<>> /\ machine.key \in Keys
    BY <1>12 DEF StartActivity, Held
  <2>2. machine' = [machine EXCEPT !.todo = Tail(machine.todo)]
    BY <1>12 DEF StartActivity
  <2>3. \A j \in DOMAIN Tail(machine.todo) :
          /\ Tail(machine.todo)[j] = machine.todo[j + 1] /\ j + 1 \in DOMAIN machine.todo
          /\ j + 1 # 1 /\ 1 \in DOMAIN machine.todo
    BY <2>1
  <2>4. \A j \in DOMAIN Tail(machine.todo) :
          /\ pc[<<Tail(machine.todo)[j], machine.key>>] = None
          /\ Tail(machine.todo)[j] # Head(machine.todo) /\ Tail(machine.todo)[j] \in Bodies
    BY <2>1, <2>3 DEF IsInjective
  <2>5. IsInjective(Tail(machine.todo))
    BY <2>1, <2>3 DEF IsInjective
  <2>6. \A b \in Bodies :
          b # Head(machine.todo) => pc'[<<b, machine.key>>] = pc[<<b, machine.key>>]
    BY <1>12, <2>1 DEF StartActivity, TaskIds
  <2>7. QED BY <2>2, <2>4, <2>5, <2>6
<1>13. CASE StartTimer
  <2>1. machine.at = "start" /\ machine.todo # <<>> /\ machine.key \in Keys
    BY <1>13 DEF StartTimer, Held
  <2>2. machine' = [machine EXCEPT !.todo = Tail(machine.todo)]
    BY <1>13 DEF StartTimer
  <2>3. \A j \in DOMAIN Tail(machine.todo) :
          /\ Tail(machine.todo)[j] = machine.todo[j + 1] /\ j + 1 \in DOMAIN machine.todo
          /\ j + 1 # 1 /\ 1 \in DOMAIN machine.todo
    BY <2>1
  <2>4. \A j \in DOMAIN Tail(machine.todo) :
          /\ pc[<<Tail(machine.todo)[j], machine.key>>] = None
          /\ Tail(machine.todo)[j] # Head(machine.todo) /\ Tail(machine.todo)[j] \in Bodies
    BY <2>1, <2>3 DEF IsInjective
  <2>5. IsInjective(Tail(machine.todo))
    BY <2>1, <2>3 DEF IsInjective
  <2>6. \A b \in Bodies :
          b # Head(machine.todo) => pc'[<<b, machine.key>>] = pc[<<b, machine.key>>]
    BY <1>13, <2>1 DEF StartTimer, TaskIds
  <2>7. QED BY <2>2, <2>4, <2>5, <2>6
<1>14. CASE UNCHANGED vars
  BY <1>14 DEF vars
<1>15. QED
  BY <1>1, <1>2, <1>3, <1>4, <1>5, <1>6, <1>7, <1>8, <1>9, <1>10, <1>11, <1>12, <1>13,
     <1>14
     DEF Next, TaskStep, MachineStep

\* Only the entry of a state lists activities, and its exit takes them all off.
LEMMA ListedStep == TypeOK /\ Held /\ Listed /\ [Next]_vars => Listed'
<1> SUFFICES ASSUME TypeOK, Held, Listed, [Next]_vars PROVE Listed'
  OBVIOUS
<1> USE TasksAssumption DEF TypeOK, Listed
<1>1. ASSUME NEW i \in TaskIds,
             TimerWakes(i) \/ TimerFires(i) \/ TimerReturns(i) \/ ActivityBegins(i)
             \/ OperationLooks(i) \/ BeginActivity(i)
      PROVE  Listed'
  <2>1. UNCHANGED <<active, stateContexts, machine>>
    BY <1>1 DEF TimerWakes, TimerFires, TimerReturns, ActivityBegins, OperationLooks, BeginActivity
  <2>2. QED BY <2>1
<1>2. ASSUME NEW i \in TaskIds,
             ActivityDispatches(i) \/ ActivityReturns(i) \/ EndActivity(i)
             \/ ActivityUnregisters(i) \/ ActivityPanics(i) \/ ActivityDone(i)
      PROVE  Listed'
  <2>1. UNCHANGED <<active, stateContexts, machine>>
    BY <1>2 DEF ActivityDispatches, ActivityReturns, EndActivity, ActivityUnregisters, ActivityPanics,
           ActivityDone
  <2>2. QED BY <2>1
<1>3. ASSUME NEW i \in TaskIds, ActivityFinishes(i) PROVE Listed'
  <2>1. UNCHANGED <<stateContexts, machine>>
    BY <1>3 DEF ActivityFinishes
  <2>2. ASSUME NEW k \in Keys, active[k] = <<>> PROVE active'[k] = <<>>
    <3>1. active' = [active EXCEPT ![i[2]] = RemoveFirst(active[i[2]], i[1])]
      BY <1>3 DEF ActivityFinishes, FinishActivity
    <3>2. k \in DOMAIN active
      OBVIOUS
    <3>3. active'[k] = IF k = i[2] THEN RemoveFirst(active[i[2]], i[1]) ELSE active[k]
      BY ONLY <3>1, <3>2, ExceptAt
    <3>4. CASE k = i[2]
      BY <2>2, <3>3, <3>4, RemoveFirstOfEmpty
    <3>5. CASE k # i[2]
      BY <2>2, <3>3, <3>5
    <3>6. QED BY <3>4, <3>5
  <2>3. QED BY <2>1, <2>2
<1>4. CASE TakeEvent
  BY <1>4 DEF TakeEvent, Self
<1>5. CASE EndDrain \/ ReleaseDrain
  BY <1>5 DEF EndDrain, ReleaseDrain, Self
<1>6. CASE Select
  BY <1>6 DEF Select, Self
<1>7. CASE CancelContext
  <2>1. \A s \in States : stateContexts[s] # None => s = current
    BY <1>7 DEF CancelContext, Held, Holder
  <2>2. /\ machine'.key = stateContexts[current] /\ machine'.at = "read mark"
        /\ active' = active
    BY <1>7 DEF CancelContext, Self
  <2>3. QED BY <1>7, <2>1, <2>2 DEF CancelContext
<1>8. CASE ReadMark
  BY <1>8 DEF ReadMark, Self
<1>9. CASE CancelActivities
  <2>1. \A k \in Keys : active'[k] # <<>> => active[k] # <<>> /\ k # machine.key
    BY <1>9 DEF CancelActivities
  <2>2. stateContexts' = stateContexts
    BY <1>9 DEF CancelActivities
  <2>3. QED BY <2>1, <2>2
<1>10. CASE EnterPlain
  BY <1>10 DEF EnterPlain, Arrive, Self
<1>11. CASE EnterState
  <2>1. \A s \in States : stateContexts[s] = None
    BY <1>11 DEF EnterState, Held
  <2>2. active' = active /\ machine.at = "enter"
    BY <1>11 DEF EnterState
  <2>3. \A k \in Keys : active[k] = <<>>
    BY <2>1, <2>2
  <2>4. QED BY <2>2, <2>3
<1>12. CASE StartActivity
  <2>1. machine.goal \in States /\ stateContexts[machine.goal] = machine.key
    BY <1>12 DEF StartActivity, Held
  <2>2. \A k \in Keys : active'[k] # <<>> => active[k] # <<>> \/ k = machine.key
    BY <1>12 DEF StartActivity, RegisterActivity
  <2>3. stateContexts' = stateContexts /\ machine.at = "start"
    BY <1>12 DEF StartActivity
  <2>4. \A k \in Keys : active[k] # <<>> => \E s \in States : stateContexts[s] = k
    BY <2>3
  <2>5. \A k \in Keys : active'[k] # <<>> => \E s \in States : stateContexts'[s] = k
    BY <2>1, <2>2, <2>3, <2>4
  <2>6. QED BY <2>5
<1>13. CASE StartTimer
  <2>1. UNCHANGED <<active, stateContexts>> /\ machine.at = "start"
    BY <1>13 DEF StartTimer
  <2>2. QED BY <2>1
<1>14. CASE AllStarted
  <2>1. UNCHANGED <<active, stateContexts>> /\ machine.at = "start"
    BY <1>14 DEF AllStarted, Self
  <2>2. QED BY <2>1
<1>15. CASE Invoke
  BY <1>15 DEF Invoke, Self
<1>16. CASE UNCHANGED vars
  BY <1>16 DEF vars
<1>17. QED
  BY <1>1, <1>2, <1>3, <1>4, <1>5, <1>6, <1>7, <1>8, <1>9, <1>10, <1>11, <1>12, <1>13,
     <1>14, <1>15, <1>16
     DEF Next, TimerStep, ActivityStep, Returns, MachineStep

\* The machine starts tasks where there is none and touches no other.
LEMMA MachineKeepsTasks ==
  ASSUME TypeOK, Held, Fresh, MachineStep \/ Invoke
  PROVE  running' = running /\ \A j \in TaskIds : pc[j] # None => pc'[j] = pc[j]
<1> USE TasksAssumption DEF TypeOK
<1>1. CASE Invoke \/ TakeEvent \/ EndDrain \/ ReleaseDrain \/ Select \/ CancelContext \/ ReadMark
           \/ CancelActivities \/ EnterPlain \/ EnterState \/ AllStarted
  BY <1>1 DEF Invoke, TakeEvent, EndDrain, ReleaseDrain, Select, CancelContext, ReadMark, CancelActivities,
              EnterPlain, EnterState, AllStarted, Self
<1>2. CASE StartActivity
  <2>1. /\ machine.at = "start" /\ 1 \in DOMAIN machine.todo
        /\ Head(machine.todo) = machine.todo[1]
    BY <1>2 DEF StartActivity
  <2>2. pc[<<Head(machine.todo), machine.key>>] = None
    BY <2>1 DEF Fresh
  <2>3. QED BY <1>2, <2>2 DEF StartActivity
<1>3. CASE StartTimer
  <2>1. /\ machine.at = "start" /\ 1 \in DOMAIN machine.todo
        /\ Head(machine.todo) = machine.todo[1]
    BY <1>3 DEF StartTimer
  <2>2. pc[<<Head(machine.todo), machine.key>>] = None
    BY <2>1 DEF Fresh
  <2>3. QED BY <1>3, <2>2 DEF StartTimer
<1>4. QED BY <1>1, <1>2, <1>3 DEF MachineStep

\* The steps of a task by what they do to the mark and the registration of its address.
LEMMA TasksAndTables ==
  ASSUME TypeOK, Labelled, NEW i \in TaskIds, TaskStep(i)
  PROVE  /\ \/ running' = running /\ (pc[i] = "runs marked" => pc'[i] = "runs marked")
            \/ /\ pc[i] = "marks" /\ pc'[i] = "runs marked" /\ i[1] \in Activities
               /\ running' = [running EXCEPT ![i[2]] = i[1]]
            \/ pc[i] = "runs marked" /\ running' = [running EXCEPT ![i[2]] = None]
         /\ \/ /\ registered' \ unowned' \subseteq registered \ unowned
               /\ pc[i] \in Registering => pc'[i] \in Registering
            \/ registered' \ unowned' \subseteq (registered \ unowned) \ {i[2]}
            \/ /\ registered' \ unowned' \subseteq (registered \ unowned) \cup {i[2]}
               /\ pc'[i] \in Registering /\ i[1] \in Activities
<1> USE TasksAssumption DEF TypeOK, Registering, Labelled, TimerLabels, ActivityLabels
<1>1. CASE TimerWakes(i)
  BY <1>1 DEF TimerWakes, Goto
<1>2. CASE TimerFires(i)
  BY <1>2 DEF TimerFires, Goto
<1>3. CASE TimerReturns(i)
  BY <1>3 DEF TimerReturns, Goto
<1>4. CASE ActivityBegins(i)
  <2>1. pc[i] = "spawned" /\ running' = running /\ unowned' = unowned
    BY <1>4 DEF ActivityBegins
  <2>2. pc'[i] \in {"looks", "runs"} /\ registered' = registered \cup {i[2]}
    BY <1>4 DEF ActivityBegins, Goto, RegisterMachine
  <2>3. QED BY <2>1, <2>2
<1>5. CASE OperationLooks(i)
  BY <1>5 DEF OperationLooks, Goto
<1>6. CASE BeginActivity(i)
  BY <1>6 DEF BeginActivity, Goto
<1>7. CASE ActivityDispatches(i)
  BY <1>7 DEF ActivityDispatches, Goto
<1>8. CASE ActivityReturns(i)
  BY <1>8 DEF ActivityReturns, Goto, Completed, UnregisterMachine
<1>9. CASE EndActivity(i)
  <2>1. pc[i] = "runs marked" /\ UNCHANGED <<registered, unowned>>
    BY <1>9 DEF EndActivity
  <2>2. running' = [running EXCEPT ![i[2]] = None]
    BY <1>9 DEF EndActivity, Unmark
  <2>3. pc'[i] \in {"unregisters", "gives up"}
    BY <1>9 DEF EndActivity, Goto
  <2>4. QED BY <2>1, <2>2, <2>3
<1>10. CASE ActivityUnregisters(i)
  BY <1>10 DEF ActivityUnregisters, Goto, Completed, UnregisterMachine
<1>11. CASE ActivityPanics(i)
  BY <1>11 DEF ActivityPanics, Goto
<1>12. CASE ActivityFinishes(i)
  BY <1>12 DEF ActivityFinishes, Goto
<1>13. CASE ActivityDone(i)
  BY <1>13 DEF ActivityDone, Goto
<1>14. QED
  BY <1>1, <1>2, <1>3, <1>4, <1>5, <1>6, <1>7, <1>8, <1>9, <1>10, <1>11, <1>12, <1>13
     DEF TaskStep, TimerStep, ActivityStep, Returns

\* A mark is removed by the task that set it, before that task goes on.
LEMMA MarkedStep == TypeOK /\ Labelled /\ Held /\ Fresh /\ Marked /\ [Next]_vars => Marked'
<1> SUFFICES ASSUME TypeOK, Labelled, Held, Fresh, Marked, [Next]_vars,
                    NEW k \in Keys, running'[k] # None
             PROVE  \E a \in Activities : pc'[<<a, k>>] = "runs marked"
  BY DEF Marked
<1> USE TasksAssumption DEF TypeOK
<1>1. ASSUME NEW i \in TaskIds, TaskStep(i)
      PROVE  \E a \in Activities : pc'[<<a, k>>] = "runs marked"
  <2>1. i = <<i[1], i[2]>> /\ i[1] \in Bodies /\ i[2] \in Keys
    BY DEF TaskIds
  <2> DEFINE Kept == \A a \in Activities : <<a, k>> # i => pc'[<<a, k>>] = pc[<<a, k>>]
  <2>2. Kept
    <3>1. \A j \in TaskIds : j # i => pc'[j] = pc[j]
      BY <1>1, TaskMoves DEF Moves
    <3>2. QED BY <3>1 DEF TaskIds, Bodies
  <2>3. CASE running' = running /\ (pc[i] = "runs marked" => pc'[i] = "runs marked")
    BY <2>2, <2>3 DEF Marked
  <2>4. CASE /\ pc[i] = "marks" /\ pc'[i] = "runs marked" /\ i[1] \in Activities
             /\ running' = [running EXCEPT ![i[2]] = i[1]]
    <3>1. CASE k = i[2]
      BY <2>1, <2>4, <3>1
    <3>2. CASE k # i[2]
      <4>1. running[k] # None
        BY <2>1, <2>4, <3>2
      <4>2. PICK a \in Activities : pc[<<a, k>>] = "runs marked"
        BY <4>1 DEF Marked
      <4>3. QED BY <2>2, <2>4, <4>2
    <3>3. QED BY <3>1, <3>2
  <2>5. CASE pc[i] = "runs marked" /\ running' = [running EXCEPT ![i[2]] = None]
    <3>1. k # i[2]
      BY <2>1, <2>5
    <3>2. running[k] # None
      BY <2>1, <2>5, <3>1
    <3>3. PICK a \in Activities : pc[<<a, k>>] = "runs marked"
      BY <3>2 DEF Marked
    <3>4. <<a, k>> # i
      BY <2>1, <3>1
    <3>5. QED BY <2>2, <3>3, <3>4
  <2>6. QED BY <1>1, <2>3, <2>4, <2>5, TasksAndTables
<1>2. CASE MachineStep \/ Invoke
  <2>1. PICK a \in Activities : pc[<<a, k>>] = "runs marked"
    BY <1>2, MachineKeepsTasks DEF Marked
  <2>2. <<a, k>> \in TaskIds /\ pc[<<a, k>>] # None
    BY <2>1 DEF TaskIds, Bodies, ActivityLabels
  <2>3. QED BY <1>2, <2>1, <2>2, MachineKeepsTasks
<1>3. CASE UNCHANGED vars
  BY <1>3 DEF vars, Marked
<1>4. QED BY <1>1, <1>2, <1>3 DEF Next, TaskStep

\* A registration that is not left behind is taken back by one of the tasks that share it.
LEMMA RegisteredStep ==
  TypeOK /\ Labelled /\ Held /\ Fresh /\ Registered /\ [Next]_vars => Registered'
<1> SUFFICES ASSUME TypeOK, Labelled, Held, Fresh, Registered, [Next]_vars,
                    NEW k \in registered' \ unowned'
             PROVE  \E a \in Activities : pc'[<<a, k>>] \in Registering
  BY DEF Registered
<1> USE TasksAssumption DEF TypeOK
<1>1. ASSUME NEW i \in TaskIds, TaskStep(i)
      PROVE  \E a \in Activities : pc'[<<a, k>>] \in Registering
  <2>1. i = <<i[1], i[2]>> /\ i[1] \in Bodies /\ i[2] \in Keys
    BY DEF TaskIds
  <2>2. ASSUME k \in registered \ unowned, k # i[2]
        PROVE  \E a \in Activities : pc'[<<a, k>>] \in Registering
    <3>1. PICK a \in Activities : pc[<<a, k>>] \in Registering
      BY <2>2 DEF Registered
    <3>2. <<a, k>> \in TaskIds /\ <<a, k>> # i
      BY <2>1, <2>2 DEF TaskIds, Bodies
    <3>3. QED BY <1>1, <3>1, <3>2, TaskMoves DEF Moves
  <2>3. CASE /\ registered' \ unowned' \subseteq registered \ unowned
             /\ pc[i] \in Registering => pc'[i] \in Registering
    <3>1. PICK a \in Activities : pc[<<a, k>>] \in Registering
      BY <2>3 DEF Registered
    <3>2. <<a, k>> \in TaskIds
      BY <2>3 DEF TaskIds, Bodies
    <3>3. QED BY <1>1, <2>3, <3>1, <3>2, TaskMoves DEF Moves
  <2>4. CASE registered' \ unowned' \subseteq (registered \ unowned) \ {i[2]}
    BY <2>2, <2>4
  <2>5. CASE /\ registered' \ unowned' \subseteq (registered \ unowned) \cup {i[2]}
             /\ pc'[i] \in Registering /\ i[1] \in Activities
    BY <2>1, <2>2, <2>5
  <2>6. QED BY <1>1, <2>3, <2>4, <2>5, TasksAndTables
<1>2. CASE MachineStep \/ Invoke
  <2>1. registered' \ unowned' \subseteq registered \ unowned
    BY <1>2 DEF MachineStep, Invoke, TakeEvent, EndDrain, ReleaseDrain, Select, CancelContext, ReadMark,
                CancelActivities, EnterPlain, EnterState, StartActivity, StartTimer,
                RegisterMachine, AllStarted, Self
  <2>2. PICK a \in Activities : pc[<<a, k>>] \in Registering
    BY <2>1 DEF Registered
  <2>3. <<a, k>> \in TaskIds /\ pc[<<a, k>>] # None
    BY <2>1, <2>2 DEF TaskIds, Bodies, Registering, ActivityLabels
  <2>4. QED BY <1>2, <2>2, <2>3, MachineKeepsTasks
<1>3. CASE UNCHANGED vars
  BY <1>3 DEF vars, Registered
<1>4. QED BY <1>1, <1>2, <1>3 DEF Next, TaskStep

\* A new task starts under its state's context, and a context that goes is cancelled.
LEMMA OwnedStep == TypeOK /\ Held /\ Owned /\ [Next]_vars => Owned'
<1> SUFFICES ASSUME TypeOK, Held, Owned, [Next]_vars,
                    NEW j \in TaskIds, pc'[j] # None, ~cancelled'[j[2]]
             PROVE  \E s \in States : stateContexts'[s] = j[2] /\ Owner[j[1]] = s
  BY DEF Owned
<1> USE TasksAssumption DEF TypeOK
<1>1. j = <<j[1], j[2]>> /\ j[1] \in Bodies /\ j[2] \in Keys
  BY DEF TaskIds
<1>2. ASSUME UNCHANGED <<cancelled, stateContexts>>, pc[j] # None
      PROVE  \E s \in States : stateContexts'[s] = j[2] /\ Owner[j[1]] = s
  BY <1>2 DEF Owned
<1>3. ASSUME NEW i \in TaskIds, TaskStep(i)
      PROVE  pc[j] # None /\ UNCHANGED <<cancelled, stateContexts>>
  BY <1>3, TaskMoves DEF Moves
<1>4. CASE TakeEvent \/ EndDrain \/ ReleaseDrain \/ Select \/ ReadMark \/ CancelActivities \/ EnterPlain
           \/ AllStarted \/ Invoke
  <2>1. UNCHANGED <<pc, cancelled, stateContexts>>
    BY <1>4 DEF TakeEvent, EndDrain, ReleaseDrain, Select, ReadMark, CancelActivities, EnterPlain, AllStarted,
                Invoke, Self
  <2>2. QED BY <1>2, <2>1
<1>5. CASE CancelContext
  <2>1. /\ cancelled' = [cancelled EXCEPT ![stateContexts[current]] = TRUE]
        /\ pc' = pc /\ machine.at = "cancel"
    BY <1>5 DEF CancelContext, Self
  <2>2. ~cancelled[j[2]] /\ j[2] # stateContexts[current]
    BY <1>1, <2>1
  <2>3. PICK s \in States : stateContexts[s] = j[2]
    BY <2>1, <2>2 DEF Owned
  <2>4. s = current
    BY <1>1, <2>1, <2>3 DEF Held, Holder
  <2>5. QED BY <2>2, <2>3, <2>4
<1>6. CASE EnterState
  <2>1. PICK k \in Free : cancelled' = [cancelled EXCEPT ![k] = FALSE]
    BY <1>6 DEF EnterState
  <2>2. pc' = pc /\ machine.at = "enter"
    BY <1>6 DEF EnterState
  <2>3. j[2] # k
    BY <1>1, <2>2 DEF Free, Live
  <2>4. ~cancelled[j[2]]
    BY <1>1, <2>1, <2>3
  <2>5. PICK s \in States : stateContexts[s] = j[2]
    BY <2>2, <2>4 DEF Owned
  <2>6. QED BY <1>1, <2>2, <2>5 DEF Held
<1>7. CASE StartActivity \/ StartTimer
  <2>1. /\ UNCHANGED <<cancelled, stateContexts>>
        /\ machine.at = "start" /\ machine.todo # <<>>
    BY <1>7 DEF StartActivity, StartTimer
  <2>2. /\ 1 \in DOMAIN machine.todo /\ Head(machine.todo) = machine.todo[1]
        /\ machine.goal \in States /\ stateContexts[machine.goal] = machine.key
        /\ Owner[machine.todo[1]] = machine.goal
    BY <2>1 DEF Held
  <2>3. pc[j] # None \/ j = <<Head(machine.todo), machine.key>>
    BY <1>7 DEF StartActivity, StartTimer
  <2>4. CASE j = <<Head(machine.todo), machine.key>>
    BY <2>1, <2>2, <2>4
  <2>5. QED BY <1>2, <2>1, <2>3, <2>4
<1>8. CASE UNCHANGED vars
  BY <1>2, <1>8 DEF vars
<1>9. QED
  BY <1>2, <1>3, <1>4, <1>5, <1>6, <1>7, <1>8 DEF Next, TaskStep, MachineStep

\* A context is cancelled when it has left the table, and a new one is not.
LEMMA OpenStep == TypeOK /\ Held /\ Open /\ [Next]_vars => Open'
<1> SUFFICES ASSUME TypeOK, Held, Open, [Next]_vars PROVE Open'
  OBVIOUS
<1> USE TasksAssumption DEF TypeOK
<1>1. CASE UNCHANGED <<cancelled, stateContexts>>
  BY <1>1 DEF Open
<1>2. ASSUME NEW i \in TaskIds, TaskStep(i) PROVE UNCHANGED <<cancelled, stateContexts>>
  BY <1>2, TaskMoves
<1>3. CASE TakeEvent \/ EndDrain \/ ReleaseDrain \/ Select \/ ReadMark \/ CancelActivities \/ EnterPlain
           \/ StartActivity \/ StartTimer \/ AllStarted \/ Invoke
  BY <1>1, <1>3 DEF TakeEvent, EndDrain, ReleaseDrain, Select, ReadMark, CancelActivities, EnterPlain,
                    StartActivity, StartTimer, AllStarted, Invoke
<1>4. CASE CancelContext
  BY <1>4 DEF CancelContext, Held, Holder, Open
<1>5. CASE EnterState
  <2>1. PICK k \in Free : /\ cancelled' = [cancelled EXCEPT ![k] = FALSE]
                          /\ stateContexts' = [stateContexts EXCEPT ![machine.goal] = k]
    BY <1>5 DEF EnterState
  <2>2. \A s \in States : stateContexts[s] = None
    BY <1>5 DEF EnterState, Held
  <2>3. k \in Keys /\ \A s \in States : stateContexts'[s] \in {None, k}
    BY <2>1, <2>2 DEF Free
  <2>4. QED BY <2>1, <2>3 DEF Open
<1>6. CASE UNCHANGED vars
  BY <1>1, <1>6 DEF vars
<1>7. QED BY <1>1, <1>2, <1>3, <1>4, <1>5, <1>6 DEF Next, TaskStep, MachineStep

\* What the machine starts is the only task that appears, and it appears under the context
\* of the state that is entered.
LEMMA MachineStarts ==
  ASSUME TypeOK, Held, MachineStep \/ Invoke, NEW j \in TaskIds, pc'[j] # pc[j]
  PROVE  /\ machine.at = "start" /\ 1 \in DOMAIN machine.todo
         /\ j = <<machine.todo[1], machine.key>> /\ pc'[j] \in {"asleep", "spawned"}
         /\ machine.goal \in States /\ stateContexts[machine.goal] = machine.key
         /\ Owner[machine.todo[1]] = machine.goal
<1> USE TasksAssumption DEF TypeOK
<1>1. CASE Invoke \/ TakeEvent \/ EndDrain \/ ReleaseDrain \/ Select \/ CancelContext \/ ReadMark
           \/ CancelActivities \/ EnterPlain \/ EnterState \/ AllStarted
  BY <1>1 DEF Invoke, TakeEvent, EndDrain, ReleaseDrain, Select, CancelContext, ReadMark, CancelActivities,
              EnterPlain, EnterState, AllStarted, Self
<1>2. CASE StartActivity \/ StartTimer
  <2>1. machine.at = "start" /\ machine.todo # <<>>
    BY <1>2 DEF StartActivity, StartTimer
  <2>2. 1 \in DOMAIN machine.todo /\ Head(machine.todo) = machine.todo[1]
    BY <2>1
  <2>3. j = <<Head(machine.todo), machine.key>> /\ pc'[j] \in {"asleep", "spawned"}
    BY <1>2 DEF StartActivity, StartTimer
  <2>4. QED BY <2>1, <2>2, <2>3 DEF Held
<1>3. QED BY <1>1, <1>2 DEF MachineStep

\* A task starts beside tasks of the same state only.
LEMMA OneOwnerStep ==
  TypeOK /\ Held /\ Owned /\ Open /\ OneOwner /\ [Next]_vars => OneOwner'
<1> SUFFICES ASSUME TypeOK, Held, Owned, Open, OneOwner, [Next]_vars PROVE OneOwner'
  OBVIOUS
<1> USE TasksAssumption DEF TypeOK
<1>1. ASSUME NEW i \in TaskIds, TaskStep(i) PROVE OneOwner'
  <2>1. \A j \in TaskIds : pc'[j] # None => pc[j] # None
    BY <1>1, TaskMoves DEF Moves
  <2>2. QED BY <2>1 DEF OneOwner
<1>2. CASE MachineStep \/ Invoke
  <2>1. ASSUME NEW j \in TaskIds, pc'[j] # pc[j],
               NEW i \in TaskIds, i[2] = j[2], pc'[i] # None
        PROVE  Owner[i[1]] = Owner[j[1]]
    <3>1. /\ machine.at = "start" /\ j = <<machine.todo[1], machine.key>>
          /\ machine.goal \in States /\ stateContexts[machine.goal] = machine.key
          /\ Owner[machine.todo[1]] = machine.goal
      BY <1>2, <2>1, MachineStarts
    <3>2. CASE pc'[i] # pc[i]
      <4>1. i = <<machine.todo[1], machine.key>>
        BY <1>2, <3>2, MachineStarts
      <4>2. QED BY <3>1, <4>1
    <3>3. CASE pc'[i] = pc[i]
      <4>1. machine.key # None /\ ~cancelled[machine.key]
        BY <3>1 DEF Held, Open
      <4>2. PICK s \in States : stateContexts[s] = machine.key /\ Owner[i[1]] = s
        BY <2>1, <3>1, <3>3, <4>1 DEF Owned
      <4>3. s = machine.goal
        BY <3>1, <4>1, <4>2 DEF Held, Holder
      <4>4. QED BY <3>1, <4>2, <4>3
    <3>4. QED BY <3>2, <3>3
  <2>2. SUFFICES ASSUME NEW i \in TaskIds, NEW j \in TaskIds,
                        i[2] = j[2], pc'[i] # None, pc'[j] # None
                 PROVE  Owner[i[1]] = Owner[j[1]]
    BY DEF OneOwner
  <2>3. CASE pc'[i] = pc[i] /\ pc'[j] = pc[j]
    BY <2>2, <2>3 DEF OneOwner
  <2>4. QED BY <2>1, <2>2, <2>3
<1>3. CASE UNCHANGED vars
  BY <1>3 DEF vars, OneOwner
<1>4. QED BY <1>1, <1>2, <1>3 DEF Next, TaskStep

\* The steps of a task by what they do to the list and the reports of its address.
LEMMA TasksAndReports ==
  ASSUME TypeOK, Unreported, NEW i \in TaskIds, TaskStep(i)
  PROVE  \/ UNCHANGED <<active, reports>> /\ pc'[i] # "checks"
         \/ /\ pc[i] = "finishes" /\ UNCHANGED reports
            /\ active' = [active EXCEPT ![i[2]] = RemoveFirst(@, i[1])]
            /\ pc'[i] = "checks" => i[1] \in Range(active[i[2]])
         \/ /\ pc[i] = "checks" /\ pc'[i] = None /\ UNCHANGED active
            /\ \A a \in Activities, k \in Keys :
                 \/ reports'[<<a, k>>] = reports[<<a, k>>]
                 \/ <<a, k>> = i /\ reports'[<<a, k>>] = reports[<<a, k>>] + 1
<1>0. i = <<i[1], i[2]>>
  BY DEF TaskIds
<1> USE TasksAssumption DEF TypeOK, ActivityLabels
<1>1. CASE TimerStep(i)
  BY <1>1 DEF TimerStep, TimerWakes, TimerFires, TimerReturns, Goto
<1>2. CASE ActivityBegins(i) \/ OperationLooks(i) \/ BeginActivity(i) \/ ActivityPanics(i)
  BY <1>2 DEF ActivityBegins, OperationLooks, BeginActivity, ActivityPanics, Goto
<1>3. CASE ActivityDispatches(i)
  BY <1>3 DEF ActivityDispatches, Running
<1>4. CASE ActivityReturns(i) \/ ActivityUnregisters(i)
  BY <1>4 DEF ActivityReturns, ActivityUnregisters, Completed, Goto
<1>5. CASE EndActivity(i)
  <2>1. pc'[i] \in {"unregisters", "gives up"}
    BY <1>5 DEF EndActivity, Goto
  <2>2. QED BY <1>5, <2>1 DEF EndActivity
<1>6. CASE ActivityFinishes(i)
  BY <1>6 DEF ActivityFinishes, FinishActivity, Goto
<1>7. CASE ActivityDone(i)
  <2>1. pc[i] = "checks" /\ pc'[i] = None /\ UNCHANGED active
    BY <1>7 DEF ActivityDone, Goto
  <2>2. ASSUME NEW a \in Activities, NEW k \in Keys
        PROVE  \/ reports'[<<a, k>>] = reports[<<a, k>>]
               \/ <<a, k>> = i /\ reports'[<<a, k>>] = reports[<<a, k>>] + 1
    <3>1. \/ reports'[<<a, k>>] = reports[<<a, k>>]
          \/ a = i[1] /\ k = i[2] /\ reports'[<<a, k>>] = reports[<<a, k>>] + 1
      BY <1>7 DEF ActivityDone, Reported
    <3>2. QED BY <1>0, <3>1
  <2>3. QED BY <2>1, <2>2
<1>8. QED
  BY <1>1, <1>2, <1>3, <1>4, <1>5, <1>6, <1>7 DEF TaskStep, ActivityStep, Returns

\* The end of an activity is reported by whoever takes it off the list.
LEMMA UnreportedStep ==
  TypeOK /\ Held /\ Fresh /\ Listed /\ Unreported /\ [Next]_vars => Unreported'
<1> SUFFICES ASSUME TypeOK, Held, Fresh, Listed, Unreported, [Next]_vars
             PROVE  Unreported'
  OBVIOUS
<1>0. /\ \A a \in Activities, k \in Keys : <<a, k>> \in TaskIds /\ reports[<<a, k>>] \in Nat
      /\ active \in [Keys -> Seq(Activities)]
  BY DEF TypeOK, TaskIds, Bodies
<1>1. ASSUME NEW i \in TaskIds, TaskStep(i) PROVE Unreported'
  <2>1. /\ UNCHANGED machine /\ pc[i] # None
        /\ \A j \in TaskIds : j # i => pc'[j] = pc[j]
    BY <1>1, TaskMoves DEF Moves
  <2>2. i[2] \in Keys /\ i = <<i[1], i[2]>>
    BY DEF TaskIds
  <2> DEFINE Nothing == UNCHANGED <<active, reports>> /\ pc'[i] # "checks"
             Finish == /\ pc[i] = "finishes" /\ UNCHANGED reports
                       /\ active' = [active EXCEPT ![i[2]] = RemoveFirst(@, i[1])]
                       /\ pc'[i] = "checks" => i[1] \in Range(active[i[2]])
             Done == /\ pc[i] = "checks" /\ pc'[i] = None /\ UNCHANGED active
                     /\ \A a \in Activities, k \in Keys :
                          \/ reports'[<<a, k>>] = reports[<<a, k>>]
                          \/ <<a, k>> = i /\ reports'[<<a, k>>] = reports[<<a, k>>] + 1
  <2>3. Nothing \/ Finish \/ Done
    BY <1>1, TasksAndReports
  <2>4. ASSUME Finish
        PROVE  /\ \A k \in Keys : k # i[2] => active'[k] = active[k]
               /\ IsInjective(active'[i[2]])
               /\ Range(active'[i[2]]) = Range(active[i[2]]) \ {i[1]}
    <3>1. active'[i[2]] = RemoveFirst(active[i[2]], i[1])
      BY <1>0, <2>2, <2>4
    <3>2. active[i[2]] \in Seq(Activities) /\ IsInjective(active[i[2]])
      BY <1>0, <2>2 DEF Unreported
    <3>3. QED BY <1>0, <2>4, <3>1, <3>2, RemoveFirstRange
  <2>5. ASSUME NEW k \in Keys PROVE IsInjective(active'[k])
    <3>1. IsInjective(active[k])
      BY DEF Unreported
    <3>2. QED BY <2>3, <2>4, <3>1
  <2>6. ASSUME NEW a \in Activities, NEW k \in Keys, <<a, k>> # i
        PROVE  /\ reports'[<<a, k>>] = reports[<<a, k>>] /\ pc'[<<a, k>>] = pc[<<a, k>>]
               /\ IsListed(a, k)' => IsListed(a, k)
    <3>1. <<a, k>> \in TaskIds /\ <<a, k>> \in Activities \X Keys
      BY <1>0
    <3>2. QED BY <2>1, <2>3, <2>4, <2>6, <3>1 DEF IsListed
  <2>7. ASSUME NEW a \in Activities, NEW k \in Keys PROVE Accounted(a, k)'
    <3>1. Accounted(a, k) /\ reports[<<a, k>>] \in Nat
      BY <1>0 DEF Unreported
    <3>2. CASE <<a, k>> # i
      BY <2>6, <3>1, <3>2 DEF Accounted
    <3>3. CASE <<a, k>> = i
      <4>1. i[1] = a /\ i[2] = k /\ <<a, k>> \in Activities \X Keys
        BY <3>3
      <4>2. CASE Nothing
        BY <3>1, <3>3, <4>2 DEF Accounted, IsListed
      <4>3. CASE Finish
        <5>1. ~IsListed(a, k)' /\ (pc'[i] = "checks" => IsListed(a, k))
          BY <2>4, <4>1, <4>3 DEF IsListed
        <5>2. QED BY <3>1, <3>3, <4>3, <5>1 DEF Accounted
      <4>4. CASE Done
        <5>1. /\ reports[<<a, k>>] = 0 /\ reports'[<<a, k>>] \in {0, 1}
              /\ ~IsListed(a, k)'
          BY <3>1, <3>3, <4>1, <4>4 DEF Accounted, IsListed
        <5>2. pc'[<<a, k>>] # "checks"
          BY <3>3, <4>4, TasksAssumption DEF ActivityLabels
        <5>3. QED BY <5>1, <5>2 DEF Accounted
      <4>5. QED BY <2>3, <4>2, <4>3, <4>4
    <3>4. QED BY <3>2, <3>3
  <2>8. ASSUME machine.at = "start", NEW n \in DOMAIN machine.todo,
               machine.todo[n] \in Activities
        PROVE  /\ reports'[<<machine.todo[n], machine.key>>] = 0
               /\ machine.todo[n] \notin Range(active'[machine.key])
    <3>1. machine.key \in Keys /\ pc[<<machine.todo[n], machine.key>>] = None
      BY <2>8 DEF Held, Fresh, TypeOK
    <3>2. <<machine.todo[n], machine.key>> # i
      BY <2>1, <3>1
    <3>3. /\ reports[<<machine.todo[n], machine.key>>] = 0
          /\ machine.todo[n] \notin Range(active[machine.key])
      BY <2>8 DEF Unreported
    <3>4. QED BY <2>6, <2>8, <3>1, <3>2, <3>3 DEF IsListed
  <2> HIDE DEF Nothing, Finish, Done
  <2>9. machine'.at = "start" =>
          \A n \in DOMAIN machine'.todo : machine'.todo[n] \in Activities =>
            /\ reports'[<<machine'.todo[n], machine'.key>>] = 0
            /\ machine'.todo[n] \notin Range(active'[machine'.key])
    BY <2>1, <2>8
  <2>10. QED BY <2>5, <2>7, <2>9 DEF Unreported
<1>2. ASSUME UNCHANGED <<active, reports, pc>>, machine'.at = "start" => machine' = machine
      PROVE  Unreported'
  BY <1>2 DEF Unreported, Accounted, IsListed
<1>3. CASE TakeEvent \/ EndDrain \/ ReleaseDrain \/ Select \/ CancelContext \/ ReadMark \/ EnterPlain
           \/ AllStarted \/ Invoke
  <2>1. UNCHANGED <<active, reports, pc>>
    BY <1>3 DEF TakeEvent, EndDrain, ReleaseDrain, Select, CancelContext, ReadMark, EnterPlain, AllStarted,
                Invoke, Self
  <2>2. CASE Invoke
    BY <1>2, <2>1, <2>2 DEF Invoke
  <2>3. CASE TakeEvent \/ EndDrain \/ ReleaseDrain \/ CancelContext \/ ReadMark
    BY <1>2, <2>1, <2>3 DEF TakeEvent, EndDrain, ReleaseDrain, CancelContext, ReadMark, TypeOK
  <2>4. CASE Select
    <3>1. machine'.at \in {"cancel", "enter", "idle"}
      BY <2>4 DEF Select, TypeOK
    <3>2. QED BY <1>2, <2>1, <3>1
  <2>5. CASE EnterPlain \/ AllStarted
    BY <1>2, <2>1, <2>5 DEF EnterPlain, AllStarted, Arrive, TypeOK
  <2>6. QED BY <1>3, <2>2, <2>3, <2>4, <2>5
<1>4. CASE CancelActivities
  <2>1. /\ machine.key \in Keys /\ machine'.at = "enter" /\ pc' = pc
        /\ active' = [active EXCEPT ![machine.key] = <<>>]
    BY <1>4 DEF CancelActivities, Held, TypeOK
  <2>2. \A k \in Keys : active'[k] = IF k = machine.key THEN <<>> ELSE active[k]
    BY <1>0, <2>1
  <2>3. Range(<<>>) = {} /\ IsInjective(<<>>)
    BY DEF Range, IsInjective
  <2>4. \A k \in Keys : IsInjective(active'[k])
    BY <2>2, <2>3 DEF Unreported
  <2>5. ASSUME NEW a \in Activities, NEW k \in Keys PROVE Accounted(a, k)'
    <3>1. /\ reports'[<<a, k>>] \in {reports[<<a, k>>], reports[<<a, k>>] + 1}
          /\ reports'[<<a, k>>] # reports[<<a, k>>] => IsListed(a, k) /\ k = machine.key
      BY <1>4 DEF CancelActivities, Reported, IsListed, TypeOK
    <3>2. IsListed(a, k)' => IsListed(a, k) /\ k # machine.key
      BY <2>2, <2>3 DEF IsListed
    <3>3. Accounted(a, k) /\ reports[<<a, k>>] \in Nat
      BY <1>0 DEF Unreported
    <3>4. QED BY <2>1, <3>1, <3>2, <3>3 DEF Accounted
  <2>6. QED BY <2>1, <2>4, <2>5 DEF Unreported
<1>5. CASE EnterState
  <2>1. PICK k \in Free :
           /\ machine' = [machine EXCEPT !.at = "start", !.todo = Starts[machine.goal],
                                         !.key = k]
           /\ reports' = [i \in DOMAIN reports |-> IF i[2] = k THEN 0 ELSE reports[i]]
    BY <1>5 DEF EnterState
  <2>2. /\ UNCHANGED <<active, pc>> /\ machine.at = "enter"
        /\ \A s \in States : stateContexts[s] = None
    BY <1>5 DEF EnterState, Held
  <2>3. k \in Keys /\ k # None
    BY TasksAssumption DEF Free
  <2>4. active[k] = <<>>
    BY <2>2, <2>3 DEF Listed
  <2>5. Range(active'[k]) = {}
    BY <2>2, <2>4 DEF Range
  <2>6. \A a \in Activities, j \in Keys :
          reports'[<<a, j>>] = IF j = k THEN 0 ELSE reports[<<a, j>>]
    BY <2>1 DEF TypeOK
  <2>7. ASSUME NEW a \in Activities, NEW j \in Keys PROVE Accounted(a, j)'
    <3>1. Accounted(a, j)
      BY DEF Unreported
    <3>2. QED BY <2>2, <2>6, <3>1 DEF Accounted, IsListed
  <2>8. \A j \in Keys : IsInjective(active'[j])
    BY <2>2 DEF Unreported
  <2>9. machine'.key = k
    BY <2>1 DEF TypeOK
  <2>10. QED BY <2>3, <2>5, <2>6, <2>7, <2>8, <2>9 DEF Unreported
<1>6. CASE StartActivity
  <2> DEFINE b == Head(machine.todo)
             k == machine.key
  <2>1. /\ machine.at = "start" /\ k \in Keys /\ b \in Activities
        /\ 1 \in DOMAIN machine.todo /\ b = machine.todo[1] /\ machine.todo \in Seq(Bodies)
        /\ machine' = [machine EXCEPT !.todo = Tail(machine.todo)]
    BY <1>6 DEF StartActivity, Held, TypeOK
  <2>2. /\ active' = [active EXCEPT ![k] = Append(@, b)] /\ UNCHANGED reports
        /\ pc' = [pc EXCEPT ![<<b, k>>] = "spawned"]
    BY <1>6 DEF StartActivity, RegisterActivity
  <2>3. reports[<<b, k>>] = 0 /\ b \notin Range(active[k]) /\ IsInjective(active[k])
    BY <2>1 DEF Unreported, IsListed
  <2>4. active'[k] = Append(active[k], b) /\ \A j \in Keys : j # k => active'[j] = active[j]
    BY <1>0, <2>1, <2>2
  <2> HIDE DEF b
  <2>5. Range(active'[k]) \subseteq Range(active[k]) \cup {b} /\ IsInjective(active'[k])
    <3>1. active[k] \in Seq(Activities)
      BY <1>0, <2>1
    <3>2. /\ DOMAIN active'[k] = 1 .. Len(active[k]) + 1
          /\ active'[k][Len(active[k]) + 1] = b
          /\ \A n \in DOMAIN active[k] : active'[k][n] = active[k][n]
          /\ DOMAIN active[k] = 1 .. Len(active[k]) /\ Len(active[k]) \in Nat
      BY <2>4, <3>1
    <3>3. \A n \in DOMAIN active'[k] : n \in DOMAIN active[k] \/ n = Len(active[k]) + 1
      BY <3>2
    <3>4. \A n \in DOMAIN active[k] : active[k][n] # b
      BY <2>3 DEF Range
    <3>5. IsInjective(active'[k])
      BY <2>3, <3>2, <3>3, <3>4 DEF IsInjective
    <3>6. Range(active'[k]) \subseteq Range(active[k]) \cup {b}
      BY <3>2, <3>3 DEF Range
    <3>7. QED BY <3>5, <3>6
  <2>6. \A j \in Keys : IsInjective(active'[j])
    BY <2>4, <2>5 DEF Unreported
  <2>7. ASSUME NEW a \in Activities, NEW j \in Keys PROVE Accounted(a, j)'
    <3>1. Accounted(a, j)
      BY DEF Unreported
    <3>2. CASE a = b /\ j = k
      <4>1. pc'[<<a, j>>] = "spawned"
        BY <1>0, <2>1, <2>2, <3>2 DEF TypeOK
      <4>2. QED BY <2>2, <2>3, <3>2, <4>1 DEF Accounted
    <3>3. CASE ~(a = b /\ j = k)
      <4>1. pc'[<<a, j>>] = pc[<<a, j>>]
        BY <1>0, <2>1, <2>2, <3>3 DEF TypeOK
      <4>2. IsListed(a, j)' => IsListed(a, j)
        BY <2>4, <2>5, <3>3 DEF IsListed
      <4>3. QED BY <2>2, <3>1, <4>1, <4>2 DEF Accounted
    <3>4. QED BY <3>2, <3>3
  <2>8. machine'.todo = Tail(machine.todo) /\ machine'.key = k
    BY <2>1 DEF TypeOK
  <2>9. ASSUME NEW n \in DOMAIN machine'.todo
        PROVE  /\ machine'.todo[n] = machine.todo[n + 1] /\ n + 1 \in DOMAIN machine.todo
               /\ machine'.todo[n] # b
    <3>1. machine'.todo[n] = machine.todo[n + 1] /\ n + 1 \in DOMAIN machine.todo /\ n + 1 # 1
      BY <2>1, <2>8
    <3>2. QED BY <2>1, <3>1 DEF Fresh, IsInjective
  <2>10. ASSUME NEW n \in DOMAIN machine'.todo, machine'.todo[n] \in Activities
         PROVE  /\ reports'[<<machine'.todo[n], k>>] = 0
                /\ machine'.todo[n] \notin Range(active'[k])
    <3>1. reports[<<machine'.todo[n], k>>] = 0 /\ machine'.todo[n] \notin Range(active[k])
      BY <2>1, <2>9, <2>10 DEF Unreported
    <3>2. QED BY <2>2, <2>5, <2>9, <3>1
  <2>11. QED BY <2>6, <2>7, <2>8, <2>10 DEF Unreported
<1>7. CASE StartTimer
  <2>1. /\ UNCHANGED <<active, reports>> /\ machine.at = "start" /\ machine.todo # <<>>
        /\ machine' = [machine EXCEPT !.todo = Tail(machine.todo)]
        /\ machine.todo \in Seq(Bodies)
    BY <1>7 DEF StartTimer, TypeOK
  <2>2. ASSUME NEW a \in Activities, NEW k \in Keys PROVE Accounted(a, k)'
    <3>1. Accounted(a, k)
      BY DEF Unreported
    <3>2. pc'[<<a, k>>] = pc[<<a, k>>]
      BY <1>0, <1>7, TasksAssumption DEF StartTimer, TypeOK
    <3>3. QED BY <2>1, <3>1, <3>2 DEF Accounted, IsListed
  <2>3. machine'.todo = Tail(machine.todo) /\ machine'.key = machine.key
    BY <2>1 DEF TypeOK
  <2>4. ASSUME NEW n \in DOMAIN machine'.todo
        PROVE  machine'.todo[n] = machine.todo[n + 1] /\ n + 1 \in DOMAIN machine.todo
    BY <2>1, <2>3
  <2>5. ASSUME NEW n \in DOMAIN machine'.todo, machine'.todo[n] \in Activities
        PROVE  /\ reports'[<<machine'.todo[n], machine'.key>>] = 0
               /\ machine'.todo[n] \notin Range(active'[machine'.key])
    BY <2>1, <2>3, <2>4, <2>5 DEF Unreported
  <2>6. \A k \in Keys : IsInjective(active'[k])
    BY <2>1 DEF Unreported
  <2>7. QED BY <2>2, <2>5, <2>6 DEF Unreported
<1>8. CASE UNCHANGED vars
  BY <1>2, <1>8 DEF vars
<1>9. QED
  BY <1>1, <1>3, <1>4, <1>5, <1>6, <1>7, <1>8 DEF Next, TaskStep, MachineStep

\* The steps of a task by what they do to the registration that it shares.
LEMMA TasksAndRegistration ==
  ASSUME TypeOK, Labelled, NEW i \in TaskIds, TaskStep(i)
  PROVE  \/ /\ registered' = registered
            /\ pc[i] \in Ended => pc'[i] \in Ended
            /\ pc'[i] \in Registers => pc[i] \in Registers
         \/ registered' = registered \cup {i[2]}
         \/ /\ registered' = registered \ {i[2]}
            /\ pc'[i] \in Ended /\ i[1] \in Activities
<1> USE TasksAssumption DEF Ended, Registers, Running, ActivityLabels
<1>1. pc \in [TaskIds -> TimerLabels \cup ActivityLabels \cup {None}]
  BY DEF TypeOK
<1>2. pc[i] \in ActivityLabels => i[1] \in Activities
  BY DEF Labelled
<1>3. CASE TimerStep(i)
  <2>1. registered' = registered
    BY <1>3 DEF TimerStep, TimerWakes, TimerFires, TimerReturns
  <2>2. pc[i] \in {"asleep", "fires", "sent"} /\ pc'[i] \in {None, "asleep", "fires", "sent"}
    BY <1>1, <1>3 DEF TimerStep, TimerWakes, TimerFires, TimerReturns, Goto
  <2>3. None \notin {"asleep", "fires", "sent"}
    BY DEF TimerLabels
  <2>4. QED BY <2>1, <2>2, <2>3
<1>4. CASE ActivityBegins(i)
  BY <1>4 DEF ActivityBegins, RegisterMachine
<1>5. CASE OperationLooks(i) \/ BeginActivity(i)
  BY <1>1, <1>5 DEF OperationLooks, BeginActivity, Goto
<1>6. CASE ActivityDispatches(i)
  BY <1>1, <1>6 DEF ActivityDispatches
<1>7. CASE ActivityReturns(i) \/ ActivityUnregisters(i)
  <2>1. registered' = registered \ {i[2]} /\ pc'[i] \in {"finishes", None}
    BY <1>1, <1>7 DEF ActivityReturns, ActivityUnregisters, UnregisterMachine, Completed, Goto
  <2>2. pc[i] \in {"runs", "unregisters", "gives up"}
    BY <1>7 DEF ActivityReturns, ActivityUnregisters
  <2>3. QED BY <1>2, <2>1, <2>2
<1>8. CASE EndActivity(i)
  <2>1. pc[i] = "runs marked" /\ registered' = registered
    BY <1>8 DEF EndActivity
  <2>2. pc'[i] \in {"unregisters", "gives up"}
    BY <1>1, <1>8 DEF EndActivity, Goto
  <2>3. QED BY <2>1, <2>2
<1>9. CASE ActivityPanics(i)
  BY <1>1, <1>9 DEF ActivityPanics, Goto
<1>10. CASE ActivityFinishes(i) \/ ActivityDone(i)
  BY <1>1, <1>10 DEF ActivityFinishes, ActivityDone, Goto
<1>11. QED
  BY <1>3, <1>4, <1>5, <1>6, <1>7, <1>8, <1>9, <1>10 DEF TaskStep, ActivityStep, Returns

\* The activity that takes back the registration has ended and does not start again.
LEMMA SharedStep ==
  TypeOK /\ Labelled /\ Held /\ Fresh /\ OneOwner /\ Shared /\ [Next]_vars => Shared'
<1> SUFFICES ASSUME TypeOK, Labelled, Held, Fresh, OneOwner, Shared, [Next]_vars,
                    NEW a \in Activities, NEW k \in Keys,
                    pc'[<<a, k>>] \in Registers, k \notin registered'
             PROVE  \E b \in Activities \ {a} :
                      Owner[b] = Owner[a] /\ pc'[<<b, k>>] \in Ended /\ Started(b, k)'
  BY DEF Shared
<1> DEFINE Witness == \E b \in Activities \ {a} :
                        Owner[b] = Owner[a] /\ pc'[<<b, k>>] \in Ended /\ Started(b, k)'
<1>0. \A b \in Activities : <<b, k>> \in TaskIds
  BY DEF TaskIds, Bodies
<1>1. None \notin Registers
  BY TasksAssumption DEF Registers, Running, ActivityLabels
<1>2. ASSUME pc[<<a, k>>] \in Registers, k \notin registered,
             \A b \in Activities \ {a} : pc[<<b, k>>] \in Ended => pc'[<<b, k>>] \in Ended,
             machine' = machine
      PROVE  Witness
  BY <1>2 DEF Shared, Started
<1>3. ASSUME NEW i \in TaskIds, TaskStep(i) PROVE Witness
  <2>1. /\ machine' = machine /\ pc[i] # None
        /\ \A j \in TaskIds : j # i => pc'[j] = pc[j]
    BY <1>3, TaskMoves DEF Moves
  <2>2. i[1] \in Bodies /\ i[2] \in Keys /\ i = <<i[1], i[2]>>
    BY DEF TaskIds
  <2>3. CASE /\ registered' = registered
             /\ pc[i] \in Ended => pc'[i] \in Ended
             /\ pc'[i] \in Registers => pc[i] \in Registers
    <3>1. pc[<<a, k>>] \in Registers
      BY <1>0, <2>1, <2>3
    <3>2. \A b \in Activities : pc[<<b, k>>] \in Ended => pc'[<<b, k>>] \in Ended
      BY <1>0, <2>1, <2>3
    <3>3. QED BY <1>2, <2>1, <2>3, <3>1, <3>2
  <2>4. CASE i[2] # k /\ registered' \in {registered \cup {i[2]}, registered \ {i[2]}}
    <3>1. \A b \in Activities : <<b, k>> # i
      BY <2>2, <2>4
    <3>2. \A b \in Activities : pc'[<<b, k>>] = pc[<<b, k>>]
      BY <1>0, <2>1, <3>1
    <3>3. QED BY <1>2, <2>1, <2>4, <3>2
  <2>5. CASE i[2] = k /\ registered' = registered \cup {i[2]}
    BY <2>5
  <2>6. CASE i[2] = k /\ pc'[i] \in Ended /\ i[1] \in Activities
    <3>1. i[1] # a
      BY <2>2, <2>6, TasksAssumption DEF Registers, Ended, Running, ActivityLabels
    <3>2. <<a, k>> \in TaskIds /\ <<a, k>> # i
      BY <1>0, <2>2, <3>1
    <3>3. pc[<<a, k>>] # None
      BY <1>1, <2>1, <3>2
    <3>4. Owner[i[1]] = Owner[a]
      <4>1. <<a, k>>[1] = a /\ <<a, k>>[2] = i[2]
        BY <2>6
      <4>2. QED BY <2>1, <3>2, <3>3, <4>1 DEF OneOwner
    <3>5. Started(i[1], k)
      <4>1. SUFFICES ASSUME machine.at = "start", machine.key = k,
                            i[1] \in Range(machine.todo)
                     PROVE  FALSE
        BY DEF Started
      <4>2. pc[<<i[1], k>>] = None
        BY <4>1 DEF Fresh, Range
      <4>3. QED BY <2>1, <2>2, <2>6, <4>2
    <3>6. Started(i[1], k)'
      <4>1. machine' = machine
        BY <2>1
      <4>2. QED BY <3>5, <4>1 DEF Started
    <3>7. i[1] \in Activities \ {a} /\ pc'[<<i[1], k>>] \in Ended
      BY <2>2, <2>6, <3>1
    <3>8. QED BY <3>4, <3>6, <3>7
  <2>7. QED BY <1>3, <2>3, <2>4, <2>5, <2>6, TasksAndRegistration
<1>4. CASE MachineStep \/ Invoke
  <2>1. \A b \in Activities : pc'[<<b, k>>] # pc[<<b, k>>] =>
          /\ machine.at = "start" /\ machine.key = k /\ b \in Range(machine.todo)
          /\ pc'[<<b, k>>] \in {"asleep", "spawned"}
    <3>1. SUFFICES ASSUME NEW b \in Activities, pc'[<<b, k>>] # pc[<<b, k>>]
                   PROVE  /\ machine.at = "start" /\ machine.key = k
                          /\ b \in Range(machine.todo)
                          /\ pc'[<<b, k>>] \in {"asleep", "spawned"}
      OBVIOUS
    <3>2. /\ machine.at = "start" /\ 1 \in DOMAIN machine.todo
          /\ <<b, k>> = <<machine.todo[1], machine.key>>
          /\ pc'[<<b, k>>] \in {"asleep", "spawned"}
      BY <1>0, <1>4, <3>1, MachineStarts
    <3>3. QED BY <3>2 DEF Range
  <2>2. pc[<<a, k>>] \in Registers
    BY <2>1 DEF Registers, Running
  <2>3. k \notin registered
    BY <1>4 DEF MachineStep, Invoke, TakeEvent, EndDrain, ReleaseDrain, Select, CancelContext, ReadMark,
                CancelActivities, EnterPlain, EnterState, StartActivity, StartTimer,
                RegisterMachine, AllStarted, Self
  <2>4. PICK b \in Activities \ {a} :
           Owner[b] = Owner[a] /\ pc[<<b, k>>] \in Ended /\ Started(b, k)
    BY <2>2, <2>3 DEF Shared
  <2>5. pc'[<<b, k>>] = pc[<<b, k>>]
    BY <2>1, <2>4 DEF Started
  <2>6. Started(b, k)'
    <3>1. CASE UNCHANGED machine
      BY <2>4, <3>1 DEF Started
    <3>2. CASE machine'.at # "start"
      BY <3>2 DEF Started
    <3>3. CASE EnterState
      <4>1. PICK l \in Free :
              machine' = [machine EXCEPT !.at = "start", !.todo = Starts[machine.goal],
                                         !.key = l]
        BY <3>3 DEF EnterState
      <4>2. pc[<<a, l>>] = None
        BY DEF Free, Live, Bodies
      <4>3. machine'.key = l /\ l # k
        BY <1>1, <2>2, <4>1, <4>2 DEF TypeOK
      <4>4. QED BY <4>3 DEF Started
    <3>4. CASE StartActivity \/ StartTimer
      <4>1. /\ machine.at = "start" /\ machine.todo # <<>> /\ machine.todo \in Seq(Bodies)
            /\ machine' = [machine EXCEPT !.todo = Tail(machine.todo)]
        BY <3>4 DEF StartActivity, StartTimer, TypeOK
      <4>2. machine'.todo = Tail(machine.todo) /\ machine'.key = machine.key
        BY <4>1 DEF TypeOK
      <4>3. \A n \in DOMAIN machine'.todo :
              n + 1 \in DOMAIN machine.todo /\ machine'.todo[n] = machine.todo[n + 1]
        BY <4>1, <4>2
      <4>4. Range(machine'.todo) \subseteq Range(machine.todo)
        BY <4>3 DEF Range
      <4>5. QED BY <2>4, <4>1, <4>2, <4>4 DEF Started
    <3>5. CASE TakeEvent \/ EndDrain \/ ReleaseDrain \/ CancelContext \/ ReadMark \/ CancelActivities
      BY <3>2, <3>5 DEF TakeEvent, EndDrain, ReleaseDrain, CancelContext, ReadMark, CancelActivities,
                        TypeOK
    <3>6. CASE Select
      <4>1. machine'.at \in {"cancel", "enter", "idle"}
        BY <3>6 DEF Select, TypeOK
      <4>2. QED BY <3>2, <4>1
    <3>7. CASE EnterPlain \/ AllStarted
      BY <3>2, <3>7 DEF EnterPlain, AllStarted, Arrive, TypeOK
    <3>8. CASE Invoke
      BY <3>1, <3>8 DEF Invoke
    <3>9. QED BY <1>4, <3>3, <3>4, <3>5, <3>6, <3>7, <3>8 DEF MachineStep
  <2>7. QED BY <2>4, <2>5, <2>6
<1>5. CASE UNCHANGED vars
  <2>1. pc' = pc /\ registered' = registered /\ machine' = machine
    BY <1>5 DEF vars
  <2>2. QED BY <1>2, <2>1
<1>6. QED BY <1>3, <1>4, <1>5 DEF Next, TaskStep

\* The parts of the invariant carry each other.
LEMMA InvStep == TasksInv /\ [Next]_vars => TasksInv'
BY TypeStep, LabelledStep, HeldStep, FreshStep, ListedStep, MarkedStep, RegisteredStep,
   OwnedStep, OpenStep, OneOwnerStep, UnreportedStep, SharedStep DEF TasksInv

-----------------------------------------------------------------------------
(* The theorems *)

\* Whatever the machine does, its variables keep to their types.
THEOREM TasksTyped == Spec => []TypeOK
<1>1. Init => TasksInv
  BY InvInit
<1>2. TasksInv /\ [Next]_vars => TasksInv'
  BY InvStep
<1>3. TasksInv => TypeOK
  BY DEF TasksInv
<1>4. QED BY <1>1, <1>2, <1>3, PTL DEF Spec

\* ACTIVE_ACTIVITIES, RUNNING_ACTIVITIES and CONTEXT_REGISTRIES hold nothing of a context
\* that is gone, but registrations that a timer or a panic left behind.
THEOREM TablesClean == Spec => []NoGhosts
<1>1. TasksInv => NoGhosts
  <2> SUFFICES ASSUME TasksInv, NEW k \in Free
               PROVE  /\ active[k] = <<>> /\ running[k] = None
                      /\ k \in registered => k \in unowned
    BY DEF NoGhosts
  <2>1. /\ k \in Keys /\ machine.key # k
        /\ \A s \in States : stateContexts[s] # k
        /\ \A b \in Bodies : pc[<<b, k>>] = None
    BY DEF Free, Live
  <2>2. active[k] = <<>>
    BY <2>1 DEF TasksInv, Listed
  <2>3. running[k] = None
    BY <2>1, TasksAssumption DEF TasksInv, Marked, Bodies, ActivityLabels
  <2>4. k \in registered => k \in unowned
    BY <2>1, TasksAssumption DEF TasksInv, Registered, Registering, Bodies, ActivityLabels
  <2>5. QED BY <2>2, <2>3, <2>4
<1>2. QED BY <1>1, InvInit, InvStep, PTL DEF Spec

\* A timer or an activity that has not been cancelled runs under the context of its state,
\* which leaving that state will cancel.
THEOREM TasksCancellable == Spec => []Cancellable
<1>1. TasksInv => Cancellable
  BY DEF TasksInv, Cancellable, Owned, Held, Holder
<1>2. QED BY <1>1, InvInit, InvStep, PTL DEF Spec

\* Of one run of an activity, activity_done and activity_cancelled are not both reported.
THEOREM TasksReportedOnce == Spec => []ReportedOnce
<1>1. TasksInv => ReportedOnce
  <2> SUFFICES ASSUME TasksInv, NEW i \in Activities \X Keys PROVE reports[i] <= 1
    BY DEF ReportedOnce
  <2>1. PICK a \in Activities, k \in Keys : i = <<a, k>>
    OBVIOUS
  <2>2. QED BY <2>1 DEF TasksInv, Unreported, Accounted
<1>2. QED BY <1>1, InvInit, InvStep, PTL DEF Spec

\* An activity that runs finds the machine from its context, unless another activity of its
\* state has ended and taken back the registration they share.
THEOREM TasksFindMachine == Spec => []FindsMachine
<1>1. TasksInv => FindsMachine
  BY DEF TasksInv, Shared, Registers, FindsMachine
<1>2. QED BY <1>1, InvInit, InvStep, PTL DEF Spec

\* What Distance says of each label.
LEMMA Distances ==
  ASSUME NEW x \in TimerLabels \cup ActivityLabels \cup {None}
  PROVE  /\ x = None => Distance[x] = 0
         /\ x \in {"checks", "gives up", "sent"} => Distance[x] = 1
         /\ x \in {"finishes", "fires"} => Distance[x] = 2
         /\ x \in {"unregisters", "asleep"} => Distance[x] = 3
         /\ x \in {"runs", "runs marked"} => Distance[x] = 4
         /\ x = "marks" => Distance[x] = 5
         /\ x = "looks" => Distance[x] = 6
         /\ x = "spawned" => Distance[x] = 7
<1>1. Distance[x] = CASE x \in {None} -> 0
                      [] x \in {"checks", "gives up", "sent"} -> 1
                      [] x \in {"finishes", "fires"} -> 2
                      [] x \in {"unregisters", "asleep"} -> 3
                      [] x \in Running -> 4
                      [] x = "marks" -> 5
                      [] x = "looks" -> 6
                      [] x = "spawned" -> 7
  BY DEF Distance
<1>2. None \notin TimerLabels \cup ActivityLabels
  BY TasksAssumption
<1>3. CASE x = None
  BY <1>1, <1>2, <1>3 DEF TimerLabels, ActivityLabels, Running
<1>4. CASE x # None
  BY <1>1, <1>4 DEF TimerLabels, ActivityLabels, Running
<1>5. QED BY <1>3, <1>4

\* The moves between labels that bring a task nearer to its end.
Nearer(x, y) ==
  \/ x = "spawned" /\ y \in {"looks", "runs"}
  \/ x = "looks" /\ y \in {"marks", "runs"}
  \/ x = "marks" /\ y = "runs marked"
  \/ x = "runs" /\ y \in {"finishes", None}
  \/ x = "runs marked" /\ y \in {"unregisters", "gives up"}
  \/ x = "unregisters" /\ y = "finishes"
  \/ x = "gives up" /\ y = None
  \/ x = "finishes" /\ y \in {"checks", None}
  \/ x = "checks" /\ y = None
  \/ x = "asleep" /\ y = None
  \/ x = "fires" /\ y = "sent"
  \/ x = "sent" /\ y = None

LEMMA NearerByDistance ==
  ASSUME NEW x \in TimerLabels \cup ActivityLabels, NEW y, Nearer(x, y)
  PROVE  Distance[y] < Distance[x]
<1> DEFINE Is(z, n) == /\ z = None => n = 0
                       /\ z \in {"checks", "gives up", "sent"} => n = 1
                       /\ z \in {"finishes", "fires"} => n = 2
                       /\ z \in {"unregisters", "asleep"} => n = 3
                       /\ z \in {"runs", "runs marked"} => n = 4
                       /\ z = "marks" => n = 5
                       /\ z = "looks" => n = 6
                       /\ z = "spawned" => n = 7
<1>1. y \in TimerLabels \cup ActivityLabels \cup {None}
  BY DEF Nearer, TimerLabels, ActivityLabels
<1>2. Is(x, Distance[x]) /\ Is(y, Distance[y])
  BY <1>1, Distances
<1>3. \/ Distance[x] = 7 /\ Distance[y] \in {6, 4}
      \/ Distance[x] = 6 /\ Distance[y] \in {5, 4}
      \/ Distance[x] = 5 /\ Distance[y] = 4
      \/ Distance[x] = 4 /\ Distance[y] \in {3, 2, 1, 0}
      \/ Distance[x] = 3 /\ Distance[y] \in {2, 0}
      \/ Distance[x] = 2 /\ Distance[y] \in {1, 0}
      \/ Distance[x] = 1 /\ Distance[y] = 0
  BY <1>2 DEF Nearer
<1>4. QED BY <1>3

\* Once its context has been cancelled, a task only comes nearer to its end: a timer of
\* kind every does not go round again.
THEOREM TasksEnd == Spec => TasksWindDown
<1> DEFINE Downwards == \A i \in TaskIds :
                          cancelled[i[2]] /\ pc'[i] # pc[i] /\ cancelled'[i[2]]
                            => Distance[pc'[i]] < Distance[pc[i]]
<1>1. TasksInv /\ [Next]_vars => [Downwards]_vars
  <2> SUFFICES ASSUME TasksInv, Next, NEW i \in TaskIds,
                      cancelled[i[2]], pc'[i] # pc[i], cancelled'[i[2]]
               PROVE  Distance[pc'[i]] < Distance[pc[i]]
    OBVIOUS
  <2>0. pc \in [TaskIds -> TimerLabels \cup ActivityLabels \cup {None}]
    BY DEF TasksInv, TypeOK
  <2>1. ASSUME NEW j \in TaskIds, TaskStep(j) PROVE Distance[pc'[i]] < Distance[pc[i]]
    <3>1. j = i
      BY <2>1, TaskMoves DEF Moves, TasksInv
    <3>2. pc[i] \in TimerLabels \cup ActivityLabels
      BY <2>0, <2>1, <3>1, TaskMoves DEF Moves, TasksInv
    <3>3. ASSUME TimerStep(i) PROVE Nearer(pc[i], pc'[i])
      BY <2>0, <3>3 DEF TimerStep, TimerWakes, TimerFires, TimerReturns, Again, Goto, Nearer
    <3>4. ASSUME ActivityBegins(i) \/ OperationLooks(i) \/ BeginActivity(i)
          PROVE  Nearer(pc[i], pc'[i])
      BY <2>0, <3>4 DEF ActivityBegins, OperationLooks, BeginActivity, Goto, Nearer
    <3>5. ~ActivityDispatches(i)
      BY DEF ActivityDispatches
    <3>6. ASSUME ActivityReturns(i) \/ ActivityUnregisters(i) PROVE Nearer(pc[i], pc'[i])
      BY <2>0, <3>6 DEF ActivityReturns, ActivityUnregisters, Completed, Goto, Nearer
    <3>7. ASSUME EndActivity(i) PROVE Nearer(pc[i], pc'[i])
      <4>1. pc[i] = "runs marked" /\ pc'[i] \in {"unregisters", "gives up"}
        BY <2>0, <3>7 DEF EndActivity, Goto
      <4>2. QED BY <4>1 DEF Nearer
    <3>8. ASSUME ActivityPanics(i) \/ ActivityFinishes(i) \/ ActivityDone(i)
          PROVE  Nearer(pc[i], pc'[i])
      BY <2>0, <3>8 DEF ActivityPanics, ActivityFinishes, ActivityDone, Goto, Nearer
    <3>9. Nearer(pc[i], pc'[i])
      BY <2>1, <3>1, <3>3, <3>4, <3>5, <3>6, <3>7, <3>8 DEF TaskStep, ActivityStep, Returns
    <3>10. QED BY <3>2, <3>9, NearerByDistance
  <2>2. CASE MachineStep \/ Invoke
    <3>1. /\ i = <<machine.todo[1], machine.key>> /\ machine.at = "start"
          /\ machine.goal \in States /\ stateContexts[machine.goal] = machine.key
      BY <2>2, MachineStarts DEF TasksInv
    <3>2. ~cancelled[machine.key]
      BY <3>1 DEF TasksInv, Held, Open
    <3>3. QED BY <3>1, <3>2
  <2>3. QED BY <2>1, <2>2 DEF Next, TaskStep
<1>2. QED BY <1>1, InvInit, InvStep, PTL DEF Spec, TasksWindDown

=============================================================================
