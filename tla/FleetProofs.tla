----------------------------- MODULE FleetProofs -----------------------------
(***************************************************************************)
(* A started machine is found, and a fan-out that returns Ok has reached   *)
(* everyone, for any machines, contexts, groups and clients.               *)
(***************************************************************************)
EXTENDS Fleet, FiniteSetTheorems, TLAPS

-----------------------------------------------------------------------------
(***************************************************************************)
(* Stacks of frames.                                                       *)
(***************************************************************************)

\* The top is the last one, and of the type of all.
LEMMA TopIs ==
  ASSUME NEW c \in Clients, frames \in [Clients -> Seq(FrameType)], Busy(c)
  PROVE  /\ Top(c) \in FrameType /\ Len(frames[c]) \in DOMAIN frames[c]
         /\ Top(c) = frames[c][Len(frames[c])]
BY DEF Busy, Top, Last

\* Another top leaves what is below it, and the stacks of others.
LEMMA TopSet ==
  ASSUME NEW c \in Clients, frames \in [Clients -> Seq(FrameType)], Busy(c),
         NEW f \in FrameType, SetTop(c, f)
  PROVE  /\ frames' \in [Clients -> Seq(FrameType)]
         /\ \A d \in Clients : d # c => frames'[d] = frames[d]
         /\ Len(frames'[c]) = Len(frames[c])
         /\ \A i \in DOMAIN frames'[c] :
              frames'[c][i] = IF i = Len(frames[c]) THEN f ELSE frames[c][i]
<1> DEFINE s == frames[c]
<1>1. s \in Seq(FrameType) /\ s # <<>>
  BY DEF Busy
<1>2. frames' = [frames EXCEPT ![c] = Append(Front(s), f)]
  BY DEF SetTop
<1> HIDE DEF s
<1>3. /\ Front(s) \in Seq(FrameType) /\ Len(Front(s)) = Len(s) - 1
      /\ \A i \in 1 .. Len(s) - 1 : Front(s)[i] = s[i]
  <2>1. Len(s) \in Nat /\ Len(s) >= 1 /\ \A i \in 1 .. Len(s) : s[i] \in FrameType
    BY <1>1
  <2>2. Front(s) \in Seq(FrameType)
    BY <1>1, <2>1 DEF Front
  <2>3. Len(Front(s)) = Len(s) - 1
    <3>1. \A n \in 0 .. Len(s) : Len(SubSeq(s, 1, n)) = n
      BY <1>1
    <3>2. Len(s) - 1 \in 0 .. Len(s)
      BY <2>1
    <3>3. QED BY <3>1, <3>2 DEF Front
  <2>4. \A i \in 1 .. Len(s) - 1 : Front(s)[i] = s[i]
    BY <1>1, <2>1 DEF Front
  <2>5. QED BY <2>2, <2>3, <2>4
<1>4. /\ Append(Front(s), f) \in Seq(FrameType) /\ Len(Append(Front(s), f)) = Len(s)
      /\ \A i \in 1 .. Len(s) : Append(Front(s), f)[i] = IF i = Len(s) THEN f ELSE s[i]
  BY <1>1, <1>3
<1>5. frames'[c] = Append(Front(s), f)
  BY <1>2
<1>6. \A i \in DOMAIN frames'[c] : frames'[c][i] = IF i = Len(s) THEN f ELSE s[i]
  BY <1>4, <1>5
<1>7. QED BY <1>2, <1>4, <1>5, <1>6 DEF s

\* A new one comes on top.
LEMMA TopPushed ==
  ASSUME NEW c \in Clients, frames \in [Clients -> Seq(FrameType)],
         NEW f \in FrameType, Push(c, f)
  PROVE  /\ frames' \in [Clients -> Seq(FrameType)]
         /\ \A d \in Clients : d # c => frames'[d] = frames[d]
         /\ \A i \in DOMAIN frames'[c] :
              frames'[c][i] = IF i = Len(frames[c]) + 1 THEN f ELSE frames[c][i]
BY DEF Push

\* And the top one goes.
LEMMA TopPopped ==
  ASSUME NEW c \in Clients, frames \in [Clients -> Seq(FrameType)], Busy(c),
         frames' = [frames EXCEPT ![c] = Front(@)]
  PROVE  /\ frames' \in [Clients -> Seq(FrameType)]
         /\ \A d \in Clients : d # c => frames'[d] = frames[d]
         /\ DOMAIN frames'[c] \subseteq DOMAIN frames[c]
         /\ \A i \in DOMAIN frames'[c] : frames'[c][i] = frames[c][i]
<1>1. frames[c] \in Seq(FrameType) /\ frames[c] # <<>>
  BY DEF Busy
<1>2. /\ Front(frames[c]) \in Seq(FrameType)
      /\ DOMAIN Front(frames[c]) \subseteq DOMAIN frames[c]
      /\ \A i \in DOMAIN Front(frames[c]) : Front(frames[c])[i] = frames[c][i]
  BY <1>1 DEF Front
<1>3. QED BY <1>2

-----------------------------------------------------------------------------
(***************************************************************************)
(* Frames.                                                                 *)
(***************************************************************************)

\* Sorting leaves out no machine.
LEMMA SortedAll ==
  ASSUME NEW S \in SUBSET Machines, NEW s \in Sorted(S)
  PROVE  s \in Seq(Machines) /\ Range(s) = S
<1> DEFINE D == 1 .. Cardinality(S)
<1>1. IsFiniteSet(S) /\ Cardinality(S) \in Nat
  BY FS_Subset, FS_CardinalityType, FleetAssumption
<1>2. s \in [D -> S] /\ \A i, j \in D : i # j => s[i] # s[j]
  BY DEF Sorted, SetToSeqs
<1>3. s \in Injection(D, S)
  BY <1>2 DEF Injection, IsInjective
<1>4. Cardinality(D) = Cardinality(S)
  BY <1>1, FS_Interval
<1> HIDE DEF D
<1>5. s \in Surjection(D, S)
  BY <1>1, <1>3, <1>4, FS_Injection
<1>6. Range(s) = S
  BY <1>2, <1>5 DEF Surjection, Range
<1>7. s \in Seq(Machines)
  BY <1>1, <1>2 DEF D
<1>8. QED BY <1>6, <1>7

\* The frame a call begins with: a lifecycle call serves the machines it is on,
\* any other dispatches; a fan-out serves all that the context knows under their
\* names and that are in a state.
LEMMA FramesAre ==
  ASSUME TypeOK, NEW call \in Calls, NEW f \in Frames(call)
  PROVE  \E verb \in SingleVerbs, todo \in Seq(Machines) :
           /\ f = Frame(call, verb, todo)
           /\ IF Lifecycle(call) THEN Range(todo) \subseteq On(call) ELSE verb = "dispatch"
           /\ call.verb = "fan out" =>
                \A m \in Machines :
                  /\ registry[call.ctx].machines[Name[m]] = m /\ state[m] = "in"
                  /\ call.over = {} \/ Id[m] \in call.over
                  => m \in Range(todo)
<1> DEFINE Goal(verb, todo) ==
      /\ verb \in SingleVerbs /\ todo \in Seq(Machines)
      /\ f = Frame(call, verb, todo)
      /\ IF Lifecycle(call) THEN Range(todo) \subseteq On(call) ELSE verb = "dispatch"
      /\ call.verb = "fan out" =>
           \A m \in Machines :
             /\ registry[call.ctx].machines[Name[m]] = m /\ state[m] = "in"
             /\ call.over = {} \/ Id[m] \in call.over
             => m \in Range(todo)
<1> SUFFICES \E verb, todo : Goal(verb, todo)
  OBVIOUS
<1>1. CASE call.verb \in SingleVerbs
  <2>1. PICK m \in Machines \cap {call.over} : f = Frame(call, call.verb, <<m>>)
    BY <1>1 DEF Frames, OnMachine, SingleVerbs
  <2>2. <<m>> \in Seq(Machines) /\ Range(<<m>>) = {m}
    BY DEF Range
  <2>3. m \in On(call)
    BY <2>1 DEF On
  <2>4. Goal(call.verb, <<m>>)
    BY <1>1, <2>1, <2>2, <2>3 DEF Lifecycle, SingleVerbs
  <2>5. QED BY <2>4
<1>2. CASE call.verb = "fan out"
  <2> DEFINE asked == {m \in Machines : /\ registry[call.ctx].machines[Name[m]] = m
                                        /\ CanReceiveDispatch(m)
                                        /\ call.over = {} \/ Id[m] \in call.over}
  <2>1. PICK s \in Sorted(asked) : f = Frame(call, "dispatch", s)
    BY <1>2 DEF Frames, FanOut, SingleVerbs
  <2>2. s \in Seq(Machines) /\ Range(s) = asked
    BY SortedAll
  <2>3. \A m \in Machines : state[m] = "in" => CanReceiveDispatch(m)
    BY DEF CanReceiveDispatch, IsInactive
  <2>4. Goal("dispatch", s)
    BY <1>2, <2>1, <2>2, <2>3 DEF Lifecycle, SingleVerbs
  <2>5. QED BY <2>4
<1>3. CASE call.verb = "to current"
  <2> DEFINE r == registry[call.ctx]
  <2>1. PICK n \in Names : r.machines[n] # None /\ f = Frame(call, "dispatch", <<r.machines[n]>>)
    BY <1>3 DEF Frames, ToCurrent, SingleVerbs
  <2>2. call.ctx \in Contexts
    BY DEF Calls
  <2>3. r.machines \in [Names -> Machines \cup {None}]
    BY <2>2 DEF TypeOK
  <2> HIDE DEF r
  <2> DEFINE m == r.machines[n]
  <2>4. m \in Machines
    BY <2>1, <2>3
  <2>5. f = Frame(call, "dispatch", <<m>>)
    BY <2>1
  <2> HIDE DEF m
  <2>6. <<m>> \in Seq(Machines)
    BY <2>4
  <2>7. Goal("dispatch", <<m>>)
    BY <1>3, <2>5, <2>6 DEF Lifecycle, SingleVerbs
  <2>8. QED BY <2>7
<1>4. CASE call.verb \in {"group dispatch", "group start", "group stop", "group restart"}
  <2>1. call.over \in Groups /\ call.over \in Seq(Machines)
    BY <1>4, FleetAssumption DEF Calls, SingleVerbs
  <2>2. \A j \in DOMAIN call.over : call.over[j] \in Machines
    BY <2>1
  <2>3. Range(call.over) \subseteq On(call)
    BY <2>1, <2>2 DEF On, Range
  <2>4. PICK verb \in SingleVerbs : /\ f = Frame(call, verb, call.over)
                                    /\ call.verb = "group dispatch" => verb = "dispatch"
    BY <1>4 DEF Frames, SingleVerbs, GroupDispatch, GroupStart, GroupStop, GroupRestart
  <2>5. Goal(verb, call.over)
    BY <1>4, <2>1, <2>3, <2>4 DEF Lifecycle
  <2>6. QED BY <2>5
<1>5. QED BY <1>1, <1>2, <1>3, <1>4 DEF Calls

\* It is of the type of frames.
LEMMA FrameTyped ==
  ASSUME TypeOK, NEW call \in Calls, NEW f \in Frames(call)
  PROVE  f \in FrameType
<1>1. PICK verb \in SingleVerbs, todo \in Seq(Machines) : f = Frame(call, verb, todo)
  BY FramesAre
<1>2. call.ctx \in Contexts
  BY DEF Calls
<1> DEFINE due == IF call.verb = "fan out"
                  THEN {m \in started : /\ Home[m] = call.ctx /\ state[m] = "in"
                                        /\ call.over = {} \/ Id[m] \in call.over}
                  ELSE {}
<1>3. due \in SUBSET Machines
  BY DEF TypeOK
<1>4. f = [verb |-> verb, ctx |-> call.ctx, todo |-> todo, at |-> "next", result |-> "ok",
           event |-> None, source |-> "",
           skips |-> call.verb = "group dispatch", reached |-> {}, due |-> due]
  BY <1>1 DEF Frame
<1> HIDE DEF due
<1>5. QED BY <1>2, <1>3, <1>4 DEF FrameType, Steps

\* A frame that goes on, is done with a machine, or gives up, is one.
LEMMA FrameMoves ==
  ASSUME NEW f \in FrameType
  PROVE  /\ \A x \in Steps : [f EXCEPT !.at = x] \in FrameType
         /\ f.todo # <<>> => Served(f) \in FrameType
         /\ [f EXCEPT !.at = "next", !.todo = <<>>, !.event = None, !.source = "",
                      !.result = "error"] \in FrameType
<1>1. f.todo \in Seq(Machines) /\ "next" \in Steps
  BY DEF FrameType, Steps
<1>2. f.todo # <<>> => Tail(f.todo) \in Seq(Machines)
  BY <1>1
<1>3. f.todo # <<>> => Served(f) \in FrameType
  BY <1>1, <1>2 DEF FrameType, Served
<1>4. \A x \in Steps : [f EXCEPT !.at = x] \in FrameType
  BY DEF FrameType
<1>5. [f EXCEPT !.at = "next", !.todo = <<>>, !.event = None, !.source = "",
                !.result = "error"] \in FrameType
  <2>1. <<>> \in Seq(Machines)
    OBVIOUS
  <2>2. QED BY <1>1, <2>1 DEF FrameType
<1>6. QED BY <1>3, <1>4, <1>5

\* Who is somewhere on the way is with a machine.
LEMMA WithMachine ==
  ASSUME TypeOK, NEW c \in Clients, NEW x, At(c, x)
  PROVE  /\ Machine(c) \in Machines /\ Top(c) \in FrameType /\ Busy(c)
         /\ Top(c).at = x /\ Top(c).todo # <<>>
<1>1. Busy(c) /\ Top(c).at = x /\ Top(c).todo # <<>>
  BY DEF At
<1>2. Top(c) \in FrameType
  BY <1>1, TopIs DEF TypeOK
<1>3. Top(c).todo \in Seq(Machines)
  BY <1>2 DEF FrameType
<1>4. Head(Top(c).todo) \in Machines
  BY <1>1, <1>3
<1>5. QED BY <1>1, <1>2, <1>4 DEF Machine

-----------------------------------------------------------------------------
(***************************************************************************)
(* Types.                                                                  *)
(***************************************************************************)

Registries ==
  [Contexts -> [current : Names \cup {None}, machines : [Names -> Machines \cup {None}]]]

\* Registering keeps the type of the registry.
LEMMA RegistryTyped ==
  ASSUME NEW r \in Registries, NEW k \in Contexts, NEW m \in Machines
  PROVE  Registered(r, k, m) \in Registries /\ Unregistered(r, k, m) \in Registries
<1>1. Name[m] \in Names
  BY FleetAssumption
<1>2. r[k] \in [current : Names \cup {None}, machines : [Names -> Machines \cup {None}]]
  BY DEF Registries
<1>3. QED BY <1>1, <1>2 DEF Registered, Unregistered, Registries

\* Queuing an event, that of the queues.
LEMMA QueueTyped ==
  ASSUME TypeOK, NEW m \in Machines, NEW e \in {"init", "event"},
         queue' = [queue EXCEPT ![m] = Append(@, e)]
  PROVE  queue' \in [Machines -> Seq({"init", "event"})]
<1>1. queue \in [Machines -> Seq({"init", "event"})]
  BY DEF TypeOK
<1>2. Append(queue[m], e) \in Seq({"init", "event"})
  BY <1>1
<1>3. QED BY <1>1, <1>2

\* Each step keeps every variable's type.
LEMMA TypeStep ==
  ASSUME TypeOK, NEW c \in Clients, Invoke(c) \/ Step(c) \/ CallFromBehavior(c)
  PROVE  TypeOK'
<1>1. ASSUME Invoke(c) PROVE TypeOK'
  <2>1. PICK call \in Offers[c] : \E f \in Frames(call) : Push(c, f)
    BY <1>1 DEF Invoke
  <2>2. PICK f \in Frames(call) : Push(c, f)
    BY <2>1
  <2>3. f \in FrameType
    BY <2>1, <2>2, FrameTyped, FleetAssumption
  <2>4. frames' \in [Clients -> Seq(FrameType)]
    BY <2>2, <2>3, TopPushed DEF TypeOK
  <2>5. /\ made[c] < MaxCalls[c] /\ made' = [made EXCEPT ![c] = @ + 1]
        /\ UNCHANGED <<state, queue, drainer, registry, cancelled, nested, started>>
    BY <1>1 DEF Invoke
  <2>6. MaxCalls[c] \in Nat /\ made[c] \in Nat
    BY FleetAssumption DEF TypeOK
  <2>7. made' \in [Clients -> Nat] /\ \A d \in Clients : made'[d] <= MaxCalls[d]
    <3>1. made \in [Clients -> Nat] /\ \A d \in Clients : made[d] <= MaxCalls[d]
      BY DEF TypeOK
    <3>2. made[c] + 1 \in Nat /\ made[c] + 1 <= MaxCalls[c]
      BY <2>5, <2>6
    <3>3. QED BY <2>5, <3>1, <3>2
  <2>8. QED BY <2>4, <2>5, <2>7 DEF TypeOK
<1>2. ASSUME CallFromBehavior(c) PROVE TypeOK'
  <2>1. PICK call \in Nested : \E f \in Frames(call) : Push(c, f)
    BY <1>2 DEF CallFromBehavior
  <2>2. PICK f \in Frames(call) : Push(c, f)
    BY <2>1
  <2>3. f \in FrameType
    BY <2>1, <2>2, FrameTyped, FleetAssumption
  <2>4. frames' \in [Clients -> Seq(FrameType)]
    BY <2>2, <2>3, TopPushed DEF TypeOK
  <2>5. nested' \in 0 .. MaxNested
    <3>1. nested \in 0 .. MaxNested /\ nested < MaxNested /\ nested' = nested + 1
      BY <1>2 DEF CallFromBehavior, TypeOK
    <3>2. MaxNested \in Nat
      BY FleetAssumption
    <3>3. QED BY <3>1, <3>2
  <2>6. QED BY <1>2, <2>4, <2>5 DEF CallFromBehavior, TypeOK
<1>3. ASSUME Return(c) PROVE TypeOK'
  <2>1. frames' \in [Clients -> Seq(FrameType)]
    BY <1>3, TopPopped DEF Return, TypeOK
  <2>2. QED BY <1>3, <2>1 DEF Return, TypeOK
<1>4. ASSUME NEW f \in FrameType, Busy(c), SetTop(c, f)
      PROVE  frames' \in [Clients -> Seq(FrameType)]
  BY <1>4, TopSet DEF TypeOK
<1>5. ASSUME NEW x, At(c, x), \/ Next1(c) \/ Refused(c) \/ \E y \in Steps : Goto(c, y)
      PROVE  frames' \in [Clients -> Seq(FrameType)]
  <2>1. Top(c) \in FrameType /\ Busy(c) /\ Top(c).todo # <<>>
    BY <1>5, WithMachine
  <2>2. QED BY <1>4, <1>5, <2>1, FrameMoves DEF Next1, Refused, Goto
<1>6. ASSUME JoinDrain(c) PROVE TypeOK'
  <2>1. Next1(c) \/ Goto(c, "drain")
    BY <1>6 DEF JoinDrain, BeginDrain
  <2>2. frames' \in [Clients -> Seq(FrameType)]
    BY <1>5, <1>6, <2>1 DEF JoinDrain, Steps
  <2>3. drainer' \in [Machines -> Clients \cup {None}]
    BY <1>6 DEF JoinDrain, BeginDrain, TypeOK
  <2>4. QED BY <1>6, <2>2, <2>3 DEF JoinDrain, TypeOK
<1>7. registry \in Registries /\ \A m \in Machines : Home[m] \in Contexts
  BY FleetAssumption DEF TypeOK, Registries
<1>8. ASSUME PassOver(c) \/ Dispatch(c) PROVE TypeOK'
  <2>1. frames' \in [Clients -> Seq(FrameType)]
    BY <1>5, <1>8 DEF PassOver, Dispatch, Steps
  <2>2. QED BY <1>8, <2>1 DEF PassOver, Dispatch, TypeOK
<1>9. ASSUME DispatchQueued(c) PROVE TypeOK'
  <2> DEFINE f == [Top(c) EXCEPT !.at = "register", !.reached = @ \cup {Machine(c)}]
             e == IF Top(c).verb = "dispatch" THEN "event" ELSE "init"
  <2>1. Top(c) \in FrameType /\ Busy(c) /\ Machine(c) \in Machines
    BY <1>9, WithMachine DEF DispatchQueued
  <2>2. f \in FrameType
    BY <2>1 DEF FrameType, Steps
  <2>3. SetTop(c, f) /\ queue' = [queue EXCEPT ![Machine(c)] = Append(@, e)]
    BY <1>9 DEF DispatchQueued
  <2>4. e \in {"init", "event"}
    OBVIOUS
  <2> HIDE DEF f, e
  <2>5. frames' \in [Clients -> Seq(FrameType)]
    BY <1>4, <2>1, <2>2, <2>3
  <2>6. queue' \in [Machines -> Seq({"init", "event"})]
    BY <2>1, <2>3, <2>4, QueueTyped
  <2>7. QED BY <1>9, <2>5, <2>6 DEF DispatchQueued, TypeOK
<1>a. ASSUME RegisterToDrain(c) PROVE TypeOK'
  <2>1. Top(c) \in FrameType /\ Machine(c) \in Machines
    BY <1>a, WithMachine DEF RegisterToDrain
  <2>2. Top(c).ctx \in Contexts /\ Home[Machine(c)] \in Contexts
    BY <1>7, <2>1 DEF FrameType
  <2>3. frames' \in [Clients -> Seq(FrameType)]
    BY <1>5, <1>a DEF RegisterToDrain, Steps
  <2>4. registry' \in Registries
    BY <1>7, <1>a, <2>1, <2>2, RegistryTyped DEF RegisterToDrain
  <2>5. QED BY <1>a, <2>3, <2>4 DEF RegisterToDrain, TypeOK, Registries
<1>10. ASSUME TakeEvent(c) PROVE TypeOK'
  <2>1. Top(c) \in FrameType /\ Busy(c) /\ Machine(c) \in Machines
    BY <1>10, WithMachine DEF TakeEvent
  <2> DEFINE q == queue[Machine(c)]
             f == [Top(c) EXCEPT !.at = "process", !.event = Head(q),
                                 !.source = state[Machine(c)]]
  <2>2. q \in Seq({"init", "event"}) /\ q # <<>>
    BY <1>10, <2>1 DEF TakeEvent, TypeOK
  <2>3. Head(q) \in {"init", "event"} /\ Tail(q) \in Seq({"init", "event"})
    BY <2>2
  <2>4. f \in FrameType
    BY <2>1, <2>3 DEF FrameType, TypeOK, Steps
  <2>5. SetTop(c, f)
    BY <1>10 DEF TakeEvent
  <2>6. frames' \in [Clients -> Seq(FrameType)]
    BY <1>4, <2>1, <2>4, <2>5
  <2>7. queue' \in [Machines -> Seq({"init", "event"})]
    BY <1>10, <2>1, <2>3 DEF TakeEvent, TypeOK
  <2>8. QED BY <1>10, <2>6, <2>7 DEF TakeEvent, TypeOK
<1>11. ASSUME Process(c) PROVE TypeOK'
  <2>1. Top(c) \in FrameType /\ Busy(c)
    BY <1>11, WithMachine DEF Process
  <2>2. [Top(c) EXCEPT !.at = "drain", !.event = None, !.source = ""] \in FrameType
    BY <2>1 DEF FrameType, Steps
  <2>3. frames' \in [Clients -> Seq(FrameType)]
    BY <1>4, <1>11, <2>1, <2>2 DEF Process
  <2>4. QED BY <1>11, <2>3 DEF Process, TypeOK
<1>12. ASSUME EndDrain(c) \/ ReleaseDrain(c) PROVE TypeOK'
  <2>1. frames' \in [Clients -> Seq(FrameType)]
    BY <1>5, <1>12 DEF EndDrain, ReleaseDrain, Steps
  <2>2. QED BY <1>12, <2>1 DEF EndDrain, ReleaseDrain, TypeOK
<1>13. ASSUME FailDrain(c) PROVE TypeOK'
  <2>1. frames' \in [Clients -> Seq(FrameType)]
    BY <1>5, <1>13 DEF FailDrain, Steps
  <2>2. QED BY <1>13, <2>1 DEF FailDrain, TypeOK
<1>b. ASSUME Withdraw(c) PROVE TypeOK'
  <2>1. frames' \in [Clients -> Seq(FrameType)]
    BY <1>5, <1>b DEF Withdraw
  <2>2. Machine(c) \in Machines
    BY <1>b, WithMachine DEF Withdraw
  <2>3. registry' \in Registries
    BY <1>7, <1>b, <2>2, RegistryTyped DEF Withdraw
  <2>4. started' \subseteq Machines
    BY <1>b DEF Withdraw, TypeOK
  <2>5. QED BY <1>b, <2>1, <2>3, <2>4 DEF Withdraw, TypeOK, Registries
<1>14. ASSUME StartChecks(c) PROVE TypeOK'
  <2>1. frames' \in [Clients -> Seq(FrameType)]
    BY <1>5, <1>14 DEF StartChecks, Steps
  <2>2. QED BY <1>14, <2>1 DEF StartChecks, TypeOK
<1>15. ASSUME Activate(c) PROVE TypeOK'
  <2>1. frames' \in [Clients -> Seq(FrameType)]
    BY <1>5, <1>15 DEF Activate, Steps
  <2>2. state' \in [Machines -> {"", "root", "in"}]
    BY <1>15 DEF Activate, TypeOK
  <2>3. QED BY <1>15, <2>1, <2>2 DEF Activate, TypeOK
<1>c. ASSUME Enlist(c) PROVE TypeOK'
  <2>1. Machine(c) \in Machines
    BY <1>c, WithMachine DEF Enlist
  <2>2. frames' \in [Clients -> Seq(FrameType)]
    BY <1>5, <1>c DEF Enlist, Steps
  <2>3. registry' \in Registries
    BY <1>7, <1>c, <2>1, RegistryTyped DEF Enlist
  <2>4. started' \subseteq Machines
    BY <1>c, <2>1 DEF Enlist, TypeOK
  <2>5. QED BY <1>c, <2>2, <2>3, <2>4 DEF Enlist, TypeOK, Registries
<1>16. ASSUME RestartChecks(c) PROVE TypeOK'
  <2>1. frames' \in [Clients -> Seq(FrameType)]
    BY <1>5, <1>16 DEF RestartChecks, Steps
  <2>2. QED BY <1>16, <2>1 DEF RestartChecks, TypeOK
<1>17. ASSUME StopBegins(c) PROVE TypeOK'
  <2>1. PICK x : At(c, x)
    BY <1>17 DEF StopBegins
  <2>2. Top(c) \in FrameType /\ Machine(c) \in Machines
    BY <2>1, WithMachine
  <2>3. frames' \in [Clients -> Seq(FrameType)]
    BY <1>5, <1>17, <2>1 DEF StopBegins, Stopped, Steps
  <2>4. Top(c).ctx \in Contexts
    BY <2>2 DEF FrameType
  <2>5. registry' \in Registries
    BY <1>7, <1>17, <2>2, <2>4, RegistryTyped DEF StopBegins
  <2>6. QED BY <1>17, <2>3, <2>5 DEF StopBegins, TypeOK, Registries
<1>18. ASSUME SwitchOff(c) PROVE TypeOK'
  <2>1. frames' \in [Clients -> Seq(FrameType)]
    BY <1>5, <1>18 DEF SwitchOff, Steps
  <2>2. queue' \in [Machines -> Seq({"init", "event"})]
    <3>1. <<>> \in Seq({"init", "event"})
      OBVIOUS
    <3>2. queue \in [Machines -> Seq({"init", "event"})]
      BY DEF TypeOK
    <3>3. queue' = [queue EXCEPT ![Machine(c)] = <<>>]
      BY <1>18 DEF SwitchOff
    <3>4. QED BY <3>1, <3>2, <3>3
  <2>3. state' \in [Machines -> {"", "root", "in"}] /\ started' \subseteq Machines
    BY <1>18 DEF SwitchOff, TypeOK
  <2>4. QED BY <1>18, <2>1, <2>2, <2>3 DEF SwitchOff, TypeOK
<1>19. ASSUME StopUnregisters(c) PROVE TypeOK'
  <2>1. frames' \in [Clients -> Seq(FrameType)]
    BY <1>5, <1>19 DEF StopUnregisters, Stopped, Steps
  <2>2. Machine(c) \in Machines /\ Top(c).ctx \in Contexts
    BY <1>19, WithMachine DEF StopUnregisters, FrameType
  <2>3. registry' \in Registries
    BY <1>7, <1>19, <2>2, RegistryTyped DEF StopUnregisters
  <2>4. QED BY <1>19, <2>1, <2>3 DEF StopUnregisters, TypeOK, Registries
<1>20. QED
  BY <1>1, <1>2, <1>3, <1>6, <1>8, <1>9, <1>a, <1>10, <1>11, <1>12, <1>13, <1>b, <1>14, <1>15,
     <1>c, <1>16, <1>17, <1>18, <1>19 DEF Step

\* Every variable keeps its type: whatever is served is a machine, a call's
\* stack holds frames, and the bounds on calls are kept.
THEOREM FleetTyped == Spec => []TypeOK
<1>1. Init => TypeOK
  <2> SUFFICES ASSUME Init PROVE TypeOK
    OBVIOUS
  <2>1. registry \in Registries
    BY DEF Init, Registries, NoMachines
  <2>2. queue \in [Machines -> Seq({"init", "event"})] /\ frames \in [Clients -> Seq(FrameType)]
    <3>1. <<>> \in Seq({"init", "event"}) /\ <<>> \in Seq(FrameType)
      OBVIOUS
    <3>2. queue = [m \in Machines |-> <<>>] /\ frames = [c \in Clients |-> <<>>]
      BY DEF Init
    <3>3. QED BY <3>1, <3>2
  <2>3. /\ nested \in 0 .. MaxNested
        /\ made \in [Clients -> Nat] /\ \A c \in Clients : made[c] <= MaxCalls[c]
    <3>1. MaxNested \in Nat /\ MaxCalls \in [Clients -> Nat]
      BY FleetAssumption
    <3>2. nested = 0 /\ made = [c \in Clients |-> 0]
      BY DEF Init
    <3>3. QED BY <3>1, <3>2
  <2>4. QED BY <2>1, <2>2, <2>3 DEF Init, TypeOK, Registries
<1>2. TypeOK /\ [Next]_vars => TypeOK'
  <2> SUFFICES ASSUME TypeOK, [Next]_vars PROVE TypeOK'
    OBVIOUS
  <2>1. ASSUME NEW k \in Cancellable, Cancel(k) PROVE TypeOK'
    BY <2>1, FleetAssumption DEF Cancel, TypeOK
  <2>2. ASSUME UNCHANGED vars PROVE TypeOK'
    BY <2>2 DEF vars, TypeOK
  <2>3. QED BY <2>1, <2>2, TypeStep DEF Next
<1>3. QED BY <1>1, <1>2, PTL DEF Spec

-----------------------------------------------------------------------------
(***************************************************************************)
(* What is in the registry, and whom a fan-out reaches.  A machine counted *)
(* as started is in the registry whatever its state: only its controller   *)
(* takes it out, and counts it as stopped before.  A frame still has to    *)
(* serve the machines it was due to reach and has not reached yet.         *)
(***************************************************************************)

\* Where the event has been queued.
Queued == {"register", "begin", "drain", "process", "release"}

\* Frame f, the i-th of client c, given who controls which machine.
Sound(controller, c, i, f) ==
  /\ f.verb # "dispatch" =>
       /\ i = 1 /\ f.due = {} /\ \A j \in DOMAIN f.todo : controller[f.todo[j]] = c
  /\ f.verb = "dispatch" => f.at \in {"next", "check", "push"} \cup Queued
  /\ f.verb = "dispatch" /\ f.at \in Queued => f.todo[1] \in f.reached
  /\ f.skips => f.due = {}
  /\ f.result = "ok" => f.due \subseteq f.reached \cup Range(f.todo)

AllSound(controller) ==
  \A c \in Clients : \A i \in DOMAIN frames[c] : Sound(controller, c, i, frames[c][i])

\* A machine counted as started is found,
Recorded == \A m \in started : registry[Home[m]].machines[Name[m]] = m

\* and who takes one out of the registry has counted it as stopped before.
Withdrawn ==
  \A c \in Clients : \A i \in DOMAIN frames[c] :
    frames[c][i].at = "unregister" =>
      frames[c][i].todo # <<>> /\ frames[c][i].todo[1] \notin started

\* A frame that is done with a machine it has reached, or was not to reach, is sound.
LEMMA ServedSound ==
  ASSUME NEW k, NEW c, NEW i, NEW f \in FrameType, f.todo # <<>>, Sound(k, c, i, f),
         f.due # {} => f.todo[1] \in f.reached
  PROVE  Sound(k, c, i, Served(f))
<1> DEFINE g == Served(f)
<1>1. f.todo \in Seq(Machines)
  BY DEF FrameType
<1>2. \A j \in DOMAIN Tail(f.todo) : j + 1 \in DOMAIN f.todo /\ Tail(f.todo)[j] = f.todo[j + 1]
  BY <1>1
<1>3. /\ g.verb = f.verb /\ g.at = "next" /\ g.todo = Tail(f.todo) /\ g.skips = f.skips
      /\ g.due = f.due /\ g.reached = f.reached /\ g.result = f.result
  BY DEF Served, FrameType
<1>4. Range(f.todo) \subseteq {f.todo[1]} \cup Range(Tail(f.todo))
  <2> SUFFICES ASSUME NEW j \in DOMAIN f.todo, j # 1
               PROVE  \E l \in DOMAIN Tail(f.todo) : Tail(f.todo)[l] = f.todo[j]
    BY DEF Range
  <2>1. j - 1 \in DOMAIN Tail(f.todo) /\ Tail(f.todo)[j - 1] = f.todo[j]
    BY <1>1
  <2>2. QED BY <2>1
<1> HIDE DEF g
<1>5. g.verb # "dispatch" =>
        /\ i = 1 /\ g.due = {} /\ \A j \in DOMAIN g.todo : k[g.todo[j]] = c
  BY <1>2, <1>3 DEF Sound
<1>6. g.result = "ok" => g.due \subseteq g.reached \cup Range(g.todo)
  BY <1>3, <1>4 DEF Sound
<1>7. Sound(k, c, i, g)
  BY <1>3, <1>5, <1>6 DEF Sound, Queued
<1>8. QED BY <1>7 DEF g

\* One that gives up is.
LEMMA RefusedSound ==
  ASSUME NEW k, NEW c, NEW i, NEW f \in FrameType, Sound(k, c, i, f)
  PROVE  Sound(k, c, i, [f EXCEPT !.at = "next", !.todo = <<>>, !.event = None, !.source = "",
                                  !.result = "error"])
<1> DEFINE g == [f EXCEPT !.at = "next", !.todo = <<>>, !.event = None, !.source = "",
                          !.result = "error"]
<1>1. /\ g.verb = f.verb /\ g.at = "next" /\ g.todo = <<>> /\ g.skips = f.skips
      /\ g.due = f.due /\ g.result = "error"
  BY DEF FrameType
<1> HIDE DEF g
<1>2. Sound(k, c, i, g)
  BY <1>1 DEF Sound, Queued
<1>3. QED BY <1>2 DEF g

\* A call begins soundly if lifecycle calls are their controllers' and no behaviour's,
\* and if the machines due are in the registry.
LEMMA FrameSound ==
  ASSUME TypeOK, Recorded, NEW k, NEW c \in Clients, NEW i, NEW call \in Calls,
         Lifecycle(call) => i = 1 /\ \A m \in On(call) : k[m] = c,
         NEW f \in Frames(call)
  PROVE  Sound(k, c, i, f) /\ f.at = "next"
<1>1. PICK verb \in SingleVerbs, todo \in Seq(Machines) :
        /\ f = Frame(call, verb, todo)
        /\ IF Lifecycle(call) THEN Range(todo) \subseteq On(call) ELSE verb = "dispatch"
        /\ call.verb = "fan out" =>
             \A m \in Machines :
               /\ registry[call.ctx].machines[Name[m]] = m /\ state[m] = "in"
               /\ call.over = {} \/ Id[m] \in call.over
               => m \in Range(todo)
  BY FramesAre
<1>2. /\ f.verb = verb /\ f.todo = todo /\ f.at = "next" /\ f.reached = {}
      /\ f.skips = (call.verb = "group dispatch")
      /\ f.due = IF call.verb = "fan out"
                 THEN {m \in started : /\ Home[m] = call.ctx /\ state[m] = "in"
                                       /\ call.over = {} \/ Id[m] \in call.over}
                 ELSE {}
  BY <1>1 DEF Frame
<1>3. Lifecycle(call) => \A j \in DOMAIN todo : k[todo[j]] = c
  BY <1>1 DEF Range
<1>4. f.due \subseteq Range(todo)
  <2> SUFFICES ASSUME NEW m \in f.due PROVE m \in Range(todo)
    OBVIOUS
  <2>1. /\ call.verb = "fan out" /\ m \in started /\ Home[m] = call.ctx /\ state[m] = "in"
        /\ call.over = {} \/ Id[m] \in call.over
    BY <1>2
  <2>2. registry[call.ctx].machines[Name[m]] = m /\ m \in Machines
    BY <2>1 DEF Recorded, TypeOK
  <2>3. QED BY <1>1, <2>1, <2>2
<1>5. f.due # {} => ~Lifecycle(call) /\ ~f.skips
  BY <1>2 DEF Lifecycle
<1>6. QED BY <1>1, <1>2, <1>3, <1>4, <1>5 DEF Sound, Queued

\* A step that changes the top of one stack only.
LEMMA TopSound ==
  ASSUME TypeOK, NEW k, AllSound(k), NEW c \in Clients, NEW f \in FrameType,
         \/ Busy(c) /\ SetTop(c, f) /\ Sound(k, c, Len(frames[c]), f)
         \/ Push(c, f) /\ Sound(k, c, Len(frames[c]) + 1, f)
  PROVE  AllSound(k)'
<1> SUFFICES ASSUME NEW d \in Clients, NEW i \in DOMAIN frames'[d]
             PROVE  Sound(k, d, i, frames'[d][i])
  BY DEF AllSound
<1>1. frames \in [Clients -> Seq(FrameType)]
  BY DEF TypeOK
<1>2. CASE Busy(c) /\ SetTop(c, f) /\ Sound(k, c, Len(frames[c]), f)
  <2>1. frames'[d] \in Seq(FrameType) /\ (d # c => frames'[d] = frames[d])
    BY <1>1, <1>2, TopSet
  <2>2. d = c => /\ DOMAIN frames'[d] = DOMAIN frames[d]
                 /\ frames'[d][i] = IF i = Len(frames[d]) THEN f ELSE frames[d][i]
    BY <1>1, <1>2, <2>1, TopSet
  <2>3. QED BY <1>2, <2>1, <2>2 DEF AllSound
<1>3. CASE Push(c, f) /\ Sound(k, c, Len(frames[c]) + 1, f)
  <2>1. frames'[d] \in Seq(FrameType) /\ (d # c => frames'[d] = frames[d])
    BY <1>1, <1>3, TopPushed
  <2>2. d = c => /\ DOMAIN frames'[d] = 1 .. Len(frames[d]) + 1
                 /\ frames'[d][i] = IF i = Len(frames[d]) + 1 THEN f ELSE frames[d][i]
    BY <1>1, <1>3 DEF Push
  <2>3. i # Len(frames[d]) + 1 /\ d = c => i \in DOMAIN frames[d]
    BY <1>1, <2>2
  <2>4. QED BY <1>3, <2>1, <2>2, <2>3 DEF AllSound
<1>4. QED BY <1>2, <1>3

\* Clients, unlike behaviours, start and stop machines, each those it controls.
Controls(controller) ==
  /\ \A call \in Nested : ~Lifecycle(call)
  /\ \A c \in Clients : \A call \in Offers[c] :
       Lifecycle(call) => \A m \in On(call) : controller[m] = c

\* Done with a machine, given up or gone on: the frame stays sound.
LEMMA MovesSound ==
  ASSUME TypeOK, NEW k, AllSound(k), NEW c \in Clients, NEW y, At(c, y),
         \/ Next1(c) /\ (Top(c).due # {} => Top(c).todo[1] \in Top(c).reached)
         \/ Refused(c)
         \/ \E x \in Steps :
              /\ Goto(c, x)
              /\ Top(c).verb = "dispatch" =>
                   x \in {"check", "push"} \/ (x \in Queued /\ Top(c).todo[1] \in Top(c).reached)
  PROVE  AllSound(k)'
<1> DEFINE f == Top(c)
           n == Len(frames[c])
<1>1. f \in FrameType /\ Busy(c) /\ f.todo # <<>>
  BY WithMachine
<1>2. Sound(k, c, n, f)
  BY <1>1, TopIs DEF AllSound, TypeOK
<1> HIDE DEF f, n
<1>3. CASE Next1(c) /\ (f.due # {} => f.todo[1] \in f.reached)
  <2>1. Served(f) \in FrameType /\ Sound(k, c, n, Served(f))
    BY <1>1, <1>2, <1>3, FrameMoves, ServedSound
  <2>2. QED BY <1>1, <1>3, <2>1, TopSound DEF Next1, f, n
<1>4. CASE Refused(c)
  <2> DEFINE g == [f EXCEPT !.at = "next", !.todo = <<>>, !.event = None, !.source = "",
                            !.result = "error"]
  <2>1. g \in FrameType /\ Sound(k, c, n, g)
    BY <1>1, <1>2, FrameMoves, RefusedSound
  <2>2. SetTop(c, g)
    BY <1>4 DEF Refused, f
  <2> HIDE DEF g
  <2>3. QED BY <1>1, <2>1, <2>2, TopSound DEF n
<1>5. ASSUME NEW x \in Steps, Goto(c, x),
             f.verb = "dispatch" => x \in {"check", "push"} \/ (x \in Queued /\ f.todo[1] \in f.reached)
      PROVE  AllSound(k)'
  <2> DEFINE g == [f EXCEPT !.at = x]
  <2>1. g \in FrameType
    BY <1>1, <1>5, FrameMoves
  <2>2. Sound(k, c, n, g)
    BY <1>1, <1>2, <1>5 DEF Sound, FrameType, Queued
  <2>3. SetTop(c, g)
    BY <1>5 DEF Goto, f
  <2> HIDE DEF g
  <2>4. QED BY <1>1, <2>1, <2>2, <2>3, TopSound DEF n
<1>6. QED BY <1>3, <1>4, <1>5 DEF f

\* All steps of a client.
LEMMA SoundStep ==
  ASSUME TypeOK, Recorded, NEW k, Controls(k), AllSound(k), NEW c \in Clients,
         Invoke(c) \/ Step(c) \/ CallFromBehavior(c)
  PROVE  AllSound(k)'
<1> DEFINE n == Len(frames[c])
<1>1. ASSUME Busy(c)
      PROVE  /\ Top(c) \in FrameType /\ Sound(k, c, n, Top(c))
             /\ Top(c).verb # "dispatch" => Top(c).due = {}
  <2>1. Top(c) \in FrameType /\ Sound(k, c, n, Top(c))
    BY <1>1, TopIs DEF AllSound, TypeOK
  <2>2. QED BY <2>1 DEF Sound
<1> HIDE DEF n
<1>2. ASSUME NEW x, At(c, x)
      PROVE  /\ Busy(c) /\ Top(c).todo # <<>> /\ Top(c).at = x
             /\ Machine(c) = Top(c).todo[1]
             /\ x \in {"start", "activate", "enlist", "withdraw", "stop", "exit", "unregister"} =>
                  Top(c).verb # "dispatch"
  <2>1. Busy(c) /\ Top(c).todo # <<>> /\ Top(c).at = x
    BY <1>2 DEF At
  <2>2. Top(c).todo \in Seq(Machines)
    BY <1>1, <2>1 DEF FrameType
  <2>3. QED BY <1>1, <2>1, <2>2 DEF Machine, Sound, Queued
<1>3. ASSUME Invoke(c) PROVE AllSound(k)'
  <2>1. PICK call \in Offers[c] : \E f \in Frames(call) : Push(c, f)
    BY <1>3 DEF Invoke
  <2>2. PICK f \in Frames(call) : Push(c, f)
    BY <2>1
  <2>3. call \in Calls /\ (Lifecycle(call) => \A m \in On(call) : k[m] = c)
    BY FleetAssumption DEF Controls
  <2>4. Len(frames[c]) + 1 = 1
    <3>1. frames[c] = <<>>
      BY <1>3 DEF Invoke, Busy
    <3>2. QED BY <3>1
  <2>5. f \in FrameType /\ Sound(k, c, Len(frames[c]) + 1, f)
    BY <2>3, <2>4, FrameTyped, FrameSound
  <2>6. QED BY <2>2, <2>5, TopSound
<1>4. ASSUME CallFromBehavior(c) PROVE AllSound(k)'
  <2>1. PICK call \in Nested : \E f \in Frames(call) : Push(c, f)
    BY <1>4 DEF CallFromBehavior
  <2>2. PICK f \in Frames(call) : Push(c, f)
    BY <2>1
  <2>3. call \in Calls /\ ~Lifecycle(call)
    BY FleetAssumption DEF Controls
  <2>4. f \in FrameType /\ Sound(k, c, Len(frames[c]) + 1, f)
    BY <2>3, FrameTyped, FrameSound
  <2>5. QED BY <2>2, <2>4, TopSound
<1>5. ASSUME Return(c) PROVE AllSound(k)'
  <2>1. Busy(c) /\ frames' = [frames EXCEPT ![c] = Front(@)]
    BY <1>5 DEF Return
  <2>2. /\ \A d \in Clients : d # c => frames'[d] = frames[d]
        /\ DOMAIN frames'[c] \subseteq DOMAIN frames[c]
        /\ \A i \in DOMAIN frames'[c] : frames'[c][i] = frames[c][i]
    BY <2>1, TopPopped DEF TypeOK
  <2>3. QED BY <2>2 DEF AllSound
<1>6. ASSUME PassOver(c) \/ Dispatch(c) PROVE AllSound(k)'
  <2>1. "push" \in Steps /\ "check" \in Steps
    BY DEF Steps
  <2>2. CASE PassOver(c)
    <3>1. At(c, "next") /\ Top(c).skips
      BY <2>2 DEF PassOver
    <3>2. Top(c).due = {}
      BY <1>1, <1>2, <3>1 DEF Sound
    <3>3. QED BY <2>1, <2>2, <3>1, <3>2, MovesSound DEF PassOver
  <2>3. CASE Dispatch(c)
    BY <2>1, <2>3, MovesSound DEF Dispatch
  <2>4. QED BY <1>6, <2>2, <2>3
<1>7. ASSUME DispatchQueued(c) PROVE AllSound(k)'
  <2> DEFINE f == [Top(c) EXCEPT !.at = "register", !.reached = @ \cup {Machine(c)}]
  <2>1. Busy(c) /\ Top(c).todo # <<>> /\ Machine(c) = Top(c).todo[1] /\ Machine(c) \in Machines
    BY <1>2, <1>7, WithMachine DEF DispatchQueued
  <2>2. Top(c) \in FrameType /\ Sound(k, c, n, Top(c))
    BY <1>1, <2>1
  <2>3. /\ f.verb = Top(c).verb /\ f.at = "register" /\ f.todo = Top(c).todo
        /\ f.skips = Top(c).skips /\ f.due = Top(c).due /\ f.result = Top(c).result
        /\ f.reached = Top(c).reached \cup {Machine(c)} /\ f \in FrameType
    BY <2>1, <2>2 DEF FrameType, Steps
  <2>4. SetTop(c, f)
    BY <1>7 DEF DispatchQueued
  <2> HIDE DEF f
  <2>5. Sound(k, c, n, f)
    BY <2>1, <2>2, <2>3 DEF Sound, Queued
  <2>6. QED BY <2>1, <2>3, <2>4, <2>5, TopSound DEF n
<1>a. ASSUME RegisterToDrain(c) PROVE AllSound(k)'
  <2>1. At(c, "register") /\ Goto(c, "begin") /\ "register" \in Queued /\ "begin" \in Queued \cap Steps
    BY <1>a DEF RegisterToDrain, Queued, Steps
  <2>2. Top(c).verb = "dispatch" => Top(c).todo[1] \in Top(c).reached
    BY <1>1, <2>1 DEF At, Sound
  <2>3. QED BY <2>1, <2>2, MovesSound
<1>b. ASSUME JoinDrain(c) PROVE AllSound(k)'
  <2>1. At(c, "begin") /\ "begin" \in Queued /\ "drain" \in Queued \cap Steps
    BY <1>b DEF JoinDrain, Queued, Steps
  <2>2. Next1(c) \/ Goto(c, "drain")
    BY <1>b DEF JoinDrain, BeginDrain
  <2>3. /\ Top(c).verb = "dispatch" => Top(c).todo[1] \in Top(c).reached
        /\ Top(c).due # {} => Top(c).todo[1] \in Top(c).reached
    BY <1>1, <2>1 DEF At, Sound
  <2>4. QED BY <2>1, <2>2, <2>3, MovesSound
<1>8. ASSUME TakeEvent(c) PROVE AllSound(k)'
  <2>1. Busy(c) /\ Top(c).at = "drain" /\ Machine(c) \in Machines
    BY <1>2, <1>8, WithMachine DEF TakeEvent
  <2>2. Top(c) \in FrameType /\ Sound(k, c, n, Top(c))
    BY <1>1, <2>1
  <2> DEFINE q == queue[Machine(c)]
             f == [Top(c) EXCEPT !.at = "process", !.event = Head(q),
                                 !.source = state[Machine(c)]]
  <2>3. q \in Seq({"init", "event"}) /\ q # <<>>
    BY <1>8, <2>1 DEF TakeEvent, TypeOK
  <2>4. Head(q) \in {"init", "event"} /\ state[Machine(c)] \in {"", "root", "in"}
    <3>1. Head(q) \in {"init", "event"}
      BY <2>3
    <3>2. QED BY <2>1, <3>1 DEF TypeOK
  <2>5. SetTop(c, f)
    BY <1>8 DEF TakeEvent
  <2>6. f \in FrameType
    BY <2>2, <2>4 DEF FrameType, Steps
  <2>7. Sound(k, c, n, f)
    BY <2>1, <2>2, <2>4 DEF Sound, FrameType, Queued
  <2> HIDE DEF f
  <2>8. QED BY <2>1, <2>5, <2>6, <2>7, TopSound DEF n
<1>9. ASSUME Process(c) PROVE AllSound(k)'
  <2>1. Busy(c) /\ Top(c).at = "process"
    BY <1>2, <1>9 DEF Process
  <2>2. Top(c) \in FrameType /\ Sound(k, c, n, Top(c))
    BY <1>1, <2>1
  <2> DEFINE f == [Top(c) EXCEPT !.at = "drain", !.event = None, !.source = ""]
  <2>3. SetTop(c, f)
    BY <1>9 DEF Process
  <2>4. f \in FrameType
    BY <2>2 DEF FrameType, Steps
  <2>5. Sound(k, c, n, f)
    BY <2>1, <2>2 DEF Sound, FrameType, Queued
  <2> HIDE DEF f
  <2>6. QED BY <2>1, <2>3, <2>4, <2>5, TopSound DEF n
<1>10. ASSUME EndDrain(c) \/ ReleaseDrain(c) PROVE AllSound(k)'
  <2>1. \/ At(c, "drain") /\ Goto(c, "release")
        \/ At(c, "release") /\ Next1(c)
    BY <1>10 DEF EndDrain, ReleaseDrain
  <2>2. "drain" \in Queued /\ "release" \in Queued \cap Steps
    BY DEF Queued, Steps
  <2>3. /\ Top(c).verb = "dispatch" => Top(c).todo[1] \in Top(c).reached
        /\ Top(c).due # {} => Top(c).todo[1] \in Top(c).reached
    BY <1>1, <2>1, <2>2 DEF At, Sound
  <2>4. QED BY <2>1, <2>2, <2>3, MovesSound
<1>11. ASSUME FailDrain(c) \/ Withdraw(c) PROVE AllSound(k)'
  <2>1. "withdraw" \in Steps
    BY DEF Steps
  <2>2. \E y : At(c, y) /\ (Refused(c) \/ (Goto(c, "withdraw") /\ Top(c).verb # "dispatch"))
    BY <1>11 DEF FailDrain, Withdraw
  <2>3. QED BY <2>1, <2>2, MovesSound
<1>12. ASSUME StartChecks(c) PROVE AllSound(k)'
  <2>1. PICK x : At(c, x) /\ ((x = "next" /\ Top(c).verb = "start") \/ x = "start")
    BY <1>12 DEF StartChecks
  <2>2. Top(c).verb # "dispatch" /\ "activate" \in Steps
    BY <1>2, <2>1 DEF Steps
  <2>3. QED BY <1>12, <2>1, <2>2, MovesSound DEF StartChecks
<1>13. ASSUME Activate(c) \/ Enlist(c) PROVE AllSound(k)'
  <2>1. \E y \in {"activate", "enlist"}, x \in {"enlist", "push"} : At(c, y) /\ Goto(c, x)
    BY <1>13 DEF Activate, Enlist
  <2>2. "enlist" \in Steps /\ "push" \in Steps
    BY DEF Steps
  <2>3. QED BY <1>2, <2>1, <2>2, MovesSound
<1>14. ASSUME NEW x, At(c, x), Top(c).verb # "dispatch", Stopped(c) PROVE AllSound(k)'
  BY <1>1, <1>2, <1>14, MovesSound DEF Stopped, Steps
<1>15. ASSUME RestartChecks(c) PROVE AllSound(k)'
  BY <1>15, MovesSound DEF RestartChecks, Steps
<1>16. ASSUME StopBegins(c) PROVE AllSound(k)'
  <2>1. PICK x : At(c, x) /\ ((x = "next" /\ Top(c).verb = "stop") \/ x = "stop")
    BY <1>16 DEF StopBegins
  <2>2. Top(c).verb # "dispatch" /\ "exit" \in Steps
    BY <1>2, <2>1 DEF Steps
  <2>3. Stopped(c) \/ Goto(c, "exit")
    BY <1>16 DEF StopBegins
  <2>4. QED BY <1>14, <2>1, <2>2, <2>3, MovesSound
<1>17. ASSUME SwitchOff(c) PROVE AllSound(k)'
  <2>1. At(c, "exit") /\ Goto(c, "unregister") /\ "unregister" \in Steps
    BY <1>17 DEF SwitchOff, Steps
  <2>2. QED BY <1>2, <2>1, MovesSound
<1>18. ASSUME StopUnregisters(c) PROVE AllSound(k)'
  <2>1. At(c, "unregister") /\ Stopped(c)
    BY <1>18 DEF StopUnregisters
  <2>2. QED BY <1>2, <1>14, <2>1
<1>19. QED
  BY <1>3, <1>4, <1>5, <1>6, <1>7, <1>a, <1>b, <1>8, <1>9, <1>10, <1>11, <1>12, <1>13, <1>15,
     <1>16, <1>17, <1>18 DEF Step

\* Of other machines registering one changes nothing, and one itself is found
\* where it was registered.
LEMMA RegistryKeeps ==
  ASSUME NamesApart, NEW r \in Registries, NEW k \in Contexts, NEW m \in Machines,
         NEW h \in Contexts, NEW n \in Machines, r[h].machines[Name[n]] = n
  PROVE  /\ Registered(r, k, m)[h].machines[Name[n]] = n
         /\ n # m => Unregistered(r, k, m)[h].machines[Name[n]] = n
<1>1. Name[m] \in Names /\ Name[n] \in Names /\ (n # m => Name[n] # Name[m])
  BY FleetAssumption DEF NamesApart
<1>2. r[h].machines \in [Names -> Machines \cup {None}]
  BY DEF Registries
<1>3. QED BY <1>1, <1>2 DEF Registered, Unregistered, Registries

\* Where a machine is registered it is found.
LEMMA RegisteredFound ==
  ASSUME NEW r \in Registries, NEW k \in Contexts, NEW m \in Machines
  PROVE  Registered(r, k, m)[k].machines[Name[m]] = m
<1>1. Name[m] \in Names
  BY FleetAssumption
<1>2. r[k].machines \in [Names -> Machines \cup {None}]
  BY DEF Registries
<1>3. QED BY <1>1, <1>2 DEF Registered, Registries

\* A step that counts no machine as started, with the top of one stack changed.
LEMMA WithdrawnTop ==
  ASSUME TypeOK, Withdrawn, started' \subseteq started, NEW c \in Clients, NEW f \in FrameType,
         (Busy(c) /\ SetTop(c, f)) \/ Push(c, f),
         f.at = "unregister" => f.todo # <<>> /\ f.todo[1] \notin started'
  PROVE  Withdrawn'
<1> SUFFICES ASSUME NEW d \in Clients, NEW i \in DOMAIN frames'[d],
                    frames'[d][i].at = "unregister"
             PROVE  frames'[d][i].todo # <<>> /\ frames'[d][i].todo[1] \notin started'
  BY DEF Withdrawn
<1>1. frames \in [Clients -> Seq(FrameType)]
  BY DEF TypeOK
<1>2. CASE d # c
  <2>1. frames'[d] = frames[d]
    BY <1>1, <1>2, TopSet, TopPushed
  <2>2. QED BY <2>1 DEF Withdrawn
<1>3. CASE d = c
  <2>1. CASE Busy(c) /\ SetTop(c, f)
    <3>1. /\ frames' \in [Clients -> Seq(FrameType)] /\ Len(frames'[c]) = Len(frames[c])
          /\ frames'[c][i] = IF i = Len(frames[c]) THEN f ELSE frames[c][i]
      BY <1>1, <1>3, <2>1, TopSet
    <3>2. i \in DOMAIN frames[c]
      BY <1>1, <1>3, <3>1
    <3>3. QED BY <1>3, <3>1, <3>2 DEF Withdrawn
  <2>2. CASE Push(c, f)
    <3>1. frames'[c][i] = IF i = Len(frames[c]) + 1 THEN f ELSE frames[c][i]
      BY <1>1, <1>3, <2>2, TopPushed
    <3>2. i # Len(frames[c]) + 1 => i \in DOMAIN frames[c]
      BY <1>1, <1>3, <2>2 DEF Push
    <3>3. QED BY <1>3, <3>1, <3>2 DEF Withdrawn
  <2>3. QED BY <2>1, <2>2
<1>4. QED BY <1>2, <1>3

\* The same where the frame moves on, but not to unregister.
LEMMA WithdrawnMoves ==
  ASSUME TypeOK, Withdrawn, started' \subseteq started, NEW c \in Clients, NEW y, At(c, y),
         Next1(c) \/ Refused(c) \/ \E x \in Steps \ {"unregister"} : Goto(c, x)
  PROVE  Withdrawn'
<1>1. Top(c) \in FrameType /\ Busy(c) /\ Top(c).todo # <<>>
  BY WithMachine
<1>2. CASE Next1(c)
  <2>1. Served(Top(c)) \in FrameType /\ Served(Top(c)).at = "next"
    BY <1>1, FrameMoves DEF Served, FrameType
  <2>2. QED BY <1>1, <1>2, <2>1, WithdrawnTop DEF Next1
<1>3. CASE Refused(c)
  <2> DEFINE g == [Top(c) EXCEPT !.at = "next", !.todo = <<>>, !.event = None, !.source = "",
                                 !.result = "error"]
  <2>1. g \in FrameType /\ g.at = "next" /\ SetTop(c, g)
    BY <1>1, <1>3, FrameMoves DEF FrameType, Refused
  <2> HIDE DEF g
  <2>2. QED BY <1>1, <2>1, WithdrawnTop
<1>4. ASSUME NEW x \in Steps \ {"unregister"}, Goto(c, x) PROVE Withdrawn'
  <2> DEFINE g == [Top(c) EXCEPT !.at = x]
  <2>1. g \in FrameType /\ g.at = x /\ SetTop(c, g)
    BY <1>1, <1>4, FrameMoves DEF FrameType, Goto
  <2> HIDE DEF g
  <2>2. QED BY <1>1, <1>4, <2>1, WithdrawnTop
<1>5. QED BY <1>2, <1>3, <1>4

\* Who controls a machine has one frame that does.
LEMMA Alone ==
  ASSUME TypeOK, NEW k, AllSound(k), NEW c \in Clients, Busy(c), Top(c).todo # <<>>,
         Top(c).verb # "dispatch", NEW d \in Clients, NEW i \in DOMAIN frames[d],
         frames[d][i].verb # "dispatch", frames[d][i].todo # <<>>,
         frames[d][i].todo[1] = Top(c).todo[1]
  PROVE  d = c /\ i = Len(frames[c])
<1>1. /\ Top(c) \in FrameType /\ Len(frames[c]) \in DOMAIN frames[c]
      /\ Top(c) = frames[c][Len(frames[c])]
  BY TopIs DEF TypeOK
<1>2. frames[d] \in Seq(FrameType)
  BY DEF TypeOK
<1>3. frames[d][i] \in FrameType
  BY <1>2
<1>4. Top(c).todo \in Seq(Machines) /\ frames[d][i].todo \in Seq(Machines)
  BY <1>1, <1>3 DEF FrameType
<1>5. 1 \in DOMAIN Top(c).todo /\ 1 \in DOMAIN frames[d][i].todo
  BY <1>4
<1>6. Sound(k, c, Len(frames[c]), Top(c)) /\ Sound(k, d, i, frames[d][i])
  BY <1>1 DEF AllSound
<1>7. Len(frames[c]) = 1 /\ k[Top(c).todo[1]] = c
  BY <1>5, <1>6 DEF Sound
<1>8. i = 1 /\ k[frames[d][i].todo[1]] = d
  BY <1>5, <1>6 DEF Sound
<1>9. QED BY <1>7, <1>8

\* Steps that register, or do nothing of the kind, keep machines registered.
LEMMA RecordedKeeps ==
  ASSUME TypeOK, NamesApart, Recorded, started' \subseteq started,
         registry' = registry \/ \E k \in Contexts, m \in Machines :
                                   \/ registry' = Registered(registry, k, m)
                                   \/ registry' = Unregistered(registry, k, m) /\ m \notin started'
  PROVE  Recorded'
<1> SUFFICES ASSUME NEW n \in started' PROVE registry'[Home[n]].machines[Name[n]] = n
  BY DEF Recorded
<1>1. n \in Machines /\ Home[n] \in Contexts /\ registry \in Registries
  BY FleetAssumption DEF TypeOK, Registries
<1>2. registry[Home[n]].machines[Name[n]] = n
  BY DEF Recorded
<1>3. CASE registry' = registry
  BY <1>2, <1>3
<1>4. ASSUME NEW k \in Contexts, NEW m \in Machines, registry' = Registered(registry, k, m)
      PROVE  registry'[Home[n]].machines[Name[n]] = n
  BY <1>1, <1>2, <1>4, RegistryKeeps
<1>5. ASSUME NEW k \in Contexts, NEW m \in Machines, registry' = Unregistered(registry, k, m),
             m \notin started'
      PROVE  registry'[Home[n]].machines[Name[n]] = n
  BY <1>1, <1>2, <1>5, RegistryKeeps
<1>6. QED BY <1>3, <1>4, <1>5

\* All steps of a client.
LEMMA RecordedStep ==
  ASSUME TypeOK, NamesApart, NEW k, AllSound(k), Recorded, Withdrawn, NEW c \in Clients,
         Invoke(c) \/ Step(c) \/ CallFromBehavior(c)
  PROVE  Recorded' /\ Withdrawn'
<1>1. ASSUME NEW call \in Calls, NEW f \in Frames(call), Push(c, f), UNCHANGED <<registry, started>>
      PROVE  Recorded' /\ Withdrawn'
  <2>1. f \in FrameType
    BY FrameTyped
  <2>2. f.at = "next"
    <3>1. PICK verb \in SingleVerbs, todo \in Seq(Machines) : f = Frame(call, verb, todo)
      BY FramesAre
    <3>2. QED BY <3>1 DEF Frame
  <2>3. QED BY <1>1, <2>1, <2>2, WithdrawnTop DEF Recorded
<1>2. ASSUME Invoke(c) PROVE Recorded' /\ Withdrawn'
  BY <1>1, <1>2, FleetAssumption DEF Invoke
<1>3. ASSUME CallFromBehavior(c) PROVE Recorded' /\ Withdrawn'
  BY <1>1, <1>3, FleetAssumption DEF CallFromBehavior
<1>4. ASSUME Return(c) PROVE Recorded' /\ Withdrawn'
  <2>1. /\ Busy(c) /\ frames' = [frames EXCEPT ![c] = Front(@)]
        /\ UNCHANGED <<registry, started>>
    BY <1>4 DEF Return
  <2>2. /\ \A d \in Clients : d # c => frames'[d] = frames[d]
        /\ DOMAIN frames'[c] \subseteq DOMAIN frames[c]
        /\ \A i \in DOMAIN frames'[c] : frames'[c][i] = frames[c][i]
    BY <2>1, TopPopped DEF TypeOK
  <2>3. QED BY <2>1, <2>2 DEF Recorded, Withdrawn
<1>5. ASSUME NEW y, At(c, y), UNCHANGED <<registry, started>>,
             Next1(c) \/ Refused(c) \/ \E x \in Steps \ {"unregister"} : Goto(c, x)
      PROVE  Recorded' /\ Withdrawn'
  BY <1>5, WithdrawnMoves DEF Recorded
<1>6. ASSUME PassOver(c) \/ Dispatch(c) PROVE Recorded' /\ Withdrawn'
  BY <1>5, <1>6 DEF PassOver, Dispatch, Steps
<1>7. ASSUME DispatchQueued(c) PROVE Recorded' /\ Withdrawn'
  <2> DEFINE f == [Top(c) EXCEPT !.at = "register", !.reached = @ \cup {Machine(c)}]
  <2>1. Top(c) \in FrameType /\ Busy(c) /\ Machine(c) \in Machines
    BY <1>7, WithMachine DEF DispatchQueued
  <2>2. f \in FrameType /\ f.at = "register"
    BY <2>1 DEF FrameType, Steps
  <2>3. SetTop(c, f) /\ UNCHANGED <<registry, started>>
    BY <1>7 DEF DispatchQueued
  <2> HIDE DEF f
  <2>4. QED BY <2>1, <2>2, <2>3, WithdrawnTop DEF Recorded
<1>a. ASSUME RegisterToDrain(c) PROVE Recorded' /\ Withdrawn'
  <2>1. Machine(c) \in Machines /\ Home[Machine(c)] \in Contexts /\ Top(c).ctx \in Contexts
    BY <1>a, WithMachine, FleetAssumption DEF RegisterToDrain, FrameType
  <2>2. Recorded'
    BY <1>a, <2>1, RecordedKeeps DEF RegisterToDrain
  <2>3. Withdrawn'
    BY <1>a, WithdrawnMoves DEF RegisterToDrain, Steps
  <2>4. QED BY <2>2, <2>3
<1>b. ASSUME JoinDrain(c) PROVE Recorded' /\ Withdrawn'
  <2>1. Next1(c) \/ Goto(c, "drain")
    BY <1>b DEF JoinDrain, BeginDrain
  <2>2. QED BY <1>5, <1>b, <2>1 DEF JoinDrain, Steps
<1>8. ASSUME TakeEvent(c) PROVE Recorded' /\ Withdrawn'
  <2>1. Top(c) \in FrameType /\ Busy(c) /\ Machine(c) \in Machines
    BY <1>8, WithMachine DEF TakeEvent
  <2> DEFINE q == queue[Machine(c)]
             f == [Top(c) EXCEPT !.at = "process", !.event = Head(q),
                                 !.source = state[Machine(c)]]
  <2>2. q \in Seq({"init", "event"}) /\ q # <<>>
    BY <1>8, <2>1 DEF TakeEvent, TypeOK
  <2>3. Head(q) \in {"init", "event"}
    BY <2>2
  <2>4. f \in FrameType /\ f.at = "process"
    BY <2>1, <2>3 DEF FrameType, Steps, TypeOK
  <2>5. SetTop(c, f) /\ UNCHANGED <<registry, started>>
    BY <1>8 DEF TakeEvent
  <2> HIDE DEF f
  <2>6. QED BY <2>1, <2>4, <2>5, WithdrawnTop DEF Recorded
<1>9. ASSUME Process(c) PROVE Recorded' /\ Withdrawn'
  <2> DEFINE f == [Top(c) EXCEPT !.at = "drain", !.event = None, !.source = ""]
  <2>1. Top(c) \in FrameType /\ Busy(c)
    BY <1>9, WithMachine DEF Process
  <2>2. f \in FrameType /\ f.at = "drain"
    BY <2>1 DEF FrameType, Steps
  <2>3. SetTop(c, f) /\ UNCHANGED <<registry, started>>
    BY <1>9 DEF Process
  <2> HIDE DEF f
  <2>4. QED BY <2>1, <2>2, <2>3, WithdrawnTop DEF Recorded
<1>10. ASSUME EndDrain(c) \/ ReleaseDrain(c) \/ FailDrain(c) \/ Activate(c) PROVE Recorded' /\ Withdrawn'
  BY <1>5, <1>10 DEF EndDrain, ReleaseDrain, FailDrain, Activate, Steps
<1>11. ASSUME Withdraw(c) PROVE Recorded' /\ Withdrawn'
  <2>1. Machine(c) \in Machines /\ Home[Machine(c)] \in Contexts
    BY <1>11, WithMachine, FleetAssumption DEF Withdraw
  <2>2. /\ started' \subseteq started /\ Machine(c) \notin started'
        /\ registry' = Unregistered(registry, Home[Machine(c)], Machine(c))
    BY <1>11 DEF Withdraw
  <2>3. Withdrawn'
    BY <1>11, <2>2, WithdrawnMoves DEF Withdraw
  <2>4. Recorded'
    BY <2>1, <2>2, RecordedKeeps
  <2>5. QED BY <2>3, <2>4
<1>12. ASSUME StartChecks(c) PROVE Recorded' /\ Withdrawn'
  BY <1>5, <1>12 DEF StartChecks, Steps
<1>13. ASSUME RestartChecks(c) PROVE Recorded' /\ Withdrawn'
  BY <1>5, <1>13 DEF RestartChecks, Steps
<1>14. ASSUME NEW x, At(c, x), Stopped(c), started' = started PROVE Withdrawn'
  BY <1>14, WithdrawnMoves DEF Stopped, Steps
<1>15. ASSUME StopBegins(c) PROVE Recorded' /\ Withdrawn'
  <2>1. PICK x : At(c, x)
    BY <1>15 DEF StopBegins
  <2>2. Machine(c) \in Machines /\ Top(c).ctx \in Contexts
    BY <2>1, WithMachine DEF FrameType
  <2>3. Withdrawn'
    BY <1>14, <1>15, <2>1, WithdrawnMoves DEF StopBegins, Steps
  <2>4. Recorded'
    BY <1>15, <2>2, RecordedKeeps DEF StopBegins
  <2>5. QED BY <2>3, <2>4
<1>16. ASSUME SwitchOff(c) PROVE Recorded' /\ Withdrawn'
  <2> DEFINE f == [Top(c) EXCEPT !.at = "unregister"]
  <2>1. Top(c) \in FrameType /\ Busy(c) /\ Top(c).todo # <<>>
    BY <1>16, WithMachine DEF SwitchOff
  <2>2. f \in FrameType /\ f.todo = Top(c).todo
    BY <2>1 DEF FrameType, Steps
  <2>3. SetTop(c, f) /\ started' = started \ {Machine(c)} /\ UNCHANGED registry
    BY <1>16 DEF SwitchOff, Goto
  <2>4. Top(c).todo \in Seq(Machines)
    BY <2>1 DEF FrameType
  <2>5. Machine(c) = f.todo[1]
    BY <2>1, <2>2, <2>4 DEF Machine
  <2> HIDE DEF f
  <2>6. QED BY <2>1, <2>2, <2>3, <2>5, WithdrawnTop DEF Recorded
<1>17. ASSUME StopUnregisters(c) PROVE Recorded' /\ Withdrawn'
  <2>1. At(c, "unregister") /\ Stopped(c) /\ UNCHANGED started
    BY <1>17 DEF StopUnregisters
  <2> DEFINE m == Machine(c)
             r == Unregistered(registry, Home[m], m)
  <2>2. /\ m \in Machines /\ Top(c).ctx \in Contexts /\ Home[m] \in Contexts
        /\ Top(c) \in FrameType /\ Busy(c) /\ Top(c).at = "unregister"
    BY <2>1, WithMachine, FleetAssumption DEF FrameType
  <2>3. Top(c).todo \in Seq(Machines) /\ Top(c).todo # <<>>
    BY <2>1, <2>2, WithMachine DEF FrameType
  <2>4. m \notin started
    <3>1. Top(c).todo[1] \notin started
      BY <2>2, TopIs DEF Withdrawn, TypeOK
    <3>2. QED BY <2>3, <3>1 DEF Machine
  <2>5. registry' = Unregistered(r, Top(c).ctx, m)
    BY <1>17 DEF StopUnregisters
  <2>6. registry \in Registries
    BY DEF TypeOK, Registries
  <2> HIDE DEF m, r
  <2>7. r \in Registries
    BY <2>2, <2>6, RegistryTyped DEF r
  <2>8. ASSUME NEW n \in started PROVE registry'[Home[n]].machines[Name[n]] = n
    <3>1. n \in Machines /\ Home[n] \in Contexts /\ n # m
      BY <2>4, FleetAssumption DEF TypeOK
    <3>2. registry[Home[n]].machines[Name[n]] = n
      BY DEF Recorded
    <3>3. r[Home[n]].machines[Name[n]] = n
      BY <2>2, <2>6, <3>1, <3>2, RegistryKeeps DEF r
    <3>4. QED BY <2>2, <2>5, <2>7, <3>1, <3>3, RegistryKeeps
  <2>9. Recorded'
    BY <2>1, <2>8 DEF Recorded
  <2>10. QED BY <1>14, <2>1, <2>9
<1>18. ASSUME Enlist(c) PROVE Recorded' /\ Withdrawn'
  <2> DEFINE m == Machine(c)
  <2>1. /\ m \in Machines /\ Home[m] \in Contexts /\ Top(c) \in FrameType /\ Busy(c)
        /\ Top(c).todo # <<>> /\ Top(c).at = "enlist"
    BY <1>18, WithMachine, FleetAssumption DEF Enlist
  <2>2. /\ registry' = Registered(registry, Home[m], m) /\ started' = started \cup {m}
        /\ Goto(c, "push")
    BY <1>18 DEF Enlist
  <2>3. registry \in Registries
    BY DEF TypeOK, Registries
  <2>4. Top(c).todo \in Seq(Machines)
    BY <2>1 DEF FrameType
  <2>5. m = Top(c).todo[1]
    BY <2>1, <2>4 DEF Machine
  <2> HIDE DEF m
  <2>6. ASSUME NEW n \in started' PROVE registry'[Home[n]].machines[Name[n]] = n
    <3>1. CASE n = m
      BY <2>1, <2>2, <2>3, <3>1, RegisteredFound
    <3>2. CASE n \in started
      <4>1. n \in Machines /\ Home[n] \in Contexts /\ registry[Home[n]].machines[Name[n]] = n
        BY <3>2, FleetAssumption DEF TypeOK, Recorded
      <4>2. QED BY <2>1, <2>2, <2>3, <4>1, RegistryKeeps
    <3>3. QED BY <2>2, <3>1, <3>2
  <2>7. Recorded'
    BY <2>6 DEF Recorded
  <2>8. frames \in [Clients -> Seq(FrameType)] /\ Len(frames[c]) \in DOMAIN frames[c]
    BY <2>1, TopIs DEF TypeOK
  <2>9. Top(c).verb # "dispatch"
    BY <2>1, <2>8, TopIs DEF AllSound, Sound, Queued
  <2>10. ASSUME NEW d \in Clients, NEW i \in DOMAIN frames[d], frames[d][i].at = "unregister"
         PROVE  frames[d][i].todo # <<>> /\ frames[d][i].todo[1] \notin started'
    <3>1. frames[d][i].todo # <<>> /\ frames[d][i].todo[1] \notin started
      BY <2>10 DEF Withdrawn
    <3>2. frames[d][i].verb # "dispatch"
      BY <2>10 DEF AllSound, Sound, Queued
    <3>3. frames[d][i].todo[1] # m
      <4> SUFFICES ASSUME frames[d][i].todo[1] = m PROVE FALSE
        OBVIOUS
      <4>1. d = c /\ i = Len(frames[c])
        BY <2>1, <2>5, <2>9, <3>1, <3>2, Alone
      <4>2. frames[d][i] = Top(c)
        BY <2>1, <2>8, <4>1, TopIs
      <4>3. QED BY <2>1, <2>10, <4>2
    <3>4. QED BY <2>2, <3>1, <3>3
  <2>11. ASSUME NEW f \in FrameType, SetTop(c, f), f.at # "unregister" PROVE Withdrawn'
    <3>1. /\ \A d \in Clients : d # c => frames'[d] = frames[d]
          /\ frames' \in [Clients -> Seq(FrameType)] /\ Len(frames'[c]) = Len(frames[c])
          /\ \A i \in DOMAIN frames'[c] :
               frames'[c][i] = IF i = Len(frames[c]) THEN f ELSE frames[c][i]
      BY <2>1, <2>8, <2>11, TopSet
    <3>2. DOMAIN frames'[c] = DOMAIN frames[c]
      BY <2>8, <3>1
    <3>3. QED BY <2>10, <2>11, <3>1, <3>2 DEF Withdrawn
  <2>12. [Top(c) EXCEPT !.at = "push"] \in FrameType /\ [Top(c) EXCEPT !.at = "push"].at = "push"
    BY <2>1 DEF FrameType, Steps
  <2>13. Withdrawn'
    BY <2>2, <2>11, <2>12 DEF Goto
  <2>14. QED BY <2>7, <2>13
<1>19. QED
  BY <1>2, <1>3, <1>4, <1>6, <1>7, <1>a, <1>b, <1>8, <1>9, <1>10, <1>11, <1>12, <1>13, <1>15,
     <1>16, <1>17, <1>18 DEF Step

\* The invariant of both properties, given who controls which machine.
FleetInv(controller) == Recorded /\ Withdrawn /\ AllSound(controller)

\* It holds at first, when there are neither started machines nor frames,
LEMMA FleetInvInit == ASSUME NEW k, Init PROVE FleetInv(k)
<1>1. started = {} /\ \A c \in Clients : frames[c] = <<>>
  BY DEF Init
<1>2. DOMAIN <<>> = {}
  OBVIOUS
<1>3. QED BY <1>1, <1>2 DEF FleetInv, Recorded, Withdrawn, AllSound

\* and every step keeps it.
LEMMA FleetInvStep ==
  ASSUME TypeOK, NamesApart, NEW k, Controls(k), FleetInv(k), [Next]_vars
  PROVE  FleetInv(k)'
<1>1. ASSUME NEW c \in Clients, Invoke(c) \/ Step(c) \/ CallFromBehavior(c) PROVE FleetInv(k)'
  BY <1>1, RecordedStep, SoundStep DEF FleetInv
<1>2. ASSUME NEW x \in Cancellable, Cancel(x) PROVE FleetInv(k)'
  BY <1>2 DEF Cancel, FleetInv, Recorded, Withdrawn, AllSound
<1>3. ASSUME UNCHANGED vars PROVE FleetInv(k)'
  BY <1>3 DEF vars, FleetInv, Recorded, Withdrawn, AllSound
<1>4. QED BY <1>1, <1>2, <1>3 DEF Next

\* Somebody controls each machine.
LEMMA FleetInvariant ==
  ASSUME NamesApart, NEW k, Controls(k)
  PROVE  Spec => []FleetInv(k)
<1>1. Init => FleetInv(k)
  BY FleetInvInit
<1>2. TypeOK /\ FleetInv(k) /\ [Next]_vars => FleetInv(k)'
  BY FleetInvStep
<1>3. QED BY <1>1, <1>2, FleetTyped, PTL DEF Spec

\* Of machines with names of their own, each started and stopped by one client: one
\* that was started and is in a state is found under the context it was made with.
THEOREM MachinesFound == ASSUME NamesApart, OneController PROVE Spec => []Findable
<1>1. PICK k : Controls(k)
  BY DEF OneController, Controls
<1>2. FleetInv(k) => Findable
  BY DEF FleetInv, Recorded, Findable
<1>3. QED BY <1>1, <1>2, FleetInvariant, PTL

\* A fan-out over such machines that returns Ok has reached every machine of the
\* context that was in a state when it began.
THEOREM FanOutsReach == ASSUME NamesApart, OneController PROVE Spec => []ReachesAllStarted
<1>1. PICK k : Controls(k)
  BY DEF OneController, Controls
<1>2. TypeOK /\ FleetInv(k) => ReachesAllStarted
  <2> SUFFICES ASSUME TypeOK, FleetInv(k), NEW c \in Clients, Busy(c), Top(c).todo = <<>>,
                      Top(c).result = "ok"
               PROVE  Top(c).due \subseteq Top(c).reached
    BY DEF ReachesAllStarted
  <2>1. \E i \in DOMAIN frames[c] : Top(c) = frames[c][i]
    BY TopIs DEF TypeOK
  <2>2. Top(c).due \subseteq Top(c).reached \cup Range(Top(c).todo)
    BY <2>1 DEF FleetInv, AllSound, Sound
  <2>3. Range(<<>>) = {}
    BY DEF Range
  <2>4. QED BY <2>2, <2>3
<1>3. QED BY <1>1, <1>2, FleetInvariant, FleetTyped, PTL

=============================================================================
