---------------------------- MODULE RuntimeProofs ----------------------------
(***************************************************************************)
(* What holds of Runtime for any threads, events, model and entry points:  *)
(* its type invariant and the exclusion of drains.                         *)
(***************************************************************************)
EXTENDS Runtime, SequenceFacts

-----------------------------------------------------------------------------
(***************************************************************************)
(* The queue operators, for every set of events: they lead from queues of  *)
(* events to queues of events, and taking the front off a queue loses      *)
(* nothing else.                                                           *)
(***************************************************************************)

\* push_with_context: a queue of E stays one.
LEMMA PushType ==
  ASSUME NEW E, NEW q \in QueueOf(E), NEW e \in E
  PROVE  Push(q, e) \in QueueOf(E)
<1>1. Append(q.completion, e) \in Seq(E) /\ Append(q.regular, e) \in Seq(E)
  BY DEF QueueOf
<1>2. CASE e \in Completions
  BY <1>1, <1>2 DEF Push, QueueOf
<1>3. CASE e \notin Completions
  BY <1>1, <1>3 DEF Push, QueueOf
<1>4. QED BY <1>2, <1>3

\* Several pushes under one lock: a queue of E stays one.
LEMMA PushAllType ==
  ASSUME NEW E, NEW q \in QueueOf(E), NEW s \in Seq(E)
  PROVE  PushAll(q, E, s) \in QueueOf(E)
<1>1. Filter(s, Completions) \in Seq(E) /\ Filter(s, E \ Completions) \in Seq(E)
  BY FilterType
<1>2. QED BY <1>1 DEF PushAll, QueueOf

\* pop_with_context answers one of the events queued.
LEMMA FrontType ==
  ASSUME NEW E, NEW q \in QueueOf(E), q # EmptyQueue
  PROVE  Front(q) \in E
<1>1. CASE q.completion # <<>>
  <2>1. Len(q.completion) \in DOMAIN q.completion
    BY <1>1 DEF QueueOf
  <2>2. QED BY <1>1, <2>1 DEF Front, QueueOf
<1>2. CASE q.completion = <<>>
  <2>1. q.regular # <<>>
    BY <1>2 DEF QueueOf, EmptyQueue
  <2>2. QED BY <1>2, <2>1 DEF Front, QueueOf
<1>3. QED BY <1>1, <1>2

\* pop_with_context leaves a queue of the same events.
LEMMA RestType ==
  ASSUME NEW E, NEW q \in QueueOf(E), q # EmptyQueue
  PROVE  Rest(q) \in QueueOf(E)
<1>1. CASE q.completion # <<>>
  <2>1. SubSeq(q.completion, 1, Len(q.completion) - 1) \in Seq(E)
    BY <1>1 DEF QueueOf
  <2>2. QED BY <1>1, <2>1 DEF Rest, QueueOf
<1>2. CASE q.completion = <<>>
  <2>1. q.regular # <<>>
    BY <1>2 DEF QueueOf, EmptyQueue
  <2>2. QED BY <1>2, <2>1 DEF Rest, QueueOf
<1>3. QED BY <1>1, <1>2

-----------------------------------------------------------------------------
(***************************************************************************)
(* Type correctness.  It is inductive only together with what a thread     *)
(* holds at each label: an event to queue before it is queued, an event to *)
(* process while it is processed, the event of the call it is in.          *)
(***************************************************************************)

\* Where a call still owns its event while its operation's flush is under way.
InFlush == InDrain \cup {"operated", "takeOperation", "flushOperation", "again", "drain",
                         "wipe"}

Loaded(t) ==
  /\ pc[t] \in {"dispatch", "set", "call", "operate", "again", "route", "routeOperation",
                "setAside", "push"} => held[t] # None
  /\ pc[t] = "body" /\ t \notin Activities /\ next[t] \notin Stopping => held[t] # None
  /\ pc[t] \in {"setAside", "routeOperation"} => held[t] \in Calls
  /\ pc[t] \in {"match", "matched", "select"} \cup Processing => popped[t] # None
  /\ pc[t] = "matched" => taken[t] \in Record
  /\ next[t] = "body" => t \in Activities
  /\ next[t] = "again" => held[t] # None /\ pc[t] \in InFlush

TypeInv == TypeOK /\ \A t \in Threads : Loaded(t)

\* The empty queue is a queue of any events.
LEMMA EmptyQueueType == \A E : EmptyQueue \in QueueOf(E)
BY DEF EmptyQueue, QueueOf

\* take_deferred_event leaves a list of the same records.
LEMMA WithoutType ==
  ASSUME NEW E, NEW s \in Seq(E), NEW i \in DOMAIN s
  PROVE  Without(s, i) \in Seq(E)
<1>1. SubSeq(s, 1, i - 1) \in Seq(E) /\ SubSeq(s, i + 1, Len(s)) \in Seq(E)
  OBVIOUS
<1>2. QED BY <1>1 DEF Without

\* A machine starts out well typed, with no thread holding anything.
LEMMA TypeInit == Init => TypeInv
<1> SUFFICES ASSUME Init PROVE TypeInv
  OBVIOUS
<1>1. queue \in QueueOf(AllEvents)
  BY EmptyQueueType DEF Init
<1>2. currentState \in Vertices /\ seen \in [Threads -> Vertices] /\ source \in [Threads -> Vertices]
  BY DEF Init, Vertices
<1>3. local \in [Threads -> Seq(Record)] /\ carry \in [Threads -> Seq(Events)]
  BY DEF Init
<1>4. /\ pendingReentrant \in Seq(Events) /\ deferredEvents \in Seq(Record)
      /\ activeOperations \in Nat
  BY DEF Init
<1>5. /\ pc \in [Threads -> Labels] /\ fate \in [Events -> Fates]
      /\ next \in [Threads -> {"idle", "again", "body", "start"} \cup Stopping]
      /\ held \in [Threads -> AllEvents \cup {None}]
      /\ popped \in [Threads -> AllEvents \cup {None}]
      /\ taken \in [Threads -> Record \cup {None}]
  BY DEF Init, Labels, Fates
<1>6. activeDrain \in BOOLEAN /\ stopped \in BOOLEAN
  BY DEF Init
<1>7. TypeOK
  BY <1>1, <1>2, <1>3, <1>4, <1>5, <1>6 DEF TypeOK
<1>8. ASSUME NEW t \in Threads PROVE Loaded(t)
  BY DEF Init, Loaded, Processing
<1>9. QED BY <1>7, <1>8 DEF TypeInv

\* Every step of every thread keeps the types and what threads hold.
LEMMA TypeStep == TypeInv /\ [Next]_vars => TypeInv'
<1> SUFFICES ASSUME TypeInv, [Next]_vars PROVE TypeInv'
  OBVIOUS
<1> USE DEF TypeInv, TypeOK, Stopping
<1>1. ASSUME NEW t \in Threads, Dispatch(t) PROVE TypeInv'
  BY <1>1, RuntimeAssumption
     DEF Dispatch, Enter, Unsent, AllEvents, Loaded, Goto, Labels, InFlush, Processing,
         InDrain, Settle, Fates, shared
<1>2. ASSUME NEW t \in Threads, Set(t) PROVE TypeInv'
  BY <1>2, RuntimeAssumption
     DEF Set, Enter, Unsent, AllEvents, Loaded, Goto, Labels, InFlush, Processing,
         InDrain, Settle, Fates, shared
<1>3. ASSUME NEW t \in Threads, Call(t) PROVE TypeInv'
  BY <1>3, RuntimeAssumption
     DEF Call, Enter, Unsent, AllEvents, Loaded, Goto, Labels, InFlush, Processing,
         InDrain, Settle, Fates, shared
<1>4. ASSUME NEW t \in Threads, Admit(t) PROVE TypeInv'
  <2>1. PICK step \in {<<"dispatch", "route">>, <<"set", "push">>, <<"call", "operate">>} :
          /\ pc[t] = step[1]
          /\ IF Inactive(t)
             THEN /\ Settle({held[t]}, "refused")
                  /\ held' = [held EXCEPT ![t] = None]
                  /\ Goto(t, "idle")
             ELSE Goto(t, step[2]) /\ UNCHANGED <<held, fate>>
          /\ UNCHANGED <<shared, next, seen, popped, taken, source, local, carry, stopped>>
    BY <1>4 DEF Admit
  <2>2. step[2] \in {"route", "push", "operate"}
    OBVIOUS
  <2>3. CASE Inactive(t)
    <3>1. pc[t] \in {"dispatch", "set", "call"} /\ pc' = [pc EXCEPT ![t] = "idle"]
      BY <2>1, <2>3 DEF Goto
    <3>2. Settle({held[t]}, "refused") /\ held' = [held EXCEPT ![t] = None]
      BY <2>1, <2>3
    <3>3. fate' \in [Events -> Fates]
      BY <3>2 DEF Settle, Fates
    <3>4. QED BY <2>1, <3>1, <3>2, <3>3
              DEF Loaded, InFlush, Processing, InDrain, Labels, shared
  <2>4. CASE ~Inactive(t)
    <3>1. UNCHANGED <<shared, next, held, seen, popped, taken, source, local, carry, fate, stopped>>
      BY <2>1, <2>4
    <3>2. pc' = [pc EXCEPT ![t] = step[2]]
      BY <2>1, <2>4 DEF Goto
    <3>3. pc[t] \in {"dispatch", "set", "call"}
      BY <2>1
    <3>4. TypeOK'
      BY <2>2, <3>1, <3>2 DEF shared, Labels
    <3>5. QED BY <2>2, <3>1, <3>2, <3>3, <3>4
                 DEF Loaded, InFlush, Processing, InDrain, shared
  <2>5. QED BY <2>3, <2>4
<1>5. ASSUME NEW t \in Threads, BeginOperation(t) PROVE TypeInv'
  BY <1>5, RuntimeAssumption
     DEF BeginOperation, Loaded, Goto, Labels, InFlush, Processing, InDrain
<1>6. ASSUME NEW t \in Threads, OperationReenters(t) PROVE TypeInv'
  BY <1>6, RuntimeAssumption
     DEF OperationReenters, SetAside, Unsent, Loaded, Settle, Fates, own
<1>7. ASSUME NEW t \in Threads, ActivityDispatches(t) PROVE TypeInv'
  BY <1>7, RuntimeAssumption
     DEF ActivityDispatches, Unsent, AllEvents, Loaded, Goto, Labels, InFlush,
         Processing, InDrain, Settle, Fates, shared
<1>8. ASSUME NEW t \in Threads, EndOperation(t) PROVE TypeInv'
  BY <1>8, RuntimeAssumption
     DEF EndOperation, Ended, Loaded, Goto, Labels, InFlush, Processing, InDrain,
         Settle, Fates
<1>9. ASSUME NEW t \in Threads, LeaveFlush(t) PROVE TypeInv'
  BY <1>9, RuntimeAssumption
     DEF LeaveFlush, Loaded, Goto, Labels, InFlush, Processing, InDrain, shared
<1>10. ASSUME NEW t \in Threads, DispatchCall(t) PROVE TypeInv'
  BY <1>10, RuntimeAssumption
     DEF DispatchCall, Loaded, Goto, Labels, InFlush, Processing, InDrain, shared
<1>11. ASSUME NEW t \in Threads, Route(t) PROVE TypeInv'
  BY <1>11, RuntimeAssumption
     DEF Route, Loaded, Goto, Labels, InFlush, Processing, InDrain, shared
<1>12. ASSUME NEW t \in Threads, RouteOperation(t) PROVE TypeInv'
  BY <1>12, RuntimeAssumption
     DEF RouteOperation, Loaded, Goto, Labels, InFlush, Processing, InDrain, shared
<1>13. ASSUME NEW t \in Threads, QueueReentrantEvent(t) PROVE TypeInv'
  BY <1>13, RuntimeAssumption
     DEF QueueReentrantEvent, Loaded, Goto, Labels, InFlush, Processing, InDrain
<1>14. ASSUME NEW t \in Threads, PushHeld(t) PROVE TypeInv'
  <2>1. held[t] \in AllEvents
    BY <1>14 DEF PushHeld, Loaded
  <2>2. queue' \in QueueOf(AllEvents)
    BY <1>14, <2>1, PushType DEF PushHeld
  <2>3. QED BY <1>14, <2>2, RuntimeAssumption
               DEF PushHeld, Loaded, InFlush, Processing, InDrain, Goto, Labels
<1>15. ASSUME NEW t \in Threads, BeginDrain(t) PROVE TypeInv'
  <2>1. CASE activeDrain
    <3>1. pc' = [pc EXCEPT ![t] = next[t]] /\ UNCHANGED activeDrain
      BY <1>15, <2>1 DEF BeginDrain, Free, Goto
    <3>2. QED BY <1>15, <3>1 DEF BeginDrain, Free, Loaded, InFlush, Processing, InDrain, Labels
  <2>2. CASE ~activeDrain
    <3>1. pc' = [pc EXCEPT ![t] = "pop"] /\ activeDrain' = TRUE
      BY <1>15, <2>2 DEF BeginDrain, Free, Goto
    <3>2. QED BY <1>15, <3>1 DEF BeginDrain, Free, Loaded, InFlush, Processing, InDrain, Labels
  <2>3. QED BY <2>1, <2>2
<1>16. ASSUME NEW t \in Threads, Pop(t) PROVE TypeInv'
  <2>1. CASE queue = EmptyQueue
    <3>1. pc' = [pc EXCEPT ![t] = "requeueAll"] /\ UNCHANGED <<queue, popped>>
      BY <1>16, <2>1 DEF Pop, Goto
    <3>2. QED BY <1>16, <3>1 DEF Pop, Loaded, InFlush, Processing, InDrain, Labels
  <2>2. CASE queue # EmptyQueue
    <3>1. Front(queue) \in AllEvents /\ queue' \in QueueOf(AllEvents)
      BY <1>16, <2>2, FrontType, RestType DEF Pop
    <3>2. None \notin AllEvents
      BY RuntimeAssumption
    <3>3. /\ pc' = [pc EXCEPT ![t] = "match"]
          /\ popped' = [popped EXCEPT ![t] = Front(queue)]
      BY <1>16, <2>2 DEF Pop, Goto
    <3>4. QED BY <1>16, <3>1, <3>2, <3>3
                 DEF Pop, Loaded, InFlush, Processing, InDrain, Labels
  <2>3. QED BY <2>1, <2>2
<1>17. ASSUME NEW t \in Threads, TakeDeferredEvent(t) PROVE TypeInv'
  <2>1. CASE Matching(popped[t]) = {} /\ Goto(t, "select")
             /\ UNCHANGED <<deferredEvents, taken>>
    BY <1>17, <2>1
       DEF TakeDeferredEvent, Loaded, InFlush, Processing, InDrain, Goto, Labels
  <2>2. ASSUME NEW i \in Matching(popped[t]),
               deferredEvents' = Without(deferredEvents, i),
               taken' = [taken EXCEPT ![t] = deferredEvents[i]],
               Goto(t, "matched")
        PROVE  TypeInv'
    <3>1. i \in DOMAIN deferredEvents /\ deferredEvents[i] \in Record
      BY DEF Matching
    <3>2. deferredEvents' \in Seq(Record)
      BY <2>2, <3>1, WithoutType
    <3>3. taken' \in [Threads -> Record \cup {None}]
      BY <2>2, <3>1
    <3>4. taken'[t] \in Record
      BY <2>2, <3>1
    <3>5. QED BY <1>17, <2>2, <3>2, <3>3, <3>4
              DEF TakeDeferredEvent, Loaded, InFlush, Processing, InDrain, Goto, Labels
  <2>3. QED BY <1>17, <2>1, <2>2 DEF TakeDeferredEvent
<1>50. ASSUME NEW t \in Threads, KeepDeferred(t) PROVE TypeInv'
  <2>1. pc[t] = "matched" /\ taken[t] \in Record
    BY <1>50 DEF KeepDeferred, Loaded
  <2>2. taken' = [taken EXCEPT ![t] = None]
    BY <1>50 DEF KeepDeferred
  <2>3. CASE taken[t].owner \in Ancestors[currentState]
    <3>1. /\ local' = [local EXCEPT ![t] = Append(@, taken[t])]
          /\ popped' = [popped EXCEPT ![t] = None]
          /\ pc' = [pc EXCEPT ![t] = "pop"]
      BY <1>50, <2>3 DEF KeepDeferred, Goto
    <3>2. local' \in [Threads -> Seq(Record)]
      BY <2>1, <3>1
    <3>3. QED BY <1>50, <2>1, <2>2, <3>1, <3>2
              DEF KeepDeferred, Loaded, InFlush, Processing, InDrain, Labels, shared
  <2>4. CASE taken[t].owner \notin Ancestors[currentState]
    <3>1. pc' = [pc EXCEPT ![t] = "select"] /\ UNCHANGED <<popped, local>>
      BY <1>50, <2>4 DEF KeepDeferred, Goto
    <3>2. QED BY <1>50, <2>1, <2>2, <3>1
              DEF KeepDeferred, Loaded, InFlush, Processing, InDrain, Labels, shared
  <2>5. QED BY <2>3, <2>4
<1>18. ASSUME NEW t \in Threads, SelectState(t) PROVE TypeInv'
  BY <1>18, RuntimeAssumption
     DEF SelectState, Loaded, Goto, Labels, InFlush, Processing, InDrain, shared
<1>19. ASSUME NEW t \in Threads, BeginBehavior(t) PROVE TypeInv'
  BY <1>19, RuntimeAssumption
     DEF BeginBehavior, Loaded, Goto, Labels, InFlush, Processing, InDrain
<1>20. ASSUME NEW t \in Threads, EndBehavior(t) PROVE TypeInv'
  BY <1>20, RuntimeAssumption
     DEF EndBehavior, Ended, Loaded, Goto, Labels, InFlush, Processing, InDrain
<1>21. ASSUME NEW t \in Threads, BehaviorDispatches(t) PROVE TypeInv'
  <2>1. PICK e \in Unsent(Events) :
          /\ IF e \in SetAside(t)
             THEN pendingReentrant' = Append(pendingReentrant, e) /\ UNCHANGED queue
             ELSE queue' = Push(queue, e) /\ UNCHANGED pendingReentrant
          /\ Settle({e}, "open")
    BY <1>21 DEF BehaviorDispatches
  <2>2. e \in Events /\ e \in AllEvents
    BY DEF Unsent, AllEvents
  <2>3. queue' \in QueueOf(AllEvents) /\ pendingReentrant' \in Seq(Events)
    <3>1. CASE e \in SetAside(t)
      <4>1. pendingReentrant' = Append(pendingReentrant, e) /\ queue' = queue
        BY <2>1, <3>1
      <4>2. QED BY <2>2, <4>1
    <3>2. CASE e \notin SetAside(t)
      BY <2>1, <2>2, <3>2, PushType
    <3>3. QED BY <3>1, <3>2
  <2>4. fate' \in [Events -> Fates]
    BY <2>1 DEF Settle, Fates
  <2>5. QED BY <1>21, <2>3, <2>4 DEF BehaviorDispatches, Loaded, own
<1>22. ASSUME NEW t \in Threads, AbandonDrain(t) PROVE TypeInv'
  BY <1>22, RuntimeAssumption
     DEF AbandonDrain, Loaded, Goto, Labels, InFlush, Processing, InDrain, Settle,
         Fates, shared
<1>23. ASSUME NEW t \in Threads, AbandonOperation(t) PROVE TypeInv'
  BY <1>23, RuntimeAssumption
     DEF AbandonOperation, Loaded, Goto, Labels, InFlush, Processing, InDrain, Settle,
         Fates, shared
<1>24. ASSUME NEW t \in Threads, Ignore(t) PROVE TypeInv'
  BY <1>24, RuntimeAssumption
     DEF Ignore, Loaded, Goto, Labels, InFlush, Processing, InDrain, Settle, Fates,
         shared
<1>25. ASSUME NEW t \in Threads, Defer(t) PROVE TypeInv'
  BY <1>25, RuntimeAssumption
     DEF Defer, Loaded, Goto, Labels, InFlush, Processing, InDrain, shared
<1>26. ASSUME NEW t \in Threads, DeferredOwner(t) PROVE TypeInv'
  <2>1. popped[t] \in AllEvents
    BY <1>26 DEF DeferredOwner, Loaded, Processing
  <2>2. Ancestors[currentState] \subseteq States \cup {Root}
    BY RuntimeAssumption
  <2>3. /\ local' \in [Threads -> Seq(Record)]
        /\ fate' \in [Events -> Fates]
    <3>1. CASE Settle({popped[t]}, "dropped") /\ UNCHANGED local
      BY <3>1 DEF Settle, Fates
    <3>2. ASSUME NEW owner \in Innermost(Deferring(currentState, popped[t])),
                 local' = [local EXCEPT ![t] =
                             Append(@, [event |-> popped[t], owner |-> owner])],
                 UNCHANGED fate
          PROVE  /\ local' \in [Threads -> Seq(Record)]
                 /\ fate' \in [Events -> Fates]
      <4>1. owner \in States \cup {Root}
        BY <2>2 DEF Innermost, Deferring
      <4>2. [event |-> popped[t], owner |-> owner] \in Record
        BY <2>1, <4>1 DEF Record
      <4>3. QED BY <3>2, <4>2
    <3>3. QED BY <1>26, <3>1, <3>2 DEF DeferredOwner
  <2>4. QED BY <1>26, <2>3
            DEF DeferredOwner, Loaded, InFlush, Processing, InDrain, Goto, Labels, shared
<1>27. ASSUME NEW t \in Threads, Transit(t) PROVE TypeInv'
  BY <1>27, RuntimeAssumption
     DEF Transit, Vertices, Loaded, Goto, Labels, InFlush, Processing, InDrain, Settle,
         Fates
<1>28. ASSUME NEW t \in Threads, PushFinal(t) PROVE TypeInv'
  <2>1. queue' \in QueueOf(AllEvents)
    BY <1>28, PushType DEF PushFinal, AllEvents
  <2>2. QED BY <1>28, <2>1
               DEF PushFinal, Loaded, InFlush, Processing, InDrain, Goto, Labels
<1>29. ASSUME NEW t \in Threads, Fail(t) PROVE TypeInv'
  BY <1>29, RuntimeAssumption
     DEF Fail, Loaded, Goto, Labels, InFlush, Processing, InDrain, Settle, Fates, shared
<1>30. ASSUME NEW t \in Threads, DropExited(t) PROVE TypeInv'
  <2> DEFINE kept == {r \in Elements(local[t]) : Survives(r.owner, currentState, source[t])}
  <2>1. /\ local' = [local EXCEPT ![t] = Filter(@, kept)]
        /\ Settle({r.event : r \in Elements(local[t]) \ kept}, "dropped")
    BY <1>30 DEF DropExited
  <2> HIDE DEF kept
  <2>2. Filter(local[t], kept) \in Seq(Record)
    BY FilterType
  <2>3. local' \in [Threads -> Seq(Record)]
    BY <2>1, <2>2
  <2>4. fate' \in [Events -> Fates]
    BY <2>1 DEF Settle, Fates
  <2>5. QED BY <1>30, <2>3, <2>4
            DEF DropExited, Loaded, InFlush, Processing, InDrain, Goto, Labels, Vertices, shared
<1>31. ASSUME NEW t \in Threads, PushDeferred(t) PROVE TypeInv'
  <2> DEFINE events == [i \in DOMAIN local[t] |-> local[t][i].event]
  <2>1. events \in Seq(AllEvents)
    <3>1. ASSUME NEW i \in DOMAIN local[t] PROVE local[t][i].event \in AllEvents
      <4>1. local[t] \in Seq(Record)
        OBVIOUS
      <4>2. local[t][i] \in Record
        BY <4>1
      <4>3. QED BY <4>2 DEF Record
    <3>2. DOMAIN local[t] = 1 .. Len(local[t]) /\ Len(local[t]) \in Nat
      OBVIOUS
    <3>3. QED BY <3>1, <3>2
  <2>2. PICK step \in {<<"replay", "record">>, <<"requeueAll", "recordAll">>} :
          /\ pc[t] = step[1]
          /\ queue' = PushAll(queue, AllEvents, events)
          /\ Goto(t, step[2])
          /\ UNCHANGED <<activeDrain, pendingReentrant, activeOperations, deferredEvents,
                         currentState, next, held, seen, popped, taken, source, local, carry, fate,
                         stopped>>
    BY <1>31 DEF PushDeferred
  <2> HIDE DEF events
  <2>3. queue' \in QueueOf(AllEvents)
    BY <2>1, <2>2, PushAllType
  <2>4. pc[t] \in InDrain \ ({"match", "select"} \cup Processing) /\ step[2] \in {"record", "recordAll"}
    BY <2>2 DEF InDrain, Processing
  <2>5. QED BY <2>2, <2>3, <2>4 DEF Loaded, InFlush, Processing, InDrain, Goto, Labels
<1>32. ASSUME NEW t \in Threads, RecordDeferred(t) PROVE TypeInv'
  BY <1>32, RuntimeAssumption
     DEF RecordDeferred, Loaded, Goto, Labels, InFlush, Processing, InDrain
<1>33. ASSUME NEW t \in Threads, TakeReentrant(t) PROVE TypeInv'
  <2>1. PICK step \in {<<"take", "flush", "pop">>,
                       <<"takeOperation", "flushOperation", next[t]>>} :
          /\ pc[t] = step[1]
          /\ Goto(t, IF pendingReentrant = <<>> THEN step[3] ELSE step[2])
          /\ UNCHANGED <<next, held, popped, taken>>
    BY <1>33 DEF TakeReentrant
  <2>2. pc' \in [Threads -> Labels]
    BY <2>1 DEF Goto, Labels, InDrain
  <2>3. carry' \in [Threads -> Seq(Events)] /\ pendingReentrant' \in Seq(Events)
    BY <1>33 DEF TakeReentrant
  <2>4. TypeOK'
    BY <1>33, <2>2, <2>3 DEF TakeReentrant
  <2>5. CASE step[1] = "take"
    BY <1>33, <2>1, <2>4, <2>5
       DEF TakeReentrant, Loaded, InFlush, Processing, InDrain, Goto
  <2>6. CASE step[1] = "takeOperation"
    <3>1. pc[t] = "takeOperation" /\ pc'[t] \in {"flushOperation", next[t]}
      BY <2>1, <2>6 DEF Goto
    <3>2. \A u \in Threads : u # t => pc'[u] = pc[u]
      BY <2>1 DEF Goto
    <3>3. UNCHANGED <<next, held, popped, taken>>
      BY <2>1
    <3>4. Loaded(t)'
      BY <3>1, <3>3 DEF Loaded, InFlush, Processing, InDrain
    <3>5. \A u \in Threads : u # t => Loaded(u)'
      BY <3>2, <3>3 DEF Loaded
    <3>6. QED BY <2>4, <3>4, <3>5
  <2>7. QED BY <2>5, <2>6
<1>34. ASSUME NEW t \in Threads, FlushReentrant(t) PROVE TypeInv'
  <2>1. PICK step \in {<<"flush", "pop">>, <<"flushOperation", "drain">>} :
          /\ pc[t] = step[1]
          /\ queue' = PushAll(queue, AllEvents, carry[t])
          /\ Goto(t, step[2])
    BY <1>34 DEF FlushReentrant
  <2>2. carry[t] \in Seq(AllEvents)
    BY DEF AllEvents
  <2>3. queue' \in QueueOf(AllEvents)
    BY <2>1, <2>2, PushAllType
  <2>4. pc[t] \in {"flush", "flushOperation"} /\ step[2] \in {"pop", "drain"}
    BY <2>1
  <2>5. carry' \in [Threads -> Seq(Events)]
    BY <1>34 DEF FlushReentrant
  <2>6. QED BY <1>34, <2>1, <2>3, <2>4, <2>5
            DEF FlushReentrant, Loaded, InFlush, Processing, InDrain, Goto, Labels
<1>35. ASSUME NEW t \in Threads, ReleaseDrain(t) PROVE TypeInv'
  BY <1>35, RuntimeAssumption
     DEF ReleaseDrain, Loaded, Goto, Labels, InFlush, Processing, InDrain
<1>36. ASSUME NEW t \in Threads, WipeReentrant(t) PROVE TypeInv'
  BY <1>36, RuntimeAssumption
     DEF WipeReentrant, Loaded, Goto, Labels, InFlush, Processing, InDrain, Settle,
         Fates
<1>37. ASSUME NEW t \in Threads, Start(t) PROVE TypeInv'
  BY <1>37, RuntimeAssumption
     DEF Start, Loaded, Goto, Labels, InFlush, Processing, InDrain, shared
<1>38. ASSUME NEW t \in Threads, AdmitStart(t) PROVE TypeInv'
  BY <1>38, RuntimeAssumption
     DEF AdmitStart, Loaded, Goto, Labels, InFlush, Processing, InDrain, shared
<1>39. ASSUME NEW t \in Threads, Activate(t) PROVE TypeInv'
  BY <1>39, RuntimeAssumption
     DEF Activate, Vertices, AllEvents, Loaded, Goto, Labels, InFlush, Processing,
         InDrain
<1>40. ASSUME NEW t \in Threads, Restart(t) PROVE TypeInv'
  BY <1>40, RuntimeAssumption
     DEF Restart, Loaded, Goto, Labels, InFlush, Processing, InDrain, shared
<1>41. ASSUME NEW t \in Threads, Stop(t) PROVE TypeInv'
  BY <1>41, RuntimeAssumption
     DEF Stop, Loaded, Goto, Labels, InFlush, Processing, InDrain, shared
<1>42. ASSUME NEW t \in Threads, StopReads(t) PROVE TypeInv'
  BY <1>42, RuntimeAssumption
     DEF StopReads, Loaded, Goto, Labels, InFlush, Processing, InDrain, shared
<1>43. ASSUME NEW t \in Threads, ClearQueue(t) PROVE TypeInv'
  <2>1. queue' \in QueueOf(AllEvents)
    BY <1>43, EmptyQueueType DEF ClearQueue
  <2>2. fate' \in [Events -> Fates]
    BY <1>43 DEF ClearQueue, Settle, Fates
  <2>3. QED BY <1>43, <2>1, <2>2
            DEF ClearQueue, Loaded, InFlush, Processing, InDrain, Goto, Labels
<1>44. ASSUME NEW t \in Threads, ClearDeferred(t) PROVE TypeInv'
  BY <1>44, RuntimeAssumption
     DEF ClearDeferred, Loaded, Goto, Labels, InFlush, Processing, InDrain
<1>45. ASSUME NEW t \in Threads, SwitchOff(t) PROVE TypeInv'
  BY <1>45, RuntimeAssumption
     DEF SwitchOff, Vertices, Loaded, Goto, Labels, InFlush, Processing, InDrain
<1>51. ASSUME NEW t \in Threads, ExitDispatches(t) PROVE TypeInv'
  BY <1>51, RuntimeAssumption
     DEF ExitDispatches, Unsent, AllEvents, Loaded, Goto, Labels, InFlush,
         Processing, InDrain, Settle, Fates, shared
<1>52. ASSUME NEW t \in Threads, StopExits(t) PROVE TypeInv'
  BY <1>52, RuntimeAssumption
     DEF StopExits, Loaded, Goto, Labels, InFlush, Processing, InDrain, shared
<1>53. ASSUME NEW t \in Threads, AbandonStop(t) PROVE TypeInv'
  BY <1>53, RuntimeAssumption
     DEF AbandonStop, Loaded, Goto, Labels, InFlush, Processing, InDrain, shared
<1>46. ASSUME NEW t \in Threads, Proceeds(t) PROVE TypeInv'
  BY <1>46, <1>1, <1>2, <1>3, <1>4, <1>5, <1>6, <1>7, <1>8, <1>9, <1>10, <1>11, <1>12,
     <1>13, <1>14, <1>15, <1>16, <1>17, <1>18, <1>19, <1>20, <1>21, <1>22, <1>23, <1>24,
     <1>25, <1>26, <1>27, <1>28, <1>29, <1>30, <1>31, <1>32, <1>33, <1>34, <1>35, <1>36,
     <1>37, <1>38, <1>39, <1>40, <1>41, <1>42, <1>43, <1>44, <1>45, <1>50, <1>51, <1>52, <1>53
     DEF Proceeds
<1>47. ASSUME NEW t \in Threads, Invokes(t) PROVE TypeInv'
  BY <1>47, <1>1, <1>2, <1>3, <1>4, <1>5, <1>6, <1>7, <1>8, <1>9, <1>10, <1>11, <1>12,
     <1>13, <1>14, <1>15, <1>16, <1>17, <1>18, <1>19, <1>20, <1>21, <1>22, <1>23, <1>24,
     <1>25, <1>26, <1>27, <1>28, <1>29, <1>30, <1>31, <1>32, <1>33, <1>34, <1>35, <1>36,
     <1>37, <1>38, <1>39, <1>40, <1>41, <1>42, <1>43, <1>44, <1>45, <1>50, <1>51, <1>52, <1>53
     DEF Invokes
<1>48. CASE UNCHANGED vars
  BY <1>48 DEF vars, shared, own, Loaded
<1>49. QED BY <1>46, <1>47, <1>48 DEF Next

\* The inductive form of the type invariant holds throughout.
THEOREM TypeInvariant == Spec => []TypeInv
BY TypeInit, TypeStep, PTL DEF Spec

\* Every variable keeps its type, whatever the threads do.
THEOREM TypeCorrect == Spec => []TypeOK
<1>1. TypeInv => TypeOK
  BY DEF TypeInv
<1>2. QED BY <1>1, TypeInvariant, PTL

-----------------------------------------------------------------------------
(***************************************************************************)
(* Exclusion.  Only begin_drain and the drop of the guard change who is in *)
(* the drain; every other step of a thread starts and ends on the same     *)
(* side.                                                                   *)
(***************************************************************************)

SameHolders ==
  /\ activeDrain' = activeDrain
  /\ \A u \in Threads : pc'[u] \in InDrain <=> pc[u] \in InDrain

\* Where flush_reentrant_events goes on, for the drain and for an operation.
LEMMA TakeReentrantGoes ==
  ASSUME TypeInv, NEW t \in Threads, TakeReentrant(t)
  PROVE  /\ \/ pc[t] = "take" /\ pc'[t] \in {"flush", "pop"}
            \/ pc[t] = "takeOperation" /\ pc'[t] \in {"flushOperation", next[t]}
         /\ \A u \in Threads : u # t => pc'[u] = pc[u]
         /\ UNCHANGED <<activeDrain, currentState, next, seen>>
<1> USE DEF TypeInv, TypeOK, Stopping
<1>1. PICK step \in {<<"take", "flush", "pop">>,
                     <<"takeOperation", "flushOperation", next[t]>>} :
        /\ pc[t] = step[1]
        /\ pc' = [pc EXCEPT ![t] = IF pendingReentrant = <<>> THEN step[3] ELSE step[2]]
        /\ UNCHANGED <<activeDrain, currentState, next, seen>>
  BY DEF TakeReentrant, Goto
<1>2. CASE step[1] = "take"
  BY <1>1, <1>2
<1>3. CASE step[1] = "takeOperation"
  BY <1>1, <1>3
<1>4. QED BY <1>1, <1>2, <1>3

\* No other step enters or leaves the drain.
LEMMA OtherSteps ==
  ASSUME TypeInv, NEW t \in Threads, Proceeds(t) \/ Invokes(t),
         ~BeginDrain(t), ~ReleaseDrain(t)
  PROVE  SameHolders
<1> USE DEF TypeInv, TypeOK, Stopping
<1>1. ASSUME Dispatch(t) PROVE SameHolders
  BY <1>1 DEF Dispatch, Enter, SameHolders, InDrain, Processing, Goto, shared
<1>2. ASSUME Set(t) PROVE SameHolders
  BY <1>2 DEF Set, Enter, SameHolders, InDrain, Processing, Goto, shared
<1>3. ASSUME Call(t) PROVE SameHolders
  BY <1>3 DEF Call, Enter, SameHolders, InDrain, Processing, Goto, shared
<1>4. ASSUME Admit(t) PROVE SameHolders
  BY <1>4 DEF Admit, SameHolders, InDrain, Processing, Goto, shared
<1>5. ASSUME BeginOperation(t) PROVE SameHolders
  BY <1>5 DEF BeginOperation, SameHolders, InDrain, Processing, Goto
<1>6. ASSUME OperationReenters(t) PROVE SameHolders
  BY <1>6 DEF OperationReenters, SameHolders, InDrain, Processing, Goto, own
<1>7. ASSUME ActivityDispatches(t) PROVE SameHolders
  BY <1>7 DEF ActivityDispatches, SameHolders, InDrain, Processing, Goto, shared
<1>8. ASSUME EndOperation(t) PROVE SameHolders
  BY <1>8 DEF EndOperation, SameHolders, InDrain, Processing, Goto
<1>9. ASSUME LeaveFlush(t) PROVE SameHolders
  BY <1>9 DEF LeaveFlush, SameHolders, InDrain, Processing, Goto, shared
<1>10. ASSUME DispatchCall(t) PROVE SameHolders
  BY <1>10 DEF DispatchCall, SameHolders, InDrain, Processing, Goto, shared
<1>11. ASSUME Route(t) PROVE SameHolders
  BY <1>11 DEF Route, SameHolders, InDrain, Processing, Goto, shared
<1>12. ASSUME RouteOperation(t) PROVE SameHolders
  BY <1>12 DEF RouteOperation, SameHolders, InDrain, Processing, Goto, shared
<1>13. ASSUME QueueReentrantEvent(t) PROVE SameHolders
  BY <1>13 DEF QueueReentrantEvent, SameHolders, InDrain, Processing, Goto
<1>14. ASSUME PushHeld(t) PROVE SameHolders
  BY <1>14 DEF PushHeld, SameHolders, InDrain, Processing, Goto
<1>15. ASSUME Pop(t) PROVE SameHolders
  BY <1>15 DEF Pop, SameHolders, InDrain, Processing, Goto
<1>16. ASSUME TakeDeferredEvent(t) PROVE SameHolders
  BY <1>16 DEF TakeDeferredEvent, SameHolders, InDrain, Processing, Goto
<1>17. ASSUME SelectState(t) PROVE SameHolders
  BY <1>17 DEF SelectState, SameHolders, InDrain, Processing, Goto, shared
<1>18. ASSUME BeginBehavior(t) PROVE SameHolders
  BY <1>18 DEF BeginBehavior, SameHolders, InDrain, Processing, Goto
<1>19. ASSUME EndBehavior(t) PROVE SameHolders
  BY <1>19 DEF EndBehavior, SameHolders, InDrain, Processing, Goto
<1>20. ASSUME BehaviorDispatches(t) PROVE SameHolders
  BY <1>20 DEF BehaviorDispatches, SameHolders, InDrain, Processing, Goto, own
<1>21. ASSUME AbandonDrain(t) PROVE SameHolders
  BY <1>21 DEF AbandonDrain, SameHolders, InDrain, Processing, Goto, shared
<1>22. ASSUME AbandonOperation(t) PROVE SameHolders
  BY <1>22 DEF AbandonOperation, SameHolders, InDrain, Processing, Goto, shared
<1>23. ASSUME Ignore(t) PROVE SameHolders
  BY <1>23 DEF Ignore, SameHolders, InDrain, Processing, Goto, shared
<1>24. ASSUME Defer(t) PROVE SameHolders
  BY <1>24 DEF Defer, SameHolders, InDrain, Processing, Goto, shared
<1>25. ASSUME DeferredOwner(t) PROVE SameHolders
  BY <1>25 DEF DeferredOwner, SameHolders, InDrain, Processing, Goto, shared
<1>26. ASSUME Transit(t) PROVE SameHolders
  BY <1>26 DEF Transit, SameHolders, InDrain, Processing, Goto
<1>27. ASSUME PushFinal(t) PROVE SameHolders
  BY <1>27 DEF PushFinal, SameHolders, InDrain, Processing, Goto
<1>28. ASSUME Fail(t) PROVE SameHolders
  BY <1>28 DEF Fail, SameHolders, InDrain, Processing, Goto, shared
<1>29. ASSUME DropExited(t) PROVE SameHolders
  BY <1>29 DEF DropExited, SameHolders, InDrain, Processing, Goto, shared
<1>30. ASSUME PushDeferred(t) PROVE SameHolders
  BY <1>30 DEF PushDeferred, SameHolders, InDrain, Processing, Goto
<1>31. ASSUME RecordDeferred(t) PROVE SameHolders
  BY <1>31 DEF RecordDeferred, SameHolders, InDrain, Processing, Goto
<1>32. ASSUME TakeReentrant(t) PROVE SameHolders
  BY <1>32, TakeReentrantGoes DEF SameHolders, InDrain, Processing
<1>33. ASSUME FlushReentrant(t) PROVE SameHolders
  BY <1>33 DEF FlushReentrant, SameHolders, InDrain, Processing, Goto
<1>34. ASSUME WipeReentrant(t) PROVE SameHolders
  BY <1>34 DEF WipeReentrant, SameHolders, InDrain, Processing, Goto
<1>35. ASSUME Start(t) PROVE SameHolders
  BY <1>35 DEF Start, SameHolders, InDrain, Processing, Goto, shared
<1>36. ASSUME AdmitStart(t) PROVE SameHolders
  BY <1>36 DEF AdmitStart, SameHolders, InDrain, Processing, Goto, shared
<1>37. ASSUME Activate(t) PROVE SameHolders
  BY <1>37 DEF Activate, SameHolders, InDrain, Processing, Goto
<1>38. ASSUME Restart(t) PROVE SameHolders
  BY <1>38 DEF Restart, SameHolders, InDrain, Processing, Goto, shared
<1>39. ASSUME Stop(t) PROVE SameHolders
  BY <1>39 DEF Stop, SameHolders, InDrain, Processing, Goto, shared
<1>40. ASSUME StopReads(t) PROVE SameHolders
  BY <1>40 DEF StopReads, SameHolders, InDrain, Processing, Goto, shared
<1>41. ASSUME ClearQueue(t) PROVE SameHolders
  BY <1>41 DEF ClearQueue, SameHolders, InDrain, Processing, Goto
<1>42. ASSUME ClearDeferred(t) PROVE SameHolders
  BY <1>42 DEF ClearDeferred, SameHolders, InDrain, Processing, Goto
<1>43. ASSUME SwitchOff(t) PROVE SameHolders
  BY <1>43 DEF SwitchOff, SameHolders, InDrain, Processing, Goto
<1>45. ASSUME KeepDeferred(t) PROVE SameHolders
  BY <1>45 DEF KeepDeferred, SameHolders, InDrain, Processing, Goto, shared
<1>46. ASSUME ExitDispatches(t) PROVE SameHolders
  BY <1>46 DEF ExitDispatches, SameHolders, InDrain, Processing, Goto, shared
<1>47. ASSUME StopExits(t) PROVE SameHolders
  BY <1>47 DEF StopExits, SameHolders, InDrain, Processing, Goto, shared
<1>48. ASSUME AbandonStop(t) PROVE SameHolders
  BY <1>48 DEF AbandonStop, SameHolders, InDrain, Processing, Goto, shared
<1>44. QED
  BY <1>1, <1>2, <1>3, <1>4, <1>5, <1>6, <1>7, <1>8, <1>9, <1>10, <1>11, <1>12, <1>13,
     <1>14, <1>15, <1>16, <1>17, <1>18, <1>19, <1>20, <1>21, <1>22, <1>23, <1>24, <1>25,
     <1>26, <1>27, <1>28, <1>29, <1>30, <1>31, <1>32, <1>33, <1>34, <1>35, <1>36, <1>37,
     <1>38, <1>39, <1>40, <1>41, <1>42, <1>43, <1>45, <1>46, <1>47, <1>48
     DEF Proceeds, Invokes

\* Every step keeps the drains apart.
LEMMA DrainStep == TypeInv /\ DrainExclusive /\ [Next]_vars => DrainExclusive'
<1> SUFFICES ASSUME TypeInv, DrainExclusive, [Next]_vars PROVE DrainExclusive'
  OBVIOUS
<1> USE DEF TypeInv, TypeOK, Stopping
<1>1. SameHolders => DrainExclusive'
  BY DEF SameHolders, DrainExclusive
<1>2. ASSUME NEW t \in Threads, BeginDrain(t) PROVE DrainExclusive'
  <2>1. CASE activeDrain
    <3>1. pc' = [pc EXCEPT ![t] = next[t]] /\ activeDrain' = activeDrain /\ pc[t] = "drain"
      BY <1>2, <2>1 DEF BeginDrain, Free, Goto
    <3>2. SameHolders
      BY <3>1 DEF SameHolders, InDrain, Processing
    <3>3. QED BY <1>1, <3>2
  <2>2. CASE ~activeDrain
    <3>1. pc' = [pc EXCEPT ![t] = "pop"] /\ activeDrain' = TRUE
      BY <1>2, <2>2 DEF BeginDrain, Free, Goto
    <3>2. \A u \in Threads : pc[u] \notin InDrain
      BY <2>2 DEF DrainExclusive
    <3>3. pc'[t] \in InDrain /\ \A u \in Threads : u # t => pc'[u] \notin InDrain
      BY <3>1, <3>2 DEF InDrain
    <3>4. QED BY <3>1, <3>3 DEF DrainExclusive
  <2>3. QED BY <2>1, <2>2
<1>3. ASSUME NEW t \in Threads, ReleaseDrain(t) PROVE DrainExclusive'
  <2>1. pc[t] = "release" /\ pc' = [pc EXCEPT ![t] = "wipe"] /\ activeDrain' = FALSE
    BY <1>3 DEF ReleaseDrain, Goto
  <2>2. \A u \in Threads : u # t => pc[u] \notin InDrain
    BY <2>1 DEF DrainExclusive, InDrain
  <2>3. \A u \in Threads : pc'[u] \notin InDrain
    BY <2>1, <2>2 DEF InDrain, Processing
  <2>4. QED BY <2>1, <2>3 DEF DrainExclusive
<1>4. CASE Next
  BY <1>1, <1>2, <1>3, <1>4, OtherSteps DEF Next
<1>5. CASE UNCHANGED vars
  BY <1>5 DEF vars, shared, own, DrainExclusive
<1>6. QED BY <1>4, <1>5

\* begin_drain and DrainGuard exclude: however many threads dispatch, set, call,
\* start and stop, at most one is in drain_queue, and ACTIVE_DRAINS says so.
THEOREM DrainsExclude == Spec => []DrainExclusive
<1>1. Init => DrainExclusive
  BY DEF Init, DrainExclusive, InDrain, Processing
<1>2. QED BY <1>1, DrainStep, TypeInvariant, PTL DEF Spec

-----------------------------------------------------------------------------
(***************************************************************************)
(* Stability.  A machine that nobody starts or stops changes its state     *)
(* only in the drain, and drains exclude, so the clone of current_state    *)
(* that an event is processed with stays true until the result is written. *)
(***************************************************************************)

Lifecycle ==
  {"start", "starting", "activate", "stop", "clearQueue", "clearDeferred", "off"} \cup Stopping

StableInv ==
  /\ DrainExclusive
  /\ StateStable
  /\ \A t \in Threads : pc[t] \notin Lifecycle /\ next[t] \notin {"start"} \cup Stopping

\* Without starts and stops, every step keeps the clone true.
LEMMA StableStep ==
  ASSUME Api \cap {"start", "stop", "restart"} = {},
         TypeInv, StableInv, [Next]_vars
  PROVE  StableInv'
<1> USE DEF TypeInv, TypeOK, Stopping
<1>1. DrainExclusive'
  BY DrainStep DEF StableInv
<1> DEFINE Kept(t) ==
      /\ pc'[t] \notin Lifecycle /\ next'[t] \notin {"start"} \cup Stopping
      /\ \A u \in Threads : u # t => pc'[u] = pc[u] /\ next'[u] = next[u] /\ seen'[u] = seen[u]
<1> DEFINE Quietly(t) ==
      /\ Kept(t)
      /\ currentState' = currentState
      /\ pc'[t] \in Processing => seen'[t] = currentState
<1>2. ASSUME NEW t \in Threads, Quietly(t) PROVE StableInv'
  BY <1>1, <1>2 DEF StableInv, StateStable
<1>3. ASSUME NEW t \in Threads, Transit(t) PROVE StableInv'
  <2>1. pc[t] \in InDrain /\ pc'[t] \notin Processing /\ Kept(t)
    BY <1>3 DEF Transit, Goto, InDrain, Processing, Lifecycle, StableInv
  <2>2. \A u \in Threads : u # t => pc'[u] \notin Processing
    BY <2>1 DEF StableInv, DrainExclusive, InDrain
  <2>3. QED BY <1>1, <2>1, <2>2 DEF StableInv, StateStable
<1>4. ASSUME NEW t \in Threads, Dispatch(t) PROVE Quietly(t)
  BY <1>4
     DEF Dispatch, Enter, StableInv, StateStable, Lifecycle, Processing, Goto, shared
<1>5. ASSUME NEW t \in Threads, Set(t) PROVE Quietly(t)
  BY <1>5 DEF Set, Enter, StableInv, StateStable, Lifecycle, Processing, Goto, shared
<1>6. ASSUME NEW t \in Threads, Call(t) PROVE Quietly(t)
  BY <1>6 DEF Call, Enter, StableInv, StateStable, Lifecycle, Processing, Goto, shared
<1>7. ASSUME NEW t \in Threads, Admit(t) PROVE Quietly(t)
  BY <1>7 DEF Admit, StableInv, StateStable, Lifecycle, Processing, Goto, shared
<1>8. ASSUME NEW t \in Threads, BeginOperation(t) PROVE Quietly(t)
  BY <1>8 DEF BeginOperation, StableInv, StateStable, Lifecycle, Processing, Goto
<1>9. ASSUME NEW t \in Threads, OperationReenters(t) PROVE Quietly(t)
  BY <1>9 DEF OperationReenters, StableInv, StateStable, Lifecycle, Processing, Goto, own
<1>10. ASSUME NEW t \in Threads, ActivityDispatches(t) PROVE Quietly(t)
  BY <1>10
     DEF ActivityDispatches, StableInv, StateStable, Lifecycle, Processing, Goto, shared
<1>11. ASSUME NEW t \in Threads, EndOperation(t) PROVE Quietly(t)
  BY <1>11 DEF EndOperation, StableInv, StateStable, Lifecycle, Processing, Goto
<1>12. ASSUME NEW t \in Threads, LeaveFlush(t) PROVE Quietly(t)
  BY <1>12 DEF LeaveFlush, StableInv, StateStable, Lifecycle, Processing, Goto, shared
<1>13. ASSUME NEW t \in Threads, DispatchCall(t) PROVE Quietly(t)
  BY <1>13 DEF DispatchCall, StableInv, StateStable, Lifecycle, Processing, Goto, shared
<1>14. ASSUME NEW t \in Threads, Route(t) PROVE Quietly(t)
  BY <1>14 DEF Route, StableInv, StateStable, Lifecycle, Processing, Goto, shared
<1>15. ASSUME NEW t \in Threads, RouteOperation(t) PROVE Quietly(t)
  BY <1>15
     DEF RouteOperation, StableInv, StateStable, Lifecycle, Processing, Goto, shared
<1>16. ASSUME NEW t \in Threads, QueueReentrantEvent(t) PROVE Quietly(t)
  BY <1>16 DEF QueueReentrantEvent, StableInv, StateStable, Lifecycle, Processing, Goto
<1>17. ASSUME NEW t \in Threads, PushHeld(t) PROVE Quietly(t)
  BY <1>17 DEF PushHeld, StableInv, StateStable, Lifecycle, Processing, Goto
<1>18. ASSUME NEW t \in Threads, BeginDrain(t) PROVE Quietly(t)
  <2>1. pc[t] = "drain" /\ UNCHANGED <<next, seen, currentState>>
    BY <1>18 DEF BeginDrain
  <2>2. \E label \in {"pop", next[t]} : pc' = [pc EXCEPT ![t] = label]
    BY <1>18 DEF BeginDrain, Goto
  <2>3. next[t] \notin Lifecycle \cup Processing
    BY DEF StableInv, Lifecycle, Processing
  <2>4. QED BY <2>1, <2>2, <2>3 DEF StableInv, StateStable, Lifecycle, Processing
<1>19. ASSUME NEW t \in Threads, Pop(t) PROVE Quietly(t)
  BY <1>19 DEF Pop, StableInv, StateStable, Lifecycle, Processing, Goto
<1>20. ASSUME NEW t \in Threads, TakeDeferredEvent(t) PROVE Quietly(t)
  BY <1>20 DEF TakeDeferredEvent, StableInv, StateStable, Lifecycle, Processing, Goto
<1>43. ASSUME NEW t \in Threads, KeepDeferred(t) PROVE Quietly(t)
  BY <1>43 DEF KeepDeferred, StableInv, StateStable, Lifecycle, Processing, Goto, shared
<1>21. ASSUME NEW t \in Threads, SelectState(t) PROVE Quietly(t)
  BY <1>21 DEF SelectState, StableInv, StateStable, Lifecycle, Processing, Goto, shared
<1>22. ASSUME NEW t \in Threads, BeginBehavior(t) PROVE Quietly(t)
  BY <1>22 DEF BeginBehavior, StableInv, StateStable, Lifecycle, Processing, Goto
<1>23. ASSUME NEW t \in Threads, EndBehavior(t) PROVE Quietly(t)
  BY <1>23 DEF EndBehavior, StableInv, StateStable, Lifecycle, Processing, Goto
<1>24. ASSUME NEW t \in Threads, BehaviorDispatches(t) PROVE Quietly(t)
  BY <1>24
     DEF BehaviorDispatches, StableInv, StateStable, Lifecycle, Processing, Goto, own
<1>25. ASSUME NEW t \in Threads, AbandonDrain(t) PROVE Quietly(t)
  BY <1>25 DEF AbandonDrain, StableInv, StateStable, Lifecycle, Processing, Goto, shared
<1>26. ASSUME NEW t \in Threads, AbandonOperation(t) PROVE Quietly(t)
  BY <1>26
     DEF AbandonOperation, StableInv, StateStable, Lifecycle, Processing, Goto, shared
<1>27. ASSUME NEW t \in Threads, Ignore(t) PROVE Quietly(t)
  BY <1>27 DEF Ignore, StableInv, StateStable, Lifecycle, Processing, Goto, shared
<1>28. ASSUME NEW t \in Threads, Defer(t) PROVE Quietly(t)
  BY <1>28 DEF Defer, StableInv, StateStable, Lifecycle, Processing, Goto, shared
<1>29. ASSUME NEW t \in Threads, DeferredOwner(t) PROVE Quietly(t)
  BY <1>29 DEF DeferredOwner, StableInv, StateStable, Lifecycle, Processing, Goto, shared
<1>30. ASSUME NEW t \in Threads, PushFinal(t) PROVE Quietly(t)
  BY <1>30 DEF PushFinal, StableInv, StateStable, Lifecycle, Processing, Goto
<1>31. ASSUME NEW t \in Threads, Fail(t) PROVE Quietly(t)
  BY <1>31 DEF Fail, StableInv, StateStable, Lifecycle, Processing, Goto, shared
<1>32. ASSUME NEW t \in Threads, DropExited(t) PROVE Quietly(t)
  BY <1>32 DEF DropExited, StableInv, StateStable, Lifecycle, Processing, Goto, shared
<1>33. ASSUME NEW t \in Threads, PushDeferred(t) PROVE Quietly(t)
  BY <1>33 DEF PushDeferred, StableInv, StateStable, Lifecycle, Processing, Goto
<1>34. ASSUME NEW t \in Threads, RecordDeferred(t) PROVE Quietly(t)
  BY <1>34 DEF RecordDeferred, StableInv, StateStable, Lifecycle, Processing, Goto
<1>35. ASSUME NEW t \in Threads, TakeReentrant(t) PROVE Quietly(t)
  BY <1>35, TakeReentrantGoes DEF StableInv, StateStable, Lifecycle, Processing
<1>36. ASSUME NEW t \in Threads, FlushReentrant(t) PROVE Quietly(t)
  BY <1>36 DEF FlushReentrant, StableInv, StateStable, Lifecycle, Processing, Goto
<1>37. ASSUME NEW t \in Threads, ReleaseDrain(t) PROVE Quietly(t)
  BY <1>37 DEF ReleaseDrain, StableInv, StateStable, Lifecycle, Processing, Goto
<1>38. ASSUME NEW t \in Threads, WipeReentrant(t) PROVE Quietly(t)
  BY <1>38 DEF WipeReentrant, StableInv, StateStable, Lifecycle, Processing, Goto
<1>39. ASSUME NEW t \in Threads
      PROVE  ~(Start(t) \/ Restart(t) \/ Stop(t) \/ AdmitStart(t) \/ Activate(t)
               \/ StopReads(t) \/ ExitDispatches(t) \/ StopExits(t) \/ AbandonStop(t)
               \/ ClearQueue(t) \/ ClearDeferred(t) \/ SwitchOff(t))
  BY DEF Start, Restart, Stop, AdmitStart, Activate, StopReads, ExitDispatches,
     StopExits, AbandonStop, ClearQueue, ClearDeferred, SwitchOff, StableInv,
     Lifecycle
<1>40. ASSUME NEW t \in Threads, Proceeds(t) \/ Invokes(t) PROVE StableInv'
  <2> HIDE DEF Quietly
  <2> QED
    BY <1>40, <1>2, <1>3, <1>4, <1>5, <1>6, <1>7, <1>8, <1>9, <1>10, <1>11, <1>12,
       <1>13, <1>14, <1>15, <1>16, <1>17, <1>18, <1>19, <1>20, <1>21, <1>22, <1>23,
       <1>24, <1>25, <1>26, <1>27, <1>28, <1>29, <1>30, <1>31, <1>32, <1>33, <1>34,
       <1>35, <1>36, <1>37, <1>38, <1>39, <1>43
       DEF Proceeds, Invokes
<1>41. CASE UNCHANGED vars
  BY <1>1, <1>41 DEF vars, shared, own, StableInv, StateStable
<1>42. QED BY <1>40, <1>41 DEF Next

\* Where nobody starts or stops the machine, process_single_event's clone of
\* current_state is the current state until the transition is written back.
THEOREM StateStays ==
  ASSUME Api \cap {"start", "stop", "restart"} = {}
  PROVE  Spec => []StateStable
<1>1. Init => StableInv
  BY DEF Init, StableInv, DrainExclusive, StateStable, InDrain, Processing, Lifecycle, Stopping
<1>2. TypeInv /\ StableInv /\ [Next]_vars => StableInv'
  BY StableStep
<1>3. StableInv => StateStable
  BY DEF StableInv
<1>4. QED BY <1>1, <1>2, <1>3, TypeInvariant, PTL DEF Spec
=============================================================================
