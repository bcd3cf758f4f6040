------------------------- MODULE ConservationProofs -------------------------
(***************************************************************************)
(* No event is lost or doubled on its way through the runtime, and the     *)
(* runtime keeps the promise of Mailbox, for any threads, events, model    *)
(* and entry points.  Then the depth of ACTIVE_OPERATIONS, and what a      *)
(* caller that is alone can count on.                                      *)
(***************************************************************************)
EXTENDS RuntimeProofs, FiniteSetTheorems

-----------------------------------------------------------------------------
(***************************************************************************)
(* What a thread has in hand.  Loaded says where it has something; here is *)
(* where it has nothing: whatever it takes then replaces nothing.          *)
(***************************************************************************)

Offering == {"dispatch", "set", "call", "operate", "again", "route", "routeOperation",
             "setAside", "push"}

\* The records a deferral makes: their owner's defer list has the event's name.
Deferrals == {r \in Record : <<r.owner, Name[r.event]>> \in Defers}

\* The record a drain has taken from the list is one, of an event of that name.
Hands(t) ==
  /\ held[t] # None => \/ pc[t] \in Offering
                       \/ pc[t] = "body" /\ t \notin Activities /\ next[t] \notin Stopping
                       \/ next[t] = "again"
  /\ popped[t] # None => pc[t] \in {"match", "matched", "select"} \cup Processing
  /\ pc[t] = "matched" => taken[t] \in Deferrals /\ Name[taken[t].event] = Name[popped[t]]
  /\ carry[t] # <<>> => pc[t] \in {"flush", "flushOperation"}
  /\ pc[t] \in {"call", "operate"} => next[t] = "idle"
  /\ pc[t] \in {"stop"} \cup Stopping => next[t] # "again"
  /\ pc[t] \in {"dispatch", "call", "operate", "again"} \/ next[t] = "again" => t \notin Activities

\* Of the others nothing that Hands speaks of changes.
Alone(t) ==
  \A u \in Threads : u # t =>
    /\ pc'[u] = pc[u] /\ next'[u] = next[u] /\ held'[u] = held[u]
    /\ popped'[u] = popped[u] /\ taken'[u] = taken[u] /\ carry'[u] = carry[u]

\* Where the two flushes lead.
LEMMA TakeReentrantMoves ==
  ASSUME TypeInv, NEW t \in Threads, TakeReentrant(t)
  PROVE  \/ /\ pc[t] = "take"
            /\ pc' = [pc EXCEPT ![t] = IF pendingReentrant = <<>> THEN "pop" ELSE "flush"]
         \/ /\ pc[t] = "takeOperation"
            /\ pc' = [pc EXCEPT ![t] = IF pendingReentrant = <<>> THEN next[t]
                                       ELSE "flushOperation"]
<1>1. PICK step \in {<<"take", "flush", "pop">>,
                     <<"takeOperation", "flushOperation", next[t]>>} :
        /\ pc[t] = step[1]
        /\ pc' = [pc EXCEPT ![t] = IF pendingReentrant = <<>> THEN step[3] ELSE step[2]]
  BY DEF TakeReentrant, Goto
<1>2. CASE step = <<"take", "flush", "pop">>
  BY <1>1, <1>2
<1>3. CASE step = <<"takeOperation", "flushOperation", next[t]>>
  BY <1>1, <1>3
<1>4. QED BY <1>1, <1>2, <1>3

\* Each action leaves its thread with nothing it should not have.
LEMMA HandsStep ==
  ASSUME TypeInv, deferredEvents \in Seq(Deferrals), NEW t \in Threads, Hands(t),
         Proceeds(t) \/ Invokes(t)
  PROVE  Hands(t)' /\ Alone(t)
<1> USE DEF TypeInv, TypeOK, Loaded, Hands, Alone, Offering, InFlush, InDrain, Processing,
            Stopping
<1>1. ASSUME Dispatch(t) PROVE Hands(t)' /\ Alone(t)
  BY <1>1 DEF Dispatch, Enter, Goto, shared
<1>2. ASSUME Set(t) PROVE Hands(t)' /\ Alone(t)
  BY <1>2 DEF Set, Enter, Goto, shared
<1>3. ASSUME Call(t) PROVE Hands(t)' /\ Alone(t)
  BY <1>3 DEF Call, Enter, Goto, shared
<1>4. ASSUME Admit(t) PROVE Hands(t)' /\ Alone(t)
  BY <1>4 DEF Admit, Goto, shared
<1>5. ASSUME BeginOperation(t) PROVE Hands(t)' /\ Alone(t)
  BY <1>5 DEF BeginOperation, Goto
<1>6. ASSUME OperationReenters(t) PROVE Hands(t)' /\ Alone(t)
  BY <1>6 DEF OperationReenters, own
<1>7. ASSUME ActivityDispatches(t) PROVE Hands(t)' /\ Alone(t)
  BY <1>7 DEF ActivityDispatches, Goto, shared
<1>8. ASSUME EndOperation(t) PROVE Hands(t)' /\ Alone(t)
  BY <1>8 DEF EndOperation, Goto
<1>9. ASSUME LeaveFlush(t) PROVE Hands(t)' /\ Alone(t)
  BY <1>9 DEF LeaveFlush, Goto, shared
<1>10. ASSUME DispatchCall(t) PROVE Hands(t)' /\ Alone(t)
  BY <1>10 DEF DispatchCall, Goto, shared
<1>11. ASSUME Route(t) PROVE Hands(t)' /\ Alone(t)
  BY <1>11 DEF Route, Goto, shared
<1>12. ASSUME RouteOperation(t) PROVE Hands(t)' /\ Alone(t)
  BY <1>12 DEF RouteOperation, Goto, shared
<1>13. ASSUME QueueReentrantEvent(t) PROVE Hands(t)' /\ Alone(t)
  BY <1>13 DEF QueueReentrantEvent, Goto
<1>14. ASSUME PushHeld(t) PROVE Hands(t)' /\ Alone(t)
  BY <1>14 DEF PushHeld, Goto
<1>15. ASSUME BeginDrain(t) PROVE Hands(t)' /\ Alone(t)
  BY <1>15 DEF BeginDrain, Goto
<1>16. ASSUME Pop(t) PROVE Hands(t)' /\ Alone(t)
  BY <1>16 DEF Pop, Goto
<1>17. ASSUME TakeDeferredEvent(t) PROVE Hands(t)' /\ Alone(t)
  <2>1. pc[t] = "match" /\ UNCHANGED <<next, held, popped, carry>>
    BY <1>17 DEF TakeDeferredEvent
  <2>2. CASE pc' = [pc EXCEPT ![t] = "select"] /\ UNCHANGED taken
    BY <2>1, <2>2
  <2>3. ASSUME NEW i \in Matching(popped[t]), pc' = [pc EXCEPT ![t] = "matched"],
               taken' = [taken EXCEPT ![t] = deferredEvents[i]]
        PROVE  Hands(t)' /\ Alone(t)
    <3>1. i \in DOMAIN deferredEvents /\ Name[deferredEvents[i].event] = Name[popped[t]]
      BY DEF Matching
    <3>2. taken'[t] \in Deferrals /\ Name[taken'[t].event] = Name[popped[t]]
      BY <2>3, <3>1
    <3>3. QED BY <2>1, <2>3, <3>2
  <2>4. QED BY <1>17, <2>2, <2>3 DEF TakeDeferredEvent, Goto
<1>18. ASSUME SelectState(t) PROVE Hands(t)' /\ Alone(t)
  BY <1>18 DEF SelectState, Goto, shared
<1>19. ASSUME BeginBehavior(t) PROVE Hands(t)' /\ Alone(t)
  BY <1>19 DEF BeginBehavior, Goto
<1>20. ASSUME EndBehavior(t) PROVE Hands(t)' /\ Alone(t)
  BY <1>20 DEF EndBehavior, Goto
<1>21. ASSUME BehaviorDispatches(t) PROVE Hands(t)' /\ Alone(t)
  BY <1>21 DEF BehaviorDispatches, own
<1>22. ASSUME AbandonDrain(t) PROVE Hands(t)' /\ Alone(t)
  BY <1>22 DEF AbandonDrain, Goto, shared
<1>23. ASSUME AbandonOperation(t) PROVE Hands(t)' /\ Alone(t)
  BY <1>23 DEF AbandonOperation, Goto, shared
<1>24. ASSUME Ignore(t) PROVE Hands(t)' /\ Alone(t)
  BY <1>24 DEF Ignore, Goto, shared
<1>25. ASSUME Defer(t) PROVE Hands(t)' /\ Alone(t)
  BY <1>25 DEF Defer, Goto, shared
<1>26. ASSUME DeferredOwner(t) PROVE Hands(t)' /\ Alone(t)
  BY <1>26 DEF DeferredOwner, Goto, shared
<1>27. ASSUME Transit(t) PROVE Hands(t)' /\ Alone(t)
  BY <1>27 DEF Transit, Goto
<1>28. ASSUME PushFinal(t) PROVE Hands(t)' /\ Alone(t)
  BY <1>28 DEF PushFinal, Goto
<1>29. ASSUME Fail(t) PROVE Hands(t)' /\ Alone(t)
  BY <1>29 DEF Fail, Goto, shared
<1>30. ASSUME DropExited(t) PROVE Hands(t)' /\ Alone(t)
  BY <1>30 DEF DropExited, Goto, shared
<1>31. ASSUME PushDeferred(t) PROVE Hands(t)' /\ Alone(t)
  BY <1>31 DEF PushDeferred, Goto
<1>32. ASSUME RecordDeferred(t) PROVE Hands(t)' /\ Alone(t)
  <2>1. PICK step \in {<<"record", "take">>, <<"recordAll", "release">>} :
          /\ pc[t] = step[1] /\ pc' = [pc EXCEPT ![t] = step[2]]
          /\ UNCHANGED <<next, held, popped, taken, carry>>
    BY <1>32 DEF RecordDeferred, Goto
  <2>2. step[1] \in {"record", "recordAll"} /\ step[2] \in {"take", "release"}
    BY <2>1
  <2>3. QED BY <2>1, <2>2
<1>33. ASSUME TakeReentrant(t) PROVE Hands(t)' /\ Alone(t)
  <2>1. carry' = [carry EXCEPT ![t] = pendingReentrant] /\ UNCHANGED <<next, held, popped, taken>>
    BY <1>33 DEF TakeReentrant
  <2>2. CASE pc[t] = "take"
    <3>1. pc' = [pc EXCEPT ![t] = IF pendingReentrant = <<>> THEN "pop" ELSE "flush"]
      BY <1>33, <2>2, TakeReentrantMoves
    <3>2. QED BY <2>1, <2>2, <3>1
  <2>3. CASE pc[t] = "takeOperation"
    <3>1. pc' = [pc EXCEPT ![t] = IF pendingReentrant = <<>> THEN next[t]
                                  ELSE "flushOperation"]
      BY <1>33, <2>3, TakeReentrantMoves
    <3>2. QED BY <2>1, <2>3, <3>1
  <2>4. QED BY <1>33, <2>2, <2>3, TakeReentrantMoves
<1>34. ASSUME FlushReentrant(t) PROVE Hands(t)' /\ Alone(t)
  BY <1>34 DEF FlushReentrant, Goto
<1>35. ASSUME ReleaseDrain(t) PROVE Hands(t)' /\ Alone(t)
  BY <1>35 DEF ReleaseDrain, Goto
<1>36. ASSUME WipeReentrant(t) PROVE Hands(t)' /\ Alone(t)
  BY <1>36 DEF WipeReentrant, Goto
<1>37. ASSUME Start(t) PROVE Hands(t)' /\ Alone(t)
  BY <1>37 DEF Start, Goto, shared
<1>38. ASSUME AdmitStart(t) PROVE Hands(t)' /\ Alone(t)
  BY <1>38 DEF AdmitStart, Goto, shared
<1>39. ASSUME Activate(t) PROVE Hands(t)' /\ Alone(t)
  BY <1>39 DEF Activate, Goto
<1>40. ASSUME Restart(t) PROVE Hands(t)' /\ Alone(t)
  BY <1>40 DEF Restart, Goto, shared
<1>41. ASSUME Stop(t) PROVE Hands(t)' /\ Alone(t)
  BY <1>41 DEF Stop, Goto, shared
<1>42. ASSUME StopReads(t) PROVE Hands(t)' /\ Alone(t)
  BY <1>42 DEF StopReads, Goto, shared
<1>43. ASSUME ClearQueue(t) PROVE Hands(t)' /\ Alone(t)
  BY <1>43 DEF ClearQueue, Goto
<1>44. ASSUME ClearDeferred(t) PROVE Hands(t)' /\ Alone(t)
  BY <1>44 DEF ClearDeferred, Goto
<1>45. ASSUME SwitchOff(t) PROVE Hands(t)' /\ Alone(t)
  BY <1>45 DEF SwitchOff, Goto
<1>46. ASSUME KeepDeferred(t) PROVE Hands(t)' /\ Alone(t)
  BY <1>46 DEF KeepDeferred, Goto, shared
<1>47. ASSUME ExitDispatches(t) PROVE Hands(t)' /\ Alone(t)
  BY <1>47 DEF ExitDispatches, Goto, shared
<1>48. ASSUME StopExits(t) PROVE Hands(t)' /\ Alone(t)
  BY <1>48 DEF StopExits, Goto, shared
<1>49. ASSUME AbandonStop(t) PROVE Hands(t)' /\ Alone(t)
  BY <1>49 DEF AbandonStop, Goto, shared
<1>50. QED
  <2> HIDE DEF TypeInv, TypeOK, Loaded, Hands, Alone
  <2> QED
    BY <1>1, <1>2, <1>3, <1>4, <1>5, <1>6, <1>7, <1>8, <1>9, <1>10, <1>11, <1>12, <1>13,
       <1>14, <1>15, <1>16, <1>17, <1>18, <1>19, <1>20, <1>21, <1>22, <1>23, <1>24, <1>25,
       <1>26, <1>27, <1>28, <1>29, <1>30, <1>31, <1>32, <1>33, <1>34, <1>35, <1>36, <1>37,
       <1>38, <1>39, <1>40, <1>41, <1>42, <1>43, <1>44, <1>45, <1>46, <1>47, <1>48, <1>49
       DEF Proceeds, Invokes

-----------------------------------------------------------------------------
(***************************************************************************)
(* Conservation.  Kept(e) says of an event that it is in one thread's or   *)
(* the machine's hands, once, if it is open, and in nobody's if it is not. *)
(* Actions hand events on.                                                 *)
(***************************************************************************)

\* S has at most one member.
Lone(S) == \A i, j \in S : i = j

\* Event e is in queue q, and in one place of it only.
Queued(e, q) == At(e, q.completion) # {} \/ At(e, q.regular) # {}

QueuedOnce(e, q) ==
  /\ Lone(At(e, q.completion)) /\ Lone(At(e, q.regular))
  /\ At(e, q.completion) = {} \/ At(e, q.regular) = {}

\* The records of e in a list.
RecordsOf(e, s) == {i \in DOMAIN s : s[i].event = e}

\* Where an event may be: in the hands of thread u, in the machine's, or nowhere.
Keepers == {"held", "popped", "carry", "local", "queue", "pending", "nowhere"}

\* Event e is in the k of u and nowhere else.
OnlyIn(e, k, u) ==
  /\ k \in {"held", "popped", "carry", "local"} => u \in Threads
  /\ \A v \in Threads : held[v] = e <=> k = "held" /\ v = u
  /\ \A v \in Threads : popped[v] = e <=> k = "popped" /\ v = u
  /\ \A v \in Threads : At(e, carry[v]) # {} <=> k = "carry" /\ v = u
  /\ \A v \in Threads :
       pc[v] \notin Pushed /\ RecordsOf(e, local[v]) # {} <=> k = "local" /\ v = u
  /\ Queued(e, queue) <=> k = "queue"
  /\ At(e, pendingReentrant) # {} <=> k = "pending"

\* And is there once.
Single(e) ==
  /\ QueuedOnce(e, queue) /\ Lone(At(e, pendingReentrant))
  /\ \A u \in Threads : Lone(At(e, carry[u]))
  /\ \A u \in Threads : pc[u] \notin Pushed => Lone(RecordsOf(e, local[u]))

Kept(e) ==
  /\ Single(e)
  /\ \E k \in Keepers : \E u : OnlyIn(e, k, u) /\ (fate[e] = "open" <=> k # "nowhere")

\* Where an event is added at the end of a sequence.
LEMMA AtAppend ==
  ASSUME NEW E, NEW s \in Seq(E), NEW x \in E, NEW e
  PROVE  At(e, Append(s, x)) = IF x = e THEN At(e, s) \cup {Len(s) + 1} ELSE At(e, s)
BY DEF At

\* push_with_context puts an event at one end and moves no other.
LEMMA PushIn ==
  ASSUME NEW E, NEW q \in QueueOf(E), NEW x \in E, NEW e
  PROVE  /\ x # e => /\ Queued(e, Push(q, x)) <=> Queued(e, q)
                     /\ QueuedOnce(e, Push(q, x)) <=> QueuedOnce(e, q)
         /\ x = e /\ ~Queued(e, q) => Queued(e, Push(q, x)) /\ QueuedOnce(e, Push(q, x))
<1>1. q.completion \in Seq(E) /\ q.regular \in Seq(E)
  BY DEF QueueOf
<1>2. Push(q, x).completion = IF x \in Completions THEN Append(q.completion, x) ELSE q.completion
  BY DEF Push, QueueOf
<1>3. Push(q, x).regular = IF x \in Completions THEN q.regular ELSE Append(q.regular, x)
  BY DEF Push, QueueOf
<1>4. CASE x # e
  BY <1>1, <1>2, <1>3, <1>4, AtAppend DEF Queued, QueuedOnce
<1>5. CASE x = e
  <2>1. CASE e \in Completions
    <3>1. At(e, Push(q, x).completion) = At(e, q.completion) \cup {Len(q.completion) + 1}
      BY <1>1, <1>2, <1>5, <2>1, AtAppend
    <3>2. QED BY <1>3, <1>5, <2>1, <3>1 DEF Queued, QueuedOnce, Lone
  <2>2. CASE e \notin Completions
    <3>1. At(e, Push(q, x).regular) = At(e, q.regular) \cup {Len(q.regular) + 1}
      BY <1>1, <1>3, <1>5, <2>2, AtAppend
    <3>2. QED BY <1>2, <1>5, <2>2, <3>1 DEF Queued, QueuedOnce, Lone
  <2>3. QED BY <2>1, <2>2
<1>6. QED BY <1>4, <1>5

\* pop_with_context takes the front away and nothing else.
LEMMA RestIn ==
  ASSUME NEW E, NEW q \in QueueOf(E), q # EmptyQueue, NEW e, QueuedOnce(e, q)
  PROVE  /\ Front(q) = e => Queued(e, q) /\ ~Queued(e, Rest(q))
         /\ Front(q) # e => (Queued(e, Rest(q)) <=> Queued(e, q))
         /\ QueuedOnce(e, Rest(q))
<1>1. q.completion \in Seq(E) /\ q.regular \in Seq(E)
  BY DEF QueueOf
<1>2. CASE q.completion # <<>>
  <2> DEFINE n == Len(q.completion)
  <2>1. Rest(q).completion = SubSeq(q.completion, 1, n - 1) /\ Rest(q).regular = q.regular
    BY <1>2 DEF Rest, QueueOf
  <2>2. At(e, SubSeq(q.completion, 1, n - 1)) = At(e, q.completion) \ {n}
    BY <1>1, <1>2 DEF At
  <2>3. n \in DOMAIN q.completion
    BY <1>1, <1>2
  <2>4. Front(q) = e <=> n \in At(e, q.completion)
    BY <1>2, <2>3 DEF Front, At
  <2> HIDE DEF n
  <2>5. QED BY <2>1, <2>2, <2>4 DEF Queued, QueuedOnce, Lone
<1>3. CASE q.completion = <<>>
  <2>1. q.regular # <<>>
    BY <1>3 DEF QueueOf, EmptyQueue
  <2>2. Rest(q).regular = Tail(q.regular) /\ Rest(q).completion = q.completion
    BY <1>3 DEF Rest, QueueOf
  <2>3. \A i : i \in At(e, Tail(q.regular)) <=> i \in Nat \ {0} /\ i + 1 \in At(e, q.regular)
    BY <1>1, <2>1 DEF At
  <2>4. 1 \in DOMAIN q.regular /\ Front(q) = q.regular[1]
    BY <1>1, <1>3, <2>1 DEF Front
  <2>5. Front(q) = e <=> 1 \in At(e, q.regular)
    BY <2>4 DEF At
  <2>6. At(e, q.completion) = {} /\ \A i \in At(e, q.regular) : i \in Nat \ {0}
    BY <1>1, <1>3 DEF At
  <2>7. \A i, j \in At(e, q.regular) : i = j
    BY DEF QueuedOnce, Lone
  <2>8. \A i \in At(e, q.regular) : i # 1 => i - 1 \in At(e, Tail(q.regular))
    BY <2>3, <2>6
  <2>9. \A i, j \in At(e, Tail(q.regular)) : i = j
    BY <2>3, <2>7
  <2>10. Front(q) = e => At(e, q.regular) # {} /\ At(e, Tail(q.regular)) = {}
    BY <2>3, <2>5, <2>7
  <2>11. Front(q) # e => (At(e, q.regular) # {} <=> At(e, Tail(q.regular)) # {})
    BY <2>3, <2>5, <2>8
  <2>12. QED BY <2>2, <2>6, <2>9, <2>10, <2>11 DEF Queued, QueuedOnce, Lone
<1>4. QED BY <1>2, <1>3

\* A filter keeps what is in T where it was at all, and as often.
LEMMA FilterAt ==
  ASSUME NEW E, NEW s \in Seq(E), NEW T, NEW e
  PROVE  /\ At(e, Filter(s, T)) # {} <=> e \in T /\ At(e, s) # {}
         /\ Lone(At(e, s)) => Lone(At(e, Filter(s, T)))
<1>1. PICK m : Picks(m, Filter(s, T), s, T, Len(s))
  BY FilterPicks
<1>2. Filter(s, T) \in Seq(E)
  BY FilterType
<1>3. \A i : i \in At(e, s) <=> i \in 1 .. Len(s) /\ s[i] = e
  BY DEF At
<1>4. \A i : i \in At(e, Filter(s, T)) <=> i \in 1 .. Len(Filter(s, T)) /\ Filter(s, T)[i] = e
  BY <1>2 DEF At
<1>5. \A i \in At(e, Filter(s, T)) : m[i] \in At(e, s) /\ e \in T
  BY <1>1, <1>3, <1>4 DEF Picks
<1>6. ASSUME e \in T, NEW j \in At(e, s) PROVE At(e, Filter(s, T)) # {}
  <2>1. PICK i \in 1 .. Len(Filter(s, T)) : m[i] = j
    BY <1>1, <1>3, <1>6 DEF Picks
  <2>2. i \in At(e, Filter(s, T))
    BY <1>1, <1>3, <1>4, <1>6, <2>1 DEF Picks
  <2>3. QED BY <2>2
<1>7. ASSUME Lone(At(e, s)), NEW i \in At(e, Filter(s, T)), NEW j \in At(e, Filter(s, T))
      PROVE  i = j
  <2>1. m[i] = m[j]
    BY <1>5, <1>7 DEF Lone
  <2>2. QED BY <1>1, <1>4, <2>1 DEF Picks
<1>8. QED BY <1>5, <1>6, <1>7 DEF Lone

\* The same of records, and of the event they are about: all records of e must
\* have been one for one to be left.
LEMMA FilterRecords ==
  ASSUME NEW E, NEW s \in Seq(E), NEW T, NEW e, Lone(RecordsOf(e, s))
  PROVE  /\ RecordsOf(e, Filter(s, T)) # {} <=> \E r \in Elements(s) : r \in T /\ r.event = e
         /\ Lone(RecordsOf(e, Filter(s, T)))
<1>1. PICK m : Picks(m, Filter(s, T), s, T, Len(s))
  BY FilterPicks
<1>2. Filter(s, T) \in Seq(E)
  BY FilterType
<1>3. \A i : i \in RecordsOf(e, s) <=> i \in 1 .. Len(s) /\ s[i].event = e
  BY DEF RecordsOf
<1>4. \A i : i \in RecordsOf(e, Filter(s, T)) <=>
              i \in 1 .. Len(Filter(s, T)) /\ Filter(s, T)[i].event = e
  BY <1>2 DEF RecordsOf
<1>5. \A i \in RecordsOf(e, Filter(s, T)) : m[i] \in RecordsOf(e, s) /\ s[m[i]] \in T
  BY <1>1, <1>3, <1>4 DEF Picks
<1>6. ASSUME NEW j \in RecordsOf(e, s), s[j] \in T PROVE RecordsOf(e, Filter(s, T)) # {}
  <2>1. PICK i \in 1 .. Len(Filter(s, T)) : m[i] = j
    BY <1>1, <1>3, <1>6 DEF Picks
  <2>2. i \in RecordsOf(e, Filter(s, T))
    BY <1>1, <1>3, <1>4, <1>6, <2>1 DEF Picks
  <2>3. QED BY <2>2
<1>7. ASSUME NEW i \in RecordsOf(e, Filter(s, T)), NEW j \in RecordsOf(e, Filter(s, T))
      PROVE  i = j
  <2>1. m[i] = m[j]
    BY <1>5, <1>7 DEF Lone
  <2>2. QED BY <1>1, <1>4, <2>1 DEF Picks
<1>8. \A r : r \in Elements(s) <=> \E j \in 1 .. Len(s) : r = s[j]
  BY DEF Elements
<1>9. QED BY <1>3, <1>5, <1>6, <1>7, <1>8 DEF Lone

\* Where the events of two sequences are.
LEMMA AtConcat ==
  ASSUME NEW E, NEW r \in Seq(E), NEW s \in Seq(E), NEW e
  PROVE  \A i : i \in At(e, r \o s) <=>
                  i \in At(e, r) \/ (i \in Nat /\ i - Len(r) \in At(e, s))
BY DEF At

\* Sequences put one after the other keep what each had.
LEMMA OnceConcat ==
  ASSUME NEW E, NEW r \in Seq(E), NEW s \in Seq(E), NEW e
  PROVE  /\ At(e, r \o s) = {} <=> At(e, r) = {} /\ At(e, s) = {}
         /\ At(e, s) = {} /\ Lone(At(e, r)) => Lone(At(e, r \o s))
         /\ At(e, r) = {} /\ Lone(At(e, s)) => Lone(At(e, r \o s))
<1>1. \A i : i \in At(e, r \o s) <=>
               i \in At(e, r) \/ (i \in Nat /\ i - Len(r) \in At(e, s))
  BY AtConcat
<1>2. Len(r) \in Nat /\ (\A i \in At(e, r) : i \in Nat) /\ (\A i \in At(e, s) : i \in Nat)
  BY DEF At
<1>3. \A i \in At(e, s) : i + Len(r) \in At(e, r \o s)
  BY <1>1, <1>2
<1>4. At(e, r \o s) = {} <=> At(e, r) = {} /\ At(e, s) = {}
  BY <1>1, <1>3
<1>5. ASSUME At(e, s) = {}, Lone(At(e, r)) PROVE Lone(At(e, r \o s))
  BY <1>1, <1>5 DEF Lone
<1>6. ASSUME At(e, r) = {}, Lone(At(e, s)) PROVE Lone(At(e, r \o s))
  <2>1. SUFFICES ASSUME NEW i \in At(e, r \o s), NEW j \in At(e, r \o s) PROVE i = j
    BY DEF Lone
  <2>2. i \in Nat /\ j \in Nat /\ i - Len(r) \in At(e, s) /\ j - Len(r) \in At(e, s)
    BY <1>1, <1>6
  <2>3. i - Len(r) = j - Len(r)
    BY <1>6, <2>2 DEF Lone
  <2>4. QED BY <1>2, <2>2, <2>3
<1>7. QED BY <1>4, <1>5, <1>6

\* Pushing a sequence puts each of its events in one half and moves no other.
LEMMA PushAllIn ==
  ASSUME NEW E, NEW q \in QueueOf(E), NEW s \in Seq(E), NEW e \in E
  PROVE  /\ Queued(e, PushAll(q, E, s)) <=> Queued(e, q) \/ At(e, s) # {}
         /\ At(e, s) = {} /\ QueuedOnce(e, q) => QueuedOnce(e, PushAll(q, E, s))
         /\ ~Queued(e, q) /\ Lone(At(e, s)) => QueuedOnce(e, PushAll(q, E, s))
<1> DEFINE c == Filter(s, Completions)
           r == Filter(s, E \ Completions)
<1>1. q.completion \in Seq(E) /\ q.regular \in Seq(E)
  BY DEF QueueOf
<1>2. c \in Seq(E) /\ r \in Seq(E)
  BY FilterType
<1>3. /\ PushAll(q, E, s).completion = q.completion \o c
      /\ PushAll(q, E, s).regular = q.regular \o r
  BY DEF PushAll
<1>4. /\ At(e, c) # {} <=> e \in Completions /\ At(e, s) # {}
      /\ Lone(At(e, s)) => Lone(At(e, c))
  BY FilterAt
<1>5. /\ At(e, r) # {} <=> e \in E \ Completions /\ At(e, s) # {}
      /\ Lone(At(e, s)) => Lone(At(e, r))
  BY FilterAt
<1> HIDE DEF c, r
<1>6. /\ At(e, q.completion \o c) = {} <=> At(e, q.completion) = {} /\ At(e, c) = {}
      /\ At(e, c) = {} /\ Lone(At(e, q.completion)) => Lone(At(e, q.completion \o c))
      /\ At(e, q.completion) = {} /\ Lone(At(e, c)) => Lone(At(e, q.completion \o c))
  BY <1>1, <1>2, OnceConcat
<1>7. /\ At(e, q.regular \o r) = {} <=> At(e, q.regular) = {} /\ At(e, r) = {}
      /\ At(e, r) = {} /\ Lone(At(e, q.regular)) => Lone(At(e, q.regular \o r))
      /\ At(e, q.regular) = {} /\ Lone(At(e, r)) => Lone(At(e, q.regular \o r))
  BY <1>1, <1>2, OnceConcat
<1>8. QED BY ONLY <1>3, <1>4, <1>5, <1>6, <1>7, e \in E DEF Queued, QueuedOnce

-----------------------------------------------------------------------------
(***************************************************************************)
(* Every step hands each event on or lets it be.                           *)
(***************************************************************************)

\* An event that is handed on from the k of u to the l of w.
LEMMA HandedOn ==
  ASSUME NEW e, NEW k \in Keepers, NEW u, fate'[e] = "open" <=> k # "nowhere",
         Single(e)', OnlyIn(e, k, u)'
  PROVE  Kept(e)'
BY DEF Kept

\* An event that nothing happens to.
LEMMA LetBe ==
  ASSUME NEW e, Kept(e), fate'[e] = fate[e], Single(e)',
         \A k, u : OnlyIn(e, k, u) => OnlyIn(e, k, u)'
  PROVE  Kept(e)'
BY DEF Kept

\* A step that touches no event.
LEMMA Still ==
  ASSUME UNCHANGED <<queue, pendingReentrant, held, popped, local, carry, fate>>,
         \A u \in Threads : pc'[u] \in Pushed <=> pc[u] \in Pushed,
         NEW e, Kept(e)
  PROVE  Kept(e)'
<1>1. Single(e)'
  BY DEF Kept, Single
<1>2. \A k, u : OnlyIn(e, k, u) => OnlyIn(e, k, u)'
  BY DEF OnlyIn
<1>3. QED BY <1>1, <1>2, LetBe

\* An event that is not open is nowhere.
LEMMA IsNowhere ==
  ASSUME NEW e, Kept(e), fate[e] # "open"
  PROVE  Single(e) /\ \A t : OnlyIn(e, "nowhere", t)
BY DEF Kept, OnlyIn

\* An event that is somewhere is nowhere else.
LEMMA IsHeld ==
  ASSUME NEW e, Kept(e), NEW t \in Threads, held[t] = e
  PROVE  Single(e) /\ OnlyIn(e, "held", t) /\ fate[e] = "open"
BY DEF Kept, OnlyIn

\* So with one the drain has popped,
LEMMA IsPopped ==
  ASSUME NEW e, Kept(e), NEW t \in Threads, popped[t] = e
  PROVE  Single(e) /\ OnlyIn(e, "popped", t) /\ fate[e] = "open"
BY DEF Kept, OnlyIn

\* one a flush has taken,
LEMMA IsCarried ==
  ASSUME NEW e, Kept(e), NEW t \in Threads, At(e, carry[t]) # {}
  PROVE  Single(e) /\ OnlyIn(e, "carry", t) /\ fate[e] = "open"
BY DEF Kept, OnlyIn

\* one the drain has deferred and not yet put back,
LEMMA IsLocal ==
  ASSUME NEW e, Kept(e), NEW t \in Threads, pc[t] \notin Pushed, RecordsOf(e, local[t]) # {}
  PROVE  Single(e) /\ OnlyIn(e, "local", t) /\ fate[e] = "open"
BY DEF Kept, OnlyIn

\* one in the queue,
LEMMA IsQueued ==
  ASSUME NEW e, Kept(e), NEW t \in Threads, Queued(e, queue)
  PROVE  Single(e) /\ OnlyIn(e, "queue", t) /\ fate[e] = "open"
BY DEF Kept, OnlyIn

\* and one set aside.
LEMMA IsPending ==
  ASSUME NEW e, Kept(e), NEW t \in Threads, At(e, pendingReentrant) # {}
  PROVE  Single(e) /\ OnlyIn(e, "pending", t) /\ fate[e] = "open"
BY DEF Kept, OnlyIn

\* A thread takes up an event nobody has sent yet.
LEMMA TakesUp ==
  ASSUME TypeInv, NEW t \in Threads, NEW x \in Unsent(Events), held[t] = None,
         held' = [held EXCEPT ![t] = x],
         Settle({x}, "open"), UNCHANGED <<queue, pendingReentrant, popped, local, carry>>,
         \A u \in Threads : pc'[u] \in Pushed <=> pc[u] \in Pushed,
         NEW e \in Events, Kept(e)
  PROVE  Kept(e)'
<1>1. fate' = [f \in Events |-> IF f = x THEN "open" ELSE fate[f]]
  BY DEF Settle
<1>2. e # None
  BY RuntimeAssumption DEF AllEvents
<1>3. Single(e)'
  BY DEF Kept, Single
<1>4. CASE e = x
  <2>1. OnlyIn(e, "nowhere", t)
    BY <1>4, IsNowhere DEF Unsent
  <2>2. OnlyIn(e, "held", t)'
    BY <1>4, <2>1 DEF OnlyIn, TypeInv, TypeOK
  <2>3. QED BY <1>1, <1>3, <1>4, <2>2, HandedOn DEF Keepers
<1>5. CASE e # x
  <2>1. \A k, u : OnlyIn(e, k, u) => OnlyIn(e, k, u)'
    BY <1>2, <1>5 DEF OnlyIn, TypeInv, TypeOK
  <2>2. QED BY <1>1, <1>3, <1>5, <2>1, LetBe
<1>6. QED BY <1>4, <1>5

\* A thread gives up the event it was called with.
LEMMA GivesUp ==
  ASSUME TypeInv, NEW t \in Threads, NEW f, f # "open",
         held' = [held EXCEPT ![t] = None],
         Settle({held[t]}, f), UNCHANGED <<queue, pendingReentrant, popped, local, carry>>,
         \A u \in Threads : pc'[u] \in Pushed <=> pc[u] \in Pushed,
         NEW e \in Events, Kept(e)
  PROVE  Kept(e)'
<1>1. fate' = [g \in Events |-> IF g = held[t] THEN f ELSE fate[g]]
  BY DEF Settle
<1>2. e # None
  BY RuntimeAssumption DEF AllEvents
<1>3. Single(e)'
  BY DEF Kept, Single
<1>4. CASE e = held[t]
  <2>1. OnlyIn(e, "held", t)
    BY <1>4, IsHeld
  <2>2. OnlyIn(e, "nowhere", t)'
    BY <1>2, <1>4, <2>1 DEF OnlyIn, TypeInv, TypeOK
  <2>3. QED BY <1>1, <1>3, <1>4, <2>2, HandedOn DEF Keepers
<1>5. CASE e # held[t]
  <2>1. \A k, u : OnlyIn(e, k, u) => OnlyIn(e, k, u)'
    BY <1>2, <1>5 DEF OnlyIn, TypeInv, TypeOK
  <2>2. QED BY <1>1, <1>3, <1>5, <2>1, LetBe
<1>6. QED BY <1>4, <1>5

\* An event nobody has sent yet is set aside for the end of the running event.
LEMMA SetsAside ==
  ASSUME TypeInv, NEW t \in Threads, NEW x \in Unsent(Events),
         pendingReentrant' = Append(pendingReentrant, x),
         Settle({x}, "open"), UNCHANGED <<queue, held, popped, local, carry, pc>>,
         NEW e \in Events, Kept(e)
  PROVE  Kept(e)'
<1>1. fate' = [f \in Events |-> IF f = x THEN "open" ELSE fate[f]]
  BY DEF Settle
<1>2. x \in Events /\ pendingReentrant \in Seq(Events)
  BY DEF Unsent, TypeInv, TypeOK
<1>3. At(e, pendingReentrant') =
        IF x = e THEN At(e, pendingReentrant) \cup {Len(pendingReentrant) + 1}
        ELSE At(e, pendingReentrant)
  BY <1>2, AtAppend
<1>4. CASE e = x
  <2>1. OnlyIn(e, "nowhere", t) /\ Single(e)
    BY <1>4, IsNowhere DEF Unsent
  <2>2. Single(e)'
    BY <1>3, <1>4, <2>1 DEF Single, OnlyIn, Lone
  <2>3. OnlyIn(e, "pending", t)'
    BY <1>3, <1>4, <2>1 DEF OnlyIn
  <2>4. QED BY <1>1, <1>4, <2>2, <2>3, HandedOn DEF Keepers
<1>5. CASE e # x
  <2>1. Single(e)'
    BY <1>3, <1>5 DEF Kept, Single
  <2>2. \A k, u : OnlyIn(e, k, u) => OnlyIn(e, k, u)'
    BY <1>3, <1>5 DEF OnlyIn
  <2>3. QED BY <1>1, <1>5, <2>1, <2>2, LetBe
<1>6. QED BY <1>4, <1>5

\* An event nobody has sent yet is queued.
LEMMA Queues ==
  ASSUME TypeInv, NEW t \in Threads, NEW x \in Unsent(Events),
         queue' = Push(queue, x),
         Settle({x}, "open"), UNCHANGED <<pendingReentrant, held, popped, local, carry, pc>>,
         NEW e \in Events, Kept(e)
  PROVE  Kept(e)'
<1>1. fate' = [f \in Events |-> IF f = x THEN "open" ELSE fate[f]]
  BY DEF Settle
<1>2. x \in AllEvents /\ queue \in QueueOf(AllEvents)
  BY DEF Unsent, AllEvents, TypeInv, TypeOK
<1>3. CASE e = x
  <2>1. OnlyIn(e, "nowhere", t) /\ Single(e)
    BY <1>3, IsNowhere DEF Unsent
  <2>2. Queued(e, queue') /\ QueuedOnce(e, queue')
    BY <1>2, <1>3, <2>1, PushIn DEF OnlyIn
  <2>3. Single(e)'
    BY <2>1, <2>2 DEF Single
  <2>4. OnlyIn(e, "queue", t)'
    BY <2>1, <2>2 DEF OnlyIn
  <2>5. QED BY <1>1, <1>3, <2>3, <2>4, HandedOn DEF Keepers
<1>4. CASE e # x
  <2>1. /\ Queued(e, queue') <=> Queued(e, queue)
        /\ QueuedOnce(e, queue') <=> QueuedOnce(e, queue)
    BY <1>2, <1>4, PushIn
  <2>2. Single(e)'
    BY <2>1 DEF Kept, Single
  <2>3. \A k, u : OnlyIn(e, k, u) => OnlyIn(e, k, u)'
    BY <2>1 DEF OnlyIn
  <2>4. QED BY <1>1, <1>4, <2>2, <2>3, LetBe
<1>5. QED BY <1>3, <1>4

\* The event being processed is settled.
LEMMA Finishes ==
  ASSUME TypeInv, NEW t \in Threads, NEW f, f # "open",
         popped' = [popped EXCEPT ![t] = None],
         Settle({popped[t]}, f), UNCHANGED <<queue, pendingReentrant, held, local, carry>>,
         \A u \in Threads : pc'[u] \in Pushed <=> pc[u] \in Pushed,
         NEW e \in Events, Kept(e)
  PROVE  Kept(e)'
<1>1. fate' = [g \in Events |-> IF g = popped[t] THEN f ELSE fate[g]]
  BY DEF Settle
<1>2. e # None
  BY RuntimeAssumption DEF AllEvents
<1>3. Single(e)'
  BY DEF Kept, Single
<1>4. CASE e = popped[t]
  <2>1. OnlyIn(e, "popped", t)
    BY <1>4, IsPopped
  <2>2. OnlyIn(e, "nowhere", t)'
    BY <1>2, <1>4, <2>1 DEF OnlyIn, TypeInv, TypeOK
  <2>3. QED BY <1>1, <1>3, <1>4, <2>2, HandedOn DEF Keepers
<1>5. CASE e # popped[t]
  <2>1. \A k, u : OnlyIn(e, k, u) => OnlyIn(e, k, u)'
    BY <1>2, <1>5 DEF OnlyIn, TypeInv, TypeOK
  <2>2. QED BY <1>1, <1>3, <1>5, <2>1, LetBe
<1>6. QED BY <1>4, <1>5

\* The event being processed is deferred, with the record r of it.
LEMMA DefersIt ==
  ASSUME TypeInv, NEW t \in Threads, pc[t] \notin Pushed, NEW r \in Record,
         r.event = popped[t],
         popped' = [popped EXCEPT ![t] = None],
         local' = [local EXCEPT ![t] = Append(@, r)],
         UNCHANGED <<queue, pendingReentrant, held, fate, carry>>,
         \A u \in Threads : pc'[u] \in Pushed <=> pc[u] \in Pushed,
         NEW e \in Events, Kept(e)
  PROVE  Kept(e)'
<1>1. e # None
  BY RuntimeAssumption DEF AllEvents
<1>2. local[t] \in Seq(Record) /\ local'[t] = Append(local[t], r)
  BY DEF TypeInv, TypeOK
<1>3. RecordsOf(e, local'[t]) = IF e = popped[t]
                                THEN RecordsOf(e, local[t]) \cup {Len(local[t]) + 1}
                                ELSE RecordsOf(e, local[t])
  BY <1>2 DEF RecordsOf
<1>4. \A u \in Threads : u # t => local'[u] = local[u] /\ popped'[u] = popped[u]
  BY DEF TypeInv, TypeOK
<1>5. popped'[t] = None
  BY DEF TypeInv, TypeOK
<1>6. CASE e = popped[t]
  <2>1. OnlyIn(e, "popped", t) /\ Single(e) /\ fate[e] = "open"
    BY <1>6, IsPopped
  <2>2. RecordsOf(e, local'[t]) = {Len(local[t]) + 1}
    BY <1>3, <1>6, <2>1 DEF OnlyIn
  <2>3. Single(e)'
    BY <1>4, <2>1, <2>2 DEF Single, Lone
  <2>4. OnlyIn(e, "local", t)'
    BY <1>1, <1>4, <1>5, <2>1, <2>2 DEF OnlyIn
  <2>5. QED BY <2>1, <2>3, <2>4, HandedOn DEF Keepers
<1>7. CASE e # popped[t]
  <2>1. Single(e)'
    BY <1>3, <1>4, <1>7 DEF Kept, Single
  <2>2. \A v \in Threads : popped'[v] = e <=> popped[v] = e
    BY <1>1, <1>4, <1>5, <1>7
  <2>3. \A v \in Threads : RecordsOf(e, local'[v]) = RecordsOf(e, local[v])
    BY <1>3, <1>4, <1>7
  <2>4. ASSUME NEW k, NEW u, OnlyIn(e, k, u) PROVE OnlyIn(e, k, u)'
    BY <2>2, <2>3, <2>4 DEF OnlyIn
  <2>5. QED BY <2>1, <2>4, LetBe
<1>8. QED BY <1>6, <1>7

\* What the drain had deferred is settled with the event it processes, and
\* perhaps with the event of the call it was in.
LEMMA Discards ==
  ASSUME TypeInv, NEW t \in Threads, pc[t] \notin Pushed, NEW f, f # "open",
         popped' = [popped EXCEPT ![t] = None],
         local' = [local EXCEPT ![t] = <<>>],
         NEW h \in {held[t], None}, held' = [held EXCEPT ![t] = h],
         NEW e \in Events, Kept(e), NEW D, Settle(D, f),
         e \in D <=> \/ e = popped[t] \/ RecordsOf(e, local[t]) # {}
                     \/ e = held[t] /\ h = None,
         UNCHANGED <<queue, pendingReentrant, carry>>,
         \A u \in Threads : pc'[u] \in Pushed <=> pc[u] \in Pushed
  PROVE  Kept(e)'
<1>1. e # None
  BY RuntimeAssumption DEF AllEvents
<1>2. \A u \in Threads :
        u # t => local'[u] = local[u] /\ popped'[u] = popped[u] /\ held'[u] = held[u]
  BY DEF TypeInv, TypeOK
<1>3. popped'[t] = None /\ held'[t] = h /\ local'[t] = <<>> /\ RecordsOf(e, local'[t]) = {}
  BY DEF TypeInv, TypeOK, RecordsOf
<1>4. Single(e)'
  BY <1>2, <1>3 DEF Kept, Single, Lone
<1>5. fate'[e] = IF e \in D THEN f ELSE fate[e]
  BY DEF Settle
<1>6. CASE e \in D
  <2>1. CASE e = popped[t]
    <3>1. OnlyIn(e, "popped", t)
      BY <2>1, IsPopped
    <3>2. h # e /\ \A v \in Threads : held[v] # e
      BY <1>1, <3>1 DEF OnlyIn
    <3>3. OnlyIn(e, "nowhere", t)'
      BY <1>1, <1>2, <1>3, <3>1, <3>2 DEF OnlyIn
    <3>4. QED BY <1>4, <1>5, <1>6, <3>3, HandedOn DEF Keepers
  <2>2. CASE RecordsOf(e, local[t]) # {}
    <3>1. OnlyIn(e, "local", t)
      BY <2>2, IsLocal
    <3>2. h # e /\ \A v \in Threads : held[v] # e /\ popped[v] # e
      BY <1>1, <3>1 DEF OnlyIn
    <3>3. OnlyIn(e, "nowhere", t)'
      BY <1>1, <1>2, <1>3, <3>1, <3>2 DEF OnlyIn
    <3>4. QED BY <1>4, <1>5, <1>6, <3>3, HandedOn DEF Keepers
  <2>3. CASE e = held[t] /\ h = None
    <3>1. OnlyIn(e, "held", t)
      BY <2>3, IsHeld
    <3>2. OnlyIn(e, "nowhere", t)'
      BY <1>1, <1>2, <1>3, <2>3, <3>1 DEF OnlyIn
    <3>3. QED BY <1>4, <1>5, <1>6, <3>2, HandedOn DEF Keepers
  <2>4. QED BY <1>6, <2>1, <2>2, <2>3
<1>7. CASE e \notin D
  <2>1. /\ held'[t] = e <=> held[t] = e
        /\ popped[t] # e /\ RecordsOf(e, local[t]) = {}
    BY <1>1, <1>3, <1>7
  <2>2. \A v \in Threads : /\ held'[v] = e <=> held[v] = e
                           /\ popped'[v] = e <=> popped[v] = e
    BY <1>1, <1>2, <1>3, <2>1
  <2>3. \A v \in Threads : RecordsOf(e, local'[v]) # {} <=> RecordsOf(e, local[v]) # {}
    BY <1>2, <1>3, <2>1
  <2>4. Queued(e, queue)' <=> Queued(e, queue)
    OBVIOUS
  <2>5. ASSUME NEW k, NEW u, OnlyIn(e, k, u) PROVE OnlyIn(e, k, u)'
    <3>1. \A v \in Threads : held'[v] = e <=> k = "held" /\ v = u
      BY <2>2, <2>5 DEF OnlyIn
    <3>2. \A v \in Threads : popped'[v] = e <=> k = "popped" /\ v = u
      BY <2>2, <2>5 DEF OnlyIn
    <3>3. \A v \in Threads : pc'[v] \notin Pushed /\ RecordsOf(e, local'[v]) # {}
                             <=> k = "local" /\ v = u
      BY <2>3, <2>5 DEF OnlyIn
    <3>4. QED BY <2>4, <2>5, <3>1, <3>2, <3>3 DEF OnlyIn
  <2>6. QED BY <1>4, <1>5, <1>7, <2>5, LetBe
<1>8. QED BY <1>6, <1>7

\* A caller's event is queued.
LEMMA PushHeldKeeps ==
  ASSUME TypeInv, NEW t \in Threads, PushHeld(t), NEW e \in Events, Kept(e)
  PROVE  Kept(e)'
<1>1. /\ held' = [held EXCEPT ![t] = None] /\ pc' = [pc EXCEPT ![t] = "drain"]
      /\ queue' = Push(queue, held[t]) /\ pc[t] = "push"
      /\ UNCHANGED <<fate, pendingReentrant, popped, local, carry>>
  BY DEF PushHeld, Goto
<1>2. e # None /\ held[t] \in AllEvents /\ queue \in QueueOf(AllEvents)
  BY <1>1, RuntimeAssumption DEF AllEvents, TypeInv, TypeOK, Loaded
<1>3. CASE e = held[t]
  <2>1. OnlyIn(e, "held", t) /\ Single(e) /\ fate[e] = "open"
    BY <1>3, IsHeld
  <2>2. Queued(e, queue') /\ QueuedOnce(e, queue')
    BY <1>1, <1>2, <1>3, <2>1, PushIn DEF OnlyIn
  <2>3. Single(e)'
    BY <1>1, <2>1, <2>2 DEF Single, TypeInv, TypeOK, Pushed
  <2>4. OnlyIn(e, "queue", t)'
    BY <1>1, <1>2, <2>1, <2>2 DEF OnlyIn, TypeInv, TypeOK, Pushed
  <2>5. QED BY <1>1, <2>1, <2>3, <2>4, HandedOn DEF Keepers
<1>4. CASE e # held[t]
  <2>1. /\ Queued(e, queue') <=> Queued(e, queue)
        /\ QueuedOnce(e, queue') <=> QueuedOnce(e, queue)
    BY <1>1, <1>2, <1>4, PushIn
  <2>2. Single(e)'
    BY <1>1, <2>1 DEF Kept, Single, TypeInv, TypeOK, Pushed
  <2>3. \A k, u : OnlyIn(e, k, u) => OnlyIn(e, k, u)'
    BY <1>1, <1>2, <1>4, <2>1 DEF OnlyIn, TypeInv, TypeOK, Pushed
  <2>4. QED BY <1>1, <2>2, <2>3, LetBe
<1>5. QED BY <1>3, <1>4

\* pop_with_context hands the front of the queue to the drain.
LEMMA PopKeeps ==
  ASSUME TypeInv, NEW t \in Threads, Hands(t), Pop(t), NEW e \in Events, Kept(e)
  PROVE  Kept(e)'
<1>1. pc[t] = "pop" /\ UNCHANGED <<fate, pendingReentrant, held, local, carry>>
  BY DEF Pop
<1>2. CASE queue = EmptyQueue
  <2>1. pc' = [pc EXCEPT ![t] = "requeueAll"] /\ UNCHANGED <<queue, popped>>
    BY <1>2 DEF Pop, Goto
  <2>2. QED BY <1>1, <2>1, Still DEF TypeInv, TypeOK, Pushed
<1>3. CASE queue # EmptyQueue
  <2>1. /\ popped' = [popped EXCEPT ![t] = Front(queue)] /\ queue' = Rest(queue)
        /\ pc' = [pc EXCEPT ![t] = "match"]
    BY <1>3 DEF Pop, Goto
  <2>2. popped[t] = None /\ e # None /\ queue \in QueueOf(AllEvents) /\ QueuedOnce(e, queue)
    BY <1>1, RuntimeAssumption DEF Hands, Processing, TypeInv, TypeOK, AllEvents, Kept, Single
  <2>3. Single(e)'
    BY <1>1, <1>3, <2>1, <2>2, RestIn DEF Kept, Single, TypeInv, TypeOK, Pushed
  <2>4. CASE Front(queue) = e
    <3>1. Queued(e, queue) /\ ~Queued(e, queue')
      BY <1>3, <2>1, <2>2, <2>4, RestIn
    <3>2. OnlyIn(e, "queue", t) /\ fate[e] = "open"
      BY <3>1, IsQueued
    <3>3. OnlyIn(e, "popped", t)'
      BY <1>1, <2>1, <2>4, <3>1, <3>2 DEF OnlyIn, TypeInv, TypeOK, Pushed
    <3>4. QED BY <1>1, <2>3, <3>2, <3>3, HandedOn DEF Keepers
  <2>5. CASE Front(queue) # e
    <3>1. Queued(e, queue') <=> Queued(e, queue)
      BY <1>3, <2>1, <2>2, <2>5, RestIn
    <3>2. \A k, u : OnlyIn(e, k, u) => OnlyIn(e, k, u)'
      BY <1>1, <2>1, <2>2, <2>5, <3>1 DEF OnlyIn, TypeInv, TypeOK, Pushed
    <3>3. QED BY <1>1, <2>3, <3>2, LetBe
  <2>6. QED BY <2>4, <2>5
<1>4. QED BY <1>2, <1>3

\* flush_reentrant_events takes all that was set aside.
LEMMA TakeReentrantKeeps ==
  ASSUME TypeInv, NEW t \in Threads, Hands(t), TakeReentrant(t), NEW e \in Events, Kept(e)
  PROVE  Kept(e)'
<1>1. /\ carry' = [carry EXCEPT ![t] = pendingReentrant] /\ pendingReentrant' = <<>>
      /\ UNCHANGED <<fate, queue, held, popped, local>>
  BY DEF TakeReentrant
<1>2. /\ pc[t] \in {"take", "takeOperation"}
      /\ \A u \in Threads : pc'[u] \in Pushed <=> pc[u] \in Pushed
  BY TakeReentrantMoves DEF TypeInv, TypeOK, Pushed, Stopping
<1>3. carry[t] = <<>> /\ At(e, carry[t]) = {} /\ At(e, pendingReentrant') = {}
  BY <1>1, <1>2 DEF Hands, At
<1>4. carry'[t] = pendingReentrant /\ \A u \in Threads : u # t => carry'[u] = carry[u]
  BY <1>1 DEF TypeInv, TypeOK
<1>5. Single(e)'
  BY <1>1, <1>2, <1>3, <1>4 DEF Kept, Single, Lone
<1>6. CASE At(e, pendingReentrant) # {}
  <2>1. OnlyIn(e, "pending", t) /\ fate[e] = "open"
    BY <1>6, IsPending
  <2>2. OnlyIn(e, "carry", t)'
    BY <1>1, <1>2, <1>3, <1>4, <1>6, <2>1 DEF OnlyIn
  <2>3. QED BY <1>1, <1>5, <2>1, <2>2, HandedOn DEF Keepers
<1>7. CASE At(e, pendingReentrant) = {}
  <2>1. \A k, u : OnlyIn(e, k, u) => OnlyIn(e, k, u)'
    BY <1>1, <1>2, <1>3, <1>4, <1>7 DEF OnlyIn
  <2>2. QED BY <1>1, <1>5, <2>1, LetBe
<1>8. QED BY <1>6, <1>7

\* And queues it.
LEMMA FlushReentrantKeeps ==
  ASSUME TypeInv, NEW t \in Threads, FlushReentrant(t), NEW e \in Events, Kept(e)
  PROVE  Kept(e)'
<1>1. /\ carry' = [carry EXCEPT ![t] = <<>>]
      /\ queue' = PushAll(queue, AllEvents, carry[t])
      /\ UNCHANGED <<fate, pendingReentrant, held, popped, local>>
  BY DEF FlushReentrant
<1>2. \A u \in Threads : pc'[u] \in Pushed <=> pc[u] \in Pushed
  BY DEF FlushReentrant, Goto, TypeInv, TypeOK, Pushed
<1>3. carry'[t] = <<>> /\ At(e, carry'[t]) = {} /\ \A u \in Threads : u # t => carry'[u] = carry[u]
  BY <1>1 DEF TypeInv, TypeOK, At
<1>4. /\ carry[t] \in Seq(AllEvents) /\ queue \in QueueOf(AllEvents) /\ e \in AllEvents
      /\ QueuedOnce(e, queue) /\ Lone(At(e, carry[t]))
  BY DEF TypeInv, TypeOK, AllEvents, Kept, Single
<1>5. /\ Queued(e, queue') <=> Queued(e, queue) \/ At(e, carry[t]) # {}
      /\ At(e, carry[t]) = {} \/ ~Queued(e, queue) => QueuedOnce(e, queue')
  BY <1>1, <1>4, PushAllIn
<1>6. ASSUME QueuedOnce(e, queue') PROVE Single(e)'
  BY <1>1, <1>2, <1>3, <1>6 DEF Kept, Single, Lone
<1>7. CASE At(e, carry[t]) # {}
  <2>1. OnlyIn(e, "carry", t) /\ fate[e] = "open"
    BY <1>7, IsCarried
  <2>2. ~Queued(e, queue)
    BY <2>1 DEF OnlyIn
  <2>3. OnlyIn(e, "queue", t)'
    BY <1>1, <1>2, <1>3, <1>5, <1>7, <2>1 DEF OnlyIn
  <2>4. QED BY <1>1, <1>5, <1>6, <2>1, <2>2, <2>3, HandedOn DEF Keepers
<1>8. CASE At(e, carry[t]) = {}
  <2>1. \A k, u : OnlyIn(e, k, u) => OnlyIn(e, k, u)'
    BY <1>1, <1>2, <1>3, <1>5, <1>8 DEF OnlyIn
  <2>2. QED BY <1>1, <1>5, <1>6, <1>8, <2>1, LetBe
<1>9. QED BY <1>7, <1>8

\* DrainGuard::drop forgets what was set aside.
LEMMA WipeReentrantKeeps ==
  ASSUME TypeInv, NEW t \in Threads, WipeReentrant(t), NEW e \in Events, Kept(e)
  PROVE  Kept(e)'
<1>1. /\ pendingReentrant' = <<>> /\ Settle(Elements(pendingReentrant), "wiped")
      /\ pc' = [pc EXCEPT ![t] = next[t]] /\ pc[t] = "wipe"
      /\ UNCHANGED <<queue, carry, held, popped, local>>
  BY DEF WipeReentrant, Goto
<1>2. \A u \in Threads : pc'[u] \in Pushed <=> pc[u] \in Pushed
  BY <1>1 DEF TypeInv, TypeOK, Pushed, Stopping
<1>3. /\ At(e, pendingReentrant') = {}
      /\ e \in Elements(pendingReentrant) <=> At(e, pendingReentrant) # {}
  BY <1>1 DEF At, Elements
<1>4. Single(e)'
  BY <1>1, <1>2, <1>3 DEF Kept, Single, Lone
<1>5. CASE At(e, pendingReentrant) # {}
  <2>1. OnlyIn(e, "pending", t) /\ fate'[e] = "wiped"
    BY <1>1, <1>3, <1>5, IsPending DEF Settle
  <2>2. OnlyIn(e, "nowhere", t)'
    BY <1>1, <1>2, <1>3, <2>1 DEF OnlyIn
  <2>3. QED BY <1>4, <2>1, <2>2, HandedOn DEF Keepers
<1>6. CASE At(e, pendingReentrant) = {}
  <2>1. fate'[e] = fate[e]
    BY <1>1, <1>3, <1>6 DEF Settle
  <2>2. \A k, u : OnlyIn(e, k, u) => OnlyIn(e, k, u)'
    BY <1>1, <1>2, <1>3, <1>6 DEF OnlyIn
  <2>3. QED BY <1>4, <2>1, <2>2, LetBe
<1>7. QED BY <1>5, <1>6

\* stop clears the queue.
LEMMA ClearQueueKeeps ==
  ASSUME TypeInv, NEW t \in Threads, ClearQueue(t), NEW e \in Events, Kept(e)
  PROVE  Kept(e)'
<1>1. /\ queue' = EmptyQueue
      /\ Settle(Elements(queue.completion) \cup Elements(queue.regular), "cleared")
      /\ pc' = [pc EXCEPT ![t] = "clearDeferred"] /\ pc[t] = "clearQueue"
      /\ UNCHANGED <<pendingReentrant, carry, held, popped, local>>
  BY DEF ClearQueue, Goto
<1>2. \A u \in Threads : pc'[u] \in Pushed <=> pc[u] \in Pushed
  BY <1>1 DEF TypeInv, TypeOK, Pushed
<1>3. /\ ~Queued(e, queue') /\ QueuedOnce(e, queue')
      /\ e \in Elements(queue.completion) \cup Elements(queue.regular) <=> Queued(e, queue)
  BY <1>1 DEF At, Elements, Queued, QueuedOnce, EmptyQueue, Lone
<1>4. Single(e)'
  BY <1>1, <1>2, <1>3 DEF Kept, Single
<1>5. CASE Queued(e, queue)
  <2>1. OnlyIn(e, "queue", t) /\ fate'[e] = "cleared"
    BY <1>1, <1>3, <1>5, IsQueued DEF Settle
  <2>2. OnlyIn(e, "nowhere", t)'
    BY <1>1, <1>2, <1>3, <2>1 DEF OnlyIn
  <2>3. QED BY <1>4, <2>1, <2>2, HandedOn DEF Keepers
<1>6. CASE ~Queued(e, queue)
  <2>1. fate'[e] = fate[e]
    BY <1>1, <1>3, <1>6 DEF Settle
  <2>2. \A k, u : OnlyIn(e, k, u) => OnlyIn(e, k, u)'
    BY <1>1, <1>2, <1>3, <1>6 DEF OnlyIn
  <2>3. QED BY <1>4, <2>1, <2>2, LetBe
<1>7. QED BY <1>5, <1>6

\* deferred_owner_still_active: a popped event whose owner still defers it is kept back.
LEMMA KeepDeferredKeeps ==
  ASSUME TypeInv, NEW t \in Threads, KeepDeferred(t), taken[t].event = popped[t],
         NEW e \in Events, Kept(e)
  PROVE  Kept(e)'
<1>1. pc[t] = "matched" /\ UNCHANGED <<queue, pendingReentrant, held, fate, carry>>
  BY DEF KeepDeferred, shared
<1>2. CASE pc' = [pc EXCEPT ![t] = "select"] /\ UNCHANGED <<popped, local>>
  BY <1>1, <1>2, Still DEF TypeInv, TypeOK, Pushed
<1>3. CASE /\ local' = [local EXCEPT ![t] = Append(@, taken[t])]
           /\ popped' = [popped EXCEPT ![t] = None] /\ pc' = [pc EXCEPT ![t] = "pop"]
  <2>1. taken[t] \in Record
    BY <1>1 DEF TypeInv, Loaded
  <2>2. \A u \in Threads : pc'[u] \in Pushed <=> pc[u] \in Pushed
    BY <1>1, <1>3 DEF TypeInv, TypeOK, Pushed
  <2>3. QED BY <1>1, <1>3, <2>1, <2>2, DefersIt DEF Pushed
<1>4. QED BY <1>2, <1>3 DEF KeepDeferred, Goto

\* deferred_owner writes the record of the deferral, or drops the event.
LEMMA DeferredOwnerKeeps ==
  ASSUME TypeInv, NEW t \in Threads, DeferredOwner(t), NEW e \in Events, Kept(e)
  PROVE  Kept(e)'
<1>1. /\ pc[t] = "owner" /\ UNCHANGED <<queue, pendingReentrant, held, carry>>
      /\ popped' = [popped EXCEPT ![t] = None] /\ pc' = [pc EXCEPT ![t] = "take"]
  BY DEF DeferredOwner, Goto, shared
<1>2. \A u \in Threads : pc'[u] \in Pushed <=> pc[u] \in Pushed
  BY <1>1 DEF TypeInv, TypeOK, Pushed
<1>3. CASE Settle({popped[t]}, "dropped") /\ UNCHANGED local
  BY <1>1, <1>2, <1>3, Finishes
<1>4. ASSUME NEW owner \in Deferring(currentState, popped[t]),
             local' = [local EXCEPT ![t] = Append(@, [event |-> popped[t], owner |-> owner])],
             UNCHANGED fate
      PROVE  Kept(e)'
  <2>1. currentState \in Vertices /\ popped[t] \in AllEvents
    BY <1>1 DEF TypeInv, TypeOK, Loaded, Processing
  <2>2. owner \in States \cup {Root}
    BY <2>1, RuntimeAssumption DEF Deferring
  <2>3. [event |-> popped[t], owner |-> owner] \in Record
    BY <2>1, <2>2 DEF Record
  <2>4. QED BY <1>1, <1>2, <1>4, <2>3, DefersIt DEF Pushed
<1>5. QED BY <1>3, <1>4 DEF DeferredOwner, Innermost

\* The error of an unhandled exit point loses the event and what was deferred.
LEMMA FailKeeps ==
  ASSUME TypeInv, NEW t \in Threads, Fail(t), NEW e \in Events, Kept(e)
  PROVE  Kept(e)'
<1> DEFINE D == {popped[t]} \cup {r.event : r \in Elements(local[t])}
<1>1. /\ pc[t] \in {"run", "decide"} /\ UNCHANGED <<queue, pendingReentrant, held, carry>>
      /\ popped' = [popped EXCEPT ![t] = None] /\ pc' = [pc EXCEPT ![t] = "release"]
      /\ local' = [local EXCEPT ![t] = <<>>] /\ Settle(D, "failed")
  BY DEF Fail, Goto, shared
<1>2. \A u \in Threads : pc'[u] \in Pushed <=> pc[u] \in Pushed
  BY <1>1 DEF TypeInv, TypeOK, Pushed
<1>3. e \in D <=> e = popped[t] \/ RecordsOf(e, local[t]) # {}
  BY DEF RecordsOf, Elements
<1>4. held' = [held EXCEPT ![t] = held[t]]
  BY <1>1 DEF TypeInv, TypeOK
<1>5. e # None
  BY RuntimeAssumption DEF AllEvents
<1> HIDE DEF D
<1>6. CASE held[t] # None
  BY <1>1, <1>2, <1>3, <1>4, <1>6, Discards DEF Pushed
<1>7. CASE held[t] = None
  BY <1>1, <1>2, <1>3, <1>4, <1>5, <1>7, Discards DEF Pushed
<1>8. QED BY <1>6, <1>7

\* A dropped future loses the event, what was deferred and the call it was in.
LEMMA AbandonDrainKeeps ==
  ASSUME TypeInv, NEW t \in Threads, AbandonDrain(t), NEW e \in Events, Kept(e)
  PROVE  Kept(e)'
<1> DEFINE D == {popped[t], held[t]} \cup {r.event : r \in Elements(local[t])}
<1>1. /\ pc[t] \in {"run", "behave"} /\ UNCHANGED <<queue, pendingReentrant, carry>>
      /\ popped' = [popped EXCEPT ![t] = None] /\ pc' = [pc EXCEPT ![t] = "release"]
      /\ held' = [held EXCEPT ![t] = None]
      /\ local' = [local EXCEPT ![t] = <<>>] /\ Settle(D, "abandoned")
  BY DEF AbandonDrain, Goto, shared
<1>2. \A u \in Threads : pc'[u] \in Pushed <=> pc[u] \in Pushed
  BY <1>1 DEF TypeInv, TypeOK, Pushed
<1>3. e \in D <=> e = popped[t] \/ RecordsOf(e, local[t]) # {} \/ e = held[t]
  BY DEF RecordsOf, Elements
<1> HIDE DEF D
<1>4. QED BY <1>1, <1>2, <1>3, Discards DEF Pushed

\* requeue_deferred_events drops what belongs to a submachine that was left.
LEMMA DropExitedKeeps ==
  ASSUME TypeInv, NEW t \in Threads, DropExited(t), NEW e \in Events, Kept(e)
  PROVE  Kept(e)'
<1> DEFINE kept == {r \in Elements(local[t]) : Survives(r.owner, currentState, source[t])}
           D == {r.event : r \in Elements(local[t]) \ kept}
<1>1. /\ pc[t] = "requeue" /\ pc' = [pc EXCEPT ![t] = "replay"]
      /\ UNCHANGED <<queue, pendingReentrant, carry, held, popped>>
      /\ local' = [local EXCEPT ![t] = Filter(local[t], kept)]
      /\ Settle(D, "dropped")
  BY DEF DropExited, Goto, shared
<1>2. \A u \in Threads : pc'[u] \in Pushed <=> pc[u] \in Pushed
  BY <1>1 DEF TypeInv, TypeOK, Pushed
<1>3. e \in D <=> \E r \in Elements(local[t]) : r \notin kept /\ r.event = e
  OBVIOUS
<1> HIDE DEF D, kept
<1>4. local'[t] = Filter(local[t], kept) /\ \A u \in Threads : u # t => local'[u] = local[u]
  BY <1>1 DEF TypeInv, TypeOK
<1>5. local[t] \in Seq(Record) /\ Lone(RecordsOf(e, local[t]))
  BY <1>1 DEF TypeInv, TypeOK, Kept, Single, Pushed
<1>6. /\ RecordsOf(e, local'[t]) # {} <=> \E r \in Elements(local[t]) : r \in kept /\ r.event = e
      /\ Lone(RecordsOf(e, local'[t]))
  BY <1>4, <1>5, FilterRecords
<1>7. RecordsOf(e, local[t]) # {} <=> \E r \in Elements(local[t]) : r.event = e
  BY DEF RecordsOf, Elements
<1>8. \A r, s \in Elements(local[t]) : r.event = e /\ s.event = e => r = s
  BY <1>5 DEF Lone, RecordsOf, Elements
<1>9. Single(e)'
  BY <1>1, <1>2, <1>4, <1>6 DEF Kept, Single
<1>10. fate'[e] = IF e \in D THEN "dropped" ELSE fate[e]
  BY <1>1 DEF Settle
<1>11. CASE e \in D
  <2>1. RecordsOf(e, local[t]) # {} /\ RecordsOf(e, local'[t]) = {}
    BY <1>3, <1>6, <1>7, <1>8, <1>11
  <2>2. OnlyIn(e, "local", t)
    BY <1>1, <2>1, IsLocal DEF Pushed
  <2>3. OnlyIn(e, "nowhere", t)'
    BY <1>1, <1>2, <1>4, <2>1, <2>2 DEF OnlyIn
  <2>4. QED BY <1>9, <1>10, <1>11, <2>3, HandedOn DEF Keepers
<1>12. CASE e \notin D
  <2>1. RecordsOf(e, local'[t]) # {} <=> RecordsOf(e, local[t]) # {}
    BY <1>3, <1>6, <1>7, <1>12
  <2>2. \A k, u : OnlyIn(e, k, u) => OnlyIn(e, k, u)'
    BY <1>1, <1>2, <1>4, <2>1 DEF OnlyIn
  <2>3. QED BY <1>9, <1>10, <1>12, <2>2, LetBe
<1>13. QED BY <1>11, <1>12

\* push_deferred_records: the events go to the queue, the records follow.
LEMMA PushDeferredKeeps ==
  ASSUME TypeInv, NEW t \in Threads, PushDeferred(t), NEW e \in Events, Kept(e)
  PROVE  Kept(e)'
<1> DEFINE s == [i \in DOMAIN local[t] |-> local[t][i].event]
<1>1. /\ queue' = PushAll(queue, AllEvents, s)
      /\ UNCHANGED <<fate, pendingReentrant, held, popped, local, carry>>
  BY DEF PushDeferred
<1>2. /\ pc[t] \notin Pushed /\ pc'[t] \in Pushed
      /\ \A u \in Threads : u # t => pc'[u] = pc[u]
  BY DEF PushDeferred, Goto, TypeInv, TypeOK, Pushed
<1>3. local[t] \in Seq(Record)
  BY DEF TypeInv, TypeOK
<1>4. s \in Seq(AllEvents)
  <2>1. \A i \in 1 .. Len(local[t]) : s[i] \in AllEvents
    <3>1. \A r \in Record : r.event \in AllEvents
      BY DEF Record
    <3>2. \A i \in 1 .. Len(local[t]) : local[t][i] \in Record
      BY <1>3
    <3>3. QED BY <1>3, <3>1, <3>2
  <2>2. DOMAIN s = 1 .. Len(local[t]) /\ Len(local[t]) \in Nat
    BY <1>3
  <2> HIDE DEF s
  <2>3. s = [i \in 1 .. Len(local[t]) |-> s[i]]
    BY <1>3 DEF s
  <2>4. QED BY <2>1, <2>2, <2>3
<1>5. At(e, s) = RecordsOf(e, local[t])
  BY DEF At, RecordsOf
<1> HIDE DEF s
<1>6. /\ queue \in QueueOf(AllEvents) /\ e \in AllEvents
      /\ QueuedOnce(e, queue) /\ Lone(At(e, s))
  BY <1>2, <1>5 DEF TypeInv, TypeOK, AllEvents, Kept, Single
<1>7. /\ Queued(e, queue') <=> Queued(e, queue) \/ At(e, s) # {}
      /\ At(e, s) = {} \/ ~Queued(e, queue) => QueuedOnce(e, queue')
  BY <1>1, <1>4, <1>6, PushAllIn
<1>8. ASSUME QueuedOnce(e, queue') PROVE Single(e)'
  BY <1>1, <1>2, <1>8 DEF Kept, Single
<1>9. CASE At(e, s) # {}
  <2>1. OnlyIn(e, "local", t) /\ fate[e] = "open"
    BY <1>2, <1>5, <1>9, IsLocal
  <2>2. ~Queued(e, queue)
    BY <2>1 DEF OnlyIn
  <2>3. OnlyIn(e, "queue", t)'
    BY <1>1, <1>2, <1>7, <1>9, <2>1 DEF OnlyIn
  <2>4. QED BY <1>1, <1>7, <1>8, <2>1, <2>2, <2>3, HandedOn DEF Keepers
<1>10. CASE At(e, s) = {}
  <2>1. \A k, u : OnlyIn(e, k, u) => OnlyIn(e, k, u)'
    BY <1>1, <1>2, <1>5, <1>7, <1>10 DEF OnlyIn
  <2>2. QED BY <1>1, <1>7, <1>8, <1>10, <2>1, LetBe
<1>11. QED BY <1>9, <1>10

\* The records follow: the drain holds nothing of its own any more.
LEMMA RecordDeferredKeeps ==
  ASSUME TypeInv, NEW t \in Threads, RecordDeferred(t), NEW e \in Events, Kept(e)
  PROVE  Kept(e)'
<1>1. /\ local' = [local EXCEPT ![t] = <<>>]
      /\ UNCHANGED <<fate, pendingReentrant, held, popped, queue, carry>>
  BY DEF RecordDeferred
<1>2. /\ pc[t] \in Pushed
      /\ \A u \in Threads : u # t => pc'[u] = pc[u]
  BY DEF RecordDeferred, Goto, TypeInv, TypeOK, Pushed
<1>3. RecordsOf(e, local'[t]) = {} /\ \A u \in Threads : u # t => local'[u] = local[u]
  BY <1>1 DEF TypeInv, TypeOK, RecordsOf
<1>4. Single(e)'
  BY <1>1, <1>2, <1>3 DEF Kept, Single, Lone
<1>5. \A k, u : OnlyIn(e, k, u) => OnlyIn(e, k, u)'
  BY <1>1, <1>2, <1>3 DEF OnlyIn
<1>6. QED BY <1>1, <1>4, <1>5, LetBe

\* A caller's call event is set aside.
LEMMA QueueReentrantKeeps ==
  ASSUME TypeInv, NEW t \in Threads, QueueReentrantEvent(t), NEW e \in Events, Kept(e)
  PROVE  Kept(e)'
<1>1. /\ held' = [held EXCEPT ![t] = None] /\ pc' = [pc EXCEPT ![t] = next[t]]
      /\ pendingReentrant' = Append(pendingReentrant, held[t]) /\ pc[t] = "setAside"
      /\ UNCHANGED <<fate, queue, popped, local, carry>>
  BY DEF QueueReentrantEvent, Goto
<1>2. e # None /\ held[t] \in Events /\ pendingReentrant \in Seq(Events)
  BY <1>1, RuntimeAssumption DEF AllEvents, TypeInv, TypeOK, Loaded
<1>3. At(e, pendingReentrant') = IF held[t] = e
                                 THEN At(e, pendingReentrant) \cup {Len(pendingReentrant) + 1}
                                 ELSE At(e, pendingReentrant)
  BY <1>1, <1>2, AtAppend
<1>4. CASE e = held[t]
  <2>1. OnlyIn(e, "held", t) /\ Single(e) /\ fate[e] = "open"
    BY <1>4, IsHeld
  <2>2. At(e, pendingReentrant') = {Len(pendingReentrant) + 1}
    BY <1>3, <1>4, <2>1 DEF OnlyIn
  <2>3. Single(e)'
    BY <1>1, <2>1, <2>2 DEF Single, Lone, TypeInv, TypeOK, Pushed, Stopping
  <2>4. OnlyIn(e, "pending", t)'
    BY <1>1, <1>2, <2>1, <2>2 DEF OnlyIn, TypeInv, TypeOK, Pushed, Stopping
  <2>5. QED BY <1>1, <2>1, <2>3, <2>4, HandedOn DEF Keepers
<1>5. CASE e # held[t]
  <2>1. At(e, pendingReentrant') = At(e, pendingReentrant)
    BY <1>3, <1>5
  <2>2. Single(e)'
    BY <1>1, <2>1 DEF Kept, Single, TypeInv, TypeOK, Pushed, Stopping
  <2>3. \A k, u : OnlyIn(e, k, u) => OnlyIn(e, k, u)'
    BY <1>1, <1>2, <1>5, <2>1 DEF OnlyIn, TypeInv, TypeOK, Pushed, Stopping
  <2>4. QED BY <1>1, <2>2, <2>3, LetBe
<1>6. QED BY <1>4, <1>5

\* start takes up the initial event, which is no caller's.
LEMMA ActivateKeeps ==
  ASSUME TypeInv, NEW t \in Threads, Hands(t), Activate(t), NEW e \in Events, Kept(e)
  PROVE  Kept(e)'
<1>1. /\ held' = [held EXCEPT ![t] = InitialEvent] /\ pc' = [pc EXCEPT ![t] = "push"]
      /\ pc[t] = "activate" /\ UNCHANGED <<fate, queue, pendingReentrant, popped, local, carry>>
  BY DEF Activate, Goto
<1>2. e # None /\ e # InitialEvent
  BY RuntimeAssumption DEF AllEvents
<1>3. held[t] = None
  BY <1>1 DEF Hands, Offering, TypeInv, Loaded, InFlush, InDrain, Processing
<1>4. Single(e)'
  BY <1>1 DEF Kept, Single, TypeInv, TypeOK, Pushed
<1>5. \A k, u : OnlyIn(e, k, u) => OnlyIn(e, k, u)'
  BY <1>1, <1>2, <1>3 DEF OnlyIn, TypeInv, TypeOK, Pushed
<1>6. QED BY <1>1, <1>4, <1>5, LetBe

\* The final event is queued for the machine itself.
LEMMA PushFinalKeeps ==
  ASSUME TypeInv, NEW t \in Threads, PushFinal(t), NEW e \in Events, Kept(e)
  PROVE  Kept(e)'
<1>1. /\ queue' = Push(queue, FinalEvent) /\ pc' = [pc EXCEPT ![t] = "requeue"]
      /\ pc[t] = "final" /\ UNCHANGED <<fate, held, pendingReentrant, popped, local, carry>>
  BY DEF PushFinal, Goto
<1>2. e # FinalEvent /\ FinalEvent \in AllEvents /\ queue \in QueueOf(AllEvents)
  BY RuntimeAssumption DEF AllEvents, TypeInv, TypeOK
<1>3. /\ Queued(e, queue') <=> Queued(e, queue)
      /\ QueuedOnce(e, queue') <=> QueuedOnce(e, queue)
  BY <1>1, <1>2, PushIn
<1>4. Single(e)'
  BY <1>1, <1>3 DEF Kept, Single, TypeInv, TypeOK, Pushed
<1>5. \A k, u : OnlyIn(e, k, u) => OnlyIn(e, k, u)'
  BY <1>1, <1>3 DEF OnlyIn, TypeInv, TypeOK, Pushed
<1>6. QED BY <1>1, <1>4, <1>5, LetBe

-----------------------------------------------------------------------------
(***************************************************************************)
(* Each action, and the records take_deferred_event compares.              *)
(***************************************************************************)

DeferralsInv ==
  /\ deferredEvents \in Seq(Deferrals)
  /\ \A t \in Threads : local[t] \in Seq(Deferrals)

\* The records name what their owners defer.
LEMMA DeferralsStep ==
  ASSUME TypeInv, DeferralsInv, NEW t \in Threads, Hands(t), Proceeds(t) \/ Invokes(t)
  PROVE  DeferralsInv'
<1>1. ASSUME TakeDeferredEvent(t) PROVE DeferralsInv'
  <2>1. UNCHANGED local
    BY <1>1 DEF TakeDeferredEvent
  <2>2. CASE UNCHANGED deferredEvents
    BY <2>1, <2>2 DEF DeferralsInv
  <2>3. ASSUME NEW i \in Matching(popped[t]), deferredEvents' = Without(deferredEvents, i)
        PROVE  DeferralsInv'
    <3>1. i \in DOMAIN deferredEvents
      BY DEF Matching
    <3>2. deferredEvents' \in Seq(Deferrals)
      BY <2>3, <3>1, WithoutType DEF DeferralsInv
    <3>3. QED BY <2>1, <3>2 DEF DeferralsInv
  <2>4. QED BY <1>1, <2>2, <2>3 DEF TakeDeferredEvent
<1>2. ASSUME DeferredOwner(t) PROVE DeferralsInv'
  <2>1. CASE UNCHANGED local
    BY <1>2, <2>1 DEF DeferredOwner, DeferralsInv, shared
  <2>2. ASSUME NEW owner \in Deferring(currentState, popped[t]),
               local' = [local EXCEPT ![t] = Append(@, [event |-> popped[t], owner |-> owner])]
        PROVE  DeferralsInv'
    <3>1. popped[t] \in AllEvents /\ currentState \in Vertices
      BY <1>2 DEF DeferredOwner, TypeInv, TypeOK, Loaded, Processing
    <3>2. owner \in States \cup {Root} /\ <<owner, Name[popped[t]]>> \in Defers
      BY <3>1, RuntimeAssumption DEF Deferring
    <3> DEFINE r == [event |-> popped[t], owner |-> owner]
    <3>3. r \in Deferrals
      BY <3>1, <3>2 DEF Deferrals, Record
    <3> HIDE DEF r
    <3>4. local' = [local EXCEPT ![t] = Append(@, r)]
      BY <2>2 DEF r
    <3>5. Append(local[t], r) \in Seq(Deferrals)
      BY <3>3 DEF DeferralsInv
    <3>6. /\ \A u \in Threads : u # t => local'[u] = local[u]
          /\ local'[t] = Append(local[t], r)
      BY <3>4 DEF TypeInv, TypeOK
    <3>7. \A u \in Threads : local'[u] \in Seq(Deferrals)
      BY <3>5, <3>6 DEF DeferralsInv
    <3>8. QED BY <1>2, <3>7 DEF DeferredOwner, DeferralsInv, shared
  <2>3. QED
    <3>1. \/ UNCHANGED local
          \/ \E owner \in Innermost(Deferring(currentState, popped[t])) :
               local' = [local EXCEPT ![t] = Append(@, [event |-> popped[t], owner |-> owner])]
      BY <1>2 DEF DeferredOwner
    <3>2. \A S : Innermost(S) \subseteq S
      BY DEF Innermost
    <3>3. QED BY <2>1, <2>2, <3>1, <3>2
<1>3. ASSUME Fail(t) PROVE DeferralsInv'
  <2>1. local' = [local EXCEPT ![t] = <<>>] /\ UNCHANGED deferredEvents
    BY <1>3 DEF Fail, shared
  <2>2. QED BY <2>1 DEF DeferralsInv, TypeInv, TypeOK
<1>4. ASSUME AbandonDrain(t) PROVE DeferralsInv'
  <2>1. local' = [local EXCEPT ![t] = <<>>] /\ UNCHANGED deferredEvents
    BY <1>4 DEF AbandonDrain, shared
  <2>2. QED BY <2>1 DEF DeferralsInv, TypeInv, TypeOK
<1>5. ASSUME DropExited(t) PROVE DeferralsInv'
  <2> DEFINE kept == {r \in Elements(local[t]) : Survives(r.owner, currentState, source[t])}
  <2>1. local' = [local EXCEPT ![t] = Filter(local[t], kept)] /\ UNCHANGED deferredEvents
    BY <1>5 DEF DropExited, shared
  <2> HIDE DEF kept
  <2>2. Filter(local[t], kept) \in Seq(Deferrals)
    BY FilterType DEF DeferralsInv
  <2>3. QED BY <2>1, <2>2 DEF DeferralsInv, TypeInv, TypeOK
<1>6. ASSUME RecordDeferred(t) PROVE DeferralsInv'
  <2>1. local' = [local EXCEPT ![t] = <<>>] /\ deferredEvents' = deferredEvents \o local[t]
    BY <1>6 DEF RecordDeferred
  <2>2. QED BY <2>1 DEF DeferralsInv, TypeInv, TypeOK
<1>7. ASSUME ClearDeferred(t) PROVE DeferralsInv'
  <2>1. deferredEvents' = <<>> /\ UNCHANGED local
    BY <1>7 DEF ClearDeferred
  <2>2. QED BY <2>1 DEF DeferralsInv
<1>8. ASSUME Dispatch(t) PROVE DeferralsInv'
  BY <1>8 DEF Dispatch, Enter, shared, DeferralsInv
<1>9. ASSUME Set(t) PROVE DeferralsInv'
  BY <1>9 DEF Set, Enter, shared, DeferralsInv
<1>10. ASSUME Call(t) PROVE DeferralsInv'
  BY <1>10 DEF Call, Enter, shared, DeferralsInv
<1>11. ASSUME Admit(t) PROVE DeferralsInv'
  BY <1>11 DEF Admit, shared, DeferralsInv
<1>12. ASSUME BeginOperation(t) PROVE DeferralsInv'
  BY <1>12 DEF BeginOperation, DeferralsInv
<1>13. ASSUME OperationReenters(t) PROVE DeferralsInv'
  BY <1>13 DEF OperationReenters, own, DeferralsInv
<1>14. ASSUME ActivityDispatches(t) PROVE DeferralsInv'
  BY <1>14 DEF ActivityDispatches, shared, DeferralsInv
<1>15. ASSUME EndOperation(t) PROVE DeferralsInv'
  BY <1>15 DEF EndOperation, DeferralsInv
<1>16. ASSUME LeaveFlush(t) PROVE DeferralsInv'
  BY <1>16 DEF LeaveFlush, shared, DeferralsInv
<1>17. ASSUME DispatchCall(t) PROVE DeferralsInv'
  BY <1>17 DEF DispatchCall, shared, DeferralsInv
<1>18. ASSUME Route(t) PROVE DeferralsInv'
  BY <1>18 DEF Route, shared, DeferralsInv
<1>19. ASSUME RouteOperation(t) PROVE DeferralsInv'
  BY <1>19 DEF RouteOperation, shared, DeferralsInv
<1>20. ASSUME QueueReentrantEvent(t) PROVE DeferralsInv'
  BY <1>20 DEF QueueReentrantEvent, DeferralsInv
<1>21. ASSUME PushHeld(t) PROVE DeferralsInv'
  BY <1>21 DEF PushHeld, DeferralsInv
<1>22. ASSUME BeginDrain(t) PROVE DeferralsInv'
  BY <1>22 DEF BeginDrain, DeferralsInv
<1>23. ASSUME Pop(t) PROVE DeferralsInv'
  BY <1>23 DEF Pop, DeferralsInv
<1>24. ASSUME SelectState(t) PROVE DeferralsInv'
  BY <1>24 DEF SelectState, shared, DeferralsInv
<1>25. ASSUME BeginBehavior(t) PROVE DeferralsInv'
  BY <1>25 DEF BeginBehavior, DeferralsInv
<1>26. ASSUME EndBehavior(t) PROVE DeferralsInv'
  BY <1>26 DEF EndBehavior, DeferralsInv
<1>27. ASSUME BehaviorDispatches(t) PROVE DeferralsInv'
  BY <1>27 DEF BehaviorDispatches, own, DeferralsInv
<1>28. ASSUME AbandonOperation(t) PROVE DeferralsInv'
  BY <1>28 DEF AbandonOperation, shared, DeferralsInv
<1>29. ASSUME Ignore(t) PROVE DeferralsInv'
  BY <1>29 DEF Ignore, shared, DeferralsInv
<1>30. ASSUME Defer(t) PROVE DeferralsInv'
  BY <1>30 DEF Defer, shared, DeferralsInv
<1>31. ASSUME Transit(t) PROVE DeferralsInv'
  BY <1>31 DEF Transit, DeferralsInv
<1>32. ASSUME PushFinal(t) PROVE DeferralsInv'
  BY <1>32 DEF PushFinal, DeferralsInv
<1>33. ASSUME PushDeferred(t) PROVE DeferralsInv'
  BY <1>33 DEF PushDeferred, DeferralsInv
<1>34. ASSUME TakeReentrant(t) PROVE DeferralsInv'
  BY <1>34 DEF TakeReentrant, DeferralsInv
<1>35. ASSUME FlushReentrant(t) PROVE DeferralsInv'
  BY <1>35 DEF FlushReentrant, DeferralsInv
<1>36. ASSUME ReleaseDrain(t) PROVE DeferralsInv'
  BY <1>36 DEF ReleaseDrain, DeferralsInv
<1>37. ASSUME WipeReentrant(t) PROVE DeferralsInv'
  BY <1>37 DEF WipeReentrant, DeferralsInv
<1>38. ASSUME Start(t) PROVE DeferralsInv'
  BY <1>38 DEF Start, shared, DeferralsInv
<1>39. ASSUME AdmitStart(t) PROVE DeferralsInv'
  BY <1>39 DEF AdmitStart, shared, DeferralsInv
<1>40. ASSUME Activate(t) PROVE DeferralsInv'
  BY <1>40 DEF Activate, DeferralsInv
<1>41. ASSUME Restart(t) PROVE DeferralsInv'
  BY <1>41 DEF Restart, shared, DeferralsInv
<1>42. ASSUME Stop(t) PROVE DeferralsInv'
  BY <1>42 DEF Stop, shared, DeferralsInv
<1>43. ASSUME StopReads(t) PROVE DeferralsInv'
  BY <1>43 DEF StopReads, shared, DeferralsInv
<1>44. ASSUME ClearQueue(t) PROVE DeferralsInv'
  BY <1>44 DEF ClearQueue, DeferralsInv
<1>45. ASSUME SwitchOff(t) PROVE DeferralsInv'
  BY <1>45 DEF SwitchOff, DeferralsInv
<1>46. ASSUME KeepDeferred(t) PROVE DeferralsInv'
  <2>1. deferredEvents' = deferredEvents /\ taken[t] \in Deferrals
    BY <1>46 DEF KeepDeferred, shared, Hands
  <2>2. /\ \A u \in Threads : u # t => local'[u] = local[u]
        /\ local'[t] = local[t] \/ local'[t] = Append(local[t], taken[t])
    BY <1>46 DEF KeepDeferred, TypeInv, TypeOK
  <2>3. Append(local[t], taken[t]) \in Seq(Deferrals)
    BY <2>1 DEF DeferralsInv
  <2>4. \A u \in Threads : local'[u] \in Seq(Deferrals)
    BY <2>2, <2>3 DEF DeferralsInv
  <2>5. QED BY <2>1, <2>4 DEF DeferralsInv
<1>47. ASSUME ExitDispatches(t) PROVE DeferralsInv'
  BY <1>47 DEF ExitDispatches, shared, DeferralsInv
<1>48. ASSUME StopExits(t) PROVE DeferralsInv'
  BY <1>48 DEF StopExits, shared, DeferralsInv
<1>49. ASSUME AbandonStop(t) PROVE DeferralsInv'
  BY <1>49 DEF AbandonStop, shared, DeferralsInv
<1>50. QED
  BY <1>1, <1>2, <1>3, <1>4, <1>5, <1>6, <1>7, <1>8, <1>9, <1>10, <1>11, <1>12, <1>13,
       <1>14, <1>15, <1>16, <1>17, <1>18, <1>19, <1>20, <1>21, <1>22, <1>23, <1>24, <1>25,
       <1>26, <1>27, <1>28, <1>29, <1>30, <1>31, <1>32, <1>33, <1>34, <1>35, <1>36, <1>37,
       <1>38, <1>39, <1>40, <1>41, <1>42, <1>43, <1>44, <1>45, <1>46, <1>47, <1>48, <1>49
     DEF Proceeds, Invokes

\* So every step keeps every event.
LEMMA KeptStep ==
  ASSUME DeferredApart, TypeInv, DeferralsInv, NEW t \in Threads, Hands(t),
         Proceeds(t) \/ Invokes(t), NEW e \in Events, Kept(e)
  PROVE  Kept(e)'
<1>1. ASSUME Dispatch(t) PROVE Kept(e)'
  <2>1. PICK x \in Unsent(Events \ (Calls \cup Changes)) : Enter(t, x, "dispatch")
    BY <1>1 DEF Dispatch
  <2>2. x \in Unsent(Events)
    BY RuntimeAssumption DEF Unsent
  <2>3. held[t] = None
    BY <2>1 DEF Enter, Hands, Offering, TypeInv, Loaded, InFlush, InDrain, Processing
  <2>4. \A u \in Threads : pc'[u] \in Pushed <=> pc[u] \in Pushed
    BY <2>1 DEF Enter, Goto, TypeInv, TypeOK, Pushed
  <2>5. QED BY <2>1, <2>2, <2>3, <2>4, TakesUp DEF Enter, shared
<1>2. ASSUME Set(t) PROVE Kept(e)'
  <2>1. PICK x \in Unsent(Changes) : Enter(t, x, "set")
    BY <1>2 DEF Set
  <2>2. x \in Unsent(Events)
    BY RuntimeAssumption DEF Unsent
  <2>3. held[t] = None
    BY <2>1 DEF Enter, Hands, Offering, TypeInv, Loaded, InFlush, InDrain, Processing
  <2>4. \A u \in Threads : pc'[u] \in Pushed <=> pc[u] \in Pushed
    BY <2>1 DEF Enter, Goto, TypeInv, TypeOK, Pushed
  <2>5. QED BY <2>1, <2>2, <2>3, <2>4, TakesUp DEF Enter, shared
<1>3. ASSUME Call(t) PROVE Kept(e)'
  <2>1. PICK x \in Unsent(Calls) : Enter(t, x, "call")
    BY <1>3 DEF Call
  <2>2. x \in Unsent(Events)
    BY RuntimeAssumption DEF Unsent
  <2>3. held[t] = None
    BY <2>1 DEF Enter, Hands, Offering, TypeInv, Loaded, InFlush, InDrain, Processing
  <2>4. \A u \in Threads : pc'[u] \in Pushed <=> pc[u] \in Pushed
    BY <2>1 DEF Enter, Goto, TypeInv, TypeOK, Pushed
  <2>5. QED BY <2>1, <2>2, <2>3, <2>4, TakesUp DEF Enter, shared
<1>4. ASSUME Admit(t) PROVE Kept(e)'
  <2>1. \A u \in Threads : pc'[u] \in Pushed <=> pc[u] \in Pushed
    BY <1>4 DEF Admit, Goto, TypeInv, TypeOK, Pushed
  <2>2. CASE UNCHANGED <<held, fate>>
    BY <1>4, <2>1, <2>2, Still DEF Admit, shared
  <2>3. CASE Settle({held[t]}, "refused") /\ held' = [held EXCEPT ![t] = None]
    BY <1>4, <2>1, <2>3, GivesUp DEF Admit, shared
  <2>4. QED BY <1>4, <2>2, <2>3 DEF Admit
<1>5. ASSUME BeginOperation(t) PROVE Kept(e)'
  <2>1. \A u \in Threads : pc'[u] \in Pushed <=> pc[u] \in Pushed
    BY <1>5 DEF BeginOperation, Goto, TypeInv, TypeOK, Pushed, Stopping
  <2>2. QED BY <1>5, <2>1, Still DEF BeginOperation
<1>6. ASSUME OperationReenters(t) PROVE Kept(e)'
  <2>1. PICK x \in Unsent(SetAside(t)) :
          pendingReentrant' = Append(pendingReentrant, x) /\ Settle({x}, "open")
    BY <1>6 DEF OperationReenters
  <2>2. x \in Unsent(Events)
    BY RuntimeAssumption DEF Unsent, SetAside
  <2>3. QED BY <1>6, <2>1, <2>2, SetsAside DEF OperationReenters, own
<1>7. ASSUME ActivityDispatches(t) PROVE Kept(e)'
  <2>1. PICK x \in Unsent(Events \ SetAside(t)) :
          held' = [held EXCEPT ![t] = x] /\ Settle({x}, "open")
    BY <1>7 DEF ActivityDispatches
  <2>2. x \in Unsent(Events)
    BY DEF Unsent
  <2>3. held[t] = None
    BY <1>7 DEF ActivityDispatches, Hands, Offering
  <2>4. \A u \in Threads : pc'[u] \in Pushed <=> pc[u] \in Pushed
    BY <1>7 DEF ActivityDispatches, Goto, TypeInv, TypeOK, Pushed
  <2>5. QED BY <1>7, <2>1, <2>2, <2>3, <2>4, TakesUp DEF ActivityDispatches, shared
<1>8. ASSUME EndOperation(t) PROVE Kept(e)'
  <2>1. PICK ok \in BOOLEAN, after \in {"again", "idle"} \cup Stopping :
          /\ Goto(t, IF Ended = 0 THEN "operated" ELSE after)
          /\ Settle(IF ok THEN {} ELSE {held[t]}, "refused")
          /\ held' = IF ok THEN held ELSE [held EXCEPT ![t] = None]
    BY <1>8 DEF EndOperation
  <2>2. \A u \in Threads : pc'[u] \in Pushed <=> pc[u] \in Pushed
    BY <1>8, <2>1 DEF EndOperation, Goto, TypeInv, TypeOK, Pushed, Stopping
  <2>3. UNCHANGED <<queue, pendingReentrant, popped, local, carry>>
    BY <1>8 DEF EndOperation
  <2>4. CASE ok
    <3>1. fate' = fate /\ held' = held
      BY <2>1, <2>4 DEF Settle, TypeInv, TypeOK
    <3>2. QED BY <2>2, <2>3, <3>1, Still
  <2>5. CASE ~ok
    BY <2>1, <2>2, <2>3, <2>5, GivesUp
  <2>6. QED BY <2>4, <2>5
<1>9. ASSUME LeaveFlush(t) PROVE Kept(e)'
  <2>1. \A u \in Threads : pc'[u] \in Pushed <=> pc[u] \in Pushed
    BY <1>9 DEF LeaveFlush, Goto, TypeInv, TypeOK, Pushed, Stopping
  <2>2. QED BY <1>9, <2>1, Still DEF LeaveFlush, shared
<1>10. ASSUME DispatchCall(t) PROVE Kept(e)'
  <2>1. \A u \in Threads : pc'[u] \in Pushed <=> pc[u] \in Pushed
    BY <1>10 DEF DispatchCall, Goto, TypeInv, TypeOK, Pushed
  <2>2. QED BY <1>10, <2>1, Still DEF DispatchCall, shared
<1>11. ASSUME Route(t) PROVE Kept(e)'
  <2>1. \A u \in Threads : pc'[u] \in Pushed <=> pc[u] \in Pushed
    BY <1>11 DEF Route, Goto, TypeInv, TypeOK, Pushed
  <2>2. QED BY <1>11, <2>1, Still DEF Route, shared
<1>12. ASSUME RouteOperation(t) PROVE Kept(e)'
  <2>1. \A u \in Threads : pc'[u] \in Pushed <=> pc[u] \in Pushed
    BY <1>12 DEF RouteOperation, Goto, TypeInv, TypeOK, Pushed
  <2>2. QED BY <1>12, <2>1, Still DEF RouteOperation, shared
<1>13. ASSUME QueueReentrantEvent(t) PROVE Kept(e)'
  BY <1>13, QueueReentrantKeeps
<1>14. ASSUME PushHeld(t) PROVE Kept(e)'
  BY <1>14, PushHeldKeeps
<1>15. ASSUME BeginDrain(t) PROVE Kept(e)'
  <2>1. \A u \in Threads : pc'[u] \in Pushed <=> pc[u] \in Pushed
    BY <1>15 DEF BeginDrain, Goto, TypeInv, TypeOK, Pushed, Stopping
  <2>2. QED BY <1>15, <2>1, Still DEF BeginDrain
<1>16. ASSUME Pop(t) PROVE Kept(e)'
  BY <1>16, PopKeeps
<1>17. ASSUME TakeDeferredEvent(t) PROVE Kept(e)'
  <2>1. \A u \in Threads : pc'[u] \in Pushed <=> pc[u] \in Pushed
    BY <1>17 DEF TakeDeferredEvent, Goto, TypeInv, TypeOK, Pushed
  <2>2. QED BY <1>17, <2>1, Still DEF TakeDeferredEvent
<1>18. ASSUME SelectState(t) PROVE Kept(e)'
  <2>1. \A u \in Threads : pc'[u] \in Pushed <=> pc[u] \in Pushed
    BY <1>18 DEF SelectState, Goto, TypeInv, TypeOK, Pushed
  <2>2. QED BY <1>18, <2>1, Still DEF SelectState, shared
<1>19. ASSUME BeginBehavior(t) PROVE Kept(e)'
  <2>1. \A u \in Threads : pc'[u] \in Pushed <=> pc[u] \in Pushed
    BY <1>19 DEF BeginBehavior, Goto, TypeInv, TypeOK, Pushed
  <2>2. QED BY <1>19, <2>1, Still DEF BeginBehavior
<1>20. ASSUME EndBehavior(t) PROVE Kept(e)'
  <2>1. \A u \in Threads : pc'[u] \in Pushed <=> pc[u] \in Pushed
    BY <1>20 DEF EndBehavior, Goto, TypeInv, TypeOK, Pushed
  <2>2. QED BY <1>20, <2>1, Still DEF EndBehavior
<1>21. ASSUME BehaviorDispatches(t) PROVE Kept(e)'
  <2>1. PICK x \in Unsent(Events) :
          /\ IF x \in SetAside(t)
             THEN pendingReentrant' = Append(pendingReentrant, x) /\ UNCHANGED queue
             ELSE queue' = Push(queue, x) /\ UNCHANGED pendingReentrant
          /\ Settle({x}, "open")
    BY <1>21 DEF BehaviorDispatches
  <2>2. UNCHANGED <<held, popped, local, carry, pc>>
    BY <1>21 DEF BehaviorDispatches, own
  <2>3. CASE x \in SetAside(t)
    BY <2>1, <2>2, <2>3, SetsAside
  <2>4. CASE x \notin SetAside(t)
    BY <2>1, <2>2, <2>4, Queues
  <2>5. QED BY <2>3, <2>4
<1>22. ASSUME AbandonDrain(t) PROVE Kept(e)'
  BY <1>22, AbandonDrainKeeps
<1>23. ASSUME AbandonOperation(t) PROVE Kept(e)'
  <2>1. \A u \in Threads : pc'[u] \in Pushed <=> pc[u] \in Pushed
    BY <1>23 DEF AbandonOperation, Goto, TypeInv, TypeOK, Pushed
  <2>2. QED BY <1>23, <2>1, GivesUp DEF AbandonOperation, shared
<1>24. ASSUME Ignore(t) PROVE Kept(e)'
  <2>1. \A u \in Threads : pc'[u] \in Pushed <=> pc[u] \in Pushed
    BY <1>24 DEF Ignore, Goto, TypeInv, TypeOK, Pushed
  <2>2. QED BY <1>24, <2>1, Finishes DEF Ignore, shared
<1>25. ASSUME Defer(t) PROVE Kept(e)'
  <2>1. \A u \in Threads : pc'[u] \in Pushed <=> pc[u] \in Pushed
    BY <1>25 DEF Defer, Goto, TypeInv, TypeOK, Pushed
  <2>2. QED BY <1>25, <2>1, Still DEF Defer, shared
<1>26. ASSUME DeferredOwner(t) PROVE Kept(e)'
  BY <1>26, DeferredOwnerKeeps
<1>27. ASSUME Transit(t) PROVE Kept(e)'
  <2>1. \A u \in Threads : pc'[u] \in Pushed <=> pc[u] \in Pushed
    BY <1>27 DEF Transit, Goto, TypeInv, TypeOK, Pushed
  <2>2. QED BY <1>27, <2>1, Finishes DEF Transit, shared
<1>28. ASSUME PushFinal(t) PROVE Kept(e)'
  BY <1>28, PushFinalKeeps
<1>29. ASSUME Fail(t) PROVE Kept(e)'
  BY <1>29, FailKeeps
<1>30. ASSUME DropExited(t) PROVE Kept(e)'
  BY <1>30, DropExitedKeeps
<1>31. ASSUME PushDeferred(t) PROVE Kept(e)'
  BY <1>31, PushDeferredKeeps
<1>32. ASSUME RecordDeferred(t) PROVE Kept(e)'
  BY <1>32, RecordDeferredKeeps
<1>33. ASSUME TakeReentrant(t) PROVE Kept(e)'
  BY <1>33, TakeReentrantKeeps
<1>34. ASSUME FlushReentrant(t) PROVE Kept(e)'
  BY <1>34, FlushReentrantKeeps
<1>35. ASSUME ReleaseDrain(t) PROVE Kept(e)'
  <2>1. \A u \in Threads : pc'[u] \in Pushed <=> pc[u] \in Pushed
    BY <1>35 DEF ReleaseDrain, Goto, TypeInv, TypeOK, Pushed
  <2>2. QED BY <1>35, <2>1, Still DEF ReleaseDrain
<1>36. ASSUME WipeReentrant(t) PROVE Kept(e)'
  BY <1>36, WipeReentrantKeeps
<1>37. ASSUME Start(t) PROVE Kept(e)'
  <2>1. \A u \in Threads : pc'[u] \in Pushed <=> pc[u] \in Pushed
    BY <1>37 DEF Start, Goto, TypeInv, TypeOK, Pushed
  <2>2. QED BY <1>37, <2>1, Still DEF Start, shared
<1>38. ASSUME AdmitStart(t) PROVE Kept(e)'
  <2>1. \A u \in Threads : pc'[u] \in Pushed <=> pc[u] \in Pushed
    BY <1>38 DEF AdmitStart, Goto, TypeInv, TypeOK, Pushed
  <2>2. QED BY <1>38, <2>1, Still DEF AdmitStart, shared
<1>39. ASSUME Activate(t) PROVE Kept(e)'
  BY <1>39, ActivateKeeps
<1>40. ASSUME Restart(t) PROVE Kept(e)'
  <2>1. \A u \in Threads : pc'[u] \in Pushed <=> pc[u] \in Pushed
    BY <1>40 DEF Restart, Goto, TypeInv, TypeOK, Pushed
  <2>2. QED BY <1>40, <2>1, Still DEF Restart, shared
<1>41. ASSUME Stop(t) PROVE Kept(e)'
  <2>1. \A u \in Threads : pc'[u] \in Pushed <=> pc[u] \in Pushed
    BY <1>41 DEF Stop, Goto, TypeInv, TypeOK, Pushed
  <2>2. QED BY <1>41, <2>1, Still DEF Stop, shared
<1>42. ASSUME StopReads(t) PROVE Kept(e)'
  <2>1. \A u \in Threads : pc'[u] \in Pushed <=> pc[u] \in Pushed
    BY <1>42 DEF StopReads, Goto, TypeInv, TypeOK, Pushed, Stopping
  <2>2. QED BY <1>42, <2>1, Still DEF StopReads, shared
<1>43. ASSUME ClearQueue(t) PROVE Kept(e)'
  BY <1>43, ClearQueueKeeps
<1>44. ASSUME ClearDeferred(t) PROVE Kept(e)'
  <2>1. \A u \in Threads : pc'[u] \in Pushed <=> pc[u] \in Pushed
    BY <1>44 DEF ClearDeferred, Goto, TypeInv, TypeOK, Pushed
  <2>2. QED BY <1>44, <2>1, Still DEF ClearDeferred
<1>45. ASSUME SwitchOff(t) PROVE Kept(e)'
  <2>1. \A u \in Threads : pc'[u] \in Pushed <=> pc[u] \in Pushed
    BY <1>45 DEF SwitchOff, Goto, TypeInv, TypeOK, Pushed, Stopping
  <2>2. QED BY <1>45, <2>1, Still DEF SwitchOff
<1>46. ASSUME KeepDeferred(t) PROVE Kept(e)'
  <2>1. /\ pc[t] = "matched" /\ popped[t] \in AllEvents
        /\ taken[t] \in Deferrals /\ Name[taken[t].event] = Name[popped[t]]
    BY <1>46 DEF KeepDeferred, TypeInv, TypeOK, Loaded, Hands
  <2>2. taken[t].event = popped[t]
    BY <2>1 DEF Deferrals, Record, DeferredApart
  <2>3. QED BY <1>46, <2>2, KeepDeferredKeeps
<1>47. ASSUME ExitDispatches(t) PROVE Kept(e)'
  <2>1. PICK x \in Unsent(Events) : held' = [held EXCEPT ![t] = x] /\ Settle({x}, "open")
    BY <1>47 DEF ExitDispatches
  <2>2. held[t] = None
    BY <1>47 DEF ExitDispatches, Hands, Offering, Stopping
  <2>3. \A u \in Threads : pc'[u] \in Pushed <=> pc[u] \in Pushed
    BY <1>47 DEF ExitDispatches, Goto, TypeInv, TypeOK, Pushed, Stopping
  <2>4. QED BY <1>47, <2>1, <2>2, <2>3, TakesUp DEF ExitDispatches, shared
<1>48. ASSUME StopExits(t) PROVE Kept(e)'
  <2>1. \A u \in Threads : pc'[u] \in Pushed <=> pc[u] \in Pushed
    BY <1>48 DEF StopExits, Goto, TypeInv, TypeOK, Pushed
  <2>2. QED BY <1>48, <2>1, Still DEF StopExits, shared
<1>49. ASSUME AbandonStop(t) PROVE Kept(e)'
  <2>1. \A u \in Threads : pc'[u] \in Pushed <=> pc[u] \in Pushed
    BY <1>49 DEF AbandonStop, Goto, TypeInv, TypeOK, Pushed, Stopping
  <2>2. QED BY <1>49, <2>1, Still DEF AbandonStop, shared
<1>50. QED
  BY <1>1, <1>2, <1>3, <1>4, <1>5, <1>6, <1>7, <1>8, <1>9, <1>10, <1>11, <1>12, <1>13,
       <1>14, <1>15, <1>16, <1>17, <1>18, <1>19, <1>20, <1>21, <1>22, <1>23, <1>24, <1>25,
       <1>26, <1>27, <1>28, <1>29, <1>30, <1>31, <1>32, <1>33, <1>34, <1>35, <1>36, <1>37,
       <1>38, <1>39, <1>40, <1>41, <1>42, <1>43, <1>44, <1>45, <1>46, <1>47, <1>48, <1>49
     DEF Proceeds, Invokes

-----------------------------------------------------------------------------
(***************************************************************************)
(* The theorem.                                                            *)
(***************************************************************************)

ConservedInv ==
  /\ DeferralsInv
  /\ \A t \in Threads : Hands(t)
  /\ \A e \in Events : Kept(e)

\* At the start nobody has anything.
LEMMA ConservedInit == Init => ConservedInv
<1> SUFFICES ASSUME Init PROVE ConservedInv
  OBVIOUS
<1>1. DeferralsInv
  BY DEF Init, DeferralsInv
<1>2. ASSUME NEW t \in Threads PROVE Hands(t)
  BY DEF Init, Hands
<1>3. ASSUME NEW e \in Events PROVE Kept(e)
  <2>1. e # None
    BY RuntimeAssumption DEF AllEvents
  <2>2. /\ ~Queued(e, queue) /\ QueuedOnce(e, queue) /\ At(e, pendingReentrant) = {}
        /\ \A u \in Threads : At(e, carry[u]) = {} /\ RecordsOf(e, local[u]) = {}
    BY DEF Init, EmptyQueue, Queued, QueuedOnce, At, RecordsOf, Lone
  <2>3. Single(e)
    BY <2>2 DEF Single, Lone
  <2>4. OnlyIn(e, "nowhere", None)
    BY <2>1, <2>2 DEF Init, OnlyIn
  <2>5. fate[e] = "unsent"
    BY DEF Init
  <2>6. QED BY <2>3, <2>4, <2>5 DEF Kept, Keepers
<1>4. QED BY <1>1, <1>2, <1>3 DEF ConservedInv

\* And every step hands on what there is.
LEMMA ConservedStep ==
  ASSUME DeferredApart, TypeInv, ConservedInv, [Next]_vars
  PROVE  ConservedInv'
<1>1. ASSUME NEW t \in Threads, Proceeds(t) \/ Invokes(t) PROVE ConservedInv'
  <2>1. DeferralsInv'
    BY <1>1, DeferralsStep DEF ConservedInv
  <2>2. Hands(t)' /\ Alone(t)
    BY <1>1, HandsStep DEF ConservedInv, DeferralsInv
  <2>3. ASSUME NEW u \in Threads PROVE Hands(u)'
    BY <2>2 DEF ConservedInv, Hands, Alone
  <2>4. ASSUME NEW e \in Events PROVE Kept(e)'
    BY <1>1, KeptStep DEF ConservedInv
  <2>5. QED BY <2>1, <2>3, <2>4 DEF ConservedInv
<1>2. ASSUME UNCHANGED vars PROVE ConservedInv'
  <2>1. DeferralsInv'
    BY <1>2 DEF vars, shared, own, ConservedInv, DeferralsInv
  <2>2. ASSUME NEW u \in Threads PROVE Hands(u)'
    BY <1>2 DEF vars, own, ConservedInv, Hands
  <2>3. ASSUME NEW e \in Events PROVE Kept(e)'
    BY <1>2, Still DEF vars, shared, own, ConservedInv
  <2>4. QED BY <2>1, <2>2, <2>3 DEF ConservedInv
<1>3. QED BY <1>1, <1>2 DEF Next

\* No places of a kind are no triples.
LEMMA NoPlace == \A k, S, T : S = {} \/ T = {} => {k} \X S \X T = {}
OBVIOUS

\* One place of a kind is one triple.
LEMMA OnePlace == \A k, a, b : {k} \X {a} \X {b} = {<<k, a, b>>}
OBVIOUS

\* At most one and not none is one.
LEMMA JustOne == \A S : Lone(S) /\ S # {} => \E i : S = {i}
BY DEF Lone

\* What is kept is in one place if it is open and in none if it is not.
LEMMA KeptCounts ==
  ASSUME NEW e, Kept(e)
  PROVE  Copies(e) = IF fate[e] = "open" THEN 1 ELSE 0
<1> DEFINE H == {"held"} \X {t \in Threads : held[t] = e} \X {0}
           P == {"popped"} \X {t \in Threads : popped[t] = e} \X {0}
           C == {"completion"} \X {None} \X At(e, queue.completion)
           R == {"regular"} \X {None} \X At(e, queue.regular)
           S == {"pending"} \X {None} \X At(e, pendingReentrant)
           K == UNION {{"carry"} \X {t} \X At(e, carry[t]) : t \in Threads}
           L == UNION {{"local"} \X {t} \X {i \in DOMAIN local[t] : local[t][i].event = e} :
                         t \in {u \in Threads : pc[u] \notin Pushed}}
<1>1. Places(e) = H \cup P \cup C \cup R \cup S \cup K \cup L
  BY DEF Places
<1>2. PICK k \in Keepers : \E u : OnlyIn(e, k, u) /\ (fate[e] = "open" <=> k # "nowhere")
  BY DEF Kept
<1>3. PICK u : OnlyIn(e, k, u) /\ (fate[e] = "open" <=> k # "nowhere")
  BY <1>2
<1>4. k # "held" => H = {}
  <2>1. k # "held" => {t \in Threads : held[t] = e} = {}
    BY <1>3 DEF OnlyIn
  <2>2. QED BY <2>1, NoPlace
<1>5. k # "popped" => P = {}
  <2>1. k # "popped" => {t \in Threads : popped[t] = e} = {}
    BY <1>3 DEF OnlyIn
  <2>2. QED BY <2>1, NoPlace
<1>6. k # "queue" => C = {} /\ R = {}
  <2>1. k # "queue" => At(e, queue.completion) = {} /\ At(e, queue.regular) = {}
    BY <1>3 DEF OnlyIn, Queued
  <2>2. QED BY <2>1, NoPlace
<1>7. k # "pending" => S = {}
  <2>1. k # "pending" => At(e, pendingReentrant) = {}
    BY <1>3 DEF OnlyIn
  <2>2. QED BY <2>1, NoPlace
<1>8. k # "carry" => K = {}
  <2>1. k # "carry" => \A t \in Threads : At(e, carry[t]) = {}
    BY <1>3 DEF OnlyIn
  <2>2. k # "carry" => \A t \in Threads : {"carry"} \X {t} \X At(e, carry[t]) = {}
    BY <2>1, NoPlace
  <2>3. QED BY <2>2
<1>9. k # "local" => L = {}
  <2>1. k # "local" => \A t \in {v \in Threads : pc[v] \notin Pushed} :
                          {i \in DOMAIN local[t] : local[t][i].event = e} = {}
    BY <1>3 DEF OnlyIn, RecordsOf
  <2>2. k # "local" => \A t \in {v \in Threads : pc[v] \notin Pushed} :
           {"local"} \X {t} \X {i \in DOMAIN local[t] : local[t][i].event = e} = {}
    BY <2>1, NoPlace
  <2>3. QED BY <2>2
<1>10. k = "held" => H = {<<"held", u, 0>>}
  <2>1. k = "held" => {t \in Threads : held[t] = e} = {u}
    BY <1>3 DEF OnlyIn
  <2>2. QED BY <2>1, OnePlace
<1>11. k = "popped" => P = {<<"popped", u, 0>>}
  <2>1. k = "popped" => {t \in Threads : popped[t] = e} = {u}
    BY <1>3 DEF OnlyIn
  <2>2. QED BY <2>1, OnePlace
<1>12. k = "queue" => \E i : \/ C \cup R = {<<"completion", None, i>>}
                             \/ C \cup R = {<<"regular", None, i>>}
  <2> SUFFICES ASSUME k = "queue"
               PROVE  \E i : \/ C \cup R = {<<"completion", None, i>>}
                             \/ C \cup R = {<<"regular", None, i>>}
    OBVIOUS
  <2>1. Queued(e, queue) /\ QueuedOnce(e, queue)
    BY <1>3 DEF OnlyIn, Kept, Single
  <2>2. CASE At(e, queue.completion) # {}
    <3>1. PICK i : At(e, queue.completion) = {i}
      BY <2>1, <2>2 DEF QueuedOnce, Lone
    <3>2. At(e, queue.regular) = {}
      BY <2>1, <2>2 DEF QueuedOnce
    <3>3. C = {<<"completion", None, i>>} /\ R = {}
      BY <3>1, <3>2, NoPlace, OnePlace
    <3> HIDE DEF C, R
    <3>4. QED BY <3>3
  <2>3. CASE At(e, queue.completion) = {}
    <3>1. PICK i : At(e, queue.regular) = {i}
      BY <2>1, <2>3 DEF Queued, QueuedOnce, Lone
    <3>2. R = {<<"regular", None, i>>} /\ C = {}
      BY <2>3, <3>1, NoPlace, OnePlace
    <3> HIDE DEF C, R
    <3>3. QED BY <3>2
  <2>4. QED BY <2>2, <2>3
<1>13. k = "pending" => \E i : S = {<<"pending", None, i>>}
  <2> SUFFICES ASSUME k = "pending" PROVE \E i : S = {<<"pending", None, i>>}
    OBVIOUS
  <2>1. At(e, pendingReentrant) # {} /\ Lone(At(e, pendingReentrant))
    BY <1>3 DEF OnlyIn, Kept, Single
  <2>2. PICK i : At(e, pendingReentrant) = {i}
    BY <2>1, JustOne
  <2>3. QED BY <2>2, OnePlace
<1>14. k = "carry" => \E i : K = {<<"carry", u, i>>}
  <2> SUFFICES ASSUME k = "carry" PROVE \E i : K = {<<"carry", u, i>>}
    OBVIOUS
  <2>1. u \in Threads /\ \A t \in Threads : t # u => At(e, carry[t]) = {}
    BY <1>3 DEF OnlyIn
  <2>2. PICK i : At(e, carry[u]) = {i}
    <3>1. At(e, carry[u]) # {} /\ Lone(At(e, carry[u]))
      BY <1>3, <2>1 DEF OnlyIn, Kept, Single
    <3>2. QED BY <3>1, JustOne
  <2>3. /\ {"carry"} \X {u} \X At(e, carry[u]) = {<<"carry", u, i>>}
        /\ \A t \in Threads : t # u => {"carry"} \X {t} \X At(e, carry[t]) = {}
    BY <2>1, <2>2, NoPlace, OnePlace
  <2>4. K = {<<"carry", u, i>>}
    <3> DEFINE F(t) == {"carry"} \X {t} \X At(e, carry[t])
    <3>1. F(u) = {<<"carry", u, i>>} /\ \A t \in Threads : t # u => F(t) = {}
      BY <2>3
    <3> HIDE DEF F
    <3>2. UNION {F(t) : t \in Threads} = {<<"carry", u, i>>}
      BY <2>1, <3>1
    <3>3. QED BY <3>2 DEF F
  <2>5. QED BY <2>4
<1>15. k = "local" => \E i : L = {<<"local", u, i>>}
  <2> SUFFICES ASSUME k = "local" PROVE \E i : L = {<<"local", u, i>>}
    OBVIOUS
  <2> DEFINE Q == {v \in Threads : pc[v] \notin Pushed}
  <2>1. u \in Q /\ \A t \in Q : t # u => RecordsOf(e, local[t]) = {}
    BY <1>3 DEF OnlyIn
  <2>2. PICK i : RecordsOf(e, local[u]) = {i}
    <3>1. RecordsOf(e, local[u]) # {} /\ Lone(RecordsOf(e, local[u]))
      BY <1>3, <2>1 DEF OnlyIn, Kept, Single
    <3>2. QED BY <3>1, JustOne
  <2>3. L = {<<"local", u, i>>}
    <3> DEFINE F(t) == {"local"} \X {t} \X {j \in DOMAIN local[t] : local[t][j].event = e}
    <3>1. F(u) = {<<"local", u, i>>} /\ \A t \in Q : t # u => F(t) = {}
      BY <2>1, <2>2, NoPlace, OnePlace DEF RecordsOf
    <3> HIDE DEF F, Q
    <3>2. UNION {F(t) : t \in Q} = {<<"local", u, i>>}
      BY <2>1, <3>1
    <3>3. QED BY <3>2 DEF F, Q
  <2>4. QED BY <2>3
<1> HIDE DEF H, P, C, R, S, K, L
<1>16. CASE k = "nowhere"
  <2>1. Places(e) = {} /\ fate[e] # "open"
    BY <1>1, <1>3, <1>4, <1>5, <1>6, <1>7, <1>8, <1>9, <1>16
  <2>2. QED BY <2>1, FS_EmptySet DEF Copies
<1>17. CASE k # "nowhere"
  <2>1. fate[e] = "open" /\ \E p : Places(e) = {p}
    BY <1>1, <1>3, <1>4, <1>5, <1>6, <1>7, <1>8, <1>9, <1>10, <1>11, <1>12, <1>13, <1>14,
       <1>15, <1>17 DEF Keepers
  <2>2. PICK p : Places(e) = {p}
    BY <2>1
  <2>3. Cardinality({p}) = 1
    BY FS_Singleton
  <2>4. QED BY <2>1, <2>2, <2>3 DEF Copies
<1>18. QED BY <1>16, <1>17

\* Of any machine whose deferred events are told apart by their names: an event
\* it has accepted and not settled is in one place (a caller's hands, the queue,
\* the drain, its deferrals, the events set aside), a settled one nowhere.
THEOREM EventsConserved == ASSUME DeferredApart PROVE Spec => []Conserved
<1>1. Init => ConservedInv
  BY ConservedInit
<1>2. TypeInv /\ ConservedInv /\ [Next]_vars => ConservedInv'
  BY ConservedStep
<1>3. ConservedInv => Conserved
  BY KeptCounts DEF ConservedInv, Conserved
<1>4. QED BY <1>1, <1>2, <1>3, TypeInvariant, PTL DEF Spec

-----------------------------------------------------------------------------
(***************************************************************************)
(* The promise.  Each step of the runtime is a step of Mailbox, or moves   *)
(* no event.  What an event's status is follows from where it is kept; who *)
(* may be lost, from three things that are true of a thread and of what is *)
(* set aside.                                                              *)
(***************************************************************************)

\* What may be set aside: events of calls, and of an activity's set.
Aside == Calls \cup IF "activity" \in Api THEN Changes ELSE {}

\* An operation of an activity is there only where activities are, and an event
\* is handed to deferred_owner only if a state defers it.
Reasons(t) ==
  /\ (pc[t] # "idle" /\ t \in Activities) \/ next[t] = "body" => "activity" \in Api
  /\ pc[t] = "owner" => Deferring(seen[t], popped[t]) # {}

ReasonsInv == pendingReentrant \in Seq(Aside) /\ \A t \in Threads : Reasons(t)

\* Of the others nothing that Reasons speaks of changes.
Apart(t) ==
  \A u \in Threads : u # t =>
    pc'[u] = pc[u] /\ next'[u] = next[u] /\ seen'[u] = seen[u] /\ popped'[u] = popped[u]

\* Each action leaves its thread with its reasons.
LEMMA ReasonsStep ==
  ASSUME TypeInv, NEW t \in Threads, Hands(t), Reasons(t), Proceeds(t) \/ Invokes(t)
  PROVE  Reasons(t)' /\ Apart(t)
<1> USE DEF TypeInv, TypeOK, Loaded, Hands, Reasons, Apart, Stopping
<1>1. ASSUME Dispatch(t) PROVE Reasons(t)' /\ Apart(t)
  BY <1>1 DEF Dispatch, Enter, Goto, shared
<1>2. ASSUME Set(t) PROVE Reasons(t)' /\ Apart(t)
  BY <1>2 DEF Set, Enter, Goto, shared
<1>3. ASSUME Call(t) PROVE Reasons(t)' /\ Apart(t)
  BY <1>3 DEF Call, Enter, Goto, shared
<1>4. ASSUME Admit(t) PROVE Reasons(t)' /\ Apart(t)
  BY <1>4 DEF Admit, Goto, shared
<1>5. ASSUME BeginOperation(t) PROVE Reasons(t)' /\ Apart(t)
  BY <1>5 DEF BeginOperation, Goto
<1>6. ASSUME OperationReenters(t) PROVE Reasons(t)' /\ Apart(t)
  BY <1>6 DEF OperationReenters, own
<1>7. ASSUME ActivityDispatches(t) PROVE Reasons(t)' /\ Apart(t)
  BY <1>7 DEF ActivityDispatches, Goto, shared
<1>8. ASSUME EndOperation(t) PROVE Reasons(t)' /\ Apart(t)
  BY <1>8 DEF EndOperation, Goto
<1>9. ASSUME LeaveFlush(t) PROVE Reasons(t)' /\ Apart(t)
  BY <1>9 DEF LeaveFlush, Goto, shared
<1>10. ASSUME DispatchCall(t) PROVE Reasons(t)' /\ Apart(t)
  BY <1>10 DEF DispatchCall, Goto, shared
<1>11. ASSUME Route(t) PROVE Reasons(t)' /\ Apart(t)
  BY <1>11 DEF Route, Goto, shared
<1>12. ASSUME RouteOperation(t) PROVE Reasons(t)' /\ Apart(t)
  BY <1>12 DEF RouteOperation, Goto, shared
<1>13. ASSUME QueueReentrantEvent(t) PROVE Reasons(t)' /\ Apart(t)
  BY <1>13 DEF QueueReentrantEvent, Goto
<1>14. ASSUME PushHeld(t) PROVE Reasons(t)' /\ Apart(t)
  BY <1>14 DEF PushHeld, Goto
<1>15. ASSUME BeginDrain(t) PROVE Reasons(t)' /\ Apart(t)
  BY <1>15 DEF BeginDrain, Goto
<1>16. ASSUME Pop(t) PROVE Reasons(t)' /\ Apart(t)
  BY <1>16 DEF Pop, Goto
<1>17. ASSUME TakeDeferredEvent(t) PROVE Reasons(t)' /\ Apart(t)
  BY <1>17 DEF TakeDeferredEvent, Goto
<1>18. ASSUME SelectState(t) PROVE Reasons(t)' /\ Apart(t)
  BY <1>18 DEF SelectState, Goto, shared
<1>19. ASSUME BeginBehavior(t) PROVE Reasons(t)' /\ Apart(t)
  BY <1>19 DEF BeginBehavior, Goto
<1>20. ASSUME EndBehavior(t) PROVE Reasons(t)' /\ Apart(t)
  BY <1>20 DEF EndBehavior, Goto
<1>21. ASSUME BehaviorDispatches(t) PROVE Reasons(t)' /\ Apart(t)
  BY <1>21 DEF BehaviorDispatches, own
<1>22. ASSUME AbandonDrain(t) PROVE Reasons(t)' /\ Apart(t)
  BY <1>22 DEF AbandonDrain, Goto, shared
<1>23. ASSUME AbandonOperation(t) PROVE Reasons(t)' /\ Apart(t)
  BY <1>23 DEF AbandonOperation, Goto, shared
<1>24. ASSUME Ignore(t) PROVE Reasons(t)' /\ Apart(t)
  BY <1>24 DEF Ignore, Goto, shared
<1>25. ASSUME Defer(t) PROVE Reasons(t)' /\ Apart(t)
  <2>1. seen' = seen /\ popped' = popped /\ next' = next /\ Deferring(seen[t], popped[t]) # {}
    BY <1>25 DEF Defer
  <2>2. pc' = [pc EXCEPT ![t] = "owner"]
    BY <1>25 DEF Defer, Goto
  <2>3. pc[t] # "idle"
    BY <1>25 DEF Defer
  <2>4. QED BY <2>1, <2>2, <2>3 DEF Deferring
<1>26. ASSUME DeferredOwner(t) PROVE Reasons(t)' /\ Apart(t)
  BY <1>26 DEF DeferredOwner, Goto, shared
<1>27. ASSUME Transit(t) PROVE Reasons(t)' /\ Apart(t)
  BY <1>27 DEF Transit, Goto
<1>28. ASSUME PushFinal(t) PROVE Reasons(t)' /\ Apart(t)
  BY <1>28 DEF PushFinal, Goto
<1>29. ASSUME Fail(t) PROVE Reasons(t)' /\ Apart(t)
  BY <1>29 DEF Fail, Goto, shared
<1>30. ASSUME DropExited(t) PROVE Reasons(t)' /\ Apart(t)
  BY <1>30 DEF DropExited, Goto, shared
<1>31. ASSUME PushDeferred(t) PROVE Reasons(t)' /\ Apart(t)
  BY <1>31 DEF PushDeferred, Goto
<1>32. ASSUME RecordDeferred(t) PROVE Reasons(t)' /\ Apart(t)
  BY <1>32 DEF RecordDeferred, Goto
<1>33. ASSUME TakeReentrant(t) PROVE Reasons(t)' /\ Apart(t)
  <2>1. UNCHANGED <<next, seen, popped>>
    BY <1>33 DEF TakeReentrant
  <2>2. /\ \A u \in Threads : u # t => pc'[u] = pc[u]
        /\ pc'[t] \in {"pop", "flush", "flushOperation", next[t]}
        /\ pc[t] \in {"take", "takeOperation"}
    BY <1>33, TakeReentrantMoves
  <2>3. QED BY <2>1, <2>2
<1>34. ASSUME FlushReentrant(t) PROVE Reasons(t)' /\ Apart(t)
  BY <1>34 DEF FlushReentrant, Goto
<1>35. ASSUME ReleaseDrain(t) PROVE Reasons(t)' /\ Apart(t)
  BY <1>35 DEF ReleaseDrain, Goto
<1>36. ASSUME WipeReentrant(t) PROVE Reasons(t)' /\ Apart(t)
  BY <1>36 DEF WipeReentrant, Goto
<1>37. ASSUME Start(t) PROVE Reasons(t)' /\ Apart(t)
  BY <1>37 DEF Start, Goto, shared
<1>38. ASSUME AdmitStart(t) PROVE Reasons(t)' /\ Apart(t)
  BY <1>38 DEF AdmitStart, Goto, shared
<1>39. ASSUME Activate(t) PROVE Reasons(t)' /\ Apart(t)
  BY <1>39 DEF Activate, Goto
<1>40. ASSUME Restart(t) PROVE Reasons(t)' /\ Apart(t)
  BY <1>40 DEF Restart, Goto, shared
<1>41. ASSUME Stop(t) PROVE Reasons(t)' /\ Apart(t)
  BY <1>41 DEF Stop, Goto, shared
<1>42. ASSUME StopReads(t) PROVE Reasons(t)' /\ Apart(t)
  BY <1>42 DEF StopReads, Goto, shared
<1>43. ASSUME ClearQueue(t) PROVE Reasons(t)' /\ Apart(t)
  BY <1>43 DEF ClearQueue, Goto
<1>44. ASSUME ClearDeferred(t) PROVE Reasons(t)' /\ Apart(t)
  BY <1>44 DEF ClearDeferred, Goto
<1>45. ASSUME SwitchOff(t) PROVE Reasons(t)' /\ Apart(t)
  BY <1>45 DEF SwitchOff, Goto
<1>46. ASSUME KeepDeferred(t) PROVE Reasons(t)' /\ Apart(t)
  BY <1>46 DEF KeepDeferred, Goto, shared
<1>47. ASSUME ExitDispatches(t) PROVE Reasons(t)' /\ Apart(t)
  BY <1>47 DEF ExitDispatches, Goto, shared, Stopping
<1>48. ASSUME StopExits(t) PROVE Reasons(t)' /\ Apart(t)
  BY <1>48 DEF StopExits, Goto, shared
<1>49. ASSUME AbandonStop(t) PROVE Reasons(t)' /\ Apart(t)
  BY <1>49 DEF AbandonStop, Goto, shared
<1>50. QED
  <2> HIDE DEF TypeInv, TypeOK, Loaded, Hands, Reasons, Apart
  <2> QED
    BY <1>1, <1>2, <1>3, <1>4, <1>5, <1>6, <1>7, <1>8, <1>9, <1>10, <1>11, <1>12, <1>13,
       <1>14, <1>15, <1>16, <1>17, <1>18, <1>19, <1>20, <1>21, <1>22, <1>23, <1>24, <1>25,
       <1>26, <1>27, <1>28, <1>29, <1>30, <1>31, <1>32, <1>33, <1>34, <1>35, <1>36, <1>37,
       <1>38, <1>39, <1>40, <1>41, <1>42, <1>43, <1>44, <1>45, <1>46, <1>47, <1>48, <1>49
       DEF Proceeds, Invokes

\* Only calls, and the sets of activities, are set aside.
LEMMA AsideStep ==
  ASSUME TypeInv, ReasonsInv, NEW t \in Threads, Proceeds(t) \/ Invokes(t)
  PROVE  pendingReentrant' \in Seq(Aside)
<1> USE DEF ReasonsInv
<1>1. ASSUME Dispatch(t) PROVE pendingReentrant' \in Seq(Aside)
  BY <1>1 DEF Dispatch, Enter, shared
<1>2. ASSUME Set(t) PROVE pendingReentrant' \in Seq(Aside)
  BY <1>2 DEF Set, Enter, shared
<1>3. ASSUME Call(t) PROVE pendingReentrant' \in Seq(Aside)
  BY <1>3 DEF Call, Enter, shared
<1>4. ASSUME Admit(t) PROVE pendingReentrant' \in Seq(Aside)
  BY <1>4 DEF Admit, shared
<1>5. ASSUME BeginOperation(t) PROVE pendingReentrant' \in Seq(Aside)
  BY <1>5 DEF BeginOperation
<1>6. ASSUME OperationReenters(t) PROVE pendingReentrant' \in Seq(Aside)
  <2>1. PICK x \in SetAside(t) : pendingReentrant' = Append(pendingReentrant, x)
    BY <1>6 DEF OperationReenters, Unsent
  <2>2. x \in Aside
    BY <1>6 DEF OperationReenters, SetAside, Aside, Reasons
  <2>3. QED BY <2>1, <2>2
<1>7. ASSUME ActivityDispatches(t) PROVE pendingReentrant' \in Seq(Aside)
  BY <1>7 DEF ActivityDispatches, shared
<1>8. ASSUME EndOperation(t) PROVE pendingReentrant' \in Seq(Aside)
  BY <1>8 DEF EndOperation
<1>9. ASSUME LeaveFlush(t) PROVE pendingReentrant' \in Seq(Aside)
  BY <1>9 DEF LeaveFlush, shared
<1>10. ASSUME DispatchCall(t) PROVE pendingReentrant' \in Seq(Aside)
  BY <1>10 DEF DispatchCall, shared
<1>11. ASSUME Route(t) PROVE pendingReentrant' \in Seq(Aside)
  BY <1>11 DEF Route, shared
<1>12. ASSUME RouteOperation(t) PROVE pendingReentrant' \in Seq(Aside)
  BY <1>12 DEF RouteOperation, shared
<1>13. ASSUME QueueReentrantEvent(t) PROVE pendingReentrant' \in Seq(Aside)
  <2>1. held[t] \in Aside
    BY <1>13 DEF QueueReentrantEvent, TypeInv, Loaded, Aside
  <2>2. QED BY <1>13, <2>1 DEF QueueReentrantEvent
<1>14. ASSUME PushHeld(t) PROVE pendingReentrant' \in Seq(Aside)
  BY <1>14 DEF PushHeld
<1>15. ASSUME BeginDrain(t) PROVE pendingReentrant' \in Seq(Aside)
  BY <1>15 DEF BeginDrain
<1>16. ASSUME Pop(t) PROVE pendingReentrant' \in Seq(Aside)
  BY <1>16 DEF Pop
<1>17. ASSUME TakeDeferredEvent(t) PROVE pendingReentrant' \in Seq(Aside)
  BY <1>17 DEF TakeDeferredEvent
<1>18. ASSUME SelectState(t) PROVE pendingReentrant' \in Seq(Aside)
  BY <1>18 DEF SelectState, shared
<1>19. ASSUME BeginBehavior(t) PROVE pendingReentrant' \in Seq(Aside)
  BY <1>19 DEF BeginBehavior
<1>20. ASSUME EndBehavior(t) PROVE pendingReentrant' \in Seq(Aside)
  BY <1>20 DEF EndBehavior
<1>21. ASSUME BehaviorDispatches(t) PROVE pendingReentrant' \in Seq(Aside)
  <2>1. PICK x : \/ x \in SetAside(t) /\ pendingReentrant' = Append(pendingReentrant, x)
                 \/ UNCHANGED pendingReentrant
    BY <1>21 DEF BehaviorDispatches
  <2>2. x \in SetAside(t) => x \in Aside
    BY <1>21 DEF BehaviorDispatches, SetAside, Aside, Reasons
  <2>3. QED BY <2>1, <2>2
<1>22. ASSUME AbandonDrain(t) PROVE pendingReentrant' \in Seq(Aside)
  BY <1>22 DEF AbandonDrain, shared
<1>23. ASSUME AbandonOperation(t) PROVE pendingReentrant' \in Seq(Aside)
  BY <1>23 DEF AbandonOperation, shared
<1>24. ASSUME Ignore(t) PROVE pendingReentrant' \in Seq(Aside)
  BY <1>24 DEF Ignore, shared
<1>25. ASSUME Defer(t) PROVE pendingReentrant' \in Seq(Aside)
  BY <1>25 DEF Defer, shared
<1>26. ASSUME DeferredOwner(t) PROVE pendingReentrant' \in Seq(Aside)
  BY <1>26 DEF DeferredOwner, shared
<1>27. ASSUME Transit(t) PROVE pendingReentrant' \in Seq(Aside)
  BY <1>27 DEF Transit
<1>28. ASSUME PushFinal(t) PROVE pendingReentrant' \in Seq(Aside)
  BY <1>28 DEF PushFinal
<1>29. ASSUME Fail(t) PROVE pendingReentrant' \in Seq(Aside)
  BY <1>29 DEF Fail, shared
<1>30. ASSUME DropExited(t) PROVE pendingReentrant' \in Seq(Aside)
  BY <1>30 DEF DropExited, shared
<1>31. ASSUME PushDeferred(t) PROVE pendingReentrant' \in Seq(Aside)
  BY <1>31 DEF PushDeferred
<1>32. ASSUME RecordDeferred(t) PROVE pendingReentrant' \in Seq(Aside)
  BY <1>32 DEF RecordDeferred
<1>33. ASSUME TakeReentrant(t) PROVE pendingReentrant' \in Seq(Aside)
  BY <1>33 DEF TakeReentrant
<1>34. ASSUME FlushReentrant(t) PROVE pendingReentrant' \in Seq(Aside)
  BY <1>34 DEF FlushReentrant
<1>35. ASSUME ReleaseDrain(t) PROVE pendingReentrant' \in Seq(Aside)
  BY <1>35 DEF ReleaseDrain
<1>36. ASSUME WipeReentrant(t) PROVE pendingReentrant' \in Seq(Aside)
  BY <1>36 DEF WipeReentrant
<1>37. ASSUME Start(t) PROVE pendingReentrant' \in Seq(Aside)
  BY <1>37 DEF Start, shared
<1>38. ASSUME AdmitStart(t) PROVE pendingReentrant' \in Seq(Aside)
  BY <1>38 DEF AdmitStart, shared
<1>39. ASSUME Activate(t) PROVE pendingReentrant' \in Seq(Aside)
  BY <1>39 DEF Activate
<1>40. ASSUME Restart(t) PROVE pendingReentrant' \in Seq(Aside)
  BY <1>40 DEF Restart, shared
<1>41. ASSUME Stop(t) PROVE pendingReentrant' \in Seq(Aside)
  BY <1>41 DEF Stop, shared
<1>42. ASSUME StopReads(t) PROVE pendingReentrant' \in Seq(Aside)
  BY <1>42 DEF StopReads, shared
<1>43. ASSUME ClearQueue(t) PROVE pendingReentrant' \in Seq(Aside)
  BY <1>43 DEF ClearQueue
<1>44. ASSUME ClearDeferred(t) PROVE pendingReentrant' \in Seq(Aside)
  BY <1>44 DEF ClearDeferred
<1>45. ASSUME SwitchOff(t) PROVE pendingReentrant' \in Seq(Aside)
  BY <1>45 DEF SwitchOff
<1>46. ASSUME KeepDeferred(t) PROVE pendingReentrant' \in Seq(Aside)
  BY <1>46 DEF KeepDeferred, shared
<1>47. ASSUME ExitDispatches(t) PROVE pendingReentrant' \in Seq(Aside)
  BY <1>47 DEF ExitDispatches, shared
<1>48. ASSUME StopExits(t) PROVE pendingReentrant' \in Seq(Aside)
  BY <1>48 DEF StopExits, shared
<1>49. ASSUME AbandonStop(t) PROVE pendingReentrant' \in Seq(Aside)
  BY <1>49 DEF AbandonStop, shared
<1>50. QED
  BY <1>1, <1>2, <1>3, <1>4, <1>5, <1>6, <1>7, <1>8, <1>9, <1>10, <1>11, <1>12, <1>13,
       <1>14, <1>15, <1>16, <1>17, <1>18, <1>19, <1>20, <1>21, <1>22, <1>23, <1>24, <1>25,
       <1>26, <1>27, <1>28, <1>29, <1>30, <1>31, <1>32, <1>33, <1>34, <1>35, <1>36, <1>37,
       <1>38, <1>39, <1>40, <1>41, <1>42, <1>43, <1>44, <1>45, <1>46, <1>47, <1>48, <1>49
     DEF Proceeds, Invokes

\* The status of an event nothing happens to, as far as its status tells.
LEMMA StatusStays ==
  ASSUME NEW t \in Threads, Alone(t), NEW e \in Events, fate'[e] = fate[e],
         held'[t] = e <=> held[t] = e,
         popped'[t] = e /\ pc'[t] \in Processing <=> popped[t] = e /\ pc[t] \in Processing
  PROVE  Status'[e] = Status[e]
<1>1. (\E u \in Threads : held'[u] = e) <=> (\E u \in Threads : held[u] = e)
  BY DEF Alone
<1>2. Running(e)' <=> Running(e)
  BY DEF Alone, Running
<1>3. QED BY <1>1, <1>2 DEF Status

\* A step after which every event has the status it had.
LEMMA NoneMoves ==
  ASSUME NEW t \in Threads, Alone(t), UNCHANGED fate,
         \A e \in Events : held'[t] = e <=> held[t] = e,
         \A e \in Events :
           popped'[t] = e /\ pc'[t] \in Processing <=> popped[t] = e /\ pc[t] \in Processing
  PROVE  UNCHANGED Status
<1>1. \A e \in Events : Status'[e] = Status[e]
  BY StatusStays
<1>2. Status = [e \in Events |-> Status[e]] /\ Status' = [e \in Events |-> Status'[e]]
  BY DEF Status
<1>3. QED BY <1>1, <1>2

\* A step after which some have another.
LEMMA SomeMove ==
  ASSUME NEW E, NEW from, NEW to,
         \A e \in E : Status[e] \in from,
         \A e \in Events : Status'[e] = IF e \in E THEN to ELSE Status[e]
  PROVE  Contract!Move(E, from, to)
<1>1. Status' = [e \in Events |-> Status'[e]]
  BY DEF Status
<1> DEFINE after == [e \in Events |-> IF e \in E THEN to ELSE Status[e]]
<1>2. Status' = after
  BY <1>1
<1>3. QED BY <1>2 DEF Contract!Move

\* And one.
LEMMA OneMoves ==
  ASSUME NEW x \in Events, NEW from, NEW to, Status[x] \in from, Status'[x] = to,
         \A e \in Events : e # x => Status'[e] = Status[e]
  PROVE  Contract!Move({x}, from, to)
<1>1. \A e \in {x} : Status[e] \in from
  OBVIOUS
<1>2. \A e \in Events : Status'[e] = IF e \in {x} THEN to ELSE Status[e]
  OBVIOUS
<1>3. QED BY ONLY <1>1, <1>2, SomeMove

\* What the status of an event is.
LEMMA StatusIs ==
  ASSUME NEW e \in Events
  PROVE  /\ fate[e] = "open" => Status[e] \in {"offered", "running", "waiting"}
         /\ fate[e] = "unsent" => Status[e] = "unsent"
         /\ fate[e] = "open" /\ (\E t \in Threads : held[t] = e) => Status[e] = "offered"
         /\ fate[e] = "open" /\ (\A t \in Threads : held[t] # e) =>
              Status[e] = IF Running(e) THEN "running" ELSE "waiting"
BY DEF Status

\* And what it becomes.
LEMMA StatusBecomes ==
  ASSUME NEW e \in Events
  PROVE  /\ fate'[e] \in {"failed", "dropped", "cleared", "wiped", "abandoned"} =>
              Status'[e] = "lost"
         /\ fate'[e] = "refused" => Status'[e] = "refused"
         /\ fate'[e] = "handled" => Status'[e] = "handled"
         /\ fate'[e] = "open" /\ (\E t \in Threads : held'[t] = e) => Status'[e] = "offered"
         /\ fate'[e] = "open" /\ (\A t \in Threads : held'[t] # e) =>
              Status'[e] = IF Running(e)' THEN "running" ELSE "waiting"
BY DEF Status

\* A caller takes up event x.
LEMMA OffersIt ==
  ASSUME NEW t \in Threads, Alone(t), TypeInv, NEW x \in Unsent(Events), held[t] = None,
         held' = [held EXCEPT ![t] = x], Settle({x}, "open"),
         pc[t] \notin Processing, pc'[t] \notin Processing
  PROVE  Contract!Next
<1>1. x \in Events /\ fate[x] = "unsent" /\ held'[t] = x
  BY DEF Unsent, TypeInv, TypeOK
<1>2. \A e \in Events : e # None
  BY RuntimeAssumption DEF AllEvents
<1>3. ASSUME NEW e \in Events, e # x PROVE Status'[e] = Status[e]
  BY <1>1, <1>2, <1>3, StatusStays DEF Settle
<1>4. Status[x] = "unsent" /\ Status'[x] = "offered"
  BY <1>1, StatusIs, StatusBecomes DEF Settle
<1>5. x \in Events /\ Status[x] \in {"unsent"} /\ Status'[x] = "offered"
  BY <1>1, <1>4
<1>6. Contract!Move({x}, {"unsent"}, "offered")
  BY ONLY <1>3, <1>5, OneMoves
<1>7. Contract!Offer(x)
  BY <1>6 DEF Contract!Offer
<1>8. QED BY <1>1, <1>7 DEF Contract!Next

\* A caller's event comes to nothing: it is refused, or lost.
LEMMA RefusesIt ==
  ASSUME NEW t \in Threads, Alone(t), TypeInv, \A e \in Events : Kept(e),
         NEW f \in {"refused", "abandoned"}, f = "abandoned" => Losable = Events,
         held' = [held EXCEPT ![t] = None], Settle({held[t]}, f),
         pc[t] \notin Processing, pc'[t] \notin Processing
  PROVE  Contract!Next \/ UNCHANGED Status
<1>1. held'[t] = None /\ \A e \in Events : e # None
  BY RuntimeAssumption DEF AllEvents, TypeInv, TypeOK
<1>2. ASSUME NEW e \in Events, e # held[t] PROVE Status'[e] = Status[e] /\ fate'[e] = fate[e]
  BY <1>1, <1>2, StatusStays DEF Settle
<1>3. CASE held[t] \in Events
  <2>1. PICK x \in Events : x = held[t]
    BY <1>3
  <2>2. \A e \in Events : e # x => Status'[e] = Status[e]
    BY <1>2, <2>1
  <2>3. Status[x] = "offered" /\ fate'[x] = f
    BY <2>1, IsHeld, StatusIs DEF Settle
  <2>4. CASE f = "refused"
    <3>1. Status'[x] = "refused"
      BY <2>3, <2>4, StatusBecomes
    <3>2. Contract!Refuse(x)
      BY <2>1, <2>2, <2>3, <3>1, OneMoves DEF Contract!Refuse
    <3>3. QED BY <3>2 DEF Contract!Next
  <2>5. CASE f = "abandoned"
    <3>1. Status[x] \in {"offered", "waiting", "running"} /\ Status'[x] = "lost"
      BY <2>3, <2>5, StatusBecomes
    <3>2. Contract!Move({x}, {"offered", "waiting", "running"}, "lost")
      BY ONLY <2>1, <2>2, <3>1, OneMoves
    <3>3. Contract!Lose({x})
      BY <2>5, <3>2 DEF Contract!Lose
    <3>4. QED BY <3>3 DEF Contract!Next
  <2>6. QED BY <2>4, <2>5
<1>4. CASE held[t] \notin Events
  <2>1. \A e \in Events : Status'[e] = Status[e]
    BY <1>2, <1>4
  <2>2. Status = [e \in Events |-> Status[e]] /\ Status' = [e \in Events |-> Status'[e]]
    BY DEF Status
  <2>3. QED BY <2>1, <2>2
<1>5. QED BY <1>3, <1>4

\* The machine accepts event x, which nobody has sent or its caller holds.
LEMMA AcceptsIt ==
  ASSUME NEW t \in Threads, Alone(t), TypeInv, NEW x \in Events, Kept(x),
         \/ fate[x] = "unsent" /\ held'[t] = held[t]
         \/ held[t] = x /\ held' = [held EXCEPT ![t] = None],
         fate'[x] = "open", \A e \in Events : e # x => fate'[e] = fate[e],
         popped' = popped, pc'[t] \in Processing <=> pc[t] \in Processing
  PROVE  Contract!Next
<1>1. \A e \in Events : e # None
  BY RuntimeAssumption DEF AllEvents
<1>2. ASSUME NEW e \in Events, e # x PROVE Status'[e] = Status[e]
  <2>1. held'[t] = e <=> held[t] = e
    BY <1>1, <1>2 DEF TypeInv, TypeOK
  <2>2. QED BY <1>2, <2>1, StatusStays
<1>3. Status[x] \in {"unsent", "offered"} /\ \A u \in Threads : held'[u] # x /\ popped[u] # x
  <2>1. CASE fate[x] = "unsent" /\ held'[t] = held[t]
    <3>1. OnlyIn(x, "nowhere", t)
      BY <2>1, IsNowhere
    <3>2. QED BY <2>1, <3>1, StatusIs DEF OnlyIn, Alone
  <2>2. CASE held[t] = x /\ held' = [held EXCEPT ![t] = None]
    <3>1. OnlyIn(x, "held", t) /\ fate[x] = "open"
      BY <2>2, IsHeld
    <3>2. held'[t] = None
      BY <2>2 DEF TypeInv, TypeOK
    <3>3. QED BY <1>1, <2>2, <3>1, <3>2, StatusIs DEF OnlyIn, Alone
  <2>3. QED BY <2>1, <2>2
<1>4. ~Running(x)'
  BY <1>3 DEF Running
<1>5. Status'[x] = "waiting"
  BY <1>3, <1>4, StatusBecomes
<1>6. x \in Events /\ Status[x] \in {"unsent", "offered"} /\ Status'[x] = "waiting"
  BY <1>3, <1>5
<1>7. Contract!Move({x}, {"unsent", "offered"}, "waiting")
  BY ONLY <1>2, <1>6, OneMoves
<1>8. Contract!Accept(x)
  BY <1>7 DEF Contract!Accept
<1>9. QED BY <1>8 DEF Contract!Next

\* Event x is no longer run: it is handled, given back or lost.
LEMMA EndsIt ==
  ASSUME NEW t \in Threads, Alone(t), TypeInv, \A e \in Events : Kept(e),
         pc[t] \in Processing, pc'[t] \notin Processing, held'[t] = held[t],
         popped' = [popped EXCEPT ![t] = None],
         \/ Settle({popped[t]}, "handled")
         \/ UNCHANGED fate
         \/ Settle({popped[t]}, "dropped") /\ Losable = Events
  PROVE  Contract!Next \/ UNCHANGED Status
<1>1. popped'[t] = None /\ \A e \in Events : e # None
  BY RuntimeAssumption DEF AllEvents, TypeInv, TypeOK
<1>2. ASSUME NEW e \in Events, e # popped[t] PROVE Status'[e] = Status[e]
  <2>1. fate'[e] = fate[e]
    BY <1>2 DEF Settle
  <2>2. QED BY <1>1, <1>2, <2>1, StatusStays
<1>3. CASE popped[t] \in Events
  <2> DEFINE x == popped[t]
  <2>1. OnlyIn(x, "popped", t) /\ fate[x] = "open"
    BY <1>3, IsPopped
  <2>2. Running(x) /\ \A u \in Threads : held[u] # x
    BY <2>1 DEF Running, OnlyIn
  <2>3. Status[x] = "running"
    BY <1>3, <2>1, <2>2, StatusIs
  <2> HIDE DEF x
  <2>4. x \in Events /\ x = popped[t]
    BY <1>3 DEF x
  <2>5. CASE Settle({x}, "handled")
    <3>1. Status'[x] = "handled"
      BY <2>4, <2>5, StatusBecomes DEF Settle
    <3>2. Contract!Handle(x)
      BY <1>2, <2>3, <2>4, <3>1, OneMoves DEF Contract!Handle
    <3>3. QED BY <2>4, <3>2 DEF Contract!Next
  <2>6. CASE UNCHANGED fate
    <3>1. \A u \in Threads : held'[u] # x /\ popped'[u] # x
      BY <1>1, <2>1, <2>2, <2>4 DEF OnlyIn, Alone
    <3>2. Status'[x] = "waiting"
      BY <2>1, <2>4, <2>6, <3>1, StatusBecomes DEF Running
    <3>3. Contract!GiveBack(x)
      BY <1>2, <2>3, <2>4, <3>2, OneMoves DEF Contract!GiveBack
    <3>4. QED BY <2>4, <3>3 DEF Contract!Next
  <2>7. CASE Settle({x}, "dropped") /\ Losable = Events
    <3>1. Status'[x] = "lost"
      BY <2>4, <2>7, StatusBecomes DEF Settle
    <3>2. /\ x \in Events /\ Status[x] \in {"offered", "waiting", "running"}
          /\ \A e \in Events : e # x => Status'[e] = Status[e]
      BY <1>2, <2>3, <2>4
    <3>3. Contract!Move({x}, {"offered", "waiting", "running"}, "lost")
      BY ONLY <3>1, <3>2, OneMoves
    <3>4. Contract!Lose({x})
      BY <2>4, <2>7, <3>3 DEF Contract!Lose
    <3>5. QED BY <2>4, <3>4 DEF Contract!Next
  <2>8. QED BY <2>4, <2>5, <2>6, <2>7
<1>4. CASE popped[t] \notin Events
  <2>1. \A e \in Events : Status'[e] = Status[e]
    BY <1>2, <1>4
  <2>2. Status = [e \in Events |-> Status[e]] /\ Status' = [e \in Events |-> Status'[e]]
    BY DEF Status
  <2>3. QED BY <2>1, <2>2
<1>5. QED BY <1>3, <1>4

\* Some events are lost.
LEMMA LosesThem ==
  ASSUME NEW D, NEW f \in {"failed", "dropped", "cleared", "wiped", "abandoned"},
         Settle(D, f),
         \A e \in Events : e \in D => fate[e] = "open" /\ e \in Losable,
         \A e \in Events : e \notin D => Status'[e] = Status[e]
  PROVE  Contract!Next
<1> DEFINE E == D \cap Events
<1>1. \A e \in E : Status[e] \in {"offered", "waiting", "running"}
  BY StatusIs
<1>2. ASSUME NEW e \in Events PROVE Status'[e] = IF e \in E THEN "lost" ELSE Status[e]
  <2>1. CASE e \in D
    <3>1. fate'[e] = f
      BY <2>1 DEF Settle
    <3>2. QED BY <2>1, <3>1, StatusBecomes
  <2>2. CASE e \notin D
    BY <2>2
  <2>3. QED BY <2>1, <2>2
<1>3. E \subseteq Losable /\ E \in SUBSET Events
  OBVIOUS
<1> HIDE DEF E
<1>4. Contract!Move(E, {"offered", "waiting", "running"}, "lost")
  BY <1>1, <1>2, SomeMove
<1>5. Contract!Lose(E)
  BY <1>3, <1>4 DEF Contract!Lose
<1>6. QED BY <1>3, <1>5 DEF Contract!Next

\* process_single_event takes up the event popped: nobody runs one meanwhile.
LEMMA RunsIt ==
  ASSUME TypeInv, DrainExclusive, NEW t \in Threads, Alone(t), SelectState(t),
         \A e \in Events : Kept(e)
  PROVE  Contract!Next \/ UNCHANGED Status
<1>1. /\ pc[t] = "select" /\ pc' = [pc EXCEPT ![t] = "run"]
      /\ UNCHANGED <<held, popped, fate>>
  BY DEF SelectState, Goto, shared
<1>2. \A u \in Threads : pc[u] \notin Processing
  BY <1>1 DEF DrainExclusive, InDrain, Processing
<1>3. pc'[t] \in Processing /\ \A u \in Threads : u # t => pc'[u] \notin Processing
  BY <1>1, <1>2 DEF Processing, TypeInv, TypeOK
<1>4. ASSUME NEW e \in Events, e # popped[t] PROVE Status'[e] = Status[e]
  BY <1>1, <1>4, StatusStays
<1>5. \A e \in Events : Status[e] # "running"
  BY <1>2 DEF Status, Running, Fates, TypeInv, TypeOK
<1>6. CASE popped[t] \in Events
  <2> DEFINE x == popped[t]
  <2>1. OnlyIn(x, "popped", t) /\ fate[x] = "open"
    BY <1>6, IsPopped
  <2>2. \A u \in Threads : held[u] # x
    BY <2>1 DEF OnlyIn
  <2>3. ~Running(x) /\ \E u \in Threads : popped'[u] = x /\ pc'[u] \in Processing
    BY <1>1, <1>2, <1>3 DEF Running
  <2> HIDE DEF x
  <2>4. x \in Events /\ x = popped[t]
    BY <1>6 DEF x
  <2>5. Status[x] = "waiting"
    BY <2>1, <2>2, <2>3, <2>4, StatusIs
  <2>6. fate'[x] = "open" /\ \A u \in Threads : held'[u] # x
    BY <1>1, <2>1, <2>2
  <2>7. Status'[x] = "running"
    <3>1. ~ \E u \in Threads : held'[u] = x
      BY <2>6
    <3>2. Status' = [e \in Events |->
             IF fate'[e] = "open"
             THEN IF \E u \in Threads : held'[u] = e THEN "offered"
                  ELSE IF \E u \in Threads : popped'[u] = e /\ pc'[u] \in Processing
                       THEN "running" ELSE "waiting"
             ELSE IF fate'[e] \in {"failed", "dropped", "cleared", "wiped", "abandoned"}
                  THEN "lost" ELSE fate'[e]]
      BY DEF Status, Running
    <3>3. QED BY <2>3, <2>4, <2>6, <3>1, <3>2
  <2>8. \A e \in Events : e # x => Status'[e] = Status[e]
    BY <1>4, <2>4
  <2>9. \A from, to : Status[x] \in from /\ Status'[x] = to => Contract!Move({x}, from, to)
    BY <2>4, <2>8, OneMoves
  <2>10. Contract!Move({x}, {"waiting"}, "running")
    BY <2>5, <2>7, <2>9
  <2>11. Contract!Run(x)
    BY <1>5, <2>10 DEF Contract!Run
  <2>12. QED BY <2>4, <2>11 DEF Contract!Next
<1>7. CASE popped[t] \notin Events
  <2>1. \A e \in Events : popped'[t] # e /\ popped[t] # e
    BY <1>1, <1>7
  <2>2. QED BY <1>1, <2>1, NoneMoves
<1>8. QED BY <1>6, <1>7

\* Fail and AbandonDrain lose what the drain had in hand.
LEMMA DrainLoses ==
  ASSUME TypeInv, NEW t \in Threads, Alone(t), Fail(t) \/ AbandonDrain(t),
         \A e \in Events : Kept(e)
  PROVE  Contract!Next
<1>1. Losable = Events
  BY DEF Fail, AbandonDrain, Losable
<1>2. pc[t] \notin Pushed /\ pc'[t] \notin Processing /\ popped'[t] = None
  BY DEF Fail, AbandonDrain, Goto, Pushed, Processing, TypeInv, TypeOK
<1>3. \A e \in Events : e # None
  BY RuntimeAssumption DEF AllEvents
<1>4. ASSUME NEW D, NEW f \in {"failed", "abandoned"}, Settle(D, f), NEW h \in {held[t], None},
             held'[t] = h,
             \A e \in Events : e \in D <=> \/ e = popped[t] \/ RecordsOf(e, local[t]) # {}
                                           \/ e = held[t] /\ h = None
      PROVE  Contract!Next
  <2>1. ASSUME NEW e \in Events, e \in D PROVE fate[e] = "open"
    BY <1>2, <1>4, <2>1, IsPopped, IsLocal, IsHeld
  <2>2. ASSUME NEW e \in Events, e \notin D PROVE Status'[e] = Status[e]
    <3>1. fate'[e] = fate[e]
      BY <1>4, <2>2 DEF Settle
    <3>2. held'[t] = e <=> held[t] = e
      BY <1>3, <1>4, <2>2
    <3>3. QED BY <1>2, <1>3, <1>4, <2>2, <3>1, <3>2, StatusStays
  <2>3. QED BY <1>1, <1>4, <2>1, <2>2, LosesThem
<1> DEFINE L == {r.event : r \in Elements(local[t])}
<1>5. \A e : e \in L <=> RecordsOf(e, local[t]) # {}
  BY DEF RecordsOf, Elements
<1>6. CASE Fail(t)
  <2>1. Settle({popped[t]} \cup L, "failed") /\ held'[t] = held[t]
    BY <1>6 DEF Fail
  <2> HIDE DEF L
  <2>2. CASE held[t] # None
    <3>1. \A e \in Events : e \in {popped[t]} \cup L <=>
             \/ e = popped[t] \/ RecordsOf(e, local[t]) # {}
             \/ e = held[t] /\ held[t] = None
      BY <1>5, <2>2
    <3>2. QED BY <1>4, <2>1, <3>1
  <2>3. CASE held[t] = None
    <3>1. \A e \in Events : e \in {popped[t]} \cup L <=>
             \/ e = popped[t] \/ RecordsOf(e, local[t]) # {}
             \/ e = held[t] /\ held[t] = None
      BY <1>3, <1>5, <2>3
    <3>2. QED BY <1>4, <2>1, <3>1
  <2>4. QED BY <2>2, <2>3
<1>7. CASE AbandonDrain(t)
  <2>1. Settle({popped[t], held[t]} \cup L, "abandoned") /\ held'[t] = None
    BY <1>7 DEF AbandonDrain, TypeInv, TypeOK
  <2> HIDE DEF L
  <2>2. \A e \in Events : e \in {popped[t], held[t]} \cup L <=>
           \/ e = popped[t] \/ RecordsOf(e, local[t]) # {}
           \/ e = held[t] /\ None = None
    BY <1>5
  <2>3. QED BY <1>4, <2>1, <2>2
<1>8. QED BY <1>6, <1>7

\* Leaving a submachine loses what a state inside it had deferred.
LEMMA ExitLoses ==
  ASSUME TypeInv, DeferralsInv, NEW t \in Threads, Alone(t), DropExited(t),
         \A e \in Events : Kept(e)
  PROVE  Contract!Next
<1> DEFINE kept == {r \in Elements(local[t]) : Survives(r.owner, currentState, source[t])}
           D == {r.event : r \in Elements(local[t]) \ kept}
<1>1. Settle(D, "dropped") /\ pc[t] = "requeue"
  BY DEF DropExited
<1>2. ASSUME NEW e \in Events, e \notin D PROVE Status'[e] = Status[e]
  <2>1. fate'[e] = fate[e]
    BY <1>1, <1>2 DEF Settle
  <2>2. UNCHANGED <<held, popped>> /\ pc'[t] \notin Processing
    BY DEF DropExited, Goto, Processing, TypeInv, TypeOK
  <2>3. QED BY <1>1, <2>1, <2>2, StatusStays DEF Processing
<1>3. ASSUME NEW e \in Events, e \in D PROVE fate[e] = "open" /\ e \in Losable
  <2>1. PICK r \in Elements(local[t]) : ~Survives(r.owner, currentState, source[t]) /\ r.event = e
    BY <1>3
  <2> HIDE DEF D, kept
  <2>2. PICK i \in DOMAIN local[t] : r = local[t][i]
    BY <2>1 DEF Elements
  <2>3. fate[e] = "open"
    BY <1>1, <2>1, <2>2, IsLocal DEF RecordsOf, Pushed
  <2>4. r \in Deferrals
    BY <2>2 DEF DeferralsInv
  <2>5. r.owner \in States \cup {Root} /\ <<r.owner, Name[e]>> \in Defers
    BY <2>1, <2>4 DEF Deferrals, Record
  <2>6. PICK a \in Exited(r.owner, currentState) : TRUE
    BY <2>1 DEF Survives, Innermost
  <2>7. a \in (Ancestors[r.owner] \ {r.owner}) \cap Submachines
    BY <2>6 DEF Exited
  <2>8. r.owner # Root
    BY <2>7, RuntimeAssumption
  <2>9. r.owner \in Inside
    BY <2>5, <2>7, <2>8 DEF Inside
  <2>10. QED BY <2>3, <2>5, <2>9 DEF Losable
<1> HIDE DEF D, kept
<1>4. QED BY <1>1, <1>2, <1>3, LosesThem

\* The drop of the guard loses what was set aside.
LEMMA WipeLoses ==
  ASSUME TypeInv, ReasonsInv, NEW t \in Threads, Alone(t), WipeReentrant(t),
         \A e \in Events : Kept(e)
  PROVE  Contract!Next
<1> DEFINE D == Elements(pendingReentrant)
<1>1. Settle(D, "wiped") /\ UNCHANGED <<held, popped>>
  BY DEF WipeReentrant
<1>2. pc[t] \notin Processing /\ pc'[t] \notin Processing
  BY DEF WipeReentrant, Goto, Processing, TypeInv, TypeOK, Stopping
<1>3. ASSUME NEW e \in Events, e \notin D PROVE Status'[e] = Status[e]
  BY <1>1, <1>2, <1>3, StatusStays DEF Settle
<1>4. ASSUME NEW e \in Events, e \in D PROVE fate[e] = "open" /\ e \in Losable
  <2>1. PICK i \in DOMAIN pendingReentrant : pendingReentrant[i] = e
    BY <1>4 DEF Elements
  <2>2. fate[e] = "open"
    BY <2>1, IsPending DEF At
  <2>3. e \in Aside
    BY <2>1 DEF ReasonsInv
  <2>4. QED BY <2>2, <2>3 DEF Losable, Aside
<1> HIDE DEF D
<1>5. QED BY <1>1, <1>3, <1>4, LosesThem

\* A stop loses what is queued.
LEMMA ClearLoses ==
  ASSUME TypeInv, Losable = Events, NEW t \in Threads, Alone(t), ClearQueue(t),
         \A e \in Events : Kept(e)
  PROVE  Contract!Next
<1> DEFINE D == Elements(queue.completion) \cup Elements(queue.regular)
<1>1. Settle(D, "cleared") /\ UNCHANGED <<held, popped>>
  BY DEF ClearQueue
<1>2. pc[t] \notin Processing /\ pc'[t] \notin Processing
  BY DEF ClearQueue, Goto, Processing, TypeInv, TypeOK
<1>3. ASSUME NEW e \in Events, e \notin D PROVE Status'[e] = Status[e]
  BY <1>1, <1>2, <1>3, StatusStays DEF Settle
<1>4. ASSUME NEW e \in Events, e \in D PROVE fate[e] = "open"
  BY <1>4, IsQueued DEF Elements, Queued, At
<1> HIDE DEF D
<1>5. QED BY <1>1, <1>3, <1>4, LosesThem

\* Each step keeps the promise.
LEMMA StepImplements ==
  ASSUME TypeInv, DrainExclusive, ConservedInv, ReasonsInv,
         Api \cap {"start", "stop", "restart"} = {} => StableInv,
         NEW t \in Threads, Proceeds(t) \/ Invokes(t)
  PROVE  Contract!Next \/ UNCHANGED Status
<1> DEFINE Goal == Contract!Next \/ UNCHANGED Status
<1>0. /\ Hands(t) /\ Reasons(t) /\ DeferralsInv /\ Alone(t)
      /\ \A e \in Events : Kept(e)
  BY HandsStep DEF ConservedInv, DeferralsInv, ReasonsInv
<1>1. ASSUME Dispatch(t) PROVE Goal
  <2>1. PICK x \in Unsent(Events \ (Calls \cup Changes)) : Enter(t, x, "dispatch")
    BY <1>1 DEF Dispatch
  <2>2. x \in Unsent(Events)
    BY RuntimeAssumption DEF Unsent
  <2>3. held[t] = None
    BY <1>0, <2>1 DEF Enter, Hands, Offering, TypeInv, Loaded, InFlush, InDrain, Processing
  <2>4. pc[t] \notin Processing /\ pc'[t] \notin Processing
    BY <2>1 DEF Enter, Goto, TypeInv, TypeOK, Processing
  <2>5. QED BY <1>0, <2>1, <2>2, <2>3, <2>4, OffersIt DEF Enter
<1>2. ASSUME Set(t) PROVE Goal
  <2>1. PICK x \in Unsent(Changes) : Enter(t, x, "set")
    BY <1>2 DEF Set
  <2>2. x \in Unsent(Events)
    BY RuntimeAssumption DEF Unsent
  <2>3. held[t] = None
    BY <1>0, <2>1 DEF Enter, Hands, Offering, TypeInv, Loaded, InFlush, InDrain, Processing
  <2>4. pc[t] \notin Processing /\ pc'[t] \notin Processing
    BY <2>1 DEF Enter, Goto, TypeInv, TypeOK, Processing
  <2>5. QED BY <1>0, <2>1, <2>2, <2>3, <2>4, OffersIt DEF Enter
<1>3. ASSUME Call(t) PROVE Goal
  <2>1. PICK x \in Unsent(Calls) : Enter(t, x, "call")
    BY <1>3 DEF Call
  <2>2. x \in Unsent(Events)
    BY RuntimeAssumption DEF Unsent
  <2>3. held[t] = None
    BY <1>0, <2>1 DEF Enter, Hands, Offering, TypeInv, Loaded, InFlush, InDrain, Processing
  <2>4. pc[t] \notin Processing /\ pc'[t] \notin Processing
    BY <2>1 DEF Enter, Goto, TypeInv, TypeOK, Processing
  <2>5. QED BY <1>0, <2>1, <2>2, <2>3, <2>4, OffersIt DEF Enter
<1>4. ASSUME Admit(t) PROVE Goal
  <2>1. pc[t] \notin Processing /\ pc'[t] \notin Processing /\ UNCHANGED popped
    BY <1>4 DEF Admit, Goto, TypeInv, TypeOK, Processing
  <2>2. CASE UNCHANGED <<held, fate>>
    BY <1>0, <2>1, <2>2, NoneMoves
  <2>3. CASE Settle({held[t]}, "refused") /\ held' = [held EXCEPT ![t] = None]
    BY <1>0, <2>1, <2>3, RefusesIt
  <2>4. QED BY <1>4, <2>2, <2>3 DEF Admit
<1>5. ASSUME BeginOperation(t) PROVE Goal
  <2>1. pc[t] \notin Processing /\ pc'[t] \notin Processing
    BY <1>5 DEF BeginOperation, Goto, TypeInv, TypeOK, Processing, Stopping
  <2>2. UNCHANGED <<held, fate>>
    BY <1>5 DEF BeginOperation
  <2>3. QED BY <1>0, <2>1, <2>2, NoneMoves
<1>6. ASSUME OperationReenters(t) PROVE Goal
  <2>1. PICK x \in Unsent(SetAside(t)) : Settle({x}, "open")
    BY <1>6 DEF OperationReenters
  <2>2. x \in Events /\ fate[x] = "unsent"
    BY <2>1, RuntimeAssumption DEF Unsent, SetAside
  <2>3. UNCHANGED <<held, popped, pc>>
    BY <1>6 DEF OperationReenters, own
  <2>4. fate'[x] = "open" /\ \A e \in Events : e # x => fate'[e] = fate[e]
    BY <2>1, <2>2 DEF Settle
  <2>5. QED BY <1>0, <2>2, <2>3, <2>4, AcceptsIt
<1>7. ASSUME ActivityDispatches(t) PROVE Goal
  <2>1. PICK x \in Unsent(Events \ SetAside(t)) :
          held' = [held EXCEPT ![t] = x] /\ Settle({x}, "open")
    BY <1>7 DEF ActivityDispatches
  <2>2. x \in Unsent(Events)
    BY DEF Unsent
  <2>3. held[t] = None
    BY <1>0, <1>7 DEF ActivityDispatches, Hands, Offering
  <2>4. pc[t] \notin Processing /\ pc'[t] \notin Processing
    BY <1>7 DEF ActivityDispatches, Goto, TypeInv, TypeOK, Processing
  <2>5. QED BY <1>0, <2>1, <2>2, <2>3, <2>4, OffersIt
<1>8. ASSUME EndOperation(t) PROVE Goal
  <2>1. PICK ok \in BOOLEAN :
          /\ Settle(IF ok THEN {} ELSE {held[t]}, "refused")
          /\ held' = IF ok THEN held ELSE [held EXCEPT ![t] = None]
    BY <1>8 DEF EndOperation
  <2>2. pc[t] \notin Processing /\ pc'[t] \notin Processing /\ UNCHANGED popped
    BY <1>8 DEF EndOperation, Goto, TypeInv, TypeOK, Processing, Stopping
  <2>3. CASE ok
    <3>1. fate' = fate /\ held' = held
      BY <2>1, <2>3 DEF Settle, TypeInv, TypeOK
    <3>2. QED BY <1>0, <2>2, <3>1, NoneMoves
  <2>4. CASE ~ok
    BY <1>0, <2>1, <2>2, <2>4, RefusesIt
  <2>5. QED BY <2>3, <2>4
<1>9. ASSUME LeaveFlush(t) PROVE Goal
  <2>1. pc[t] \notin Processing /\ pc'[t] \notin Processing
    BY <1>9 DEF LeaveFlush, Goto, TypeInv, TypeOK, Processing, Stopping
  <2>2. UNCHANGED <<held, fate>>
    BY <1>9 DEF LeaveFlush
  <2>3. QED BY <1>0, <2>1, <2>2, NoneMoves
<1>10. ASSUME DispatchCall(t) PROVE Goal
  <2>1. pc[t] \notin Processing /\ pc'[t] \notin Processing
    BY <1>10 DEF DispatchCall, Goto, TypeInv, TypeOK, Processing
  <2>2. UNCHANGED <<held, fate>>
    BY <1>10 DEF DispatchCall
  <2>3. QED BY <1>0, <2>1, <2>2, NoneMoves
<1>11. ASSUME Route(t) PROVE Goal
  <2>1. pc[t] \notin Processing /\ pc'[t] \notin Processing
    BY <1>11 DEF Route, Goto, TypeInv, TypeOK, Processing
  <2>2. UNCHANGED <<held, fate>>
    BY <1>11 DEF Route
  <2>3. QED BY <1>0, <2>1, <2>2, NoneMoves
<1>12. ASSUME RouteOperation(t) PROVE Goal
  <2>1. pc[t] \notin Processing /\ pc'[t] \notin Processing
    BY <1>12 DEF RouteOperation, Goto, TypeInv, TypeOK, Processing
  <2>2. UNCHANGED <<held, fate>>
    BY <1>12 DEF RouteOperation
  <2>3. QED BY <1>0, <2>1, <2>2, NoneMoves
<1>13. ASSUME QueueReentrantEvent(t) PROVE Goal
  <2>1. held[t] \in Events /\ held' = [held EXCEPT ![t] = None] /\ UNCHANGED <<fate, popped>>
    BY <1>13, RuntimeAssumption DEF QueueReentrantEvent, TypeInv, Loaded
  <2>2. pc[t] \notin Processing /\ pc'[t] \notin Processing
    BY <1>13 DEF QueueReentrantEvent, Goto, TypeInv, TypeOK, Processing, Stopping
  <2>3. fate'[held[t]] = "open"
    BY <1>0, <2>1, IsHeld
  <2>4. QED BY <1>0, <2>1, <2>2, <2>3, AcceptsIt
<1>14. ASSUME PushHeld(t) PROVE Goal
  <2>1. held' = [held EXCEPT ![t] = None] /\ UNCHANGED <<fate, popped>>
    BY <1>14 DEF PushHeld
  <2>2. pc[t] \notin Processing /\ pc'[t] \notin Processing
    BY <1>14 DEF PushHeld, Goto, TypeInv, TypeOK, Processing
  <2>3. CASE held[t] \in Events
    <3>1. fate'[held[t]] = "open"
      BY <1>0, <2>1, <2>3, IsHeld
    <3>2. QED BY <1>0, <2>1, <2>2, <2>3, <3>1, AcceptsIt
  <2>4. CASE held[t] \notin Events
    <3>1. \A e \in Events : held'[t] # e /\ held[t] # e
      BY <2>1, <2>4, RuntimeAssumption DEF AllEvents, TypeInv, TypeOK
    <3>2. QED BY <1>0, <2>1, <2>2, <3>1, NoneMoves
  <2>5. QED BY <2>3, <2>4
<1>15. ASSUME BeginDrain(t) PROVE Goal
  <2>1. pc[t] \notin Processing /\ pc'[t] \notin Processing
    BY <1>15 DEF BeginDrain, Goto, TypeInv, TypeOK, Processing, Stopping
  <2>2. UNCHANGED <<held, fate>>
    BY <1>15 DEF BeginDrain
  <2>3. QED BY <1>0, <2>1, <2>2, NoneMoves
<1>16. ASSUME Pop(t) PROVE Goal
  <2>1. pc[t] \notin Processing /\ pc'[t] \notin Processing
    BY <1>16 DEF Pop, Goto, TypeInv, TypeOK, Processing
  <2>2. UNCHANGED <<held, fate>>
    BY <1>16 DEF Pop
  <2>3. QED BY <1>0, <2>1, <2>2, NoneMoves
<1>17. ASSUME TakeDeferredEvent(t) PROVE Goal
  <2>1. pc[t] \notin Processing /\ pc'[t] \notin Processing
    BY <1>17 DEF TakeDeferredEvent, Goto, TypeInv, TypeOK, Processing
  <2>2. UNCHANGED <<held, fate>>
    BY <1>17 DEF TakeDeferredEvent
  <2>3. QED BY <1>0, <2>1, <2>2, NoneMoves
<1>18. ASSUME SelectState(t) PROVE Goal
  BY <1>0, <1>18, RunsIt
<1>19. ASSUME BeginBehavior(t) PROVE Goal
  <2>1. pc[t] \in Processing /\ pc'[t] \in Processing /\ UNCHANGED <<held, popped, fate>>
    BY <1>19 DEF BeginBehavior, Goto, TypeInv, TypeOK, Processing
  <2>2. QED BY <1>0, <2>1, NoneMoves
<1>20. ASSUME EndBehavior(t) PROVE Goal
  <2>1. pc[t] \in Processing /\ pc'[t] \in Processing /\ UNCHANGED <<held, popped, fate>>
    BY <1>20 DEF EndBehavior, Goto, TypeInv, TypeOK, Processing
  <2>2. QED BY <1>0, <2>1, NoneMoves
<1>21. ASSUME BehaviorDispatches(t) PROVE Goal
  <2>1. PICK x \in Unsent(Events) : Settle({x}, "open")
    BY <1>21 DEF BehaviorDispatches
  <2>2. x \in Events /\ fate[x] = "unsent"
    BY <2>1 DEF Unsent
  <2>3. UNCHANGED <<held, popped, pc>>
    BY <1>21 DEF BehaviorDispatches, own
  <2>4. fate'[x] = "open" /\ \A e \in Events : e # x => fate'[e] = fate[e]
    BY <2>1, <2>2 DEF Settle
  <2>5. QED BY <1>0, <2>2, <2>3, <2>4, AcceptsIt
<1>22. ASSUME AbandonDrain(t) PROVE Goal
  BY <1>0, <1>22, DrainLoses
<1>23. ASSUME AbandonOperation(t) PROVE Goal
  <2>1. pc[t] \notin Processing /\ pc'[t] \notin Processing
    BY <1>23 DEF AbandonOperation, Goto, TypeInv, TypeOK, Processing
  <2>2. Losable = Events
    BY <1>23 DEF AbandonOperation, Losable
  <2>3. held' = [held EXCEPT ![t] = None] /\ Settle({held[t]}, "abandoned")
    BY <1>23 DEF AbandonOperation
  <2>4. QED BY <1>0, <2>1, <2>2, <2>3, RefusesIt
<1>24. ASSUME Ignore(t) PROVE Goal
  <2>1. pc[t] \in Processing /\ pc'[t] \notin Processing
    BY <1>24 DEF Ignore, Goto, TypeInv, TypeOK, Processing
  <2>2. UNCHANGED held /\ popped' = [popped EXCEPT ![t] = None] /\ Settle({popped[t]}, "handled")
    BY <1>24 DEF Ignore
  <2>3. QED BY <1>0, <2>1, <2>2, EndsIt
<1>25. ASSUME Defer(t) PROVE Goal
  <2>1. pc[t] \in Processing /\ pc'[t] \in Processing /\ UNCHANGED <<held, popped, fate>>
    BY <1>25 DEF Defer, Goto, TypeInv, TypeOK, Processing
  <2>2. QED BY <1>0, <2>1, NoneMoves
<1>26. ASSUME DeferredOwner(t) PROVE Goal
  <2>1. pc[t] \in Processing /\ pc'[t] \notin Processing
    BY <1>26 DEF DeferredOwner, Goto, TypeInv, TypeOK, Processing
  <2>2. UNCHANGED held /\ popped' = [popped EXCEPT ![t] = None]
    BY <1>26 DEF DeferredOwner
  <2>3. CASE UNCHANGED fate
    BY <1>0, <2>1, <2>2, <2>3, EndsIt
  <2>4. CASE Deferring(currentState, popped[t]) = {} /\ Settle({popped[t]}, "dropped")
    <3>1. Deferring(seen[t], popped[t]) # {}
      BY <1>0, <1>26 DEF DeferredOwner, Reasons
    <3>2. seen[t] # currentState
      BY <2>4, <3>1
    <3>3. ~StableInv
      BY <2>1, <3>2 DEF StableInv, StateStable
    <3>4. Losable = Events
      BY <3>3 DEF Losable
    <3>5. QED BY <1>0, <2>1, <2>2, <2>4, <3>4, EndsIt
  <2>5. QED BY <1>26, <2>3, <2>4 DEF DeferredOwner
<1>27. ASSUME Transit(t) PROVE Goal
  <2>1. pc[t] \in Processing /\ pc'[t] \notin Processing
    BY <1>27 DEF Transit, Goto, TypeInv, TypeOK, Processing
  <2>2. UNCHANGED held /\ popped' = [popped EXCEPT ![t] = None] /\ Settle({popped[t]}, "handled")
    BY <1>27 DEF Transit
  <2>3. QED BY <1>0, <2>1, <2>2, EndsIt
<1>28. ASSUME PushFinal(t) PROVE Goal
  <2>1. pc[t] \notin Processing /\ pc'[t] \notin Processing
    BY <1>28 DEF PushFinal, Goto, TypeInv, TypeOK, Processing
  <2>2. UNCHANGED <<held, fate>>
    BY <1>28 DEF PushFinal
  <2>3. QED BY <1>0, <2>1, <2>2, NoneMoves
<1>29. ASSUME Fail(t) PROVE Goal
  BY <1>0, <1>29, DrainLoses
<1>30. ASSUME DropExited(t) PROVE Goal
  BY <1>0, <1>30, ExitLoses
<1>31. ASSUME PushDeferred(t) PROVE Goal
  <2>1. pc[t] \notin Processing /\ pc'[t] \notin Processing
    BY <1>31 DEF PushDeferred, Goto, TypeInv, TypeOK, Processing
  <2>2. UNCHANGED <<held, fate>>
    BY <1>31 DEF PushDeferred
  <2>3. QED BY <1>0, <2>1, <2>2, NoneMoves
<1>32. ASSUME RecordDeferred(t) PROVE Goal
  <2>1. pc[t] \notin Processing /\ pc'[t] \notin Processing
    BY <1>32 DEF RecordDeferred, Goto, TypeInv, TypeOK, Processing
  <2>2. UNCHANGED <<held, fate>>
    BY <1>32 DEF RecordDeferred
  <2>3. QED BY <1>0, <2>1, <2>2, NoneMoves
<1>33. ASSUME TakeReentrant(t) PROVE Goal
  <2>1. pc[t] \notin Processing /\ pc'[t] \notin Processing
    BY <1>33, TakeReentrantMoves DEF TypeInv, TypeOK, Processing, Stopping
  <2>2. UNCHANGED <<held, popped, fate>>
    BY <1>33 DEF TakeReentrant
  <2>3. QED BY <1>0, <2>1, <2>2, NoneMoves
<1>34. ASSUME FlushReentrant(t) PROVE Goal
  <2>1. pc[t] \notin Processing /\ pc'[t] \notin Processing
    BY <1>34 DEF FlushReentrant, Goto, TypeInv, TypeOK, Processing
  <2>2. UNCHANGED <<held, fate>>
    BY <1>34 DEF FlushReentrant
  <2>3. QED BY <1>0, <2>1, <2>2, NoneMoves
<1>35. ASSUME ReleaseDrain(t) PROVE Goal
  <2>1. pc[t] \notin Processing /\ pc'[t] \notin Processing
    BY <1>35 DEF ReleaseDrain, Goto, TypeInv, TypeOK, Processing
  <2>2. UNCHANGED <<held, fate>>
    BY <1>35 DEF ReleaseDrain
  <2>3. QED BY <1>0, <2>1, <2>2, NoneMoves
<1>36. ASSUME WipeReentrant(t) PROVE Goal
  BY <1>0, <1>36, WipeLoses
<1>37. ASSUME Start(t) PROVE Goal
  <2>1. pc[t] \notin Processing /\ pc'[t] \notin Processing
    BY <1>37 DEF Start, Goto, TypeInv, TypeOK, Processing
  <2>2. UNCHANGED <<held, fate>>
    BY <1>37 DEF Start
  <2>3. QED BY <1>0, <2>1, <2>2, NoneMoves
<1>38. ASSUME AdmitStart(t) PROVE Goal
  <2>1. pc[t] \notin Processing /\ pc'[t] \notin Processing
    BY <1>38 DEF AdmitStart, Goto, TypeInv, TypeOK, Processing
  <2>2. UNCHANGED <<held, fate>>
    BY <1>38 DEF AdmitStart
  <2>3. QED BY <1>0, <2>1, <2>2, NoneMoves
<1>39. ASSUME Activate(t) PROVE Goal
  <2>1. held' = [held EXCEPT ![t] = InitialEvent] /\ UNCHANGED <<fate, popped>>
    BY <1>39 DEF Activate
  <2>2. pc[t] \notin Processing /\ pc'[t] \notin Processing
    BY <1>39 DEF Activate, Goto, TypeInv, TypeOK, Processing
  <2>3. held[t] = None
    BY <1>0, <1>39 DEF Activate, Hands, Offering, TypeInv, Loaded, InFlush, InDrain, Processing
  <2>4. \A e \in Events : held'[t] # e /\ held[t] # e
    BY <2>1, <2>3, RuntimeAssumption DEF AllEvents, TypeInv, TypeOK
  <2>5. QED BY <1>0, <2>1, <2>2, <2>4, NoneMoves
<1>40. ASSUME Restart(t) PROVE Goal
  <2>1. pc[t] \notin Processing /\ pc'[t] \notin Processing
    BY <1>40 DEF Restart, Goto, TypeInv, TypeOK, Processing
  <2>2. UNCHANGED <<held, fate>>
    BY <1>40 DEF Restart
  <2>3. QED BY <1>0, <2>1, <2>2, NoneMoves
<1>41. ASSUME Stop(t) PROVE Goal
  <2>1. pc[t] \notin Processing /\ pc'[t] \notin Processing
    BY <1>41 DEF Stop, Goto, TypeInv, TypeOK, Processing
  <2>2. UNCHANGED <<held, fate>>
    BY <1>41 DEF Stop
  <2>3. QED BY <1>0, <2>1, <2>2, NoneMoves
<1>42. ASSUME StopReads(t) PROVE Goal
  <2>1. pc[t] \notin Processing /\ pc'[t] \notin Processing
    BY <1>42 DEF StopReads, Goto, TypeInv, TypeOK, Processing, Stopping
  <2>2. UNCHANGED <<held, fate>>
    BY <1>42 DEF StopReads
  <2>3. QED BY <1>0, <2>1, <2>2, NoneMoves
<1>43. ASSUME ClearQueue(t) PROVE Goal
  <2>1. ~StableInv
    BY <1>43 DEF ClearQueue, StableInv, Lifecycle, Stopping
  <2>2. Losable = Events
    BY <2>1 DEF Losable
  <2>3. QED BY <1>0, <1>43, <2>2, ClearLoses
<1>44. ASSUME ClearDeferred(t) PROVE Goal
  <2>1. pc[t] \notin Processing /\ pc'[t] \notin Processing
    BY <1>44 DEF ClearDeferred, Goto, TypeInv, TypeOK, Processing
  <2>2. UNCHANGED <<held, fate>>
    BY <1>44 DEF ClearDeferred
  <2>3. QED BY <1>0, <2>1, <2>2, NoneMoves
<1>45. ASSUME SwitchOff(t) PROVE Goal
  <2>1. pc[t] \notin Processing /\ pc'[t] \notin Processing
    BY <1>45 DEF SwitchOff, Goto, TypeInv, TypeOK, Processing, Stopping
  <2>2. UNCHANGED <<held, fate>>
    BY <1>45 DEF SwitchOff
  <2>3. QED BY <1>0, <2>1, <2>2, NoneMoves
<1>46. ASSUME KeepDeferred(t) PROVE Goal
  <2>1. pc[t] = "matched" /\ UNCHANGED <<held, fate>>
        /\ pc'[t] \in {"pop", "select"} /\ pc[t] \notin Processing /\ pc'[t] \notin Processing
    BY <1>46 DEF KeepDeferred, Goto, TypeInv, TypeOK, Processing
  <2>2. QED BY <1>0, <2>1, NoneMoves
<1>47. ASSUME ExitDispatches(t) PROVE Goal
  <2>1. PICK x \in Unsent(Events) : held' = [held EXCEPT ![t] = x] /\ Settle({x}, "open")
    BY <1>47 DEF ExitDispatches
  <2>2. held[t] = None
    BY <1>0, <1>47 DEF ExitDispatches, Hands, Offering, Stopping
  <2>3. pc[t] \notin Processing /\ pc'[t] \notin Processing
    BY <1>47 DEF ExitDispatches, Goto, TypeInv, TypeOK, Processing, Stopping
  <2>4. QED BY <1>0, <2>1, <2>2, <2>3, OffersIt
<1>48. ASSUME StopExits(t) PROVE Goal
  <2>1. pc[t] \notin Processing /\ pc'[t] \notin Processing
    BY <1>48 DEF StopExits, Goto, TypeInv, TypeOK, Processing, Stopping
  <2>2. UNCHANGED <<held, fate>>
    BY <1>48 DEF StopExits
  <2>3. QED BY <1>0, <2>1, <2>2, NoneMoves
<1>49. ASSUME AbandonStop(t) PROVE Goal
  <2>1. pc[t] \notin Processing /\ pc'[t] \notin Processing
    BY <1>49 DEF AbandonStop, Goto, TypeInv, TypeOK, Processing, Stopping
  <2>2. UNCHANGED <<held, fate>>
    BY <1>49 DEF AbandonStop
  <2>3. QED BY <1>0, <2>1, <2>2, NoneMoves
<1>50. QED
  <2> HIDE DEF Goal
  <2>1. Goal
    BY <1>1, <1>2, <1>3, <1>4, <1>5, <1>6, <1>7, <1>8, <1>9, <1>10, <1>11, <1>12, <1>13,
       <1>14, <1>15, <1>16, <1>17, <1>18, <1>19, <1>20, <1>21, <1>22, <1>23, <1>24, <1>25,
       <1>26, <1>27, <1>28, <1>29, <1>30, <1>31, <1>32, <1>33, <1>34, <1>35, <1>36, <1>37,
       <1>38, <1>39, <1>40, <1>41, <1>42, <1>43, <1>44, <1>45, <1>46, <1>47, <1>48, <1>49
       DEF Proceeds, Invokes
  <2>2. QED BY <2>1 DEF Goal

\* The invariant of the promise.
PromiseInv ==
  /\ ConservedInv /\ ReasonsInv
  /\ Api \cap {"start", "stop", "restart"} = {} => StableInv

\* A machine starts out with nothing set aside and no event sent.
LEMMA PromiseInit == Init => PromiseInv /\ Contract!Init
<1> SUFFICES ASSUME Init PROVE PromiseInv /\ Contract!Init
  OBVIOUS
<1>1. ReasonsInv
  BY DEF Init, ReasonsInv, Reasons
<1>2. StableInv
  BY DEF Init, StableInv, DrainExclusive, StateStable, Lifecycle, Processing, InDrain, Stopping
<1>3. \A e \in Events : Status[e] = "unsent"
  BY DEF Init, Status
<1>4. Status = [e \in Events |-> Status[e]]
  BY DEF Status
<1>5. Contract!Init
  BY <1>3, <1>4 DEF Contract!Init
<1>6. QED BY <1>1, <1>2, <1>5, ConservedInit DEF PromiseInv

\* And every step keeps it.
LEMMA PromiseStep ==
  ASSUME DeferredApart, TypeInv, PromiseInv, [Next]_vars
  PROVE  PromiseInv'
<1>1. ConservedInv'
  BY ConservedStep DEF PromiseInv
<1>2. ReasonsInv'
  <2>1. ASSUME NEW t \in Threads, Proceeds(t) \/ Invokes(t) PROVE ReasonsInv'
    <3>1. Reasons(t)' /\ Apart(t)
      BY <2>1, ReasonsStep DEF PromiseInv, ConservedInv, ReasonsInv
    <3>2. ASSUME NEW u \in Threads PROVE Reasons(u)'
      BY <3>1 DEF PromiseInv, ReasonsInv, Reasons, Apart, Deferring
    <3>3. pendingReentrant' \in Seq(Aside)
      BY <2>1, AsideStep DEF PromiseInv
    <3>4. QED BY <3>2, <3>3 DEF ReasonsInv
  <2>2. ASSUME UNCHANGED vars PROVE ReasonsInv'
    BY <2>2 DEF vars, shared, own, PromiseInv, ReasonsInv, Reasons, Deferring
  <2>3. QED BY <2>1, <2>2 DEF Next
<1>3. ASSUME Api \cap {"start", "stop", "restart"} = {} PROVE StableInv'
  BY <1>3, StableStep DEF PromiseInv
<1>4. QED BY <1>1, <1>2, <1>3 DEF PromiseInv

\* Of any machine whose deferred events are told apart by their names: the
\* runtime keeps the promise of Mailbox.  Events are accepted or refused, run one
\* at a time and once, given back whole, and lost only where an entry point may
\* cost one.
THEOREM RunsToCompletion == ASSUME DeferredApart PROVE Spec => RunToCompletion
<1>1. Init => PromiseInv /\ Contract!Init
  BY PromiseInit
<1>2. TypeInv /\ PromiseInv /\ [Next]_vars => PromiseInv'
  BY PromiseStep
<1>3. TypeInv /\ DrainExclusive /\ PromiseInv /\ [Next]_vars => [Contract!Next]_Status
  <2> SUFFICES ASSUME TypeInv, DrainExclusive, PromiseInv, [Next]_vars
               PROVE  [Contract!Next]_Status
    OBVIOUS
  <2>1. ASSUME NEW t \in Threads, Proceeds(t) \/ Invokes(t) PROVE [Contract!Next]_Status
    BY <2>1, StepImplements DEF PromiseInv
  <2>2. ASSUME UNCHANGED vars PROVE UNCHANGED Status
    BY <2>2 DEF vars, shared, own, Status, Running
  <2>3. QED BY <2>1, <2>2 DEF Next
<1>4. QED BY <1>1, <1>2, <1>3, TypeInvariant, DrainsExclude, PTL
          DEF Spec, RunToCompletion, Contract!Spec

-----------------------------------------------------------------------------
(***************************************************************************)
(* The depth of ACTIVE_OPERATIONS.  An operation's end is not counted when *)
(* its future is dropped, so nobody drops one here.                        *)
(***************************************************************************)

\* Those whose operation, or the operation of whose activity, is running.
Operating == {t \in Threads : pc[t] = "body" \/ next[t] = "body"}

\* Those who run a behaviour that is a named operation.
Behaving == {t \in Threads : pc[t] = "behave"}

\* Where an activity is while it dispatches: from its operation and back to it.
Dispatching == InDrain \cup {"push", "drain", "wipe", "body"}

OperationsInv ==
  /\ OperationsCounted
  /\ \A t \in Threads : next[t] = "body" => pc[t] \in Dispatching

\* Nobody but t moves, and t's next step is again of its dispatch or elsewhere.
MovesAlone(t) ==
  /\ next'[t] = "body" => pc'[t] \in Dispatching
  /\ \A u \in Threads : u # t => pc'[u] = pc[u] /\ next'[u] = next[u]

\* A step that begins and ends no operation.
SameOperations(t) ==
  /\ MovesAlone(t)
  /\ activeOperations' = activeOperations
  /\ (pc'[t] = "body" \/ next'[t] = "body") <=> t \in Operating
  /\ pc'[t] = "behave" <=> t \in Behaving

\* Every other action of t leaves the operations alone.
LEMMA NoOperation ==
  ASSUME TypeInv, OperationsInv, "abandon" \notin Api, NEW t \in Threads,
         Proceeds(t) \/ Invokes(t),
         ~BeginOperation(t), ~EndOperation(t), ~BeginBehavior(t), ~EndBehavior(t)
  PROVE  SameOperations(t)
<1> USE DEF TypeInv, TypeOK, OperationsInv, SameOperations, MovesAlone, Operating, Behaving,
        Dispatching, InDrain, Processing, Stopping
<1>1. ASSUME Dispatch(t) PROVE SameOperations(t)
  BY <1>1 DEF Dispatch, Enter, Goto, shared
<1>2. ASSUME Set(t) PROVE SameOperations(t)
  BY <1>2 DEF Set, Enter, Goto, shared
<1>3. ASSUME Call(t) PROVE SameOperations(t)
  BY <1>3 DEF Call, Enter, Goto, shared
<1>4. ASSUME Admit(t) PROVE SameOperations(t)
  <2>1. /\ pc[t] \in {"dispatch", "set", "call"}
        /\ pc' = [pc EXCEPT ![t] = "idle"] \/ \E l \in {"route", "push", "operate"} :
             pc' = [pc EXCEPT ![t] = l]
        /\ next' = next /\ activeOperations' = activeOperations
    BY <1>4 DEF Admit, Goto, shared
  <2>2. QED BY <2>1
<1>5. ASSUME OperationReenters(t) PROVE SameOperations(t)
  BY <1>5 DEF OperationReenters, Goto, own
<1>6. ASSUME ActivityDispatches(t) PROVE SameOperations(t)
  BY <1>6 DEF ActivityDispatches, Goto, shared
<1>7. ASSUME LeaveFlush(t) PROVE SameOperations(t)
  BY <1>7 DEF LeaveFlush, Goto, shared
<1>8. ASSUME DispatchCall(t) PROVE SameOperations(t)
  BY <1>8 DEF DispatchCall, Goto, shared
<1>9. ASSUME Route(t) PROVE SameOperations(t)
  BY <1>9 DEF Route, Goto, shared
<1>10. ASSUME RouteOperation(t) PROVE SameOperations(t)
  BY <1>10 DEF RouteOperation, Goto, shared
<1>11. ASSUME QueueReentrantEvent(t) PROVE SameOperations(t)
  BY <1>11 DEF QueueReentrantEvent, Goto
<1>12. ASSUME PushHeld(t) PROVE SameOperations(t)
  BY <1>12 DEF PushHeld, Goto
<1>13. ASSUME BeginDrain(t) PROVE SameOperations(t)
  BY <1>13 DEF BeginDrain, Free, Goto
<1>14. ASSUME Pop(t) PROVE SameOperations(t)
  BY <1>14 DEF Pop, Goto
<1>15. ASSUME TakeDeferredEvent(t) PROVE SameOperations(t)
  BY <1>15 DEF TakeDeferredEvent, Goto
<1>16. ASSUME SelectState(t) PROVE SameOperations(t)
  BY <1>16 DEF SelectState, Goto, shared
<1>17. ASSUME BehaviorDispatches(t) PROVE SameOperations(t)
  BY <1>17 DEF BehaviorDispatches, Goto, own
<1>18. ASSUME Ignore(t) PROVE SameOperations(t)
  BY <1>18 DEF Ignore, Goto, shared
<1>19. ASSUME Defer(t) PROVE SameOperations(t)
  BY <1>19 DEF Defer, Goto, shared
<1>20. ASSUME DeferredOwner(t) PROVE SameOperations(t)
  BY <1>20 DEF DeferredOwner, Goto, shared
<1>21. ASSUME PushFinal(t) PROVE SameOperations(t)
  BY <1>21 DEF PushFinal, Goto
<1>22. ASSUME Fail(t) PROVE SameOperations(t)
  BY <1>22 DEF Fail, Goto, shared
<1>23. ASSUME DropExited(t) PROVE SameOperations(t)
  BY <1>23 DEF DropExited, Goto, shared
<1>24. ASSUME PushDeferred(t) PROVE SameOperations(t)
  BY <1>24 DEF PushDeferred, Goto
<1>25. ASSUME RecordDeferred(t) PROVE SameOperations(t)
  BY <1>25 DEF RecordDeferred, Goto
<1>26. ASSUME TakeReentrant(t) PROVE SameOperations(t)
  <2>1. PICK step \in {<<"take", "flush", "pop">>,
                       <<"takeOperation", "flushOperation", next[t]>>} :
          /\ pc[t] = step[1]
          /\ pc' = [pc EXCEPT ![t] = IF pendingReentrant = <<>> THEN step[3] ELSE step[2]]
          /\ next' = next /\ activeOperations' = activeOperations
    BY <1>26 DEF TakeReentrant, Goto
  <2>2. CASE step = <<"take", "flush", "pop">>
    BY <2>1, <2>2
  <2>3. CASE step = <<"takeOperation", "flushOperation", next[t]>>
    BY <2>1, <2>3
  <2>4. QED BY <2>1, <2>2, <2>3
<1>27. ASSUME FlushReentrant(t) PROVE SameOperations(t)
  BY <1>27 DEF FlushReentrant, Goto
<1>28. ASSUME ReleaseDrain(t) PROVE SameOperations(t)
  BY <1>28 DEF ReleaseDrain, Goto
<1>29. ASSUME WipeReentrant(t) PROVE SameOperations(t)
  BY <1>29 DEF WipeReentrant, Goto
<1>30. ASSUME Transit(t) PROVE SameOperations(t)
  BY <1>30 DEF Transit, Goto
<1>31. ASSUME Start(t) PROVE SameOperations(t)
  BY <1>31 DEF Start, Goto, shared
<1>32. ASSUME AdmitStart(t) PROVE SameOperations(t)
  BY <1>32 DEF AdmitStart, Goto, shared
<1>33. ASSUME Restart(t) PROVE SameOperations(t)
  BY <1>33 DEF Restart, Goto, shared
<1>34. ASSUME Stop(t) PROVE SameOperations(t)
  BY <1>34 DEF Stop, Goto, shared
<1>35. ASSUME StopReads(t) PROVE SameOperations(t)
  BY <1>35 DEF StopReads, Goto, shared
<1>36. ASSUME Activate(t) PROVE SameOperations(t)
  BY <1>36 DEF Activate, Goto
<1>37. ASSUME ClearQueue(t) PROVE SameOperations(t)
  BY <1>37 DEF ClearQueue, Goto
<1>38. ASSUME ClearDeferred(t) PROVE SameOperations(t)
  BY <1>38 DEF ClearDeferred, Goto
<1>39. ASSUME SwitchOff(t) PROVE SameOperations(t)
  BY <1>39 DEF SwitchOff, Goto
<1>40. ~AbandonDrain(t) /\ ~AbandonOperation(t)
  BY DEF AbandonDrain, AbandonOperation
<1>41. ASSUME KeepDeferred(t) PROVE SameOperations(t)
  BY <1>41 DEF KeepDeferred, Goto, shared
<1>42. ASSUME ExitDispatches(t) PROVE SameOperations(t)
  BY <1>42 DEF ExitDispatches, Goto, shared
<1>43. ASSUME StopExits(t) PROVE SameOperations(t)
  <2>1. PICK step \in {<<"stopping", "idle">>, <<"restarting", "start">>} :
          /\ pc[t] = step[1] /\ pc' = [pc EXCEPT ![t] = "clearQueue"]
          /\ next' = [next EXCEPT ![t] = step[2]]
          /\ activeOperations' = activeOperations
    BY <1>43 DEF StopExits, Goto, shared
  <2>2. step[1] \in Stopping /\ step[2] \in {"idle", "start"}
    BY <2>1 DEF Stopping
  <2>3. QED BY <2>1, <2>2
<1>44. ~AbandonStop(t)
  BY DEF AbandonStop
<1>45. QED
  <2> HIDE DEF TypeInv, TypeOK, OperationsInv, SameOperations, MovesAlone, Operating, Behaving,
           Dispatching, InDrain, Processing, Stopping
  <2> QED
    BY <1>1, <1>2, <1>3, <1>4, <1>5, <1>6, <1>7, <1>8, <1>9, <1>10, <1>11, <1>12, <1>13,
       <1>14, <1>15, <1>16, <1>17, <1>18, <1>19, <1>20, <1>21, <1>22, <1>23, <1>24, <1>25,
       <1>26, <1>27, <1>28, <1>29, <1>30, <1>31, <1>32, <1>33, <1>34, <1>35, <1>36, <1>37,
       <1>38, <1>39, <1>40, <1>41, <1>42, <1>43, <1>44
       DEF Proceeds, Invokes

\* A step that begins or ends one operation, as the depth does, keeps the count.
LEMMA OneOperation ==
  ASSUME IsFiniteSet(Threads), NEW S \in SUBSET Threads, NEW t \in Threads
  PROVE  /\ Cardinality(S) \in Nat
         /\ t \notin S => Cardinality(S \cup {t}) = Cardinality(S) + 1
         /\ t \in S => Cardinality(S \ {t}) = Cardinality(S) - 1 /\ Cardinality(S) > 0
<1>1. IsFiniteSet(S)
  BY FS_Subset
<1>2. Cardinality(S) \in Nat
  BY <1>1, FS_CardinalityType
<1>3. Cardinality(S) = 0 <=> S = {}
  BY <1>1, FS_EmptySet, Zenon
<1>4. Cardinality(S \cup {t}) = IF t \in S THEN Cardinality(S) ELSE Cardinality(S) + 1
  BY <1>1, FS_AddElement, Zenon
<1>5. Cardinality(S \ {t}) = IF t \in S THEN Cardinality(S) - 1 ELSE Cardinality(S)
  BY <1>1, FS_RemoveElement, Zenon
<1>6. t \in S => Cardinality(S) # 0
  BY <1>3
<1>7. QED BY <1>2, <1>4, <1>5, <1>6

\* Every step counts.
LEMMA OperationsStep ==
  ASSUME IsFiniteSet(Threads), "abandon" \notin Api, TypeInv, OperationsInv, [Next]_vars
  PROVE  OperationsInv'
<1> DEFINE Counted == activeOperations = Cardinality(Operating) + Cardinality(Behaving)
<1>1. Counted /\ activeOperations \in Nat
  BY DEF OperationsInv, OperationsCounted, Operating, Behaving, TypeInv, TypeOK
<1>2. ASSUME NEW t \in Threads, MovesAlone(t), Counted' PROVE OperationsInv'
  BY <1>2 DEF MovesAlone, OperationsInv, OperationsCounted, Operating, Behaving
<1>3. ASSUME NEW t \in Threads, SameOperations(t) PROVE OperationsInv'
  <2>1. Operating' = Operating /\ Behaving' = Behaving
    BY <1>3 DEF SameOperations, MovesAlone, Operating, Behaving
  <2>2. QED BY <1>1, <1>2, <1>3, <2>1 DEF SameOperations
<1>4. ASSUME NEW t \in Threads, BeginOperation(t) PROVE OperationsInv'
  <2>1. /\ pc[t] \in {"operate", "idle"} \cup Stopping /\ next[t] # "body"
        /\ pc' = [pc EXCEPT ![t] = "body"]
        /\ next' = IF pc[t] \in Stopping THEN [next EXCEPT ![t] = pc[t]] ELSE next
        /\ activeOperations' = activeOperations + 1
    BY <1>4 DEF BeginOperation, Goto, OperationsInv, Dispatching, InDrain, Processing, Stopping
  <2>2. MovesAlone(t)
    BY <2>1 DEF MovesAlone, TypeInv, TypeOK, Stopping
  <2>3. t \notin Operating /\ Operating' = Operating \cup {t} /\ Behaving' = Behaving
    BY <2>1 DEF Operating, Behaving, TypeInv, TypeOK, Stopping
  <2>4. Cardinality(Operating') = Cardinality(Operating) + 1
    BY <2>3, OneOperation DEF Operating
  <2>5. Cardinality(Operating) \in Nat /\ Cardinality(Behaving) \in Nat
    BY OneOperation DEF Operating, Behaving
  <2>6. Counted'
    BY <1>1, <2>1, <2>3, <2>4, <2>5
  <2>7. QED BY <1>2, <2>2, <2>6
<1>5. ASSUME NEW t \in Threads, EndOperation(t) PROVE OperationsInv'
  <2>1. PICK after \in {"again", "idle"} \cup Stopping :
          /\ pc[t] = "body" /\ next' = [next EXCEPT ![t] = after]
          /\ pc' = [pc EXCEPT ![t] = IF Ended = 0 THEN "operated" ELSE after]
          /\ activeOperations' = Ended
    BY <1>5 DEF EndOperation, Goto
  <2>2. MovesAlone(t)
    BY <2>1 DEF MovesAlone, TypeInv, TypeOK, Stopping
  <2>3. t \in Operating /\ Operating' = Operating \ {t} /\ Behaving' = Behaving
    BY <2>1 DEF Operating, Behaving, TypeInv, TypeOK, Stopping
  <2>4. Cardinality(Operating') = Cardinality(Operating) - 1 /\ Cardinality(Operating) > 0
    BY <2>3, OneOperation DEF Operating
  <2>5. Cardinality(Operating) \in Nat /\ Cardinality(Behaving) \in Nat
    BY OneOperation DEF Operating, Behaving
  <2>6. activeOperations' = activeOperations - 1
    BY <1>1, <2>1, <2>4, <2>5 DEF Ended
  <2>7. Counted'
    BY <1>1, <2>3, <2>4, <2>5, <2>6
  <2>8. QED BY <1>2, <2>2, <2>7
<1>6. ASSUME NEW t \in Threads, BeginBehavior(t) PROVE OperationsInv'
  <2>1. /\ pc[t] = "run" /\ pc' = [pc EXCEPT ![t] = "behave"] /\ next' = next
        /\ activeOperations' = activeOperations + 1
    BY <1>6 DEF BeginBehavior, Goto
  <2>2. MovesAlone(t)
    BY <2>1 DEF MovesAlone, TypeInv, TypeOK, Dispatching, InDrain, Processing
  <2>3. t \notin Behaving /\ Behaving' = Behaving \cup {t} /\ Operating' = Operating
    BY <2>1 DEF Operating, Behaving, TypeInv, TypeOK
  <2>4. Cardinality(Behaving') = Cardinality(Behaving) + 1
    BY <2>3, OneOperation DEF Behaving
  <2>5. Cardinality(Operating) \in Nat /\ Cardinality(Behaving) \in Nat
    BY OneOperation DEF Operating, Behaving
  <2>6. Counted'
    BY <1>1, <2>1, <2>3, <2>4, <2>5
  <2>7. QED BY <1>2, <2>2, <2>6
<1>7. ASSUME NEW t \in Threads, EndBehavior(t) PROVE OperationsInv'
  <2>1. /\ pc[t] = "behave" /\ pc' = [pc EXCEPT ![t] = "decide"] /\ next' = next
        /\ activeOperations' = Ended
    BY <1>7 DEF EndBehavior, Goto
  <2>2. MovesAlone(t)
    BY <2>1 DEF MovesAlone, TypeInv, TypeOK, Dispatching, InDrain, Processing
  <2>3. t \in Behaving /\ Behaving' = Behaving \ {t} /\ Operating' = Operating
    BY <2>1 DEF Operating, Behaving, TypeInv, TypeOK
  <2>4. Cardinality(Behaving') = Cardinality(Behaving) - 1 /\ Cardinality(Behaving) > 0
    BY <2>3, OneOperation DEF Behaving
  <2>5. Cardinality(Operating) \in Nat /\ Cardinality(Behaving) \in Nat
    BY OneOperation DEF Operating, Behaving
  <2>6. activeOperations' = activeOperations - 1
    BY <1>1, <2>1, <2>4, <2>5 DEF Ended
  <2>7. Counted'
    BY <1>1, <2>3, <2>4, <2>5, <2>6
  <2>8. QED BY <1>2, <2>2, <2>7
<1>8. CASE UNCHANGED vars
  BY <1>8 DEF vars, shared, own, OperationsInv, OperationsCounted, Dispatching
<1>9. CASE Next
  <2>1. PICK t \in Threads : Proceeds(t) \/ Invokes(t)
    BY <1>9 DEF Next
  <2>2. QED BY <1>3, <1>4, <1>5, <1>6, <1>7, <2>1, NoOperation
<1>10. QED BY <1>8, <1>9

\* Where no caller drops its future in the middle of an operation, begin_operation
\* and end_operation keep the exact number of running operations, whatever else the
\* threads and activities do: the last one to end always sees zero and flushes.
THEOREM OperationsAreCounted ==
  ASSUME IsFiniteSet(Threads), "abandon" \notin Api
  PROVE  Spec => []OperationsCounted
<1>1. Init => OperationsInv
  <2> SUFFICES ASSUME Init PROVE OperationsInv
    OBVIOUS
  <2>1. {t \in Threads : pc[t] = "body" \/ next[t] = "body"} = {}
    BY DEF Init
  <2>2. {t \in Threads : pc[t] = "behave"} = {}
    BY DEF Init
  <2>3. \A t \in Threads : next[t] # "body"
    BY DEF Init
  <2>4. activeOperations = 0
    BY DEF Init
  <2>5. QED BY <2>1, <2>2, <2>3, <2>4, FS_EmptySet DEF OperationsInv, OperationsCounted
<1>2. TypeInv /\ OperationsInv /\ [Next]_vars => OperationsInv'
  BY OperationsStep
<1>3. OperationsInv => OperationsCounted
  BY DEF OperationsInv
<1>4. QED BY <1>1, <1>2, <1>3, TypeInvariant, PTL DEF Spec

-----------------------------------------------------------------------------
(***************************************************************************)
(* A caller that is alone.  What its drain or its operation sets aside it  *)
(* flushes itself, and what it leaves in the queue is deferred by a state  *)
(* that is active.                                                         *)
(***************************************************************************)

\* Where there may be something set aside, a flush being still to come.
FlushAhead == {"run", "behave", "decide", "owner", "final", "requeue", "replay", "record",
               "take", "body", "operated", "takeOperation"}

\* Where no drain is under way or about to begin.
Resting == {"idle", "dispatch", "set", "call", "operate", "body", "operated", "takeOperation",
            "again", "route", "routeOperation", "release", "wipe", "start", "starting",
            "activate", "stop", "stopping", "restarting", "clearQueue"}

\* Where the drain has its deferrals, and where those are of active states: a
\* transition may leave one, and is followed by their return to the queue.
Collecting == InDrain \ {"release"}

Collected == Collecting \ {"final", "requeue", "replay", "record"}

AllActive(t) == \A i \in DOMAIN local[t] : local[t][i].owner \in Ancestors[currentState]

AllParked == \A e \in Events : Queued(e, queue) => Parked(e)

Aloof(t) ==
  /\ pc[t] # "setAside"
  /\ pendingReentrant # <<>> => pc[t] \in FlushAhead
  /\ local[t] # <<>> => pc[t] \in Collecting
  /\ pc[t] \in Collected => AllActive(t)
  /\ pc[t] \in {"requeueAll", "clearDeferred", "off"} => queue = EmptyQueue
  /\ pc[t] = "recordAll" => \A e \in Events : Queued(e, queue) => RecordsOf(e, local[t]) # {}
  /\ pc[t] \in Resting => AllParked
  /\ \A e \in Events : fate[e] # "wiped"

\* A step to another label that leaves queue and deferrals alone.
LEMMA GoesOn ==
  ASSUME TypeInv, NEW t \in Threads, Aloof(t), NEW l, pc' = [pc EXCEPT ![t] = l],
         UNCHANGED <<queue, deferredEvents, currentState, local>>,
         l \notin {"setAside", "requeueAll", "clearDeferred", "off", "recordAll"},
         \/ pendingReentrant' = <<>> \/ l \in FlushAhead
         \/ pc[t] \notin FlushAhead /\ pendingReentrant' = pendingReentrant,
         l \in Resting => pc[t] \in Resting,
         pc[t] \in Collecting => l \in Collecting,
         l \in Collected => pc[t] \in Collected \/ pc[t] \notin Collecting,
         \A e \in Events : fate'[e] = fate[e] \/ fate'[e] # "wiped"
  PROVE  Aloof(t)'
<1>1. pc'[t] = l
  BY DEF TypeInv, TypeOK
<1>2. pendingReentrant' # <<>> => l \in FlushAhead
  BY DEF Aloof
<1>3. local'[t] # <<>> => l \in Collecting
  BY DEF Aloof
<1>4. l \in Collected => AllActive(t)'
  <2>1. ASSUME l \in Collected PROVE AllActive(t)
    <3>1. CASE pc[t] \in Collected
      BY <3>1 DEF Aloof
    <3>2. CASE pc[t] \notin Collecting
      BY <3>2 DEF Aloof, AllActive
    <3>3. QED BY <2>1, <3>1, <3>2
  <2>2. QED BY <2>1 DEF AllActive
<1>5. l \in Resting => AllParked'
  BY DEF Aloof, AllParked, Parked
<1>6. QED
  BY <1>1, <1>2, <1>3, <1>4, <1>5 DEF Aloof

\* The count of a caller that is alone.
LEMMA OneCounts ==
  ASSUME SingleCaller, TypeInv, OperationsCounted, NEW t \in Threads
  PROVE  activeOperations = IF pc[t] \in {"body", "behave"} THEN 1 ELSE 0
<1>1. next[t] # "body"
  BY DEF SingleCaller, TypeInv, Loaded
<1>2. {u \in Threads : pc[u] = "body" \/ next[u] = "body"}
        = IF pc[t] = "body" THEN {t} ELSE {}
  BY <1>1 DEF SingleCaller
<1>3. {u \in Threads : pc[u] = "behave"} = IF pc[t] = "behave" THEN {t} ELSE {}
  BY DEF SingleCaller
<1>4. Cardinality({t}) = 1 /\ Cardinality({}) = 0
  BY FS_Singleton, FS_EmptySet
<1>5. QED BY <1>2, <1>3, <1>4 DEF OperationsCounted

\* Every step of the caller leaves what it leaves to be flushed or parked.
LEMMA AloofStep ==
  ASSUME SingleCaller, TypeInv, DrainExclusive, OperationsCounted, NEW t \in Threads, Aloof(t),
         Proceeds(t) \/ Invokes(t)
  PROVE  Aloof(t)'
<1> USE DEF FlushAhead, Resting, Collecting, Collected, InDrain, Processing, Stopping
<1>a. activeDrain <=> pc[t] \in InDrain
  BY DEF SingleCaller, DrainExclusive
<1>b. activeOperations = IF pc[t] \in {"body", "behave"} THEN 1 ELSE 0
  BY OneCounts
<1>c. next[t] \in {"idle", "again", "start"} \cup Stopping
  BY DEF SingleCaller, TypeInv, TypeOK, Loaded
<1>d. ASSUME NEW E, NEW f, Settle(E, f), f # "wiped"
      PROVE  \A e \in Events : fate'[e] = fate[e] \/ fate'[e] # "wiped"
  BY <1>d DEF Settle
<1>1. ASSUME Dispatch(t) PROVE Aloof(t)'
  BY <1>1, <1>d, GoesOn DEF Dispatch, Enter, Goto, shared
<1>2. ASSUME Set(t) PROVE Aloof(t)'
  BY <1>2, <1>d, GoesOn DEF Set, Enter, Goto, shared
<1>3. ASSUME Call(t) PROVE Aloof(t)'
  BY <1>3, <1>d, GoesOn DEF Call, Enter, Goto, shared
<1>4. ASSUME Admit(t) PROVE Aloof(t)'
  <2>1. PICK l \in {"idle", "route", "push", "operate"} :
          pc[t] \in {"dispatch", "set", "call"} /\ pc' = [pc EXCEPT ![t] = l]
    BY <1>4 DEF Admit, Goto
  <2>2. \A e \in Events : fate'[e] = fate[e] \/ fate'[e] # "wiped"
    BY <1>4, <1>d DEF Admit
  <2>3. QED BY <1>4, <2>1, <2>2, GoesOn DEF Admit, shared
<1>5. ASSUME BeginOperation(t) PROVE Aloof(t)'
  BY <1>5, GoesOn DEF BeginOperation, Goto, SingleCaller
<1>6. ASSUME OperationReenters(t) PROVE Aloof(t)'
  <2>1. pc' = [pc EXCEPT ![t] = "body"]
    BY <1>6 DEF OperationReenters, own, TypeInv, TypeOK
  <2>2. QED BY <1>6, <1>d, <2>1, GoesOn DEF OperationReenters, own
<1>7. ASSUME ActivityDispatches(t) PROVE Aloof(t)'
  BY <1>7 DEF ActivityDispatches, SingleCaller
<1>8. ASSUME EndOperation(t) PROVE Aloof(t)'
  <2>1. Ended = 0 /\ pc[t] = "body"
    BY <1>8, <1>b DEF EndOperation, Ended
  <2>2. pc' = [pc EXCEPT ![t] = "operated"]
    BY <1>8, <2>1 DEF EndOperation, Goto
  <2>3. \A e \in Events : fate'[e] = fate[e] \/ fate'[e] # "wiped"
    BY <1>8, <1>d DEF EndOperation
  <2>4. QED BY <1>8, <2>1, <2>2, <2>3, GoesOn DEF EndOperation
<1>9. ASSUME LeaveFlush(t) PROVE Aloof(t)'
  BY <1>9, <1>a, GoesOn DEF LeaveFlush, Goto, shared
<1>10. ASSUME DispatchCall(t) PROVE Aloof(t)'
  BY <1>10, GoesOn DEF DispatchCall, Goto, shared
<1>11. ASSUME Route(t) PROVE Aloof(t)'
  BY <1>11, <1>a, GoesOn DEF Route, Goto, shared
<1>12. ASSUME RouteOperation(t) PROVE Aloof(t)'
  <2>1. pc[t] = "routeOperation" /\ activeOperations = 0
    BY <1>12, <1>b DEF RouteOperation
  <2>2. pc' = [pc EXCEPT ![t] = "push"]
    BY <1>12, <2>1 DEF RouteOperation, Goto
  <2>3. QED BY <1>12, <2>1, <2>2, GoesOn DEF RouteOperation, shared
<1>13. ASSUME QueueReentrantEvent(t) PROVE Aloof(t)'
  BY <1>13 DEF QueueReentrantEvent, Aloof
<1>14. ASSUME PushHeld(t) PROVE Aloof(t)'
  BY <1>14 DEF PushHeld, Goto, Aloof, TypeInv, TypeOK
<1>15. ASSUME BeginDrain(t) PROVE Aloof(t)'
  BY <1>15, <1>a, GoesOn DEF BeginDrain, Free, Goto
<1>16. ASSUME Pop(t) PROVE Aloof(t)'
  <2>1. CASE queue = EmptyQueue
    BY <1>16, <2>1 DEF Pop, Goto, Aloof, AllActive, TypeInv, TypeOK
  <2>2. CASE queue # EmptyQueue
    BY <1>16, <2>2 DEF Pop, Goto, Aloof, AllActive, TypeInv, TypeOK
  <2>3. QED BY <2>1, <2>2
<1>17. ASSUME TakeDeferredEvent(t) PROVE Aloof(t)'
  <2>1. /\ pc[t] = "match" /\ AllActive(t) /\ pendingReentrant' = <<>>
        /\ UNCHANGED <<queue, currentState, local, fate>> /\ \A e \in Events : fate[e] # "wiped"
    BY <1>17 DEF TakeDeferredEvent, Aloof
  <2>2. pc'[t] \in {"select", "matched"}
    BY <1>17 DEF TakeDeferredEvent, Goto, TypeInv, TypeOK
  <2>3. QED BY <2>1, <2>2 DEF Aloof, AllActive
<1>18. ASSUME SelectState(t) PROVE Aloof(t)'
  BY <1>18, GoesOn DEF SelectState, Goto, shared
<1>19. ASSUME BeginBehavior(t) PROVE Aloof(t)'
  BY <1>19, GoesOn DEF BeginBehavior, Goto
<1>20. ASSUME EndBehavior(t) PROVE Aloof(t)'
  BY <1>20, GoesOn DEF EndBehavior, Goto
<1>21. ASSUME BehaviorDispatches(t) PROVE Aloof(t)'
  <2>1. \A e \in Events : fate'[e] # "wiped"
    BY <1>21, <1>d DEF BehaviorDispatches, Aloof
  <2>2. UNCHANGED <<pc, local, currentState>> /\ pc[t] \in {"run", "behave"}
    BY <1>21 DEF BehaviorDispatches, own
  <2>3. QED BY <2>1, <2>2 DEF Aloof, AllActive
<1>22. ASSUME AbandonDrain(t) PROVE Aloof(t)'
  BY <1>22 DEF AbandonDrain, SingleCaller
<1>23. ASSUME AbandonOperation(t) PROVE Aloof(t)'
  BY <1>23 DEF AbandonOperation, SingleCaller
<1>24. ASSUME Ignore(t) PROVE Aloof(t)'
  BY <1>24, <1>d, GoesOn DEF Ignore, Goto, shared
<1>25. ASSUME Defer(t) PROVE Aloof(t)'
  BY <1>25, GoesOn DEF Defer, Goto, shared
<1>26. ASSUME DeferredOwner(t) PROVE Aloof(t)'
  <2>1. /\ pc[t] = "owner" /\ pc' = [pc EXCEPT ![t] = "take"] /\ AllActive(t)
        /\ UNCHANGED <<queue, currentState, pendingReentrant>>
    BY <1>26 DEF DeferredOwner, Goto, shared, Aloof
  <2>2. \A e \in Events : fate'[e] # "wiped"
    BY <1>26, <1>d DEF DeferredOwner, Aloof
  <2>3. AllActive(t)'
    <3>1. CASE local' = local
      BY <2>1, <3>1 DEF AllActive
    <3>2. ASSUME NEW owner \in Innermost(Deferring(currentState, popped[t])),
                 local' = [local EXCEPT ![t] =
                             Append(local[t], [event |-> popped[t], owner |-> owner])]
          PROVE  AllActive(t)'
      <4>1. owner \in Ancestors[currentState]
        BY DEF Innermost, Deferring
      <4>2. /\ local'[t] = Append(local[t], [event |-> popped[t], owner |-> owner])
            /\ local[t] \in Seq(Record)
        BY <3>2 DEF TypeInv, TypeOK
      <4>3. QED BY <2>1, <4>1, <4>2 DEF AllActive
    <3>3. QED BY <1>26, <3>1, <3>2 DEF DeferredOwner
  <2>4. pc'[t] = "take"
    BY <2>1 DEF TypeInv, TypeOK
  <2>5. QED BY <2>1, <2>2, <2>3, <2>4 DEF Aloof
<1>27. ASSUME Transit(t) PROVE Aloof(t)'
  <2>1. pc[t] \in {"run", "decide"} /\ pc'[t] \in {"final", "requeue"} /\ UNCHANGED local
    BY <1>27 DEF Transit, Goto, TypeInv, TypeOK
  <2>2. \A e \in Events : fate'[e] # "wiped"
    BY <1>27, <1>d DEF Transit, Aloof
  <2>3. QED BY <2>1, <2>2 DEF Aloof
<1>28. ASSUME PushFinal(t) PROVE Aloof(t)'
  BY <1>28 DEF PushFinal, Goto, Aloof, TypeInv, TypeOK
<1>29. ASSUME DropExited(t) PROVE Aloof(t)'
  <2>1. pc[t] = "requeue" /\ pc'[t] = "replay"
    BY <1>29 DEF DropExited, Goto, TypeInv, TypeOK
  <2>2. \A e \in Events : fate'[e] # "wiped"
    BY <1>29, <1>d DEF DropExited, Aloof
  <2>3. QED BY <2>1, <2>2 DEF Aloof
<1>30. ASSUME PushDeferred(t) PROVE Aloof(t)'
  <2>a. /\ queue' = PushAll(queue, AllEvents, [i \in DOMAIN local[t] |-> local[t][i].event])
        /\ UNCHANGED <<local, fate, currentState, pendingReentrant>>
        /\ \/ pc[t] = "replay" /\ pc' = [pc EXCEPT ![t] = "record"]
           \/ pc[t] = "requeueAll" /\ pc' = [pc EXCEPT ![t] = "recordAll"]
    <3>1. PICK step \in {<<"replay", "record">>, <<"requeueAll", "recordAll">>} :
            /\ pc[t] = step[1] /\ pc' = [pc EXCEPT ![t] = step[2]]
            /\ queue' = PushAll(queue, AllEvents, [i \in DOMAIN local[t] |-> local[t][i].event])
            /\ UNCHANGED <<local, fate, currentState, pendingReentrant>>
      BY <1>30 DEF PushDeferred, Goto
    <3>2. CASE step = <<"replay", "record">>
      BY <3>1, <3>2
    <3>3. CASE step = <<"requeueAll", "recordAll">>
      BY <3>1, <3>3
    <3>4. QED BY <3>1, <3>2, <3>3
  <2>1. CASE pc[t] = "replay"
    <3>1. pc'[t] = "record" /\ UNCHANGED <<local, fate>>
      BY <2>a, <2>1 DEF TypeInv, TypeOK
    <3>2. QED BY <3>1 DEF Aloof
  <2>2. CASE pc[t] = "requeueAll"
    <3> DEFINE back == [i \in DOMAIN local[t] |-> local[t][i].event]
    <3>1. /\ pc'[t] = "recordAll" /\ queue' = PushAll(queue, AllEvents, back)
          /\ UNCHANGED <<local, fate, currentState, pendingReentrant>>
      BY <2>a, <2>2 DEF TypeInv, TypeOK
    <3>2. queue = EmptyQueue /\ pendingReentrant = <<>> /\ AllActive(t)
      BY <2>2 DEF Aloof
    <3>3. back \in Seq(AllEvents)
      <4>1. local[t] \in Seq(Record) /\ \A r \in Record : r.event \in AllEvents
        BY DEF TypeInv, TypeOK, Record
      <4>2. \A i \in DOMAIN local[t] : local[t][i].event \in AllEvents
        BY <4>1
      <4>3. QED BY <4>1, <4>2
    <3>4. \A e \in Events : ~Queued(e, queue)
      BY <3>2 DEF Queued, At, EmptyQueue
    <3>5. \A e \in Events : RecordsOf(e, local[t]) = At(e, back)
      BY DEF RecordsOf, At
    <3>6. queue \in QueueOf(AllEvents)
      BY DEF TypeInv, TypeOK
    <3> HIDE DEF back
    <3>7. ASSUME NEW e \in Events, Queued(e, queue') PROVE RecordsOf(e, local'[t]) # {}
      <4>1. At(e, back) # {}
        BY <3>1, <3>3, <3>4, <3>6, <3>7, PushAllIn DEF AllEvents
      <4>2. QED BY <3>1, <3>5, <4>1
    <3>8. AllActive(t)' /\ \A e \in Events : fate'[e] # "wiped"
      BY <3>1, <3>2 DEF AllActive, Aloof
    <3>9. QED BY <3>1, <3>2, <3>7, <3>8 DEF Aloof
  <2>3. QED BY <2>a, <2>1, <2>2
<1>31. ASSUME RecordDeferred(t) PROVE Aloof(t)'
  <2>a. \/ pc[t] = "record" /\ pc' = [pc EXCEPT ![t] = "take"]
        \/ pc[t] = "recordAll" /\ pc' = [pc EXCEPT ![t] = "release"]
    <3>1. PICK step \in {<<"record", "take">>, <<"recordAll", "release">>} :
            pc[t] = step[1] /\ pc' = [pc EXCEPT ![t] = step[2]]
      BY <1>31 DEF RecordDeferred, Goto
    <3>2. CASE step = <<"record", "take">>
      BY <3>1, <3>2
    <3>3. CASE step = <<"recordAll", "release">>
      BY <3>1, <3>3
    <3>4. QED BY <3>1, <3>2, <3>3
  <2>1. /\ local'[t] = <<>> /\ UNCHANGED <<queue, fate, currentState, pendingReentrant>>
        /\ deferredEvents' = deferredEvents \o local[t]
    BY <1>31 DEF RecordDeferred, TypeInv, TypeOK
  <2>2. AllActive(t)'
    BY <2>1 DEF AllActive
  <2>3. CASE pc[t] = "record"
    <3>1. pc'[t] = "take"
      BY <2>a, <2>3 DEF TypeInv, TypeOK
    <3>2. QED BY <2>1, <2>2, <2>3, <3>1 DEF Aloof
  <2>4. CASE pc[t] = "recordAll"
    <3>1. pc'[t] = "release"
      BY <2>a, <2>4 DEF TypeInv, TypeOK
    <3>2. ASSUME NEW e \in Events, Queued(e, queue') PROVE Parked(e)'
      <4>1. PICK i \in DOMAIN local[t] : local[t][i].event = e
        BY <2>1, <2>4, <3>2 DEF Aloof, RecordsOf
      <4>2. local[t][i].owner \in Ancestors[currentState]
        BY <2>4 DEF Aloof, AllActive
      <4>3. /\ Len(deferredEvents) + i \in DOMAIN deferredEvents'
            /\ deferredEvents'[Len(deferredEvents) + i] = local[t][i]
        BY <2>1 DEF TypeInv, TypeOK
      <4>4. QED BY <2>1, <4>1, <4>2, <4>3 DEF Parked
    <3>3. AllParked'
      BY <3>2 DEF AllParked
    <3>4. QED BY <2>1, <2>4, <3>1, <3>3 DEF Aloof
  <2>5. QED BY <2>a, <2>3, <2>4
<1>32. ASSUME TakeReentrant(t) PROVE Aloof(t)'
  <2>1. /\ pendingReentrant' = <<>>
        /\ UNCHANGED <<queue, deferredEvents, currentState, local, fate>>
    BY <1>32 DEF TakeReentrant
  <2>2. PICK l : /\ pc' = [pc EXCEPT ![t] = l]
                 /\ \/ pc[t] = "take" /\ l \in {"pop", "flush"}
                    \/ pc[t] = "takeOperation" /\ l \in {next[t], "flushOperation"}
    BY <1>32, TakeReentrantMoves
  <2>3. QED BY <1>c, <2>1, <2>2, GoesOn
<1>33. ASSUME FlushReentrant(t) PROVE Aloof(t)'
  <2>1. /\ \/ pc[t] = "flush" /\ pc'[t] = "pop"
           \/ pc[t] = "flushOperation" /\ pc'[t] = "drain"
        /\ UNCHANGED <<local, currentState, fate, pendingReentrant>>
    BY <1>33 DEF FlushReentrant, Goto, TypeInv, TypeOK
  <2>2. QED BY <2>1 DEF Aloof, AllActive
<1>34. ASSUME ReleaseDrain(t) PROVE Aloof(t)'
  BY <1>34, GoesOn DEF ReleaseDrain, Goto
<1>35. ASSUME WipeReentrant(t) PROVE Aloof(t)'
  <2>1. pendingReentrant = <<>> /\ pc[t] = "wipe"
    BY <1>35 DEF WipeReentrant, Aloof
  <2>2. \A e \in Events : fate'[e] = fate[e]
    BY <1>35, <2>1 DEF WipeReentrant, Settle, Elements
  <2>3. QED BY <1>35, <1>c, <2>1, <2>2, GoesOn DEF WipeReentrant, Goto
<1>36. ASSUME Start(t) PROVE Aloof(t)'
  BY <1>36, GoesOn DEF Start, Goto, shared
<1>37. ASSUME AdmitStart(t) PROVE Aloof(t)'
  BY <1>37, GoesOn DEF AdmitStart, Goto, shared
<1>38. ASSUME Activate(t) PROVE Aloof(t)'
  BY <1>38 DEF Activate, Goto, Aloof, TypeInv, TypeOK
<1>39. ASSUME Restart(t) PROVE Aloof(t)'
  BY <1>39, GoesOn DEF Restart, Goto, shared
<1>40. ASSUME Stop(t) PROVE Aloof(t)'
  BY <1>40, GoesOn DEF Stop, Goto, shared
<1>41. ASSUME StopReads(t) PROVE Aloof(t)'
  BY <1>41, <1>c, GoesOn DEF StopReads, Goto, shared
<1>42. ASSUME ClearQueue(t) PROVE Aloof(t)'
  <2>1. /\ pc[t] = "clearQueue" /\ pc'[t] = "clearDeferred" /\ queue' = EmptyQueue
        /\ UNCHANGED <<local, pendingReentrant>>
    BY <1>42 DEF ClearQueue, Goto, TypeInv, TypeOK
  <2>2. \A e \in Events : fate'[e] # "wiped"
    BY <1>42, <1>d DEF ClearQueue, Aloof
  <2>3. QED BY <2>1, <2>2 DEF Aloof
<1>43. ASSUME ClearDeferred(t) PROVE Aloof(t)'
  BY <1>43 DEF ClearDeferred, Goto, Aloof, TypeInv, TypeOK
<1>44. ASSUME SwitchOff(t) PROVE Aloof(t)'
  <2>1. /\ pc[t] = "off" /\ pc'[t] = next[t]
        /\ UNCHANGED <<queue, local, pendingReentrant, fate>>
    BY <1>44 DEF SwitchOff, Goto, TypeInv, TypeOK
  <2>2. \A e \in Events : ~Queued(e, queue)
    BY <2>1 DEF Aloof, Queued, At, EmptyQueue
  <2>3. AllParked'
    BY <2>1, <2>2 DEF AllParked
  <2>4. QED BY <1>c, <2>1, <2>3 DEF Aloof
<1>45. ASSUME Fail(t) PROVE Aloof(t)'
  BY <1>45 DEF Fail, SingleCaller
<1>46. ASSUME KeepDeferred(t) PROVE Aloof(t)'
  <2>1. /\ pc[t] = "matched" /\ AllActive(t) /\ pendingReentrant' = <<>>
        /\ UNCHANGED <<queue, currentState, fate>> /\ \A e \in Events : fate[e] # "wiped"
    BY <1>46 DEF KeepDeferred, Aloof, shared
  <2>2. pc'[t] \in {"select", "pop"}
    BY <1>46 DEF KeepDeferred, Goto, TypeInv, TypeOK
  <2>3. AllActive(t)'
    <3>1. CASE local' = local
      BY <2>1, <3>1 DEF AllActive
    <3>2. CASE /\ taken[t].owner \in Ancestors[currentState]
               /\ local' = [local EXCEPT ![t] = Append(local[t], taken[t])]
      <4>1. local'[t] = Append(local[t], taken[t]) /\ local[t] \in Seq(Record)
        BY <3>2 DEF TypeInv, TypeOK
      <4>2. QED BY <2>1, <3>2, <4>1 DEF AllActive
    <3>3. QED BY <1>46, <3>1, <3>2 DEF KeepDeferred
  <2>4. QED BY <2>1, <2>2, <2>3 DEF Aloof
<1>47. ASSUME ExitDispatches(t) PROVE Aloof(t)'
  BY <1>47, <1>d, GoesOn DEF ExitDispatches, Goto, shared
<1>48. ASSUME StopExits(t) PROVE Aloof(t)'
  <2>1. /\ pc[t] \in Stopping /\ pc' = [pc EXCEPT ![t] = "clearQueue"]
        /\ UNCHANGED <<shared, local, fate>>
    BY <1>48 DEF StopExits, Goto
  <2>2. QED BY <2>1, GoesOn DEF shared
<1>49. ASSUME AbandonStop(t) PROVE Aloof(t)'
  BY <1>49 DEF AbandonStop, SingleCaller
<1>50. QED
  <2> HIDE DEF FlushAhead, Resting, Collecting, Collected, InDrain, Processing, Stopping
  <2> QED
    BY <1>1, <1>2, <1>3, <1>4, <1>5, <1>6, <1>7, <1>8, <1>9, <1>10, <1>11, <1>12, <1>13,
       <1>14, <1>15, <1>16, <1>17, <1>18, <1>19, <1>20, <1>21, <1>22, <1>23, <1>24, <1>25,
       <1>26, <1>27, <1>28, <1>29, <1>30, <1>31, <1>32, <1>33, <1>34, <1>35, <1>36, <1>37,
       <1>38, <1>39, <1>40, <1>41, <1>42, <1>43, <1>44, <1>45, <1>46, <1>47, <1>48, <1>49
       DEF Proceeds, Invokes

AloofInv == \A t \in Threads : Aloof(t)

\* A machine starts out with nothing set aside and nothing queued.
LEMMA AloofInit == Init => AloofInv
<1> SUFFICES ASSUME Init, NEW t \in Threads PROVE Aloof(t)
  BY DEF AloofInv
<1>1. \A e \in Events : ~Queued(e, queue) /\ fate[e] # "wiped"
  BY DEF Init, Queued, At, EmptyQueue
<1>2. pc[t] = "idle" /\ pendingReentrant = <<>> /\ local[t] = <<>>
  BY DEF Init
<1>3. QED
  BY <1>1, <1>2
     DEF Aloof, AllParked, FlushAhead, Collecting, Collected, InDrain, Processing

\* And goes on so.
LEMMA AloofInvStep ==
  ASSUME SingleCaller, TypeInv, DrainExclusive, OperationsCounted, AloofInv, [Next]_vars
  PROVE  AloofInv'
<1>1. ASSUME NEW t \in Threads, Proceeds(t) \/ Invokes(t) PROVE AloofInv'
  <2>1. Aloof(t)'
    BY <1>1, AloofStep DEF AloofInv
  <2>2. \A u \in Threads : u = t
    BY DEF SingleCaller
  <2>3. QED BY <2>1, <2>2 DEF AloofInv
<1>2. ASSUME UNCHANGED vars, NEW t \in Threads PROVE Aloof(t)'
  BY <1>2 DEF vars, shared, own, AloofInv, Aloof, AllActive, AllParked, Parked
<1>3. QED BY <1>1, <1>2 DEF AloofInv, Next

\* One thread is finitely many.
LEMMA OneThread == ASSUME SingleCaller PROVE IsFiniteSet(Threads) /\ "abandon" \notin Api
BY FS_Singleton DEF SingleCaller

\* Of a caller that is alone, all the time.
LEMMA CallerAloof == ASSUME SingleCaller PROVE Spec => []AloofInv
<1>1. Spec => []OperationsCounted
  BY OneThread, OperationsAreCounted
<1>2. TypeInv /\ DrainExclusive /\ OperationsCounted /\ AloofInv /\ [Next]_vars => AloofInv'
  BY AloofInvStep
<1>3. QED BY <1>1, <1>2, AloofInit, TypeInvariant, DrainsExclude, PTL DEF Spec

\* Where one caller is alone with the machine, no call that is set aside for the
\* end of the running event or operation is thrown away: both flush before the
\* guard is dropped (hsm_impl.rs:178-183, 948, 1929).
THEOREM ReentrantKeptAlone == ASSUME SingleCaller PROVE Spec => []ReentrantKept
<1>1. AloofInv => ReentrantKept
  BY DEF SingleCaller, AloofInv, Aloof, ReentrantKept
<1>2. QED BY <1>1, CallerAloof, PTL

\* And when its calls have returned, whatever the machine accepted is settled, or
\* is in the queue with a record of an active state that defers it.
THEOREM NothingStrandedAlone ==
  ASSUME SingleCaller, DeferredApart
  PROVE  Spec => []NothingStranded
<1>1. Init => ConservedInv
  BY ConservedInit
<1>2. TypeInv /\ ConservedInv /\ [Next]_vars => ConservedInv'
  BY ConservedStep
<1>3. Spec => []ConservedInv
  BY <1>1, <1>2, TypeInvariant, PTL DEF Spec
<1>4. ASSUME TypeInv, ConservedInv, AloofInv, Quiet, NEW e \in Events, fate[e] = "open"
      PROVE  Parked(e)
  <2>1. PICK t \in Threads : Threads = {t}
    BY DEF SingleCaller
  <2>2. pc[t] = "idle" /\ Aloof(t) /\ Hands(t) /\ Loaded(t)
    BY <1>4, <2>1 DEF Quiet, AloofInv, ConservedInv, TypeInv
  <2>3. held[t] = None /\ popped[t] = None /\ carry[t] = <<>>
    BY <2>2, <1>4 DEF SingleCaller, Hands, Loaded, Offering, InFlush, InDrain, Processing
  <2>4. pendingReentrant = <<>> /\ local[t] = <<>> /\ AllParked
    BY <2>2 DEF Aloof, FlushAhead, Collecting, InDrain, Processing, Resting
  <2>5. e # None
    BY RuntimeAssumption DEF AllEvents
  <2>6. PICK k \in Keepers : \E u : OnlyIn(e, k, u) /\ k # "nowhere"
    BY <1>4 DEF ConservedInv, Kept
  <2>7. At(e, carry[t]) = {} /\ At(e, pendingReentrant) = {} /\ RecordsOf(e, local[t]) = {}
    BY <2>3, <2>4 DEF At, RecordsOf
  <2>8. k = "queue"
    BY <2>1, <2>3, <2>5, <2>6, <2>7 DEF OnlyIn, Keepers
  <2>9. Queued(e, queue)
    BY <2>6, <2>8 DEF OnlyIn
  <2>10. QED BY <2>4, <2>9 DEF AllParked
<1>5. TypeInv /\ ConservedInv /\ AloofInv => NothingStranded
  BY <1>4 DEF NothingStranded
<1>6. QED BY <1>3, <1>5, CallerAloof, TypeInvariant, PTL
=============================================================================
