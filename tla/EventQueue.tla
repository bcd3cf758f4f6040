----------------------------- MODULE EventQueue -----------------------------
(***************************************************************************)
(* The event queue of one machine (queue.rs): completion events are kept   *)
(* apart from the regular ones, come out first and newest first; regular   *)
(* events come out oldest first.  The regular half is the built-in deque   *)
(* (RegularQueue::Default), whose operations cannot fail.                  *)
(***************************************************************************)
EXTENDS Filtering

CONSTANT Completions   \* the events whose kind is a COMPLETION_EVENT

EmptyQueue == [completion |-> <<>>, regular |-> <<>>]

QueueOf(E) == [completion : Seq(E), regular : Seq(E)]

Push(q, e) ==
  IF e \in Completions
  THEN [q EXCEPT !.completion = Append(@, e)]
  ELSE [q EXCEPT !.regular = Append(@, e)]

\* Pushing the elements of s one after the other under one lock.
PushAll(q, E, s) ==
  [completion |-> q.completion \o Filter(s, Completions),
   regular    |-> q.regular \o Filter(s, E \ Completions)]

\* What pop_with_context returns and what it leaves, for a queue that is not
\* empty.
Front(q) ==
  IF q.completion # <<>> THEN q.completion[Len(q.completion)] ELSE Head(q.regular)

\* Mutant of Rest: the regular queue gives up its other end.
RestNewest(q) ==
  IF q.completion # <<>>
  THEN [q EXCEPT !.completion = SubSeq(@, 1, Len(@) - 1)]
  ELSE [q EXCEPT !.regular = SubSeq(@, 1, Len(@) - 1)]

Rest(q) ==
  IF q.completion # <<>>
  THEN [q EXCEPT !.completion = SubSeq(@, 1, Len(@) - 1)]
  ELSE [q EXCEPT !.regular = Tail(@)]
=============================================================================
