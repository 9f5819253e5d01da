--------------------------- MODULE EventDispatch ---------------------------
(***************************************************************************)
(* The events of Gateway.lua, which every plugin shares: RegisterEvent,    *)
(* UnregisterEvent and ExecuteEvent on one event.  ExecuteEvent walks the  *)
(* event's table with ipairs while the callbacks it calls may register,    *)
(* unregister and execute the same event again: the table changes under    *)
(* every walk that is under way.                                           *)
(*                                                                         *)
(* A registration is numbered in the order of the calls of RegisterEvent,  *)
(* since the same callback may be registered more than once.               *)
(***************************************************************************)
EXTENDS Naturals, SequencesExt

CONSTANTS Callbacks,         \* the functions that are registered
          MaxRegistrations,  \* bound: calls of RegisterEvent
          MaxDepth           \* bound: nested walks of the event

ASSUME BoundsAssumption == MaxRegistrations \in Nat /\ MaxDepth \in Nat

VARIABLES event,       \* the table: registrations
          callbackOf,  \* the callback of every registration ever made
          walks        \* the walks under way, the innermost last

vars == <<event, callbackOf, walks>>

\* A walk has reached event_index; called and removals are its history: the
\* registrations it called, in order, and the removals at or before event_index.
Walk(index, called, removals) ==
    [index |-> index, called |-> called, removals |-> removals]

Init ==
    /\ event = <<>>
    /\ callbackOf = <<>>
    /\ walks = <<>>

\* The script runs: no walk is under way or the innermost one is in a callback.
Running == walks # <<>> => walks[Len(walks)].index > 0

\* Mutant of RegisterEvent: the callback is inserted at the front.
RegisterEventFirst(callback) ==
    /\ Running
    /\ Len(callbackOf) < MaxRegistrations
    /\ callbackOf' = Append(callbackOf, callback)
    /\ event' = <<Len(callbackOf) + 1>> \o event
    /\ UNCHANGED walks

\* RegisterEvent(event, callback)
RegisterEvent(callback) ==
    /\ Running
    /\ Len(callbackOf) < MaxRegistrations
    /\ callbackOf' = Append(callbackOf, callback)
    /\ event' = Append(event, Len(callbackOf) + 1)
    /\ UNCHANGED walks

\* The places at which the callback is registered.
PlacesOf(callback) == {i \in 1..Len(event) : callbackOf[event[i]] = callback}

\* UnregisterEvent(event, callback): the first of its registrations is removed.
UnregisterEvent(callback) ==
    /\ Running
    /\ \E i \in PlacesOf(callback) :
         /\ \A j \in PlacesOf(callback) : i <= j
         /\ event' = RemoveAt(event, i)
         /\ walks' = [w \in DOMAIN walks |->
                        IF i <= walks[w].index
                          THEN [walks[w] EXCEPT !.removals = @ + 1]
                          ELSE walks[w]]
    /\ UNCHANGED callbackOf

\* ExecuteEvent(event) begins, perhaps from one of its callbacks.
ExecuteEvent ==
    /\ Running
    /\ Len(walks) < MaxDepth
    /\ walks' = Append(walks, Walk(0, <<>>, 0))
    /\ UNCHANGED <<event, callbackOf>>

\* Mutant of CallNext: the walk stays where it is.
CallNextAgain ==
    /\ walks # <<>>
    /\ LET w == walks[Len(walks)]
       IN  /\ w.index < Len(event)
           /\ Len(w.called) < MaxRegistrations
           /\ walks' = [walks EXCEPT ![Len(walks)] =
                Walk(1, Append(w.called, event[1]), w.removals)]
    /\ UNCHANGED <<event, callbackOf>>

\* The callback, if one runs, returns; ipairs finds one more, which is called.
CallNext ==
    /\ walks # <<>>
    /\ LET w == walks[Len(walks)]
       IN  /\ w.index < Len(event)
           /\ walks' = [walks EXCEPT ![Len(walks)] =
                Walk(w.index + 1, Append(w.called, event[w.index + 1]), w.removals)]
    /\ UNCHANGED <<event, callbackOf>>

\* ipairs finds no more: ExecuteEvent returns.
ExecuteEventReturns ==
    /\ walks # <<>>
    /\ walks[Len(walks)].index >= Len(event)
    /\ walks' = SubSeq(walks, 1, Len(walks) - 1)
    /\ UNCHANGED <<event, callbackOf>>

Next ==
    \/ \E callback \in Callbacks : RegisterEvent(callback) \/ UnregisterEvent(callback)
    \/ ExecuteEvent \/ CallNext \/ ExecuteEventReturns

Spec == Init /\ [][Next]_vars

-----------------------------------------------------------------------------
Registrations == 1..Len(callbackOf)

\* The type invariant of an event; a walk is beyond its end by removals only.
TypeOK ==
    /\ callbackOf \in Seq(Callbacks) /\ Len(callbackOf) <= MaxRegistrations
    /\ event \in Seq(Registrations)
    /\ walks \in Seq([index : Nat, called : Seq(Registrations), removals : Nat])
    /\ Len(walks) <= MaxDepth
    /\ \A w \in DOMAIN walks : walks[w].index <= Len(event) + walks[w].removals

\* A walk calls the registrations in the order they were made, none of them
\* twice, whatever its callbacks register, unregister and execute.
CalledInOrder ==
    \A w \in DOMAIN walks : \A i, j \in DOMAIN walks[w].called :
        i < j => walks[w].called[i] < walks[w].called[j]

\* A walk passes over a registration only where a callback has unregistered one
\* at or before the walk's place, and over no more than were unregistered.
PassedOverByRemovalOnly ==
    \A w \in DOMAIN walks :
        LET walk == walks[w]
        IN  Cardinality({i \in 1..Len(event) : i <= walk.index
                            /\ event[i] \notin Range(walk.called)}) <= walk.removals

\* A walk follows the registrations in order and passes over what was removed only.
WalkInOrder == CalledInOrder /\ PassedOverByRemovalOnly

\* A walk during which nothing was unregistered has called every registration,
\* those made by its own callbacks included, when it ends.
UndisturbedWalkCallsAll ==
    [][ExecuteEventReturns /\ walks[Len(walks)].removals = 0
         => Range(event) \subseteq Range(walks[Len(walks)].called)]_vars
=============================================================================
