------------------------------ MODULE Informer ------------------------------
(***************************************************************************)
(* One object as the API server and the shared informer of a controller    *)
(* see it.  The code of the informers (client-go) is not part of this      *)
(* repository.                                                             *)
(*                                                                         *)
(* A view is the history of the object from the version the event handlers *)
(* saw last (the first of log) to the current version in the API server    *)
(* (the last of log); cached is the index of the version in the informer's *)
(* store, which the listers return.  The store runs ahead of the handlers: *)
(* client-go updates it before it queues the notification, and handlers are*)
(* called from a goroutine of their own.                                   *)
(***************************************************************************)
EXTENDS Naturals, Sequences

CONSTANT Absent     \* the version of an object that does not exist

ViewOf(Vals) == [log : Seq(Vals), cached : Nat]

\* Two versions that follow each other differ.
WellFormed(view) ==
    /\ Len(view.log) >= 1 /\ view.cached \in 1 .. Len(view.log)
    /\ \A i \in 1 .. Len(view.log) - 1 : view.log[i] # view.log[i + 1]

\* The object while no informer watches it.
Unwatched(v) == [log |-> <<v>>, cached |-> 1]

\* The object after the initial list: in the store, its Add still to come.
Listed(v) == IF v = Absent
             THEN Unwatched(Absent)
             ELSE [log |-> <<Absent, v>>, cached |-> 2]

Live(view)   == view.log[Len(view.log)]
Cached(view) == view.log[view.cached]

\* A write to the API server: the informer will see it in its turn.
Written(view, v) == [view EXCEPT !.log = Append(@, v)]

\* The informer's store takes the next version of the watch stream.
CanObserve(view) == view.cached < Len(view.log)
Observed(view)   == [view EXCEPT !.cached = @ + 1]

\* The next notification is <<old, new>>; it was queued when new was stored.
CanNotify(view)  == view.cached > 1
OldVersion(view) == view.log[1]
NewVersion(view) == view.log[2]
Notified(view)   == [log |-> Tail(view.log), cached |-> view.cached - 1]

\* The versions the handlers have still to see, and the one they saw last.
Versions(view) == {view.log[i] : i \in 1 .. Len(view.log)}

\* Nothing is under way: the handlers have seen what the API server has.
UpToDate(view) == Len(view.log) = 1
=============================================================================
