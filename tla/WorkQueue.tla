----------------------------- MODULE WorkQueue -----------------------------
(***************************************************************************)
(* The rate limited work queue of client-go, as the three controllers use  *)
(* it: Add, Get, AddRateLimited, Done, and the drain at start-up.  Its     *)
(* code is not part of this repository.                                    *)
(*                                                                         *)
(* client-go keeps a FIFO of the keys that may be handed out, a dirty set  *)
(* (keys that must be processed) and a processing set (keys some worker    *)
(* holds).  The keys in the FIFO are exactly the dirty keys nobody is      *)
(* processing, so the FIFO is not part of the state: only its order is     *)
(* lost, and any order may be chosen here.  Forget only resets the back-off*)
(* of a key and leaves no trace.                                           *)
(***************************************************************************)

EmptyQueue == [dirty |-> {}, processing |-> {}, delayed |-> {}]

QueueOver(Keys) ==
    [dirty : SUBSET Keys, processing : SUBSET Keys, delayed : SUBSET Keys]

\* Mutant of AddAll: a key under work is dropped instead of marked dirty.
AddIdleOnly(q, keys) == [q EXCEPT !.dirty = @ \cup (keys \ q.processing)]

\* A key added while it is processed stays dirty and is handed out after Done.
AddAll(q, keys) == [q EXCEPT !.dirty = @ \cup keys]

Ready(q) == q.dirty \ q.processing

Get(q, k) == [q EXCEPT !.dirty = @ \ {k}, !.processing = @ \cup {k}]

AddRateLimited(q, k) == [q EXCEPT !.delayed = @ \cup {k}]

\* The delaying queue holds a key once, whoever put it there.
AddAfter(q, k) == [q EXCEPT !.delayed = @ \cup {k}]

\* The delay of k is over: the delaying queue calls Add.
BackoffOver(q, k) == [q EXCEPT !.delayed = @ \ {k}, !.dirty = @ \cup {k}]

Done(q, k) == [q EXCEPT !.processing = @ \ {k}]

\* Get and Done of everything that is ready.
Drain(q) == [q EXCEPT !.dirty = @ \ Ready(q)]
=============================================================================
