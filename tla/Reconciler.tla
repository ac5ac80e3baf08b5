----------------------------- MODULE Reconciler -----------------------------
(***************************************************************************)
(* What a controller with a work queue promises, for each of its keys: what*)
(* it has built is what the API server's objects ask for, unless it still  *)
(* has to work on the key.  A change of either puts the key on the list of *)
(* pending work, only the begin of a sync takes it off, and a sync that    *)
(* ends without the right result puts it back.                             *)
(***************************************************************************)
EXTENDS TLAPS

CONSTANT Keys

VARIABLES up, wanted, built, pending, syncing

vars == <<up, wanted, built, pending, syncing>>

Init == /\ up = TRUE
        /\ DOMAIN wanted = Keys /\ DOMAIN built = Keys
        /\ \A k \in Keys : built[k] # wanted[k] => k \in pending
        /\ syncing = {}

\* Somebody changes objects of some keys: their handlers will wake the keys.  A
\* wake-up may be lost only for a key whose result is right.
Change ==
    /\ UNCHANGED <<up, syncing>>
    /\ DOMAIN wanted' = Keys /\ DOMAIN built' = Keys
    /\ \A k \in Keys : \/ k \in pending' \/ wanted'[k] = built'[k]
                       \/ k \notin pending /\ <<wanted[k], built[k]>> = <<wanted'[k], built'[k]>>

Begin(k) ==
    /\ up /\ k \in pending \ syncing
    /\ pending \ {k} \subseteq pending' /\ pending' \subseteq pending
    /\ syncing' = syncing \cup {k}
    /\ UNCHANGED <<up, wanted, built>>

\* What is built may have handlers that wake keys, too.
Build(k) ==
    /\ k \in syncing /\ UNCHANGED <<up, wanted, syncing>>
    /\ pending \subseteq pending'
    /\ DOMAIN built' = Keys /\ \A l \in Keys \ {k} : built'[l] = built[l]

End(k) ==
    /\ k \in syncing /\ syncing' = syncing \ {k}
    /\ pending' \in {pending, pending \cup {k}}
    /\ built[k] # wanted[k] => k \in pending'
    /\ UNCHANGED <<up, wanted, built>>

\* A process that starts does not know what its predecessor had still to do:
\* it works on every object that is not right.
Crash == /\ up /\ up' = FALSE
         /\ syncing' = {} /\ pending' = Keys
         /\ UNCHANGED <<wanted, built>>

Restart == /\ ~up /\ up' = TRUE
           /\ \A k \in Keys : built[k] # wanted[k] => k \in pending'
           /\ UNCHANGED <<wanted, built, syncing>>

Next == \/ Change \/ Crash \/ Restart
        \/ \E k \in Keys : Begin(k) \/ Build(k) \/ End(k)

Spec == Init /\ [][Next]_vars

\* At rest, what is built is what is wanted.
Consistent ==
    \A k \in Keys : k \in pending \cup syncing \/ built[k] = wanted[k]

LEMMA InitConsistent == Init => Consistent
BY DEF Init, Consistent

LEMMA NextConsistent == Consistent /\ [Next]_vars => Consistent'
<1> SUFFICES ASSUME Consistent, [Next]_vars, NEW k \in Keys, built'[k] # wanted'[k]
             PROVE  k \in pending' \cup syncing'
  BY DEF Consistent
<1>1. k \in pending \cup syncing \/ built[k] = wanted[k]
  BY DEF Consistent
<1>2. CASE Change
  BY <1>1, <1>2 DEF Change
<1>3. CASE Crash \/ Restart
  BY <1>1, <1>3 DEF Crash, Restart
<1>4. ASSUME NEW l \in Keys, Begin(l) PROVE k \in pending' \cup syncing'
  BY <1>1, <1>4 DEF Begin
<1>5. ASSUME NEW l \in Keys, Build(l) PROVE k \in pending' \cup syncing'
  BY <1>1, <1>5 DEF Build
<1>6. ASSUME NEW l \in Keys, End(l) PROVE k \in pending' \cup syncing'
  BY <1>1, <1>6 DEF End
<1>7. CASE UNCHANGED vars
  BY <1>1, <1>7 DEF vars
<1> QED BY <1>2, <1>3, <1>4, <1>5, <1>6, <1>7 DEF Next

(* What a controller that implements the reconciler has built is right when *)
(* it rests: this is why ImplementsReconciler is worth showing.            *)
THEOREM ReconciledAtRest == Spec => []Consistent
BY InitConsistent, NextConsistent, PTL DEF Spec
=============================================================================
