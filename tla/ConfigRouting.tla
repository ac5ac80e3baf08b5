---------------------------- MODULE ConfigRouting ----------------------------
(***************************************************************************)
(* Which ConfigMaps and Secrets a ConfigurationDomain aggregates, and which*)
(* ConfigurationDomains an event of one of them wakes.  The code computes  *)
(* the two from the labels of the object, in two places: the lists of a    *)
(* sync, and the event handlers.                                           *)
(*                                                                         *)
(* A name is the sequence of its dot-separated parts, so that concatenation*)
(* of names is writing them with a dot between.  A ConfigurationDomain is  *)
(* <<namespace, name>>.  An object is a record with the values of its two  *)
(* labels, platform and domain; without one of them its domain is <<>>.    *)
(***************************************************************************)
EXTENDS Naturals, Sequences

Global == <<"global">>

Labelled(object) == object.domain # <<>>

\* strings.Cut at the first dot, in GetPlatformNsAndDomain; no namespace in the
\* label stands for the namespace of the object.
CutDomain(object) == <<Head(object.domain)>>

CutNamespace(object, namespace) ==
    IF Tail(object.domain) = <<>> THEN namespace ELSE Tail(object.domain)

\* The four lists of a sync of d, for a platform with this target namespace, in
\* the order in which they are merged: later ones take precedence.
InLayer(i, d, platform, target, namespace, object) ==
    /\ Labelled(object) /\ object.platform = platform
    /\ CASE i = 1 -> namespace = target /\ object.domain = Global
         [] i = 2 -> namespace = d[1] /\ object.domain = Global
         [] i = 3 -> namespace = d[1] /\ object.domain = d[2]
         [] i = 4 -> object.domain = d[2] \o d[1]

Layers(d, platform, target, namespace, object) ==
    {i \in 1 .. 4 : InLayer(i, d, platform, target, namespace, object)}

\* handleKubeResource: targets maps the platforms in the store to their target
\* namespaces, refs the domains in the store to their platforms.  Objects of
\* the target namespace wake every domain of the platform, global ones those of
\* their namespace, others the domain they name.
Wakes(namespace, object, targets, refs) ==
    LET ns   == CutNamespace(object, namespace)
        mine == {d \in DOMAIN refs : refs[d] = object.platform}
    IN  IF ~Labelled(object) \/ object.platform \notin DOMAIN targets THEN {}
        ELSE IF ns = targets[object.platform] THEN mine
        ELSE IF CutDomain(object) = Global THEN {d \in mine : d[1] = ns}
        ELSE {<<ns, CutDomain(object)>>}

\* The Update handlers compare the platforms and the names of the domains, not
\* their namespaces.
TargetChanged(old, new) ==
    \/ ~Labelled(new) \/ old.platform # new.platform
    \/ CutDomain(old) # CutDomain(new)

\* What an Update wakes; two versions that follow each other differ.
WakesOnUpdate(namespace, old, new, targets, refs) ==
    (IF Labelled(old) /\ TargetChanged(old, new)
     THEN Wakes(namespace, old, targets, refs) ELSE {})
    \cup Wakes(namespace, new, targets, refs)
=============================================================================
