--------------------------- MODULE ClientGoProofs ---------------------------
(***************************************************************************)
(* What the operators on views and on the work queue preserve.             *)
(***************************************************************************)
EXTENDS Informer, WorkQueue, TLAPS

(* The listers and the API server answer with versions of the object's      *)
(* history.                                                                *)
LEMMA ReadsAreVersions ==
    ASSUME NEW S, NEW view \in ViewOf(S), WellFormed(view)
    PROVE  /\ Live(view) \in S /\ Live(view) \in Versions(view)
           /\ Cached(view) \in S /\ Cached(view) \in Versions(view)
           /\ UpToDate(view) => Cached(view) = Live(view)
BY DEF ViewOf, WellFormed, Live, Cached, Versions, UpToDate

(* A view of some versions is a view of more.                              *)
LEMMA ViewsOfLess ==
    ASSUME NEW S, NEW T, S \subseteq T, NEW view \in ViewOf(S \cup {Absent})
    PROVE  view \in ViewOf(T \cup {Absent})
BY DEF ViewOf

(* An object nobody watches has one version.                               *)
LEMMA UnwatchedView ==
    ASSUME NEW S, NEW v \in S
    PROVE  /\ Unwatched(v) \in ViewOf(S) /\ WellFormed(Unwatched(v))
           /\ Versions(Unwatched(v)) = {v} /\ Live(Unwatched(v)) = v
BY DEF ViewOf, WellFormed, Live, Versions, Unwatched

(* After the initial list the Add of an object that exists is to come.     *)
LEMMA ListedView ==
    ASSUME NEW S, Absent \in S, NEW v \in S
    PROVE  /\ Listed(v) \in ViewOf(S) /\ WellFormed(Listed(v))
           /\ Versions(Listed(v)) \subseteq {v, Absent} /\ Live(Listed(v)) = v
           /\ v # Absent => ~UpToDate(Listed(v))
BY DEF ViewOf, WellFormed, Live, Versions, Listed, Unwatched, UpToDate

(* A write adds a version, which the handlers have still to see.           *)
LEMMA WrittenView ==
    ASSUME NEW S, NEW view \in ViewOf(S), WellFormed(view),
           NEW v \in S, v # Live(view)
    PROVE  /\ Written(view, v) \in ViewOf(S) /\ WellFormed(Written(view, v))
           /\ Versions(Written(view, v)) = Versions(view) \cup {v}
           /\ Live(Written(view, v)) = v /\ ~UpToDate(Written(view, v))
<1> DEFINE log == view.log
            n   == Len(log)
            new == Append(log, v)
<1>1. /\ log \in Seq(S) /\ n \in Nat /\ n >= 1 /\ view.cached \in 1 .. n
      /\ \A i \in 1 .. n - 1 : log[i] # log[i + 1]
      /\ v # log[n]
  BY DEF ViewOf, WellFormed, Live
<1>2. Written(view, v) = [log |-> new, cached |-> view.cached]
  BY DEF ViewOf, Written
<1>3. /\ new \in Seq(S) /\ Len(new) = n + 1 /\ new[n + 1] = v
      /\ \A i \in 1 .. n : new[i] = log[i]
  BY <1>1
<1> HIDE DEF log, n, new
<1>4. Written(view, v) \in ViewOf(S)
  BY <1>1, <1>2, <1>3 DEF ViewOf
<1>5. WellFormed(Written(view, v))
  <2>1. \A i \in 1 .. n : new[i] # new[i + 1]
    <3> SUFFICES ASSUME NEW i \in 1 .. n PROVE new[i] # new[i + 1]
      OBVIOUS
    <3>1. CASE i = n
      BY <1>1, <1>3, <3>1
    <3>2. CASE i # n
      <4>1. i \in 1 .. n - 1 /\ i + 1 \in 1 .. n
        BY <1>1, <3>2
      <4> QED BY <1>1, <1>3, <4>1
    <3> QED BY <3>1, <3>2
  <2> QED BY <1>1, <1>2, <1>3, <2>1 DEF WellFormed
<1>6. {new[i] : i \in 1 .. n + 1} = {log[i] : i \in 1 .. n} \cup {v}
  <2>1. 1 .. n + 1 = 1 .. n \cup {n + 1}
    BY <1>1
  <2> QED BY <1>3, <2>1
<1>7. Versions(Written(view, v)) = Versions(view) \cup {v}
  BY <1>2, <1>3, <1>6 DEF Versions, log, n
<1> QED BY <1>1, <1>2, <1>3, <1>4, <1>5, <1>7 DEF Live, UpToDate

(* The store runs ahead of the handlers; nothing else changes.             *)
LEMMA ObservedView ==
    ASSUME NEW S, NEW view \in ViewOf(S), WellFormed(view), CanObserve(view)
    PROVE  /\ Observed(view) \in ViewOf(S) /\ WellFormed(Observed(view))
           /\ Versions(Observed(view)) = Versions(view)
           /\ Live(Observed(view)) = Live(view)
           /\ UpToDate(Observed(view)) = UpToDate(view)
BY DEF ViewOf, WellFormed, Live, Versions, Observed, CanObserve, UpToDate

(* What the store or the handlers have still to see is not up to date.      *)
LEMMA EventsToCome ==
    ASSUME NEW S, NEW view \in ViewOf(S), WellFormed(view), CanNotify(view) \/ CanObserve(view)
    PROVE  ~UpToDate(view)
<1> DEFINE n == Len(view.log)
            c == view.cached
<1>1. n \in Nat /\ c \in 1 .. n /\ (c > 1 \/ c < n)
  BY DEF ViewOf, WellFormed, CanNotify, CanObserve
<1>2. n = 1 <=> UpToDate(view)
  BY DEF UpToDate
<1> HIDE DEF n, c
<1>3. n # 1
  BY <1>1
<1> QED BY <1>2, <1>3

(* A notification is of a change, and forgets the old version; the one that*)
(* leaves nothing to come is of the current version.                       *)
LEMMA NotifiedView ==
    ASSUME NEW S, NEW view \in ViewOf(S), WellFormed(view), CanNotify(view)
    PROVE  /\ Notified(view) \in ViewOf(S) /\ WellFormed(Notified(view))
           /\ OldVersion(view) \in Versions(view) /\ NewVersion(view) \in Versions(view)
           /\ OldVersion(view) \in S /\ NewVersion(view) \in S
           /\ OldVersion(view) # NewVersion(view)
           /\ Versions(view) = {OldVersion(view)} \cup Versions(Notified(view))
           /\ Live(Notified(view)) = Live(view)
           /\ UpToDate(Notified(view)) =>
                NewVersion(view) = Live(view) /\ Versions(Notified(view)) = {Live(view)}
<1> DEFINE log == view.log
            n   == Len(log)
            new == Tail(log)
<1>1. /\ log \in Seq(S) /\ n = Len(log) /\ n \in Nat /\ n >= 2 /\ view.cached \in 2 .. n
      /\ log[1] \in S /\ log[2] \in S /\ log[1] # log[2]
      /\ \A i \in 1 .. n - 1 : log[i] # log[i + 1]
  BY DEF ViewOf, WellFormed, CanNotify
<1>2. /\ new \in Seq(S) /\ Len(new) = n - 1
      /\ \A i \in 1 .. n - 1 : new[i] = log[i + 1]
  BY <1>1
<1>3. /\ Notified(view) = [log |-> new, cached |-> view.cached - 1]
      /\ OldVersion(view) = log[1] /\ NewVersion(view) = log[2]
      /\ Versions(view) = {log[i] : i \in 1 .. n} /\ Live(view) = log[n]
  BY DEF Notified, OldVersion, NewVersion, Versions, Live
<1> HIDE DEF log, n, new
<1>4. Notified(view) \in ViewOf(S)
  BY <1>1, <1>2, <1>3 DEF ViewOf
<1>5. WellFormed(Notified(view))
  <2>1. \A i \in 1 .. n - 2 : new[i] # new[i + 1]
    <3> SUFFICES ASSUME NEW i \in 1 .. n - 2 PROVE new[i] # new[i + 1]
      OBVIOUS
    <3>1. i \in 1 .. n - 1 /\ i + 1 \in 1 .. n - 1
      BY <1>1
    <3> QED BY <1>1, <1>2, <3>1
  <2> QED BY <1>1, <1>2, <1>3, <2>1 DEF WellFormed
<1>6. {log[i] : i \in 1 .. n} = {log[1]} \cup {new[i] : i \in 1 .. n - 1}
  <2>1. ASSUME NEW i \in 1 .. n
        PROVE  log[i] \in {log[1]} \cup {new[j] : j \in 1 .. n - 1}
    <3>1. CASE i = 1
      BY <3>1
    <3>2. CASE i # 1
      <4>1. i - 1 \in 1 .. n - 1 /\ log[i] = log[(i - 1) + 1]
        BY <1>1, <3>2
      <4> QED BY <1>2, <4>1
    <3> QED BY <3>1, <3>2
  <2>2. ASSUME NEW i \in 1 .. n - 1
        PROVE  new[i] \in {log[j] : j \in 1 .. n}
    BY <1>1, <1>2, i + 1 \in 1 .. n
  <2>3. log[1] \in {log[j] : j \in 1 .. n}
    BY <1>1
  <2> DEFINE A == {log[j] : j \in 1 .. n}
             B == {new[j] : j \in 1 .. n - 1}
  <2>4. A \subseteq {log[1]} \cup B
    BY <2>1
  <2>5. {log[1]} \cup B \subseteq A
    BY <2>2, <2>3
  <2> QED BY <2>4, <2>5
<1>7. Versions(Notified(view)) = {new[i] : i \in 1 .. n - 1}
  BY <1>2, <1>3 DEF Versions
<1>8. Live(Notified(view)) = log[n]
  <2>1. n - 1 \in 1 .. n - 1 /\ (n - 1) + 1 = n
    BY <1>1
  <2> QED BY <1>2, <1>3, <2>1 DEF Live
<1>9. /\ OldVersion(view) \in S /\ NewVersion(view) \in S
      /\ OldVersion(view) \in Versions(view) /\ NewVersion(view) \in Versions(view)
      /\ OldVersion(view) # NewVersion(view)
  <2>1. log[1] \in {log[i] : i \in 1 .. n} /\ log[2] \in {log[i] : i \in 1 .. n}
    BY <1>1
  <2> QED BY <1>1, <1>3, <2>1
<1>10. ASSUME UpToDate(Notified(view))
       PROVE  NewVersion(view) = Live(view) /\ Versions(Notified(view)) = {Live(view)}
  <2>1. Len(new) = 1
    BY <1>3, <1>10 DEF UpToDate
  <2>2. n = 2
    <3>1. n - 1 = 1 /\ n \in Nat
      BY <1>1, <1>2, <2>1
    <3> QED BY <3>1
  <2>3. {new[i] : i \in 1 .. n - 1} = {log[2]}
    BY <1>2, <2>2
  <2> QED BY <1>3, <1>7, <2>2, <2>3
<1> QED BY <1>3, <1>4, <1>5, <1>6, <1>7, <1>8, <1>9, <1>10

(* What the histories are, version by version.                             *)
LEMMA WrittenLog ==
    ASSUME NEW S, NEW view \in ViewOf(S), NEW v \in S
    PROVE  /\ Len(view.log) \in Nat /\ Len(Written(view, v).log) = Len(view.log) + 1
           /\ \A i \in 1 .. Len(view.log) : Written(view, v).log[i] = view.log[i]
           /\ Written(view, v).log[Len(view.log) + 1] = v
<1> DEFINE log == view.log
<1>1. log \in Seq(S) /\ Written(view, v).log = Append(log, v)
  BY DEF ViewOf, Written
<1> HIDE DEF log
<1>2. /\ Len(log) \in Nat /\ Len(Append(log, v)) = Len(log) + 1
      /\ \A i \in 1 .. Len(log) : Append(log, v)[i] = log[i]
      /\ Append(log, v)[Len(log) + 1] = v
  BY <1>1
<1> QED BY <1>1, <1>2 DEF log

LEMMA NotifiedLog ==
    ASSUME NEW S, NEW view \in ViewOf(S), WellFormed(view), CanNotify(view)
    PROVE  /\ Len(view.log) \in Nat \ {0, 1} /\ Len(Notified(view).log) = Len(view.log) - 1
           /\ \A i \in 1 .. Len(view.log) - 1 : Notified(view).log[i] = view.log[i + 1]
           /\ OldVersion(view) = view.log[1] /\ NewVersion(view) = view.log[2]
<1> DEFINE log == view.log
           n == Len(log)
           c == view.cached
<1>1. /\ log \in Seq(S) /\ Notified(view).log = Tail(log) /\ n \in Nat /\ n >= 1
      /\ c \in 1 .. n /\ c > 1
  BY DEF ViewOf, Notified, WellFormed, CanNotify
<1>2. OldVersion(view) = log[1] /\ NewVersion(view) = log[2]
  BY DEF OldVersion, NewVersion
<1> HIDE DEF log, c
<1>3. n >= 2
  <2> HIDE DEF n
  <2> QED BY <1>1
<1>4. Len(Tail(log)) = n - 1 /\ \A i \in 1 .. n - 1 : Tail(log)[i] = log[i + 1]
  BY <1>1, <1>3
<1> QED BY <1>1, <1>2, <1>3, <1>4 DEF log
-----------------------------------------------------------------------------
(* The operations of the queue keep its sets sets of keys.                 *)
LEMMA QueueTypes ==
    ASSUME NEW S, NEW q \in QueueOver(S)
    PROVE  /\ \A keys \in SUBSET S : AddAll(q, keys) \in QueueOver(S)
           /\ \A k \in S : /\ Get(q, k) \in QueueOver(S)
                           /\ AddRateLimited(q, k) \in QueueOver(S)
                           /\ AddAfter(q, k) \in QueueOver(S)
                           /\ BackoffOver(q, k) \in QueueOver(S)
                           /\ Done(q, k) \in QueueOver(S)
           /\ Drain(q) \in QueueOver(S)
           /\ EmptyQueue \in QueueOver(S)
BY DEF QueueOver, AddAll, Get, AddRateLimited, AddAfter, BackoffOver, Done, Drain, EmptyQueue
-----------------------------------------------------------------------------
(* Events to come *)

\* The changes the handlers have still to hear of: pairs of versions.
Events(view) == {<<view.log[i], view.log[i + 1]>> : i \in 1 .. Len(view.log) - 1}

(* How the changes to come follow the operations on a view.                *)
LEMMA ChangesOfViews ==
    ASSUME NEW S, Absent \in S, NEW view \in ViewOf(S), WellFormed(view)
    PROVE  /\ Events(Observed(view)) = Events(view)
           /\ CanNotify(view) =>
                Events(view) = {<<OldVersion(view), NewVersion(view)>>} \cup Events(Notified(view))
           /\ \A v \in S : Events(Written(view, v)) = Events(view) \cup {<<Live(view), v>>}
           /\ \A v \in S \ {Absent} : <<Absent, v>> \in Events(Listed(v))
<1>1. Events(Observed(view)) = Events(view)
  <2>1. Observed(view).log = view.log
    BY DEF ViewOf, Observed
  <2> QED BY <2>1 DEF Events
<1>2. ASSUME CanNotify(view)
      PROVE  Events(view) = {<<OldVersion(view), NewVersion(view)>>} \cup Events(Notified(view))
  <2> DEFINE log == view.log
             n == Len(log)
             new == Notified(view).log
  <2>1. /\ n \in Nat \ {0, 1} /\ Len(new) = n - 1
        /\ \A i \in 1 .. n - 1 : new[i] = log[i + 1]
        /\ OldVersion(view) = log[1] /\ NewVersion(view) = log[2]
    BY <1>2, NotifiedLog
  <2> HIDE DEF log, n, new
  <2> DEFINE A == {<<log[i], log[i + 1]>> : i \in 1 .. n - 1}
             B == {<<new[i], new[i + 1]>> : i \in 1 .. n - 2}
  <2>2. ASSUME NEW i \in 1 .. n - 1
        PROVE  <<log[i], log[i + 1]>> \in {<<log[1], log[2]>>} \cup B
    <3>1. CASE i = 1
      BY <3>1
    <3>2. CASE i # 1
      <4>1. i - 1 \in 1 .. n - 2 /\ i - 1 \in 1 .. n - 1 /\ (i - 1) + 1 = i /\ i \in 1 .. n - 1
        BY <2>1, <3>2
      <4>2. new[i - 1] = log[i] /\ new[(i - 1) + 1] = log[i + 1]
        BY <2>1, <4>1
      <4> QED BY <4>1, <4>2
    <3> QED BY <3>1, <3>2
  <2>3. ASSUME NEW i \in 1 .. n - 2 PROVE <<new[i], new[i + 1]>> \in A
    <3>1. i \in 1 .. n - 1 /\ i + 1 \in 1 .. n - 1
      BY <2>1
    <3>2. new[i] = log[i + 1] /\ new[i + 1] = log[(i + 1) + 1]
      BY <2>1, <3>1
    <3> QED BY <3>1, <3>2
  <2>4. <<log[1], log[2]>> \in A
    <3>1. 1 \in 1 .. n - 1 /\ 1 + 1 = 2
      BY <2>1
    <3> QED BY <3>1
  <2>5. A = {<<log[1], log[2]>>} \cup B
    <3> HIDE DEF B
    <3>1. A \subseteq {<<log[1], log[2]>>} \cup B
      BY <2>2
    <3>2. B \subseteq A
      BY <2>3 DEF B
    <3> QED BY <2>4, <3>1, <3>2
  <2>6. Events(view) = A
    BY DEF Events, log, n
  <2>7. Events(Notified(view)) = B
    <3>1. Len(new) - 1 = n - 2
      BY <2>1
    <3> QED BY <3>1 DEF Events, new
  <2> QED BY <2>1, <2>5, <2>6, <2>7
<1>3. ASSUME NEW v \in S
      PROVE  Events(Written(view, v)) = Events(view) \cup {<<Live(view), v>>}
  <2> DEFINE log == view.log
             n == Len(log)
             new == Written(view, v).log
  <2>1. /\ n \in Nat /\ n >= 1 /\ Len(new) = n + 1 /\ new[n + 1] = v
        /\ \A i \in 1 .. n : new[i] = log[i]
    BY WrittenLog DEF WellFormed
  <2>2. Live(view) = log[n]
    BY DEF Live
  <2> HIDE DEF log, n, new
  <2> DEFINE A == {<<log[i], log[i + 1]>> : i \in 1 .. n - 1}
             B == {<<new[i], new[i + 1]>> : i \in 1 .. n}
  <2>3. ASSUME NEW i \in 1 .. n PROVE <<new[i], new[i + 1]>> \in A \cup {<<log[n], v>>}
    <3>1. CASE i = n
      BY <2>1, <3>1
    <3>2. CASE i # n
      <4>1. i \in 1 .. n - 1 /\ i + 1 \in 1 .. n
        BY <2>1, <3>2
      <4>2. new[i] = log[i] /\ new[i + 1] = log[i + 1]
        BY <2>1, <4>1
      <4> QED BY <4>1, <4>2
    <3> QED BY <3>1, <3>2
  <2>4. ASSUME NEW i \in 1 .. n - 1 PROVE <<log[i], log[i + 1]>> \in B
    <3>1. i \in 1 .. n /\ i + 1 \in 1 .. n
      BY <2>1
    <3>2. new[i] = log[i] /\ new[i + 1] = log[i + 1]
      BY <2>1, <3>1
    <3> QED BY <3>1, <3>2
  <2>5. <<log[n], v>> \in B
    <3>1. n \in 1 .. n /\ new[n] = log[n]
      BY <2>1
    <3> QED BY <2>1, <3>1
  <2>6. B = A \cup {<<log[n], v>>}
    <3>1. B \subseteq A \cup {<<log[n], v>>}
      <4> HIDE DEF A
      <4> QED BY <2>3
    <3>2. A \subseteq B
      <4> HIDE DEF B
      <4> QED BY <2>4
    <3> HIDE DEF A, B
    <3> QED BY <2>5, <3>1, <3>2
  <2>7. Events(view) = A
    BY DEF Events, log, n
  <2>8. Events(Written(view, v)) = B
    <3>1. Len(new) - 1 = n
      BY <2>1
    <3> QED BY <3>1 DEF Events, new
  <2> QED BY <2>2, <2>6, <2>7, <2>8
<1>4. ASSUME NEW v \in S \ {Absent} PROVE <<Absent, v>> \in Events(Listed(v))
  <2>1. Listed(v).log = <<Absent, v>>
    BY <1>4 DEF Listed
  <2>2. Len(<<Absent, v>>) = 2 /\ <<Absent, v>>[1] = Absent /\ <<Absent, v>>[1 + 1] = v
    OBVIOUS
  <2>3. 1 \in 1 .. 2 - 1
    OBVIOUS
  <2> QED BY <2>1, <2>2, <2>3 DEF Events
<1> QED BY <1>1, <1>2, <1>3, <1>4

(* The store lags behind the API server by changes that are to come: of the *)
(* version in the store, and to the version in the API server.             *)
LEMMA ChangesOfTheStore ==
    ASSUME NEW S, NEW view \in ViewOf(S), WellFormed(view), Cached(view) # Live(view)
    PROVE  /\ \E c \in Events(view) : c[1] = Cached(view) /\ c[1] # c[2]
           /\ \E c \in Events(view) : c[2] = Live(view)
<1> DEFINE log == view.log
           n == Len(log)
           c == view.cached
<1>1. /\ n \in Nat /\ c \in 1 .. n /\ \A i \in 1 .. n - 1 : log[i] # log[i + 1]
      /\ log[c] # log[n] /\ Cached(view) = log[c] /\ Live(view) = log[n]
  BY DEF ViewOf, WellFormed, Cached, Live
<1>2. \A i \in 1 .. n - 1 : <<log[i], log[i + 1]>> \in Events(view)
  BY DEF Events
<1> HIDE DEF log, n, c
<1>3. c \in 1 .. n - 1 /\ n - 1 \in 1 .. n - 1 /\ (n - 1) + 1 = n
  BY <1>1
<1>4. <<log[c], log[c + 1]>> \in Events(view) /\ <<log[n - 1], log[n]>> \in Events(view)
  BY <1>2, <1>3
<1> DEFINE x == <<log[c], log[c + 1]>>
           y == <<log[n - 1], log[n]>>
<1>5. x[1] = log[c] /\ x[1] # x[2] /\ y[2] = log[n]
  BY <1>1, <1>3
<1> HIDE DEF x, y
<1> QED BY <1>1, <1>4, <1>5 DEF x, y
=============================================================================
