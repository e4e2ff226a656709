------------------------------- MODULE Paging --------------------------------
(***************************************************************************)
(* Get of all instances, by start and stop (pkg/helpers/helpers.go         *)
(* ConvertStartStopToSliceIndexes and the end of the etcd and git Getter's *)
(* Run), and a client that walks the list page by page, as these options   *)
(* invite it to, while other requests come and go.  Each page is a Get of  *)
(* its own: nothing ties one to the next.                                  *)
(*                                                                         *)
(* The list holds every key under the common prefix, and the etcd Getter   *)
(* takes each for an instance: also the keys of files, and those by which  *)
(* requests hold or wait for a lock, which go when they end.  A slice      *)
(* expression out of bounds panics, nothing in the server recovers and the *)
(* process is gone.                                                        *)
(***************************************************************************)
EXTENDS Integers, FiniteSets

CONSTANTS
  Keys,       \* the keys there may be, numbered in their order
  PageSize,
  MaxChanges  \* bound: keys put or removed during the walk

ASSUME PagingAssumption ==
  /\ Keys \subseteq Nat
  /\ IsFiniteSet(Keys)
  /\ PageSize \in Nat \ {0}
  /\ MaxChanges \in Nat

VARIABLES
  stored,     \* the keys in the State Store
  start,      \* where the client's next page starts
  seen,       \* what it has got so far ...
  received,   \* ... and in how many entries
  walk,       \* "walking", "done", or "crashed": the server panicked
  steady,     \* history: keys stored ever since the walk began
  lost,       \* history: how many keys have been removed since,
  gained      \* history: and how many put

walkVars   == <<start, seen, received, walk>>
pagingVars == <<stored, walkVars, steady, lost, gained>>

PagingInit ==
  /\ stored \in SUBSET Keys
  /\ start = 1
  /\ seen = {}
  /\ received = 0
  /\ walk = "walking"
  /\ steady = stored
  /\ lost = 0
  /\ gained = 0

-----------------------------------------------------------------------------
(* Faulty form: stop is not cut down to the length. *)
ConvertStartStopToSliceIndexes_Uncut(from, stop, length) ==
  <<IF from <= 0 THEN 0 ELSE from - 1, stop>>

(* Faulty form: stop, too, is taken for the number of an instance. *)
ConvertStartStopToSliceIndexes_Inclusive(from, stop, length) ==
  <<IF from <= 0 THEN 0 ELSE from - 1, IF stop >= length THEN length ELSE stop + 1>>

(* start counts from 1, and 0 or less means the beginning; stop is cut     *)
(* down to the length of the list.                                         *)
ConvertStartStopToSliceIndexes(from, stop, length) ==
  <<IF from <= 0 THEN 0 ELSE from - 1, IF stop > length THEN length ELSE stop>>

(* list[start:], if stop has come out as 0, else list[start:stop]. *)
Bounds(from, stop, length) ==
  LET index == ConvertStartStopToSliceIndexes(from, stop, length)
  IN  <<index[1], IF index[2] = 0 THEN length ELSE index[2]>>

Panics(from, stop, length) ==
  LET b == Bounds(from, stop, length)
  IN  ~ (0 <= b[1] /\ b[1] <= b[2] /\ b[2] <= length)

(* The list comes sorted by key. *)
Rank(k) == Cardinality({j \in stored : j <= k})

Page(from, stop) ==
  LET b == Bounds(from, stop, Cardinality(stored))
  IN  {k \in stored : b[1] < Rank(k) /\ Rank(k) <= b[2]}

-----------------------------------------------------------------------------
(* The client asks for the next page, and stops after a short one. *)
GetPage ==
  /\ walk = "walking"
  /\ LET stop == start + PageSize - 1
         page == Page(start, stop)
     IN  IF Panics(start, stop, Cardinality(stored))
           THEN walk' = "crashed" /\ UNCHANGED <<start, seen, received>>
           ELSE /\ seen' = seen \cup page
                /\ received' = received + Cardinality(page)
                /\ start' = stop + 1
                /\ walk' = IF Cardinality(page) < PageSize THEN "done" ELSE "walking"
  /\ UNCHANGED <<stored, steady, lost, gained>>

(* An Apply puts an instance or one of its files, a request its lock key. *)
Put(k) ==
  /\ walk = "walking"
  /\ lost + gained < MaxChanges
  /\ k \notin stored
  /\ stored' = stored \cup {k}
  /\ gained' = gained + 1
  /\ UNCHANGED <<walkVars, steady, lost>>

(* A lock is released; or a Delete takes all that begins with the key of   *)
(* its instance, a stretch of the list.                                    *)
Remove(first, last) ==
  LET gone == {k \in stored : first <= k /\ k <= last}
  IN  /\ walk = "walking"
      /\ gone # {}
      /\ lost + gained + Cardinality(gone) <= MaxChanges
      /\ stored' = stored \ gone
      /\ steady' = steady \ gone
      /\ lost' = lost + Cardinality(gone)
      /\ UNCHANGED <<walkVars, gained>>

PagingNext ==
  \/ GetPage
  \/ \E k \in Keys : Put(k)
  \/ \E first, last \in Keys : Remove(first, last)

PagingSpec == PagingInit /\ [][PagingNext]_pagingVars

-----------------------------------------------------------------------------
(* Of what was there all along, a walk that comes to its end has missed no *)
(* more than was removed meanwhile, one release of a lock included; and    *)
(* only if something was removed can it crash the server.  With nothing    *)
(* removed it is complete, also when its last page is full.                *)
MissesNoMoreThanLost ==
  /\ walk = "done" => Cardinality(steady \ seen) <= lost
  /\ walk = "crashed" => lost > 0

(* A walk has got no more entries twice than keys were put meanwhile: with *)
(* none, each once.                                                        *)
RepeatsNoMoreThanGained == received - Cardinality(seen) <= gained

PagingTypeOK ==
  /\ stored \subseteq Keys
  /\ start \in Nat \ {0}
  /\ seen \subseteq Keys
  /\ received \in Nat
  /\ walk \in {"walking", "done", "crashed"}
  /\ steady \subseteq stored
  /\ lost \in Nat
  /\ gained \in Nat

(* What a removal moves to the front of the next page, the walk misses;    *)
(* nothing else: until it ends it is beyond the list by no more than that. *)
PassedOver == {k \in steady \ seen : Rank(k) < start}

MissedAreLost ==
  /\ Cardinality(PassedOver) <= lost
  /\ walk = "walking" => start - 1 <= Cardinality(stored) + lost
  /\ walk = "done" => \A k \in stored : Rank(k) < start
  /\ walk = "crashed" => lost > 0

(* What it has got already and will get again, a Put has moved there, or   *)
(* has put back.                                                           *)
ToRepeat == {k \in seen \cap stored : Rank(k) >= start}

RepeatedAreGained == received - Cardinality(seen) + Cardinality(ToRepeat) <= gained

(* Why a walk misses and repeats no more than it does. *)
PagingInv ==
  /\ PagingTypeOK
  /\ MissedAreLost
  /\ RepeatedAreGained
=============================================================================
