--------------------------- MODULE CacheVerifier ---------------------------
(***************************************************************************)
(* The cache verifier of the web server (internal/web/cacheverifier.go):   *)
(* it compares, again and again, the items the API server lists with those *)
(* in the informer's store, and gives up on a cache that looks stuck,      *)
(* which shuts the server down.                                            *)
(*                                                                         *)
(* A resource version is a positive number, growing over all items; 0      *)
(* stands for an item that is not listed (the code's empty string).        *)
(***************************************************************************)
EXTENDS Integers, Sequences

CONSTANTS
  Items,       \* the names of the items one verifier looks at
  MaxVersion,  \* bound on the writes to them
  MaxRemovals  \* bound on the removals

ASSUME BoundsAssumption == MaxVersion \in Nat /\ MaxRemovals \in Nat

VARIABLES
  stored,     \* the resource versions in the API server
  cached,     \* the resource versions in the informer's store
  events,     \* the watch events on their way to the informer, per item
  rv,         \* the last resource version given out
  removals,   \* how many items have been removed
  step,       \* the verifier: "sleep", "list" (the cached items) or "stuck"
  listed,     \* the non-cached items it has listed
  diffMap,    \* the cached version at the last difference, None without an entry
  reported,   \* the items of which a verification error was reported
  lastDiffs   \* history: the items that differed in the last completed round

verifierVars == <<stored, cached, events, rv, removals, step, listed, diffMap, reported, lastDiffs>>

None == -1

Absent == [i \in Items |-> 0]

VerifierInit ==
  /\ stored = Absent /\ cached = Absent
  /\ events = [i \in Items |-> <<>>]
  /\ rv = 0
  /\ removals = 0
  /\ step = "sleep"
  /\ listed = Absent
  /\ diffMap = [i \in Items |-> None]
  /\ reported = {}
  /\ lastDiffs = {}

-----------------------------------------------------------------------------
(* The environment: items are written and removed, and the informer        *)
(* applies the events in order, unless it is stuck.                        *)

Change(i, v) ==
  /\ stored' = [stored EXCEPT ![i] = v]
  /\ events' = [events EXCEPT ![i] = Append(@, v)]
  /\ UNCHANGED <<cached, step, listed, diffMap, reported, lastDiffs>>

Write(i) ==
  /\ rv < MaxVersion
  /\ rv' = rv + 1
  /\ Change(i, rv + 1)
  /\ UNCHANGED removals

Delete(i) ==
  /\ stored[i] # 0
  /\ removals < MaxRemovals
  /\ removals' = removals + 1
  /\ Change(i, 0)
  /\ UNCHANGED rv

Deliver(i) ==
  /\ events[i] # <<>>
  /\ cached' = [cached EXCEPT ![i] = Head(events[i])]
  /\ events' = [events EXCEPT ![i] = Tail(@)]
  /\ UNCHANGED <<stored, rv, removals, step, listed, diffMap, reported, lastDiffs>>

-----------------------------------------------------------------------------
(* One round: first the non-cached list, then the cached one.              *)

ListNonCached ==
  /\ step = "sleep"
  /\ listed' = stored
  /\ step' = "list"
  /\ UNCHANGED <<stored, cached, events, rv, removals, diffMap, reported, lastDiffs>>

(* A list call fails: the round is skipped.                                *)
ListFails ==
  /\ step = "list"
  /\ step' = "sleep"
  /\ UNCHANGED <<stored, cached, events, rv, removals, listed, diffMap, reported, lastDiffs>>

diffs == {i \in Items : cached[i] # listed[i]}

(* handleDiff: an item whose cached version is the one of the last         *)
(* difference is a verification error.                                     *)
stuckItems == {i \in diffs : diffMap[i] = cached[i]}

(* Mutants: the entry holds the other version; it is never dropped.        *)
diffMapNonCached == [i \in Items |-> IF i \in diffs THEN listed[i] ELSE None]

diffMapForever == [i \in Items |-> IF i \in diffs THEN cached[i] ELSE diffMap[i]]

(* The entries after a round without error.  An entry is dropped only when *)
(* the item is found in both lists in the same version.                    *)
diffMapAfter ==
  [i \in Items |-> IF i \in diffs THEN cached[i]
                   ELSE IF cached[i] # 0 /\ listed[i] # 0 THEN None ELSE diffMap[i]]

Compare ==
  /\ step = "list"
  /\ stuckItems = {}
  /\ step' = "sleep"
  /\ diffMap' = diffMapAfter
  /\ lastDiffs' = diffs
  /\ UNCHANGED <<stored, cached, events, rv, removals, listed, reported>>

(* The first error ends the loop; closeAndReset clears the map and reports *)
(* it.                                                                     *)
CloseAndReset(i) ==
  /\ step = "list"
  /\ i \in stuckItems
  /\ step' = "stuck"
  /\ diffMap' = [j \in Items |-> None]
  /\ reported' = reported \cup {i}
  /\ UNCHANGED <<stored, cached, events, rv, removals, listed, lastDiffs>>

-----------------------------------------------------------------------------

Round == ListNonCached \/ Compare \/ \E i \in Items : CloseAndReset(i)

VerifierNext ==
  \/ \E i \in Items : Write(i) \/ Delete(i) \/ Deliver(i)
  \/ Round
  \/ ListFails

(* The verifier keeps going, and list calls do not fail for ever.  The     *)
(* informer is not fair: it may be stuck.                                  *)
VerifierSpec == VerifierInit /\ [][VerifierNext]_verifierVars /\ WF_verifierVars(ListNonCached)
             /\ SF_verifierVars(Compare \/ \E i \in Items : CloseAndReset(i))

-----------------------------------------------------------------------------

VerifierTypeOK ==
  /\ stored \in [Items -> 0..MaxVersion]
  /\ cached \in [Items -> 0..MaxVersion]
  /\ listed \in [Items -> 0..MaxVersion]
  /\ diffMap \in [Items -> {None} \cup 0..MaxVersion]
  /\ step \in {"sleep", "list", "stuck"}
  /\ reported \subseteq Items

(* The verifier does not overlook a stuck cache: an item whose cached      *)
(* version stays different from the stored one for ever gets the server    *)
(* shut down.                                                              *)
StuckCacheIsReported ==
  \A i \in Items : <>[](cached[i] # stored[i]) => <>(step = "stuck")

(* "cache verification for %s failed two times in a row"                   *)
(* (cacheVerificationError): the verifier is not fooled by a cache that is *)
(* merely slow; an item that is reported also differed in the completed    *)
(* round before.  This holds as long as no item is removed: an item that   *)
(* is gone from both lists keeps its entry in diffMap.                     *)
ReportedAfterTwoDiffs ==
  [][removals = 0 => reported' \ reported \subseteq lastDiffs]_verifierVars

=============================================================================
