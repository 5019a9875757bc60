----------------------------- MODULE FlagCalled -----------------------------
(***************************************************************************)
(* $feature_flag_called events.  Goroutines read flags from snapshots      *)
(* (FeatureFlagEvaluations) or one at a time (GetFeatureFlag); a snapshot  *)
(* remembers the keys read from it under its own mutex, and the client     *)
(* remembers the events it has queued in an LRU cache shared by all.       *)
(* OnlyAccessed and Only derive a snapshot from another one.               *)
(*                                                                         *)
(* One distinct_id, device and group context: an event is told from        *)
(* another by its key and the response.  The LRU cache is external; which  *)
(* entry it evicts is left open.  Enqueue may refuse an event, and may drop *)
(* it without an error.                                                    *)
(***************************************************************************)
EXTENDS Integers, FiniteSets

CONSTANTS
  Goroutines,
  Keys,        \* flag keys
  Values,      \* what a flag may evaluate to
  Missing,     \* response for a key the snapshot has no flag for
  Originals,   \* snapshots returned by EvaluateFlags
  Children,    \* snapshots returned by OnlyAccessed and Only
  NoTuple,
  CacheSize,   \* CACHE_DEFAULT_SIZE
  MaxReads     \* bound on the reads of flags that are made

ASSUME SnapshotsAssumption == Originals \cap Children = {}
ASSUME ValuesAssumption == Missing \notin Values
ASSUME CacheAssumption == CacheSize \in Nat \ {0}
ASSUME TupleAssumption == NoTuple \notin Keys \X (Values \cup {Missing})

VARIABLES
  flags,      \* of each snapshot: the response for every key
  accessed,   \* of each snapshot
  at,         \* where the call that makes a child is
  parent,     \* snapshot a child is made from; itself until OnlyAccessed or Only is called
  atCall,     \* history: keys accessed on it when OnlyAccessed was called
  only,       \* children made by Only
  pc,         \* where each goroutine is in recordAccess
  tuple,      \* the event it is about
  cache,      \* distinctIdsFeatureFlagsReported
  events,     \* history: number of events queued
  refused,    \* history: events Enqueue refused with an error
  lost,       \* history: events Enqueue returned no error for and did not queue
  overlapped, \* history: events checked while another call was queueing them
  evicted,    \* history: events the cache has dropped
  reads       \* reads made, bounded by MaxReads

snapVars  == <<flags, accessed, at, parent, atCall, only>>
callVars  == <<pc, tuple, reads>>
eventVars == <<cache, events, refused, lost, overlapped, evicted>>
vars == <<snapVars, callVars, eventVars>>

Snapshots == Originals \cup Children
Responses == Values \cup {Missing}
Tuples == Keys \X Responses

Live == Originals \cup {c \in Children : at[c] = "live"}

Init ==
  /\ \E evaluated \in [Originals -> [Keys -> Responses]] :
       flags = [s \in Snapshots |-> IF s \in Originals THEN evaluated[s]
                                    ELSE [k \in Keys |-> Missing]]
  /\ accessed = [s \in Snapshots |-> {}]
  /\ at = [c \in Children |-> "none"]
  /\ parent = [c \in Children |-> c]
  /\ atCall = [c \in Children |-> {}]
  /\ only = {}
  /\ pc = [g \in Goroutines |-> "idle"]
  /\ tuple = [g \in Goroutines |-> NoTuple]
  /\ cache = {}
  /\ events = [t \in Tuples |-> 0]
  /\ refused = {} /\ lost = {} /\ overlapped = {} /\ evicted = {}
  /\ reads = 0

--------------------------------------------------------------------------
(* Reading a flag.                                                         *)

Begin(g, t) ==
  /\ pc' = [pc EXCEPT ![g] = "contains"]
  /\ tuple' = [tuple EXCEPT ![g] = t]

Read(g) == pc[g] = "idle" /\ reads < MaxReads /\ reads' = reads + 1

\* IsEnabled or GetFlag: recordAccess up to the client call.
RecordAccess(g) ==
  /\ Read(g)
  /\ \E s \in Live, k \in Keys :
       /\ accessed' = [accessed EXCEPT ![s] = @ \cup {k}]
       /\ \/ /\ k \notin accessed[s]
             /\ Begin(g, <<k, flags[s][k]>>)
          \/ /\ k \in accessed[s]
             /\ UNCHANGED <<pc, tuple>>
  /\ UNCHANGED <<flags, at, parent, atCall, only, eventVars>>

\* GetFeatureFlag and its kin evaluate and report without a snapshot.
GetFeatureFlag(g) ==
  /\ Read(g)
  /\ \E t \in Tuples : Begin(g, t)
  /\ UNCHANGED <<snapVars, eventVars>>

Return(g) ==
  /\ pc' = [pc EXCEPT ![g] = "idle"]
  /\ tuple' = [tuple EXCEPT ![g] = NoTuple]

\* The calls that have missed the cache and not added their event to it yet.
Queueing(t) == {g \in Goroutines : pc[g] \in {"enqueue", "add"} /\ tuple[g] = t}

\* Mutant: the response is not part of the cache key.
ContainsByKey(g) ==
  /\ pc[g] = "contains"
  /\ \/ /\ \E t \in cache : t[1] = tuple[g][1]
        /\ Return(g)
        /\ UNCHANGED overlapped
     \/ /\ \A t \in cache : t[1] # tuple[g][1]
        /\ pc' = [pc EXCEPT ![g] = "enqueue"]
        /\ overlapped' = IF Queueing(tuple[g]) = {} THEN overlapped
                         ELSE overlapped \cup {tuple[g]}
        /\ UNCHANGED tuple
  /\ UNCHANGED <<snapVars, reads, cache, events, refused, lost, evicted>>

\* captureFlagCalledIfNeeded: is the event in the cache?
Contains(g) ==
  /\ pc[g] = "contains"
  /\ \/ /\ tuple[g] \in cache
        /\ Return(g)
        /\ UNCHANGED overlapped
     \/ /\ tuple[g] \notin cache
        /\ pc' = [pc EXCEPT ![g] = "enqueue"]
        /\ overlapped' = IF Queueing(tuple[g]) = {} THEN overlapped
                         ELSE overlapped \cup {tuple[g]}
        /\ UNCHANGED tuple
  /\ UNCHANGED <<snapVars, reads, cache, events, refused, lost, evicted>>

\* EnqueueWithContext queues the event; or drops it and returns no error, when
\* BeforeSend drops it, changes it into something invalid or panics, or when it
\* fails to serialize; or refuses it with an error.
Enqueue(g) ==
  /\ pc[g] = "enqueue"
  /\ \/ /\ \/ events' = [events EXCEPT ![tuple[g]] = @ + 1] /\ UNCHANGED lost
           \/ lost' = lost \cup {tuple[g]} /\ UNCHANGED events
        /\ pc' = [pc EXCEPT ![g] = "add"]
        /\ UNCHANGED <<tuple, refused>>
     \/ /\ refused' = refused \cup {tuple[g]}
        /\ Return(g)
        /\ UNCHANGED <<events, lost>>
  /\ UNCHANGED <<snapVars, reads, cache, overlapped, evicted>>

\* Mutant: the event is not remembered.
AddNothing(g) ==
  /\ pc[g] = "add"
  /\ Return(g)
  /\ UNCHANGED <<snapVars, reads, eventVars>>

\* The cache takes the event, whether or not it was queued, and drops another when
\* it is full.
Add(g) ==
  /\ pc[g] = "add"
  /\ \E gone \in SUBSET (cache \ {tuple[g]}) :
       /\ IF Cardinality(cache \cup {tuple[g]}) <= CacheSize
          THEN gone = {} ELSE Cardinality(gone) = 1
       /\ cache' = (cache \cup {tuple[g]}) \ gone
       /\ evicted' = evicted \cup gone
  /\ Return(g)
  /\ UNCHANGED <<snapVars, reads, events, refused, lost, overlapped>>

--------------------------------------------------------------------------
(* Deriving a snapshot.                                                    *)

\* OnlyAccessed is called.
OnlyAccessed(c) ==
  /\ at[c] = "none"
  /\ \E p \in Live :
       /\ parent' = [parent EXCEPT ![c] = p]
       /\ atCall' = [atCall EXCEPT ![c] = accessed[p]]
  /\ at' = [at EXCEPT ![c] = "filter"]
  /\ UNCHANGED <<flags, accessed, only, callVars, eventVars>>

Filtered(p, keys) == [k \in Keys |-> IF k \in keys THEN flags[p][k] ELSE Missing]

\* Mutant: when nothing was accessed all flags are kept.
OnlyAccessedFilterOrAll(c) ==
  /\ at[c] = "filter"
  /\ flags' = [flags EXCEPT ![c] =
                 IF accessed[parent[c]] = {} THEN flags[parent[c]]
                 ELSE Filtered(parent[c], accessed[parent[c]])]
  /\ at' = [at EXCEPT ![c] = "clone"]
  /\ UNCHANGED <<accessed, parent, atCall, only, callVars, eventVars>>

\* Its first section under the mutex of the parent.
OnlyAccessedFilter(c) ==
  /\ at[c] = "filter"
  /\ flags' = [flags EXCEPT ![c] = Filtered(parent[c], accessed[parent[c]])]
  /\ at' = [at EXCEPT ![c] = "clone"]
  /\ UNCHANGED <<accessed, parent, atCall, only, callVars, eventVars>>

\* Only reads nothing that changes.
Only(c) ==
  /\ at[c] = "none"
  /\ \E p \in Live, keys \in SUBSET Keys :
       /\ parent' = [parent EXCEPT ![c] = p]
       /\ flags' = [flags EXCEPT ![c] = Filtered(p, keys)]
  /\ only' = only \cup {c}
  /\ at' = [at EXCEPT ![c] = "clone"]
  /\ UNCHANGED <<accessed, atCall, callVars, eventVars>>

\* cloneWith, a second section under the mutex.
CloneWith(c) ==
  /\ at[c] = "clone"
  /\ accessed' = [accessed EXCEPT ![c] = accessed[parent[c]]]
  /\ at' = [at EXCEPT ![c] = "live"]
  /\ UNCHANGED <<flags, parent, atCall, only, callVars, eventVars>>

--------------------------------------------------------------------------

Reader(g) == RecordAccess(g) \/ GetFeatureFlag(g) \/ Contains(g) \/ Enqueue(g) \/ Add(g)

Derive(c) == OnlyAccessed(c) \/ OnlyAccessedFilter(c) \/ Only(c) \/ CloneWith(c)

Next == (\E g \in Goroutines : Reader(g)) \/ (\E c \in Children : Derive(c))

Spec == Init /\ [][Next]_vars

--------------------------------------------------------------------------
(* Properties.                                                             *)

TypeOK ==
  /\ flags \in [Snapshots -> [Keys -> Responses]]
  /\ accessed \in [Snapshots -> SUBSET Keys]
  /\ at \in [Children -> {"none", "filter", "clone", "live"}]
  /\ parent \in [Children -> Snapshots]
  /\ atCall \in [Children -> SUBSET Keys]
  /\ only \subseteq Children
  /\ pc \in [Goroutines -> {"idle", "contains", "enqueue", "add"}]
  /\ tuple \in [Goroutines -> Tuples \cup {NoTuple}]
  /\ \A g \in Goroutines : pc[g] = "idle" <=> tuple[g] = NoTuple
  /\ cache \subseteq Tuples /\ IsFiniteSet(cache) /\ Cardinality(cache) <= CacheSize
  /\ events \in [Tuples -> Nat]
  /\ refused \subseteq Tuples /\ lost \subseteq Tuples
  /\ overlapped \subseteq Tuples /\ evicted \subseteq Tuples
  /\ reads \in Nat

InProgress(t) == \E g \in Goroutines : tuple[g] = t

\* What the cache suppresses was queued, or dropped without an error: an event
\* that was only ever refused is tried again by the next caller.
SuppressedWasTaken == \A t \in cache : events[t] > 0 \/ t \in lost

\* Reading a flag is never forgotten on the way to Enqueue: its event was queued,
\* dropped or refused there, or is on the way, whichever of the snapshots and of the
\* cache suppressed the later calls.
ReadIsReported ==
  \A s \in Live, k \in Keys :
    k \in accessed[s] /\ (s \in Originals \/ flags[s][k] # Missing) =>
      LET t == <<k, flags[s][k]>>
      IN  events[t] > 0 \/ t \in lost \cup refused \/ InProgress(t)

\* An event is queued twice only when two calls looked it up at the same time
\* or the cache had dropped it.
DuplicatesExplained ==
  \A t \in Tuples : events[t] > 1 => t \in overlapped \cup evicted

\* OnlyAccessed keeps every flag accessed before the call, and none that was
\* not accessed.
OnlyAccessedIsExact ==
  \A c \in Children \ only : at[c] \in {"clone", "live"} =>
    \A k \in Keys :
      /\ k \in atCall[c] => flags[c][k] = flags[parent[c]][k]
      /\ flags[c][k] # Missing => k \in accessed[parent[c]]

\* What a child of OnlyAccessed holds counts as accessed in it, so that it
\* does not report again what its parent reported.
ChildRemembers ==
  \A c \in Children \ only : at[c] = "live" =>
    \A k \in Keys : flags[c][k] # Missing => k \in accessed[c]
=============================================================================
