-------------------------- MODULE FlagCalledProofs --------------------------
(***************************************************************************)
(* Safety of FlagCalled, for any number of goroutines, keys, responses and *)
(* derived snapshots and any cache size.                                   *)
(***************************************************************************)
EXTENDS FlagCalled, TLAPS, FiniteSetTheorems

USE SnapshotsAssumption, ValuesAssumption, CacheAssumption, TupleAssumption

--------------------------------------------------------------------------
(* Type correctness, and the bound of the cache.                           *)

LEMMA TypeInit == Init => TypeOK
<1> SUFFICES ASSUME Init PROVE TypeOK
  OBVIOUS
<1>1. flags \in [Snapshots -> [Keys -> Responses]]
  BY DEF Init, Snapshots, Responses
<1>2. cache \subseteq Tuples /\ IsFiniteSet(cache) /\ Cardinality(cache) <= CacheSize
  BY FS_EmptySet DEF Init
<1>3. /\ accessed \in [Snapshots -> SUBSET Keys]
      /\ at \in [Children -> {"none", "filter", "clone", "live"}]
      /\ parent \in [Children -> Snapshots]
      /\ atCall \in [Children -> SUBSET Keys] /\ only \subseteq Children
  BY DEF Init, Snapshots
<1>4. /\ pc \in [Goroutines -> {"idle", "contains", "enqueue", "add"}]
      /\ tuple \in [Goroutines -> Tuples \cup {NoTuple}]
      /\ \A g \in Goroutines : pc[g] = "idle" <=> tuple[g] = NoTuple
  BY DEF Init
<1>5. /\ events \in [Tuples -> Nat] /\ reads \in Nat
      /\ refused \subseteq Tuples /\ lost \subseteq Tuples
      /\ overlapped \subseteq Tuples /\ evicted \subseteq Tuples
  BY DEF Init
<1> QED BY <1>1, <1>2, <1>3, <1>4, <1>5 DEF TypeOK

LEMMA TupleFacts ==
  ASSUME TypeOK
  PROVE  /\ NoTuple \notin Tuples
         /\ \A s \in Live, k \in Keys : <<k, flags[s][k]>> \in Tuples
BY DEF TypeOK, Tuples, Live, Snapshots, Responses

\* One entry goes when the cache is full, so it never holds too many.
LEMMA AddBounded ==
  ASSUME NEW S, NEW t, NEW gone \in SUBSET (S \ {t}),
         IsFiniteSet(S), Cardinality(S) <= CacheSize,
         IF Cardinality(S \cup {t}) <= CacheSize
         THEN gone = {} ELSE Cardinality(gone) = 1
  PROVE  /\ IsFiniteSet((S \cup {t}) \ gone)
         /\ Cardinality((S \cup {t}) \ gone) <= CacheSize
<1> DEFINE A == S \cup {t}
<1>0. /\ IsFiniteSet(A)
      /\ Cardinality(A) = IF t \in S THEN Cardinality(S) ELSE Cardinality(S) + 1
  BY FS_AddElement
<1>2. Cardinality(A) \in Nat /\ Cardinality(S) \in Nat
  BY <1>0, FS_CardinalityType
<1>1. IsFiniteSet(A) /\ Cardinality(A) <= Cardinality(S) + 1
  BY <1>0, <1>2
<1>3. CASE Cardinality(A) <= CacheSize
  <2>1. gone = {}
    BY <1>3
  <2>2. A \ gone = A
    BY <2>1
  <2> QED BY <1>1, <1>3, <2>2
<1>4. CASE ~(Cardinality(A) <= CacheSize)
  <2>1. Cardinality(gone) = 1
    BY <1>4
  <2>2. IsFiniteSet(gone)
    BY FS_Subset
  <2>3. PICK x : gone = {x}
    BY <2>1, <2>2, FS_Singleton
  <2>4. x \in A /\ A \ gone = A \ {x}
    BY <2>3
  <2> HIDE DEF A
  <2>5. IsFiniteSet(A \ {x}) /\ Cardinality(A \ {x}) = Cardinality(A) - 1
    BY <1>1, <2>4, FS_RemoveElement
  <2>6. Cardinality(A) - 1 <= CacheSize
    BY <1>1, <1>2
  <2> QED BY <2>4, <2>5, <2>6 DEF A
<1> QED BY <1>3, <1>4

LEMMA TypeReader ==
  ASSUME TypeOK, NEW g \in Goroutines, Reader(g)
  PROVE  TypeOK'
<1> USE DEF TypeOK
<1>1. CASE RecordAccess(g)
  <2>1. PICK s \in Live, k \in Keys :
          /\ accessed' = [accessed EXCEPT ![s] = @ \cup {k}]
          /\ Begin(g, <<k, flags[s][k]>>) \/ UNCHANGED <<pc, tuple>>
    BY <1>1 DEF RecordAccess
  <2>2. <<k, flags[s][k]>> \in Tuples /\ NoTuple \notin Tuples
    BY TupleFacts
  <2>3. accessed' \in [Snapshots -> SUBSET Keys]
    BY <2>1
  <2>4. reads' \in Nat
    BY <1>1 DEF RecordAccess, Read
  <2>5. CASE Begin(g, <<k, flags[s][k]>>)
    <3> DEFINE t == <<k, flags[s][k]>>
    <3>1. t \in Tuples /\ NoTuple \notin Tuples
      BY <2>2
    <3>2. pc' = [pc EXCEPT ![g] = "contains"] /\ tuple' = [tuple EXCEPT ![g] = t]
      BY <2>5 DEF Begin
    <3> HIDE DEF t
    <3>3. /\ pc' \in [Goroutines -> {"idle", "contains", "enqueue", "add"}]
          /\ tuple' \in [Goroutines -> Tuples \cup {NoTuple}]
          /\ \A h \in Goroutines : pc'[h] = "idle" <=> tuple'[h] = NoTuple
      BY <3>1, <3>2
    <3> QED BY <1>1, <2>3, <2>4, <2>5, <3>3 DEF RecordAccess, eventVars
  <2>6. CASE UNCHANGED <<pc, tuple>>
    BY <1>1, <2>3, <2>4, <2>6 DEF RecordAccess, eventVars
  <2> QED BY <2>1, <2>5, <2>6
<1>2. CASE GetFeatureFlag(g)
  <2>1. PICK t \in Tuples : Begin(g, t)
    BY <1>2 DEF GetFeatureFlag
  <2>2. NoTuple \notin Tuples
    BY TupleFacts
  <2>3. /\ pc' \in [Goroutines -> {"idle", "contains", "enqueue", "add"}]
        /\ tuple' \in [Goroutines -> Tuples \cup {NoTuple}]
        /\ \A h \in Goroutines : pc'[h] = "idle" <=> tuple'[h] = NoTuple
    BY <2>1, <2>2 DEF Begin
  <2>4. reads' \in Nat
    BY <1>2 DEF GetFeatureFlag, Read
  <2> QED BY <1>2, <2>3, <2>4 DEF GetFeatureFlag, eventVars, snapVars
<1>3. CASE Contains(g)
  <2>1. /\ pc' \in [Goroutines -> {"idle", "contains", "enqueue", "add"}]
        /\ tuple' \in [Goroutines -> Tuples \cup {NoTuple}]
        /\ \A h \in Goroutines : pc'[h] = "idle" <=> tuple'[h] = NoTuple
    BY <1>3 DEF Contains, Return
  <2>2. tuple[g] \in Tuples
    BY <1>3 DEF Contains
  <2>3. overlapped' \subseteq Tuples
    BY <1>3, <2>2 DEF Contains
  <2> QED BY <1>3, <2>1, <2>3 DEF Contains, snapVars
<1>4. CASE Enqueue(g)
  <2>1. tuple[g] \in Tuples
    BY <1>4 DEF Enqueue
  <2>2. /\ pc' \in [Goroutines -> {"idle", "contains", "enqueue", "add"}]
        /\ tuple' \in [Goroutines -> Tuples \cup {NoTuple}]
        /\ \A h \in Goroutines : pc'[h] = "idle" <=> tuple'[h] = NoTuple
    BY <1>4 DEF Enqueue, Return
  <2>3. events' \in [Tuples -> Nat]
    BY <1>4, <2>1 DEF Enqueue
  <2>4. refused' \subseteq Tuples /\ lost' \subseteq Tuples
    BY <1>4, <2>1 DEF Enqueue
  <2> QED BY <1>4, <2>2, <2>3, <2>4 DEF Enqueue, snapVars
<1>5. CASE Add(g)
  <2>1. tuple[g] \in Tuples
    BY <1>5 DEF Add
  <2>2. PICK gone \in SUBSET (cache \ {tuple[g]}) :
          /\ IF Cardinality(cache \cup {tuple[g]}) <= CacheSize
             THEN gone = {} ELSE Cardinality(gone) = 1
          /\ cache' = (cache \cup {tuple[g]}) \ gone
          /\ evicted' = evicted \cup gone
    BY <1>5 DEF Add
  <2>3. IsFiniteSet(cache') /\ Cardinality(cache') <= CacheSize
    BY <2>2, AddBounded
  <2>4. cache' \subseteq Tuples /\ evicted' \subseteq Tuples
    BY <2>1, <2>2
  <2>5. /\ pc' \in [Goroutines -> {"idle", "contains", "enqueue", "add"}]
        /\ tuple' \in [Goroutines -> Tuples \cup {NoTuple}]
        /\ \A h \in Goroutines : pc'[h] = "idle" <=> tuple'[h] = NoTuple
    BY <1>5 DEF Add, Return
  <2> QED BY <1>5, <2>3, <2>4, <2>5 DEF Add, snapVars
<1> QED BY <1>1, <1>2, <1>3, <1>4, <1>5 DEF Reader

LEMMA FilteredType ==
  ASSUME TypeOK, NEW p \in Snapshots, NEW keys
  PROVE  Filtered(p, keys) \in [Keys -> Responses]
BY DEF TypeOK, Filtered, Responses

LEMMA TypeDerive ==
  ASSUME TypeOK, NEW c \in Children, Derive(c)
  PROVE  TypeOK'
<1> USE DEF TypeOK
<1>0. Live \subseteq Snapshots /\ c \in Snapshots
  BY DEF Live, Snapshots
<1>1. CASE OnlyAccessed(c)
  BY <1>0, <1>1 DEF OnlyAccessed, callVars, eventVars
<1>2. CASE OnlyAccessedFilter(c)
  <2>1. flags' \in [Snapshots -> [Keys -> Responses]]
    BY <1>0, <1>2, FilteredType DEF OnlyAccessedFilter
  <2> QED BY <1>2, <2>1 DEF OnlyAccessedFilter, callVars, eventVars
<1>3. CASE Only(c)
  <2>1. PICK p \in Live, keys \in SUBSET Keys :
          /\ parent' = [parent EXCEPT ![c] = p]
          /\ flags' = [flags EXCEPT ![c] = Filtered(p, keys)]
    BY <1>3 DEF Only
  <2>2. flags' \in [Snapshots -> [Keys -> Responses]]
    BY <1>0, <2>1, FilteredType
  <2> QED BY <1>0, <1>3, <2>1, <2>2 DEF Only, callVars, eventVars
<1>4. CASE CloneWith(c)
  BY <1>0, <1>4 DEF CloneWith, callVars, eventVars
<1> QED BY <1>1, <1>2, <1>3, <1>4 DEF Derive

(* Every variable stays in its domain and the client never remembers more  *)
(* events than the cache may hold.                                         *)
THEOREM TypeCorrect == Spec => []TypeOK
<1>1. TypeOK /\ UNCHANGED vars => TypeOK'
  BY DEF TypeOK, vars, snapVars, callVars, eventVars
<1>2. TypeOK /\ [Next]_vars => TypeOK'
  BY <1>1, TypeReader, TypeDerive DEF Next
<1> QED BY TypeInit, <1>2, PTL DEF Spec

--------------------------------------------------------------------------
(* What the cache holds was queued, or dropped without an error.           *)

CacheInv ==
  /\ SuppressedWasTaken
  /\ \A g \in Goroutines :
       pc[g] = "add" => events[tuple[g]] > 0 \/ tuple[g] \in lost

LEMMA CacheStep ==
  ASSUME TypeOK, CacheInv, [Next]_vars
  PROVE  CacheInv'
<1> USE DEF TypeOK, CacheInv, SuppressedWasTaken
<1>1. ASSUME NEW g \in Goroutines, RecordAccess(g) \/ GetFeatureFlag(g)
      PROVE  CacheInv'
  BY <1>1 DEF RecordAccess, GetFeatureFlag, Begin, Read, eventVars
<1>2. ASSUME NEW g \in Goroutines, Contains(g) PROVE CacheInv'
  BY <1>2 DEF Contains, Return
<1>3. ASSUME NEW g \in Goroutines, Enqueue(g) PROVE CacheInv'
  <2>1. tuple[g] \in Tuples
    BY <1>3 DEF Enqueue
  <2>2. CASE events' = [events EXCEPT ![tuple[g]] = @ + 1]
             /\ pc' = [pc EXCEPT ![g] = "add"] /\ UNCHANGED <<tuple, cache, lost>>
    BY <2>1, <2>2
  <2>3. CASE lost' = lost \cup {tuple[g]} /\ pc' = [pc EXCEPT ![g] = "add"]
             /\ UNCHANGED <<tuple, cache, events>>
    BY <2>1, <2>3
  <2>4. CASE Return(g) /\ UNCHANGED <<cache, events, lost>>
    BY <2>4 DEF Return
  <2> QED BY <1>3, <2>2, <2>3, <2>4 DEF Enqueue
<1>4. ASSUME NEW g \in Goroutines, Add(g) PROVE CacheInv'
  BY <1>4 DEF Add, Return
<1>5. ASSUME NEW c \in Children, Derive(c) PROVE CacheInv'
  BY <1>5 DEF Derive, OnlyAccessed, OnlyAccessedFilter, Only, CloneWith, callVars,
              eventVars
<1>6. CASE UNCHANGED vars
  BY <1>6 DEF vars, callVars, eventVars
<1> QED BY <1>1, <1>2, <1>3, <1>4, <1>5, <1>6 DEF Next, Reader

LEMMA CacheInvariant == Spec => []CacheInv
<1>1. Init => CacheInv
  BY DEF Init, CacheInv, SuppressedWasTaken
<1>2. TypeOK /\ CacheInv /\ [Next]_vars => CacheInv'
  BY CacheStep
<1> QED BY <1>1, <1>2, TypeCorrect, PTL DEF Spec

(* The cache suppresses an event only after Enqueue returned no error for  *)
(* it once, having queued or dropped it: a refused event is tried again.   *)
THEOREM CacheIsHonest == Spec => []SuppressedWasTaken
<1>1. CacheInv => SuppressedWasTaken
  BY DEF CacheInv
<1> QED BY <1>1, CacheInvariant, PTL

--------------------------------------------------------------------------
(* Duplicates.                                                             *)

\* As long as no two calls for an event overlapped and the cache kept it, one
\* call at a time is queueing it, it was queued once at most, and it is in
\* the cache or about to enter it.
Once(t) ==
  /\ events[t] <= 1
  /\ \A g, h \in Queueing(t) : g = h
  /\ events[t] = 0 \/ t \in cache \/ \E g \in Queueing(t) : pc[g] = "add"
  /\ \A g \in Queueing(t) : pc[g] = "enqueue" => events[t] = 0

DupInv == \A t \in Tuples : t \notin overlapped \cup evicted => Once(t)

\* A goroutine that is not queueing afterwards leaves the others as they were.
LEMMA QueueingFrame ==
  ASSUME NEW g \in Goroutines, NEW t \in Tuples,
         \A h \in Goroutines : h # g => pc'[h] = pc[h] /\ tuple'[h] = tuple[h],
         pc'[g] \in {"idle", "contains"}
  PROVE  /\ Queueing(t)' = Queueing(t) \ {g}
         /\ \A h \in Queueing(t)' : pc'[h] = pc[h]
BY DEF Queueing

LEMMA DupReader ==
  ASSUME TypeOK, DupInv, NEW g \in Goroutines, Reader(g),
         NEW t \in Tuples, t \notin (overlapped \cup evicted)'
  PROVE  Once(t)'
<1>0. t \notin overlapped \cup evicted
  BY DEF Reader, RecordAccess, GetFeatureFlag, Contains, Enqueue, Add, eventVars
<1>1. Once(t)
  BY <1>0 DEF DupInv
<1>2. \A h \in Goroutines : h # g => pc'[h] = pc[h] /\ tuple'[h] = tuple[h]
  BY DEF TypeOK, Reader, RecordAccess, GetFeatureFlag, Contains, Enqueue, Add,
         Begin, Return
<1>3. CASE RecordAccess(g) \/ GetFeatureFlag(g)
  <2>1. pc[g] = "idle" /\ pc'[g] \in {"idle", "contains"} /\ UNCHANGED eventVars
    BY <1>3 DEF TypeOK, RecordAccess, GetFeatureFlag, Begin, Read
  <2>2. g \notin Queueing(t)
    BY <2>1 DEF Queueing
  <2>3. Queueing(t)' = Queueing(t) /\ \A h \in Queueing(t) : pc'[h] = pc[h]
    <3>1. pc'[g] \in {"idle", "contains"}
      BY <2>1
    <3>2. /\ Queueing(t)' = Queueing(t) \ {g}
          /\ \A h \in Queueing(t)' : pc'[h] = pc[h]
      BY <1>2, <3>1, QueueingFrame
    <3> QED BY <2>2, <3>2
  <2>4. events'[t] = events[t] /\ cache' = cache
    BY <2>1 DEF eventVars
  <2> QED BY <1>1, <2>3, <2>4 DEF Once
<1>4. CASE Contains(g)
  <2>1. pc[g] = "contains" /\ UNCHANGED <<cache, events, evicted>>
    BY <1>4 DEF Contains
  <2>2. g \notin Queueing(t)
    BY <2>1 DEF Queueing
  <2>3. CASE pc'[g] = "idle"
    <3>1. Queueing(t)' = Queueing(t) /\ \A h \in Queueing(t) : pc'[h] = pc[h]
      <4>1. pc'[g] \in {"idle", "contains"}
        BY <2>3
      <4>2. /\ Queueing(t)' = Queueing(t) \ {g}
            /\ \A h \in Queueing(t)' : pc'[h] = pc[h]
        BY <1>2, <4>1, QueueingFrame
      <4> QED BY <2>2, <4>2
    <3> QED BY <1>1, <2>1, <3>1 DEF Once
  <2>4. CASE pc'[g] = "enqueue" /\ tuple[g] \notin cache /\ tuple' = tuple
             /\ (Queueing(tuple[g]) # {} => tuple[g] \in overlapped')
    <3>1. CASE t # tuple[g]
      <4>1. Queueing(t)' = Queueing(t) /\ \A h \in Queueing(t) : pc'[h] = pc[h]
        BY <1>2, <2>2, <2>4, <3>1 DEF Queueing
      <4> QED BY <1>1, <2>1, <4>1 DEF Once
    <3>2. CASE t = tuple[g]
      <4>1. Queueing(t) = {}
        BY <2>4, <3>2
      <4>2. Queueing(t)' = {g}
        BY <1>2, <2>4, <3>2, <4>1 DEF Queueing
      <4>3. events[t] = 0
        BY <1>1, <2>4, <3>2, <4>1 DEF Once
      <4> QED BY <2>1, <4>2, <4>3 DEF Once
    <3> QED BY <3>1, <3>2
  <2> QED BY <1>4, <2>3, <2>4 DEF TypeOK, Contains, Return
<1>5. CASE Enqueue(g)
  <2>1. pc[g] = "enqueue" /\ UNCHANGED <<cache, overlapped, evicted>>
    BY <1>5 DEF Enqueue
  <2>2. tuple[g] = t => g \in Queueing(t) /\ events[t] = 0
    BY <1>1, <2>1 DEF Once, Queueing
  <2>3. CASE events' = events /\ pc'[g] = "idle"
    <3>1. /\ Queueing(t)' = Queueing(t) \ {g}
          /\ \A h \in Queueing(t)' : pc'[h] = pc[h]
      BY <1>2, <2>3, QueueingFrame
    <3>2. \A h \in Queueing(t) : pc[h] = "add" => h \in Queueing(t)' /\ pc'[h] = "add"
      BY <2>1, <3>1
    <3> QED BY <1>1, <2>1, <2>3, <3>1, <3>2 DEF Once
  <2>4. CASE events' = [events EXCEPT ![tuple[g]] = @ + 1] /\ pc'[g] = "add"
             /\ tuple' = tuple
    <3>1. Queueing(t)' = Queueing(t)
      BY <1>2, <2>1, <2>4 DEF Queueing
    <3>2. CASE t # tuple[g]
      <4>1. events'[t] = events[t]
        BY <2>4, <3>2 DEF TypeOK
      <4>2. \A h \in Queueing(t) : pc'[h] = pc[h]
        BY <1>2, <3>2 DEF Queueing
      <4> QED BY <1>1, <2>1, <3>1, <4>1, <4>2 DEF Once
    <3>3. CASE t = tuple[g]
      <4>1. events'[t] = 1
        BY <2>2, <2>4, <3>3 DEF TypeOK
      <4>2. \A h \in Queueing(t) : h = g
        BY <1>1, <2>2, <3>3 DEF Once
      <4> QED BY <2>2, <2>4, <3>1, <3>3, <4>1, <4>2 DEF Once
    <3> QED BY <3>2, <3>3
  <2>5. CASE events' = events /\ pc'[g] = "add" /\ tuple' = tuple
    <3>1. Queueing(t)' = Queueing(t)
      BY <1>2, <2>1, <2>5 DEF Queueing
    <3>2. \A h \in Queueing(t) : pc'[h] = pc[h] \/ (h = g /\ pc'[h] = "add")
      BY <1>2, <2>5 DEF Queueing
    <3> QED BY <1>1, <2>1, <2>5, <3>1, <3>2 DEF Once
  <2> QED BY <1>5, <2>3, <2>4, <2>5 DEF TypeOK, Enqueue, Return
<1>6. CASE Add(g)
  <2>1. pc[g] = "add" /\ pc'[g] = "idle" /\ UNCHANGED <<events, overlapped>>
    BY <1>6 DEF TypeOK, Add, Return
  <2>2. tuple[g] \in cache' /\ (t \in cache => t \in cache')
    BY <1>6 DEF Add
  <2>3. /\ Queueing(t)' = Queueing(t) \ {g}
        /\ \A h \in Queueing(t)' : pc'[h] = pc[h]
    BY <1>2, <2>1, QueueingFrame
  <2>4. g \in Queueing(t) => t = tuple[g]
    BY DEF Queueing
  <2>5. \A h \in Queueing(t) : pc[h] = "add" /\ h # g
                              => h \in Queueing(t)' /\ pc'[h] = "add"
    BY <2>3
  <2> QED BY <1>1, <2>1, <2>2, <2>3, <2>4, <2>5 DEF Once
<1> QED BY <1>3, <1>4, <1>5, <1>6 DEF Reader

LEMMA DupStep ==
  ASSUME TypeOK, DupInv, [Next]_vars
  PROVE  DupInv'
<1>1. ASSUME NEW g \in Goroutines, Reader(g) PROVE DupInv'
  BY <1>1, DupReader DEF DupInv
<1>2. ASSUME NEW c \in Children, Derive(c) PROVE UNCHANGED <<callVars, eventVars>>
  BY <1>2 DEF Derive, OnlyAccessed, OnlyAccessedFilter, Only, CloneWith
<1>3. CASE UNCHANGED <<callVars, eventVars>>
  BY <1>3 DEF DupInv, Once, Queueing, callVars, eventVars
<1> QED BY <1>1, <1>2, <1>3 DEF Next, vars

(* An event is queued a second time only if two calls for it overlapped or *)
(* the cache had dropped it.                                               *)
THEOREM OnceUnlessOverlapped == Spec => []DuplicatesExplained
<1>1. Init => DupInv
  BY DEF Init, DupInv, Once, Queueing
<1>2. TypeOK /\ DupInv /\ [Next]_vars => DupInv'
  BY DupStep
<1>3. TypeOK /\ DupInv => DuplicatesExplained
  BY DEF TypeOK, DupInv, Once, DuplicatesExplained
<1> QED BY <1>1, <1>2, <1>3, TypeCorrect, PTL DEF Spec

--------------------------------------------------------------------------
(* Derived snapshots.                                                      *)

\* What relates a snapshot to the one it is made from, from the call on.
Derived(c) ==
  /\ parent[c] \in Live /\ parent[c] # c
  /\ c \notin only => atCall[c] \subseteq accessed[parent[c]]
  /\ at[c] \in {"clone", "live"} => \A k \in Keys :
       /\ flags[c][k] # Missing => flags[c][k] = flags[parent[c]][k]
       /\ c \notin only => /\ k \in atCall[c] => flags[c][k] = flags[parent[c]][k]
                           /\ flags[c][k] # Missing => k \in accessed[parent[c]]
  /\ at[c] = "live" /\ c \notin only =>
       \A k \in Keys : flags[c][k] # Missing => k \in accessed[c]

SnapInv == \A c \in Children : at[c] # "none" => Derived(c)

LEMMA AccessedGrows ==
  ASSUME TypeOK, NEW g \in Goroutines, Reader(g), NEW s \in Snapshots
  PROVE  accessed[s] \subseteq accessed'[s]
<1>1. CASE RecordAccess(g)
  <2>1. PICK p \in Live, k \in Keys : accessed' = [accessed EXCEPT ![p] = @ \cup {k}]
    BY <1>1 DEF RecordAccess
  <2> QED BY <2>1 DEF TypeOK
<1>2. CASE ~RecordAccess(g)
  BY <1>2 DEF Reader, GetFeatureFlag, Contains, Enqueue, Add, snapVars
<1> QED BY <1>1, <1>2

\* The flags of a snapshot that was returned do not change, and what was
\* accessed on it stays accessed.
LEMMA LiveFrame ==
  ASSUME TypeOK, [Next]_vars, NEW s \in Live
  PROVE  s \in Live' /\ flags'[s] = flags[s] /\ accessed[s] \subseteq accessed'[s]
<1> USE DEF TypeOK
<1>0. s \in Snapshots /\ (s \in Originals => s \notin Children)
  BY DEF Live, Snapshots
<1>1. ASSUME NEW g \in Goroutines, Reader(g)
      PROVE  UNCHANGED <<flags, at>> /\ accessed[s] \subseteq accessed'[s]
  <2>1. UNCHANGED <<flags, at>>
    BY <1>1 DEF Reader, RecordAccess, GetFeatureFlag, Contains, Enqueue, Add, snapVars
  <2> QED BY <1>0, <1>1, <2>1, AccessedGrows
<1>2. ASSUME NEW c \in Children, Derive(c)
      PROVE  /\ at[c] # "live"
             /\ \A d \in Children : d # c => at'[d] = at[d]
             /\ \A d \in Snapshots : d # c => flags'[d] = flags[d] /\ accessed'[d] = accessed[d]
  BY <1>2 DEF Derive, OnlyAccessed, OnlyAccessedFilter, Only, CloneWith
<1>3. CASE UNCHANGED vars
  BY <1>3 DEF vars, snapVars, Live
<1>4. ASSUME NEW c \in Children, Derive(c)
      PROVE  s \in Live' /\ flags'[s] = flags[s] /\ accessed[s] \subseteq accessed'[s]
  <2>1. s # c
    BY <1>0, <1>2, <1>4 DEF Live
  <2> QED BY <1>0, <1>2, <1>4, <2>1 DEF Live
<1> QED BY <1>1, <1>3, <1>4 DEF Next, Live

\* A step that leaves a child alone keeps what relates it to its parent.
LEMMA DerivedFrame ==
  ASSUME TypeOK, [Next]_vars, NEW c \in Children, Derived(c), at'[c] = at[c],
         flags'[c] = flags[c], parent'[c] = parent[c], atCall'[c] = atCall[c],
         accessed[c] \subseteq accessed'[c], only \subseteq only'
  PROVE  Derived(c)'
<1>1. parent[c] \in Live
  BY DEF Derived
<1>2. /\ parent[c] \in Live' /\ flags'[parent[c]] = flags[parent[c]]
      /\ accessed[parent[c]] \subseteq accessed'[parent[c]]
  BY <1>1, LiveFrame
<1> QED BY <1>2 DEF Derived

LEMMA FilteredIs ==
  ASSUME NEW p, NEW keys, NEW k \in Keys
  PROVE  Filtered(p, keys)[k] = IF k \in keys THEN flags[p][k] ELSE Missing
BY DEF Filtered

LEMMA SnapStep ==
  ASSUME TypeOK, SnapInv, [Next]_vars
  PROVE  SnapInv'
<1> USE DEF TypeOK
<1>1. ASSUME NEW g \in Goroutines, Reader(g) PROVE SnapInv'
  <2>1. \A c \in Children : accessed[c] \subseteq accessed'[c]
    BY <1>1, AccessedGrows DEF Snapshots
  <2>2. UNCHANGED <<flags, at, parent, atCall, only>>
    BY <1>1 DEF Reader, RecordAccess, GetFeatureFlag, Contains, Enqueue, Add, snapVars
  <2> QED BY <2>1, <2>2, DerivedFrame DEF SnapInv
<1>2. ASSUME NEW c \in Children, Derive(c) PROVE SnapInv'
  <2> SUFFICES ASSUME NEW d \in Children, at'[d] # "none" PROVE Derived(d)'
    BY DEF SnapInv
  <2>0. d \in Snapshots /\ c \in Snapshots
    BY DEF Snapshots
  <2>1. CASE d # c
    <3>1. /\ at'[d] = at[d] /\ flags'[d] = flags[d] /\ parent'[d] = parent[d]
          /\ atCall'[d] = atCall[d] /\ accessed'[d] = accessed[d] /\ only \subseteq only'
      BY <1>2, <2>0, <2>1 DEF Derive, OnlyAccessed, OnlyAccessedFilter, Only, CloneWith
    <3> QED BY <3>1, DerivedFrame DEF SnapInv
  <2>2. CASE d = c /\ OnlyAccessed(c)
    <3>1. PICK p \in Live : /\ parent' = [parent EXCEPT ![c] = p]
                            /\ atCall' = [atCall EXCEPT ![c] = accessed[p]]
      BY <2>2 DEF OnlyAccessed
    <3>2. p \in Live' /\ p # c
      BY <2>2, <3>1, LiveFrame DEF OnlyAccessed, Live
    <3> QED BY <2>2, <3>1, <3>2 DEF OnlyAccessed, Derived
  <2>3. CASE d = c /\ OnlyAccessedFilter(c)
    <3>1. Derived(c) /\ at'[c] = "clone"
      BY <2>3 DEF OnlyAccessedFilter, SnapInv
    <3>2. parent[c] \in Live' /\ flags'[parent[c]] = flags[parent[c]]
      BY <3>1, LiveFrame DEF Derived
    <3>3. flags'[c] = Filtered(parent[c], accessed[parent[c]])
      BY <2>0, <2>3 DEF OnlyAccessedFilter
    <3>4. \A k \in Keys : flags'[c][k] = IF k \in accessed[parent[c]]
                                         THEN flags[parent[c]][k] ELSE Missing
      BY <3>3, FilteredIs
    <3>5. UNCHANGED <<accessed, parent, atCall, only>>
      BY <2>3 DEF OnlyAccessedFilter
    <3> QED BY <2>3, <3>1, <3>2, <3>4, <3>5 DEF Derived
  <2>4. CASE d = c /\ Only(c)
    <3>1. PICK p \in Live, keys \in SUBSET Keys :
            /\ parent' = [parent EXCEPT ![c] = p]
            /\ flags' = [flags EXCEPT ![c] = Filtered(p, keys)]
      BY <2>4 DEF Only
    <3>2. p \in Live' /\ p # c /\ flags'[p] = flags[p]
      BY <2>4, <3>1, LiveFrame DEF Only, Live
    <3>3. \A k \in Keys : flags'[c][k] = IF k \in keys THEN flags[p][k] ELSE Missing
      BY <2>0, <3>1, FilteredIs
    <3>4. parent'[c] = p /\ at'[c] = "clone" /\ c \in only'
      BY <2>4, <3>1 DEF Only
    <3> QED BY <2>4, <3>2, <3>3, <3>4 DEF Derived
  <2>5. CASE d = c /\ CloneWith(c)
    <3>1. Derived(c) /\ at[c] = "clone"
      BY <2>5 DEF CloneWith, SnapInv
    <3>2. /\ parent[c] \in Live' /\ parent[c] # c /\ flags'[parent[c]] = flags[parent[c]]
          /\ accessed[parent[c]] \subseteq accessed'[parent[c]]
      BY <3>1, LiveFrame DEF Derived
    <3>3. accessed'[c] = accessed[parent[c]]
      BY <2>0, <2>5 DEF CloneWith
    <3>4. UNCHANGED <<flags, parent, atCall, only>>
      BY <2>5 DEF CloneWith
    <3> QED BY <2>5, <3>1, <3>2, <3>3, <3>4 DEF Derived
  <2> QED BY <1>2, <2>1, <2>2, <2>3, <2>4, <2>5 DEF Derive
<1>3. CASE UNCHANGED vars
  BY <1>3 DEF vars, snapVars, SnapInv, Derived, Live
<1> QED BY <1>1, <1>2, <1>3 DEF Next

LEMMA SnapInvariant == Spec => []SnapInv
<1>1. Init => SnapInv
  BY DEF Init, SnapInv
<1>2. TypeOK /\ SnapInv /\ [Next]_vars => SnapInv'
  BY SnapStep
<1> QED BY <1>1, <1>2, TypeCorrect, PTL DEF Spec

(* OnlyAccessed, whose two critical sections let other goroutines in        *)
(* between, keeps all that was accessed before it and nothing else.        *)
THEOREM OnlyAccessedKeepsTheAccessed == Spec => []OnlyAccessedIsExact
<1>1. TypeOK /\ SnapInv => OnlyAccessedIsExact
  BY DEF TypeOK, SnapInv, Derived, OnlyAccessedIsExact
<1> QED BY <1>1, TypeCorrect, SnapInvariant, PTL

(* What a child of OnlyAccessed holds is marked as accessed in it.         *)
THEOREM ChildrenRemember == Spec => []ChildRemembers
<1>1. TypeOK /\ SnapInv => ChildRemembers
  BY DEF TypeOK, SnapInv, Derived, ChildRemembers
<1> QED BY <1>1, TypeCorrect, SnapInvariant, PTL

--------------------------------------------------------------------------
(* No read is forgotten.                                                   *)

Reported(t) == events[t] > 0 \/ t \in lost \cup refused \/ InProgress(t)

\* A call that ends leaves its event queued, dropped or refused.
LEMMA ReportedStep ==
  ASSUME TypeOK, CacheInv, [Next]_vars, NEW t \in Tuples, Reported(t)
  PROVE  Reported(t)'
<1> USE DEF TypeOK
<1>0. t # NoTuple
  BY TupleFacts
<1>1. ASSUME NEW g \in Goroutines, Reader(g) PROVE Reported(t)'
  <2>1. \A h \in Goroutines : h # g => tuple'[h] = tuple[h]
    BY <1>1 DEF Reader, RecordAccess, GetFeatureFlag, Contains, Enqueue, Add, Begin, Return
  <2>2. tuple[g] # t /\ InProgress(t) => InProgress(t)'
    BY <2>1 DEF InProgress
  <2>3. events[t] > 0 => events'[t] > 0
    BY <1>1 DEF Reader, RecordAccess, GetFeatureFlag, Contains, Enqueue, Add, eventVars
  <2>4. t \in lost \cup refused => t \in (lost \cup refused)'
    BY <1>1 DEF Reader, RecordAccess, GetFeatureFlag, Contains, Enqueue, Add, eventVars
  <2>5. CASE tuple[g] = t
    <3>1. CASE RecordAccess(g) \/ GetFeatureFlag(g)
      BY <1>0, <2>5, <3>1 DEF RecordAccess, GetFeatureFlag, Read
    <3>2. CASE Contains(g)
      <4>1. t \in cache => events[t] > 0 \/ t \in lost
        BY DEF CacheInv, SuppressedWasTaken
      <4>2. t \notin cache => tuple' = tuple
        BY <2>5, <3>2 DEF Contains
      <4> QED BY <2>3, <2>4, <2>5, <4>1, <4>2 DEF Reported, InProgress
    <3>3. CASE Enqueue(g)
      BY <2>5, <3>3 DEF Enqueue, Reported, InProgress
    <3>4. CASE Add(g)
      <4>1. events[t] > 0 \/ t \in lost
        BY <2>5, <3>4 DEF Add, CacheInv
      <4> QED BY <2>3, <2>4, <4>1 DEF Reported
    <3> QED BY <1>1, <3>1, <3>2, <3>3, <3>4 DEF Reader
  <2> QED BY <2>2, <2>3, <2>4, <2>5 DEF Reported
<1>2. ASSUME NEW c \in Children, Derive(c) PROVE UNCHANGED <<callVars, eventVars>>
  BY <1>2 DEF Derive, OnlyAccessed, OnlyAccessedFilter, Only, CloneWith
<1>3. CASE UNCHANGED <<callVars, eventVars>>
  BY <1>3 DEF Reported, InProgress, callVars, eventVars
<1> QED BY <1>1, <1>2, <1>3 DEF Next, vars

LEMMA ReadStep ==
  ASSUME TypeOK, TypeOK', CacheInv, SnapInv, ReadIsReported, [Next]_vars
  PROVE  ReadIsReported'
<1> USE DEF TypeOK
<1> SUFFICES ASSUME NEW s \in Live', NEW k \in Keys, k \in accessed'[s],
                    s \in Originals \/ flags'[s][k] # Missing,
                    NEW t \in Tuples, t = <<k, flags'[s][k]>>
             PROVE  Reported(t)'
  <2>1. \A s \in Live', k \in Keys : <<k, flags'[s][k]>> \in Tuples
    BY DEF Tuples, Live, Snapshots, Responses
  <2> QED BY <2>1 DEF ReadIsReported, Reported
<1>0. s \in Snapshots /\ \A p \in Live : <<k, flags[p][k]>> \in Tuples
  BY TupleFacts DEF Live, Snapshots
<1>1. ASSUME NEW p \in Live, k \in accessed[p], p \in Originals \/ flags[p][k] # Missing,
             t = <<k, flags[p][k]>>
      PROVE  Reported(t)'
  <2>1. Reported(t)
    BY <1>1 DEF ReadIsReported, Reported
  <2> QED BY <2>1, ReportedStep
<1>2. CASE s \in Live /\ k \in accessed[s]
  <2>1. flags'[s] = flags[s]
    BY <1>2, LiveFrame
  <2> QED BY <1>1, <1>2, <2>1
<1>3. CASE s \in Live /\ k \notin accessed[s]
  <2>1. PICK g \in Goroutines : RecordAccess(g)
    <3>1. ASSUME NEW c \in Children, Derive(c) PROVE FALSE
      <4>1. at[c] # "live" /\ \A d \in Snapshots : d # c => accessed'[d] = accessed[d]
        BY <3>1 DEF Derive, OnlyAccessed, OnlyAccessedFilter, Only, CloneWith
      <4>2. s # c
        BY <1>3, <4>1 DEF Live
      <4> QED BY <1>0, <1>3, <4>1, <4>2
    <3> QED BY <1>0, <1>3, <3>1 DEF Next, Reader, GetFeatureFlag, Contains, Enqueue, Add,
                            vars, snapVars
  <2>2. PICK p \in Live, j \in Keys :
          /\ accessed' = [accessed EXCEPT ![p] = @ \cup {j}]
          /\ j \notin accessed[p] => Begin(g, <<j, flags[p][j]>>)
    BY <2>1 DEF RecordAccess
  <2>3. p = s /\ j = k
    BY <1>0, <1>3, <2>2
  <2>4. tuple'[g] = <<k, flags[s][k]>>
    BY <1>3, <2>2, <2>3 DEF Begin
  <2>5. flags' = flags
    BY <2>1 DEF RecordAccess
  <2>6. tuple'[g] = t
    BY <2>4, <2>5
  <2> QED BY <2>6 DEF Reported, InProgress
<1>4. CASE s \notin Live
  <2>1. s \in Children /\ at'[s] = "live" /\ at[s] # "live"
    BY <1>4 DEF Live
  <2>2. CloneWith(s)
    <3>1. ASSUME NEW g \in Goroutines, Reader(g) PROVE at' = at
      BY <3>1 DEF Reader, RecordAccess, GetFeatureFlag, Contains, Enqueue, Add, snapVars
    <3>2. ASSUME NEW c \in Children, Derive(c), ~CloneWith(s) PROVE at'[s] # "live"
      BY <2>1, <3>2 DEF Derive, OnlyAccessed, OnlyAccessedFilter, Only, CloneWith
    <3> QED BY <2>1, <3>1, <3>2 DEF Next, vars, snapVars
  <2>3. accessed'[s] = accessed[parent[s]] /\ flags' = flags /\ at[s] = "clone"
    BY <1>0, <2>2 DEF CloneWith
  <2>4. Derived(s)
    BY <2>1, <2>3 DEF SnapInv
  <2>5. flags[s][k] # Missing
    BY <1>4, <2>3 DEF Live
  <2>6. parent[s] \in Live /\ k \in accessed[parent[s]] /\ flags[parent[s]][k] = flags[s][k]
    BY <2>3, <2>4, <2>5 DEF Derived
  <2>7. t = <<k, flags[parent[s]][k]>> /\ flags[parent[s]][k] # Missing
    BY <2>3, <2>5, <2>6
  <2> QED BY <1>1, <2>6, <2>7
<1> QED BY <1>2, <1>3, <1>4

(* Every flag that was read from a snapshot has its event on its way, or   *)
(* Enqueue has queued, dropped or refused it, whichever cache suppressed a *)
(* later call.                                                             *)
THEOREM ReadsAreReported == Spec => []ReadIsReported
<1>1. Init => ReadIsReported
  BY DEF Init, ReadIsReported, Live, Snapshots
<1>2. TypeOK /\ TypeOK' /\ CacheInv /\ SnapInv /\ ReadIsReported /\ [Next]_vars
        => ReadIsReported'
  BY ReadStep
<1> QED BY <1>1, <1>2, TypeCorrect, CacheInvariant, SnapInvariant, PTL DEF Spec
=============================================================================
