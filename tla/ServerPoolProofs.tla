-------------------------- MODULE ServerPoolProofs --------------------------
(* Proofs about ServerPool, for any servers, workers, schedule and edits.   *)
EXTENDS ServerPool, FiniteSetTheorems, TLAPS

(* The inductive invariant.  The two relations the properties rest on: the  *)
(* map holds an entry under the entry's own key, and a worker refers to an  *)
(* entry exactly while its request is out.                                  *)
ListedUnderOwnKey == \A k \in Keys : servers[k] # None => heap[servers[k]].key = k

HeldWhileCalling == \A c \in Callers : held[c] # None <=> pc[c] = "call"

ReadBeforeApply == reloader.at = "apply" => reloader.cfg # Malformed

IInv ==
  /\ TypeOK
  /\ ListedUnderOwnKey
  /\ HeldWhileCalling
  /\ ReadBeforeApply
  /\ InFlightExact
  /\ HeldIsListed
-----------------------------------------------------------------------------
LEMMA CallersFinite ==
  ASSUME NEW e
  PROVE  /\ IsFiniteSet(CallersOf(e))
         /\ Cardinality(CallersOf(e)) \in Nat
<1>1. CallersOf(e) \subseteq Callers
  BY DEF CallersOf
<1>2. QED
  BY <1>1, ConstantsAssumption, FS_Subset, FS_CardinalityType

(* Reclaiming keeps the objects something refers to, and types the rest.    *)
LEMMA ReclaimedEntries ==
  ASSUME NEW s, NEW hd, NEW h \in [Entries -> EntryType]
  PROVE  /\ Reclaimed(h, s, hd) \in [Entries -> EntryType]
         /\ \A e \in Entries : e \in Referenced(s, hd) => Reclaimed(h, s, hd)[e] = h[e]
         /\ \A e \in Entries : e \notin Referenced(s, hd) =>
                                 Reclaimed(h, s, hd)[e] = Unused
<1>1. Unused \in EntryType
  BY ConstantsAssumption DEF Unused, NewEntry, EntryType
<1>2. QED
  BY <1>1 DEF Reclaimed

LEMMA NewEntryType ==
  ASSUME NEW k \in Keys, NEW cap \in Caps
  PROVE  NewEntry(k, cap) \in EntryType
BY ConstantsAssumption DEF NewEntry, EntryType

(* An object nobody refers to is charged nothing and held by nobody.        *)
LEMMA UnusedExact ==
  ASSUME NEW e, \A c \in Callers : held[c] # e
  PROVE  Cardinality(CallersOf(e)) = 0
<1>1. CallersOf(e) = {}
  BY DEF CallersOf
<1>2. QED
  BY <1>1, FS_EmptySet
-----------------------------------------------------------------------------
LEMMA InitIInv == Init => IInv
<1> SUFFICES ASSUME Init PROVE IInv
  OBVIOUS
<1>1. TypeOK
  <2>1. Unused \in EntryType
    BY ConstantsAssumption DEF Unused, NewEntry, EntryType
  <2>2. file \in [cfg : ConfigType \cup {Malformed}, mtime : Nat]
    BY ConstantsAssumption DEF Init
  <2>3. QED
    BY <2>1, <2>2, ConstantsAssumption DEF Init, TypeOK, Asleep
<1>2. \A e \in Entries : heap[e].inFlight = Cardinality(CallersOf(e))
  <2> TAKE e \in Entries
  <2>1. \A c \in Callers : held[c] # e
    BY ConstantsAssumption DEF Init
  <2>2. heap[e].inFlight = 0
    BY DEF Init, Unused, NewEntry
  <2>3. QED
    BY <2>1, <2>2, UnusedExact
<1>3. QED
  BY <1>1, <1>2 DEF Init, IInv, ListedUnderOwnKey, HeldWhileCalling, ReadBeforeApply,
                    InFlightExact, HeldIsListed, Asleep

(* Steps that touch neither the pool nor a worker's hold on an entry.       *)
LEMMA QuietStep ==
  ASSUME IInv, TypeOK', UNCHANGED <<servers, heap, held>>,
         HeldWhileCalling', ReadBeforeApply'
  PROVE  IInv'
<1>1. \A e \in Entries : CallersOf(e)' = CallersOf(e)
  BY DEF CallersOf
<1>2. QED
  BY <1>1 DEF IInv, ListedUnderOwnKey, InFlightExact, HeldIsListed, Listed
-----------------------------------------------------------------------------
(* Sending a request: one more on the entry picked, by a worker that held   *)
(* none.                                                                    *)
LEMMA GrabExact ==
  ASSUME IInv, NEW c \in Callers, held[c] = None, NEW e \in Entries,
         held' = [held EXCEPT ![c] = e]
  PROVE  /\ Cardinality(CallersOf(e)') = Cardinality(CallersOf(e)) + 1
         /\ \A d \in Entries \ {e} : CallersOf(d)' = CallersOf(d)
<1>1. CallersOf(e)' = CallersOf(e) \cup {c} /\ c \notin CallersOf(e)
  BY ConstantsAssumption DEF CallersOf, IInv, TypeOK
<1>2. Cardinality(CallersOf(e) \cup {c}) = Cardinality(CallersOf(e)) + 1
  BY <1>1, CallersFinite, FS_AddElement
<1>3. \A d \in Entries \ {e} : CallersOf(d)' = CallersOf(d)
  BY ConstantsAssumption DEF CallersOf, IInv, TypeOK
<1>4. QED
  BY <1>1, <1>2, <1>3

(* Settling a request: one fewer on the entry it was sent to.               *)
LEMMA SettleExact ==
  ASSUME IInv, NEW c \in Callers, NEW e \in Entries, held[c] = e,
         held' = [held EXCEPT ![c] = None]
  PROVE  /\ heap[e].inFlight > 0
         /\ Cardinality(CallersOf(e)') = heap[e].inFlight - 1
         /\ \A d \in Entries \ {e} : CallersOf(d)' = CallersOf(d)
<1>1. CallersOf(e)' = CallersOf(e) \ {c} /\ c \in CallersOf(e)
  BY ConstantsAssumption DEF CallersOf, IInv, TypeOK
<1>2. Cardinality(CallersOf(e) \ {c}) = Cardinality(CallersOf(e)) - 1
  BY <1>1, CallersFinite, FS_RemoveElement
<1>3. heap[e].inFlight = Cardinality(CallersOf(e))
  BY DEF IInv, InFlightExact
<1>4. Cardinality(CallersOf(e)) # 0
  BY <1>1, CallersFinite, FS_EmptySet
<1>5. \A d \in Entries \ {e} : CallersOf(d)' = CallersOf(d)
  BY ConstantsAssumption DEF CallersOf, IInv, TypeOK
<1>6. QED
  BY <1>1, <1>2, <1>3, <1>4, <1>5, CallersFinite

(* An entry with a request out on it is never a drained one.                *)
LEMMA HeldNotDrained ==
  ASSUME IInv, NEW c \in Callers, held[c] # None
  PROVE  /\ held[c] \in Entries
         /\ heap[held[c]].inFlight > 0
         /\ heap[held[c]].key \in Keys
         /\ servers[heap[held[c]].key] = held[c]
<1>1. held[c] \in Entries
  BY DEF IInv, TypeOK
<1>2. c \in CallersOf(held[c])
  BY DEF CallersOf
<1>3. Cardinality(CallersOf(held[c])) # 0
  BY <1>2, CallersFinite, FS_EmptySet
<1>4. heap[held[c]].inFlight > 0
  BY <1>1, <1>3, CallersFinite DEF IInv, InFlightExact
<1>5. QED
  BY <1>1, <1>4 DEF IInv, TypeOK, EntryType, HeldIsListed, Listed
-----------------------------------------------------------------------------
(* What a step must establish of the objects before unreferenced ones are   *)
(* reclaimed, for the pool's invariants to hold after it.                   *)
LEMMA PoolStep ==
  ASSUME NEW h \in [Entries -> EntryType],
         servers' \in [Keys -> Entries \cup {None}],
         held' \in [Callers -> Entries \cup {None}],
         heap' = Reclaimed(h, servers', held'),
         \A k \in Keys : servers'[k] # None => h[servers'[k]].key = k,
         \A c \in Callers : held'[c] # None =>
           /\ h[held'[c]].key \in Keys
           /\ servers'[h[held'[c]].key] = held'[c],
         \A e \in Entries : h[e].inFlight = Cardinality(CallersOf(e)')
  PROVE  /\ heap' \in [Entries -> EntryType]
         /\ ListedUnderOwnKey'
         /\ InFlightExact'
         /\ HeldIsListed'
<1>1. /\ heap' \in [Entries -> EntryType]
      /\ \A e \in Entries : e \in Referenced(servers', held') => heap'[e] = h[e]
      /\ \A e \in Entries : e \notin Referenced(servers', held') => heap'[e] = Unused
  BY ReclaimedEntries
<1>2. ListedUnderOwnKey'
  BY <1>1 DEF ListedUnderOwnKey, Referenced
<1>3. HeldIsListed'
  BY <1>1, ConstantsAssumption DEF HeldIsListed, Listed, Referenced
<1>4. ASSUME NEW e \in Entries
      PROVE  heap'[e].inFlight = Cardinality(CallersOf(e)')
  <2>1. CASE e \in Referenced(servers', held')
    BY <2>1, <1>1
  <2>2. CASE e \notin Referenced(servers', held')
    <3>1. CallersOf(e)' = {}
      BY <2>2 DEF CallersOf, Referenced
    <3>2. heap'[e].inFlight = 0
      BY <2>2, <1>1 DEF Unused, NewEntry
    <3>3. QED
      BY <3>1, <3>2, FS_EmptySet
  <2>3. QED
    BY <2>1, <2>2
<1>5. QED
  BY <1>1, <1>2, <1>3, <1>4 DEF InFlightExact

(* Sweeping drops only entries nobody holds.                                *)
LEMMA SweptKeepsHeld ==
  ASSUME IInv
  PROVE  /\ Swept(servers, heap) \in [Keys -> Entries \cup {None}]
         /\ \A k \in Keys : Swept(servers, heap)[k] # None =>
                              Swept(servers, heap)[k] = servers[k]
         /\ \A c \in Callers : held[c] # None =>
                              Swept(servers, heap)[heap[held[c]].key] = held[c]
<1>1. \A c \in Callers : held[c] # None => ~Drained(heap, held[c])
  BY HeldNotDrained DEF Drained
<1>2. QED
  BY <1>1, HeldNotDrained DEF Swept, IInv, TypeOK

(* What may be added: one object for each server of K, under its cap.       *)
Addition(K, f, cfg) ==
  /\ K \subseteq Keys
  /\ \A k \in K : f[k] \in Entries /\ cfg[k] \in Caps
  /\ \A j, k \in K : f[j] = f[k] => j = k

LEMMA WithEntriesFacts ==
  ASSUME NEW K, NEW f, NEW cfg, Addition(K, f, cfg),
         NEW h, h \in [Entries -> EntryType]
  PROVE  /\ WithEntries(h, K, f, cfg) \in [Entries -> EntryType]
         /\ \A k \in K : WithEntries(h, K, f, cfg)[f[k]] = NewEntry(k, cfg[k])
         /\ \A e \in Entries : \/ \E k \in K : f[k] = e
                               \/ WithEntries(h, K, f, cfg)[e] = h[e]
<1>1. ASSUME NEW k \in K
      PROVE  (CHOOSE j \in K : f[j] = f[k]) = k
  BY DEF Addition
<1>2. \A k \in K : WithEntries(h, K, f, cfg)[f[k]] = NewEntry(k, cfg[k])
  BY <1>1 DEF WithEntries, Addition
<1>3. ASSUME NEW e \in Entries
      PROVE  /\ WithEntries(h, K, f, cfg)[e] \in EntryType
             /\ \/ \E k \in K : f[k] = e
                \/ WithEntries(h, K, f, cfg)[e] = h[e]
  <2>1. CASE \E k \in K : f[k] = e
    BY <2>1, <1>2, NewEntryType DEF Addition
  <2>2. CASE ~\E k \in K : f[k] = e
    BY <2>2 DEF WithEntries
  <2>3. QED
    BY <2>1, <2>2
<1>4. QED
  BY <1>2, <1>3 DEF WithEntries
-----------------------------------------------------------------------------
(* One lemma per kind of step.                                              *)

LEMMA QuietActions ==
  ASSUME IInv,
         \/ InitStat \/ Close \/ Done \/ ReloadStat \/ ReloadRead \/ Edit
  PROVE  IInv'
<1> USE ConstantsAssumption DEF IInv, TypeOK, HeldWhileCalling, ReadBeforeApply
<1>1. CASE InitStat
  BY <1>1, QuietStep DEF InitStat, workers
<1>2. CASE Close
  BY <1>2, QuietStep DEF Close, workers
<1>3. CASE Done
  BY <1>3, QuietStep DEF Done, vars
<1>4. CASE ReloadStat
  BY <1>4, QuietStep DEF ReloadStat, workers
<1>5. CASE ReloadRead
  BY <1>5, QuietStep DEF ReloadRead, Asleep, workers
<1>6. CASE Edit
  <2>1. file' \in [cfg : ConfigType \cup {Malformed}, mtime : Nat]
    BY <1>6 DEF Edit
  <2>2. QED
    BY <1>6, <2>1, QuietStep DEF Edit, workers
<1>7. QED
  BY <1>1, <1>2, <1>3, <1>4, <1>5, <1>6

LEMMA QuietWorker ==
  ASSUME IInv, NEW c \in Callers,
         StartExample(c) \/ StartChat(c) \/ CheckDeadline(c) \/ Forget(c)
  PROVE  IInv'
<1> USE ConstantsAssumption DEF IInv, TypeOK, HeldWhileCalling, ReadBeforeApply
<1>1. CASE StartExample(c)
  BY <1>1, QuietStep DEF StartExample, Goto
<1>2. CASE StartChat(c)
  BY <1>2, QuietStep DEF StartChat, Goto
<1>3. CASE CheckDeadline(c)
  <2>1. /\ pc' \in [Callers -> {"out", "idle", "loop", "pick", "call"}]
        /\ left' \in [Callers -> Nat]
        /\ \A d \in Callers : pc'[d] = "call" <=> pc[d] = "call"
    <3>1. /\ pc[c] = "loop"
          /\ \/ pc' = [pc EXCEPT ![c] = "pick"] /\ left' = left
             \/ pc' = [pc EXCEPT ![c] = "idle"] /\ left' = [left EXCEPT ![c] = 0]
      BY <1>3, Zenon DEF CheckDeadline, Return, Goto
    <3>2. CASE pc' = [pc EXCEPT ![c] = "pick"] /\ left' = left
      BY <3>1, <3>2
    <3>3. CASE pc' = [pc EXCEPT ![c] = "idle"] /\ left' = [left EXCEPT ![c] = 0]
      BY <3>1, <3>3
    <3>4. QED
      BY <3>1, <3>2, <3>3
  <2>2. UNCHANGED <<main, file, lastMtime, reloader, servers, heap,
                    affinity, older, held, late>>
    BY <1>3 DEF CheckDeadline
  <2>3. TypeOK' /\ HeldWhileCalling' /\ ReadBeforeApply'
    BY <2>1, <2>2
  <2>4. QED
    BY <2>2, <2>3, QuietStep
<1>4. CASE Forget(c)
  BY <1>4, QuietStep DEF Forget, Goto
<1>5. QED
  BY <1>1, <1>2, <1>3, <1>4

LEMMA TickStep ==
  ASSUME IInv, Tick
  PROVE  IInv'
<1>1. /\ heap' \in [Entries -> EntryType]
      /\ \A e \in Entries : /\ heap'[e].key = heap[e].key
                            /\ heap'[e].inFlight = heap[e].inFlight
  <2>1. ASSUME NEW e \in Entries
        PROVE  Sooner(heap[e].cooldown) \in Nat /\ heap[e] \in EntryType
    BY DEF IInv, TypeOK, EntryType, Sooner
  <2>2. QED
    BY <2>1 DEF Tick, EntryType
<1>2. left' \in [Callers -> Nat]
  BY DEF Tick, IInv, TypeOK, Sooner
<1>3. \A e \in Entries : CallersOf(e)' = CallersOf(e)
  BY DEF CallersOf, Tick
<1>4. TypeOK'
  BY <1>1, <1>2 DEF Tick, IInv, TypeOK
<1>5. InFlightExact'
  BY <1>1, <1>3 DEF IInv, InFlightExact
<1>6. ListedUnderOwnKey' /\ HeldIsListed'
  BY <1>1 DEF Tick, IInv, TypeOK, ListedUnderOwnKey, HeldIsListed, Listed
<1>7. HeldWhileCalling' /\ ReadBeforeApply'
  BY DEF Tick, IInv, HeldWhileCalling, ReadBeforeApply
<1>8. QED
  BY <1>4, <1>5, <1>6, <1>7 DEF IInv

LEMMA RememberType ==
  ASSUME TypeOK, NEW c \in Callers, NEW k \in Keys, Remember(c, k)
  PROVE  /\ affinity' \in [Callers -> Keys \cup {None}]
         /\ older' \subseteq Callers \X Callers
<1>1. affinity' \in [Callers -> Keys \cup {None}]
  BY DEF Remember, TypeOK
<1>2. older' \subseteq older \cup (Callers \X {c})
  BY DEF Remember
<1>3. QED
  BY <1>1, <1>2 DEF TypeOK

LEMMA PickStep ==
  ASSUME IInv, NEW c \in Callers, Pick(c)
  PROVE  IInv'
<1> DEFINE s == Swept(servers, heap)
<1>1. /\ s \in [Keys -> Entries \cup {None}]
      /\ \A k \in Keys : s[k] # None => s[k] = servers[k]
      /\ \A d \in Callers : held[d] # None => s[heap[held[d]].key] = held[d]
  BY SweptKeepsHeld
<1>2. pc[c] = "pick" /\ servers' = s /\ held[c] = None
  BY ConstantsAssumption DEF Pick, IInv, TypeOK, HeldWhileCalling
<1>3. UNCHANGED <<main, file, lastMtime, reloader>>
  BY DEF Pick
<1>4. ASSUME NEW k \in PickLocked(c, s),
             held' = [held EXCEPT ![c] = s[k]],
             heap' = Reclaimed([heap EXCEPT ![s[k]].inFlight = @ + 1], s, held'),
             Remember(c, k),
             late' = IF left[c] = 0 THEN [late EXCEPT ![c] = @ + 1] ELSE late,
             Goto(c, "call"), UNCHANGED left
      PROVE  IInv'
  <2> DEFINE e == s[k]
             h == [heap EXCEPT ![e].inFlight = @ + 1]
  <2>1. k \in Keys /\ e \in Entries /\ servers[k] = e /\ heap[e].key = k
    BY <1>1 DEF PickLocked, Eligible, IInv, ListedUnderOwnKey
  <2>2. /\ h \in [Entries -> EntryType]
        /\ \A d \in Entries : h[d].key = heap[d].key
        /\ \A d \in Entries \ {e} : h[d] = heap[d]
        /\ h[e].inFlight = heap[e].inFlight + 1
    <3>1. heap[e] \in EntryType /\ heap[e].inFlight + 1 \in Nat
      BY <2>1 DEF IInv, TypeOK, EntryType
    <3>2. [heap[e] EXCEPT !.inFlight = @ + 1] \in EntryType
      BY <3>1 DEF EntryType
    <3>3. h = [heap EXCEPT ![e] = [heap[e] EXCEPT !.inFlight = @ + 1]]
      OBVIOUS
    <3>4. QED
      BY <2>1, <3>1, <3>2, <3>3 DEF IInv, TypeOK, EntryType
  <2>3. held' \in [Callers -> Entries \cup {None}]
    BY <1>4, <2>1 DEF IInv, TypeOK
  <2>4. ASSUME NEW d \in Callers, held'[d] # None
        PROVE  h[held'[d]].key \in Keys /\ s[h[held'[d]].key] = held'[d]
    <3>1. CASE d = c
      BY <3>1, <2>1, <2>2, <1>4 DEF IInv, TypeOK
    <3>2. CASE d # c
      <4>1. held'[d] = held[d] /\ held[d] # None
        BY <3>2, <2>4, <1>4 DEF IInv, TypeOK
      <4>2. held[d] \in Entries /\ heap[held[d]].key \in Keys
        BY <4>1, HeldNotDrained
      <4>3. QED
        BY <4>1, <4>2, <2>2, <1>1
    <3>3. QED
      BY <3>1, <3>2
  <2>5. ASSUME NEW d \in Entries
        PROVE  h[d].inFlight = Cardinality(CallersOf(d)')
    <3>1. CASE d = e
      <4>1. held' = [held EXCEPT ![c] = d]
        BY <1>4, <3>1
      <4>2. Cardinality(CallersOf(d)') = Cardinality(CallersOf(d)) + 1
        BY <4>1, <1>2, GrabExact
      <4>3. QED
        BY <4>2, <3>1, <2>2 DEF IInv, InFlightExact
    <3>2. CASE d # e
      <4>1. CallersOf(d)' = CallersOf(d)
        BY <3>2, <1>2, <1>4, ConstantsAssumption DEF CallersOf, IInv, TypeOK
      <4>2. QED
        BY <4>1, <3>2, <2>2 DEF IInv, InFlightExact
    <3>3. QED
      BY <3>1, <3>2
  <2>6. \A j \in Keys : servers'[j] # None => h[servers'[j]].key = j
    BY <1>1, <1>2, <2>2 DEF IInv, TypeOK, ListedUnderOwnKey
  <2>7. /\ heap' \in [Entries -> EntryType]
        /\ ListedUnderOwnKey' /\ InFlightExact' /\ HeldIsListed'
    <3>1. servers' \in [Keys -> Entries \cup {None}] /\ heap' = Reclaimed(h, servers', held')
      BY <1>1, <1>2, <1>4
    <3> HIDE DEF h, s
    <3>2. \A d \in Callers : held'[d] # None =>
            h[held'[d]].key \in Keys /\ servers'[h[held'[d]].key] = held'[d]
      BY <1>2, <2>4
    <3>3. QED
      BY <3>1, <3>2, <2>2, <2>3, <2>5, <2>6, PoolStep
  <2>8. late' \in [Callers -> Nat]
    BY <1>4 DEF IInv, TypeOK
  <2>9. affinity' \in [Callers -> Keys \cup {None}] /\ older' \subseteq Callers \X Callers
    BY <1>4, <2>1, RememberType DEF IInv
  <2>10. TypeOK'
    BY <1>1, <1>2, <1>3, <1>4, <2>3, <2>7, <2>8, <2>9 DEF IInv, TypeOK, Goto
  <2>11. HeldWhileCalling'
    BY <1>4, <2>1, ConstantsAssumption DEF IInv, TypeOK, HeldWhileCalling, Goto
  <2>12. QED
    BY <2>7, <2>10, <2>11, <1>3 DEF IInv, ReadBeforeApply
<1>5. ASSUME heap' = Reclaimed(heap, s, held),
             IF left[c] > 0 THEN UNCHANGED <<pc, left>> ELSE Return(c),
             UNCHANGED <<affinity, older, held, late>>
      PROVE  IInv'
  <2>1. \A d \in Callers : held[d] # None =>
          heap[held[d]].key \in Keys /\ s[heap[held[d]].key] = held[d]
    BY <1>1, HeldNotDrained
  <2>2. \A d \in Entries : heap[d].inFlight = Cardinality(CallersOf(d)')
    <3>1. \A d \in Entries : CallersOf(d)' = CallersOf(d)
      BY <1>5 DEF CallersOf
    <3>2. QED
      BY <3>1 DEF IInv, InFlightExact
  <2>3. \A j \in Keys : servers'[j] # None => heap[servers'[j]].key = j
    BY <1>1, <1>2 DEF IInv, ListedUnderOwnKey
  <2>4. /\ heap' \in [Entries -> EntryType]
        /\ ListedUnderOwnKey' /\ InFlightExact' /\ HeldIsListed'
    <3> HIDE DEF s
    <3>1. heap \in [Entries -> EntryType] /\ held' \in [Callers -> Entries \cup {None}]
      BY <1>5 DEF IInv, TypeOK
    <3>2. servers' \in [Keys -> Entries \cup {None}] /\ heap' = Reclaimed(heap, servers', held')
      BY <1>1, <1>2, <1>5
    <3>3. \A d \in Callers : held'[d] # None =>
            heap[held'[d]].key \in Keys /\ servers'[heap[held'[d]].key] = held'[d]
      BY <1>2, <1>5, <2>1
    <3>4. QED
      BY <3>1, <3>2, <3>3, <2>2, <2>3, PoolStep
  <2>5. /\ pc' \in [Callers -> {"out", "idle", "loop", "pick", "call"}]
        /\ left' \in [Callers -> Nat]
        /\ \A d \in Callers : pc'[d] = "call" <=> pc[d] = "call"
    <3>1. CASE left[c] > 0
      BY <3>1, <1>5 DEF IInv, TypeOK
    <3>2. CASE ~(left[c] > 0)
      BY <3>2, <1>2, <1>5 DEF IInv, TypeOK, Return, Goto
    <3>3. QED
      BY <3>1, <3>2
  <2>6. TypeOK'
    BY <1>1, <1>2, <1>3, <1>5, <2>4, <2>5 DEF IInv, TypeOK
  <2>7. HeldWhileCalling'
    BY <1>5, <2>5 DEF IInv, HeldWhileCalling
  <2>8. QED
    BY <2>4, <2>6, <2>7, <1>3 DEF IInv, ReadBeforeApply
<1>6. QED
  BY <1>4, <1>5 DEF Pick

(* Settling a request, whatever it did to the entry's health.               *)
LEMMA SettleStep ==
  ASSUME IInv, NEW c \in Callers, pc[c] = "call", NEW settled \in EntryType,
         settled.key = heap[held[c]].key,
         settled.inFlight = heap[held[c]].inFlight,
         Settle(c, settled)
  PROVE  /\ servers' \in [Keys -> Entries \cup {None}]
         /\ held' = [held EXCEPT ![c] = None]
         /\ heap' \in [Entries -> EntryType]
         /\ ListedUnderOwnKey' /\ InFlightExact' /\ HeldIsListed'
         /\ UNCHANGED <<main, file, lastMtime, reloader, affinity, older, late>>
<1>1. PICK e \in Entries : held[c] = e
  BY ConstantsAssumption DEF IInv, TypeOK, HeldWhileCalling
<1> DEFINE settledEntry == [settled EXCEPT !.inFlight = @ - 1]
           h == [heap EXCEPT ![e] = settledEntry]
<1>2. /\ heap[e].inFlight > 0 /\ heap[e].key \in Keys
      /\ servers[heap[e].key] = e
  BY <1>1, ConstantsAssumption, HeldNotDrained
<1>3. /\ servers' = IF Drained(h, e) THEN [servers EXCEPT ![h[e].key] = None] ELSE servers
      /\ held' = [held EXCEPT ![c] = None]
      /\ heap' = Reclaimed(h, servers', held')
      /\ UNCHANGED <<main, file, lastMtime, reloader, affinity, older, late>>
  BY <1>1 DEF Settle
<1>4. /\ settledEntry \in EntryType
      /\ settledEntry.key = heap[e].key
      /\ settledEntry.inFlight = heap[e].inFlight - 1
  <2>1. settled.inFlight \in Nat /\ settled.inFlight > 0
    BY <1>1, <1>2 DEF EntryType
  <2>2. settled.inFlight - 1 \in Nat
    BY <2>1
  <2>3. QED
    BY <2>2, <1>1 DEF EntryType
<1>5. /\ h \in [Entries -> EntryType]
      /\ h[e] = settledEntry
      /\ \A d \in Entries \ {e} : h[d] = heap[d]
      /\ \A d \in Entries : h[d].key = heap[d].key
  BY <1>4 DEF IInv, TypeOK
<1>6. held' \in [Callers -> Entries \cup {None}]
  BY <1>3 DEF IInv, TypeOK
<1>7. servers' \in [Keys -> Entries \cup {None}]
  BY <1>2, <1>3, <1>5 DEF IInv, TypeOK
<1>8. \A k \in Keys : servers'[k] # None => servers'[k] = servers[k]
  <2>1. CASE Drained(h, e)
    BY <2>1, <1>2, <1>3, <1>5 DEF IInv, TypeOK
  <2>2. CASE ~Drained(h, e)
    BY <2>2, <1>3
  <2>3. QED
    BY <2>1, <2>2
<1>9. \A k \in Keys : servers'[k] # None => h[servers'[k]].key = k
  BY <1>5, <1>7, <1>8, ConstantsAssumption DEF IInv, TypeOK, ListedUnderOwnKey
<1>10. ASSUME NEW d \in Entries
       PROVE  h[d].inFlight = Cardinality(CallersOf(d)')
  <2>1. CASE d = e
    <3>1. Cardinality(CallersOf(d)') = heap[d].inFlight - 1
      BY <2>1, <1>1, <1>3, SettleExact
    <3>2. QED
      BY <2>1, <3>1, <1>4, <1>5
  <2>2. CASE d # e
    <3>1. CallersOf(d)' = CallersOf(d)
      BY <2>2, <1>1, <1>3, ConstantsAssumption DEF CallersOf, IInv, TypeOK
    <3>2. QED
      BY <3>1, <2>2, <1>5 DEF IInv, InFlightExact
  <2>3. QED
    BY <2>1, <2>2
<1>11. ASSUME NEW d \in Callers, held'[d] # None
       PROVE  h[held'[d]].key \in Keys /\ servers'[h[held'[d]].key] = held'[d]
  <2>1. d # c /\ held'[d] = held[d] /\ held[d] # None
    BY <1>3, <1>11 DEF IInv, TypeOK
  <2>2. /\ held[d] \in Entries /\ heap[held[d]].key \in Keys
        /\ servers[heap[held[d]].key] = held[d]
    BY <2>1, HeldNotDrained
  <2>3. CASE held[d] = e
    <3>1. e \in Entries /\ held[c] = e /\ held[d] = e /\ d # c
      BY <1>1, <2>1, <2>3
    <3>2. d \in CallersOf(e)'
      BY <2>1, <2>3 DEF CallersOf
    <3>3. IsFiniteSet(CallersOf(e)')
      <4>1. CallersOf(e)' \subseteq Callers
        BY DEF CallersOf
      <4>2. QED
        BY <4>1, ConstantsAssumption, FS_Subset
    <3>4. Cardinality(CallersOf(e)') # 0
      BY <3>2, <3>3, FS_EmptySet
    <3>5. ~Drained(h, e)
      BY <3>4, <1>10 DEF Drained
    <3>6. QED
      BY <3>5, <2>1, <2>2, <1>3, <1>5
  <2>4. CASE held[d] # e
    <3>1. heap[held[d]].key # heap[e].key
      BY <2>2, <2>4, <1>2
    <3>2. QED
      BY <3>1, <2>1, <2>2, <1>2, <1>3, <1>5 DEF IInv, TypeOK
  <2>5. QED
    BY <2>3, <2>4
<1>12. heap' = Reclaimed(h, servers', held')
  BY <1>3
<1> HIDE DEF h
<1>13. heap' \in [Entries -> EntryType] /\ ListedUnderOwnKey' /\ InFlightExact' /\ HeldIsListed'
  BY <1>5, <1>6, <1>7, <1>9, <1>10, <1>11, <1>12, PoolStep
<1>14. QED
  BY <1>3, <1>7, <1>13

LEMMA MarkUnhealthyType ==
  ASSUME NEW entry \in EntryType
  PROVE  /\ MarkUnhealthy(entry) \in EntryType
         /\ MarkUnhealthy(entry).key = entry.key
         /\ MarkUnhealthy(entry).inFlight = entry.inFlight
<1> DEFINE streak == IF entry.failStreak < Len(Schedule) THEN entry.failStreak + 1
                                                         ELSE Len(Schedule)
<1>1. Len(Schedule) \in Nat /\ \A n \in 1..Len(Schedule) : Schedule[n] \in Nat
  BY ConstantsAssumption
<1>2. streak \in 1..Len(Schedule)
  BY <1>1, ConstantsAssumption DEF EntryType
<1>3. streak \in 0..Len(Schedule) /\ Schedule[streak] \in Nat
  BY <1>1, <1>2
<1> HIDE DEF streak
<1>4. [entry EXCEPT !.failStreak = streak, !.cooldown = Schedule[streak]] \in EntryType
  BY <1>3 DEF EntryType
<1>5. MarkUnhealthy(entry) = [entry EXCEPT !.failStreak = streak,
                                           !.cooldown = Schedule[streak]]
  BY DEF MarkUnhealthy, streak
<1>6. QED
  BY <1>4, <1>5 DEF EntryType

LEMMA RecoveredType ==
  ASSUME NEW entry \in EntryType
  PROVE  LET settled == [entry EXCEPT !.cooldown = 0, !.failStreak = 0]
         IN  /\ settled \in EntryType
             /\ settled.key = entry.key
             /\ settled.inFlight = entry.inFlight
<1>1. 0 \in 0..Len(Schedule)
  BY ConstantsAssumption
<1>2. QED
  BY <1>1 DEF EntryType

LEMMA CallEnds ==
  ASSUME IInv, NEW c \in Callers, Succeed(c) \/ FailRetryable(c) \/ FailForGood(c)
  PROVE  IInv'
<1>1. PICK settled \in EntryType :
        /\ pc[c] = "call"
        /\ settled.key = heap[held[c]].key
        /\ settled.inFlight = heap[held[c]].inFlight
        /\ Settle(c, settled)
        /\ \/ Return(c)
           \/ Goto(c, "loop") /\ UNCHANGED left
  <2>1. pc[c] = "call" /\ heap[held[c]] \in EntryType
    BY ConstantsAssumption
       DEF Succeed, FailRetryable, FailForGood, IInv, TypeOK, HeldWhileCalling
  <2> DEFINE entry == heap[held[c]]
  <2>2. CASE Succeed(c)
    <3>1. /\ Settle(c, [entry EXCEPT !.cooldown = 0, !.failStreak = 0])
          /\ Return(c)
      BY <2>2 DEF Succeed
    <3> HIDE DEF entry
    <3>2. QED
      BY <2>1, <3>1, RecoveredType DEF entry
  <2>3. CASE FailRetryable(c)
    BY <2>1, <2>3, MarkUnhealthyType DEF FailRetryable
  <2>4. CASE FailForGood(c)
    <3>1. Settle(c, entry) /\ Return(c)
      BY <2>4 DEF FailForGood
    <3>2. QED
      BY <2>1, <3>1
  <2>5. QED
    BY <2>2, <2>3, <2>4
<1>2. /\ servers' \in [Keys -> Entries \cup {None}]
      /\ held' = [held EXCEPT ![c] = None]
      /\ heap' \in [Entries -> EntryType]
      /\ ListedUnderOwnKey' /\ InFlightExact' /\ HeldIsListed'
      /\ UNCHANGED <<main, file, lastMtime, reloader, affinity, older, late>>
  BY <1>1, SettleStep
<1>3. \/ pc' = [pc EXCEPT ![c] = "idle"] /\ left' = [left EXCEPT ![c] = 0]
      \/ pc' = [pc EXCEPT ![c] = "loop"] /\ left' = left
  BY <1>1 DEF Return, Goto
<1>4. /\ pc' \in [Callers -> {"out", "idle", "loop", "pick", "call"}]
      /\ left' \in [Callers -> Nat]
      /\ pc'[c] # "call" /\ \A d \in Callers \ {c} : pc'[d] = pc[d]
  <2>1. CASE pc' = [pc EXCEPT ![c] = "idle"] /\ left' = [left EXCEPT ![c] = 0]
    BY <2>1 DEF IInv, TypeOK
  <2>2. CASE pc' = [pc EXCEPT ![c] = "loop"] /\ left' = left
    BY <2>2 DEF IInv, TypeOK
  <2>3. QED
    BY <1>3, <2>1, <2>2
<1>5. held' \in [Callers -> Entries \cup {None}]
  BY <1>2 DEF IInv, TypeOK
<1>6. TypeOK'
  BY <1>2, <1>4, <1>5 DEF IInv, TypeOK
<1>7. HeldWhileCalling'
  BY <1>2, <1>4 DEF IInv, TypeOK, HeldWhileCalling
<1>8. QED
  BY <1>2, <1>6, <1>7 DEF IInv, ReadBeforeApply

LEMMA ConfigCaps ==
  ASSUME NEW cfg \in ConfigType
  PROVE  DOMAIN cfg \subseteq Keys /\ \A k \in DOMAIN cfg : cfg[k] \in Caps
BY DEF ConfigType

(* Before __init__ has read the file there is nothing in the pool, and no   *)
(* other thread.                                                            *)
EmptyBeforeInit ==
  main = "read" => /\ reloader.at = "sleep"
                   /\ servers = [k \in Keys |-> None]
                   /\ pc = [c \in Callers |-> "out"]

LEMMA EmptyBeforeInitInvariant == Spec => []EmptyBeforeInit
<1>1. Init => EmptyBeforeInit
  BY DEF Init, EmptyBeforeInit, Asleep
<1>2. EmptyBeforeInit /\ [Next]_vars => EmptyBeforeInit'
  <2> SUFFICES ASSUME EmptyBeforeInit, [Next]_vars, main' = "read"
               PROVE  UNCHANGED <<main, reloader, servers, pc>>
    BY DEF EmptyBeforeInit
  <2>1. ASSUME NEW c \in Callers
        PROVE  ~Worker(c)
    <3>1. main = "read" => pc[c] = "out"
      BY DEF EmptyBeforeInit
    <3>2. Worker(c) => main' = main
      BY DEF Worker, StartExample, StartChat, CheckDeadline, Pick, Succeed, Settle,
             FailRetryable, FailForGood, Forget
    <3>3. QED
      BY <3>1, <3>2 DEF Worker, StartExample, StartChat, CheckDeadline, Pick, Succeed,
             FailRetryable, FailForGood, Forget
  <2>2. ~InitRead /\ ~InitStat /\ ~Close
    BY DEF InitRead, InitStat, Close
  <2>3. ~ReloadStat /\ ~ReloadRead /\ ~ReloadApply
    BY DEF ReloadStat, ReloadRead, ReloadApply, EmptyBeforeInit
  <2>4. CASE Done \/ Edit \/ Tick \/ UNCHANGED vars
    BY <2>4 DEF Done, Edit, Tick, vars, workers
  <2>5. QED
    BY <2>1, <2>2, <2>3, <2>4 DEF Next
<1>3. QED
  BY <1>1, <1>2, PTL DEF Spec

LEMMA InitReadStep ==
  ASSUME IInv, EmptyBeforeInit, InitRead
  PROVE  IInv'
<1> DEFINE cfg == file.cfg
           K == DOMAIN cfg
<1>1. cfg \in ConfigType
  BY DEF InitRead, ValidFirst, IInv, TypeOK
<1>2. K \subseteq Keys /\ \A k \in K : cfg[k] \in Caps
  BY <1>1, ConfigCaps
<1>3. PICK f \in InjectiveMaps(K, Entries) :
        /\ servers' = AddEntries(servers, K, f)
        /\ heap' = WithEntries(heap, K, f, cfg)
  BY DEF InitRead
<1>4. UNCHANGED <<file, lastMtime, reloader, workers>> /\ main' = "stat"
  BY DEF InitRead
<1>5. (\A k \in Keys : servers[k] = None) /\ (\A c \in Callers : held[c] = None)
  BY DEF InitRead, EmptyBeforeInit, IInv, HeldWhileCalling
<1>6. /\ WithEntries(heap, K, f, cfg) \in [Entries -> EntryType]
      /\ \A k \in K : f[k] \in Entries /\ WithEntries(heap, K, f, cfg)[f[k]] = NewEntry(k, cfg[k])
      /\ \A e \in Entries : \/ WithEntries(heap, K, f, cfg)[e] = heap[e]
                            \/ WithEntries(heap, K, f, cfg)[e].inFlight = 0
  <2>1. heap \in [Entries -> EntryType]
    BY DEF IInv, TypeOK
  <2>2. Addition(K, f, cfg) /\ \A k \in K : f[k] \in Entries
    BY <1>2 DEF InjectiveMaps, Addition
  <2>3. \A k \in K : NewEntry(k, cfg[k]).inFlight = 0
    BY DEF NewEntry
  <2> HIDE DEF cfg, K
  <2>4. /\ WithEntries(heap, K, f, cfg) \in [Entries -> EntryType]
        /\ \A k \in K : WithEntries(heap, K, f, cfg)[f[k]] = NewEntry(k, cfg[k])
        /\ \A e \in Entries : \/ \E k \in K : f[k] = e
                              \/ WithEntries(heap, K, f, cfg)[e] = heap[e]
    BY <2>1, <2>2, WithEntriesFacts
  <2>5. QED
    BY <2>2, <2>3, <2>4
<1>7. servers' \in [Keys -> Entries \cup {None}]
  BY <1>2, <1>3, <1>6 DEF AddEntries, IInv, TypeOK
<1>8. ListedUnderOwnKey'
  <2>1. ASSUME NEW k \in Keys, servers'[k] # None
        PROVE  heap'[servers'[k]].key = k
    <3>1. k \in K /\ servers'[k] = f[k]
      BY <2>1, <1>3, <1>5 DEF AddEntries
    <3>2. heap'[f[k]] = NewEntry(k, cfg[k])
      BY <3>1, <1>3, <1>6
    <3>3. QED
      BY <3>1, <3>2 DEF NewEntry
  <2>2. QED
    BY <2>1 DEF ListedUnderOwnKey
<1>9. ASSUME NEW e \in Entries
      PROVE  heap'[e].inFlight = Cardinality(CallersOf(e)')
  <2>1. CallersOf(e) = {} /\ CallersOf(e)' = {}
    BY <1>4, <1>5, ConstantsAssumption DEF CallersOf, workers
  <2>2. heap[e].inFlight = 0
    BY <2>1, FS_EmptySet DEF IInv, InFlightExact
  <2>3. QED
    BY <1>3, <1>6, <2>1, <2>2, FS_EmptySet
<1>10. HeldIsListed'
  BY <1>4, <1>5 DEF HeldIsListed, workers
<1>11. TypeOK'
  BY <1>3, <1>4, <1>6, <1>7 DEF IInv, TypeOK, workers
<1>12. HeldWhileCalling' /\ ReadBeforeApply'
  BY <1>4 DEF IInv, HeldWhileCalling, ReadBeforeApply, workers
<1>13. QED
  BY <1>8, <1>9, <1>10, <1>11, <1>12 DEF IInv, InFlightExact

(* Reconfiguring changes neither the key nor the requests of an entry.      *)
LEMMA ReconfiguredKeeps ==
  ASSUME IInv, NEW cfg \in ConfigType, NEW e \in Entries
  PROVE  /\ Reconfigured(e, cfg) \in EntryType
         /\ Reconfigured(e, cfg).key = heap[e].key
         /\ Reconfigured(e, cfg).inFlight = heap[e].inFlight
<1>1. heap[e] \in EntryType
  BY DEF IInv, TypeOK
<1>2. CASE ~Listed(e)
  BY <1>1, <1>2 DEF Reconfigured
<1>3. CASE Listed(e) /\ heap[e].key \in DOMAIN cfg
  <2>1. cfg[heap[e].key] \in Nat
    BY <1>3, ConfigCaps, ConstantsAssumption
  <2>2. Reconfigured(e, cfg)
          = [heap[e] EXCEPT !.draining = FALSE, !.cap = cfg[heap[e].key]]
    BY <1>3 DEF Reconfigured
  <2>3. QED
    BY <1>1, <2>1, <2>2 DEF EntryType
<1>4. CASE Listed(e) /\ heap[e].key \notin DOMAIN cfg
  <2>1. Reconfigured(e, cfg) = [heap[e] EXCEPT !.draining = TRUE]
    BY <1>4 DEF Reconfigured
  <2>2. QED
    BY <1>1, <2>1 DEF EntryType
<1>5. QED
  BY <1>2, <1>3, <1>4

LEMMA ApplyConfigStep ==
  ASSUME IInv, NEW cfg \in ConfigType, ApplyConfig(cfg), UNCHANGED held
  PROVE  /\ servers' \in [Keys -> Entries \cup {None}]
         /\ heap' \in [Entries -> EntryType]
         /\ ListedUnderOwnKey'
         /\ InFlightExact'
         /\ HeldIsListed'
<1> DEFINE fresh == {k \in DOMAIN cfg : servers[k] = None}
           g == [e \in Entries |-> Reconfigured(e, cfg)]
<1>1. PICK f \in InjectiveMaps(fresh, Entries \ Referenced(servers, held)) :
        /\ servers' = Swept(AddEntries(servers, fresh, f), WithEntries(g, fresh, f, cfg))
        /\ heap' = Reclaimed(WithEntries(g, fresh, f, cfg), servers', held)
  BY DEF ApplyConfig
<1> DEFINE s == AddEntries(servers, fresh, f)
           h == WithEntries(g, fresh, f, cfg)
<1>2. /\ g \in [Entries -> EntryType]
      /\ \A e \in Entries : g[e].key = heap[e].key /\ g[e].inFlight = heap[e].inFlight
  BY ReconfiguredKeeps
<1>3. fresh \subseteq Keys /\ \A k \in fresh : servers[k] = None
  BY ConfigCaps
<1>4. \A k \in fresh : f[k] \in Entries /\ f[k] \notin Referenced(servers, held)
  BY DEF InjectiveMaps
<1>5. Addition(fresh, f, cfg)
  BY <1>3, <1>4, ConfigCaps DEF Addition, InjectiveMaps
<1>6. /\ h \in [Entries -> EntryType]
      /\ \A k \in fresh : h[f[k]] = NewEntry(k, cfg[k])
      /\ \A e \in Entries : (\E k \in fresh : f[k] = e) \/ h[e] = g[e]
  <2> HIDE DEF g, fresh
  <2>1. QED
    BY <1>2, <1>5, WithEntriesFacts
<1>7. \A e \in Entries : e \in Referenced(servers, held) => h[e] = g[e]
  BY <1>4, <1>6
<1> HIDE DEF g, h, fresh
<1>8. ASSUME NEW e \in Entries
      PROVE  h[e].inFlight = Cardinality(CallersOf(e)')
  <2>1. CallersOf(e)' = CallersOf(e)
    BY DEF CallersOf
  <2>2. CASE \E k \in fresh : f[k] = e
    <3>1. PICK k \in fresh : f[k] = e
      BY <2>2
    <3>2. h[e] = NewEntry(k, cfg[k])
      BY <3>1, <1>6
    <3>3. h[e].inFlight = 0
      BY <3>2 DEF NewEntry
    <3>4. \A c \in Callers : held[c] # e
      BY <3>1, <1>4 DEF Referenced
    <3>5. QED
      BY <2>1, <3>3, <3>4, UnusedExact
  <2>3. CASE h[e] = g[e]
    BY <2>1, <2>3, <1>2 DEF IInv, InFlightExact
  <2>4. QED
    BY <2>2, <2>3, <1>6
<1>9. s \in [Keys -> Entries \cup {None}]
  BY <1>3, <1>4 DEF AddEntries, IInv, TypeOK
<1>10. \A k \in Keys : servers'[k] # None => servers'[k] = s[k]
  BY <1>1 DEF Swept, h
<1>11. servers' \in [Keys -> Entries \cup {None}]
  BY <1>1, <1>9 DEF Swept, h
<1>12. ASSUME NEW k \in Keys, s[k] # None
       PROVE  h[s[k]].key = k
  <2>1. CASE k \in fresh
    <3>1. h[f[k]] = NewEntry(k, cfg[k])
      BY <2>1, <1>6
    <3>2. h[f[k]].key = k
      BY <3>1 DEF NewEntry
    <3>3. QED
      BY <2>1, <3>2 DEF AddEntries
  <2>2. CASE k \notin fresh
    <3>1. s[k] = servers[k]
      BY <2>2 DEF AddEntries
    <3>2. servers[k] \in Entries /\ servers[k] \in Referenced(servers, held)
      BY <1>12, <3>1 DEF Referenced, IInv, TypeOK
    <3>3. heap[servers[k]].key = k
      BY <1>12, <3>1 DEF IInv, ListedUnderOwnKey
    <3>4. QED
      BY <3>1, <3>2, <3>3, <1>2, <1>7
  <2>3. QED
    BY <2>1, <2>2
<1>13. ASSUME NEW c \in Callers, held'[c] # None
       PROVE  /\ h[held'[c]].key \in Keys
              /\ servers'[h[held'[c]].key] = held'[c]
  <2>1. held'[c] = held[c] /\ held[c] # None
    BY <1>13
  <2>2. /\ held[c] \in Entries
        /\ heap[held[c]].inFlight > 0
        /\ heap[held[c]].key \in Keys
        /\ servers[heap[held[c]].key] = held[c]
    BY <2>1, HeldNotDrained
  <2>3. h[held[c]].key = heap[held[c]].key /\ h[held[c]].inFlight > 0
    <3>1. held[c] \in Referenced(servers, held)
      BY DEF Referenced
    <3>2. QED
      BY <2>2, <3>1, <1>2, <1>7
  <2>4. s[heap[held[c]].key] = held[c]
    BY <2>1, <2>2, <1>3 DEF AddEntries
  <2>5. ~Drained(h, held[c])
    BY <2>3 DEF Drained
  <2>6. servers'[heap[held[c]].key] = held[c]
    BY <1>1, <2>2, <2>4, <2>5 DEF Swept, h
  <2>7. QED
    BY <2>1, <2>2, <2>3, <2>6
<1>14. \A k \in Keys : servers'[k] # None => h[servers'[k]].key = k
  BY <1>10, <1>12
<1>15. /\ heap' = Reclaimed(h, servers', held')
       /\ held' \in [Callers -> Entries \cup {None}]
  BY <1>1 DEF h, IInv, TypeOK
<1> HIDE DEF s
<1>16. QED
  BY <1>6, <1>8, <1>11, <1>13, <1>14, <1>15, PoolStep

LEMMA ReloadApplyStep ==
  ASSUME IInv, ReloadApply
  PROVE  IInv'
<1>1. reloader.cfg \in ConfigType
  BY DEF ReloadApply, IInv, TypeOK, ReadBeforeApply
<1>2. /\ UNCHANGED <<main, file, affinity, older, pc, left, held, late>>
      /\ lastMtime' = reloader.mtime /\ reloader' = Asleep
  BY DEF ReloadApply, workers
<1>3. HeldWhileCalling' /\ ReadBeforeApply'
  BY <1>2 DEF IInv, HeldWhileCalling, ReadBeforeApply, Asleep
<1>4. /\ lastMtime' \in Nat
      /\ reloader' \in [at : {"sleep", "read", "apply"}, mtime : Nat,
                        cfg : ConfigType \cup {Malformed}]
  BY <1>2 DEF IInv, TypeOK, Asleep
<1>5. CASE DOMAIN reloader.cfg = {}
  <2>1. UNCHANGED <<servers, heap>>
    BY <1>5 DEF ReloadApply
  <2>2. TypeOK'
    BY <1>2, <1>4, <2>1 DEF IInv, TypeOK
  <2>3. QED
    BY <1>2, <1>3, <2>1, <2>2, QuietStep
<1>6. CASE DOMAIN reloader.cfg # {}
  <2>1. ApplyConfig(reloader.cfg)
    BY <1>6 DEF ReloadApply
  <2>2. PICK cfg \in ConfigType : cfg = reloader.cfg
    BY <1>1
  <2>3. /\ servers' \in [Keys -> Entries \cup {None}]
        /\ heap' \in [Entries -> EntryType]
        /\ ListedUnderOwnKey'
        /\ InFlightExact'
        /\ HeldIsListed'
    BY <1>2, <2>1, <2>2, ApplyConfigStep
  <2>4. TypeOK'
    BY <1>2, <1>4, <2>3 DEF IInv, TypeOK
  <2>5. QED
    BY <1>3, <2>3, <2>4 DEF IInv
<1>7. QED
  BY <1>5, <1>6
-----------------------------------------------------------------------------
(* The invariant holds of every execution.                                  *)
LEMMA Inductive == Spec => []IInv
<1>1. Init => IInv
  BY InitIInv
<1>2. IInv /\ EmptyBeforeInit /\ [Next]_vars => IInv'
  <2> SUFFICES ASSUME IInv, EmptyBeforeInit, [Next]_vars
               PROVE  IInv'
    OBVIOUS
  <2>1. CASE InitRead
    BY <2>1, InitReadStep
  <2>2. CASE InitStat \/ Close \/ Done \/ ReloadStat \/ ReloadRead \/ Edit
    BY <2>2, QuietActions
  <2>3. ASSUME NEW c \in Callers, Worker(c)
        PROVE  IInv'
    BY <2>3, QuietWorker, PickStep, CallEnds DEF Worker
  <2>4. CASE ReloadApply
    BY <2>4, ReloadApplyStep
  <2>5. CASE Tick
    BY <2>5, TickStep
  <2>6. CASE UNCHANGED vars
    <3>1. TypeOK' /\ HeldWhileCalling' /\ ReadBeforeApply'
      BY <2>6 DEF vars, IInv, TypeOK, HeldWhileCalling, ReadBeforeApply
    <3>2. QED
      BY <2>6, <3>1, QuietStep DEF vars
  <2>7. QED
    BY <2>1, <2>2, <2>3, <2>4, <2>5, <2>6 DEF Next
<1>3. QED
  BY <1>1, <1>2, EmptyBeforeInitInvariant, PTL DEF Spec

(* Every state of the pool is well typed, whatever the servers, the workers *)
(* and the edits of the file (server_pool.py).                              *)
THEOREM TypeCorrect == Spec => []TypeOK
<1>1. IInv => TypeOK
  BY DEF IInv
<1>2. QED
  BY <1>1, Inductive, PTL

(* No path through chat(), the reloader or __init__ leaks or loses a unit   *)
(* of in_flight: it always counts the requests that are out.                *)
THEOREM InFlightAccounting == Spec => []InFlightExact
<1>1. IInv => InFlightExact
  BY DEF IInv
<1>2. QED
  BY <1>1, Inductive, PTL

(* A reload never drops or replaces an entry while a request is out on it.  *)
THEOREM HeldStaysListed == Spec => []HeldIsListed
<1>1. IInv => HeldIsListed
  BY DEF IInv
<1>2. QED
  BY <1>1, Inductive, PTL
-----------------------------------------------------------------------------
(* What a step does to the entries in the map, said once for the properties *)
(* and for the refinement that follow.  With NoIdleDraining a sweep finds   *)
(* nothing to drop, and an entry the map has is not reclaimed.              *)

Accounted(entry) ==
  entry.cooldown > 0 => /\ entry.failStreak > 0
                        /\ entry.cooldown <= Schedule[entry.failStreak]

CapsOfListed == \A k \in Keys : servers[k] # None => heap[servers[k]].cap \in Caps

HInv ==
  /\ NoIdleDraining
  /\ CapsOfListed
  /\ CooldownWithinSchedule

SameEntry(k) ==
  /\ servers'[k] = servers[k]
  /\ servers[k] # None => heap'[servers[k]] = heap[servers[k]]

LEMMA ListedInReferenced ==
  ASSUME NEW s, NEW hd, NEW k \in Keys
  PROVE  s[k] \in Referenced(s, hd)
BY DEF Referenced

LEMMA ReclaimedAccounted ==
  ASSUME NEW s, NEW hd, NEW h \in [Entries -> EntryType],
         \A e \in Entries : Accounted(h[e])
  PROVE  \A e \in Entries : Accounted(Reclaimed(h, s, hd)[e])
<1>1. Accounted(Unused)
  BY DEF Accounted, Unused, NewEntry
<1>2. QED
  BY <1>1 DEF Reclaimed

LEMMA SweepsNothing ==
  ASSUME IInv, NoIdleDraining
  PROVE  Swept(servers, heap) = servers
<1>1. servers = [k \in Keys |-> servers[k]]
  BY DEF IInv, TypeOK
<1>2. \A k \in Keys : ~(servers[k] # None /\ Drained(heap, servers[k]))
  BY DEF NoIdleDraining
<1>3. QED
  BY <1>1, <1>2 DEF Swept

(* Two servers have two entries.                                            *)
LEMMA OneKeyEach ==
  ASSUME IInv, NEW j \in Keys, NEW k \in Keys, servers[j] # None, j # k
  PROVE  servers[j] # servers[k] /\ servers[j] \in Entries
BY DEF IInv, TypeOK, ListedUnderOwnKey

LEMMA PickEffect ==
  ASSUME IInv, HInv, NEW c \in Callers, Pick(c)
  PROVE  /\ servers' = servers
         /\ \/ \A k \in Keys : SameEntry(k)
            \/ \E k \in Eligible(servers) :
                 /\ servers[k] \in Entries
                 /\ heap'[servers[k]] = [heap[servers[k]] EXCEPT !.inFlight = @ + 1]
                 /\ \A j \in Keys \ {k} : SameEntry(j)
         /\ \A e \in Entries : Accounted(heap'[e])
<1>1. Swept(servers, heap) = servers
  BY SweepsNothing DEF HInv
<1>2. servers' = servers
  BY <1>1 DEF Pick
<1>3. /\ heap \in [Entries -> EntryType]
      /\ \A k \in Keys : servers[k] # None => servers[k] \in Entries
      /\ \A e \in Entries : Accounted(heap[e])
  BY DEF IInv, TypeOK, HInv, CooldownWithinSchedule, Accounted
<1>4. ASSUME NEW k \in PickLocked(c, servers),
             heap' = Reclaimed([heap EXCEPT ![servers[k]].inFlight = @ + 1], servers, held')
      PROVE  /\ \E i \in Eligible(servers) :
                   /\ servers[i] \in Entries
                   /\ heap'[servers[i]] = [heap[servers[i]] EXCEPT !.inFlight = @ + 1]
                   /\ \A j \in Keys \ {i} : SameEntry(j)
             /\ \A e \in Entries : Accounted(heap'[e])
  <2> DEFINE more == [heap[servers[k]] EXCEPT !.inFlight = @ + 1]
             h == [heap EXCEPT ![servers[k]] = more]
  <2>1. k \in Eligible(servers) /\ k \in Keys /\ servers[k] # None /\ servers[k] \in Entries
    BY <1>3 DEF PickLocked, Eligible
  <2>2. more \in EntryType /\ Accounted(more)
    BY <1>3, <2>1 DEF EntryType, Accounted
  <2>3. heap' = Reclaimed(h, servers, held')
    BY <1>4
  <2>4. /\ h \in [Entries -> EntryType] /\ h[servers[k]] = more
        /\ \A e \in Entries : e # servers[k] => h[e] = heap[e]
        /\ \A e \in Entries : Accounted(h[e])
    BY <1>3, <2>1, <2>2
  <2> HIDE DEF h
  <2>5. \A j \in Keys : servers[j] # None => heap'[servers[j]] = h[servers[j]]
    BY <1>3, <2>3, <2>4, ReclaimedEntries, ListedInReferenced
  <2>6. \A j \in Keys \ {k} : SameEntry(j)
    BY <1>2, <2>1, <2>4, <2>5, OneKeyEach DEF SameEntry
  <2>7. \A e \in Entries : Accounted(heap'[e])
    BY <2>3, <2>4, ReclaimedAccounted
  <2> QED
    BY <2>1, <2>4, <2>5, <2>6, <2>7
<1>5. ASSUME heap' = Reclaimed(heap, servers, held)
      PROVE  /\ \A k \in Keys : SameEntry(k)
             /\ \A e \in Entries : Accounted(heap'[e])
  <2>1. \A k \in Keys : servers[k] # None => heap'[servers[k]] = heap[servers[k]]
    BY <1>3, <1>5, ReclaimedEntries, ListedInReferenced
  <2> QED
    BY <1>2, <1>3, <1>5, <2>1, ReclaimedAccounted DEF SameEntry
<1> QED
  BY <1>1, <1>2, <1>4, <1>5 DEF Pick

LEMMA MarkUnhealthyAccounted ==
  ASSUME NEW entry \in EntryType
  PROVE  /\ Accounted(MarkUnhealthy(entry))
         /\ MarkUnhealthy(entry).cap = entry.cap
         /\ MarkUnhealthy(entry).draining = entry.draining
<1> DEFINE streak == IF entry.failStreak < Len(Schedule) THEN entry.failStreak + 1
                                                         ELSE Len(Schedule)
<1>1. Len(Schedule) \in Nat /\ \A n \in 1..Len(Schedule) : Schedule[n] \in Nat
  BY ConstantsAssumption
<1>2. streak \in 1..Len(Schedule)
  BY <1>1, ConstantsAssumption DEF EntryType
<1>3. Schedule[streak] \in Nat /\ Schedule[streak] <= Schedule[streak] /\ streak > 0
  BY <1>1, <1>2
<1> HIDE DEF streak
<1>4. MarkUnhealthy(entry) = [entry EXCEPT !.failStreak = streak,
                                           !.cooldown = Schedule[streak]]
  BY DEF MarkUnhealthy, streak
<1> QED
  BY <1>3, <1>4 DEF EntryType, Accounted

(* A call that ends leaves every other server as it is, and takes its own   *)
(* out of the pool exactly if it drains and this was its last request.      *)
LEMMA CallEffect ==
  ASSUME IInv, HInv, NEW c \in Callers,
         Succeed(c) \/ FailRetryable(c) \/ FailForGood(c)
  PROVE  /\ \E k \in Keys :
              /\ servers[k] # None
              /\ heap[servers[k]].inFlight > 0
              /\ \A j \in Keys \ {k} : SameEntry(j)
              /\ \/ /\ servers'[k] = None
                    /\ heap[servers[k]].draining /\ heap[servers[k]].inFlight = 1
                 \/ /\ servers'[k] = servers[k]
                    /\ heap'[servers[k]].inFlight = heap[servers[k]].inFlight - 1
                    /\ heap'[servers[k]].cap = heap[servers[k]].cap
                    /\ heap'[servers[k]].draining = heap[servers[k]].draining
                    /\ ~Drained(heap', servers[k])
         /\ \A e \in Entries : Accounted(heap'[e])
<1>0. pc[c] = "call" /\ held[c] \in Entries /\ heap[held[c]] \in EntryType
  BY ConstantsAssumption
     DEF Succeed, FailRetryable, FailForGood, IInv, TypeOK, HeldWhileCalling
<1>1. PICK settled \in EntryType :
        /\ settled.key = heap[held[c]].key
        /\ settled.inFlight = heap[held[c]].inFlight
        /\ settled.cap = heap[held[c]].cap
        /\ settled.draining = heap[held[c]].draining
        /\ Accounted(settled)
        /\ Settle(c, settled)
  <2> DEFINE entry == heap[held[c]]
  <2>1. Accounted(entry) /\ entry \in EntryType
    BY <1>0 DEF HInv, CooldownWithinSchedule, Accounted
  <2>2. CASE Succeed(c)
    <3> DEFINE well == [entry EXCEPT !.cooldown = 0, !.failStreak = 0]
    <3>1. Settle(c, well)
      BY <2>2 DEF Succeed
    <3> HIDE DEF entry
    <3>2. /\ well \in EntryType /\ well.key = entry.key /\ well.inFlight = entry.inFlight
      BY <2>1, RecoveredType
    <3>3. well.cap = entry.cap /\ well.draining = entry.draining /\ Accounted(well)
      BY <2>1 DEF EntryType, Accounted
    <3> QED
      BY <3>1, <3>2, <3>3 DEF entry
  <2>3. CASE FailRetryable(c)
    BY <2>1, <2>3, MarkUnhealthyType, MarkUnhealthyAccounted DEF FailRetryable
  <2>4. CASE FailForGood(c)
    BY <2>1, <2>4 DEF FailForGood
  <2> QED
    BY <2>2, <2>3, <2>4
<1>2. PICK e \in Entries : held[c] = e
  BY <1>0
<1> DEFINE k == heap[e].key
           fewer == [settled EXCEPT !.inFlight = @ - 1]
           h == [heap EXCEPT ![e] = fewer]
<1>3. /\ heap[e].inFlight > 0 /\ k \in Keys /\ servers[k] = e /\ e # None
  BY <1>2, <1>0, ConstantsAssumption, HeldNotDrained
<1>4. /\ fewer \in EntryType /\ Accounted(fewer)
      /\ fewer.inFlight = heap[e].inFlight - 1 /\ heap[e].inFlight \in Nat
      /\ fewer.cap = heap[e].cap /\ fewer.draining = heap[e].draining
      /\ fewer.key = k
  <2>1. settled.inFlight \in Nat /\ settled.inFlight > 0
    BY <1>1, <1>2, <1>3 DEF EntryType
  <2>2. settled.inFlight - 1 \in Nat
    BY <2>1
  <2> QED
    BY <1>1, <1>2, <2>1, <2>2 DEF EntryType, Accounted
<1>a. /\ servers' = IF Drained(h, e) THEN [servers EXCEPT ![h[e].key] = None] ELSE servers
      /\ heap' = Reclaimed(h, servers', held')
  BY <1>1, <1>2 DEF Settle
<1> HIDE DEF fewer
<1>5. /\ h \in [Entries -> EntryType] /\ h[e] = fewer
      /\ \A d \in Entries : d # e => h[d] = heap[d]
      /\ \A d \in Entries : Accounted(h[d])
  BY <1>4 DEF IInv, TypeOK, HInv, CooldownWithinSchedule, Accounted
<1>6. /\ servers' = IF Drained(h, e) THEN [servers EXCEPT ![k] = None] ELSE servers
      /\ heap' = Reclaimed(h, servers', held')
  BY <1>a, <1>4, <1>5
<1> HIDE DEF h, k
<1>7. \A j \in Keys : servers'[j] # None =>
        servers'[j] = servers[j] /\ servers[j] \in Entries /\ heap'[servers[j]] = h[servers[j]]
  <2>1. \A j \in Keys : servers'[j] # None => servers'[j] = servers[j]
    BY <1>3, <1>6 DEF IInv, TypeOK
  <2>2. \A d \in Entries : d \in Referenced(servers', held') => heap'[d] = h[d]
    BY <1>5, <1>6, ReclaimedEntries
  <2>3. \A j \in Keys : servers'[j] \in Referenced(servers', held')
    BY DEF Referenced
  <2>4. \A j \in Keys : servers[j] # None => servers[j] \in Entries
    BY DEF IInv, TypeOK
  <2> QED
    BY <2>1, <2>2, <2>3, <2>4
<1>8. ASSUME NEW j \in Keys \ {k} PROVE SameEntry(j)
  <2>1. servers'[j] = servers[j]
    BY <1>3, <1>6 DEF IInv, TypeOK
  <2>2. CASE servers[j] # None
    <3>1. servers[j] # e
      BY <2>2, <1>3, OneKeyEach
    <3> QED
      BY <2>1, <2>2, <3>1, <1>5, <1>7 DEF SameEntry
  <2> QED
    BY <2>1, <2>2 DEF SameEntry
<1>9. CASE Drained(h, e)
  <2>1. servers'[k] = None
    BY <1>9, <1>3, <1>6 DEF IInv, TypeOK
  <2>2. heap[e].draining /\ heap[e].inFlight = 1
    BY <1>9, <1>3, <1>4, <1>5 DEF Drained
  <2> QED
    BY <1>3, <1>5, <1>6, <1>8, <2>1, <2>2, ReclaimedAccounted
<1>10. CASE ~Drained(h, e)
  <2>1. servers'[k] = servers[k] /\ heap'[e] = fewer
    BY <1>10, <1>3, <1>5, <1>6, <1>7
  <2>2. ~Drained(heap', e)
    BY <2>1, <1>5, <1>10 DEF Drained
  <2> QED
    BY <1>3, <1>4, <1>5, <1>6, <1>8, <2>1, <2>2, ReclaimedAccounted
<1> QED
  BY <1>9, <1>10

ListedLoad(k) == IF servers[k] = None THEN 0 ELSE heap[servers[k]].inFlight

(* Reading the file fills an empty pool with what the file lists.           *)
LEMMA InitReadEffect ==
  ASSUME IInv, EmptyBeforeInit, HInv, InitRead
  PROVE  /\ file.cfg \in ConfigType /\ DOMAIN file.cfg # {}
         /\ \A k \in Keys : servers[k] = None
         /\ \A k \in Keys :
              IF k \in DOMAIN file.cfg
                THEN servers'[k] # None /\ heap'[servers'[k]] = NewEntry(k, file.cfg[k])
                ELSE servers'[k] = None
         /\ \A e \in Entries : Accounted(heap'[e])
<1> DEFINE cfg == file.cfg
           K == DOMAIN cfg
<1>1. cfg \in ConfigType /\ K # {}
  BY DEF InitRead, ValidFirst, IInv, TypeOK
<1>2. K \subseteq Keys /\ \A k \in K : cfg[k] \in Caps
  BY <1>1, ConfigCaps
<1>3. PICK f \in InjectiveMaps(K, Entries) :
        /\ servers' = AddEntries(servers, K, f)
        /\ heap' = WithEntries(heap, K, f, cfg)
  BY DEF InitRead
<1>4. \A k \in Keys : servers[k] = None
  BY DEF InitRead, EmptyBeforeInit
<1>5. Addition(K, f, cfg) /\ \A k \in K : f[k] \in Entries
  BY <1>2 DEF InjectiveMaps, Addition
<1>6. heap \in [Entries -> EntryType] /\ \A e \in Entries : Accounted(heap[e])
  BY DEF IInv, TypeOK, HInv, CooldownWithinSchedule, Accounted
<1>7. \A k \in K : Accounted(NewEntry(k, cfg[k]))
  BY DEF Accounted, NewEntry
<1> HIDE DEF cfg, K
<1>8. /\ \A k \in K : heap'[f[k]] = NewEntry(k, cfg[k])
      /\ \A e \in Entries : (\E k \in K : f[k] = e) \/ heap'[e] = heap[e]
  BY <1>3, <1>5, <1>6, WithEntriesFacts
<1>9. \A e \in Entries : Accounted(heap'[e])
  BY <1>6, <1>7, <1>8
<1>10. \A k \in Keys : servers'[k] = IF k \in K THEN f[k] ELSE None
  BY <1>3, <1>4 DEF AddEntries
<1>11. \A e \in Entries : e # None
  BY ConstantsAssumption
<1> QED
  BY <1>1, <1>4, <1>5, <1>8, <1>9, <1>10, <1>11 DEF cfg, K

LEMMA ReconfiguredLimit ==
  ASSUME IInv, NEW cfg \in ConfigType, NEW k \in Keys, servers[k] # None
  PROVE  /\ k \in DOMAIN cfg => /\ Reconfigured(servers[k], cfg).cap = cfg[k]
                                /\ ~Reconfigured(servers[k], cfg).draining
         /\ k \notin DOMAIN cfg => /\ Reconfigured(servers[k], cfg).cap = heap[servers[k]].cap
                                   /\ Reconfigured(servers[k], cfg).draining
<1>1. /\ servers[k] \in Entries /\ heap[servers[k]].key = k /\ heap[servers[k]] \in EntryType
      /\ k # None
  BY ConstantsAssumption DEF IInv, TypeOK, ListedUnderOwnKey
<1>2. Listed(servers[k])
  BY <1>1 DEF Listed
<1> QED
  BY <1>1, <1>2 DEF Reconfigured, EntryType

LEMMA ReconfiguredAccounted ==
  ASSUME IInv, NEW cfg \in ConfigType, NEW e \in Entries, Accounted(heap[e])
  PROVE  Accounted(Reconfigured(e, cfg))
<1>1. heap[e] \in EntryType
  BY DEF IInv, TypeOK
<1>2. CASE ~Listed(e)
  BY <1>2 DEF Reconfigured
<1>3. CASE Listed(e)
  BY <1>1, <1>3 DEF Reconfigured, Accounted, EntryType
<1> QED
  BY <1>2, <1>3

(* A reload gives every server of the file its cap, lets every other drain  *)
(* and drops those that have drained; no request changes its server.        *)
LEMMA ApplyEffect ==
  ASSUME IInv, HInv, NEW cfg \in ConfigType, ApplyConfig(cfg), UNCHANGED held
  PROVE  /\ \A k \in Keys :
              /\ k \in DOMAIN cfg =>
                   /\ servers'[k] # None
                   /\ heap'[servers'[k]].cap = cfg[k] /\ ~heap'[servers'[k]].draining
              /\ k \notin DOMAIN cfg /\ servers'[k] # None =>
                   /\ servers'[k] = servers[k]
                   /\ heap'[servers'[k]].cap = heap[servers[k]].cap
                   /\ heap'[servers'[k]].draining
              /\ servers'[k] # None => ~Drained(heap', servers'[k])
              /\ ListedLoad(k)' = ListedLoad(k)
         /\ \A e \in Entries : Accounted(heap'[e])
<1> DEFINE fresh == {k \in DOMAIN cfg : servers[k] = None}
           g == [e \in Entries |-> Reconfigured(e, cfg)]
<1>1. PICK f \in InjectiveMaps(fresh, Entries \ Referenced(servers, held)) :
        /\ servers' = Swept(AddEntries(servers, fresh, f), WithEntries(g, fresh, f, cfg))
        /\ heap' = Reclaimed(WithEntries(g, fresh, f, cfg), servers', held)
  BY DEF ApplyConfig
<1> DEFINE s == AddEntries(servers, fresh, f)
           h == WithEntries(g, fresh, f, cfg)
<1>2. /\ g \in [Entries -> EntryType]
      /\ \A e \in Entries : g[e].key = heap[e].key /\ g[e].inFlight = heap[e].inFlight
      /\ \A e \in Entries : Accounted(g[e])
  BY ReconfiguredKeeps, ReconfiguredAccounted DEF HInv, CooldownWithinSchedule, Accounted
<1>3. fresh \subseteq Keys /\ \A k \in fresh : servers[k] = None
  BY ConfigCaps
<1>4. \A k \in fresh : f[k] \in Entries /\ f[k] \notin Referenced(servers, held)
  BY DEF InjectiveMaps
<1>5. Addition(fresh, f, cfg)
  BY <1>3, <1>4, ConfigCaps DEF Addition, InjectiveMaps
<1>6. /\ h \in [Entries -> EntryType]
      /\ \A k \in fresh : h[f[k]] = NewEntry(k, cfg[k])
      /\ \A e \in Entries : (\E k \in fresh : f[k] = e) \/ h[e] = g[e]
  <2> HIDE DEF g, fresh
  <2>1. QED
    BY <1>2, <1>5, WithEntriesFacts
<1>7. \A k \in Keys : s[k] = IF k \in fresh THEN f[k] ELSE servers[k]
  BY DEF AddEntries
<1>8. \A k \in Keys : servers[k] # None =>
        servers[k] \in Entries /\ k \notin fresh /\ h[servers[k]] = g[servers[k]]
  <2>1. \A k \in Keys : servers[k] \in Referenced(servers, held)
    BY DEF Referenced
  <2>2. \A k \in Keys : servers[k] # None => servers[k] \in Entries
    BY DEF IInv, TypeOK
  <2> HIDE DEF g, h, fresh
  <2> QED
    BY <1>3, <1>4, <1>6, <2>1, <2>2
<1>9. \A k \in Keys : servers[k] # None => g[servers[k]] = Reconfigured(servers[k], cfg)
  BY <1>8
<1>10. \A k \in DOMAIN cfg : k \in fresh <=> servers[k] = None
  OBVIOUS
<1>11. \A k \in Keys \ DOMAIN cfg : k \notin fresh
  OBVIOUS
<1> HIDE DEF g, h, fresh, s
<1>12. \A k \in Keys : servers'[k] = IF s[k] # None /\ Drained(h, s[k]) THEN None ELSE s[k]
  BY <1>1 DEF Swept, s, h
<1>13. \A k \in Keys : s[k] # None => s[k] \in Entries
  BY <1>4, <1>7, <1>8
<1>14. \A k \in Keys : servers'[k] # None =>
         servers'[k] = s[k] /\ heap'[s[k]] = h[s[k]] /\ ~Drained(h, s[k])
  <2>1. heap' = Reclaimed(h, servers', held)
    BY <1>1 DEF h
  <2>2. \A d \in Entries : d \in Referenced(servers', held) => heap'[d] = h[d]
    BY <1>6, <2>1, ReclaimedEntries
  <2>3. \A k \in Keys : servers'[k] \in Referenced(servers', held)
    BY DEF Referenced
  <2>4. \A k \in Keys : servers'[k] # None => servers'[k] = s[k] /\ ~Drained(h, s[k])
    BY <1>12
  <2> QED
    BY <1>13, <2>2, <2>3, <2>4
<1>15. \A k \in fresh : /\ k \in Keys /\ s[k] = f[k] /\ s[k] \in Entries /\ s[k] # None
                        /\ h[s[k]] = NewEntry(k, cfg[k])
  BY <1>3, <1>4, <1>6, <1>7, ConstantsAssumption
<1>16. ASSUME NEW k \in Keys, k \in DOMAIN cfg
       PROVE  /\ servers'[k] # None
              /\ heap'[servers'[k]].cap = cfg[k] /\ ~heap'[servers'[k]].draining
  <2>1. s[k] # None /\ h[s[k]].cap = cfg[k] /\ ~h[s[k]].draining
    <3>1. CASE k \in fresh
      <4>1. s[k] # None /\ h[s[k]] = NewEntry(k, cfg[k])
        BY <3>1, <1>15
      <4>2. NewEntry(k, cfg[k]).cap = cfg[k] /\ ~NewEntry(k, cfg[k]).draining
        BY DEF NewEntry
      <4> QED
        BY <4>1, <4>2
    <3>2. CASE k \notin fresh
      <4>1. servers[k] # None /\ s[k] = servers[k]
        BY <3>2, <1>7, <1>10, <1>16
      <4> QED
        BY <4>1, <1>8, <1>9, <1>16, ReconfiguredLimit
    <3> QED
      BY <3>1, <3>2
  <2>2. servers'[k] = s[k]
    BY <2>1, <1>12 DEF Drained
  <2> QED
    BY <2>1, <2>2, <1>14
<1>17. ASSUME NEW k \in Keys, k \notin DOMAIN cfg, servers'[k] # None
       PROVE  /\ servers'[k] = servers[k]
              /\ heap'[servers'[k]].cap = heap[servers[k]].cap
              /\ heap'[servers'[k]].draining
  <2>1. servers'[k] = s[k] /\ s[k] = servers[k] /\ servers[k] # None
    BY <1>7, <1>11, <1>14, <1>17
  <2> QED
    BY <2>1, <1>8, <1>9, <1>14, <1>17, ReconfiguredLimit
<1>18. ASSUME NEW k \in Keys, servers'[k] # None PROVE ~Drained(heap', servers'[k])
  BY <1>14, <1>18 DEF Drained
<1>19. ASSUME NEW k \in Keys PROVE ListedLoad(k)' = ListedLoad(k)
  <2>1. CASE k \in fresh
    <3>1. servers[k] = None /\ h[s[k]].inFlight = 0 /\ ~h[s[k]].draining /\ s[k] # None
      <4>1. servers[k] = None /\ s[k] # None /\ h[s[k]] = NewEntry(k, cfg[k])
        BY <2>1, <1>3, <1>15
      <4>2. NewEntry(k, cfg[k]).inFlight = 0 /\ ~NewEntry(k, cfg[k]).draining
        BY DEF NewEntry
      <4> QED
        BY <4>1, <4>2
    <3>2. servers'[k] = s[k] /\ servers'[k] # None
      BY <3>1, <1>12 DEF Drained
    <3> QED
      BY <3>1, <3>2, <1>14 DEF ListedLoad
  <2>2. CASE k \notin fresh /\ servers[k] = None
    <3>1. servers'[k] = None
      BY <2>2, <1>7, <1>12
    <3> QED
      BY <3>1, <2>2 DEF ListedLoad
  <2>3. CASE servers[k] # None
    <3>1. s[k] = servers[k] /\ servers[k] \in Entries /\ h[s[k]].inFlight = heap[servers[k]].inFlight
      BY <2>3, <1>2, <1>7, <1>8
    <3>2. CASE servers'[k] = None
      <4>1. Drained(h, s[k])
        BY <3>1, <3>2, <2>3, <1>12
      <4> QED
        BY <3>1, <3>2, <2>3, <4>1 DEF Drained, ListedLoad
    <3>3. CASE servers'[k] # None
      BY <3>1, <3>3, <2>3, <1>14 DEF ListedLoad
    <3> QED
      BY <3>2, <3>3
  <2> QED
    BY <2>1, <2>2, <2>3
<1>20. \A e \in Entries : Accounted(heap'[e])
  <2>1. \A e \in Entries : Accounted(h[e])
    <3>1. \A k \in fresh : Accounted(NewEntry(k, cfg[k]))
      BY DEF Accounted, NewEntry
    <3> QED
      BY <3>1, <1>2, <1>6
  <2>2. heap' = Reclaimed(h, servers', held)
    BY <1>1 DEF h
  <2> QED
    BY <2>1, <2>2, <1>6, ReclaimedAccounted
<1> QED
  BY <1>16, <1>17, <1>18, <1>19, <1>20

LEMMA InitHInv == Init => HInv
BY DEF Init, HInv, NoIdleDraining, CapsOfListed, CooldownWithinSchedule, Unused, NewEntry

(* HInv is kept by a step that leaves every server's entry as it is, up to  *)
(* one entry whose cap is kept and which is not left drained.               *)
LEMMA HInvKept ==
  ASSUME IInv, HInv, NEW k \in Keys, \A j \in Keys \ {k} : SameEntry(j),
         servers'[k] # None => /\ servers[k] # None
                               /\ heap'[servers'[k]].cap = heap[servers[k]].cap
                               /\ ~Drained(heap', servers'[k]),
         \A e \in Entries : Accounted(heap'[e])
  PROVE  HInv'
<1>1. ASSUME NEW j \in Keys, servers'[j] # None
      PROVE  heap'[servers'[j]].cap \in Caps /\ ~Drained(heap', servers'[j])
  <2>1. CASE j = k
    BY <1>1, <2>1 DEF HInv, CapsOfListed
  <2>2. CASE j # k
    <3>1. SameEntry(j)
      BY <2>2
    <3>2. servers'[j] = servers[j] /\ heap'[servers[j]] = heap[servers[j]] /\ servers[j] # None
      BY <3>1, <1>1 DEF SameEntry
    <3>3. heap[servers[j]].cap \in Caps /\ ~Drained(heap, servers[j])
      BY <3>2 DEF HInv, CapsOfListed, NoIdleDraining
    <3> QED
      BY <3>2, <3>3 DEF Drained
  <2> QED
    BY <2>1, <2>2
<1>2. NoIdleDraining' /\ CapsOfListed'
  BY <1>1 DEF NoIdleDraining, CapsOfListed, Drained
<1> QED
  BY <1>2 DEF HInv, CooldownWithinSchedule, Accounted

LEMMA TickHInv ==
  ASSUME IInv, HInv, Tick
  PROVE  HInv'
<1>1. ASSUME NEW e \in Entries
      PROVE  /\ heap'[e].cap = heap[e].cap /\ heap'[e].inFlight = heap[e].inFlight
             /\ heap'[e].draining = heap[e].draining
             /\ Accounted(heap'[e])
  <2>1. /\ heap'[e] = [heap[e] EXCEPT !.cooldown = Sooner(@)]
        /\ heap[e] \in EntryType /\ Accounted(heap[e])
    BY DEF Tick, IInv, TypeOK, HInv, CooldownWithinSchedule, Accounted
  <2>2. /\ Sooner(heap[e].cooldown) > 0 => heap[e].cooldown > 0
        /\ Sooner(heap[e].cooldown) <= heap[e].cooldown
        /\ Sooner(heap[e].cooldown) \in Nat
    BY <2>1 DEF Sooner, EntryType
  <2>3. heap[e].failStreak > 0 => Schedule[heap[e].failStreak] \in Nat
    BY <2>1, ConstantsAssumption DEF EntryType
  <2>4. Accounted(heap'[e])
    BY <2>1, <2>2, <2>3 DEF Accounted, EntryType
  <2> QED
    BY <2>1, <2>4 DEF EntryType
<1>2. \A k \in Keys : servers'[k] # None =>
        servers'[k] = servers[k] /\ servers[k] \in Entries
  BY DEF Tick, IInv, TypeOK
<1>3. NoIdleDraining' /\ CapsOfListed'
  BY <1>1, <1>2 DEF HInv, NoIdleDraining, CapsOfListed, Drained
<1> QED
  BY <1>1, <1>3 DEF HInv, CooldownWithinSchedule, Accounted

LEMMA InitReadHInv ==
  ASSUME IInv, EmptyBeforeInit, HInv, InitRead
  PROVE  HInv'
<1>1. \A k \in DOMAIN file.cfg : file.cfg[k] \in Caps
  BY InitReadEffect, ConfigCaps
<1>2. ASSUME NEW k \in Keys, servers'[k] # None
      PROVE  heap'[servers'[k]].cap \in Caps /\ ~Drained(heap', servers'[k])
  <2>1. k \in DOMAIN file.cfg /\ heap'[servers'[k]] = NewEntry(k, file.cfg[k])
    BY <1>2, InitReadEffect
  <2>2. NewEntry(k, file.cfg[k]).cap = file.cfg[k] /\ ~NewEntry(k, file.cfg[k]).draining
    BY DEF NewEntry
  <2> QED
    BY <1>1, <2>1, <2>2 DEF Drained
<1>3. NoIdleDraining' /\ CapsOfListed'
  BY <1>2 DEF NoIdleDraining, CapsOfListed, Drained
<1> QED
  BY <1>3, InitReadEffect DEF HInv, CooldownWithinSchedule, Accounted

LEMMA ApplyHInv ==
  ASSUME IInv, HInv, NEW cfg \in ConfigType, ApplyConfig(cfg), UNCHANGED held
  PROVE  HInv'
<1>1. ASSUME NEW k \in Keys, servers'[k] # None
      PROVE  heap'[servers'[k]].cap \in Caps /\ ~Drained(heap', servers'[k])
  <2>1. CASE k \in DOMAIN cfg
    BY <1>1, <2>1, ApplyEffect, ConfigCaps
  <2>2. CASE k \notin DOMAIN cfg
    <3>1. /\ servers'[k] = servers[k] /\ heap'[servers'[k]].cap = heap[servers[k]].cap
          /\ ~Drained(heap', servers'[k])
      BY <1>1, <2>2, ApplyEffect
    <3> QED
      BY <1>1, <3>1 DEF HInv, CapsOfListed
  <2> QED
    BY <2>1, <2>2
<1>2. NoIdleDraining' /\ CapsOfListed'
  BY <1>1 DEF NoIdleDraining, CapsOfListed, Drained
<1> QED
  BY <1>2, ApplyEffect DEF HInv, CooldownWithinSchedule, Accounted

LEMMA PickHInv ==
  ASSUME IInv, HInv, NEW c \in Callers, Pick(c)
  PROVE  HInv'
<1>1. \A e \in Entries : Accounted(heap'[e])
  BY PickEffect
<1>2. CASE \A k \in Keys : SameEntry(k)
  <2>1. NoIdleDraining' /\ CapsOfListed'
    BY <1>2 DEF SameEntry, HInv, NoIdleDraining, CapsOfListed, Drained
  <2> QED
    BY <1>1, <2>1 DEF HInv, CooldownWithinSchedule, Accounted
<1>3. ASSUME NEW k \in Eligible(servers), servers[k] \in Entries, servers' = servers,
             heap'[servers[k]] = [heap[servers[k]] EXCEPT !.inFlight = @ + 1],
             \A j \in Keys \ {k} : SameEntry(j)
      PROVE  HInv'
  <2>1. /\ k \in Keys /\ servers[k] # None /\ ~heap[servers[k]].draining
        /\ heap[servers[k]] \in EntryType
    BY <1>3 DEF Eligible, IInv, TypeOK
  <2>2. heap'[servers[k]].cap = heap[servers[k]].cap /\ ~heap'[servers[k]].draining
    BY <1>3, <2>1 DEF EntryType
  <2> QED
    BY <1>1, <1>3, <2>1, <2>2, HInvKept DEF Drained
<1> QED
  BY <1>2, <1>3, PickEffect

LEMMA CallHInv ==
  ASSUME IInv, HInv, NEW c \in Callers,
         Succeed(c) \/ FailRetryable(c) \/ FailForGood(c)
  PROVE  HInv'
<1>1. \A e \in Entries : Accounted(heap'[e])
  BY CallEffect
<1>2. PICK k \in Keys :
        /\ servers[k] # None
        /\ \A j \in Keys \ {k} : SameEntry(j)
        /\ \/ servers'[k] = None
           \/ /\ servers'[k] = servers[k]
              /\ heap'[servers[k]].cap = heap[servers[k]].cap
              /\ ~Drained(heap', servers[k])
  BY CallEffect
<1> QED
  BY <1>1, <1>2, HInvKept
-----------------------------------------------------------------------------
LEMMA HInductive == Spec => []HInv
<1>1. Init => HInv
  BY InitHInv
<1>2. IInv /\ EmptyBeforeInit /\ HInv /\ [Next]_vars => HInv'
  <2> SUFFICES ASSUME IInv, EmptyBeforeInit, HInv, [Next]_vars
               PROVE  HInv'
    OBVIOUS
  <2>1. CASE UNCHANGED <<servers, heap>>
    BY <2>1 DEF HInv, NoIdleDraining, CapsOfListed, CooldownWithinSchedule, Drained
  <2>2. CASE InitRead
    BY <2>2, InitReadHInv
  <2>3. ASSUME NEW c \in Callers, Worker(c)
        PROVE  HInv'
    <3>1. CASE StartExample(c) \/ StartChat(c) \/ CheckDeadline(c) \/ Forget(c)
      BY <2>1, <3>1 DEF StartExample, StartChat, CheckDeadline, Forget
    <3> QED
      BY <2>3, <3>1, PickHInv, CallHInv DEF Worker
  <2>4. CASE ReloadApply
    <3>1. reloader.cfg \in ConfigType /\ UNCHANGED held
      BY <2>4 DEF ReloadApply, workers, IInv, TypeOK, ReadBeforeApply
    <3>2. CASE DOMAIN reloader.cfg = {}
      BY <2>1, <2>4, <3>2 DEF ReloadApply
    <3>3. CASE DOMAIN reloader.cfg # {}
      BY <2>4, <3>1, <3>3, ApplyHInv DEF ReloadApply
    <3> QED
      BY <3>2, <3>3
  <2>5. CASE Tick
    BY <2>5, TickHInv
  <2>6. CASE \/ InitStat \/ Close \/ Done \/ ReloadStat \/ ReloadRead \/ Edit
             \/ UNCHANGED vars
    BY <2>1, <2>6 DEF InitStat, Close, Done, ReloadStat, ReloadRead, Edit, vars
  <2> QED
    BY <2>2, <2>3, <2>4, <2>5, <2>6 DEF Next
<1> QED
  BY <1>1, <1>2, Inductive, EmptyBeforeInitInvariant, PTL DEF Spec

(* A server that was removed leaves the pool with its last request: no      *)
(* interleaving of calls and reloads leaves a drained entry in the map.     *)
THEOREM DrainedLeaves == Spec => []NoIdleDraining
<1>1. HInv => NoIdleDraining
  BY DEF HInv
<1>2. QED
  BY <1>1, HInductive, PTL

(* Every cooldown stands for a failure streak and is within what            *)
(* cooldown_schedule gives that streak (_mark_unhealthy, chat()).           *)
THEOREM CooldownsOnSchedule == Spec => []CooldownWithinSchedule
<1>1. HInv => CooldownWithinSchedule
  BY DEF HInv
<1>2. QED
  BY <1>1, HInductive, PTL
-----------------------------------------------------------------------------
(* Once a late request went out the chat's time is up, so that the loop's   *)
(* next look at the deadline ends it: the worker is not back at its pick.   *)
LateEnds ==
  \A c \in Callers : /\ late[c] <= 1
                     /\ late[c] > 0 => left[c] = 0 /\ pc[c] # "pick"

LEMMA LateEndsStep ==
  ASSUME IInv, LateEnds, [Next]_vars
  PROVE  LateEnds'
<1>0. /\ pc \in [Callers -> {"out", "idle", "loop", "pick", "call"}]
      /\ left \in [Callers -> Nat] /\ late \in [Callers -> Nat]
  BY DEF IInv, TypeOK
<1>1. CASE UNCHANGED <<pc, left, late>>
  BY <1>1 DEF LateEnds
<1>2. CASE \/ InitRead \/ InitStat \/ Close \/ Done \/ ReloadStat \/ ReloadRead
           \/ ReloadApply \/ Edit \/ UNCHANGED vars
  BY <1>1, <1>2 DEF InitRead, InitStat, Close, Done, ReloadStat, ReloadRead,
                    ReloadApply, Edit, workers, vars
<1>3. CASE Tick
  BY <1>0, <1>3 DEF Tick, Sooner, LateEnds
<1>4. ASSUME NEW c \in Callers, Worker(c)
      PROVE  LateEnds'
  <2>1. CASE StartExample(c) \/ Forget(c)
    BY <1>0, <2>1 DEF StartExample, Forget, Goto, LateEnds
  <2>2. CASE StartChat(c)
    BY <1>0, <2>2 DEF StartChat, Goto, LateEnds
  <2>3. CASE CheckDeadline(c)
    <3>1. /\ late' = late
          /\ \/ left[c] > 0 /\ pc' = [pc EXCEPT ![c] = "pick"] /\ left' = left
             \/ pc' = [pc EXCEPT ![c] = "idle"] /\ left' = [left EXCEPT ![c] = 0]
      BY <2>3, Zenon DEF CheckDeadline, Return, Goto
    <3>2. CASE left[c] > 0 /\ pc' = [pc EXCEPT ![c] = "pick"] /\ left' = left
      BY <1>0, <3>1, <3>2 DEF LateEnds
    <3>3. CASE pc' = [pc EXCEPT ![c] = "idle"] /\ left' = [left EXCEPT ![c] = 0]
      BY <1>0, <3>1, <3>3 DEF LateEnds
    <3> QED
      BY <3>1, <3>2, <3>3
  <2>4. CASE Pick(c)
    <3>1. \/ /\ late' = IF left[c] = 0 THEN [late EXCEPT ![c] = @ + 1] ELSE late
             /\ pc' = [pc EXCEPT ![c] = "call"] /\ left' = left
          \/ UNCHANGED <<pc, left, late>>
          \/ /\ pc' = [pc EXCEPT ![c] = "idle"] /\ left' = [left EXCEPT ![c] = 0]
             /\ late' = late
      BY <2>4, Zenon DEF Pick, Return, Goto
    <3>2. pc[c] = "pick"
      BY <2>4 DEF Pick
    <3>3. late[c] = 0
      BY <1>0, <3>2 DEF LateEnds
    <3>4. CASE /\ late' = IF left[c] = 0 THEN [late EXCEPT ![c] = @ + 1] ELSE late
               /\ pc' = [pc EXCEPT ![c] = "call"] /\ left' = left
      BY <1>0, <3>3, <3>4 DEF LateEnds
    <3>5. CASE /\ pc' = [pc EXCEPT ![c] = "idle"] /\ left' = [left EXCEPT ![c] = 0]
               /\ late' = late
      BY <1>0, <3>5 DEF LateEnds
    <3> QED
      BY <1>1, <3>1, <3>4, <3>5
  <2>5. CASE Succeed(c) \/ FailForGood(c)
    BY <1>0, <2>5 DEF Succeed, FailForGood, Settle, Return, Goto, LateEnds
  <2>6. CASE FailRetryable(c)
    BY <1>0, <2>6 DEF FailRetryable, Settle, Goto, LateEnds
  <2> QED
    BY <1>4, <2>1, <2>2, <2>3, <2>4, <2>5, <2>6 DEF Worker
<1> QED
  BY <1>2, <1>3, <1>4 DEF Next

(* A chat() sends at most one request after its deadline, although the inner *)
(* loop picks a server before it looks at the time.                          *)
THEOREM AtMostOneLate == Spec => []OneLateRequest
<1>1. Init => LateEnds
  BY DEF Init, LateEnds
<1>2. IInv /\ LateEnds /\ [Next]_vars => LateEnds'
  BY LateEndsStep
<1>3. LateEnds => OneLateRequest
  BY DEF LateEnds, OneLateRequest
<1> QED
  BY <1>1, <1>2, <1>3, Inductive, PTL DEF Spec
-----------------------------------------------------------------------------
(* The pool implements ServerSlots.  A server's load is what its entry has  *)
(* in flight: no request on it is out through another object.               *)
LEMMA LoadIsListed ==
  ASSUME IInv, NEW k \in Keys
  PROVE  Load(k) = ListedLoad(k)
<1> DEFINE on == {c \in Callers : held[c] # None /\ heap[held[c]].key = k}
<1>1. CASE servers[k] = None
  <2>1. \A c \in Callers : held[c] # None => heap[held[c]].key # k
    BY <1>1, HeldNotDrained
  <2>2. on = {}
    BY <2>1
  <2> QED
    BY <1>1, <2>2, FS_EmptySet DEF Load, ListedLoad
<1>2. CASE servers[k] # None
  <2>1. servers[k] \in Entries /\ heap[servers[k]].key = k
    BY <1>2 DEF IInv, TypeOK, ListedUnderOwnKey
  <2>2. \A c \in Callers : held[c] # None /\ heap[held[c]].key = k => held[c] = servers[k]
    BY HeldNotDrained
  <2>3. on = CallersOf(servers[k])
    BY <1>2, <2>1, <2>2 DEF CallersOf
  <2> QED
    BY <1>2, <2>1, <2>3 DEF Load, ListedLoad, IInv, InFlightExact
<1> QED
  BY <1>1, <1>2

LoadsListed == \A k \in Keys : Load(k) = ListedLoad(k)

LEMMA LoadsAreListed == Spec => []LoadsListed
<1>1. IInv => LoadsListed
  BY LoadIsListed DEF LoadsListed
<1> QED
  BY <1>1, Inductive, PTL

SlotLimit(k) == IF servers[k] = None \/ heap[servers[k]].draining
                  THEN 0 ELSE heap[servers[k]].cap

SlotLimits == [k \in Keys |-> SlotLimit(k)]
SlotLoads == [k \in Keys |-> Load(k)]

(* What each kind of step does to a server's limit and load.                *)
LEMMA SameSlot ==
  ASSUME NEW k \in Keys, SameEntry(k)
  PROVE  SlotLimit(k)' = SlotLimit(k) /\ ListedLoad(k)' = ListedLoad(k)
BY DEF SameEntry, SlotLimit, ListedLoad

LEMMA SlotsStutter ==
  ASSUME LoadsListed, LoadsListed',
         \A k \in Keys : SlotLimit(k)' = SlotLimit(k) /\ ListedLoad(k)' = ListedLoad(k)
  PROVE  UNCHANGED <<SlotLimits, SlotLoads>>
BY DEF LoadsListed, SlotLimits, SlotLoads

LEMMA SlotsResize ==
  ASSUME LoadsListed, LoadsListed', HInv',
         \A k \in Keys : ListedLoad(k)' = ListedLoad(k),
         NEW k \in Keys, servers'[k] # None, ~heap'[servers'[k]].draining
  PROVE  Slots!Resize
<1>1. \A j \in Keys : SlotLimit(j)' \in Caps \cup {0}
  BY DEF SlotLimit, HInv, CapsOfListed
<1>2. SlotLimit(k)' > 0
  <2>1. \A cap \in Caps : cap > 0
    BY ConstantsAssumption
  <2>2. SlotLimit(k)' \in Caps
    BY DEF SlotLimit, HInv, CapsOfListed
  <2> QED
    BY <2>1, <2>2
<1>3. SlotLoads' = SlotLoads
  BY DEF LoadsListed, SlotLoads
<1>4. SlotLimits' \in [Keys -> Caps \cup {0}] /\ SlotLimits'[k] > 0
  BY <1>1, <1>2 DEF SlotLimits
<1> QED
  BY <1>3, <1>4 DEF Slots!Resize, SlotLimits, SlotLoads, SlotLimit

LEMMA SlotsAcquire ==
  ASSUME LoadsListed, LoadsListed', NEW k \in Keys,
         SlotLimit(k)' = SlotLimit(k), ListedLoad(k) < SlotLimit(k),
         ListedLoad(k)' = ListedLoad(k) + 1,
         \A j \in Keys \ {k} : SlotLimit(j)' = SlotLimit(j) /\ ListedLoad(j)' = ListedLoad(j)
  PROVE  Slots!Acquire(k)
<1>1. SlotLimits' = SlotLimits
  BY DEF SlotLimits
<1>2. SlotLoads' = [SlotLoads EXCEPT ![k] = @ + 1] /\ SlotLoads[k] < SlotLimits[k]
  BY DEF LoadsListed, SlotLoads, SlotLimits
<1> QED
  BY <1>1, <1>2 DEF Slots!Acquire, SlotLimits, SlotLoads, SlotLimit

LEMMA SlotsRelease ==
  ASSUME LoadsListed, LoadsListed', NEW k \in Keys,
         SlotLimit(k)' = SlotLimit(k), ListedLoad(k) > 0,
         ListedLoad(k)' = ListedLoad(k) - 1,
         \A j \in Keys \ {k} : SlotLimit(j)' = SlotLimit(j) /\ ListedLoad(j)' = ListedLoad(j)
  PROVE  Slots!Release(k)
<1>1. SlotLimits' = SlotLimits
  BY DEF SlotLimits
<1>2. SlotLoads' = [SlotLoads EXCEPT ![k] = @ - 1] /\ SlotLoads[k] > 0
  BY DEF LoadsListed, SlotLoads, SlotLimits
<1> QED
  BY <1>1, <1>2 DEF Slots!Release, SlotLimits, SlotLoads, SlotLimit
-----------------------------------------------------------------------------
LEMMA InitSlots == Init /\ LoadsListed => Slots!Init
<1> SUFFICES ASSUME Init, LoadsListed PROVE Slots!Init
  OBVIOUS
<1>1. \A k \in Keys : servers[k] = None
  BY DEF Init
<1>2. \A k \in Keys : Load(k) = 0
  BY <1>1 DEF LoadsListed, ListedLoad
<1> QED
  BY <1>1, <1>2 DEF Slots!Init

LEMMA InitReadSlots ==
  ASSUME IInv, EmptyBeforeInit, HInv, HInv', LoadsListed, LoadsListed', InitRead
  PROVE  Slots!Resize
<1>1. ASSUME NEW k \in Keys PROVE ListedLoad(k)' = ListedLoad(k)
  <2>1. servers[k] = None /\ NewEntry(k, file.cfg[k]).inFlight = 0
    BY InitReadEffect DEF NewEntry
  <2>2. servers'[k] = None \/ heap'[servers'[k]] = NewEntry(k, file.cfg[k])
    BY InitReadEffect
  <2> QED
    BY <2>1, <2>2 DEF ListedLoad
<1>2. PICK k \in DOMAIN file.cfg : TRUE
  BY InitReadEffect
<1>3. k \in Keys
  BY InitReadEffect, ConfigCaps
<1>4. servers'[k] # None /\ heap'[servers'[k]] = NewEntry(k, file.cfg[k])
  BY <1>3, InitReadEffect
<1>5. ~heap'[servers'[k]].draining
  BY <1>4 DEF NewEntry
<1> QED
  BY <1>1, <1>3, <1>4, <1>5, SlotsResize

LEMMA ApplySlots ==
  ASSUME IInv, HInv, HInv', LoadsListed, LoadsListed',
         NEW cfg \in ConfigType, ApplyConfig(cfg), DOMAIN cfg # {}, UNCHANGED held
  PROVE  Slots!Resize
<1>1. \A k \in Keys : ListedLoad(k)' = ListedLoad(k)
  BY ApplyEffect
<1>2. PICK k \in DOMAIN cfg : TRUE
  OBVIOUS
<1>3. k \in Keys
  BY ConfigCaps
<1>4. servers'[k] # None /\ ~heap'[servers'[k]].draining
  BY <1>2, <1>3, ApplyEffect
<1> QED
  BY <1>1, <1>3, <1>4, SlotsResize

LEMMA PickSlots ==
  ASSUME IInv, HInv, LoadsListed, LoadsListed', NEW c \in Callers, Pick(c)
  PROVE  (\E k \in Keys : Slots!Acquire(k)) \/ UNCHANGED <<SlotLimits, SlotLoads>>
<1>1. CASE \A k \in Keys : SameEntry(k)
  BY <1>1, SameSlot, SlotsStutter
<1>2. ASSUME NEW k \in Eligible(servers), servers[k] \in Entries, servers' = servers,
             heap'[servers[k]] = [heap[servers[k]] EXCEPT !.inFlight = @ + 1],
             \A j \in Keys \ {k} : SameEntry(j)
      PROVE  \E i \in Keys : Slots!Acquire(i)
  <2>1. /\ k \in Keys /\ servers[k] # None /\ ~heap[servers[k]].draining
        /\ heap[servers[k]].inFlight < heap[servers[k]].cap
        /\ heap[servers[k]] \in EntryType
    BY <1>2 DEF Eligible, IInv, TypeOK
  <2>2. /\ heap'[servers[k]].cap = heap[servers[k]].cap /\ ~heap'[servers[k]].draining
        /\ heap'[servers[k]].inFlight = heap[servers[k]].inFlight + 1
    BY <1>2, <2>1 DEF EntryType
  <2>3. /\ SlotLimit(k)' = SlotLimit(k) /\ ListedLoad(k) < SlotLimit(k)
        /\ ListedLoad(k)' = ListedLoad(k) + 1
    BY <1>2, <2>1, <2>2 DEF SlotLimit, ListedLoad
  <2>4. \A j \in Keys \ {k} : SlotLimit(j)' = SlotLimit(j) /\ ListedLoad(j)' = ListedLoad(j)
    BY <1>2, SameSlot
  <2>5. Slots!Acquire(k)
    BY <2>1, <2>3, <2>4, SlotsAcquire
  <2> QED
    BY <2>1, <2>5
<1> QED
  BY <1>1, <1>2, PickEffect

LEMMA CallSlots ==
  ASSUME IInv, HInv, LoadsListed, LoadsListed', NEW c \in Callers,
         Succeed(c) \/ FailRetryable(c) \/ FailForGood(c)
  PROVE  \E k \in Keys : Slots!Release(k)
<1>1. PICK k \in Keys :
        /\ servers[k] # None
        /\ heap[servers[k]].inFlight > 0
        /\ \A j \in Keys \ {k} : SameEntry(j)
        /\ \/ /\ servers'[k] = None
              /\ heap[servers[k]].draining /\ heap[servers[k]].inFlight = 1
           \/ /\ servers'[k] = servers[k]
              /\ heap'[servers[k]].inFlight = heap[servers[k]].inFlight - 1
              /\ heap'[servers[k]].cap = heap[servers[k]].cap
              /\ heap'[servers[k]].draining = heap[servers[k]].draining
  BY CallEffect
<1>2. /\ SlotLimit(k)' = SlotLimit(k) /\ ListedLoad(k) > 0
      /\ ListedLoad(k)' = ListedLoad(k) - 1
  BY <1>1 DEF SlotLimit, ListedLoad
<1>3. \A j \in Keys \ {k} : SlotLimit(j)' = SlotLimit(j) /\ ListedLoad(j)' = ListedLoad(j)
  BY <1>1, SameSlot
<1> QED
  BY <1>2, <1>3, SlotsRelease

LEMMA TickSlots ==
  ASSUME IInv, LoadsListed, LoadsListed', Tick
  PROVE  UNCHANGED <<SlotLimits, SlotLoads>>
<1>1. \A e \in Entries : /\ heap'[e].cap = heap[e].cap
                         /\ heap'[e].inFlight = heap[e].inFlight
                         /\ heap'[e].draining = heap[e].draining
  BY DEF Tick, IInv, TypeOK, EntryType
<1>2. \A k \in Keys : servers'[k] = servers[k] /\ (servers[k] # None => servers[k] \in Entries)
  BY DEF Tick, IInv, TypeOK
<1>3. \A k \in Keys : SlotLimit(k)' = SlotLimit(k) /\ ListedLoad(k)' = ListedLoad(k)
  BY <1>1, <1>2 DEF SlotLimit, ListedLoad
<1> QED
  BY <1>3, SlotsStutter

LEMMA NextSlots ==
  ASSUME IInv, EmptyBeforeInit, HInv, HInv', LoadsListed, LoadsListed', [Next]_vars
  PROVE  Slots!Next \/ UNCHANGED <<SlotLimits, SlotLoads>>
<1>1. CASE UNCHANGED <<servers, heap>>
  BY <1>1, SameSlot, SlotsStutter DEF SameEntry
<1>2. CASE InitRead
  BY <1>2, InitReadSlots DEF Slots!Next
<1>3. ASSUME NEW c \in Callers, Worker(c)
      PROVE  Slots!Next \/ UNCHANGED <<SlotLimits, SlotLoads>>
  <2>1. CASE StartExample(c) \/ StartChat(c) \/ CheckDeadline(c) \/ Forget(c)
    BY <1>1, <2>1 DEF StartExample, StartChat, CheckDeadline, Forget
  <2>2. CASE Pick(c)
    BY <2>2, PickSlots DEF Slots!Next
  <2>3. CASE Succeed(c) \/ FailRetryable(c) \/ FailForGood(c)
    BY <2>3, CallSlots DEF Slots!Next
  <2> QED
    BY <1>3, <2>1, <2>2, <2>3 DEF Worker
<1>4. CASE ReloadApply
  <2>1. reloader.cfg \in ConfigType /\ UNCHANGED held
    BY <1>4 DEF ReloadApply, workers, IInv, TypeOK, ReadBeforeApply
  <2>2. CASE DOMAIN reloader.cfg = {}
    BY <1>1, <1>4, <2>2 DEF ReloadApply
  <2>3. CASE DOMAIN reloader.cfg # {}
    BY <1>4, <2>1, <2>3, ApplySlots DEF ReloadApply, Slots!Next
  <2> QED
    BY <2>2, <2>3
<1>5. CASE Tick
  BY <1>5, TickSlots
<1>6. CASE \/ InitStat \/ Close \/ Done \/ ReloadStat \/ ReloadRead \/ Edit
           \/ UNCHANGED vars
  BY <1>1, <1>6 DEF InitStat, Close, Done, ReloadStat, ReloadRead, Edit, vars
<1> QED
  BY <1>2, <1>3, <1>4, <1>5, <1>6 DEF Next

(* "per-server in-flight caps are honored" (README): for any servers, caps,  *)
(* workers and edits of the file, every step of the pool is a step of        *)
(* ServerSlots under the refinement mapping, or leaves limits and loads.     *)
THEOREM SlotsImplemented == Spec => ImplementsSlots
<1>1. Init /\ LoadsListed => Slots!Init
  BY InitSlots
<1>2. /\ IInv /\ EmptyBeforeInit /\ HInv /\ HInv' /\ LoadsListed /\ LoadsListed'
      /\ [Next]_vars
      => [Slots!Next]_<<SlotLimits, SlotLoads>>
  BY NextSlots
<1>3. Slots!Spec <=> Slots!Init /\ [][Slots!Next]_<<SlotLimits, SlotLoads>>
  BY DEF Slots!Spec, SlotLimits, SlotLoads, SlotLimit
<1> QED
  BY <1>1, <1>2, <1>3, Inductive, EmptyBeforeInitInvariant, HInductive, LoadsAreListed,
     PTL DEF Spec, ImplementsSlots
=============================================================================
