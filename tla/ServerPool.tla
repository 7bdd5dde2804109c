----------------------------- MODULE ServerPool -----------------------------
(***************************************************************************)
(* The multi-server LLM pool of sft/data_generation/utils/server_pool.py:  *)
(* worker threads call chat() under one condition variable, while a daemon *)
(* thread hot-reloads the server list from a file that an operator edits.  *)
(*                                                                         *)
(* A pool entry is a Python object with an identity of its own: a worker   *)
(* keeps a reference to it across the request, made without the lock, and  *)
(* the map may drop or replace the entry meanwhile.  So servers maps a key *)
(* to an object of heap, and held[c] is the object worker c refers to.     *)
(*                                                                         *)
(* Time is kept as what is left of each timer: cooldown is                 *)
(* max(0, cooldown_until - now) and left[c] is max(0, deadline - now).     *)
(***************************************************************************)
EXTENDS Naturals, FiniteSets, Sequences

CONSTANTS
  Keys,             \* host:port:model of the servers; ordered, as strings are
  Entries,          \* identities of _ServerEntry objects
  Callers,          \* worker threads, each running one example at a time
  Caps,             \* values max_in_flight may have
  Schedule,         \* cooldown_schedule
  MaxWait,          \* max_total_wait_s
  AffinityMax,      \* affinity_max
  Configs,          \* what the operator may write in the servers file
  FirstConfigs,     \* the contents the file may have when the program starts
  MaxEdits,         \* bound: edits of the file in one behaviour
  EditsDuringStart, \* TRUE iff the file may change while __init__ runs
  None,             \* no entry, no key
  Malformed         \* a file that _read_config_file rejects

(* A file that parses is the set of its valid entries with their caps:     *)
(* duplicates and invalid entries are skipped before anything is applied.  *)
ConfigType == UNION {[S -> Caps] : S \in SUBSET Keys}

ASSUME ConstantsAssumption ==
  /\ Keys \subseteq Nat
  /\ IsFiniteSet(Callers)
  /\ Caps \subseteq Nat \ {0}
  /\ None \notin Keys \cup Entries
  /\ Schedule \in Seq(Nat \ {0}) /\ Len(Schedule) > 0
  /\ MaxWait \in Nat
  /\ AffinityMax \in Nat
  /\ Configs \subseteq ConfigType \cup {Malformed}
  /\ FirstConfigs \subseteq ConfigType
  /\ Malformed \notin ConfigType
  /\ MaxEdits \in Nat
  /\ EditsDuringStart \in BOOLEAN

VARIABLES
  main,        \* the main thread: in __init__ ("read", "stat"), "up", "closed"
  file,        \* the servers file: its content and its mtime
  lastMtime,   \* _last_mtime
  reloader,    \* the reloader thread: where it is and what it has read
  servers,     \* _servers: key -> object, None when the key is absent
  heap,        \* the _ServerEntry objects
  affinity,    \* _affinity: example of worker c -> key, None when absent
  older,       \* order of the _affinity OrderedDict: pairs <<older, newer>>
  pc,          \* where worker c is
  left,        \* time left before the deadline of c's chat()
  held,        \* the entry c's request in flight was sent to
  late         \* history: requests c's chat() began with its deadline passed

workers == <<affinity, older, pc, left, held, late>>
vars == <<main, file, lastMtime, reloader, servers, heap, affinity, older,
          pc, left, held, late>>
-----------------------------------------------------------------------------
(* Entries.                                                                *)

NewEntry(k, cap) == [key |-> k, cap |-> cap, inFlight |-> 0, cooldown |-> 0,
                     failStreak |-> 0, draining |-> FALSE]

Unused == NewEntry(None, 0)

Referenced(s, hd) == {s[k] : k \in Keys} \cup {hd[c] : c \in Callers}

(* An object that neither the map nor a worker refers to is gone.          *)
Reclaimed(h, s, hd) ==
  [e \in Entries |-> IF e \in Referenced(s, hd) THEN h[e] ELSE Unused]

(* Mutant: an entry is dropped although requests are out on it.            *)
DrainedAtOnce(h, e) == h[e].draining

Drained(h, e) == h[e].draining /\ h[e].inFlight = 0

Swept(s, h) ==
  [k \in Keys |-> IF s[k] # None /\ Drained(h, s[k]) THEN None ELSE s[k]]

(* Mutant: the cap is off by one.                                          *)
EligibleUpToCap(s) ==
  {k \in Keys : /\ s[k] # None
                /\ ~heap[s[k]].draining
                /\ heap[s[k]].cooldown = 0
                /\ heap[s[k]].inFlight <= heap[s[k]].cap}

Eligible(s) ==
  {k \in Keys : /\ s[k] # None
                /\ ~heap[s[k]].draining
                /\ heap[s[k]].cooldown = 0
                /\ heap[s[k]].inFlight < heap[s[k]].cap}

(* The server chosen, if any: the example's own when it is eligible, else  *)
(* the first by (in_flight, key).                                          *)
PickLocked(c, s) ==
  {k \in Eligible(s) :
     IF affinity[c] \in Eligible(s)
       THEN k = affinity[c]
       ELSE \A j \in Eligible(s) :
              \/ heap[s[k]].inFlight < heap[s[j]].inFlight
              \/ heap[s[k]].inFlight = heap[s[j]].inFlight /\ k <= j}

(* _affinity[c] = k; move_to_end(c); popitem(last=False) while too long.   *)
Remember(c, k) ==
  LET known == {d \in Callers : affinity[d] # None} \cup {c}
      order == {p \in older : c \notin {p[1], p[2]}}
                 \cup {<<d, c>> : d \in known \ {c}}
      evicted == IF Cardinality(known) > AffinityMax
                   THEN {d \in known : \A p \in order : p[2] # d}
                   ELSE {}
  IN  /\ affinity' = [d \in Callers |-> IF d \in evicted THEN None
                                        ELSE IF d = c THEN k ELSE affinity[d]]
      /\ older' = {p \in order : p[1] \notin evicted /\ p[2] \notin evicted}
-----------------------------------------------------------------------------
(* __init__: the file is read first, and its mtime is taken afterwards.    *)

ValidFirst(cfg) == cfg # Malformed /\ DOMAIN cfg # {}

AddEntries(s, K, f) == [k \in Keys |-> IF k \in K THEN f[k] ELSE s[k]]

(* The objects f[k] become new entries for the servers k of K.             *)
WithEntries(h, K, f, cfg) ==
  [e \in Entries |-> IF \E k \in K : f[k] = e
                       THEN LET k == CHOOSE j \in K : f[j] = e IN NewEntry(k, cfg[k])
                       ELSE h[e]]

InjectiveMaps(K, E) ==
  {f \in [K -> E] : \A j, k \in K : f[j] = f[k] => j = k}

InitRead ==
  /\ main = "read"
  /\ ValidFirst(file.cfg)
  /\ \E f \in InjectiveMaps(DOMAIN file.cfg, Entries) :
       /\ servers' = AddEntries(servers, DOMAIN file.cfg, f)
       /\ heap' = WithEntries(heap, DOMAIN file.cfg, f, file.cfg)
  /\ main' = "stat"
  /\ UNCHANGED <<file, lastMtime, reloader, workers>>

InitStat ==
  /\ main = "stat"
  /\ lastMtime' = file.mtime
  /\ main' = "up"
  /\ UNCHANGED <<file, reloader, servers, heap, workers>>

(* The executor has joined every worker when the main thread gets here.    *)
Close ==
  /\ main = "up"
  /\ \A c \in Callers : pc[c] = "out"
  /\ main' = "closed"
  /\ UNCHANGED <<file, lastMtime, reloader, servers, heap, workers>>
-----------------------------------------------------------------------------
(* Worker threads: process_one and chat().                                 *)

Goto(c, where) == pc' = [pc EXCEPT ![c] = where]

StartExample(c) ==
  /\ main = "up" /\ pc[c] = "out"
  /\ Goto(c, "idle")
  /\ UNCHANGED <<main, file, lastMtime, reloader, servers, heap,
                 affinity, older, left, held, late>>

StartChat(c) ==
  /\ pc[c] = "idle"
  /\ Goto(c, "loop")
  /\ left' = [left EXCEPT ![c] = MaxWait]
  /\ late' = [late EXCEPT ![c] = 0]
  /\ UNCHANGED <<main, file, lastMtime, reloader, servers, heap,
                 affinity, older, held>>

Return(c) == Goto(c, "idle") /\ left' = [left EXCEPT ![c] = 0]

(* Mutant: chat() tries again for ever.                                    *)
CheckNothing(c) ==
  /\ pc[c] = "loop"
  /\ Goto(c, "pick")
  /\ UNCHANGED <<main, file, lastMtime, reloader, servers, heap,
                 affinity, older, left, held, late>>

(* while time.monotonic() < deadline, without the lock.                    *)
CheckDeadline(c) ==
  /\ pc[c] = "loop"
  /\ IF left[c] > 0 THEN Goto(c, "pick") /\ UNCHANGED left ELSE Return(c)
  /\ UNCHANGED <<main, file, lastMtime, reloader, servers, heap,
                 affinity, older, held, late>>

(* Mutant: the inner loop waits without looking at the deadline.           *)
PickPatiently(c) ==
  LET s == Swept(servers, heap) IN
  /\ pc[c] = "pick"
  /\ servers' = s
  /\ \E k \in PickLocked(c, s) :
       /\ held' = [held EXCEPT ![c] = s[k]]
       /\ heap' = Reclaimed([heap EXCEPT ![s[k]].inFlight = @ + 1], s, held')
       /\ Remember(c, k)
  /\ Goto(c, "call")
  /\ UNCHANGED <<main, file, lastMtime, reloader, left, late>>

(* One turn of the inner loop under the lock: sweep, try to pick, look at  *)
(* the deadline, wait at most a second.  A waiting worker stays at "pick": *)
(* it may take the next turn whenever it is notified or its wait times out.*)
Pick(c) ==
  LET s == Swept(servers, heap) IN
  /\ pc[c] = "pick"
  /\ servers' = s
  /\ \/ /\ \E k \in PickLocked(c, s) :
             /\ held' = [held EXCEPT ![c] = s[k]]
             /\ heap' = Reclaimed([heap EXCEPT ![s[k]].inFlight = @ + 1], s, held')
             /\ Remember(c, k)
        /\ late' = IF left[c] = 0 THEN [late EXCEPT ![c] = @ + 1] ELSE late
        /\ Goto(c, "call") /\ UNCHANGED left
     \/ /\ Eligible(s) = {}
        /\ heap' = Reclaimed(heap, s, held)
        /\ IF left[c] > 0 THEN UNCHANGED <<pc, left>> ELSE Return(c)
        /\ UNCHANGED <<affinity, older, held, late>>
  /\ UNCHANGED <<main, file, lastMtime, reloader>>

(* Mutant: the call does not look whether it was the last of a drained one.*)
SettleOnly(c, settled) ==
  /\ held' = [held EXCEPT ![c] = None]
  /\ heap' = Reclaimed([heap EXCEPT ![held[c]] = [settled EXCEPT !.inFlight = @ - 1]],
                       servers, held')
  /\ UNCHANGED <<main, file, lastMtime, reloader, servers, affinity, older, late>>

(* The lock is taken again after the request: entry is c's own reference.  *)
(* _maybe_drop_drained_locked pops the map by the entry's key.             *)
Settle(c, settled) ==
  LET e == held[c]
      h == [heap EXCEPT ![e] = [settled EXCEPT !.inFlight = @ - 1]]
  IN  /\ servers' = IF Drained(h, e) THEN [servers EXCEPT ![h[e].key] = None]
                                     ELSE servers
      /\ held' = [held EXCEPT ![c] = None]
      /\ heap' = Reclaimed(h, servers', held')
      /\ UNCHANGED <<main, file, lastMtime, reloader, affinity, older, late>>

(* Mutant: a success clears the streak and leaves the cooldown.            *)
SucceedInCooldown(c) ==
  /\ pc[c] = "call"
  /\ Settle(c, [heap[held[c]] EXCEPT !.failStreak = 0])
  /\ Return(c)

Succeed(c) ==
  /\ pc[c] = "call"
  /\ Settle(c, [heap[held[c]] EXCEPT !.cooldown = 0, !.failStreak = 0])
  /\ Return(c)

(* Mutant: the streak grows beyond the schedule.                           *)
MarkUnhealthyUncapped(entry) ==
  LET streak == entry.failStreak + 1
  IN  [entry EXCEPT !.failStreak = streak,
                    !.cooldown = Schedule[IF streak < Len(Schedule) THEN streak
                                                                   ELSE Len(Schedule)]]

MarkUnhealthy(entry) ==
  LET streak == IF entry.failStreak < Len(Schedule) THEN entry.failStreak + 1
                                                    ELSE Len(Schedule)
  IN  [entry EXCEPT !.failStreak = streak, !.cooldown = Schedule[streak]]

FailRetryable(c) ==
  /\ pc[c] = "call"
  /\ Settle(c, MarkUnhealthy(heap[held[c]]))
  /\ Goto(c, "loop") /\ UNCHANGED left

(* Mutant: the early return of a non-retryable error keeps the slot.       *)
FailWithoutRelease(c) ==
  /\ pc[c] = "call"
  /\ held' = [held EXCEPT ![c] = None]
  /\ Return(c)
  /\ UNCHANGED <<main, file, lastMtime, reloader, servers, heap,
                 affinity, older, late>>

FailForGood(c) ==
  /\ pc[c] = "call"
  /\ Settle(c, heap[held[c]])
  /\ Return(c)

(* process_one's finally block: pool.forget(example_id).                   *)
Forget(c) ==
  /\ pc[c] = "idle"
  /\ Goto(c, "out")
  /\ affinity' = [affinity EXCEPT ![c] = None]
  /\ older' = {p \in older : c \notin {p[1], p[2]}}
  /\ UNCHANGED <<main, file, lastMtime, reloader, servers, heap, left, held, late>>
-----------------------------------------------------------------------------
(* The reloader thread.  Only it uses _last_mtime once __init__ is over,   *)
(* so stamping it is part of the step that applies the configuration.      *)

Asleep == [at |-> "sleep", mtime |-> 0, cfg |-> Malformed]

ReloadStat ==
  /\ main = "up" /\ reloader.at = "sleep"
  /\ file.mtime # lastMtime
  /\ reloader' = [at |-> "read", mtime |-> file.mtime, cfg |-> Malformed]
  /\ UNCHANGED <<main, file, lastMtime, servers, heap, workers>>

ReloadRead ==
  /\ reloader.at = "read"
  /\ reloader' = IF file.cfg = Malformed
                   THEN Asleep
                   ELSE [reloader EXCEPT !.at = "apply", !.cfg = file.cfg]
  /\ UNCHANGED <<main, file, lastMtime, servers, heap, workers>>

Listed(e) == heap[e].key # None /\ servers[heap[e].key] = e

(* Mutant: a server that comes back while it drains is left draining.      *)
ReconfiguredNoUndrain(e, cfg) ==
  IF ~Listed(e) THEN heap[e]
  ELSE IF heap[e].key \in DOMAIN cfg
         THEN [heap[e] EXCEPT !.cap = cfg[heap[e].key]]
         ELSE [heap[e] EXCEPT !.draining = TRUE]

Reconfigured(e, cfg) ==
  IF ~Listed(e) THEN heap[e]
  ELSE IF heap[e].key \in DOMAIN cfg
         THEN [heap[e] EXCEPT !.draining = FALSE, !.cap = cfg[heap[e].key]]
         ELSE [heap[e] EXCEPT !.draining = TRUE]

ApplyConfig(cfg) ==
  LET fresh == {k \in DOMAIN cfg : servers[k] = None} IN
  \E f \in InjectiveMaps(fresh, Entries \ Referenced(servers, held)) :
    LET s == AddEntries(servers, fresh, f)
        h == WithEntries([e \in Entries |-> Reconfigured(e, cfg)], fresh, f, cfg)
    IN  /\ servers' = Swept(s, h)
        /\ heap' = Reclaimed(h, servers', held)

ReloadApply ==
  /\ reloader.at = "apply"
  /\ IF DOMAIN reloader.cfg = {} THEN UNCHANGED <<servers, heap>>
                                 ELSE ApplyConfig(reloader.cfg)
  /\ lastMtime' = reloader.mtime
  /\ reloader' = Asleep
  /\ UNCHANGED <<main, file, workers>>
-----------------------------------------------------------------------------
(* The environment: the operator's editor, and time.                       *)

Edit ==
  /\ main = "up" \/ EditsDuringStart
  /\ main # "closed"
  /\ file.mtime < MaxEdits
  /\ \E cfg \in Configs : file' = [cfg |-> cfg, mtime |-> file.mtime + 1]
  /\ UNCHANGED <<main, lastMtime, reloader, servers, heap, workers>>

Sooner(t) == IF t > 0 THEN t - 1 ELSE 0

Tick ==
  /\ \/ \E c \in Callers : left[c] > 0
     \/ \E e \in Entries : heap[e].cooldown > 0
  /\ left' = [c \in Callers |-> Sooner(left[c])]
  /\ heap' = [e \in Entries |-> [heap[e] EXCEPT !.cooldown = Sooner(@)]]
  /\ UNCHANGED <<main, file, lastMtime, reloader, servers,
                 affinity, older, pc, held, late>>

Done == main = "closed" /\ UNCHANGED vars
-----------------------------------------------------------------------------
Init ==
  /\ main = "read"
  /\ file \in [cfg : {c \in FirstConfigs : ValidFirst(c)}, mtime : {0}]
  /\ lastMtime = 0
  /\ reloader = Asleep
  /\ servers = [k \in Keys |-> None]
  /\ heap = [e \in Entries |-> Unused]
  /\ affinity = [c \in Callers |-> None]
  /\ older = {}
  /\ pc = [c \in Callers |-> "out"]
  /\ left = [c \in Callers |-> 0]
  /\ held = [c \in Callers |-> None]
  /\ late = [c \in Callers |-> 0]

Worker(c) ==
  \/ StartExample(c) \/ StartChat(c) \/ CheckDeadline(c) \/ Pick(c)
  \/ Succeed(c) \/ FailRetryable(c) \/ FailForGood(c) \/ Forget(c)

Next ==
  \/ InitRead \/ InitStat \/ Close \/ Done
  \/ \E c \in Callers : Worker(c)
  \/ ReloadStat \/ ReloadRead \/ ReloadApply
  \/ Edit \/ Tick

Spec == Init /\ [][Next]_vars

(* The workers' own steps and the reloader's always get to run, a request  *)
(* ends (the HTTP client has a timeout of its own) and time passes.  When  *)
(* examples and chats begin, or the file is edited, is left to the users.  *)
Fairness ==
  /\ WF_vars(InitRead) /\ WF_vars(InitStat) /\ WF_vars(Tick)
  /\ WF_vars(ReloadStat) /\ WF_vars(ReloadRead) /\ WF_vars(ReloadApply)
  /\ \A c \in Callers : /\ WF_vars(CheckDeadline(c)) /\ WF_vars(Pick(c))
                        /\ WF_vars(Succeed(c) \/ FailRetryable(c) \/ FailForGood(c))

FairSpec == Spec /\ Fairness
-----------------------------------------------------------------------------
(* Properties.                                                             *)

EntryType ==
  [key : Keys \cup {None}, cap : Nat, inFlight : Nat, cooldown : Nat,
   failStreak : 0..Len(Schedule), draining : BOOLEAN]

(* The type invariant of the pool, its configuration file and its workers. *)
TypeOK ==
  /\ main \in {"read", "stat", "up", "closed"}
  /\ file \in [cfg : ConfigType \cup {Malformed}, mtime : Nat]
  /\ lastMtime \in Nat
  /\ reloader \in [at : {"sleep", "read", "apply"}, mtime : Nat,
                   cfg : ConfigType \cup {Malformed}]
  /\ servers \in [Keys -> Entries \cup {None}]
  /\ heap \in [Entries -> EntryType]
  /\ affinity \in [Callers -> Keys \cup {None}]
  /\ older \subseteq Callers \X Callers
  /\ pc \in [Callers -> {"out", "idle", "loop", "pick", "call"}]
  /\ left \in [Callers -> Nat]
  /\ held \in [Callers -> Entries \cup {None}]
  /\ late \in [Callers -> Nat]

CallersOf(e) == {c \in Callers : held[c] = e}

(* in_flight of an entry is exactly the number of requests that are out on *)
(* it, whatever success, failure, draining or reload happened meanwhile:   *)
(* a leaked unit would take a slot of the server away for good.            *)
InFlightExact ==
  \A e \in Entries : heap[e].inFlight = Cardinality(CallersOf(e))

(* An entry with a request out on it is still the one the map has under    *)
(* its key: the request is never charged to an object that a reload has    *)
(* replaced, and _maybe_drop_drained_locked never pops another entry.      *)
HeldIsListed == \A c \in Callers : held[c] # None => Listed(held[c])

(* Requests on the server k itself, through whatever entry they were sent. *)
Load(k) == Cardinality({c \in Callers : held[c] # None /\ heap[held[c]].key = k})

(* README: "per-server in-flight caps are honored".  The pool implements   *)
(* ServerSlots: a server's load only grows while it is listed, not         *)
(* draining and below its current cap, a reload never touches a request in *)
(* flight, and none leaves the pool without a server to use.               *)
Slots == INSTANCE ServerSlots WITH
  Servers <- Keys,
  Limits <- Caps \cup {0},
  limit <- [k \in Keys |-> IF servers[k] = None \/ heap[servers[k]].draining
                             THEN 0 ELSE heap[servers[k]].cap],
  load <- [k \in Keys |-> Load(k)]

ImplementsSlots == Slots!Spec

(* A removed server leaves the pool in the very step that ends its last    *)
(* request: outside the lock no entry is both draining and idle, so the    *)
(* pool's capacity and the operator's view never hold a dead server.       *)
NoIdleDraining ==
  \A k \in Keys : servers[k] # None => ~Drained(heap, servers[k])

(* A cooldown is always accounted for by a failure streak and never longer *)
(* than the schedule gives that streak, through late successes of calls    *)
(* sent before the failure, retries, draining and un-draining.             *)
CooldownWithinSchedule ==
  \A e \in Entries : heap[e].cooldown > 0 =>
    /\ heap[e].failStreak > 0
    /\ heap[e].cooldown <= Schedule[heap[e].failStreak]

(* A chat() sends at most one request once its deadline has passed: the    *)
(* inner loop may still take a server after the deadline, because it picks *)
(* before it looks at the time, but the outer loop then ends it.           *)
OneLateRequest == \A c \in Callers : late[c] <= 1

(* Every chat() returns, with an answer or with the error response, even   *)
(* when every server keeps failing or none has a free slot.                *)
ChatReturns ==
  \A c \in Callers : pc[c] \in {"loop", "pick", "call"} ~> pc[c] = "idle"

Reflects(cfg) ==
  \A k \in Keys :
    IF k \in DOMAIN cfg
      THEN /\ servers[k] # None
           /\ heap[servers[k]].cap = cfg[k] /\ ~heap[servers[k]].draining
      ELSE servers[k] = None \/ heap[servers[k]].draining

(* "A daemon thread re-reads the file periodically (mtime-checked) and     *)
(* applies a diff": once the file has been edited for the last time, and   *)
(* lists some valid server, the pool comes to have those servers and caps. *)
LastEditApplied ==
  file.mtime = MaxEdits /\ ValidFirst(file.cfg)
    ~> main = "closed" \/ Reflects(file.cfg)
=============================================================================
