---- MODULE RegistryFollower ----
(***************************************************************************)
(* How a Controller keeps its cache in step with a registry: one           *)
(* subscriber for each kind of resource (src/nmos/controller/              *)
(* rds_websocket.py), the reload after a failover (rds_query.py), the      *)
(* cache they share (cache.py) and the selector that says which registry   *)
(* is in use (src/nmos/rds_targets.py).                                    *)
(*                                                                         *)
(* The tasks share one event loop: a step ends where the code awaits the   *)
(* network or sleeps.  The cache's lock is never held across an await, so  *)
(* clearing every kind, or applying one frame, is one step.  An update of  *)
(* a resource is applied as its addition is, so resources have no bodies   *)
(* here.  Client identities and shutdown are left out.                     *)
(***************************************************************************)
EXTENDS Naturals, Sequences, FiniteSets

CONSTANTS
    NTargets,      \* registries configured, in order
    NKinds,        \* kinds of resource, in the order of _KINDS
    Resources,     \* resource ids of a kind
    Distributed,   \* --rdsDistributed: the registries share their contents
    FailoverAfter, \* FAILOVER_AFTER
    Faulty,        \* the registries that may fail
    Full,          \* no kind starts out empty at any registry
    MaxFaults,     \* bound on outages and on failures of a registry that is up
    MaxChanges,    \* bound on the changes of registry contents
    MaxMoves       \* bound on the moves of the selection

Targets == 0 .. NTargets - 1
Kinds   == 1 .. NKinds

\* Assumed of the constants by the modules that instantiate this one.
FollowerConstants ==
    /\ NTargets \in Nat \ {0}
    /\ NKinds \in Nat \ {0}
    /\ Distributed \in BOOLEAN
    /\ FailoverAfter \in Nat \ {0}
    /\ Faulty \subseteq Targets
    /\ Full \in BOOLEAN
    /\ MaxFaults \in Nat
    /\ MaxChanges \in Nat
    /\ MaxMoves \in Nat

VARIABLES
    contents,  \* contents[o][k]: what registry o, or the cluster, holds
    up,        \* the registries that answer
    faults,    \* faults so far
    changes,   \* changes of contents so far
    selected,  \* the selector's _index
    moves,     \* the selector's _failures: the generation
    resynced,  \* _resynced_generation
    cache,     \* what the Controller shows of each kind
    pc,        \* where the subscriber of a kind is
    target,    \* the registry it read from the selector
    epoch,     \* the generation it read with it
    failures,  \* its count of failed attempts
    strikes,   \* those of them against its present target (history)
    frames,    \* grains its socket carries
    open,      \* its socket has not been closed from this end
    dropping,  \* the sockets it has still to close
    reload,    \* how far its reload is
    outdated   \* the kinds last replaced by an answer out of date (history)

registries == <<contents, up, faults, changes>>
selector   == <<selected, moves>>
switching  == <<resynced, dropping, reload, outdated>>
attempt    == <<target, epoch>>
socket     == <<frames, open>>
counts     == <<failures, strikes>>
vars == <<registries, selector, switching, cache, pc, attempt, socket, counts>>

(* Independent registries hold different resources, members of a cluster   *)
(* the same ones: an item says whose it is.                                *)
Origin(t) == IF Distributed THEN 0 ELSE t
Items == (Targets \X Resources)
Of(t, k) == {<<Origin(t), x>> : x \in contents[Origin(t)][k]}

NoReload == [kind |-> 0, from |-> 0, fetched |-> FALSE, list |-> {}]
Reload == [kind: 0 .. NKinds, from: Targets, fetched: BOOLEAN, list: SUBSET Items]
Frame == [post: SUBSET Items, pre: SUBSET Items]

TypeOK ==
    /\ contents \in [Targets -> [Kinds -> SUBSET Resources]]
    /\ up \subseteq Targets
    /\ faults \in 0 .. MaxFaults
    /\ changes \in 0 .. MaxChanges
    /\ selected \in Targets
    /\ moves \in 0 .. MaxMoves
    /\ resynced \in 0 .. MaxMoves
    /\ cache \in [Kinds -> SUBSET Items]
    /\ pc \in [Kinds -> {"read", "connect", "consume", "drop", "reload", "sleep"}]
    /\ target \in [Kinds -> Targets]
    /\ epoch \in [Kinds -> 0 .. MaxMoves]
    /\ failures \in [Kinds -> 0 .. FailoverAfter - 1]
    /\ strikes \in [Kinds -> 0 .. FailoverAfter - 1]
    /\ \A k \in Kinds : frames[k] \in Seq(Frame)
    /\ open \subseteq Kinds
    /\ dropping \in [Kinds -> SUBSET Kinds]
    /\ reload \in [Kinds -> Reload]
    /\ outdated \subseteq Kinds

(* The bootstrap runs before the subscribers; a kind it cannot fetch is    *)
(* left empty.  resynced starts below every generation that a move makes.  *)
Init ==
    /\ contents \in [Targets -> [Kinds -> SUBSET Resources]]
    /\ Full => \A o \in Targets, k \in Kinds : contents[o][k] # {}
    /\ Distributed => \A o \in Targets \ {0}, k \in Kinds : contents[o][k] = {}
    /\ up = Targets
    /\ faults = 0
    /\ changes = 0
    /\ selected = 0
    /\ moves = 0
    /\ resynced = 0
    /\ \E got \in SUBSET Kinds :
         cache = [k \in Kinds |-> IF k \in got THEN Of(0, k) ELSE {}]
    /\ pc = [k \in Kinds |-> "read"]
    /\ target = [k \in Kinds |-> 0]
    /\ epoch = [k \in Kinds |-> 0]
    /\ failures = [k \in Kinds |-> 0]
    /\ strikes = [k \in Kinds |-> 0]
    /\ frames = [k \in Kinds |-> <<>>]
    /\ open = {}
    /\ dropping = [k \in Kinds |-> {}]
    /\ reload = [k \in Kinds |-> NoReload]
    /\ outdated = {}

-----------------------------------------------------------------------------
(* The registries.  A change is put on every socket subscribed to it.      *)

Attached(o, k) == pc[k] = "consume" /\ Origin(target[k]) = o /\ k \in open

Carry(o, k, frame) ==
    frames' = IF Attached(o, k) THEN [frames EXCEPT ![k] = Append(@, frame)]
                                ELSE frames

Change(o, k, x) ==
    /\ o = Origin(o)
    /\ changes < MaxChanges
    /\ changes' = changes + 1
    /\ \/ /\ x \notin contents[o][k]
          /\ contents' = [contents EXCEPT ![o][k] = @ \cup {x}]
          /\ Carry(o, k, [post |-> {<<o, x>>}, pre |-> {}])
       \/ /\ x \in contents[o][k]
          /\ contents' = [contents EXCEPT ![o][k] = @ \ {x}]
          /\ Carry(o, k, [post |-> {}, pre |-> {<<o, x>>}])
    /\ UNCHANGED <<up, faults, selector, switching, cache, pc, attempt, open, counts>>

GoDown(t) ==
    /\ t \in up \cap Faulty
    /\ faults < MaxFaults
    /\ faults' = faults + 1
    /\ up' = up \ {t}
    /\ UNCHANGED <<contents, changes, selector, switching, cache, pc, attempt,
                   socket, counts>>

ComeBack(t) ==
    /\ t \notin up
    /\ up' = up \cup {t}
    /\ UNCHANGED <<contents, changes, faults, selector, switching, cache, pc,
                   attempt, socket, counts>>

-----------------------------------------------------------------------------
(* One subscriber: read the selection, subscribe, connect, consume.        *)

ReadSelection(k) ==
    /\ pc[k] = "read"
    /\ target' = [target EXCEPT ![k] = selected]
    /\ epoch' = [epoch EXCEPT ![k] = moves]
    /\ strikes' = [strikes EXCEPT ![k] = IF target[k] = selected THEN @ ELSE 0]
    /\ pc' = [pc EXCEPT ![k] = "connect"]
    /\ UNCHANGED <<registries, selector, switching, cache, socket, failures>>

(* The registry queues what it holds of the kind, and nothing if it holds  *)
(* nothing (connect in registry/subscriptions.py).                         *)
Connect(k) ==
    /\ pc[k] = "connect"
    /\ target[k] \in up
    /\ failures' = [failures EXCEPT ![k] = 0]
    /\ strikes' = [strikes EXCEPT ![k] = 0]
    /\ open' = open \cup {k}
    /\ frames' = [frames EXCEPT ![k] =
           IF Of(target[k], k) = {} THEN <<>>
           ELSE <<[post |-> Of(target[k], k), pre |-> {}]>>]
    /\ pc' = [pc EXCEPT ![k] = "consume"]
    /\ UNCHANGED <<registries, selector, switching, cache, attempt>>

\* Mutant: a report of a registry already replaced moves the selection again.
MFail(t) ==
    IF NTargets = 1 THEN UNCHANGED selector
    ELSE /\ moves < MaxMoves
         /\ selected' = (selected + 1) % NTargets
         /\ moves' = moves + 1

(* RegistrySelector.fail: a no-op unless the target is the current one.    *)
Fail(t) ==
    IF t # selected \/ NTargets = 1
    THEN UNCHANGED selector
    ELSE /\ moves < MaxMoves
         /\ selected' = (selected + 1) % NTargets
         /\ moves' = moves + 1

\* Mutant: members of a cluster are treated as independent registries.
MOnSelectionMoved(k) ==
    IF moves' <= resynced
    THEN /\ pc' = [pc EXCEPT ![k] = "read"]
         /\ UNCHANGED <<cache, switching>>
    ELSE /\ resynced' = moves'
         /\ cache' = [j \in Kinds |-> {}]
         /\ dropping' = [dropping EXCEPT ![k] = {j \in open : pc[j] = "consume"}]
         /\ pc' = [pc EXCEPT ![k] = "drop"]
         /\ outdated' = {}
         /\ UNCHANGED reload

(* _on_selection_moved, to its first await: members of a cluster have      *)
(* nothing to invalidate, a generation is resynced once, and the cache is  *)
(* emptied before any socket is closed.                                    *)
OnSelectionMoved(k) ==
    IF Distributed \/ moves' <= resynced
    THEN /\ pc' = [pc EXCEPT ![k] = "read"]
         /\ UNCHANGED <<cache, switching>>
    ELSE /\ resynced' = moves'
         /\ cache' = [j \in Kinds |-> {}]
         /\ dropping' = [dropping EXCEPT ![k] = {j \in open : pc[j] = "consume"}]
         /\ pc' = [pc EXCEPT ![k] = "drop"]
         /\ outdated' = {}
         /\ UNCHANGED reload

\* Mutant: the count goes on past a report.
MAttemptFails(k) ==
    /\ pc[k] = "connect"
    /\ target[k] \notin up /\ UNCHANGED faults
    /\ failures' = [failures EXCEPT ![k] = @ + 1]
    /\ strikes' = [strikes EXCEPT ![k] = 0]
    /\ pc' = [pc EXCEPT ![k] = "sleep"]
    /\ UNCHANGED <<contents, up, changes, selector, switching, cache, attempt, socket>>

AttemptFails(k) ==
    /\ pc[k] = "connect"
    /\ \/ target[k] \notin up /\ UNCHANGED faults
       \/ /\ target[k] \in up \cap Faulty
          /\ faults < MaxFaults
          /\ faults' = faults + 1
    /\ LET reports == failures[k] + 1 >= FailoverAfter
       IN /\ failures' = [failures EXCEPT ![k] = IF reports THEN 0 ELSE @ + 1]
          /\ strikes' = [strikes EXCEPT ![k] = IF reports THEN 0 ELSE @ + 1]
          /\ IF reports THEN Fail(target[k]) ELSE UNCHANGED selector
          /\ IF reports /\ selected' # target[k]
             THEN OnSelectionMoved(k)
             ELSE /\ pc' = [pc EXCEPT ![k] = "sleep"]
                  /\ UNCHANGED <<cache, switching>>
    /\ UNCHANGED <<contents, up, changes, attempt, socket>>

Wake(k) ==
    /\ pc[k] = "sleep"
    /\ pc' = [pc EXCEPT ![k] = "read"]
    /\ UNCHANGED <<registries, selector, switching, cache, attempt, socket, counts>>

(* A connection that ends after the generation moved was abandoned, not    *)
(* broken: the subscriber reconnects without waiting.                      *)
Disconnected(k) ==
    /\ pc' = [pc EXCEPT ![k] = IF moves # epoch[k] THEN "read" ELSE "sleep"]
    /\ open' = open \ {k}
    /\ frames' = [frames EXCEPT ![k] = <<>>]
    /\ dropping' = [j \in Kinds |-> dropping[j] \ {k}]

\* Mutant: closing the sockets is trusted to stop the old registry's grains.
MSuperseded(k) == FALSE

(* A grain of a registry that was abandoned is not applied.                *)
Superseded(k) == ~Distributed /\ moves # epoch[k]

Consume(k) ==
    /\ pc[k] = "consume"
    /\ k \in open
    /\ frames[k] # <<>>
    /\ IF Superseded(k)
       THEN Disconnected(k) /\ UNCHANGED cache
       ELSE /\ cache' = [cache EXCEPT ![k] =
                            (@ \cup Head(frames[k]).post) \ Head(frames[k]).pre]
            /\ frames' = [frames EXCEPT ![k] = Tail(@)]
            /\ UNCHANGED <<pc, open, dropping>>
    /\ UNCHANGED <<registries, selector, resynced, reload, outdated, attempt, counts>>

(* The socket was closed from this end, its registry went down, or the     *)
(* connection broke.                                                       *)
SocketEnds(k) ==
    /\ pc[k] = "consume"
    /\ \/ k \notin open /\ UNCHANGED faults
       \/ target[k] \notin up /\ UNCHANGED faults
       \/ /\ target[k] \in Faulty
          /\ faults < MaxFaults
          /\ faults' = faults + 1
    /\ Disconnected(k)
    /\ UNCHANGED <<contents, up, changes, selector, resynced, reload, outdated,
                   cache, attempt, counts>>

-----------------------------------------------------------------------------
(* The subscriber that noticed: close the sockets, then reload each kind.  *)

DropSocket(k) ==
    /\ pc[k] = "drop"
    /\ \E j \in dropping[k] :
         /\ open' = open \ {j}
         /\ frames' = [frames EXCEPT ![j] = <<>>]
         /\ dropping' = [dropping EXCEPT ![k] = @ \ {j}]
    /\ UNCHANGED <<registries, selector, resynced, reload, outdated, cache, pc,
                   attempt, counts>>

\* Mutant: the cache is emptied after the sockets are closed.
MBeginReload(k) ==
    /\ pc[k] = "drop"
    /\ dropping[k] = {}
    /\ cache' = [j \in Kinds |-> {}]
    /\ reload' = [reload EXCEPT ![k] = [NoReload EXCEPT !.kind = 1, !.from = selected]]
    /\ pc' = [pc EXCEPT ![k] = "reload"]
    /\ UNCHANGED <<registries, selector, resynced, dropping, outdated, attempt,
                   socket, counts>>

BeginReload(k) ==
    /\ pc[k] = "drop"
    /\ dropping[k] = {}
    /\ reload' = [reload EXCEPT ![k] = [NoReload EXCEPT !.kind = 1, !.from = selected]]
    /\ pc' = [pc EXCEPT ![k] = "reload"]
    /\ UNCHANGED <<registries, selector, resynced, dropping, outdated, cache,
                   attempt, socket, counts>>

(* The registry answers the query ...                                      *)
Fetch(k) ==
    /\ pc[k] = "reload"
    /\ ~reload[k].fetched
    /\ reload[k].from \in up
    /\ reload' = [reload EXCEPT ![k].fetched = TRUE,
                                ![k].list = Of(reload[k].from, reload[k].kind)]
    /\ UNCHANGED <<registries, selector, resynced, dropping, outdated, cache, pc,
                   attempt, socket, counts>>

(* The next kind, or back to the subscription once all have been tried.    *)
Advance(k) ==
    IF reload[k].kind = NKinds
    THEN /\ reload' = [reload EXCEPT ![k] = NoReload]
         /\ pc' = [pc EXCEPT ![k] = "read"]
    ELSE /\ reload' = [reload EXCEPT ![k] =
                [NoReload EXCEPT !.kind = reload[k].kind + 1, !.from = reload[k].from]]
         /\ UNCHANGED pc

(* ... and the answer replaces the kind, whatever was applied meanwhile    *)
(* and whichever registry is selected by then.                             *)
ReplaceAll(k) ==
    /\ pc[k] = "reload"
    /\ reload[k].fetched
    /\ cache' = [cache EXCEPT ![reload[k].kind] = reload[k].list]
    /\ outdated' = IF reload[k].list = Of(selected, reload[k].kind)
                   THEN outdated \ {reload[k].kind}
                   ELSE outdated \cup {reload[k].kind}
    /\ Advance(k)
    /\ UNCHANGED <<registries, selector, resynced, dropping, attempt, socket, counts>>

(* A kind that cannot be fetched is skipped.                               *)
FetchFails(k) ==
    /\ pc[k] = "reload"
    /\ \/ reload[k].from \notin up /\ UNCHANGED faults
       \/ /\ faults < MaxFaults
          /\ faults' = faults + 1
    /\ Advance(k)
    /\ UNCHANGED <<contents, up, changes, selector, resynced, dropping, outdated,
                   cache, attempt, socket, counts>>

-----------------------------------------------------------------------------
Subscriber(k) ==
    \/ ReadSelection(k) \/ Connect(k) \/ AttemptFails(k) \/ Wake(k)
    \/ Consume(k) \/ SocketEnds(k)
    \/ DropSocket(k) \/ BeginReload(k) \/ Fetch(k) \/ ReplaceAll(k) \/ FetchFails(k)

Next ==
    \/ \E o \in Targets, k \in Kinds, x \in Resources : Change(o, k, x)
    \/ \E t \in Targets : GoDown(t) \/ ComeBack(t)
    \/ \E k \in Kinds : Subscriber(k)

Spec == Init /\ [][Next]_vars

(* A task that can go on does: sleeps and requests end.  Nothing is        *)
(* assumed of a registry that is down.                                     *)
FairSpec == Spec /\ \A k \in Kinds : WF_vars(Subscriber(k))

-----------------------------------------------------------------------------
(* The cache never shows resources of a registry that is not the selected  *)
(* one: clearing every kind, closing the sockets and testing the epoch of  *)
(* each frame leave no way for the abandoned registry to come back         *)
(* (_on_selection_moved, _consume_grains).  The reload has no such test: a *)
(* kind whose answer came after the next move is left out.                 *)
NoMerging ==
    \A k \in Kinds \ outdated : \A item \in cache[k] : item[1] = Origin(selected)

(* However many subscribers notice the failure of the first registry, and  *)
(* in whatever order, the selection moves once (RegistrySelector.fail).    *)
(* It is a property of instances in which no other registry is Faulty.     *)
OneOutageMovesOnce == moves <= 1

Settled(k) ==
    /\ pc[k] = "consume" /\ k \in open /\ frames[k] = <<>>
    /\ target[k] = selected /\ selected \in up
    /\ \A j \in Kinds : pc[j] # "drop"

(* A subscriber that is connected to the selected registry and has         *)
(* consumed every grain shows everything the registry holds of its kind,   *)
(* though a reload is under way, unless the reload's answer was out of     *)
(* date when it replaced the kind: it then takes away what grains had      *)
(* added meanwhile (_run_one, _handle_text, replace_all).                  *)
NothingMissing ==
    \A k \in Kinds \ outdated : Settled(k) => Of(selected, k) \subseteq cache[k]

(* ... and nothing else: the cache is what the registry holds.             *)
(* Violated after a reconnection, which removes nothing that the registry  *)
(* has dropped meanwhile.                                                  *)
InStep ==
    \A k \in Kinds : Settled(k) => cache[k] = Of(selected, k)

(* Once faults and changes are over, the cache holds everything that the   *)
(* selected registry holds, even when the reload after the move failed:    *)
(* the subscribers' reconnections refill it (_on_selection_moved, step 3). *)
Refilled ==
    <>[](\A k \in Kinds : Of(selected, k) \subseteq cache[k])

(* Once a move is over every subscriber is at the registry it moved to     *)
(* (_drop_stale_sockets: all six re-target together).                      *)
(* Violated by a subscriber that was connecting when the sockets were      *)
(* dropped.                                                                *)
Retargeted == <>[](\A k \in Kinds : target[k] = selected)

(* The selection moves only when a subscriber has counted FAILOVER_AFTER   *)
(* failed attempts in a row against the registry it reports (_run_one).    *)
(* Violated where another subscriber moves the selection: the count of     *)
(* failures stays.                                                         *)
ReportsItsOwn ==
    [][moves' # moves =>
         \E k \in Kinds : pc[k] = "connect" /\ pc'[k] # "connect"
                          /\ strikes[k] + 1 >= FailoverAfter]_vars
====
