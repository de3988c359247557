---- MODULE EtcdBackend ----
(***************************************************************************)
(* The registry over etcd (src/nmos/registry/etcd_backend.py, fence.py):   *)
(* etcd holds the resources, and every member keeps a store that only the  *)
(* watch writes.  A member's mutations are concurrent tasks, cut where     *)
(* they await etcd or the revision fence.                                  *)
(*                                                                         *)
(* One Node's subtree is modelled: the Node, a Device and its leaves, each *)
(* with its id claim.  etcd itself is external: the sequence of its states *)
(* (revision i is log[i]) and its leases.  A resource's body is its        *)
(* version.                                                                *)
(***************************************************************************)
EXTENDS Naturals, Sequences

CONSTANTS
    Members,     \* registries of the cluster
    Node, Device,
    Leaves,      \* Sources, Flows, Senders or Receivers of the Device
    Requests,    \* <<kind, resource>> pairs that Nodes send
    Slots,       \* mutations in flight, in the whole cluster
    FastPath,    \* NMOS_ETCD_FAST_PATH
    MaxVersion,  \* bound on versions
    MaxRequests, \* bound on requests
    MaxLeases,   \* bound on leases granted
    MaxExpiries, \* bound on leases that expire
    MaxFaults,   \* bound on calls of etcd that fail, and on watches that break
    MayCompact   \* etcd compacts its history

Resources == {Node, Device} \cup Leaves
Keys      == {"key", "claim"} \X Resources
Key(r)    == <<"key", r>>
Claim(r)  == <<"claim", r>>
Parent(r) == IF r = Device THEN Node ELSE Device
Subtree(r) == IF r = Node THEN Resources
              ELSE IF r = Device THEN Resources \ {Node} ELSE {r}

ASSUME EtcdConstants ==
    /\ Members # {}
    /\ Node # Device /\ {Node, Device} \cap Leaves = {}
    /\ Requests \subseteq {"register", "unregister", "heartbeat"} \X Resources
    /\ \A q \in Requests : q[1] = "heartbeat" => q[2] = Node
    /\ {FastPath, MayCompact} \subseteq BOOLEAN
    /\ {MaxVersion, MaxRequests, MaxLeases, MaxExpiries, MaxFaults} \subseteq Nat

VARIABLES
    log,      \* etcd's state at each revision
    alive,    \* the leases that have not expired
    granted,  \* leases granted so far
    view,     \* the revision each member's store has reached
    store,    \* the versions in its store, 0 if absent
    fence,    \* the revision its fence has been advanced to
    believed, \* _revisions: what it believes of each key
    table,    \* _leases[Node], 0 if none
    ready,    \* its state is READY; otherwise DEGRADED
    watching, \* its watch: up, down, or ended with its task
    op,       \* the mutation in each slot
    requests, expiries, faults

etcd == <<log, alive, granted>>
replica == <<view, store, fence>>
belief == <<believed, table>>
health == <<ready, watching>>
bounds == <<requests, expiries, faults>>
vars == <<etcd, replica, belief, health, op, bounds>>

Lease == 0 .. granted
Absent == [mod |-> 0, ver |-> 0, lease |-> 0]
Idle == [kind |-> "idle", at |-> CHOOSE m \in Members : TRUE, res |-> Node,
         ver |-> 0, pc |-> "idle", lease |-> 0, path |-> "none", from |-> 1,
         rev |-> 0, key |-> 0, claim |-> 0, answer |-> "none"]

Revision == Len(log)
Now == log[Revision]
Held(i, r) == log[i][Key(r)].mod # 0

TypeOK ==
    /\ \A i \in 1 .. Revision : \A k \in Keys :
         /\ log[i][k].mod \in 0 .. i
         /\ log[i][k].ver \in 0 .. MaxVersion
         /\ log[i][k].lease \in Lease
    /\ alive \subseteq 1 .. granted
    /\ granted \in Nat
    /\ view \in [Members -> 1 .. Revision]
    /\ store \in [Members -> [Resources -> 0 .. MaxVersion]]
    /\ fence \in [Members -> 1 .. Revision]
    /\ \A m \in Members : fence[m] <= view[m]
    /\ \A m \in Members, k \in Keys : believed[m][k] \in 0 .. Revision
    /\ table \in [Members -> Lease]
    /\ ready \in [Members -> BOOLEAN]
    /\ watching \in [Members -> {"up", "down", "ended"}]
    /\ \A s \in DOMAIN op : DOMAIN op[s] = DOMAIN Idle /\ op[s].rev \in 0 .. Revision

Init ==
    /\ log = <<[k \in Keys |-> Absent]>>
    /\ alive = {}
    /\ granted = 0
    /\ view = [m \in Members |-> 1]
    /\ store = [m \in Members |-> [r \in Resources |-> 0]]
    /\ fence = [m \in Members |-> 1]
    /\ believed = [m \in Members |-> [k \in Keys |-> 0]]
    /\ table = [m \in Members |-> 0]
    /\ ready = [m \in Members |-> TRUE]
    /\ watching = [m \in Members |-> "up"]
    /\ op = [s \in Slots |-> Idle]
    /\ requests = 0 /\ expiries = 0 /\ faults = 0

-----------------------------------------------------------------------------
(* etcd: one transaction is one revision, if it changes anything.          *)

Write(kv) == log' = IF kv = Now THEN log ELSE Append(log, kv)

Put(o) ==
    LET value == [mod |-> Revision + 1, ver |-> o.ver, lease |-> o.lease]
    IN [k \in Keys |-> IF k \in {Key(o.res), Claim(o.res)} THEN value ELSE Now[k]]

Erase(keys) == [k \in Keys |-> IF k \in keys THEN Absent ELSE Now[k]]

LeaseExpires(l) ==
    /\ l \in alive
    /\ expiries < MaxExpiries
    /\ expiries' = expiries + 1
    /\ alive' = alive \ {l}
    /\ Write(Erase({k \in Keys : Now[k].lease = l}))
    /\ UNCHANGED <<granted, replica, belief, health, op, requests, faults>>

-----------------------------------------------------------------------------
(* The watch of member m.  prepare is what the store accepts.              *)

PrepareIn(st, r, v) == (r = Node \/ st[Parent(r)] # 0) /\ v >= st[r]
Prepare(m, r, v) == PrepareIn(store[m], r, v)

(* What a level of the tree is after an addition of each resource in added  *)
(* that prepare accepts.                                                   *)
Grow(st, level, added, new) ==
    [r \in Resources |->
        IF r \in level \cap added /\ PrepareIn(st, r, new[Key(r)].ver)
        THEN new[Key(r)].ver ELSE st[r]]

(* Additions parents first, each if prepare accepts it; then removals.     *)
ApplyTo(st, old, new) ==
    LET changed == {r \in Resources : new[Key(r)] # old[Key(r)]}
        added == {r \in changed : new[Key(r)].mod # 0}
        node == Grow(st, {Node}, added, new)
        device == Grow(node, {Device}, added, new)
        grown == Grow(device, Leaves, added, new)
    IN [r \in Resources |-> IF r \in changed \ added THEN 0 ELSE grown[r]]

ApplyBatch(m) ==
    /\ watching[m] = "up"
    /\ view[m] < Revision
    /\ LET old == log[view[m]]
           new == log[view[m] + 1]
       IN /\ store' = [store EXCEPT ![m] = ApplyTo(@, old, new)]
          /\ believed' = [believed EXCEPT ![m] =
                [k \in Keys |-> IF new[k] # old[k] THEN new[k].mod ELSE @[k]]]
          /\ table' = [table EXCEPT ![m] =
                IF new[Key(Node)] = old[Key(Node)] THEN @ ELSE new[Key(Node)].lease]
    /\ view' = [view EXCEPT ![m] = @ + 1]
    /\ UNCHANGED <<etcd, fence, health, op, bounds>>

(* The task that the application of a revision leaves behind: until it has *)
(* run, the store is ahead of the fence that mutations wait for.           *)
Advance(m) ==
    /\ fence[m] < view[m]
    /\ fence' = [fence EXCEPT ![m] = view[m]]
    /\ UNCHANGED <<etcd, view, store, belief, health, op, bounds>>

(* With an error the member degrades; a stream may also just end.  It does *)
(* so once the fence has been advanced: in the code it may a moment before,*)
(* and the revision that was applied last is then delivered again, which   *)
(* leaves the store as it is.                                              *)
WatchBreaks(m) ==
    /\ watching[m] = "up"
    /\ fence[m] = view[m]
    /\ faults < MaxFaults
    /\ faults' = faults + 1
    /\ watching' = [watching EXCEPT ![m] = "down"]
    /\ ready' \in {ready, [ready EXCEPT ![m] = FALSE]}
    /\ UNCHANGED <<etcd, replica, belief, op, requests, expiries>>

(* The recovery fence waits for the revision that is applied already.      *)
Reconnect(m) ==
    /\ watching[m] = "down"
    /\ watching' = [watching EXCEPT ![m] = "up"]
    /\ ready' = [ready EXCEPT ![m] = TRUE]
    /\ UNCHANGED <<etcd, replica, belief, op, bounds>>

(* The history the watch needs was compacted.                              *)
Compacted(m) == MayCompact /\ watching[m] = "down" /\ view[m] < Revision

Orphans == {r \in Resources \ {Node} : Held(Revision, r) /\ ~Held(Revision, Parent(r))}

(* The keys that a snapshot finds.  What was believed of keys that are     *)
(* gone, and their leases, stays.                                          *)
Snapshot == {k \in Keys : Now[k].mod # 0}

Learn(m, read) ==
    /\ believed' = [believed EXCEPT ![m] =
          [k \in Keys |-> IF k \in read THEN Now[k].mod ELSE @[k]]]
    /\ table' = [table EXCEPT ![m] =
          IF Key(Node) \in read THEN Now[Key(Node)].lease ELSE @]

(* The store is replaced.                                                  *)
Resnapshot(m) ==
    /\ Compacted(m)
    /\ Orphans = {}
    /\ view' = [view EXCEPT ![m] = Revision]
    /\ fence' = [fence EXCEPT ![m] = Revision]
    /\ store' = [store EXCEPT ![m] = [r \in Resources |-> Now[Key(r)].ver]]
    /\ Learn(m, Snapshot)
    /\ watching' = [watching EXCEPT ![m] = "up"]
    /\ ready' = [ready EXCEPT ![m] = TRUE]
    /\ UNCHANGED <<etcd, op, bounds>>

(* A snapshot with an orphan, or the read of a page that fails, raises in  *)
(* the handler of the compaction, which ends the watch's task.  The pages  *)
(* come in the order of the keys: claims, then resources.                  *)
ResnapshotFails(m) ==
    /\ Compacted(m)
    /\ \E kinds \in {{}, {"claim"}, {"claim", "key"}} :
          Learn(m, {k \in Snapshot : k[1] \in kinds})
    /\ watching' = [watching EXCEPT ![m] = "ended"]
    /\ ready' = [ready EXCEPT ![m] = FALSE]
    /\ UNCHANGED <<etcd, replica, op, bounds>>

-----------------------------------------------------------------------------
(* A mutation o at member m, between awaits.  Each of these gives the      *)
(* mutation as it is at its next await.                                    *)

Answered(o, a) == [o EXCEPT !.pc = "answered", !.answer = a]

(* The comparisons of a write: what is believed of its key and its claim.  *)
Submit(o, path, b) ==
    [o EXCEPT !.pc = "txn", !.path = path, !.key = b[Key(o.res)], !.claim = b[Claim(o.res)]]

\* Mutant: a rejection by the store as it is, is reported.
TryFastPathRejecting(m, o) ==
    IF ~Prepare(m, o.res, o.ver) THEN Answered(o, "rejected")
    ELSE IF FastPath THEN Submit(o, "fast", believed[m])
    ELSE [o EXCEPT !.pc = "read"]

TryFastPath(m, o) ==
    IF FastPath /\ Prepare(m, o.res, o.ver) THEN Submit(o, "fast", believed[m])
                                            ELSE [o EXCEPT !.pc = "read"]

Unplaced(m, r) == r \in Leaves /\ store[m][Device] = 0

Placed(m, o) ==
    IF Unplaced(m, o.res) THEN Answered(o, "rejected")
    ELSE IF o.res = Node /\ table[m] = 0 THEN [o EXCEPT !.pc = "grant"]
    ELSE TryFastPath(m, [o EXCEPT !.lease = table[m]])

\* Mutant: a resource is written under the lease its placement found.
ValidatedAsPlaced(m, o, b) ==
    IF ~Prepare(m, o.res, o.ver) THEN Answered(o, "rejected")
    ELSE Submit(o, "fenced", b)

(* Validation behind the fence; b is what is believed by then.             *)
Validated(m, o, b) ==
    IF ~Prepare(m, o.res, o.ver) THEN Answered(o, "rejected")
    ELSE IF o.res = Node THEN Submit(o, "fenced", b)
    ELSE IF table[m] = 0 THEN Answered(o, "unavailable")
    ELSE Submit([o EXCEPT !.lease = table[m]], "fenced", b)

CaughtUp(m, o) ==
    IF o.kind = "register" THEN Placed(m, o)
    ELSE IF o.kind = "unregister"
    THEN IF store[m][o.res] = 0 \/ Unplaced(m, o.res)
         THEN Answered(o, "gone") ELSE [o EXCEPT !.pc = "txn"]
    ELSE IF table[m] = 0 THEN Answered(o, "gone")
         ELSE [o EXCEPT !.pc = "keepalive", !.lease = table[m]]

MustCatchUp(m, o) ==
    \/ o.kind = "register" /\ Unplaced(m, o.res)
    \/ o.kind = "unregister" /\ store[m][o.res] = 0
    \/ o.kind = "heartbeat" /\ table[m] = 0

(* The handler refuses a mutation unless the backend is READY.             *)
Begin(m, s) ==
    /\ op[s].pc = "idle"
    /\ ready[m]
    /\ requests < MaxRequests
    /\ requests' = requests + 1
    /\ \E q \in Requests : \E v \in 1 .. MaxVersion :
         LET o == [Idle EXCEPT !.kind = q[1], !.res = q[2], !.at = m, !.from = Revision,
                               !.ver = IF q[1] = "register" THEN v ELSE 0]
         IN /\ q[1] # "register" => v = 1
            /\ op' = [op EXCEPT ![s] = IF MustCatchUp(m, o) THEN [o EXCEPT !.pc = "catchup"]
                                       ELSE CaughtUp(m, o)]
    /\ UNCHANGED <<etcd, replica, belief, health, expiries, faults>>

\* Mutant: the fence waits for the revision after the one it read.
CatchUpBeyond(m, s) ==
    /\ op[s].pc = "catchup"
    /\ op' = [op EXCEPT ![s].pc = "behind", ![s].rev = Revision + 1]
    /\ UNCHANGED <<etcd, replica, belief, health, bounds>>

(* Catching up: a linearizable read, then the fence.                       *)
CatchUp(m, s) ==
    /\ op[s].pc = "catchup"
    /\ op' = [op EXCEPT ![s].pc = "behind", ![s].rev = Revision]
    /\ UNCHANGED <<etcd, replica, belief, health, bounds>>

CatchUpFence(m, s) ==
    /\ op[s].pc = "behind"
    /\ fence[m] >= op[s].rev
    /\ op' = [op EXCEPT ![s] = CaughtUp(m, op[s])]
    /\ UNCHANGED <<etcd, replica, belief, health, bounds>>

Grant(m, s) ==
    /\ op[s].pc = "grant"
    /\ granted < MaxLeases
    /\ granted' = granted + 1
    /\ alive' = alive \cup {granted'}
    /\ table' = [table EXCEPT ![m] = granted']
    /\ op' = [op EXCEPT ![s] = TryFastPath(m, [op[s] EXCEPT !.lease = granted'])]
    /\ UNCHANGED <<log, replica, believed, health, bounds>>

(* The call that grants a lease fails, with the lease granted or not, and  *)
(* outside what turns an error of etcd into a 503 and DEGRADED.            *)
GrantFails(m, s) ==
    /\ op[s].pc = "grant"
    /\ faults < MaxFaults
    /\ faults' = faults + 1
    /\ \/ UNCHANGED <<granted, alive>>
       \/ /\ granted < MaxLeases
          /\ granted' = granted + 1
          /\ alive' = alive \cup {granted'}
    /\ op' = [op EXCEPT ![s] = Answered(op[s], "error")]
    /\ UNCHANGED <<log, replica, belief, health, requests, expiries>>

(* The read that a fenced registration compares against, and its answer.   *)
ReadSet(m, s) ==
    /\ op[s].pc = "read"
    /\ op' = [op EXCEPT ![s].pc = "reply", ![s].rev = Revision]
    /\ UNCHANGED <<etcd, replica, belief, health, bounds>>

ReadReturns(m, s) ==
    /\ op[s].pc = "reply"
    /\ LET o == op[s]
           read == {Key(o.res), Claim(o.res)}
                      \cup (IF o.res = Node THEN {} ELSE {Key(Parent(o.res))})
           b == [k \in Keys |-> IF k \in read THEN log[o.rev][k].mod ELSE believed[m][k]]
       IN /\ believed' = [believed EXCEPT ![m] = b]
          /\ op' = [op EXCEPT ![s] = IF fence[m] >= o.rev THEN Validated(m, o, b)
                                     ELSE [o EXCEPT !.pc = "fence"]]
    /\ UNCHANGED <<etcd, replica, table, health, bounds>>

Fence(m, s) ==
    /\ op[s].pc = "fence"
    /\ fence[m] >= op[s].rev
    /\ op' = [op EXCEPT ![s] = Validated(m, op[s], believed[m])]
    /\ UNCHANGED <<etcd, replica, belief, health, bounds>>

\* Mutant: the parent's existence is not compared.
ComparesWithoutParent(o) ==
    /\ Now[Key(o.res)].mod = o.key
    /\ Now[Claim(o.res)].mod = o.claim

(* The transaction of a registration ...                                   *)
Compares(o) ==
    /\ Now[Key(o.res)].mod = o.key
    /\ Now[Claim(o.res)].mod = o.claim
    /\ o.res # Node => Held(Revision, Parent(o.res))

Commit(m, s) ==
    LET o == op[s] IN
    /\ o.pc = "txn" /\ o.kind = "register"
    /\ \/ /\ Compares(o)
          /\ o.lease \in alive \cup {0}
          /\ Write(Put(o))
          /\ op' = [op EXCEPT ![s].pc = "commit", ![s].rev = Revision + 1]
          /\ UNCHANGED ready
       \/ /\ ~Compares(o)
          /\ op' = [op EXCEPT ![s].pc = "read"]
          /\ UNCHANGED <<log, ready>>
       \/ /\ Compares(o)
          /\ o.lease \notin alive \cup {0}
          /\ op' = [op EXCEPT ![s] = Answered(o, "unavailable")]
          /\ ready' = [ready EXCEPT ![m] = FALSE]
          /\ UNCHANGED log
    /\ UNCHANGED <<alive, granted, replica, belief, watching, bounds>>

(* ... and of a delete, which compares nothing.                            *)
CommitDelete(m, s) ==
    LET o == op[s]
        gone == {Key(r) : r \in Subtree(o.res)} \cup {Claim(o.res)}
    IN
    /\ o.pc = "txn" /\ o.kind = "unregister"
    /\ Write(Erase(gone))
    /\ op' = [op EXCEPT ![s].pc = "commit", ![s].rev = Len(log')]
    /\ UNCHANGED <<alive, granted, replica, belief, health, bounds>>

(* The answer waits for the watch to bring the commit back.                *)
AwaitCommit(m, s) ==
    /\ op[s].pc = "commit"
    /\ fence[m] >= op[s].rev
    /\ op' = [op EXCEPT ![s] = Answered(op[s], "ok")]
    /\ UNCHANGED <<etcd, replica, belief, health, bounds>>

KeepAlive(m, s) ==
    /\ op[s].pc = "keepalive"
    /\ IF op[s].lease \in alive
       THEN op' = [op EXCEPT ![s] = Answered(op[s], "ok")] /\ UNCHANGED table
       ELSE /\ op' = [op EXCEPT ![s] = Answered(op[s], "gone")]
            /\ table' = [table EXCEPT ![m] = 0]
    /\ UNCHANGED <<etcd, replica, believed, health, bounds>>

(* The deadline passes at a fence, or between attempts: 503.               *)
Deadline(m, s) ==
    /\ op[s].pc \in {"behind", "fence", "commit"} \/ (op[s].pc = "read" /\ op[s].path = "fenced")
    /\ op' = [op EXCEPT ![s] = Answered(op[s], "unavailable")]
    /\ UNCHANGED <<etcd, replica, belief, health, bounds>>

(* A call of etcd fails, its transaction executed or not: 503 and DEGRADED.*)
CallFails(m, s) ==
    /\ op[s].pc \in {"catchup", "read", "txn", "keepalive"}
    /\ faults < MaxFaults
    /\ faults' = faults + 1
    /\ ready' = [ready EXCEPT ![m] = FALSE]
    /\ \/ UNCHANGED log
       \/ /\ op[s].pc = "txn" /\ op[s].kind = "register"
          /\ Compares(op[s]) /\ op[s].lease \in alive \cup {0}
          /\ Write(Put(op[s]))
    /\ op' = [op EXCEPT ![s] = Answered(op[s], "unavailable")]
    /\ UNCHANGED <<alive, granted, replica, belief, watching, requests, expiries>>

Finish(m, s) ==
    /\ op[s].pc = "answered"
    /\ op' = [op EXCEPT ![s] = Idle]
    /\ UNCHANGED <<etcd, replica, belief, health, bounds>>

-----------------------------------------------------------------------------
Mutation(m, s) ==
    /\ op[s].at = m
    /\ \/ CatchUp(m, s) \/ CatchUpFence(m, s) \/ Grant(m, s) \/ GrantFails(m, s)
       \/ ReadSet(m, s) \/ ReadReturns(m, s) \/ Fence(m, s)
       \/ Commit(m, s) \/ CommitDelete(m, s) \/ AwaitCommit(m, s)
       \/ KeepAlive(m, s) \/ Deadline(m, s) \/ CallFails(m, s) \/ Finish(m, s)

Next ==
    \/ \E l \in 1 .. MaxLeases : LeaseExpires(l)
    \/ \E m \in Members : ApplyBatch(m) \/ Advance(m)
    \/ \E m \in Members : WatchBreaks(m) \/ Reconnect(m)
    \/ \E m \in Members : Resnapshot(m) \/ ResnapshotFails(m)
    \/ \E m \in Members, s \in Slots : Begin(m, s) \/ Mutation(m, s)

Spec == Init /\ [][Next]_vars

(* The watch delivers, its tasks run, and it reconnects when it has broken.*)
FairSpec ==
    Spec /\ \A m \in Members :
                WF_vars(ApplyBatch(m)) /\ WF_vars(Advance(m)) /\ WF_vars(Reconnect(m))

-----------------------------------------------------------------------------
(* No commit replaces a resource by an earlier version of it (_compare_set *)
(* and prepare).  Violated with two versions: a request that gives up at   *)
(* the fence leaves the member with what etcd's key is at and a store      *)
(* before it, and the next compares with the one and validates against the *)
(* other (_read_fence).                                                    *)
VersionsNeverGoBack ==
    \A i \in 1 .. Revision - 1, r \in Resources :
        Held(i, r) /\ Held(i + 1, r) => log[i][Key(r)].ver <= log[i + 1][Key(r)].ver

(* No resource has been without its parent.  Violated with two leases: a   *)
(* Node registered through two members has its key on one and its Device on*)
(* the other, and the Device stays when the first expires                  *)
(* (_ensure_node_lease).                                                   *)
NeverOrphaned ==
    \A i \in 1 .. Revision : \A r \in Resources \ {Node} :
        Held(i, r) => Held(i, Parent(r))

(* A delete of a leaf that has lost its Device is answered 404 though the  *)
(* leaf is there (_unregister).                                            *)
LeavesStay == \A r \in Leaves : <<"unregister", r>> \notin Requests
DeletesAreSafe == NeverOrphaned \/ LeavesStay

(* Such a refusal is true of etcd at some moment of the request: the       *)
(* parent or the resource was not there, or it had a later version.        *)
RefusalIsTrue(o) ==
    /\ o.pc = "answered" /\ o.answer = "rejected" =>
         \E i \in o.from .. Revision : \/ o.res # Node /\ ~Held(i, Parent(o.res))
                                      \/ log[i][Key(o.res)].ver > o.ver
    /\ o.pc = "answered" /\ o.answer = "gone" /\ o.kind = "unregister" =>
         \E i \in o.from .. Revision : ~Held(i, o.res)

(* As long as versions have not gone back, and no leaf that has lost its   *)
(* Device is asked to be deleted, every 400 for a resource and every 404   *)
(* for a delete is true of etcd, however far the store was behind it when  *)
(* the request began (register: "full fence before reporting any           *)
(* rejection"; _catch_up).                                                 *)
RefusalsAreTrue ==
    VersionsNeverGoBack /\ DeletesAreSafe =>
        \A s \in DOMAIN op : RefusalIsTrue(op[s])

(* A heartbeat is answered 404 only if the Node was not registered at some *)
(* moment of the request (_heartbeat).                                     *)
(* Violated by a member whose table holds an expired lease of a Node that  *)
(* has registered again elsewhere.                                         *)
GoneIsTrue ==
    \A s \in DOMAIN op : LET o == op[s] IN
        o.pc = "answered" /\ o.answer = "gone" /\ o.kind = "heartbeat" =>
            \E i \in o.from .. Revision : ~Held(i, Node)

(* Every member's store is etcd's state at the revision it has applied.    *)
(* Violated with two versions: once versions have gone back, the watch     *)
(* refuses what etcd holds, and the member keeps the later one             *)
(* (_apply_batch).                                                         *)
StoreIsReplica ==
    \A m \in Members, r \in Resources : store[m][r] = log[view[m]][Key(r)].ver

(* What is registered in a store is what etcd held at the revision it has  *)
(* applied, also where etcd's versions have gone back (_apply_batch).      *)
PresenceIsReplicated ==
    \A m \in Members, r \in Resources : store[m][r] # 0 <=> Held(view[m], r)

(* Whatever the order of registrations, deletes, expiries and faults, a    *)
(* store holds the resources that etcd held at the revision it has         *)
(* applied; and their versions, as long as no commit has replaced one by   *)
(* an earlier one.  The watch is its only writer (_apply_batch).           *)
StoresAreReplicas ==
    /\ TypeOK
    /\ PresenceIsReplicated
    /\ VersionsNeverGoBack => StoreIsReplica

(* Every key in etcd hangs off a lease (_write_ops, _fenced_register).      *)
(* Violated with two leases: a heartbeat on an expired one ends after the   *)
(* table has moved to the Node's new one, and pops that (_heartbeat).       *)
NoKeyIsImmortal ==
    \A k \in Keys : Now[k].mod # 0 => Now[k].lease # 0

(* All that etcd holds of a Node's subtree hangs off the Node's own lease, *)
(* the one its heartbeats renew (register, _ensure_node_lease).            *)
(* Violated where a Node registers again through a member that has not     *)
(* applied its first registration.                                         *)
SubtreeSharesLease ==
    \A r \in Resources :
        Held(Revision, r) /\ Held(Revision, Node) =>
            Now[Key(r)].lease = Now[Key(Node)].lease

(* A heartbeat is answered 200 only if the Node was registered at some     *)
(* moment of the request (_heartbeat).                                     *)
(* Violated by a member that has not applied the deletion: the lease       *)
(* outlives the keys.                                                      *)
BeatIsTrue ==
    \A s \in DOMAIN op : LET o == op[s] IN
        o.pc = "answered" /\ o.answer = "ok" /\ o.kind = "heartbeat" =>
            \E i \in o.from .. Revision : Held(i, Node)

(* A member whose watch is up and whose etcd answers accepts mutations      *)
(* (BackendState, _degrade).  Violated: a failed request degrades a member  *)
(* whose watch is healthy, and _resnapshot may end the watch task.          *)
Recovers == \A m \in Members : <>[]ready[m]

(* A member that goes back to READY has caught up with etcd (_watch_once). *)
(* Violated: it waits for the revision the fence has applied already.      *)
ReadyIsCaughtUp ==
    [][\A m \in Members : ~ready[m] /\ ready'[m] => view'[m] = Revision]_vars
====
