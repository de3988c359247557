# A TLA+ model of NMOS-Reference

The repository holds an NMOS Node, an NMOS Registry and a controller. The
registry runs standalone, over etcd, or as a cluster of 3 or 5 members over a
Raft of its own (`nmos/raft`). That Raft carries the hardest guarantees of the
repository, and it is not textbook Raft: **the log lives in memory only**. A
restarted member has forgotten every entry it acknowledged, so it rejoins
without a vote, is caught up and promoted, and when a majority has forgotten, a
*recovery election* lets the others go on. The consensus core is modelled and
proved about in most detail; around it are models of what runs on top of it
(cursors, reads, snapshots, proposals), of the registry's store, its two cluster
backends, its subscriptions and pages, and of the protocols of the Node and the
controller that several tasks or machines take part in.

## 1. The system

| Component | State | Operations | Interacts with |
|---|---|---|---|
| `raft/node.py` | role, term, vote, leader, `_voting`, the votes of the running round, log, commit index, one `_PeerState` per peer, waiters | tick (campaign, replicate, relinquish), the handlers of vote, append, promote and snapshot messages and their answers, propose, peer up/down, apply, compact, read index | transport, term file (saved before any answer), state machine, fence |
| `raft/log.py` | entries behind a compaction boundary | append, append_replicated, truncate_suffix, discard_through, reset_to_snapshot, find_conflict | node |
| `raft/persist.py` | a file: term, vote, incarnation, cursor reservation | load at start (counts the start), save (write, sync, rename) | node, cursors |
| `raft/transport.py` | one dialled connection per peer and stream, inbound connections, pending requests | dial and redial, send or drop, read and dispatch, give up, close | node |
| `raft/cursors.py`, `batcher.py`, `snapshot.py`, `machine.py`, `ownership.py` | a paging cursor per type and its reservation, pending proposals, a capture in progress, the applied index and the store, the owner of each Node | allocate/observe/reserve, submit/drain, begin/finish/abandon, apply, claim/release | node, store |
| `registry/store.py` | resources with tombstones, indexes by type, by parent and by order | register, delete, heartbeat, collect, forget | backends |
| `registry/subscriptions.py`, `websocket.py`, `paging.py` | subscriptions, what each connection is still to be told; the page of a query | attach, publish, merge, drain, delete; cut a page | store, clients |
| `registry/raft_backend.py`, `etcd_backend.py`, `fence.py`, `gc.py` | locks per Node, leases, the revision applied, requests being forwarded | register, unregister, heartbeat, forward, read barrier, resynchronise, collect | raft node or etcd |
| `node/registry.py` | what is registered where, the chosen registry, failures | register, heartbeat, re-register, fail over, delete | a registry |
| `node/activation_engine.py`, `api/handlers_connection.py` | staged and active parameters, a timer per scheduled activation | PATCH, schedule, cancel, activate, roll back | streams, clients |
| `node/status_monitor.py`, `events.py`, `streaming/` | status per domain with its delay, the engine's events | activate, deactivate, report, recover | activation |
| `tasks/` | a tree of groups of tasks | dispatch, cancel, close, wait, watchdog | everything |
| `controller/rds_websocket.py`, `cache.py` | six subscribers, one choice of registry, a cache | connect, consume, fail over, reload | a registry |
| `controller/reservation.py`, `crypto/` | the sessions held on Nodes; the Node's exclusive session | acquire, keep alive, renew, release | a Node |
| the rest (user interface, descriptive data, SDP and capability libraries, codecs, generated types, the Rust port, tooling) | see section 6 | | |

Everything in one process runs on one asyncio event loop: a handler without an
`await` is atomic, and an action of a model ends where the code awaits. What
interleaves is members with each other, coroutines at their awaits, messages
with timers, and processes with their own earlier lives.

### What is hard here

A vote, an answer or a request of an earlier round, connection or *process* that
arrives late; a restart between any two steps, with the log gone and the term
file kept; a save that fails half-way through a handler; more than half of the
members without their log; state read before an `await` and used after it (a
store that a snapshot has replaced, a registry that was left, a token that was
renewed); an answer lost after the request was executed; two tasks that close,
renew or move the same thing; a clock that goes back; a counter that is never
cleared. `PROJECT.json` lists them under `hazards`, each at its line with the
properties that would catch it.

### What makes each component correct

* elections: one leader a term, on a quorum of votes of that term; a vote is
  durable before it is answered and never changes;
* replication: logs match; what is committed stays; the newest leader has it; a
  leader credits a peer only with what it holds;
* rejoin: a member votes again only when it cannot help elect a leader that lacks
  a committed entry, and in the end it does;
* log and snapshots: a log stands for one history through every operation; what
  is installed is one whole snapshot, and nobody goes back behind what is applied;
* cursors: no two records of a type share one, whatever restarts and clocks do;
* calls: a caller gets its own outcome, once; a read is linearizable;
* store: the tree, its indexes and tombstones agree; events tell the whole change;
* subscribers and pages: nothing is lost, skipped or shown twice;
* backends: every store is a past state of the cluster; a refusal is true;
* Node: what was promised to a client is activated or withdrawn; the registry
  holds what a good cycle registered; a status tells of the stream there is;
* tasks: `close()` joins what it closes, and returns;
* controller: its copy is of one registry and complete; a reservation it shows is
  held.

## 2. Modules

| Module | Models |
|---|---|
| `RaftLog`, `RaftLogHistory` | `raft/log.py` as operators; one log through every operation beside the history it stands for |
| `RaftNode` | the members: one action per handler or handler outcome, connections, term files, faults |
| `Ballot` | abstract: votes given and leaderships won |
| `Cursors` | `raft/cursors.py`: lanes, hybrid clock, reservation, restarts, failed saves |
| `SnapshotTransfer` | capture, compaction, appends and their answers, chunks over the bulk stream, installation (`snapshot.py`, `node.py`, `log.py`) |
| `ReadIndex`, `LinearizableRead` | `read_index`, local and forwarded, over a reduced consensus; abstract: a read sees every write acknowledged before it |
| `Proposals` | waiters, batcher, forwarding, the applier and changes of leader |
| `NodeOwnership` | `raft_backend.py`: owner, forwarding, the heartbeat's barrier, expiry, crashes and cut links |
| `EtcdBackend` | `etcd_backend.py` against an external etcd: fenced transactions, leases, watches, resynchronisation |
| `RegistryStore` | `store.py`: registration, re-parenting, cascading removal, expiry, forgetting, order and cursor indexes, events |
| `Subscriptions`, `Paging` | subscriptions over WebSockets; pages of a query |
| `NodeRegistration` | `node/registry.py` |
| `ConnectionActivation` | `activation_engine.py` and the connection handlers |
| `StatusMonitor` | `status_monitor.py`, `events.py` and overlapping streams |
| `DispatchGroup` | `tasks/` |
| `RegistryFollower` | `rds_websocket.py`, `cache.py` and the selector |
| `Reservation` | `reservation.py` against the exclusive session of `crypto/` |
| `MCRaftNode`, `MCRestarts`, `MCEtcdBackend` | instances of one component for TLC |
| `MCServices`, `MCRegistry`, `MCNodes`, `MCProgress` | instances of several components for TLC |
| `*Proofs` | theorems, section 5 |

**A sum of components.** `MCServices`, `MCRegistry`, `MCNodes` and `MCProgress` put several components in one
specification. A variable `part`, chosen at the start, names the one that runs;
the others keep one of their initial states. A behaviour of the whole is then a
behaviour of one component beside constants, so the states reached are the sum of
the components' states and not their product, and an invariant `part = "x" => P` is
checked on exactly the states of `x`. Nothing is lost by it: these components
share no state in the code other than through the interfaces their own modules
model. Where components do interact, one module has both sides (`Reservation` the
controller and the Node, `EtcdBackend` the member and etcd, `NodeOwnership` the
members, the log and the store).

### RaftNode: state and code

| Variable | Code |
|---|---|
| `disk`, `incarnation` | the term file (`TermStore`) |
| `term`, `voted_for`, `role`, `leader`, `voting` | `_term`, `_voted_for`, `_role`, `_leader`, `_voting` |
| `round` | `_votes`, `_forgotten`, `_pre_votes`, `_pre_refusals`, `_pre_forgotten` |
| `log`, `commit_index` | `_log`, `_commit_index` |
| `peers` | `_PeerState`: `next_index`, `match_index`, `catching_up`, `promote_through`, `sent_commit`, `pending_request` |
| `stopped` | `_fail` was called |
| `link`, `req`, `rep`, `orphan` | the connection *i* dials to *j*; requests and answers on it, in order; requests *j* has received on a connection *i* gave up |
| `elected`, `cast`, `committed` | history, read by properties only |
| `resends`, `drops`, `saveFailures` | how many faults have happened, for the bounds |

A handler with several outcomes is one action per outcome (`GrantVote`,
`DenyVote`, `RefuseUnderLease`, `AnswerPreVote` are `on_request_vote`), each the
whole handler with the step-down it may begin with and the replication it may
end with. `HandleRequest` and `HandleAnswer` are the transport's dispatch; `Next`
adds the timers, clients, connections and restarts.

A connection is `up`, `broken` (the far process is gone, *i* has not noticed;
writes are lost, answers already sent can be read) or `down`. Dropping it loses
the answers and leaves the unread requests, which the far side may still handle
(`orphan`) or lose (`OrphanEnds`). That is the order the code allows: in order
on one connection, any order between an old and a new one.

Abstractions:

* *Time.* A timer may fire whenever its guard allows; a lease may or may not hold
  (`LeaseMayHold`), a pending append may or may not be overdue. Every timing of
  the code is one of the model's.
* *Request ids and `reply_floor`.* A dropped connection drops its answers, and an
  answer with request id 0 is `request = "none"`; both are what the floor
  refuses. `pending` is `pending_request`, as the place of the awaited answer.
* *`conflict_term`* is not carried: the back-up uses `conflict_index`.
* *Payloads.* An entry is its term.
* *A failed save* leaves the old file or the new one, ends the handler, and
  closes the connection the message came by, as the exception does.
* *Compaction* is not in this module: its logs begin at index 1. `RaftLogHistory`
  has the operations that compact, `SnapshotTransfer` what is sent instead.

The other modules describe their state and abstractions in their own headers and
comments; `map` in `PROJECT.json` gives the lines each definition stands for.

## 3. Runs

`CHECK_DEADLOCK` is off throughout: the bounds on requests, faults and terms let
an instance run out of things to do.

| Run | Instance and bounds | Shows |
|---|---|---|
| `elections` | 3 members from a fresh boot, two symmetric candidates, term 1, a voter restarts, one save fails | `TypeOK`, `ElectionSafety`, `VoteIsDurable`, `VoteOnce`, `ImplementsBallot` |
| `leadership` | 3 members under an established leader, another one takes over in term 2, log 3, one frame in flight | `LogMatching`, `LeaderCompleteness`, `CommittedStays` |
| `restarts` | established; leader and a follower restart, alone or together, a third member campaigns | `SafeWhileQuorumKept`, `VotersVeto`, `StopsOnlyLearners`, `IndexBounds` |
| `stable` | one leader, log 3, a follower restarts, one lost connection, one resend; fair | `MatchIsHeld`, `Converges` |
| `services` | cursors: 2 members, 2 restarts, 1 failed save, clocks that go back; reads: 3 members, 2 leaders, stores that stay or an installed snapshot; transfer: entries committed after they are acknowledged or before, 2 chunks, a drop, a restart, or 2 leaders and a follower that does not compact; log: terms 3, length 5 | `ServicesTypeOK`, `CursorsUnique`, `TransferIsSound`, `LogStandsForHistory`, `ReadsAreLinearizable`, `FollowerNeverGoesBack` |
| `registry` | store: 3 ids, 2 levels standalone, 3 on a member, 2 ids out of order; ownership: 3 members, 3 requests and a crash, or 2 and a cut link, two served at once; calls: 2 members, 2 calls, one election, restart and loss, or one call and two elections; grains: 4 changes, 2 subscriptions; pages: 3 resources, 4 cursors, limits 0-2 | `RegistryTypeOK`, `TreeIsSound`, `NotFoundIsTrue`, `NothingIsLost`, `PagesAreWhole`, `CallsAreAnswered`, `StoreTellsTheChange`, `ReadsItsWrites` |
| `etcd` | 2 members; 2 requests at a time; or one, with 2 versions of the Node and deadlines that pass at the fence; or one with faults, failed grants and compaction; or one with a leaf resource | `StoresAreReplicas`, `RefusalsAreTrue` |
| `nodes` | groups: 2 children, 2 tasks; activations: 2 clients, 3 PATCHes, or one failure; status: 2 streams, 2 faults, or overlapping; registration: 3 resources, 2 faults; follower: 2 kinds; registries that share their data, or separate ones of which the first fails, or both, so that the selection moves, and moves back while it reloads; reservations: lost, slow, rival | `NodesTypeOK`, `GroupsAreClosed`, `ActivationsAreKept`, `StatusIsTrue`, `CycleRegistersAll`, `FollowersAreFilled`, `ReservationsAreKept`, `TimersKeepPromises` |
| `progress` | one small instance of each component that promises something for later; fair | `LaggardsCatchUp`, `PromisesEnd` |
| `survivors` | as `restarts`, two members forgotten | **violated**: `SurvivorsVeto` |
| `counting` | as `stable`, log 4, one entry an append, two lost connections | **violated**: `CatchingUpNeverCounted` |
| `discards` | one leader and a follower, log 2, snapshots of one chunk | **violated**: `CreditIsHeld` |

*Established* (`MCRaftNode`) is the state after member `a` won term 1 from the
first boot, committed its no-op and told everybody: reachable, and it spares each
run the first election, which `elections` explores.

*Why these bounds.* Three members are the smallest supported cluster and the
tightest: every quorum is two. Two leaders are needed for a log conflict, a log of
3 for one beyond a committed prefix, a second incarnation for a forgotten log.
`MaxInFlight` bounds the frames in flight only when a *timer or client* acts;
answers, retries and what a handler sends are never held back. `MaxForgotten`
says how many are without their log at once (1: a majority keeps it; 2:
recovery). In `services` the deposed leader's part has one lost connection, so
that a chunk can be sent a second time; the cursors' lanes end at 16 nanoseconds
and clocks are read on both sides of a second's end, so that a carry happens. Two
fetchers stand for the controller's six, which differ in nothing but their kind;
two kinds are what one reload needs to race one subscriber. Of each property a
mutation of the code's logic within the same bounds breaks it (`mutants`), so the
bounds do reach the case.

### Fairness

Liveness is claimed only under what the event loop and the code's own loops
justify. The event loop runs every ready task, so a step that stays enabled and
belongs to an endless loop of the code is weakly fair; nothing is assumed of
clients, faults, restarts or what other machines decide.

| Component | Fair steps |
|---|---|
| `RaftNode` (`stable`) | the leader's tick, delivery, dialling, noticing a dead connection. The leader is taken as stable (no election timer, no relinquishing): that is the premise of the claim. |
| `SnapshotTransfer` | delivery of chunks, answers and appends, the compaction's end, the leader's heartbeats, dialling, noticing a dead connection |
| `Subscriptions` | the sender of a connection, the end of its window |
| `RegistryFollower`, `NodeRegistration` | the subscriber's and the client's own loop, and the publication that a change has begun |
| `ConnectionActivation` | the clock, and the timers that are due |
| `Reservation` | the poll's steps and the Node's execution of a request; the clock is *strongly* fair, since a step of the poll disables it each time and does not stop it |
| `NodeOwnership` | the clock, the owner's service of a request and the deadline of one, commit, apply and the collection's loop of each member |
| `DispatchGroup` | the tasks' runs, the end of a task that was asked to stop, the steps of `close()` |

In `progress` and `nodes`, no task closes a group from inside it and no watchdog
is set: both make `close()` and `wait()` behave otherwise than their docstrings
say, see below.

## 4. Where code and documentation disagree

Three disagreements are runs of their own (`findings`):

* `survivors`. The comment in `node.py` (881) says any surviving entry is on a
  member whose approval the recovery election requires. A restarted member that
  has received committed entries again, but is not promoted yet, refuses with
  `voting=False`; that puts it in `_forgotten`, so its refusal does not count,
  and a candidate without the entry wins. `VotersVeto` is what does hold:
  entries survive if a *voting* member holds them.
* `counting`. `_advance_commit` (2052) says members catching up are excluded from
  the count. `on_peer_state(up=False)` clears `catching_up` and leaves
  `match_index` until the peer is back (2549, 2532), so in between the member is
  counted, and an entry can be committed on the leader's log and that of a
  member without a vote.
* `discards`. `reset_to_snapshot` (`log.py:297`) says that what a snapshot
  replaces "is either included in the snapshot or was never committed, so there
  is nothing worth keeping", and `on_append_entries_reply` (`node.py:1857`) that
  a peer holds every index it acknowledged in a leadership. `_maybe_compact`
  discards what a connected follower has not confirmed once the log is at
  `max_log_entries` (2625), and decides how much before it awaits the walk of the
  store. An append may still be on its way: the follower acknowledges entries
  beyond the snapshot, the snapshot comes on the bulk stream after that and drops
  them, and `match_index` goes on counting them towards their commit. A later
  refusal, at or below `match_index`, is ignored as stale. `CreditWasHeld` is what
  does hold (`TransfersAreSound`). Properties elsewhere that need more state it as
  a condition: `CatchesUp` the invariant itself, `ReadsAreLinearizable` the
  constant `Overflows` (`PromiseApplies`).

The others were met while modelling. The property in the second column is defined
in the component's module, with a comment that says which behaviour violates it;
the passing runs leave it out, or exclude that behaviour by a constant or by a
condition that the property states.

| Code | Property | What the code does, and what is said of it |
|---|---|---|
| `raft/machine.py:159` | `AboveApplied` | install_snapshot replaces the store without observing the cursors in it, so the allocator of a member that was brought up by a snapshot can hand out a cursor below one its store holds, if its clock is behind. *But* raft/machine.py:108: "kept above every cursor the cluster has published". |
| `registry/raft_backend.py:296` | `ImplementsLinearizableRead` | _register_as_owner takes the registry's store into a local before it awaits _read_barrier. A snapshot installed during that wait swaps the store, and what is then looked up is the old object, older than the read index the barrier confirmed. *But* registry/raft_backend.py:807: "The answer it then gives is the one the leader would have given.". |
| `registry/raft_backend.py:443` | `ExpiredOnlyWhenSilent` | A member that cannot reach the owner of a Node answers its heartbeats 200 from its own store and tells nobody; the owner, which hears none of them, expires the Node after the collection interval. *But* registry/specs/Behaviour - Registration.md:51: "Nodes only need perform a heartbeat to maintain their Node resource in the Registration API.". |
| `registry/raft_backend.py:504` | `SilentNodeIsCollected` | collect_garbage considers only Nodes this member owns. When the owner has ended and the Node is silent too, no member owns it and it stays in the registry. *But* registry/specs/Behaviour - Registration.md:51: "If heartbeats fail over a period greater than the garbage collection interval, both the Node and all registered sub-resources SHOULD be removed from the registry automatically.". |
| `registry/store.py:845` | `ExpireTogether` | collect_garbage expires Nodes by their own health and erases their subtree with them; registering or updating a sub-resource does not refresh the Node's health, so a Device registered moments ago goes with a Node that is due. *But* registry/store.py:854: "erasing the Node then cascades over a subtree whose members were all going to expire in the same tick anyway". |
| `registry/websocket.py:70` | `GoneIsClosed` | The handler looks the subscription up, awaits the WebSocket upgrade and attaches the connection afterwards. A subscription deleted in between has already closed the connections it had; this one is attached to an object nothing refers to, waits on its reader, and is never closed. *But* registry/specs/Behaviour - Querying.md:19: "they SHOULD be forcibly closed by the server"; registry/websocket.py:89: "Waiting only on the reader would leave a deleted subscription serving its socket until the client happened to go away on its own.". |
| `registry/subscriptions.py:158` | `EveryChangeHasAShape` | merge keeps the first pre and the last post of a window. A resource that starts to match and ceases to within one window leaves an entry with neither, which drain delivers. *But* registry/subscriptions.py:12: "defines the four shapes by which of `pre` and `post` are present". |
| `raft/machine.py:183` | `NothingIsLost` | install_snapshot swaps the store and publishes no event, so a subscriber of a member that was caught up by a snapshot is never told what changed; the etcd backend publishes the difference of the two stores. *But* registry/etcd_backend.py:1532: "Without it a subscriber's view would silently diverge: it was told about the old state, and the new snapshot may differ from it in ways no event ever described.". |
| `raft/node.py:2179` | `NoneSkipped` | A cursor is allocated when an operation is proposed and the record becomes visible when its entry is applied. Two members that propose at the same time can have the higher cursor applied first; a client that has paged to it skips the record of the lower. *But* raft/cursors.py:33: "a client mid-page would skip the record". |
| `controller/rds_websocket.py:431` | `Retargeted` | _drop_stale_sockets closes the sockets that are live. A subscriber that has read the selection and is still connecting is not among them: it connects to the registry that was left and stays there. *But* controller/rds_websocket.py:432: "Close every live subscription so all six re-target together.". |
| `controller/rds_websocket.py:322` | `ReportsItsOwn` | A subscriber's failure count is not cleared when another subscriber moves the selection under it, so failures against the registry that was left are counted towards the next, and one failure there moves the selection again. *But* controller/rds_websocket.py:113: "Consecutive failed connect/consume cycles against one registry before this subscriber reports it.". |
| `controller/rds_websocket.py:439` | `NoMerging` | _reload_from_current fetches kind by kind with awaits. A fetch that began before a further move is put into the cache after that move has cleared it. The property leaves out the kinds that such an answer has replaced (`outdated`). *But* nmos_node.py:170: "otherwise the cache becomes the union of two registries' contents and shows resources that exist nowhere". |
| `controller/rds_websocket.py:439` | `NothingMissing` | The reload replaces a kind by a snapshot fetched earlier: what the subscriber of that kind has connected to and consumed meanwhile is removed, and is not sent again. The property leaves out the kinds in `outdated` here too. *But* controller/rds_websocket.py:411: "Clearing afterwards would wipe data that was already correct, and that subscriber will not send it again until its connection next breaks". |
| `controller/rds_websocket.py:500` | `InStep` | A new connection's synchronisation adds and updates; nothing removes what the registry has dropped while the subscriber was not connected, neither at the first connection after the bootstrap snapshot nor after a failover within a cluster. *But* nmos_node.py:973: "bootstrap fetches the snapshot, the WS subscription then tracks live deltas". |
| `node/registry.py:440` | `EventuallyRegistered` | Only a heartbeat answered 404 resets the trackers. If the registry forgets the Node and a changed Node resource is POSTed before the next heartbeat, the POST makes the Node known again, the heartbeat is answered 200, and the other resources, which the trackers hold for registered, are never POSTed. *But* node/registry.py:12: "Re-registration on NOT_FOUND (node was garbage-collected by registry)". |
| `node/registry.py:247` | `ThreeInARow` | _failures is cleared when a target is adopted and never by a cycle that succeeds, so failures far apart add up to a move. *But* node/registry.py:101: "Consecutive failed cycles against one registry before moving to the next.". |
| `node/registry.py:325` | `FailoverKeepsRegistration` | run calls _cleanup_on_shutdown in the finally of every session, a failover included: a member of a cluster that fails some requests and executes this DELETE removes the registration that the next member was to find. *But* node/registry.py:357: "removes a registration that was perfectly valid". |
| `node/registry.py:478` | `NewsWakes` | The cycle reads what is published, and clears the event after it, just before waiting: what was published in between does not wake it before the heartbeat period. *But* node/publish.py:115: "Clear it BEFORE waiting, never after reading". |
| `registry/etcd_backend.py:1016` | `VersionsNeverGoBack` | _read_fence stores the revisions it read in _revisions, which every request of the member compares with, before it waits for the store to reach them. When that wait times out, the next request validates its version on the fast path against the store that is still behind, and compares with the revision that is current: version 1 of a Node is committed over version 2. Part *versions* of `etcd` does this; `RefusalsAreTrue` and the versions in `StoresAreReplicas` are claimed until it happens. *But* registry/etcd_backend.py:863: "submitting from a stale belief cannot commit anything wrong -- it simply fails the compare"; registry/specs/Behaviour - Registration.md:102: "The `version` included in the request is earlier than the matching resource already held in the registry". |
| `registry/etcd_backend.py:582` | `StoreIsReplica` | _apply_batch applies what the watch brings through the store's own validation, which refuses an earlier version; the refusal is logged and skipped. After the commit of one (the row above) etcd holds version 1, and a member that had version 2 keeps it. *But* registry/etcd_backend.py:38: "A member that cannot agree with its peers about what exists must not quietly serve its own version of the truth.". |
| `registry/etcd_backend.py:1217` | `SubtreeSharesLease` | _ensure_node_lease knows only this member's table. A Node that registers again through a member that has not yet applied its first registration is given a second lease, its Node key moves to it, and its Device stays on the first, which its heartbeats no longer renew. *But* registry/etcd_backend.py:821: "Every key in this Node's subtree will hang off this lease". |
| `registry/etcd_backend.py:1379` | `GoneIsTrue` | _heartbeat renews the lease in this member's table and answers 404 when etcd does not know it. That lease may be of a registration that has expired, while the Node has registered again through another member, whose commit this one has not applied. *But* registry/etcd_backend.py:1400: "Authoritative: the cluster has collected this Node.". |
| `registry/etcd_backend.py:1379` | `BeatIsTrue` | Deleting a Node deletes its keys and leaves its lease. A member that has not applied the deletion renews that lease and answers 200. *But* registry/etcd_backend.py:1358: "Renew a Node's lease. Returns its health, or None if it is gone.". |
| `registry/etcd_backend.py:1401` | `NoKeyIsImmortal` | A heartbeat whose lease etcd no longer knows takes the Node out of the member's table after it was answered; by then the table may hold the lease of a new registration. A Device registered next on the fast path goes out without a lease, and does not expire with its Node. *But* registry/etcd_backend.py:821: "Every key in this Node's subtree will hang off this lease"; registry/etcd_backend.py:942: "Neither is ever written without the other". |
| `registry/etcd_backend.py:536` | `Recovers` | _resnapshot is called in the handler of EtcdCompacted. If it raises there, the exception leaves the loop and the watch task ends, and the member is not ready again. *But* registry/etcd_backend.py:508: "Apply revisions forever, reconnecting and resnapshotting as needed.". |
| `registry/etcd_backend.py:700` | `Recovers` | _degrade is undone only where a watch is opened or a snapshot is read. When one request fails and the watch is healthy, the member refuses mutations until the watch happens to break. *But* registry/backend.py:73: "Cannot mutate -- etcd is unreachable or has no quorum". |
| `registry/etcd_backend.py:691` | `ReadyIsCaughtUp` | _watch_once waits for the revision the fence has already applied, which is no wait, and the member is READY behind etcd. *But* registry/etcd_backend.py:568: "Reconnected: catch the view up before accepting mutations again, so a write is never validated against a stale store.". |
| `node/activation_engine.py:988` | `LockedIsPending` | When do_activation raises, the staged mode stays set. _pending_activation_conflict then answers every further activation 423, though nothing is pending, until a client stages a null mode. *But* api/handlers_connection.py:408: "what makes the lock lift by itself once the activation has fired and cleared its staged mode". |
| `node/activation_engine.py:988` | `FailureRestores` | The backup of active_state is a reference to the object that flip_activation changes, so restoring it restores nothing; the subscription and the stopped stream are not restored at all. *But* node/activation_engine.py:756: "On failure at any step, all previous state is restored.". |
| `api/handlers_connection.py:131` | `ReportsTheActive` | The mode and time that /active shows are set when an activation is scheduled, not when it has fired. *But* api/handlers_connection.py:131: "Active endpoint: report the activation that produced the current active state". |
| `api/handlers_connection.py:545` | `ViolationIsRefused` | The violation is tested before the body is awaited, and not again after it. *But* api/handlers_connection.py:545: "Do not allow PATCH if sender has active constraint violation". |
| `node/status_monitor.py:291` | `TellsTheStream` | A re-activation sets the old task's stop event and starts the new one. If the old task emits its stop after the new one's activate, the monitor is inactive while a stream runs, and ignores what that stream emits until the next activation. *But* node/status_monitor.py:291: "Whether the resource is currently activated.". |
| `node/events.py:577` | `LinkRecovers` | A transport error reports the link too, and the set of pending events holds only the transport's; emit_recovery clears what is in the set, so the link is never told healthy again. *But* node/events.py:618: "Emit recovery Ok events for each pending domain.". |
| `node/streaming/transport_udp.py:269` | `CleanStop` | A UDP receiver that is asked to stop while its socket read has no data first meets the read's timeout, reports a fault, and then stops. *But* node/status_monitor.py:142: "by not generating intermediate unhealthy states". |
| `tasks/__init__.py:181` | `CloseJoins` | close() awaits its children's close() one after the other; the first that raises leaves the others and the group's own tasks unjoined. *But* tasks/__init__.py:150: "waits for every task in this group and in all child groups to finish". |
| `tasks/__init__.py:173` | `CloseJoins` | _closed is set before the joins, so a second close() returns at once while the first is still waiting. *But* tasks/__init__.py:223: "True if close() has completed on this group.". |
| `tasks/__init__.py:196` | `DetachedWhenClosed` | The caller is one of the tasks that _cancel_all cancels, so the gather of the others raises CancelledError in it, and what follows, the detaching, is skipped. *But* tasks/__init__.py:164: "Safe to call from inside one of the group's own tasks". |
| `tasks/__init__.py:292` | `FatalSurfaces` | _run_task assigns _error unconditionally: a recoverable error of a sibling that is being cancelled replaces the unrecoverable one, and close() raises nothing. *But* tasks/__init__.py:168: "The first unrecoverable exception raised by a task in this group.". |
| `tasks/__init__.py:112` | `WatchdogIsNoWork` | wait() adds the watchdog's task to the ones it waits for, so it does not return when the work is done, and ends with the watchdog's error. *But* tasks/__init__.py:47: "it must never make wait() look busy". |
| `controller/reservation.py:638` | `GoneMeansGone` | A renewal that was executed and whose answer was lost leaves the controller with the token the Node has replaced. The next keep-alive is answered 401 and the token is discarded, while the Node's session lives and refuses a new one until it lapses. *But* controller/reservation.py:82: "A `401` is the Node telling us our session is gone.". |
| `controller/reservation.py:687` | `DiscardIsRight` | The controller counts the time since the last keep-alive that was answered; keep-alives that were executed and not answered have kept the session alive, so the reacquire that follows is refused. *But* controller/reservation.py:722: "Now — and only now — is discarding the token the right answer, because a reacquire can actually succeed.". |
| `controller/reservation.py:507` | `NotReacquired` | The walk goes on with the entries it copied. One that logout has taken out of the dictionary and whose token is empty is re-acquired, since the administrator is discarded only after all releases. *But* controller/app.py:504: "the polling task won't try to reacquire a session the admin is actively giving up". |
| `controller/reservation.py:503` | `LogoutReleases` | A release that races a renewal in flight posts a token the Node no longer has; and the walk drops by key, so an entry newer than the one it releases goes with it. The Node stays reserved until its session lapses. *But* controller/app.py:502: "release every Node Reservation the admin had held". |
| `controller/reservation.py:496` | `Kept` | The walk is sequential and a request may take ten seconds, so with two slow Nodes a keep-alive comes after its session has lapsed, and the token shown as held is dead. *But* controller/reservation.py:473: "Once per second, walk every active session and maintain it.". |

## 5. Proofs

For every finite set of at least two members, every value of the bounds and every
set of ids, cursors and kinds, TLAPS proves:

| Theorem | Module | Statement |
|---|---|---|
| `TypeCorrect`, `IndicesInRange` | `RaftNodeProofs` | `Spec => []TypeOK`, `Spec => []IndexBounds` |
| `VotesAreDurable`, `VotesAreOnce` | `RaftNodeProofs` | `Spec => []VoteIsDurable`, `Spec => VoteOnce` |
| `BallotIsSafe` | `RaftNodeProofs` | `Ballots!Spec => []Ballots!OneLeaderPerTerm`: the abstract ballot has one leader per term |
| `ElectionsAreBallots` | `RaftNodeProofs` | `Spec /\ [](saveFailures = 0) => ImplementsBallot` |
| `OneLeaderATerm`, `LeadersHaveQuorums` | `RaftNodeProofs` | under the same condition, `[]ElectionSafety`, `[]ElectedByQuorum` |
| `LogsMatch` | `RaftNodeProofs` | under the same condition, `[]LogMatching` |
| `CommittedForGood` | `RaftNodeProofs` | `Spec => CommittedStays`, an action property |
| `LeadersAreComplete` | `RaftSafetyProofs` | `Spec /\ [](saveFailures = 0 /\ HasQuorum) => []LeaderCompleteness`: every entry a leader ever committed is on the newest leader |
| `CommittedSurvives` | `RaftSafetyProofs` | under the same condition, `[](StateMachineSafety /\ CommittedOutvotesTheRest /\ NeverStopped)` |
| `MatchesAreHeld` | `RaftSafetyProofs` | under the same condition, `[]MatchIsHeld` |
| `ReadsLinearizable` | `ReadIndexProofs` | `Spec => ImplementsLinearizableRead`, a refinement, if `PromiseApplies`: no member is caught up by a snapshot, or no request keeps its store over the barrier and no log overflows |
| `CursorsAreUnique` | `CursorProofs` | `Spec => [](TypeOK /\ CursorsUnique /\ ReservationCovers)`: no two records of a type share a cursor, over any number of members, restarts, failed saves and clocks that go back |
| `TreeStaysSound` | `RegistryStoreProofs` | `Spec => []TreeIsSound`: every resource has its parent, tombstones and indexes agree with the resources |
| `CursorsNeverMeet` | `RegistryStoreProofs` | `Spec => [](CursorsBehind /\ Differ)`: no two resources of the store have one creation or one update cursor, and a new one is beyond both |
| `TransfersAreSound` | `SnapshotTransferProofs` | `Spec => [](TypeOK /\ NeverSpliced /\ CoversBoundary /\ CreditWasHeld)`: what is installed is one whole snapshot, a snapshot covers what its log dropped, no leader credits the follower with more than its log has held in this process (that it still holds it, `discards` refutes) |
| `FollowersNeverGoBack` | `SnapshotTransferProofs` | `Spec => NeverGoesBack`, an action property: a running follower never goes back behind what it has committed or applied |
| `CallsAnswered` | `ProposalsProofs` | `Spec => []CallsAreAnswered`: own outcome, at most once, from the committed order; a batch has its flush due, and a waiter whose call has ended its release |
| `IdsNeverRunOut` | `ProposalsProofs` | `Spec => []IdsSuffice`: the ids of one incarnation do not reach those of the next |
| `PresenceHolds` | `EtcdBackendProofs` | `Spec => []PresenceIsReplicated`: which resources a store holds is what etcd held at the revision the member applied |
| `StoresReplicate` | `EtcdBackendProofs` | `Spec => []StoresAreReplicas`: the same of their versions, as long as no commit has replaced a resource by an earlier version |
| `OneVersion` | `EtcdBackendProofs` | `MaxVersion = 1` implies `Spec => []StoreIsReplica`: without that condition where resources have one version |
| `RefusalsHold` | `EtcdBackendProofs` | `Spec => []RefusalsAreTrue`: as long as that holds, and no child has been without its parent or no leaf is deleted, every 400, and every 404 to a delete, is true of etcd at some moment of the request |

*Assumptions*: `MemberAssumption` (finite, at least two: a cluster of one skips
the network and is not modelled), `NoneAssumption`, `BoundAssumption` (the bounds
are numbers and sets of members); in `Cursors`, members fit the lanes and instants
are cursors; in `StoreAssumption`, ids and bounds are numbers and the tree has up to
three levels; in `ProposalsAssumption`, there are no more calls and elections than an
incarnation has ids (2^32 in the code); in `EtcdConstants`, the resources differ and
a heartbeat is a Node's; in `TransferAssumption`, somebody leads and a snapshot has a
chunk; in `ReadAssumption`, the cluster is finite and what leads first or is
read from belongs to it. TLC evaluates them in each run.

The condition of `ReadsLinearizable` is the one of the row on `raft_backend.py:296` in
section 4: `_register_as_owner` keeps its store over the barrier, and a snapshot
that arrives meanwhile leaves it with a store nobody updates. Every other caller
asks for its store again, and for those the theorem holds with snapshots too, as
long as no leader has discarded what a member has not confirmed (`~Overflows`): a
snapshot it then sends may drop what the member has acknowledged (run `discards`).

`StoresAreReplicas` and `RefusalsAreTrue` state a condition that the code does not
always meet (`VersionsNeverGoBack`, section 4): a member that believes revisions it has not
applied yet may commit an earlier version. What the theorems show is that this is
the only way a store and etcd come apart; `PresenceHolds` needs no such condition.
The other condition of `RefusalsAreTrue` is about a leaf whose Device has expired under
it: a delete of it is answered 404 although the leaf is still there.

### Inductive invariants

1. `Inv` (`RaftNodeProofs`): the types are not inductive alone. The term an append
   is anchored at is a term only if the anchor lies in the leader's log, so
   `IndexBounds` (commit index within the log, `match < next <= last + 1`) goes with
   them, and logs are uncompacted (`FullLog`), since no action of `RaftNode` compacts.
   One lemma per action.
2. `VoteInv` (`RaftNodeProofs`): `VoteIsDurable` needs `FileFollowed`: memory is never
   behind the file and, in the file's term, remembers its vote. Every action is
   first reduced to a *move* of the term file (keep, rise, vote, vote in memory
   only, reload), so the argument has five cases and not thirty. `BallotLink`
   relates the answers in flight and the votes counted to the ledger: a granted
   answer of a term stands for a vote cast in it, and a candidate's counted votes
   are cast votes of its term.
3. `BallotLink` again (`RaftNodeProofs`): a step is `Give`, `Lead` or a stutter of
   `Ballot`; a winner has a quorum in both clauses of `_won`, since the recovery
   clause asks for the votes of a quorum's worth too. Two majorities of a finite
   set meet (`QuorumsMeet`), so one leader per term follows: `LedgerInv` is the
   invariant of `Ballot`, and `OneLeaderATerm` is its theorem seen through the refinement.
4. `MatchInv` (`RaftNodeProofs`): logs and the appends in flight are both *spans*, a
   piece of a history with the term it is anchored at; any two spans that agree on
   the term at one index agree below it (`Matched`). For a leader to add an entry
   of its term, that term must be in no other log before it leads: `TermsLed` (a
   term in a span was led by somebody), `LeaderHolds` (the leader of a term holds
   every index that a span has of it), `CandidatesNew` (no span has the term of a
   candidate), with `OwnVote`, `LeadersElected` and `ElectedBehind` to tie the
   running round to what was elected. A step moves the logs in three ways only
   (`Idles`, `Takes`: a piece of a span, `Extends`: a leader's own entry), moves the
   candidates in one (`CandidateMove`), and the committed entries in one
   (`CommitMove`, from which `CommittedForGood` follows: an append is taken only from
   an anchor at or above the commit index, or contradicts nothing below it).
5. `Safe` (`RaftSafetyProofs`), over the *moves* its first part derives
   from the actions; see below.
6. `IInv` (`CursorProofs`): what a member handed out is in its lane (`LanesKept`), so
   two members never meet; it is at or below its high-water mark or the floor it
   resumed from (`HandedBehind`), above both of which the next one is chosen; and
   it is at or below the member's reservation, which the file bounds
   (`HandedReserved`), so the floor after a restart covers it.
7. `TreeInv` (`RegistryStoreProofs`): `Shape` (what is held is typed and has a parent
   that is held, of a kind one level up), `Indexed` (the indexes by type,
   by parent and by identifier agree), `Rooted` (a tombstone is no
   resource). The steps reduce to *registers*, *trims* and *refreshes*; a trim
   takes away a set closed under children, which is what the cascade computes.
   `CursorInv`: `CursorsBehind` and `Differ`.
8. `Inv` (`SnapshotTransferProofs`): what the follower has assembled is the beginning of
   the snapshot its identity names (`Aligned`), so the last chunk completes that
   one. `OneIsLast`: one leader has the highest term, and nobody has applied
   more; with it what a deposed leader still sends cannot take the follower
   back. `AnswersHeld`: an answer a leader will take (its term, this incarnation, a
   number above the floor) says no more than this incarnation has committed, which
   gives `CreditWasHeld`. A restart keeps it only because the floor is raised when the
   connection ends, and the append in flight ends with the process it was sent to.
   What the follower still holds is less: an install cuts its log, so the
   invariant speaks of the most it has held (`held`).
9. `IInv` (`ProposalsProofs`): an operation is in one place at a time (a batch, a frame,
   a leader's hands or the log: `OnePlace`), its id is behind its member's
   counter (`IdsBehind`) and names no other (`IdsUnique`); a caller that waits is
   awaited once, where it called (`OnceAwaited`, `AwaitedAt`), and a call nobody
   awaits is not waiting (`WaitersAreWanted`). `Due`: a batch that is not empty has a flush
   scheduled, and a waiter whose operation is applied has its release.
   `IdsCounted` counts the calls drained and the elections, which is what bounds
   the counter of an incarnation.
10. `Inv` (`EtcdBackendProofs`): `PresenceIsReplicated` needs `Rooted`: each revision of
   etcd differs from the one before by one commit whose compares held, so what is
   written has its parent in the revision before. Applying the commits in
   order then finds every parent in the store, and nothing the watch brings is
   refused for the lack of one. As long as versions have not gone back nothing
   is refused at all (`AppliesAll`), and the store is the revision (`Replicas`, an
   implication: each step shows that if it holds afterwards it held before).

11. `Inv` (`ReadIndexProofs`): logs and what is committed are as in 4 and 5, for the
   reduced consensus of `ReadIndex`, in which no log is forgotten and every vote
   counts (`Raft`, `LeadersGood`, `CommitsHeld`, and `Firm(committed)`: what
   is committed is held by a quorum and by every leader from its term on). On
   top of it: a barrier waits for an index that covers what was committed when the
   request began (`Covers`), or its leader is `Deposed`: a quorum is in a later
   term, none of it the leader, and none has answered or will answer an append sent
   after the read was armed. `ReadConfirmed` shows that such a read is never
   confirmed; `ReadArmed` that a leader that has committed an entry of its own
   term either holds what is committed below its commit index or is deposed. Without
   that wait (`committed_in_current_term`) a new leader would arm reads at
   an index it was elected with. `StoresKept` is why the store a request was handed
   before the barrier may be consulted after it where no snapshot is installed.

### Why what is committed survives a log in memory

The textbook argument is: a majority holds a committed entry for ever, every
winner has a vote of that majority, so it holds the entry too. Here a member of
the majority may restart and hold nothing. `Safe` keeps, for an entry
`(n, f[n])` (`f` is the history up to it) and the set `A` of the members that
acknowledged it to the leader of term `f[n]`, what is left of "holds":

* `Core(n, f, A)`: every leader of term `f[n]` or later holds the entry
  (`LeadersKeep`); a voting member of `A` holds it (`VotersKeep`); a log that has an
  entry of a later term, or of the same at or beyond `n`, holds it (`LaterKeep`), and
  an append of that term or later agrees with it (`AppendsTell`); a candidate of a
  later term that a member of `A` backs holds it (`CandidatesKeep`); a member of
  `A` to which a promotion is on its way holds it (`PromotedKeep`), and one that is
  catching up either holds it or is not promoted before it has acknowledged an index
  at or beyond `n` (`RejoinersKeep`). A restart takes a member out of `VotersKeep` and
  leaves it to the last two; a promotion brings it back.
* `Good(n, f, A)`: `Core`, or `Beyond`: `A` and the members whose terms are not beyond
  `f[n]` are fewer than a quorum, so the leader of `f[n]` never commits the entry.
  An entry is good from the moment its leader appends it (`GoodAlone`), stays so
  as members acknowledge it (`GoodGrows`) and through every other step (`GoodKept`,
  one lemma for each conjunct of `Core`).
* `Firm(n, f)`: some `A` of a quorum's size makes it good. `Beyond` is then out of the
  question, so `Core` holds, and it stays (`FirmKept`).
* `WinnersVoters`: a candidate wins on a quorum of votes of members that have kept
  their logs. `_won` has another clause, the recovery, for the case that fewer than
  a quorum can have kept theirs. `ForgotOK` says that a member that told a candidate
  of term `x` that it has forgotten does not vote until somebody has been elected
  at `x` or later, so with `HasQuorum` that case does not arise; without it the
  recovery can elect a leader that lacks the entry (run `survivors`). The quorum
  meets `A`, and the member in both has the entry and compares logs before it
  gives its vote (`WinnerKeeps`).
* `Credit`: what a leader credits a peer with (`match_index`, an answer in flight), the
  peer holds, as long as connection and term last. It gives `MatchIsHeld`. It
  is needed for the commit rule, and needs `Firm`: an append anchored below the
  follower's commit index is answered with that commit index, which stands only
  because what the follower has committed is firm and the leader has it.
* `Backed`: every commit index (of a member, of an append) and every pair of
  `committed` lies below a firm entry of a term the member has entered. With
  `LeadersKeep` this is `LeaderCompleteness`, with `VotersKeep`
  `CommittedOutvotesTheRest`, and since two firm entries agree (`FirmIs`) it is
  `StateMachineSafety`.
* `NeverContradicted`: an append of a leader holds everything that is firm, so
  `_contradicting_committed` finds nothing and `stopped` stays empty. The moves
  are those of steps that do not stop a member; this closes
  the circle, as `Safe` says `stopped = {}`.

The condition `[](saveFailures = 0 /\ HasQuorum)` is one on the behaviour so far: `Spec`
states no fairness, so every prefix of a behaviour is one, and the theorems hold
up to the first state that breaks the condition. It is what the history variable
of `MCRestarts` records: the four invariants are the four that `SafeWhileQuorumKept`
checks. It holds at the start, when every member votes.

*Why "no save has failed".* `_campaign` assigns role, term and vote before
`_persist`, and the new vote sets after it. If the save raises, the member is a
candidate of the new term with the last round's votes. In five members a later
answer of that term could complete the count with them; three members cannot get
there. The leadership theorems exclude that state, the ones on the term file
do not, and `elections` explores it for three members.

### Only model-checked

* `VotersVeto` and `StopsOnlyLearners` where more members than the quorum spares have
  forgotten (with `HasQuorum` the theorems above imply them), and the history variable
  of `SafeWhileQuorumKept`.
* Everything live (`Converges`, `LaggardsCatchUp`, `PromisesEnd`, and the halves of
  `CycleRegistersAll`, `FollowersAreFilled`, `ReservationsAreKept`, `TimersKeepPromises`
  that say something happens): liveness under fairness is beyond the prover.
* `StoreTellsTheChange` and the order index as a sequence: they are about recursive
  functions and sorted sequences, an induction over data.
* `LogStandsForHistory`, and the properties of
  `NodeOwnership`, `Subscriptions`, `Paging` and of the components of the Node and the
  controller.

## 6. Not modelled

The map covers a small share of the repository's lines, about 8%, because most of
them have no protocol: pages of the user interface and their scenarios, the
descriptive data of IS-04 and IS-05 resources, the SDP and capability libraries,
authorization tokens, codecs, generated types, the code generator, the Rust port
of the Raft and tooling. `components` in `PROJECT.json` gives the reason for each.

Within the modelled components: a cluster of one; the refusals of ill-formed
input (`_refusal`, undecodable or non-contiguous entries), which a peer
running this code does not send; the stop on an unexpected exception; TLS,
framing and Ping/Pong. A member that neither leads nor may campaign dials
nobody in `RaftNode`, since it would send nothing.

## 7. What is left

* `VotersVeto` without `HasQuorum`: what the recovery clause of `_won` promises when a
  majority has forgotten. The argument of `Safe` does not carry over, as the set
  `A` may have lost all of its voters.
* `ReadsLinearizable` over `RaftNode` itself: `ReadIndex` has its own, reduced
  consensus, in which members keep their logs.
* The properties of `NodeOwnership`.
