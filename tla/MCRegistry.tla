----------------------------- MODULE MCRegistry -----------------------------
(***************************************************************************)
(* The registry, for TLC: the store of a standalone registry and of a      *)
(* member of a cluster, the ownership of a Node by one member of it, the   *)
(* proposals that writes to it become, subscriptions, and pages of a Query.*)
(* Each behaviour explores one of them, the one that part names; the       *)
(* variables of the others keep their initial values, so the run checks    *)
(* the sum of the components and not their product.                        *)
(***************************************************************************)
EXTENDS RegistryStore

CONSTANTS m1, m2, m3           \* members

VARIABLE part

(* A member's store, whose cursors were chosen elsewhere and may arrive late, *)
(* and its index of one type, where they may collide and move back.         *)
Replica == INSTANCE RegistryStore WITH
    Depth <- 3, Replicated <- TRUE, MaxCursor <- 1

Ordered == INSTANCE RegistryStore WITH
    Ids <- {1, 2}, Depth <- 1, Replicated <- TRUE, MaxNow <- 0

-----------------------------------------------------------------------------
(* A Node whose requests reach any member, while members crash and while
   links between them are cut. *)
VARIABLES
    node_now, log, proposed, applied, node_store, table, cut, down, reqs,
    asked, collecting, lastOk, said, faults

ownershipVars == <<node_now, log, proposed, applied, node_store, table, cut,
                   down, reqs, asked, collecting, lastOk, said, faults>>

Ownership == INSTANCE NodeOwnership WITH
    Member <- {m1, m2, m3}, GcInterval <- 1, LastRequest <- 1, MaxRequests <- 3,
    MaxServed <- 1, MaxFaults <- 0, MaxCrashes <- 1, now <- node_now,
    store <- node_store

Cut == INSTANCE NodeOwnership WITH
    Member <- {m1, m2, m3}, GcInterval <- 1, LastRequest <- 1, MaxRequests <- 2,
    MaxServed <- 2, MaxFaults <- 1, MaxCrashes <- 0, now <- node_now,
    store <- node_store

-----------------------------------------------------------------------------
(* Operations submitted at two members: several under one election, and one
   under two, where an entry a leader did not commit is overwritten by the
   second after it. *)
CONSTANTS a, b, c1, c2         \* members and calls of this part

VARIABLES
    leader, believes, raft_log, committed, floating, incarnation, sequence,
    batch, scheduled, flushes, waiters, releases, inbox, call, commit,
    raft_applied, raft_store, elections, restarts, losses

proposalVars == <<leader, believes, raft_log, committed, floating, incarnation,
                  sequence, batch, scheduled, flushes, waiters, releases, inbox,
                  call, commit, raft_applied, raft_store, elections, restarts,
                  losses>>

Calls == INSTANCE Proposals WITH
    Member <- {a, b}, Call <- {c1, c2}, PerIncarnation <- 10, MaxBatch <- 2,
    MaxElections <- 1, MaxRestarts <- 1, MaxLosses <- 1,
    log <- raft_log, applied <- raft_applied, store <- raft_store

Overwritten == INSTANCE Proposals WITH
    Member <- {a, b}, Call <- {c1, c2}, PerIncarnation <- 10, MaxBatch <- 2,
    MaxElections <- 2, MaxRestarts <- 1, MaxLosses <- 1,
    log <- raft_log, applied <- raft_applied, store <- raft_store

\* Members and calls differ by their names only: the first to lead is called a,
\* and the first to be submitted c1.
Named ==
    /\ elections' = 1 /\ elections = 0 => leader' = a
    /\ call'[c2].state # "idle" => call'[c1].state # "idle"

-----------------------------------------------------------------------------
(* Changes to a resource, told to a client of one of two subscriptions. *)
VARIABLES
    sub_store, changes, known, gone, connections, sub, phase, pending, wake,
    closed, left, sender, grain, view

grainVars == <<sub_store, changes, known, gone, connections, sub, phase,
               pending, wake, closed, left, sender, grain, view>>

Grains == INSTANCE Subscriptions WITH
    Resources <- {"r"}, Bodies <- {"x", "y", "z"}, Matching <- {"x", "y"},
    Subs <- {"s", "t"}, Persistent <- {"t"}, Clients <- {"client"},
    Replacement <- "etcd", RateLimited <- FALSE, MaxChanges <- 4,
    store <- sub_store

-----------------------------------------------------------------------------
(* A client that follows the links of pages while resources are written. *)
VARIABLES
    record, allocated, inflight, since, until, served

pageVars == <<record, allocated, inflight, since, until, served>>

Pages == INSTANCE Paging WITH
    Ids <- {"x", "y", "z"}, Order <- "update", Limits <- {0, 1, 2},
    InOrder <- TRUE, MaxCursor <- 4

-----------------------------------------------------------------------------
ASSUME RegistryAssumption ==
    /\ StoreConstants /\ Replica!StoreConstants /\ Ordered!StoreConstants
    /\ Ownership!OwnershipAssumption /\ Cut!OwnershipAssumption
    /\ Grains!SubscriptionConstants /\ Pages!PagingConstants
    /\ Calls!ProposalsAssumption /\ Overwritten!ProposalsAssumption

allVars == <<part, vars, ownershipVars, proposalVars, grainVars, pageVars>>

\* The parts that share the store start with as many types as each has.
RegistryInit ==
    /\ part \in {"standalone", "member", "ordered", "ownership", "cut",
                "calls", "overwritten", "grains", "pages"}
    /\ CASE part = "member" -> Replica!Init
         [] part = "ordered" -> Ordered!Init
         [] OTHER -> Init
    /\ Ownership!Init /\ Calls!Init /\ Grains!Init /\ Pages!Init
    /\ part # "grains" => sub_store = [r \in {"r"} |-> None]

RegistryNext ==
    \/ /\ \/ part = "standalone" /\ Next
          \/ part = "member" /\ Replica!Next
          \/ part = "ordered" /\ Ordered!Next
       /\ UNCHANGED <<part, ownershipVars, proposalVars, grainVars, pageVars>>
    \/ /\ \/ part = "ownership" /\ Ownership!Next
          \/ part = "cut" /\ Cut!Next
       /\ UNCHANGED <<part, vars, proposalVars, grainVars, pageVars>>
    \/ /\ \/ part = "calls" /\ Calls!Next
          \/ part = "overwritten" /\ Overwritten!Next /\ call'[c2].state = "idle"
       /\ Named
       /\ UNCHANGED <<part, vars, ownershipVars, grainVars, pageVars>>
    \/ /\ part = "grains" /\ Grains!Next
       /\ UNCHANGED <<part, vars, ownershipVars, proposalVars, pageVars>>
    \/ /\ part = "pages" /\ Pages!Next
       /\ UNCHANGED <<part, vars, ownershipVars, proposalVars, grainVars>>

RegistrySpec == RegistryInit /\ [][RegistryNext]_allVars

-----------------------------------------------------------------------------
(* Properties.                                                               *)

\* The components keep their types.
RegistryTypeOK ==
    /\ part = "standalone" => TypeOK
    /\ part = "member" => Replica!TypeOK
    /\ part = "ordered" => Ordered!TypeOK
    /\ part = "ownership" => Ownership!TypeOK
    /\ part = "cut" => Cut!TypeOK
    /\ part = "grains" => Grains!TypeOK
    /\ part = "pages" => Pages!TypeOK

\* The events of a store's operation are the whole change, and replayed in order
\* they never show a resource without its parent (_erase_subtree, _ordered,
\* collect_garbage, forget).
StoreTellsTheChange ==
    [][/\ part = "standalone" => TellsTheChange
       /\ part = "member" => Replica!TellsTheChange]_vars

\* A heartbeat is answered 404 only if the Node was not registered at some
\* moment of the request, and a request is forwarded at most twice
\* (_beat_here, route_again).
NotFoundIsTrue ==
    part \in {"ownership", "cut"} =>
        Ownership!NotFoundIsTrue /\ Ownership!RoutedTwice

\* A Node told that it is registered finds itself in the store of the member
\* that told it (_await_applied).
ReadsItsWrites == Ownership!ReadsItsWrites

\* Each call is answered with its own outcome once that is committed, its
\* operation is in the log at most once, what a member has applied is what is
\* committed, and a waiter whose call has ended has its release due: a call
\* whose proposal was lost waits on, to its deadline (ProposalBatcher,
\* RaftNode.propose, _wait_for).
CallsAreAnswered ==
    /\ part = "calls" => Calls!CallsAreAnswered
    /\ part = "overwritten" => Overwritten!CallsAreAnswered

\* What a client knows, with the grain being written and the changes buffered
\* for it, is what its subscription matches, over the snapshots of the etcd backend
\* too; those of the raft backend tell no subscription and are left out (connect,
\* publish, enqueue, drain).
NothingIsLost == part = "grains" => Grains!NothingIsLost

\* A client that follows the links has been given every resource between the
\* ends of its walk, none twice at one cursor, where writes are applied in the
\* order of their cursors, as one registry does, and the cursors reported with a
\* page describe it (apply_paging).  Whether they do depends on the resources
\* alone, so it is asked before the walk begins.  What a page is cut from is in
\* cursor order, however cursors arrived, and a standalone registry gives no
\* cursor twice (iter_ordered, _touch_order, _next_cursor).
PagesAreWhole ==
    /\ part = "pages" =>
          /\ Pages!NoneSkipped /\ Pages!NoneRepeated
          /\ since = None => Pages!Reproducible
    /\ part = "standalone" => ReadsInOrder /\ CursorsDiffer
    /\ part = "member" => Replica!ReadsInOrder
    /\ part = "ordered" => Ordered!ReadsInOrder
==========================================================================
