----------------------------- MODULE MCProgress -----------------------------
(***************************************************************************)
(* What must happen in the end, for TLC: the components that promise       *)
(* something for later, each under the fairness of its module.  Each       *)
(* behaviour explores one of them, the one that part names; the variables  *)
(* of the others keep one of their initial values.                         *)
(***************************************************************************)
EXTENDS Naturals

CONSTANT None

VARIABLE part

-----------------------------------------------------------------------------
(* A follower that is sent snapshots over connections that drop, and one
   whose leader may have discarded what it has not confirmed. *)
VARIABLES
    lead, tra_applied, tra_last, tra_snapshot, boundary, walk, peer, sequence,
    flight, tra_up, bulk, dialled, tra_frames, answers, tra_f, drops,
    tra_restarts

transferVars == <<lead, tra_applied, tra_last, tra_snapshot, boundary, walk,
                  peer, sequence, flight, tra_up, bulk, dialled, tra_frames,
                  answers, tra_f, drops, tra_restarts>>

Transfer == INSTANCE SnapshotTransfer WITH
    Leader <- {"a"}, First <- "a", Chunks <- 2, MaxIndex <- 1, MaxTerm <- 1,
    MaxDrops <- 1, MaxRestarts <- 1, applied <- tra_applied,
    last <- tra_last, snapshot <- tra_snapshot, up <- tra_up,
    frames <- tra_frames, f <- tra_f,
    restarts <- tra_restarts

Discarded == INSTANCE SnapshotTransfer WITH
    Leader <- {"a"}, First <- "a", Chunks <- 1, MaxIndex <- 2, MaxTerm <- 1,
    MaxDrops <- 0, MaxRestarts <- 1, applied <- tra_applied,
    last <- tra_last, snapshot <- tra_snapshot, up <- tra_up,
    frames <- tra_frames, f <- tra_f, restarts <- tra_restarts

-----------------------------------------------------------------------------
(* A client of a subscription. *)
VARIABLES
    sub_store, sub_changes, known, gone, connections, sub, sub_phase,
    sub_pending, wake, sub_closed, left, sender, grain, view

grainsVars == <<sub_store, sub_changes, known, gone, connections, sub,
                sub_phase, sub_pending, wake, sub_closed, left, sender,
                grain, view>>

Grains == INSTANCE Subscriptions WITH
    Resources <- {"r"}, Bodies <- {"x", "y", "z"}, Matching <- {"x", "y"},
    Subs <- {"s"}, Persistent <- {}, Clients <- {"c"}, Replacement <- "never",
    RateLimited <- TRUE, MaxChanges <- 3, None <- None, store <- sub_store,
    changes <- sub_changes, phase <- sub_phase, pending <- sub_pending,
    closed <- sub_closed

-----------------------------------------------------------------------------
(* A controller whose first registry fails. *)
VARIABLES
    contents, fol_up, fol_faults, fol_changes, fol_selected, moves, resynced,
    cache, fol_pc, fol_target, epoch, fol_failures, fol_strikes, fol_frames,
    open, dropping, reload, outdated

followerVars == <<contents, fol_up, fol_faults, fol_changes, fol_selected,
                  moves, resynced, cache, fol_pc, fol_target, epoch,
                  fol_failures, fol_strikes, fol_frames, open, dropping,
                  reload, outdated>>

Follower == INSTANCE RegistryFollower WITH
    NTargets <- 2, NKinds <- 2, Resources <- {"r"}, Distributed <- FALSE,
    FailoverAfter <- 2, Faulty <- {0}, Full <- TRUE, MaxFaults <- 4,
    MaxChanges <- 0, MaxMoves <- 2, up <- fol_up, faults <- fol_faults,
    changes <- fol_changes, selected <- fol_selected, pc <- fol_pc,
    target <- fol_target, failures <- fol_failures, strikes <- fol_strikes,
    frames <- fol_frames

-----------------------------------------------------------------------------
(* A Node whose registries fail and forget it. *)
VARIABLES
    held, reg_up, reg_faults, losses, reg_late, state, event, trackers,
    reg_snapshot, reg_pc, reg_target, reg_selected, probeFirst, needDelete,
    reg_failures, reg_strikes, reg_done

registrationVars == <<held, reg_up, reg_faults, losses, reg_late, state,
                      event, trackers, reg_snapshot, reg_pc, reg_target,
                      reg_selected, probeFirst, needDelete, reg_failures,
                      reg_strikes, reg_done>>

Registration == INSTANCE NodeRegistration WITH
    NTargets <- 2, NResources <- 3, Clustered <- FALSE, FailoverAfter <- 2,
    Published <- {3}, MayStop <- FALSE, MaxVersion <- 2, MaxFaults <- 2,
    MaxLosses <- 1, up <- reg_up, faults <- reg_faults, late <- reg_late,
    snapshot <- reg_snapshot, pc <- reg_pc, target <- reg_target,
    selected <- reg_selected, failures <- reg_failures,
    strikes <- reg_strikes, done <- reg_done

-----------------------------------------------------------------------------
(* A connection with scheduled activations. *)
VARIABLES
    act_now, reading, staged, active, report, sdp, subscription, stream,
    act_pending, timers, violated, patches, act_failures, promise, made

activationVars == <<act_now, reading, staged, active, report, sdp,
                    subscription, stream, act_pending, timers, violated,
                    patches, act_failures, promise, made>>

Activation == INSTANCE ConnectionActivation WITH
    Client <- {"x"}, Param <- {"p"}, None <- None, MaxNow <- 2,
    MaxPatches <- 2, MaxFailures <- 1, now <- act_now, pending <- act_pending,
    failures <- act_failures

-----------------------------------------------------------------------------
(* A reservation whose requests and answers are lost. *)
VARIABLES
    res_node, sessions, heap, present, leaving, res_phase, work, res_late,
    req, lost, res_restarts

reservedVars == <<res_node, sessions, heap, present, leaving, res_phase,
                  work, res_late, req, lost, res_restarts>>

Reserved == INSTANCE Reservation WITH
    Admins <- {"a"}, Nodes <- {"n"}, AliveTime <- 4, MinLifetime <- 6,
    Lifetime <- 6, RenewRetry <- 2, RequestTime <- 0,
    Faults <- {"renew", "release"}, MaxLost <- 1, Uses <- FALSE,
    MaxRestarts <- 1, node <- res_node, phase <- res_phase, late <- res_late,
    restarts <- res_restarts

-----------------------------------------------------------------------------
(* A cluster whose Node goes silent. *)
VARIABLES
    own_now, log, proposed, own_applied, own_store, table, own_cut, down,
    reqs, own_asked, collecting, lastOk, own_said, own_faults

ownershipVars == <<own_now, log, proposed, own_applied, own_store, table,
                   own_cut, down, reqs, own_asked, collecting, lastOk,
                   own_said, own_faults>>

Ownership == INSTANCE NodeOwnership WITH
    Member <- {"a", "b"}, None <- None, GcInterval <- 1, LastRequest <- 1,
    MaxRequests <- 2, MaxServed <- 1, MaxFaults <- 0, MaxCrashes <- 0,
    now <- own_now, applied <- own_applied, store <- own_store,
    cut <- own_cut, asked <- own_asked, said <- own_said, faults <- own_faults

-----------------------------------------------------------------------------
(* Groups of tasks whose tasks may close them. *)
VARIABLES
    task, grp_asked, owner, created, children, listed, watched, grp_closed,
    grp_done, error, call, busy, waiting, answered, surfaced, raised, doomed

groupsVars == <<task, grp_asked, owner, created, children, listed, watched,
                grp_closed, grp_done, error, call, busy, waiting, answered,
                surfaced, raised, doomed>>

Groups == INSTANCE DispatchGroup WITH
    Root <- "root", Child <- {"c", "d"}, Task <- {"t", "u"},
    Outsider <- {"main"}, None <- None, MayCloseInside <- FALSE,
    MayWatch <- FALSE, Fatal <- {}, Recoverable <- {}, asked <- grp_asked,
    closed <- grp_closed, done <- grp_done

-----------------------------------------------------------------------------
ASSUME ProgressAssumption ==
    /\ Transfer!TransferAssumption /\ Discarded!TransferAssumption
    /\ Grains!SubscriptionConstants
    /\ Follower!FollowerConstants
    /\ Registration!RegistrationConstants
    /\ Activation!ConnectionAssumption
    /\ Reserved!TimesAssumption
    /\ Ownership!OwnershipAssumption
    /\ Groups!GroupAssumption

allVars == <<part, transferVars, grainsVars, followerVars, registrationVars,
             activationVars, reservedVars, ownershipVars, groupsVars>>

ProgressInit ==
    /\ part \in {"transfer", "discarded", "grains", "follower", "registration",
                 "activation", "reserved", "ownership", "groups"}
    /\ Transfer!Init
    /\ Grains!Init
    /\ Follower!Init
    /\ Registration!Init
    /\ Activation!Init
    /\ Reserved!Init
    /\ Ownership!Init
    /\ Groups!Init
    /\ part # "grains" => sub_store = [r \in {"r"} |-> None]
    /\ part # "follower" => \A k \in {1, 2} : cache[k] = {}
    /\ part # "registration" => \A o \in {0, 1} : held[o] = Registration!Nothing

ProgressNext ==
    \/ /\ \/ part = "transfer" /\ Transfer!Next
          \/ part = "discarded" /\ Discarded!Next
       /\ UNCHANGED <<part, grainsVars, followerVars, registrationVars,
                      activationVars, reservedVars, ownershipVars,
                      groupsVars>>
    \/ /\ part = "grains" /\ Grains!Next
       /\ UNCHANGED <<part, transferVars, followerVars, registrationVars,
                      activationVars, reservedVars, ownershipVars,
                      groupsVars>>
    \/ /\ part = "follower" /\ Follower!Next
       /\ UNCHANGED <<part, transferVars, grainsVars, registrationVars,
                      activationVars, reservedVars, ownershipVars,
                      groupsVars>>
    \/ /\ part = "registration" /\ Registration!Next
       /\ UNCHANGED <<part, transferVars, grainsVars, followerVars,
                      activationVars, reservedVars, ownershipVars,
                      groupsVars>>
    \/ /\ part = "activation" /\ Activation!Next
       /\ UNCHANGED <<part, transferVars, grainsVars, followerVars,
                      registrationVars, reservedVars, ownershipVars,
                      groupsVars>>
    \/ /\ part = "reserved" /\ Reserved!Next
       /\ UNCHANGED <<part, transferVars, grainsVars, followerVars,
                      registrationVars, activationVars, ownershipVars,
                      groupsVars>>
    \/ /\ part = "ownership" /\ Ownership!Next
       /\ UNCHANGED <<part, transferVars, grainsVars, followerVars,
                      registrationVars, activationVars, reservedVars,
                      groupsVars>>
    \/ /\ part = "groups" /\ Groups!Next
       /\ UNCHANGED <<part, transferVars, grainsVars, followerVars,
                      registrationVars, activationVars, reservedVars,
                      ownershipVars>>

\* The fairness of each module (its FairSpec), for the part that runs.
TransferFairness ==
    /\ WF_transferVars(part = "transfer" /\ Transfer!Deliver)
    /\ WF_transferVars(part = "discarded" /\ Discarded!Deliver)
    /\ \A l \in {"a"} :
          /\ WF_transferVars(part = "transfer" /\ Transfer!FinishCompaction(l))
          /\ WF_transferVars(part = "transfer" /\ Transfer!Heartbeat(l))
          /\ WF_transferVars(/\ part = "transfer"
                             /\ \/ Transfer!AppendArrives(l)
                                \/ Transfer!AppendTooLate(l))
          /\ WF_transferVars(part = "transfer" /\ Transfer!DialBulk(l))
          /\ WF_transferVars(part = "transfer" /\ Transfer!PeerUp(l))
          /\ WF_transferVars(/\ part = "transfer" /\ Transfer!PeerDown(l)
                             /\ tra_up[l] # tra_f.incarnation)
    /\ \A l \in {"a"} :
          /\ WF_transferVars(part = "discarded" /\ Discarded!FinishCompaction(l))
          /\ WF_transferVars(part = "discarded" /\ Discarded!Heartbeat(l))
          /\ WF_transferVars(/\ part = "discarded"
                             /\ \/ Discarded!AppendArrives(l)
                                \/ Discarded!AppendTooLate(l))
          /\ WF_transferVars(part = "discarded" /\ Discarded!DialBulk(l))
          /\ WF_transferVars(part = "discarded" /\ Discarded!PeerUp(l))
          /\ WF_transferVars(/\ part = "discarded" /\ Discarded!PeerDown(l)
                             /\ tra_up[l] # tra_f.incarnation)

ClientFairness ==
    \A c \in {"c"} :
       /\ WF_grainsVars(part = "grains" /\ Grains!Drain(c))
       /\ WF_grainsVars(part = "grains" /\ Grains!Sent(c))
       /\ WF_grainsVars(part = "grains" /\ Grains!WindowEnds(c))
       /\ WF_grainsVars(part = "grains" /\ Grains!Disconnect(c))

FollowerFairness ==
    \A k \in {1, 2} :
       WF_followerVars(part = "follower" /\ Follower!Subscriber(k))

RegistrationFairness ==
    /\ WF_registrationVars(part = "registration" /\ Registration!Client)
    /\ WF_registrationVars(part = "registration" /\ Registration!Publish)

ActivationFairness ==
    /\ WF_activationVars(part = "activation" /\ Activation!Tick)
    /\ WF_activationVars(part = "activation" /\ \E t \in timers : Activation!Fire(t))

ReservationFairness ==
    /\ SF_reservedVars(part = "reserved" /\ Reserved!Time)
    /\ WF_reservedVars(part = "reserved" /\ Reserved!PollStep)
    /\ WF_reservedVars(part = "reserved" /\ Reserved!Acquired("a"))
    /\ WF_reservedVars(part = "reserved" /\ (\/ Reserved!ReleaseNext("a")
                                             \/ Reserved!Released("a")
                                             \/ Reserved!Discard("a")))
    /\ \A c \in Reserved!Tasks : WF_reservedVars(part = "reserved" /\ Reserved!Execute(c))

OwnershipFairness ==
    /\ WF_ownershipVars(part = "ownership" /\ Ownership!Tick)
    /\ WF_ownershipVars(/\ part = "ownership"
                        /\ \E r \in reqs : Ownership!Serve(r) \/ Ownership!GiveUp(r))
    /\ \A m \in {"a", "b"} :
          /\ WF_ownershipVars(part = "ownership" /\ Ownership!Commit(m))
          /\ WF_ownershipVars(part = "ownership" /\ Ownership!Apply(m))
          /\ WF_ownershipVars(part = "ownership" /\ Ownership!Collect(m))
          /\ WF_ownershipVars(part = "ownership" /\ Ownership!CollectAgain(m))

GroupsFairness ==
    /\ \A t \in {"t", "u"} :
          /\ WF_groupsVars(part = "groups" /\ Groups!Run(t))
          /\ WF_groupsVars(part = "groups" /\ t \in grp_asked /\ Groups!End(t))
    /\ \A p \in Groups!Caller : WF_groupsVars(part = "groups" /\ Groups!CloseStep(p))

ProgressSpec ==
    /\ ProgressInit /\ [][ProgressNext]_allVars
    /\ TransferFairness /\ ClientFairness /\ FollowerFairness
    /\ RegistrationFairness /\ ActivationFairness /\ ReservationFairness
    /\ OwnershipFairness /\ GroupsFairness

-----------------------------------------------------------------------------
(* Properties.                                                               *)

\* Whoever has fallen behind catches up: a follower that is sent snapshots with
\* its leader, as long as its log holds what it acknowledged (CreditIsHeld), a
\* WebSocket's client with the registry as often as it is served, a controller
\* with the registry it has moved to, at its first move, and a registry with the
\* Node that registers there (_send_append, _sender_loop, _on_selection_moved,
\* _registration_loop).
LaggardsCatchUp ==
    /\ part = "transfer" => Transfer!CatchesUp
    /\ part = "discarded" => Discarded!CatchesUp
    /\ part = "grains" => Grains!ClientCatchesUp
    /\ part = "follower" => Follower!Refilled
    /\ part = "registration" => Registration!EventuallyRegistered

\* What was promised for later comes to an end: a scheduled activation is made,
\* fails or is withdrawn, a reservation whose answers were lost is held again or
\* given up and one whose administrator left is freed, a silent Node is collected,
\* and close() returns, whatever the tasks of the group dispatch (_schedule_pending_
\* activation, _tick, collect_expired, DispatchGroup.close).
PromisesEnd ==
    /\ part = "activation" => Activation!PromiseEnds
    /\ part = "reserved" => Reserved!HeldAgain /\ Reserved!LeftIsFreed
    /\ part = "ownership" => Ownership!SilentNodeIsCollected
    /\ part = "groups" => Groups!CloseEnds
=============================================================================
