------------------------------ MODULE MCNodes ------------------------------
(***************************************************************************)
(* A Node and a controller, for TLC: groups of tasks, activations of       *)
(* connections, the status of streams, the Node's registration, the        *)
(* controller's copy of a registry, and reservations of Nodes.  Each       *)
(* behaviour explores one of them, the one that part names; the variables  *)
(* of the others keep one of their initial values, so the run checks the   *)
(* sum of the components and not their product.                            *)
(***************************************************************************)
EXTENDS DispatchGroup

CONSTANT Unrecoverable      \* an error that is_recoverable does not know

VARIABLE part

Errors == INSTANCE DispatchGroup WITH
    Fatal <- {Unrecoverable}, Recoverable <- {}

-----------------------------------------------------------------------------
(* A connection that two clients PATCH, and one whose activations may fail. *)
VARIABLES
    now, reading, staged, active, report, sdp, subscription, stream, pending,
    timers, violated, patches, act_failures, promise, made

activationVars == <<now, reading, staged, active, report, sdp, subscription,
                    stream, pending, timers, violated, patches,
                    act_failures, promise, made>>

Activation == INSTANCE ConnectionActivation WITH
    Client <- {"x", "y"}, Param <- {"p", "q"}, MaxNow <- 2, MaxPatches <- 3,
    MaxFailures <- 0, failures <- act_failures

Failing == INSTANCE ConnectionActivation WITH
    Client <- {"x"}, Param <- {"p", "q"}, MaxNow <- 2, MaxPatches <- 3,
    MaxFailures <- 1, failures <- act_failures

-----------------------------------------------------------------------------
(* A Receiver whose streams follow each other, and a Sender whose streams
   overlap. *)
VARIABLES
    mon_task, stop, bad, engine, engine_state, queue, monitor, mon_faults,
    linkFaults, calm, quiet

statusVars == <<mon_task, stop, bad, engine, engine_state, queue, monitor,
                mon_faults, linkFaults, calm, quiet>>

Status == INSTANCE StatusMonitor WITH
    IsSender <- FALSE, Delay <- 2, MayOverlap <- FALSE, MaxStreams <- 2,
    MaxFaults <- 2, MaxLinkFaults <- 0, task <- mon_task, faults <- mon_faults

Overlap == INSTANCE StatusMonitor WITH
    IsSender <- TRUE, Delay <- 2, MayOverlap <- TRUE, MaxStreams <- 2,
    MaxFaults <- 1, MaxLinkFaults <- 1, task <- mon_task, faults <- mon_faults

-----------------------------------------------------------------------------
(* A Node that registers itself, a Device and a resource of it with one of two
   registries. *)
VARIABLES
    held, reg_up, reg_faults, losses, reg_late, state, event, trackers,
    snapshot, reg_pc, reg_target, reg_selected, probeFirst, needDelete,
    reg_failures, reg_strikes, reg_done

registrationVars == <<held, reg_up, reg_faults, losses, reg_late, state,
                      event, trackers, snapshot, reg_pc, reg_target,
                      reg_selected, probeFirst, needDelete, reg_failures,
                      reg_strikes, reg_done>>

Registration == INSTANCE NodeRegistration WITH
    NTargets <- 2, NResources <- 3, Clustered <- FALSE, FailoverAfter <- 2,
    Published <- {1, 2, 3}, MayStop <- TRUE, MaxVersion <- 2, MaxFaults <- 2,
    MaxLosses <- 0, up <- reg_up, faults <- reg_faults, late <- reg_late,
    pc <- reg_pc, target <- reg_target, selected <- reg_selected,
    failures <- reg_failures, strikes <- reg_strikes, done <- reg_done

-----------------------------------------------------------------------------
(* A controller that follows registries that share their contents, registries
   of which one fails, and registries that may all fail, so that the selection
   moves again. *)
VARIABLES
    contents, fol_up, fol_faults, changes, fol_selected, moves, resynced,
    cache, fol_pc, fol_target, epoch, fol_failures, fol_strikes, frames, open,
    dropping, reload, outdated

followerVars == <<contents, fol_up, fol_faults, changes, fol_selected,
                  moves, resynced, cache, fol_pc, fol_target, epoch,
                  fol_failures, fol_strikes, frames, open, dropping, reload,
                  outdated>>

Follower == INSTANCE RegistryFollower WITH
    NTargets <- 2, NKinds <- 2, Resources <- {"r"}, Distributed <- TRUE,
    FailoverAfter <- 2, Faulty <- {0, 1}, Full <- FALSE, MaxFaults <- 2,
    MaxChanges <- 2, MaxMoves <- 2, up <- fol_up, faults <- fol_faults,
    selected <- fol_selected, pc <- fol_pc, target <- fol_target,
    failures <- fol_failures, strikes <- fol_strikes

Failover == INSTANCE RegistryFollower WITH
    NTargets <- 2, NKinds <- 2, Resources <- {"r"}, Distributed <- FALSE,
    FailoverAfter <- 2, Faulty <- {0}, Full <- FALSE, MaxFaults <- 3,
    MaxChanges <- 0, MaxMoves <- 2, up <- fol_up, faults <- fol_faults,
    selected <- fol_selected, pc <- fol_pc, target <- fol_target,
    failures <- fol_failures, strikes <- fol_strikes

Outages == INSTANCE RegistryFollower WITH
    NTargets <- 2, NKinds <- 2, Resources <- {"r"}, Distributed <- FALSE,
    FailoverAfter <- 2, Faulty <- {0, 1}, Full <- FALSE, MaxFaults <- 2,
    MaxChanges <- 1, MaxMoves <- 2, up <- fol_up, faults <- fol_faults,
    selected <- fol_selected, pc <- fol_pc, target <- fol_target,
    failures <- fol_failures, strikes <- fol_strikes

-----------------------------------------------------------------------------
(* Reservations while requests are lost, slow, or rivals'. *)
VARIABLES
    node, sessions, heap, present, leaving, phase, work, res_late, req, lost,
    restarts

reservationVars == <<node, sessions, heap, present, leaving, phase, work,
                     res_late, req, lost, restarts>>

Reserved == INSTANCE Reservation WITH
    Admins <- {"a"}, Nodes <- {"n"}, AliveTime <- 6, MinLifetime <- 12,
    Lifetime <- 30, RenewRetry <- 3, RequestTime <- 0,
    Faults <- {"request", "keepalive"}, MaxLost <- 1, Uses <- TRUE,
    MaxRestarts <- 0, late <- res_late

Slow == INSTANCE Reservation WITH
    Admins <- {"a"}, Nodes <- {"n"}, AliveTime <- 12, MinLifetime <- 18,
    Lifetime <- 36, RenewRetry <- 6, RequestTime <- 1, Faults <- {},
    MaxLost <- 0, Uses <- FALSE, MaxRestarts <- 0, late <- res_late

Rivals == INSTANCE Reservation WITH
    Admins <- {"a", "b"}, Nodes <- {"n"}, AliveTime <- 6, MinLifetime <- 12,
    Lifetime <- 12, RenewRetry <- 3, RequestTime <- 0, Faults <- {"request"},
    MaxLost <- 0, Uses <- FALSE, MaxRestarts <- 0, late <- res_late

-----------------------------------------------------------------------------
ASSUME NodesAssumption ==
    /\ GroupAssumption /\ Errors!GroupAssumption
    /\ Activation!ConnectionAssumption /\ Failing!ConnectionAssumption
    /\ Status!StatusAssumption /\ Overlap!StatusAssumption
    /\ Registration!RegistrationConstants
    /\ Follower!FollowerConstants /\ Failover!FollowerConstants
    /\ Outages!FollowerConstants
    /\ Reserved!TimesAssumption /\ Slow!TimesAssumption /\ Rivals!TimesAssumption

allVars == <<part, vars, activationVars, statusVars, registrationVars,
             followerVars, reservationVars>>

\* The instances of a module share its variables, which start as the part that
\* runs wants them; the ones that stand still start in one of their states.
NodesInit ==
    /\ part \in {"groups", "errors", "activation", "failing", "status", "overlap",
                "registration", "follower", "failover", "outages", "reserved",
                "slow", "rivals"}
    /\ Init
    /\ IF part = "failing" THEN Failing!Init ELSE Activation!Init
    /\ IF part = "overlap" THEN Overlap!Init ELSE Status!Init
    /\ Registration!Init
    /\ IF part \in {"failover", "outages"} THEN Failover!Init ELSE Follower!Init
    /\ CASE part = "slow" -> Slow!Init
         [] part = "rivals" -> Rivals!Init
         [] OTHER -> Reserved!Init
    /\ part \notin {"activation", "failing"} => staged.param = "p"
    /\ part # "registration" => \A o \in {0, 1} : held[o] = Registration!Nothing
    /\ part \notin {"follower", "failover", "outages"} =>
          \A o \in {0, 1}, k \in {1, 2} : contents[o][k] = {}
    /\ part \notin {"follower", "failover", "outages"} =>
          \A k \in {1, 2} : cache[k] = {}

NodesNext ==
    \/ /\ \/ part = "groups" /\ Next
          \/ part = "errors" /\ Errors!Next
       /\ UNCHANGED <<part, activationVars, statusVars, registrationVars,
                      followerVars, reservationVars>>
    \/ /\ \/ part = "activation" /\ Activation!Next
          \/ part = "failing" /\ Failing!Next
       /\ UNCHANGED <<part, vars, statusVars, registrationVars,
                      followerVars, reservationVars>>
    \/ /\ \/ part = "status" /\ Status!Next
          \/ part = "overlap" /\ Overlap!Next
       /\ UNCHANGED <<part, vars, activationVars, registrationVars,
                      followerVars, reservationVars>>
    \/ /\ part = "registration" /\ Registration!Next
       /\ UNCHANGED <<part, vars, activationVars, statusVars, followerVars,
                      reservationVars>>
    \/ /\ \/ part = "follower" /\ Follower!Next
          \/ part = "failover" /\ Failover!Next
          \/ part = "outages" /\ Outages!Next
       /\ UNCHANGED <<part, vars, activationVars, statusVars,
                      registrationVars, reservationVars>>
    \/ /\ \/ part = "reserved" /\ Reserved!Next
          \/ part = "slow" /\ Slow!Next
          \/ part = "rivals" /\ Rivals!Next
       /\ UNCHANGED <<part, vars, activationVars, statusVars,
                      registrationVars, followerVars>>

NodesSpec == NodesInit /\ [][NodesNext]_allVars

-----------------------------------------------------------------------------
(* Properties.                                                               *)

\* The components keep their types.
NodesTypeOK ==
    /\ part = "groups" => TypeOK
    /\ part = "errors" => Errors!TypeOK
    /\ part = "activation" => Activation!TypeOK
    /\ part = "failing" => Failing!TypeOK
    /\ part = "status" => Status!TypeOK
    /\ part = "overlap" => Overlap!TypeOK
    /\ part = "registration" => Registration!TypeOK
    /\ part = "follower" => Follower!TypeOK
    /\ part = "failover" => Failover!TypeOK
    /\ part = "outages" => Outages!TypeOK
    /\ part = "reserved" => Reserved!TypeOK
    /\ part = "slow" => Slow!TypeOK
    /\ part = "rivals" => Rivals!TypeOK

\* When close() answers, no task of the group or of a group under it is left, and
\* a closed child is off its parent's list; and close() raises if a task raised an
\* unrecoverable error (DispatchGroup.close).  One caller closes, from outside the
\* group, and a part has errors of one sort: with two closers, a close from inside
\* or errors of both sorts the code breaks it (tasks/__init__.py:173, 196, 292).
\* A child's close() that raises ends its parent's before the rest is joined (181),
\* so the part with fatal errors leaves CloseJoins out.
GroupsAreClosed ==
    /\ part = "groups" => CloseJoins /\ DetachedWhenClosed
    /\ part = "errors" => Errors!DetachedWhenClosed /\ Errors!FatalSurfaces

\* A client that was answered 202 and has not withdrawn has its timer, with the
\* deadline and the master_enable of that answer, and what an activation sets
\* agrees afterwards (_schedule_pending_activation, do_activation).  Where an
\* activation may fail the timer is all that is kept: a failure half-way leaves
\* the lock, the report and the stream as they were.
ActivationsAreKept ==
    /\ part = "activation" =>
          /\ Activation!PromiseHeld /\ Activation!LockedIsPending
          /\ Activation!EffectsAgree
    /\ part = "failing" => Failing!PromiseHeld

\* A timer activates only what is still promised, and nothing else is activated
\* while a scheduled activation is pending (_pending_activation_task,
\* _pending_activation_conflict).
TimersKeepPromises ==
    Activation!TimerKeepsPromise /\ Activation!PendingIsExclusive

\* Once the delay has passed the monitor tells of the stream there is, where one
\* stream ends before the next starts; starts, stops and what an ended stream
\* still emits are no faults; and engine_state is of the stream started last, where
\* streams overlap too (ResourceMonitor, _on_streaming_done).
StatusIsTrue ==
    /\ part = "status" => Status!TellsTheStream /\ Status!NoFalseFault
    /\ part = "overlap" =>
          Overlap!NoFalseFault /\ Overlap!InactiveStays /\ Overlap!EngineIsItsOwn

\* When a cycle has ended well the registry holds exactly what the cycle set out
\* to register, over failed requests and a change of registry; no registry forgets
\* what it was told here (_registration_loop, check_tracker).
CycleRegistersAll == part = "registration" => Registration!CycleRegistersAll

\* The cache shows all that the selected registry holds of a kind whose connected
\* subscriber has consumed every grain, while registries fail in turn, the
\* selection moves and moves back and a reload is under way, and it shows nothing
\* of a registry that was left; a kind that a reload has replaced by an answer out
\* of date is excepted from both, for ReplaceAll asks neither what was applied
\* meanwhile nor which registry is selected (rds_websocket.py:439).  Where only
\* the first registry fails, its outage moves the selection once (_run_one,
\* _on_selection_moved, RegistrySelector.fail).
FollowersAreFilled ==
    /\ part = "follower" => Follower!NothingMissing
    /\ part = "failover" =>
          /\ Failover!NothingMissing /\ Failover!NoMerging
          /\ Failover!OneOutageMovesOnce
    /\ part = "outages" => Outages!NothingMissing /\ Outages!NoMerging

\* A reservation that the controller shows as held is held, and one refused
\* renew is enough, for a controller that keeps one Node: with several, the walk
\* from one to the next may overrun a Node's time (reservation.py:496) (_tick,
\* _try_renew, _apply_too_early).
ReservationsAreKept ==
    /\ part = "reserved" => Reserved!Kept /\ Reserved!OneTooEarly
    /\ part = "slow" => Slow!Kept /\ Slow!OneTooEarly
    /\ part = "rivals" => Rivals!Kept
=============================================================================
