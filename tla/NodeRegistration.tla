---- MODULE NodeRegistration ----
(***************************************************************************)
(* The Registration API client of a Node (src/nmos/node/registry.py): the  *)
(* cycle of DELETE, POSTs, heartbeat and wait, the trackers that keep it   *)
(* from POSTing twice what has not changed (publish.py), and the failover  *)
(* from one registry to the next (src/nmos/rds_targets.py).                *)
(*                                                                         *)
(* The client is one task that awaits every request; publications happen   *)
(* between its steps.  A request that fails may have been executed, and a  *)
(* DELETE may be executed after its timeout.  Client identities, and the   *)
(* garbage of replaced ids, are left out.                                  *)
(***************************************************************************)
EXTENDS Naturals, FiniteSets, FiniteSetsExt

CONSTANTS
    NTargets,      \* registries configured, in order
    NResources,    \* 1 is the Node, 2 its Device, the others are the Device's
    Clustered,     \* the registries share their contents
    FailoverAfter, \* FAILOVER_AFTER
    Published,     \* the resources that change after the first publication
    MayStop,       \* the process may shut down
    MaxVersion,    \* bound on versions
    MaxFaults,     \* bound on outages and requests that fail at a registry that is up
    MaxLosses      \* bound on registries forgetting the Node and on late DELETEs

Targets   == 0 .. NTargets - 1
Resources == 1 .. NResources

\* Assumed of the constants by the modules that instantiate this one.
RegistrationConstants ==
    /\ NTargets \in Nat \ {0}
    /\ NResources \in Nat \ {0}
    /\ Clustered \in BOOLEAN
    /\ FailoverAfter \in Nat \ {0}
    /\ Published \subseteq Resources
    /\ MayStop \in BOOLEAN
    /\ MaxVersion \in Nat \ {0}
    /\ MaxFaults \in Nat
    /\ MaxLosses \in Nat

VARIABLES
    held,       \* held[o]: the versions registry o, or the cluster, holds
    up,         \* the registries that answer
    faults,     \* faults so far
    losses,     \* losses so far
    late,       \* DELETEs that timed out and may still be executed
    state,      \* the published versions, 0 before the first publication
    event,      \* the publication event is set
    trackers,   \* the versions POSTed, as far as the client knows
    snapshot,   \* the versions of the cycle under way
    pc,         \* where the client is
    target,     \* the registry it uses
    selected,   \* the registry the selector names
    probeFirst, \* the next session starts with a heartbeat
    needDelete, \* need_initial_delete
    failures,   \* _failures
    strikes,    \* failed cycles since the last one that succeeded (history)
    done        \* the process is shutting down

registries == <<held, up, faults, losses, late>>
publisher  == <<state, event>>
session    == <<target, selected, probeFirst>>
cycle      == <<trackers, snapshot, needDelete>>
counts     == <<failures, strikes>>
vars == <<registries, publisher, session, cycle, counts, pc, done>>

Version == 0 .. MaxVersion
Nothing == [r \in Resources |-> 0]

Origin(t) == IF Clustered THEN 0 ELSE t
Here == Origin(target)
Parent(r) == IF r = 2 THEN 1 ELSE 2

TypeOK ==
    /\ held \in [Targets -> [Resources -> Version]]
    /\ up \subseteq Targets
    /\ faults \in 0 .. MaxFaults
    /\ losses \in 0 .. MaxLosses
    /\ late \subseteq Targets
    /\ state \in [Resources -> Version]
    /\ event \in BOOLEAN
    /\ trackers \in [Resources -> Version]
    /\ snapshot \in [Resources -> Version]
    /\ pc \in {"adopt", "probe", "head", "delete", "update", "tidy", "wait",
               "pause", "cleanup", "ended"}
    /\ target \in Targets
    /\ selected \in Targets
    /\ probeFirst \in BOOLEAN
    /\ needDelete \in BOOLEAN
    /\ failures \in 0 .. FailoverAfter
    /\ strikes \in 0 .. FailoverAfter
    /\ done \in BOOLEAN

(* A registry may hold what an earlier life of the Node left there.        *)
Init ==
    /\ held \in [Targets -> {Nothing, [r \in Resources |-> 1]}]
    /\ Clustered => \A o \in Targets \ {0} : held[o] = Nothing
    /\ up = Targets
    /\ faults = 0
    /\ losses = 0
    /\ late = {}
    /\ state = Nothing
    /\ event = FALSE
    /\ trackers = Nothing
    /\ snapshot = Nothing
    /\ pc = "adopt"
    /\ target = 0
    /\ selected = 0
    /\ probeFirst = FALSE
    /\ needDelete = FALSE
    /\ failures = 0
    /\ strikes = 0
    /\ done = FALSE

-----------------------------------------------------------------------------
(* The Node publishes: everything at first, then a new version.            *)
Publish ==
    /\ ~done
    /\ \/ /\ state = Nothing
          /\ state' = [r \in Resources |-> 1]
       \/ /\ state # Nothing
          /\ \E r \in Published :
               /\ state[r] < MaxVersion
               /\ state' = [state EXCEPT ![r] = @ + 1]
    /\ event' = TRUE
    /\ UNCHANGED <<registries, session, cycle, counts, pc, done>>

(* Registries stop and come back; they forget a Node they collected, or    *)
(* all they held; a DELETE the client gave up on is executed.              *)
GoDown(t) ==
    /\ t \in up \ {NTargets - 1}
    /\ faults < MaxFaults
    /\ faults' = faults + 1
    /\ up' = up \ {t}
    /\ UNCHANGED <<held, losses, late, publisher, session, cycle, counts, pc, done>>

ComeBack(t) ==
    /\ t \notin up
    /\ up' = up \cup {t}
    /\ UNCHANGED <<held, faults, losses, late, publisher, session, cycle, counts, pc, done>>

Lose(o) ==
    /\ losses < MaxLosses
    /\ held[o] # Nothing
    /\ losses' = losses + 1
    /\ held' = [held EXCEPT ![o] = Nothing]
    /\ UNCHANGED <<up, faults, late, publisher, session, cycle, counts, pc, done>>

LateDelete(o) ==
    /\ o \in late
    /\ late' = late \ {o}
    /\ held' = [held EXCEPT ![o] = Nothing]
    /\ UNCHANGED <<up, faults, losses, publisher, session, cycle, counts, pc, done>>

-----------------------------------------------------------------------------
(* A request fails: the registry is down, or it is up and the request is   *)
(* refused with 5xx, times out or is cut off, before or after what it asks *)
(* was done.                                                               *)
Unexecuted ==
    /\ \/ target \notin up /\ UNCHANGED faults
       \/ target \in up /\ faults < MaxFaults /\ faults' = faults + 1
    /\ UNCHANGED <<held, up, losses, late>>

Executed(result) ==
    /\ target \in up
    /\ faults < MaxFaults
    /\ faults' = faults + 1
    /\ held' = [held EXCEPT ![Here] = result]
    /\ UNCHANGED <<up, losses, late>>

ExecutedLate ==
    /\ target \in up
    /\ faults < MaxFaults
    /\ losses < MaxLosses
    /\ faults' = faults + 1
    /\ losses' = losses + 1
    /\ late' = late \cup {Here}
    /\ UNCHANGED <<held, up>>

Answered(result) ==
    /\ target \in up
    /\ held' = [held EXCEPT ![Here] = result]
    /\ UNCHANGED <<up, faults, losses, late>>

(* Start over: everything is to be DELETEd and POSTed again.               *)
ResetTrackers ==
    /\ trackers' = Nothing
    /\ event' = FALSE
    /\ UNCHANGED state

\* Mutant: a cycle that failed leaves the trackers as they are.
MStartOver ==
    /\ needDelete' = TRUE
    /\ UNCHANGED <<trackers, publisher>>

StartOver ==
    /\ ResetTrackers
    /\ needDelete' = TRUE

\* Mutant: the threshold is never acted on.
MNoteFailure ==
    /\ strikes' = IF strikes < FailoverAfter THEN strikes + 1 ELSE strikes
    /\ failures' = failures + 1
    /\ pc' = "pause"
    /\ UNCHANGED selected

(* _note_failure of a fault of the registry: after FAILOVER_AFTER of them  *)
(* the selector moves on and the session ends.                             *)
NoteFailure ==
    /\ strikes' = IF strikes < FailoverAfter THEN strikes + 1 ELSE strikes
    /\ IF failures + 1 < FailoverAfter
       THEN /\ failures' = failures + 1
            /\ pc' = "pause"
            /\ UNCHANGED selected
       ELSE IF NTargets = 1
       THEN failures' = 0 /\ pc' = "pause" /\ UNCHANGED selected
       ELSE /\ failures' = failures + 1
            /\ selected' = IF target = selected THEN (selected + 1) % NTargets
                                                ELSE selected
            /\ pc' = "cleanup"

CycleFails ==
    /\ StartOver
    /\ NoteFailure
    /\ UNCHANGED <<snapshot, target, probeFirst, done>>

\* Mutant: a 404 is only waited out.
MCycleRejected ==
    /\ pc' = "pause"
    /\ UNCHANGED <<publisher, session, cycle, counts, done>>

(* A 4xx is not evidence about the registry and is not counted.            *)
CycleRejected ==
    /\ StartOver
    /\ pc' = "pause"
    /\ UNCHANGED <<snapshot, session, counts, done>>

-----------------------------------------------------------------------------
(* run: a session with the selected registry, and the DELETE that ends it. *)

Adopt ==
    /\ pc = "adopt"
    /\ target' = selected
    /\ failures' = 0
    /\ strikes' = 0
    /\ needDelete' = ~probeFirst
    /\ pc' = IF probeFirst THEN "probe" ELSE "head"
    /\ UNCHANGED <<registries, publisher, selected, probeFirst, trackers, snapshot, done>>

Cleanup ==
    /\ pc = "cleanup"
    /\ Answered(Nothing) \/ Unexecuted
    /\ IF done THEN pc' = "ended" /\ UNCHANGED probeFirst
               ELSE pc' = "adopt" /\ probeFirst' = TRUE
    /\ UNCHANGED <<publisher, target, selected, cycle, counts, done>>

(* The shutdown cancels the request or the sleep under way; a DELETE on    *)
(* leaving a registry is abandoned.                                        *)
Stop ==
    /\ MayStop
    /\ ~done
    /\ done' = TRUE
    /\ pc' = IF pc = "cleanup" THEN "ended" ELSE "cleanup"
    /\ UNCHANGED <<registries, publisher, session, cycle, counts>>

(* The heartbeat that asks a registry just adopted whether it holds the    *)
(* Node.                                                                   *)
ProbeFound ==
    /\ pc = "probe"
    /\ held[Here][1] # 0
    /\ Answered(held[Here])
    /\ pc' = "head"
    /\ UNCHANGED <<publisher, session, cycle, counts, done>>

ProbeFails ==
    /\ pc = "probe"
    /\ \/ Answered(held[Here]) /\ held[Here][1] = 0
       \/ Unexecuted
    /\ StartOver
    /\ pc' = "head"
    /\ UNCHANGED <<snapshot, session, counts, done>>

(* The top of the cycle.  The snapshot is read once, when POSTing starts.  *)
Head ==
    /\ pc = "head"
    /\ state # Nothing
    /\ IF needDelete
       THEN pc' = "delete" /\ UNCHANGED snapshot
       ELSE pc' = "update" /\ snapshot' = state
    /\ UNCHANGED <<registries, publisher, session, trackers, needDelete, counts, done>>

DeleteFromRegistry ==
    /\ pc = "delete"
    /\ \/ /\ Answered(Nothing)
          /\ needDelete' = FALSE
          /\ snapshot' = state
          /\ pc' = "update"
          /\ UNCHANGED <<publisher, session, trackers, counts, done>>
       \/ /\ Unexecuted \/ Executed(Nothing) \/ ExecutedLate
          /\ CycleFails

(* The resources still to be POSTed: those whose tracker is not theirs.    *)
Due == {r \in Resources : trackers[r] # snapshot[r]}

Accepted(r) == r = 1 \/ held[Here][Parent(r)] # 0

PostResource ==
    /\ pc = "update"
    /\ Due # {}
    /\ LET r == Min(Due)
           posted == [held[Here] EXCEPT ![r] = snapshot[r]]
       IN \/ /\ Accepted(r)
             /\ Answered(posted)
             /\ trackers' = [trackers EXCEPT ![r] = snapshot[r]]
             /\ UNCHANGED <<publisher, session, snapshot, needDelete, counts, pc, done>>
          \/ /\ ~Accepted(r)
             /\ Answered(held[Here])
             /\ CycleRejected
          \/ /\ Unexecuted \/ (Accepted(r) /\ Executed(posted))
             /\ CycleFails

Heartbeat ==
    /\ pc = "update"
    /\ Due = {}
    /\ \/ /\ held[Here][1] # 0
          /\ Answered(held[Here])
          /\ strikes' = 0
          /\ pc' = "tidy"
          /\ UNCHANGED <<publisher, session, cycle, failures, done>>
       \/ /\ held[Here][1] = 0
          /\ Answered(held[Here])
          /\ CycleRejected
       \/ Unexecuted /\ CycleFails

(* After the garbage has been deleted the event is cleared and waited for. *)
ClearEvent ==
    /\ pc = "tidy"
    /\ event' = FALSE
    /\ pc' = "wait"
    /\ UNCHANGED <<registries, state, session, cycle, counts, done>>

(* The event was set, or the heartbeat interval or the pause is over.      *)
Wake ==
    /\ pc \in {"wait", "pause"}
    /\ pc' = "head"
    /\ UNCHANGED <<registries, publisher, session, cycle, counts, done>>

Client ==
    \/ Adopt \/ Cleanup \/ ProbeFound \/ ProbeFails \/ Head \/ DeleteFromRegistry
    \/ PostResource \/ Heartbeat \/ ClearEvent \/ Wake

Next ==
    \/ Publish
    \/ \E t \in Targets : GoDown(t) \/ ComeBack(t) \/ Lose(t) \/ LateDelete(t)
    \/ Stop
    \/ Client

Spec == Init /\ [][Next]_vars

(* The client's task goes on while it can, and the Node publishes once.    *)
(* Nothing is assumed of a registry that is down, or of a late DELETE.     *)
FairSpec == Spec /\ WF_vars(Client) /\ WF_vars(Publish)

-----------------------------------------------------------------------------
(* When a cycle has ended well the registry holds exactly what the cycle   *)
(* set out to register, whatever failed in the cycles before it and        *)
(* whether or not a failed request was executed (_registration_loop,       *)
(* _update_registry, check_tracker, reset_trackers).  It is a property of  *)
(* instances in which registries lose nothing.                             *)
CycleRegistersAll == pc = "wait" => held[Here] = snapshot

(* Once the faults are over the registry in use holds what the Node        *)
(* publishes, even if it forgot the Node or a DELETE was executed late     *)
(* (_registration_loop: 404 on heartbeat, errors, failover).               *)
(* Violated where a registry that forgot the Node is sent it again by a    *)
(* change before the next heartbeat: the rest stays tracked.               *)
EventuallyRegistered == <>[](done \/ held[Here] = state)

(* The client moves to another registry only after FAILOVER_AFTER failed   *)
(* cycles in a row (_note_failure).                                        *)
(* Violated: a cycle that succeeds does not clear the count.               *)
ThreeInARow ==
    [][selected' # selected => strikes + 1 >= FailoverAfter]_vars

(* Moving from one member of a cluster to another leaves a registration    *)
(* that the cluster holds in full alone (run, _registration_loop).         *)
(* Violated: the clean-up of a session that fails over deletes the Node    *)
(* there.                                                                  *)
FailoverKeepsRegistration ==
    [][/\ pc = "cleanup" /\ pc' = "adopt"
       /\ Clustered /\ snapshot # Nothing /\ held[0] = snapshot
       => held' = held]_vars

(* A client that waits without having been woken has nothing new to        *)
(* register (PublishManager.event).                                        *)
(* Violated by news between the reading of what is published and the       *)
(* clearing of the event.                                                  *)
NewsWakes == pc = "wait" /\ ~event => state = snapshot
====
