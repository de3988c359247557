------------------------ MODULE ConnectionActivation ------------------------
(***************************************************************************)
(* The IS-05 connection of one Sender of the Node: PATCHes of /staged, the *)
(* activation they ask for, now or later, the timer of a scheduled one,    *)
(* and what an activation changes (nmos/api/handlers_connection.py,        *)
(* nmos/node/activation_engine.py).                                        *)
(*                                                                         *)
(* The event loop runs one task at a time.  A PATCH looks at the Sender,   *)
(* waits for its body, and does everything else in one step; a timer waits *)
(* for its deadline and does everything else in one step.                  *)
(***************************************************************************)
EXTENDS Integers, FiniteSets

CONSTANTS
    Client,         \* who sends PATCHes
    Param,          \* values of the transport parameters
    None,
    MaxNow,         \* how far the clock goes
    MaxPatches,     \* how many PATCHes are carried out
    MaxFailures     \* how many activations fail

\* Assumed of the constants by the modules that instantiate this one.
ConnectionAssumption ==
    /\ None \notin Param \cup Client
    /\ {MaxNow, MaxPatches, MaxFailures} \subseteq Nat

Scheduled == {"relative", "absolute"}
Mode == Scheduled \cup {"immediate"}
Time == 0 .. MaxNow

(***************************************************************************)
(* What a PATCH may carry.  A field it leaves out is None; a mode it sets  *)
(* to null is "null".  The time of a relative activation is an offset, of  *)
(* an absolute one an instant.                                             *)
(***************************************************************************)
Patch == [mode : {None, "null", "immediate"}, time : {0},
          enable : BOOLEAN \cup {None}, param : Param \cup {None}]
         \cup [mode : Scheduled, time : 0 .. MaxNow,
               enable : BOOLEAN \cup {None}, param : Param \cup {None}]

VARIABLES
    now,
    reading,        \* the clients whose PATCH waits for its body
    staged,         \* activation.staged_state and .staged
    active,         \* activation.active_state and .active
    report,         \* activation.mode and .activation_time_tai
    sdp, subscription, stream,  \* what else an activation sets
    pending,        \* node.dg_pending_activation of this Sender: a timer
    timers,         \* the timer tasks that have not ended
    violated,       \* CompatibilityStatus is active_constraints_violation
    patches, failures,
    promise,        \* history: the scheduled activation a client was told of,
                    \* until it is made, fails or is withdrawn
    made            \* history: the activation that was last carried out

effects == <<active, sdp, subscription, stream>>
vars == <<now, reading, staged, active, report, sdp, subscription, stream,
          pending, timers, violated, patches, failures, promise, made>>

NoReport == [mode |-> None, time |-> 0]
Never == [number |-> 0, by |-> None, mode |-> None, time |-> 0,
          enable |-> FALSE]

TypeOK ==
    /\ now \in 0 .. MaxNow
    /\ reading \subseteq Client
    /\ staged \in [mode : Mode \cup {None}, time : Time, enable : BOOLEAN,
                   param : Param]
    /\ active \in [enable : BOOLEAN, param : Param]
    /\ report \in [mode : Mode \cup {None}, time : Time]
    /\ {sdp, stream} \subseteq Param \cup {None}
    /\ {subscription, violated} \subseteq BOOLEAN
    /\ pending \in 1 .. MaxPatches \cup {None}
    /\ timers \subseteq [id : 1 .. MaxPatches, due : Time, enable : BOOLEAN]
    /\ patches \in 0 .. MaxPatches
    /\ failures \in 0 .. MaxFailures
    /\ promise = None \/ promise \in [due : Time, enable : BOOLEAN]
    /\ made \in [number : 0 .. MaxPatches, by : {"patch", "timer", None},
                 mode : Mode \cup {None}, time : Time, enable : BOOLEAN]

Init ==
    /\ now = 0
    /\ reading = {}
    /\ \E p \in Param :
          /\ staged = [mode |-> None, time |-> 0, enable |-> FALSE,
                       param |-> p]
          /\ active = [enable |-> FALSE, param |-> p]
    /\ report = NoReport
    /\ sdp = None /\ subscription = FALSE /\ stream = None
    /\ pending = None /\ timers = {}
    /\ violated = FALSE
    /\ patches = 0 /\ failures = 0
    /\ promise = None
    /\ made = Never

-----------------------------------------------------------------------------
(* Carrying an activation out.                                             *)

\* Mutant: master_enable is read from the staged state.
ActivateAsStaged(s, enable, by) ==
    /\ active' = [enable |-> s.enable, param |-> s.param]
    /\ sdp' = IF enable THEN s.param ELSE None
    /\ subscription' = enable
    /\ stream' = IF enable THEN s.param ELSE None
    /\ made' = [number |-> made.number + 1, by |-> by,
                mode |-> report'.mode, time |-> report'.time,
                enable |-> enable]
    /\ UNCHANGED failures

(***************************************************************************)
(* do_activation, when it succeeds: the staged parameters become active,   *)
(* with the master_enable of the request that asked for the activation;    *)
(* the SDP, the subscription and the stream follow.                        *)
(***************************************************************************)
Activate(s, enable, by) ==
    /\ active' = [enable |-> enable, param |-> s.param]
    /\ sdp' = IF enable THEN s.param ELSE None
    /\ subscription' = enable
    /\ stream' = IF enable THEN s.param ELSE None
    /\ made' = [number |-> made.number + 1, by |-> by,
                mode |-> report'.mode, time |-> report'.time,
                enable |-> enable]
    /\ UNCHANGED failures

(***************************************************************************)
(* do_activation, when it raises: in the flip, after the parameters were   *)
(* copied; making the SDP, with active_state already changed; or starting  *)
(* the stream or renewing the keys of one that stopped, with the           *)
(* subscription changed and the old stream stopped.                        *)
(* The roll-back puts back the SDP; active_state is put back to itself.    *)
(***************************************************************************)
FailToActivate(s, enable) ==
    /\ failures < MaxFailures
    /\ failures' = failures + 1
    /\ \/ /\ active' = [active EXCEPT !.param = s.param]
          /\ UNCHANGED <<subscription, stream>>
       \/ /\ enable
          /\ active' = [enable |-> enable, param |-> s.param]
          /\ UNCHANGED <<subscription, stream>>
       \/ /\ active' = [enable |-> enable, param |-> s.param]
          /\ subscription' = enable
          /\ stream' = None
    /\ UNCHANGED <<sdp, made>>

-----------------------------------------------------------------------------
(* The timer of a scheduled activation.                                    *)

(***************************************************************************)
(* _cancel_pending_activation: the entry goes, and the task with it unless *)
(* its deadline has passed and it is about to run.                         *)
(***************************************************************************)
StillRunning(ts) == {t \in ts : t.id # pending \/ t.due <= now}

\* _cancel_pending, for a staged mode of null.
CancelPending ==
    /\ pending' = None
    /\ timers' = StillRunning(timers)
    /\ report' = NoReport

\* Mutant: the timer is armed first, and cancelled with the old one.
ScheduleThenCancel(due, enable) ==
    /\ pending' = None
    /\ timers' = StillRunning(timers)

\* _schedule_pending_activation: one timer per resource.
SchedulePending(due, enable) ==
    LET timer == [id |-> patches + 1, due |-> due, enable |-> enable] IN
    /\ pending' = timer.id
    /\ timers' = StillRunning(timers) \cup {timer}

\* Mutant: the activation stays staged when it has been carried out.
NotReset(s) == s

(***************************************************************************)
(* reset_staged_activation.                                                *)
(***************************************************************************)
Reset(s) == [s EXCEPT !.mode = None, !.time = 0]

\* Mutant: a timer does not look whether it is still the registered one.
AlwaysRegistered(t) == TRUE

(***************************************************************************)
(* _pending_activation_task past its deadline: it acts only as the timer   *)
(* registered for the resource.  A failure is logged; the staged mode      *)
(* stays.                                                                  *)
(***************************************************************************)
IsRegistered(t) == t.id = pending

Fire(t) ==
    /\ t.due <= now
    /\ IsRegistered(t)
    /\ timers' = timers \ {t}
    /\ pending' = IF pending = t.id THEN None ELSE pending
    /\ promise' = IF pending = t.id THEN None ELSE promise
    /\ UNCHANGED <<now, reading, report, violated, patches>>
    /\ \/ Activate(staged, t.enable, "timer") /\ staged' = Reset(staged)
       \/ FailToActivate(staged, t.enable) /\ UNCHANGED staged

\* A timer cancelled after its deadline finds itself unregistered.
FindCancelled(t) ==
    /\ t.due <= now
    /\ ~IsRegistered(t)
    /\ timers' = timers \ {t}
    /\ UNCHANGED <<now, reading, staged, effects, report, pending, violated,
                   patches, failures, promise, made>>

-----------------------------------------------------------------------------
(* PATCH /staged.                                                          *)

(***************************************************************************)
(* The handler up to its only await.                                       *)
(***************************************************************************)
BeginPatch(c) ==
    /\ c \notin reading
    /\ ~violated
    /\ patches < MaxPatches
    /\ reading' = reading \cup {c}
    /\ UNCHANGED <<now, staged, effects, report, pending, timers, violated,
                   patches, failures, promise, made>>

\* Mutant: the lock is not looked at.
NoConflict(p) == FALSE

(***************************************************************************)
(* _pending_activation_conflict: 423.                                      *)
(***************************************************************************)
Conflict(p) == staged.mode # None /\ p.mode \in Mode

\* 423, or 400 for a body that does not decode or that the transport
\* constraints do not allow: nothing was applied.
Refuse(c) ==
    /\ c \in reading
    /\ reading' = reading \ {c}
    /\ UNCHANGED <<now, staged, effects, report, pending, timers, violated,
                   patches, failures, promise, made>>

\* Mutant: a mode set to null is staged as a mode.
AppliedVerbatim(p) ==
    [mode |-> IF p.mode = None THEN staged.mode ELSE p.mode,
     time |-> IF p.mode \in Scheduled THEN p.time ELSE staged.time,
     enable |-> IF p.enable = None THEN staged.enable ELSE p.enable,
     param |-> IF p.param = None THEN staged.param ELSE p.param]

(***************************************************************************)
(* _apply_patch_state_to_activation: the fields the PATCH defines.         *)
(***************************************************************************)
Applied(p) ==
    [mode |-> IF p.mode = None THEN staged.mode
              ELSE IF p.mode = "null" THEN None ELSE p.mode,
     time |-> IF p.mode \in Scheduled THEN p.time ELSE staged.time,
     enable |-> IF p.enable = None THEN staged.enable ELSE p.enable,
     param |-> IF p.param = None THEN staged.param ELSE p.param]

\* When the staged scheduled activation is due.
Due(s) == IF s.mode = "relative" THEN now + s.time ELSE s.time

(***************************************************************************)
(* process_activation with a mode to carry out now, by name or because its *)
(* time has passed.  The activation is reported as made before it is; when *)
(* it fails, the 400 leaves the staged mode in place.                      *)
(***************************************************************************)
ActivateNow(s) ==
    /\ s.mode = "immediate" \/ Due(s) <= now
    /\ report' = [mode |-> s.mode, time |-> now]
    /\ UNCHANGED <<pending, timers, promise>>
    /\ \/ Activate(s, s.enable, "patch") /\ staged' = Reset(s)
       \/ FailToActivate(s, s.enable) /\ staged' = s

\* Mutant: a PATCH of parameters arms the pending timer anew.
NeverLeft(s) == FALSE

\* A scheduled mode with its timer already running is left alone.
LeaveScheduled(s) == s.mode \in Scheduled /\ pending # None

\* process_activation with a time to come, that the clock reaches: 202.
ScheduleLater(s) ==
    /\ s.mode \in Scheduled
    /\ Due(s) \in now + 1 .. MaxNow
    /\ staged' = s
    /\ report' = [mode |-> s.mode, time |-> Due(s)]
    /\ SchedulePending(Due(s), s.enable)
    /\ promise' = IF promise = None THEN [due |-> Due(s), enable |-> s.enable]
                ELSE promise
    /\ UNCHANGED <<effects, failures, made>>

\* process_activation with no mode: whatever was pending is withdrawn.
Withdraw(s) ==
    /\ s.mode = None
    /\ staged' = s
    /\ CancelPending
    /\ promise' = None
    /\ UNCHANGED <<effects, failures, made>>

ProcessActivation(s) ==
    \/ Withdraw(s)
    \/ /\ LeaveScheduled(s)
       /\ staged' = s
       /\ UNCHANGED <<effects, report, pending, timers, failures, promise,
                      made>>
    \/ /\ s.mode # None
       /\ ~LeaveScheduled(s)
       /\ ActivateNow(s) \/ ScheduleLater(s)

(***************************************************************************)
(* The handler after its await, for a PATCH that is not refused.           *)
(***************************************************************************)
FinishPatch(c, p) ==
    /\ c \in reading
    /\ patches < MaxPatches
    /\ ~Conflict(p)
    /\ reading' = reading \ {c}
    /\ patches' = patches + 1
    /\ ProcessActivation(Applied(p))
    /\ UNCHANGED <<now, violated>>

-----------------------------------------------------------------------------
(***************************************************************************)
(* IS-11 constraints of the Sender set or removed, which an active Sender  *)
(* refuses; its compatibility is computed anew.                            *)
(***************************************************************************)
Constrain ==
    /\ ~subscription
    /\ violated' = ~violated
    /\ UNCHANGED <<now, reading, staged, effects, report, pending, timers,
                   patches, failures, promise, made>>

Tick ==
    /\ now < MaxNow
    /\ now' = now + 1
    /\ UNCHANGED <<reading, staged, effects, report, pending, timers,
                   violated, patches, failures, promise, made>>

Next ==
    \/ \E c \in Client : BeginPatch(c) \/ Refuse(c)
    \/ \E c \in Client : \E p \in Patch : FinishPatch(c, p)
    \/ \E t \in timers : Fire(t) \/ FindCancelled(t)
    \/ Constrain
    \/ Tick

Spec == Init /\ [][Next]_vars

(***************************************************************************)
(* Time passes, and the event loop runs a timer whose deadline has passed. *)
(* Nothing is asked of clients.                                            *)
(***************************************************************************)
FairSpec ==
    /\ Spec
    /\ WF_vars(Tick)
    /\ WF_vars(\E t \in timers : Fire(t))

-----------------------------------------------------------------------------
(* Properties.                                                             *)

(***************************************************************************)
(* A client that was answered 202 and has not withdrawn is served: the     *)
(* registered timer is alive and still has the deadline and the            *)
(* master_enable of that answer, whatever was PATCHed since                *)
(* (activation_engine.py:1040-1064, _schedule_pending_activation).         *)
(***************************************************************************)
PromiseHeld ==
    promise # None =>
        \E t \in timers : /\ t.id = pending
                          /\ t.due = promise.due
                          /\ t.enable = promise.enable

(***************************************************************************)
(* A timer activates only what is still promised, at the promised time or  *)
(* later and with the promised master_enable: not a timer that was         *)
(* withdrawn when its deadline had passed already                          *)
(* (_pending_activation_task, _cancel_pending_activation).                 *)
(***************************************************************************)
TimerKeepsPromise ==
    [][/\ made'.number # made.number
       /\ made'.by = "timer"
       => /\ promise # None
          /\ promise.due <= now
          /\ made'.enable = promise.enable]_vars

(***************************************************************************)
(* While a scheduled activation is promised, nothing else is activated:    *)
(* the active parameters, SDP, subscription and stream wait for it         *)
(* (_pending_activation_conflict, process_activation).                     *)
(***************************************************************************)
PendingIsExclusive ==
    [][promise # None /\ promise' = promise => UNCHANGED effects]_vars

(***************************************************************************)
(* What an activation sets agrees afterwards: the SDP that is served, the  *)
(* subscription that is registered and the stream that runs are those of   *)
(* /active (do_activation).                                                *)
(***************************************************************************)
EffectsAgree ==
    /\ subscription = active.enable
    /\ stream = IF active.enable THEN active.param ELSE None
    /\ sdp = stream

(***************************************************************************)
(* A PATCH is refused with 423 only while an activation is pending: a      *)
(* staged mode has its timer (handlers_connection.py:399-412).             *)
(* Violated where an activation fails: its staged mode stays.              *)
(***************************************************************************)
LockedIsPending == staged.mode # None => pending # None

(***************************************************************************)
(* An activation that fails leaves everything as it was                    *)
(* (do_activation's "all previous state is restored").                     *)
(* Violated: the backup is the object that the activation changes.         *)
(***************************************************************************)
FailureRestores ==
    [][failures' # failures => UNCHANGED effects]_vars

(***************************************************************************)
(* /active tells of the activation that produced the active state          *)
(* (_make_activation_view).                                                *)
(* Violated while an activation is scheduled.                              *)
(***************************************************************************)
ReportsTheActive ==
    report = [mode |-> made.mode, time |-> made.time]

(***************************************************************************)
(* No PATCH is carried out while the Sender violates its constraints       *)
(* (handle_patch_sender_staged).                                           *)
(* Violated where the constraints change while the body is read.           *)
(***************************************************************************)
ViolationIsRefused ==
    [][patches' # patches => ~violated]_vars

(***************************************************************************)
(* What was promised happens, fails or is withdrawn, and the lock is       *)
(* lifted when it is over (_pending_activation_task).                      *)
(***************************************************************************)
PromiseEnds == promise # None ~> promise = None
=============================================================================
