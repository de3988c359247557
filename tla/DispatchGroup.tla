---------------------------- MODULE DispatchGroup ----------------------------
(***************************************************************************)
(* Structured concurrency: a group of asyncio tasks with child groups, its *)
(* cancellation, its shutdown and the wait for its tasks                   *)
(* (nmos/tasks/__init__.py).                                               *)
(*                                                                         *)
(* close() is the one operation that awaits in its middle.  Between two    *)
(* awaits it runs alone: busy names the caller it is running for.          *)
(***************************************************************************)
EXTENDS Naturals, Sequences, FiniteSets, SequencesExt

CONSTANTS
    Root,           \* a group
    Child,          \* and the groups that may be created under it
    Task,
    Outsider,       \* callers that are no task of these groups
    None,
    MayCloseInside, \* a task may close the group it is in
    MayWatch,       \* Root was created with a watchdog
    Fatal,          \* the errors that tasks raise: those that is_recoverable
    Recoverable     \* does not know, and those that it does

\* The watchdog's error, which is recoverable.
Idle == "idle"

\* Assumed of the constants by the modules that instantiate this one.
GroupAssumption ==
    /\ Root \notin Child
    /\ None \notin Task \cup Outsider \cup Child \cup {Root}
    /\ Task \cap Outsider = {}
    /\ {MayCloseInside, MayWatch} \subseteq BOOLEAN
    /\ Fatal \cap (Recoverable \cup {None, Idle}) = {}

Group == Child \cup {Root}
Caller == Task \cup Outsider
Error == Fatal \cup Recoverable \cup {Idle}

\* The watchdog's task, beside those of callers.
Watchdog == "watchdog"
Job == Task \cup {Watchdog}

VARIABLES
    task,           \* the life of every task
    asked,          \* the tasks whose cancellation was requested
    owner,          \* the group a task was dispatched into
    created,        \* the child groups there are
    children,       \* Root._children
    listed,         \* _tasks of each group
    watched,        \* Root._watchdog_task is kept
    closed, done, error,    \* _closed, _done and _error of each group
    call,           \* the close() that a caller is in
    busy,           \* the caller whose close() runs at present
    waiting,        \* the tasks that Root's wait() waits for
    answered,       \* history: groups whose close() answered an Outsider
    surfaced,       \* history: groups whose close() answered without raising
    raised,         \* history: groups a task of which raised a fatal error
    doomed          \* history: tasks there were when their group ended

groups == <<created, children, listed, watched, closed>>
history == <<answered, surfaced, raised, doomed>>
vars == <<task, asked, owner, groups, done, error, call, busy, waiting,
          history>>

Calls == [top : Group, todo : Seq(Child), at : Group \cup {None},
          join : SUBSET Job]

TypeOK ==
    /\ task \in [Job -> {"none", "ready", "running", "ended"}]
    /\ asked \subseteq Job
    /\ owner \in [Task -> Group]
    /\ created \subseteq Child
    /\ children \in Seq(created) /\ IsInjective(children)
    /\ listed \in [Group -> SUBSET Task]
    /\ closed \in [Group -> BOOLEAN] /\ done \in [Group -> BOOLEAN]
    /\ error \in [Group -> Error \cup {None}]
    /\ \A p \in Caller : call[p] # None => call[p] \in Calls
    /\ busy # None => busy \in Caller /\ call[busy] # None
    /\ waiting # None => waiting \subseteq Job
    /\ {answered, surfaced, raised} \subseteq SUBSET Group
    /\ watched \in BOOLEAN /\ doomed \subseteq Task

Init ==
    /\ task = [t \in Job |-> "none"]
    /\ asked = {}
    /\ owner = [t \in Task |-> Root]
    /\ created = {} /\ children = <<>>
    /\ listed = [g \in Group |-> {}]
    /\ watched = FALSE
    /\ closed = [g \in Group |-> FALSE] /\ done = [g \in Group |-> FALSE]
    /\ error = [g \in Group |-> None]
    /\ call = [p \in Caller |-> None]
    /\ busy = None
    /\ waiting = None
    /\ answered = {} /\ surfaced = {} /\ raised = {} /\ doomed = {}

Live(t) == task[t] \in {"ready", "running"}

\* A group and the groups under it.
Tree(g) == IF g = Root THEN ToSet(children) \cup {Root} ELSE {g}

-----------------------------------------------------------------------------
(* Groups and tasks.                                                       *)

\* create and new_child, which a closed group refuses.
NewChild(c) ==
    /\ busy = None
    /\ c \notin created
    /\ ~closed[Root]
    /\ created' = created \cup {c}
    /\ children' = Append(children, c)
    /\ UNCHANGED <<task, asked, owner, listed, watched, closed, done, error,
                   call, busy, waiting, history>>

\* dispatch, which a closed group refuses, and a cancelled one does not.
Dispatch(t, g) ==
    /\ busy = None
    /\ task[t] = "none"
    /\ g \in created \cup {Root}
    /\ ~closed[g]
    /\ task' = [task EXCEPT ![t] = "ready"]
    /\ owner' = [owner EXCEPT ![t] = g]
    /\ listed' = [listed EXCEPT ![g] = @ \cup {t}]
    /\ UNCHANGED <<asked, created, children, watched, closed, done, error,
                   call, busy, waiting, history>>

\* Mutant: the cancellation stays in its group.
ReachesItself(g) == listed[g]

(***************************************************************************)
(* _cancel_all: every task of the group and of the groups under it is      *)
(* asked to end, and the groups are done.                                  *)
(***************************************************************************)
Reaches(g) == UNION {listed[h] : h \in Tree(g)}

CancelAll(g) ==
    /\ done' = [h \in Group |-> done[h] \/ h \in Tree(g)]
    /\ asked' = asked \cup {t \in Reaches(g) : Live(t)}
                \cup IF g = Root /\ watched /\ Live(Watchdog)
                     THEN {Watchdog} ELSE {}
    /\ doomed' = doomed \cup {t \in Task : Live(t) /\ owner[t] \in Tree(g)}

\* cancel.
Cancel(g) ==
    /\ busy = None
    /\ g \in created \cup {Root}
    /\ CancelAll(g)
    /\ UNCHANGED <<task, owner, groups, error, call, busy, waiting, answered,
                   surfaced, raised>>

Run(t) ==
    /\ busy = None
    /\ task[t] = "ready"
    /\ task' = [task EXCEPT ![t] = IF t \in asked THEN "ended" ELSE "running"]
    /\ UNCHANGED <<asked, owner, groups, done, error, call, busy, waiting,
                   history>>

\* Mutant: a cancellation is recorded as an error.
EndAsError(t) ==
    /\ busy = None
    /\ task[t] = "running" /\ call[t] = None
    /\ task' = [task EXCEPT ![t] = "ended"]
    /\ error' = [error EXCEPT ![owner[t]] = IF t \in asked THEN "cancelled"
                                           ELSE @]
    /\ UNCHANGED <<asked, owner, groups, done, call, busy, waiting, history>>

\* A task returns, or ends with the cancellation it was asked for.
End(t) ==
    /\ busy = None
    /\ task[t] = "running" /\ call[t] = None
    /\ task' = [task EXCEPT ![t] = "ended"]
    /\ UNCHANGED <<asked, owner, groups, done, error, call, busy, waiting,
                   history>>

\* Mutant: the error is left to the task.
RaiseUnrecorded(t, e) ==
    /\ CancelAll(owner[t])
    /\ task' = [task EXCEPT ![t] = "ended"]
    /\ raised' = IF e \in Fatal THEN raised \cup {owner[t]} ELSE raised
    /\ UNCHANGED error

\* _run_task when the coroutine raises.
Raise(t, e) ==
    /\ error' = [error EXCEPT ![owner[t]] = e]
    /\ CancelAll(owner[t])
    /\ task' = [task EXCEPT ![t] = "ended"]
    /\ raised' = IF e \in Fatal THEN raised \cup {owner[t]} ELSE raised

Fail(t, e) ==
    /\ busy = None
    /\ task[t] = "running" /\ call[t] = None
    /\ Raise(t, e)
    /\ UNCHANGED <<owner, groups, call, busy, waiting, answered, surfaced>>

-----------------------------------------------------------------------------
(* close.                                                                  *)

\* A task in a close() is inside its own coroutine, and may not be over yet.
MayCall(p, g) ==
    /\ busy = None
    /\ call[p] = None
    /\ g \in created \cup {Root}
    /\ p \in Task => MayCloseInside /\ task[p] = "running" /\ owner[p] = g

Answered(p, g) == IF p \in Outsider THEN answered \cup {g} ELSE answered

\* A group that is closed, or being closed, already.
CloseAgain(p, g) ==
    /\ MayCall(p, g)
    /\ closed[g]
    /\ answered' = Answered(p, g)
    /\ UNCHANGED <<task, asked, owner, groups, done, error, call, busy,
                   waiting, surfaced, raised, doomed>>

BeginClose(p, g) ==
    /\ MayCall(p, g)
    /\ ~closed[g]
    /\ closed' = [closed EXCEPT ![g] = TRUE]
    /\ CancelAll(g)
    /\ call' = [call EXCEPT ![p] =
                   [top |-> g, at |-> None, join |-> {},
                    todo |-> IF g = Root THEN children ELSE <<>>]]
    /\ busy' = p
    /\ UNCHANGED <<task, owner, created, children, listed, watched, error,
                   waiting, answered, surfaced, raised>>

\* The tasks a close() of g by p waits for, which it takes off the group.
Joined(p, g) ==
    (listed[g] \ {p}) \cup IF g = Root /\ watched THEN {Watchdog} ELSE {}

\* Mutant: the tasks that were asked to end are not waited for.
JoinNothing(p, g, todo) ==
    /\ listed' = [listed EXCEPT ![g] = {}]
    /\ watched' = (watched /\ g # Root)
    /\ call' = [call EXCEPT ![p].at = g, ![p].join = {}, ![p].todo = todo]
    /\ busy' = p

(***************************************************************************)
(* The gather over a group's tasks: with none, close() goes on at once.    *)
(***************************************************************************)
Join(p, g, todo) ==
    /\ listed' = [listed EXCEPT ![g] = {}]
    /\ watched' = (watched /\ g # Root)
    /\ call' = [call EXCEPT ![p].at = g, ![p].join = Joined(p, g),
                            ![p].todo = todo]
    /\ busy' = IF Joined(p, g) = {} THEN p ELSE None

\* A child that is closed, or being closed, already: its close() returns.
SkipChild(p) ==
    /\ busy = p /\ call[p].at = None
    /\ call[p].todo # <<>> /\ closed[Head(call[p].todo)]
    /\ call' = [call EXCEPT ![p].todo = Tail(@)]
    /\ UNCHANGED <<task, asked, owner, groups, done, error, busy, waiting,
                   history>>

\* Mutant: a child's tasks were asked to end by the parent, and that is all.
CloseChildWithoutCancel(p) ==
    /\ busy = p /\ call[p].at = None
    /\ call[p].todo # <<>>
    /\ LET c == Head(call[p].todo) IN
       /\ ~closed[c]
       /\ closed' = [closed EXCEPT ![c] = TRUE]
       /\ Join(p, c, Tail(call[p].todo))
    /\ UNCHANGED <<task, asked, owner, created, children, done, error,
                   waiting, history>>

(***************************************************************************)
(* The close() of the next child, up to its gather.                        *)
(***************************************************************************)
CloseChild(p) ==
    /\ busy = p /\ call[p].at = None
    /\ call[p].todo # <<>>
    /\ LET c == Head(call[p].todo) IN
       /\ ~closed[c]
       /\ closed' = [closed EXCEPT ![c] = TRUE]
       /\ CancelAll(c)
       /\ Join(p, c, Tail(call[p].todo))
    /\ UNCHANGED <<task, owner, created, children, error, waiting, answered,
                   surfaced, raised>>

CloseOwn(p) ==
    /\ busy = p /\ call[p].at = None
    /\ call[p].todo = <<>>
    /\ Join(p, call[p].top, <<>>)
    /\ UNCHANGED <<task, asked, owner, created, children, closed, done, error,
                   waiting, history>>

\* The gather of p's close() is over.
Gathered(p) ==
    /\ call[p] # None
    /\ call[p].at # None
    /\ busy = IF call[p].join = {} THEN p ELSE None
    /\ \A t \in call[p].join : task[t] = "ended"

\* The caller was itself cancelled while it waited: its gather raises that.
Interrupted(p) == p \in asked /\ call[p].join # {}

CloseInterrupted(p) ==
    /\ Gathered(p)
    /\ Interrupted(p)
    /\ task' = [task EXCEPT ![p] = "ended"]
    /\ call' = [call EXCEPT ![p] = None]
    /\ busy' = None
    /\ UNCHANGED <<asked, owner, groups, done, error, waiting, history>>

\* Mutant: a closed group stays with its parent.
StaysAttached(g) == children

Detached(g) == IF g \in Child THEN Remove(children, g) ELSE children

\* A group is closed; there may be more of them to close.
CloseGoesOn(p) ==
    /\ Gathered(p) /\ ~Interrupted(p)
    /\ error[call[p].at] \notin Fatal
    /\ children' = Detached(call[p].at)
    /\ IF call[p].at = call[p].top
       THEN /\ answered' = Answered(p, call[p].top)
            /\ surfaced' = surfaced \cup {call[p].top}
            /\ call' = [call EXCEPT ![p] = None]
            /\ busy' = None
       ELSE /\ call' = [call EXCEPT ![p].at = None, ![p].join = {}]
            /\ busy' = p
            /\ UNCHANGED <<answered, surfaced>>
    /\ UNCHANGED <<task, asked, owner, created, listed, watched, closed, done,
                   error, waiting, raised, doomed>>

\* A group is closed, and its error is raised out of all the close() there is.
CloseRaises(p) ==
    /\ Gathered(p) /\ ~Interrupted(p)
    /\ error[call[p].at] \in Fatal
    /\ children' = Detached(call[p].at)
    /\ call' = [call EXCEPT ![p] = None]
    /\ busy' = None
    /\ answered' = Answered(p, call[p].top)
    /\ IF p \in Task THEN Raise(p, error[call[p].at])
       ELSE UNCHANGED <<task, asked, done, error, raised, doomed>>
    /\ UNCHANGED <<owner, created, listed, watched, closed, waiting, surfaced>>

-----------------------------------------------------------------------------
(* wait, of Root and once.                                                 *)

Wait ==
    /\ busy = None
    /\ waiting = None /\ task[Watchdog] = "none"
    /\ waiting' = listed[Root] \cup IF MayWatch THEN {Watchdog} ELSE {}
    /\ task' = [task EXCEPT ![Watchdog] = IF MayWatch THEN "running" ELSE @]
    /\ watched' = MayWatch
    /\ UNCHANGED <<asked, owner, created, children, listed, closed, done,
                   error, call, busy, history>>

WaitReturns ==
    /\ busy = None
    /\ waiting # None
    /\ \A t \in waiting : task[t] = "ended"
    /\ waiting' = None
    /\ done' = [done EXCEPT ![Root] = TRUE]
    /\ UNCHANGED <<task, asked, owner, groups, error, call, busy, history>>

\* _watchdog_loop: no tick within the period.
WatchdogFires ==
    /\ busy = None
    /\ task[Watchdog] = "running" /\ ~done[Root]
    /\ error' = [error EXCEPT ![Root] = Idle]
    /\ CancelAll(Root)
    /\ task' = [task EXCEPT ![Watchdog] = "ended"]
    /\ UNCHANGED <<owner, groups, call, busy, waiting, answered, surfaced,
                   raised>>

\* It is cancelled, or finds the group done.
WatchdogEnds ==
    /\ busy = None
    /\ task[Watchdog] = "running"
    /\ Watchdog \in asked \/ done[Root]
    /\ task' = [task EXCEPT ![Watchdog] = "ended"]
    /\ UNCHANGED <<asked, owner, groups, done, error, call, busy, waiting,
                   history>>

-----------------------------------------------------------------------------
CloseStep(p) ==
    \/ SkipChild(p) \/ CloseChild(p) \/ CloseOwn(p)
    \/ CloseInterrupted(p) \/ CloseGoesOn(p) \/ CloseRaises(p)

Next ==
    \/ \E c \in Child : NewChild(c)
    \/ \E g \in Group : Cancel(g)
    \/ \E t \in Task : \E g \in Group : Dispatch(t, g)
    \/ \E t \in Task : Run(t) \/ End(t)
    \/ \E t \in Task : \E e \in Fatal \cup Recoverable : Fail(t, e)
    \/ \E p \in Caller : \E g \in Group : CloseAgain(p, g) \/ BeginClose(p, g)
    \/ \E p \in Caller : CloseStep(p)
    \/ Wait \/ WaitReturns \/ WatchdogFires \/ WatchdogEnds

Spec == Init /\ [][Next]_vars

(***************************************************************************)
(* The event loop runs what can run, and a task that was asked to end ends *)
(* (no task of the program absorbs its cancellation).                      *)
(***************************************************************************)
FairSpec ==
    /\ Spec
    /\ \A t \in Task : WF_vars(Run(t)) /\ WF_vars(t \in asked /\ End(t))
    /\ \A p \in Caller : WF_vars(CloseStep(p))
    /\ WF_vars(WatchdogEnds)

-----------------------------------------------------------------------------
(* Properties.                                                             *)

(***************************************************************************)
(* When close() answers its caller, no task of the group or of a group     *)
(* under it is left (close, "waits for every task in this group and in all *)
(* child groups to finish").                                               *)
(* Violated where a child's close() raises, and where close() is called    *)
(* while another one is under way.                                         *)
(***************************************************************************)
CloseJoins ==
    \A g \in answered : \A t \in Task : Live(t) => Root # g /\ owner[t] # g

(***************************************************************************)
(* A child whose close() is over is off its parent's list, whoever closed  *)
(* it ("then detaches the group from its parent"; "Safe to call from       *)
(* inside one of the group's own tasks").                                  *)
(* Violated where a task closes its own group.                             *)
(***************************************************************************)
DetachedWhenClosed ==
    \A c \in Child :
        /\ closed[c]
        /\ \A p \in Caller : call[p] # None => c \notin {call[p].at, call[p].top}
        => c \notin ToSet(children)

(***************************************************************************)
(* close() answers without raising only if no task of the group raised an  *)
(* unrecoverable error ("The first unrecoverable exception raised by a     *)
(* task in this group").                                                   *)
(* Violated where a recoverable error follows the unrecoverable one.       *)
(***************************************************************************)
FatalSurfaces == surfaced \cap raised = {}

(***************************************************************************)
(* The watchdog does not fire once every task has finished                 *)
(* (_watchdog_task, "it must never make wait() look busy").                *)
(* Violated: wait() waits for the watchdog too.                            *)
(***************************************************************************)
WatchdogIsNoWork ==
    [][WatchdogFires /\ waiting # {Watchdog} => \E t \in Task : Live(t)]_vars

(***************************************************************************)
(* Whatever has begun to close is closed in the end, even with tasks that  *)
(* a child's tasks dispatch while they are being cancelled.                *)
(***************************************************************************)
CloseEnds == \A p \in Caller : call[p] # None ~> call[p] = None

(***************************************************************************)
(* A failure or a cancellation ends every task of the group and of the     *)
(* groups under it (_cancel_all).                                          *)
(***************************************************************************)
DoomedEnd == \A t \in Task : t \in doomed ~> task[t] = "ended"
=============================================================================
