---------------------------- MODULE StatusMonitor ----------------------------
(***************************************************************************)
(* What the Node tells of one Sender's or Receiver's health (BCP-008): the *)
(* streaming tasks that activations start and stop                         *)
(* (nmos/node/streaming), the events they emit (nmos/node/events.py), and  *)
(* the monitor that turns events into statuses with a reporting delay      *)
(* (nmos/node/status_monitor.py).                                          *)
(*                                                                         *)
(* An activation only sets the stop event of the old task and creates the  *)
(* new one; when each runs is up to the event loop.  Times are kept as     *)
(* ages in ticks of a second, up to the reporting delay, after which the   *)
(* code no longer tells them apart.                                        *)
(***************************************************************************)
EXTENDS Integers, Sequences, FiniteSets, SequencesExt

CONSTANTS
    IsSender,       \* a Sender's monitor, or a Receiver's
    Delay,          \* STATUS_REPORTING_DELAY, in ticks
    MayOverlap,     \* a stream may be started before the last has ended
    MaxStreams,     \* how many streams are started
    MaxFaults,      \* how many faults they meet
    MaxLinkFaults   \* in how many of them the link is down

\* Assumed of the constants by the modules that instantiate this one.
StatusAssumption ==
    /\ {IsSender, MayOverlap} \subseteq BOOLEAN
    /\ Delay \in Nat \ {0}
    /\ {MaxStreams, MaxFaults, MaxLinkFaults} \subseteq Nat

Inactive == 0
Healthy == 1
Unhealthy == 3
NoNews == -1
Status == {Inactive, Healthy, Unhealthy}

Stream == 1 .. MaxStreams
Age == 0 .. Delay
Older(age) == IF age < Delay THEN age + 1 ELSE age

VARIABLES
    task,           \* the life of each streaming task
    stop,           \* its stop event
    bad,            \* its pending_recovery: what it must report recovered
    engine,         \* activation.engine: the stream whose stop event it is
    engine_state,
    queue,          \* node.event_queue
    monitor,        \* the ResourceMonitor
    faults, linkFaults,
    calm,           \* history: ticks since a transport error was heard
    quiet           \* history: it was settled when it was deactivated

streams == <<task, stop, bad, engine, engine_state>>
vars == <<streams, queue, monitor, faults, linkFaults, calm, quiet>>

Event == {"activate", "deactivate", "start", "stop", "transport_ok",
          "transport_error", "essence_ok", "essence_error", "link_ok",
          "link_down"}

Domain == [status : Status, internal : Status, age : Age,
           counter : 0 .. MaxFaults]

TypeOK ==
    /\ task \in [Stream -> {"none", "created", "running", "ended", "done"}]
    /\ stop \in [Stream -> BOOLEAN]
    /\ bad \in [Stream -> SUBSET {"transport", "essence"}]
    /\ engine \in Stream \cup {0}
    /\ engine_state \in {"inactive", "active", "error"}
    /\ queue \in Seq(Event)
    /\ monitor \in [active : BOOLEAN, activation : Age, link : Domain,
                    transport : Domain, essence : Domain]
    /\ faults \in 0 .. MaxFaults
    /\ linkFaults \in 0 .. MaxLinkFaults
    /\ calm \in Age
    /\ quiet \in BOOLEAN

\* A domain that nothing was heard of.
Fresh(status) ==
    [status |-> status, internal |-> status, age |-> 0, counter |-> 0]

Init ==
    /\ task = [s \in Stream |-> "none"]
    /\ stop = [s \in Stream |-> FALSE]
    /\ bad = [s \in Stream |-> {}]
    /\ engine = 0 /\ engine_state = "inactive"
    /\ queue = <<>>
    /\ monitor = [active |-> FALSE, activation |-> Delay,
                  link |-> Fresh(Healthy), transport |-> Fresh(Inactive),
                  essence |-> Fresh(Inactive)]
    /\ faults = 0 /\ linkFaults = 0
    /\ calm = Delay
    /\ quiet = FALSE

\* Nothing is queued and nothing is held back by the reporting delay.
Settled ==
    /\ queue = <<>>
    /\ Delay = monitor.activation
    /\ Delay = monitor.transport.age /\ Delay = monitor.essence.age

-----------------------------------------------------------------------------
(* Streams.                                                                *)

Alive(s) == task[s] \in {"created", "running"}

(***************************************************************************)
(* _manage_engine_lifecycle with master_enable: stop_streaming, then       *)
(* start_streaming, which creates the task.                                *)
(***************************************************************************)
Start(s) ==
    /\ task[s] = "none"
    /\ \A r \in Stream : r < s => task[r] # "none"
    /\ MayOverlap \/ \A r \in Stream : ~Alive(r)
    /\ task' = [task EXCEPT ![s] = "created"]
    /\ stop' = [r \in Stream |-> stop[r] \/ r = engine]
    /\ engine' = s /\ engine_state' = "active"
    /\ quiet' = FALSE
    /\ UNCHANGED <<bad, queue, monitor, faults, linkFaults, calm>>

\* _manage_engine_lifecycle without: stop_streaming.
Stop ==
    /\ engine # 0
    /\ stop' = [stop EXCEPT ![engine] = TRUE]
    /\ engine' = 0 /\ engine_state' = "inactive"
    /\ quiet' = Settled
    /\ UNCHANGED <<task, bad, queue, monitor, faults, linkFaults, calm>>

Starting == <<"activate", "start", "transport_ok", "essence_ok", "link_ok">>
Stopping == <<"stop", "deactivate">>

(***************************************************************************)
(* A transport error, with the link's state asked of the system            *)
(* (emit_transport_error).                                                 *)
(***************************************************************************)
TransportError(linkDown) ==
    <<"transport_error">> \o IF linkDown THEN <<"link_down">> ELSE <<>>

CountFault(linkDown) ==
    /\ faults < MaxFaults
    /\ faults' = faults + 1
    /\ linkDown => linkFaults < MaxLinkFaults
    /\ linkFaults' = IF linkDown THEN linkFaults + 1 ELSE linkFaults

\* Tasks make their first step in the order they were created in.
Runs(s) ==
    task[s] = "created" /\ \A r \in Stream : r < s => task[r] # "created"

\* The task's first step, up to its loop.
Begin(s) ==
    /\ Runs(s)
    /\ ~stop[s]
    /\ task' = [task EXCEPT ![s] = "running"]
    /\ queue' = queue \o Starting
    /\ UNCHANGED <<stop, bad, engine, engine_state, monitor, faults,
                   linkFaults, calm, quiet>>

\* The task's first step when it was stopped before: the loop is not entered.
BeginStopped(s) ==
    /\ Runs(s)
    /\ stop[s]
    /\ task' = [task EXCEPT ![s] = "ended"]
    /\ queue' = queue \o Starting \o Stopping
    /\ UNCHANGED <<stop, bad, engine, engine_state, monitor, faults,
                   linkFaults, calm, quiet>>

\* The task's first step when its socket cannot be set up: it raises.
BeginFailing(s) ==
    /\ Runs(s)
    /\ \E linkDown \in BOOLEAN :
          /\ CountFault(linkDown)
          /\ queue' = queue \o Starting \o TransportError(linkDown) \o Stopping
    /\ task' = [task EXCEPT ![s] = "ended"]
    /\ UNCHANGED <<stop, bad, engine, engine_state, monitor, calm, quiet>>

(***************************************************************************)
(* A packet late, lost or malformed, an error of the socket, or nothing    *)
(* received before the timeout.  The stop event is looked at between       *)
(* packets: a task that was stopped may still find this first.             *)
(***************************************************************************)
TransportFault(s) ==
    /\ task[s] = "running"
    /\ \E linkDown \in BOOLEAN :
          /\ CountFault(linkDown)
          /\ queue' = queue \o TransportError(linkDown)
    /\ bad' = [bad EXCEPT ![s] = @ \cup {"transport"}]
    /\ UNCHANGED <<task, stop, engine, engine_state, monitor, calm, quiet>>

\* A packet that does not decrypt or parse, at a Receiver.
EssenceFault(s) ==
    /\ ~IsSender
    /\ task[s] = "running"
    /\ CountFault(FALSE)
    /\ queue' = Append(queue, "essence_error")
    /\ bad' = [bad EXCEPT ![s] = @ \cup {"essence"}]
    /\ UNCHANGED <<task, stop, engine, engine_state, monitor, calm, quiet>>

(***************************************************************************)
(* A good packet after faults: emit_recovery for each pending domain.      *)
(***************************************************************************)
Recovery(domains) ==
    (IF "transport" \in domains THEN <<"transport_ok">> ELSE <<>>) \o
    (IF "essence" \in domains THEN <<"essence_ok">> ELSE <<>>)

Recover(s) ==
    /\ task[s] = "running"
    /\ bad[s] # {}
    /\ queue' = queue \o Recovery(bad[s])
    /\ bad' = [bad EXCEPT ![s] = {}]
    /\ UNCHANGED <<task, stop, engine, engine_state, monitor, faults,
                   linkFaults, calm, quiet>>

\* The task ends because it was asked to, or on its own (a TCP stream whose
\* connection broke, with an error first).
End(s) ==
    /\ task[s] = "running"
    /\ \/ /\ stop[s]
          /\ queue' = queue \o Stopping
          /\ UNCHANGED <<faults, linkFaults>>
       \/ \E linkDown \in BOOLEAN :
             /\ CountFault(linkDown)
             /\ queue' = queue \o TransportError(linkDown) \o Stopping
    /\ task' = [task EXCEPT ![s] = "ended"]
    /\ UNCHANGED <<stop, bad, engine, engine_state, monitor, calm, quiet>>

\* Mutant: a task that was asked to stop is taken for one that failed.
NotAsked(s) == engine # 0

(***************************************************************************)
(* _on_streaming_done: ending is a failure unless the task was asked to.   *)
(***************************************************************************)
Failed(s) == ~stop[s] /\ engine # 0

Done(s) ==
    /\ task[s] = "ended"
    /\ task' = [task EXCEPT ![s] = "done"]
    /\ engine_state' = IF Failed(s) THEN "error" ELSE engine_state
    /\ UNCHANGED <<stop, bad, engine, queue, monitor, faults, linkFaults,
                   calm, quiet>>

-----------------------------------------------------------------------------
(* The monitor.                                                            *)

LinkNews(e) ==
    CASE e = "link_ok" -> Healthy
      [] e = "link_down" -> Unhealthy
      [] OTHER -> NoNews

\* get_transmission_new_state, with what an essence event of a Receiver
\* injects into its connection.
TransportNews(e) ==
    CASE e \in {"activate", "transport_ok"} -> Healthy
      [] e = "transport_error" -> Unhealthy
      [] e = "deactivate" -> Inactive
      [] e = "start" /\ ~IsSender -> Healthy
      [] e = "stop" /\ ~IsSender -> Inactive
      [] OTHER -> NoNews

\* Mutant: an essence that stops is unhealthy.
EssenceNewsStopping(e) ==
    CASE e \in {"activate", "start", "essence_ok"} -> Healthy
      [] e \in {"essence_error", "stop"} -> Unhealthy
      [] e = "deactivate" -> Inactive
      [] OTHER -> NoNews

\* get_essence_new_state, with what activation forces on it.
EssenceNews(e) ==
    CASE e \in {"activate", "start", "essence_ok"} -> Healthy
      [] e = "essence_error" -> Unhealthy
      [] e \in {"stop", "deactivate"} -> Inactive
      [] OTHER -> NoNews

\* Mutant: a tick's lack of news is taken for news.
HeardAnything(d, news) ==
    IF news # d.internal \/ Inactive \in {news, d.internal}
    THEN [d EXCEPT !.internal = news, !.age = 0]
    ELSE d

(***************************************************************************)
(* The first half of process_one_domain: what was heard last, and when.    *)
(***************************************************************************)
Heard(d, news) ==
    IF news # NoNews /\ (news # d.internal \/ Inactive \in {news, d.internal})
    THEN [d EXCEPT !.internal = news, !.age = 0]
    ELSE d

\* The activation time that the domains share, after one of them has news.
Activated(d, news, activation) ==
    IF news # NoNews /\ news # d.status /\ d.status = Inactive
    THEN 0 ELSE activation

\* Mutant: a status improves as soon as it is heard to.
PublishAtOnce(d, activation) ==
    CASE Inactive \in {d.internal, d.status} -> [d EXCEPT !.status = d.internal]
      [] d.internal > d.status /\ activation >= Delay ->
            [d EXCEPT !.status = d.internal, !.counter = @ + 1]
      [] d.internal < d.status -> [d EXCEPT !.status = d.internal]
      [] OTHER -> d

\* Mutant: a status never worsens while the stream goes on.
PublishNeverWorse(d, activation) ==
    CASE Inactive \in {d.internal, d.status} -> [d EXCEPT !.status = d.internal]
      [] d.internal < d.status /\ d.age >= Delay ->
            [d EXCEPT !.status = d.internal]
      [] OTHER -> d

(***************************************************************************)
(* The second half: to or from Inactive at once; worse when the activation *)
(* is old enough; better when it has been heard for long enough.           *)
(***************************************************************************)
Publish(d, activation) ==
    CASE Inactive \in {d.internal, d.status} -> [d EXCEPT !.status = d.internal]
      [] d.internal > d.status /\ activation >= Delay ->
            [d EXCEPT !.status = d.internal, !.counter = @ + 1]
      [] d.internal < d.status /\ d.age >= Delay ->
            [d EXCEPT !.status = d.internal]
      [] OTHER -> d

\* _route_to_domain for one domain of the monitor.
Route(m, domain, news) ==
    LET activation == Activated(m[domain], news, m.activation) IN
    [m EXCEPT !.activation = activation,
              ![domain] = Publish(Heard(@, news), activation)]

(***************************************************************************)
(* _handle_activation_reset.                                               *)
(***************************************************************************)
ActivationReset(m) ==
    [m EXCEPT !.active = TRUE, !.link.counter = 0,
              !.transport = Fresh(Inactive), !.essence = Fresh(Inactive)]

\* Mutant: events are taken whether the resource is active or not.
NeverGated(m, e) == FALSE

\* Of an inactive resource's stream only an activation is heard.
Gated(m, e) == ~m.active /\ e \notin {"activate", "link_ok", "link_down"}

(***************************************************************************)
(* ResourceMonitor.process_event.                                          *)
(***************************************************************************)
ProcessEvent(m, e) ==
    LET reset == IF e = "activate" THEN ActivationReset(m) ELSE m
        news == SelectSeq(<< <<"link", LinkNews(e)>>,
                             <<"transport", TransportNews(e)>>,
                             <<"essence", EssenceNews(e)>> >>,
                          LAMBDA x : x[2] # NoNews)
        routed == FoldLeft(LAMBDA n, x : Route(n, x[1], x[2]), reset, news)
    IN  IF Gated(m, e) THEN m
        ELSE [routed EXCEPT !.active = @ /\ e # "deactivate"]

\* ResourceMonitor.tick: what is due in each domain.
TickAll(m) ==
    FoldLeft(LAMBDA n, domain : Route(n, domain, NoNews), m,
             <<"link", "transport", "essence">>)

(***************************************************************************)
(* run_status_monitor: an event, or a second without one, and then a tick. *)
(***************************************************************************)
Consume ==
    /\ queue # <<>>
    /\ monitor' = TickAll(ProcessEvent(monitor, Head(queue)))
    /\ queue' = Tail(queue)
    /\ calm' = IF Head(queue) = "transport_error" THEN 0 ELSE calm
    /\ UNCHANGED <<streams, faults, linkFaults, quiet>>

Aged(m) ==
    [m EXCEPT !.activation = Older(@), !.link.age = Older(@),
              !.transport.age = Older(@), !.essence.age = Older(@)]

Second ==
    /\ monitor' = IF queue = <<>> THEN TickAll(Aged(monitor))
                  ELSE Aged(monitor)
    /\ calm' = Older(calm)
    /\ UNCHANGED <<streams, queue, faults, linkFaults, quiet>>

Next ==
    \/ \E s \in Stream :
          \/ Start(s) \/ Begin(s) \/ BeginStopped(s) \/ BeginFailing(s)
          \/ TransportFault(s) \/ EssenceFault(s) \/ Recover(s)
          \/ End(s) \/ Done(s)
    \/ Stop
    \/ Consume
    \/ Second

Spec == Init /\ [][Next]_vars

-----------------------------------------------------------------------------
(* Properties.                                                             *)

(***************************************************************************)
(* Once the delay has passed, the monitor tells of the stream there is:    *)
(* nothing when no task streams, and the faults of the one that does as    *)
(* long as it has not recovered from them (ResourceMonitor, "Whether the   *)
(* resource is currently activated.").                                     *)
(* Violated where streams overlap: the old one's stop comes after the new  *)
(* one's start.                                                            *)
(***************************************************************************)
TellsTheStream ==
    Settled =>
        /\ (\A s \in Stream : ~Alive(s)) =>
              Inactive = monitor.transport.status
              /\ Inactive = monitor.essence.status
        /\ \A s \in Stream :
              task[s] = "running" /\ (\A r \in Stream \ {s} : ~Alive(r)) =>
                 /\ monitor.transport.status =
                       IF "transport" \in bad[s] THEN Unhealthy ELSE Healthy
                 /\ monitor.essence.status =
                       IF "essence" \in bad[s] THEN Unhealthy ELSE Healthy

(***************************************************************************)
(* After faults that streams recover from, the link is told healthy again  *)
(* too (emit_recovery, "for each pending domain").                         *)
(* Violated: the link's event is not in the set that a recovery clears.    *)
(***************************************************************************)
LinkRecovers ==
    Settled /\ Delay = monitor.link.age =>
        \A s \in Stream :
            task[s] = "running" /\ bad[s] = {} =>
                Healthy = monitor.link.status

(***************************************************************************)
(* Starting, stopping and restarting are not faults: while no stream has   *)
(* met one, no status is unhealthy and no counter has moved                *)
(* (get_essence_new_state's account of VENDOR_ESSENCE_STOP).               *)
(***************************************************************************)
NoFalseFault ==
    faults = 0 => \A domain \in {"link", "transport", "essence"} :
                     /\ monitor[domain].status # Unhealthy
                     /\ monitor[domain].counter = 0

(***************************************************************************)
(* A resource that is not active says so whatever its stream still emits,  *)
(* a recovery just before its end or a fault after it                      *)
(* (ResourceMonitor.active).                                               *)
(***************************************************************************)
InactiveStays ==
    ~monitor.active => /\ Inactive = monitor.transport.status
                       /\ Inactive = monitor.essence.status

(***************************************************************************)
(* A connection is told better only when no error of it has been heard for *)
(* the reporting delay, unless it is activated anew (process_one_domain).  *)
(***************************************************************************)
RecoversSlowly ==
    [][/\ monitor'.transport.status < monitor.transport.status
       /\ monitor'.transport.status # Inactive
       => \/ calm' = Delay
          \/ queue # <<>> /\ Head(queue) = "activate"]_vars

(***************************************************************************)
(* engine_state is about the stream the activation last started: in error  *)
(* exactly when that one has ended by itself, whatever became of the ones  *)
(* before it (_on_streaming_done).                                         *)
(***************************************************************************)
EngineIsItsOwn ==
    /\ engine_state = "inactive" <=> engine = 0
    /\ engine # 0 => (engine_state = "error" <=> task[engine] = "done")

(***************************************************************************)
(* A resource that was settled when it was deactivated ends without a      *)
(* fault: a resource being deactivated generates no intermediate unhealthy *)
(* state, and no counter moves (status_monitor.py:130-150).                *)
(* Violated where the last read of a stopped stream times out first        *)
(* (transport_udp.py:269).                                                 *)
(***************************************************************************)
CleanStop ==
    [][engine = 0 /\ quiet =>
          /\ monitor'.transport.counter <= monitor.transport.counter
          /\ monitor'.essence.counter <= monitor.essence.counter]_vars
=============================================================================
