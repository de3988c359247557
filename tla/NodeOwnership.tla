--------------------------- MODULE NodeOwnership ----------------------------
(***************************************************************************)
(* Which member answers for a Node (RaftRegistryBackend: register,         *)
(* heartbeat, their forwarding, collect_garbage; OwnershipTable;           *)
(* StateMachine.apply).                                                    *)
(*                                                                         *)
(* One Node and the members of a cluster.  Consensus is what RaftNode and  *)
(* ReadIndex show of it: one log of committed entries that members apply   *)
(* in order, proposals that commit in the order a member made them or are  *)
(* lost, and a barrier that waits for what was committed when it began.    *)
(* Requests, commits and applies are quick against the heartbeat interval, *)
(* so time passes only between them.                                       *)
(***************************************************************************)
EXTENDS Integers, Sequences, FiniteSets

CONSTANTS
    Member,         \* the cluster's members
    None,           \* no member
    GcInterval,     \* gc_interval, in ticks
    LastRequest,    \* bound: the tick of the Node's last request
    MaxRequests,    \* bound: requests of the Node
    MaxServed,      \* bound: requests served at once
    MaxFaults,      \* bound: links cut, deadlines missed, proposals lost
    MaxCrashes      \* bound: members that end for good

\* Assumed of the constants by the modules that instantiate this one.
OwnershipAssumption == None \notin Member

VARIABLES
    now,            \* health_now, the same on every member
    log,            \* committed entries
    proposed,       \* proposals of each member on their way
    applied,        \* last_applied
    store,          \* the Node's record in each member's store
    table,          \* the owner in each member's OwnershipTable
    cut,            \* pairs of members that cannot reach each other
    down,           \* members that have ended
    reqs,           \* requests being served
    asked,          \* how many requests there have been
    collecting,     \* a member's expiry that has not been applied
    lastOk,         \* when the Node was last answered with success
    said,           \* the answer this step gives the Node
    faults

cluster == <<now, cut, down>>
replica == <<applied, store, table>>
vars == <<now, log, proposed, applied, store, table, cut, down, reqs, asked,
          collecting, lastOk, said, faults>>

MaxTime == LastRequest + GcInterval + 2

Absent == [extant |-> FALSE, health |-> 0]

NoAnswer == [code |-> "none"]

\* The Node's record after a prefix of the log.
Held(n) ==
    \E i \in 1..n :
       log[i].op = "register" /\ \A j \in i..n : log[j].op # "expire"

----------------------------------------------------------------------------
(* What a member sees.                                                     *)

Up == Member \ down

\* live_peers.
Reaches(m, k) == k \in Up /\ {m, k} \notin cut

\* BackendState.READY: a leader, and a majority in reach.
Ready(m) ==
    m \in Up /\ 2 * Cardinality({k \in Member : k = m \/ Reaches(m, k)})
                   > Cardinality(Member)

\* _owner_for: an owner out of reach is no owner.
OwnerFor(m) ==
    IF table[m] = m \/ (table[m] # None /\ Reaches(m, table[m]))
    THEN table[m] ELSE None

Elsewhere(m) == OwnerFor(m) \notin {m, None}

----------------------------------------------------------------------------
(* A request: where it arrived, which member serves it now, at what stage. *)

\* Nothing is said to the client.
Silent == said' = NoAnswer

\* The read index a barrier waits for, or the index a forwarded answer names.
Request(verb, m) ==
    [id |-> asked + 1, verb |-> verb, at |-> m, by |-> m, again |-> TRUE,
     stage |-> "route", index |-> 0, hops |-> 0, since |-> Len(log),
     claim |-> None]

Arrive(verb, m) ==
    /\ m \in Up /\ asked < MaxRequests /\ now <= LastRequest
    /\ Cardinality(reqs) < MaxServed
    /\ asked' = asked + 1
    /\ reqs' = reqs \cup {Request(verb, m)}
    /\ UNCHANGED <<cluster, log, proposed, replica, collecting, lastOk,
                   faults>>
    /\ Silent

Moves(r, s) == reqs' = (reqs \ {r}) \cup {s}

\* The client has its answer.
Answer(r, code) ==
    /\ reqs' = reqs \ {r}
    /\ said' = [code |-> code, req |-> r, index |-> Len(log)]
    /\ lastOk' = IF code = "ok" THEN now ELSE lastOk

\* A bug to rule out: the retry is never spent.
ReplyUnspent(r, code) ==
    IF code = "not owner"
    THEN /\ Moves(r, [r EXCEPT !.by = r.at, !.stage = "route"])
         /\ UNCHANGED lastOk /\ Silent
    ELSE Answer(r, code)

\* A member that serves a forwarded request replies to the one it came from.
Reply(r, code) ==
    IF r.by = r.at THEN Answer(r, code)
    ELSE CASE code = "not owner" /\ r.again ->
              /\ Moves(r, [r EXCEPT !.by = r.at, !.again = FALSE,
                                    !.stage = "route"])
              /\ UNCHANGED lastOk /\ Silent
           [] code = "not owner" /\ ~r.again -> Answer(r, "unavailable")
           [] code # "not owner" -> Answer(r, code)

Frame == UNCHANGED <<cluster, asked, collecting, faults>>

\* _forward: nothing but a live connection carries the request.
Forward(r) ==
    IF Reaches(r.by, OwnerFor(r.by))
    THEN /\ Moves(r, [r EXCEPT !.by = OwnerFor(r.by), !.stage = "route",
                             !.hops = @ + 1])
         /\ UNCHANGED lastOk /\ Silent
    ELSE Answer(r, "unavailable")

\* _register and _on_forward: to the owner, or to be proposed here, by the
\* owner or as a claim; that is decided before the gate is waited for.
RouteRegister(r) ==
    /\ r.verb = "register" /\ r.stage = "route"
    /\ \/ Elsewhere(r.by) /\ r.by = r.at /\ Forward(r)
       \/ Elsewhere(r.by) /\ r.by # r.at /\ Reply(r, "not owner")
       \/ /\ ~Elsewhere(r.by)
          /\ Moves(r, [r EXCEPT !.stage = "gate", !.claim =
                           IF OwnerFor(r.by) = None THEN r.by ELSE None])
          /\ UNCHANGED lastOk /\ Silent
    /\ UNCHANGED <<log, proposed, replica>> /\ Frame

\* _register_as_owner: one registration of a Node at a time is proposed by a
\* member (_NodeGate).
ProposeRegister(r) ==
    /\ r.stage = "gate" /\ r.by \in Up
    /\ \A s \in reqs : s.by = r.by => s.stage # "commit"
    /\ proposed' = [proposed EXCEPT ![r.by] = Append(@,
          [op |-> "register", req |-> r.id, health |-> now, claim |-> r.claim])]
    /\ Moves(r, [r EXCEPT !.stage = "commit"])
    /\ UNCHANGED lastOk /\ Silent
    /\ UNCHANGED <<log, replica>> /\ Frame

\* _resolve: the entry is applied by the member that proposed it.
Committed(r) ==
    \E i \in 1..applied[r.by] : log[i].op = "register" /\ log[i].req = r.id

RegisterApplied(r) ==
    /\ r.stage = "commit" /\ Committed(r)
    /\ IF r.by = r.at THEN Answer(r, "ok")
       ELSE /\ Moves(r, [r EXCEPT !.stage = "await applied", !.by = r.at,
                                  !.index = applied[r.by]])
            /\ UNCHANGED lastOk /\ Silent
    /\ UNCHANGED <<log, proposed, replica>> /\ Frame

\* A bug to rule out: a forwarded answer is passed on at once.
AppliedHereAtOnce(r) ==
    /\ r.stage = "await applied"
    /\ Answer(r, "ok")
    /\ UNCHANGED <<log, proposed, replica>> /\ Frame

\* _await_applied, before a forwarded registration is answered.
AppliedHere(r) ==
    /\ r.stage = "await applied" /\ applied[r.at] >= r.index
    /\ Answer(r, "ok")
    /\ UNCHANGED <<log, proposed, replica>> /\ Frame

\* store.heartbeat, on the member the request has reached.
Beat(r) ==
    /\ store' = [store EXCEPT ![r.by].health = now]
    /\ Reply(r, "ok")
    /\ UNCHANGED <<applied, table>>

\* _heartbeat and _heartbeat_forwarded: to the owner, or refreshed here, or to
\* be made sure of.
RouteHeartbeat(r) ==
    /\ r.verb = "heartbeat" /\ r.stage = "route"
    /\ \/ Elsewhere(r.by) /\ r.by = r.at /\ Forward(r) /\ UNCHANGED replica
       \/ Elsewhere(r.by) /\ r.by # r.at /\ Reply(r, "not owner")
            /\ UNCHANGED replica
       \/ ~Elsewhere(r.by) /\ store[r.by].extant /\ Beat(r)
       \/ /\ ~Elsewhere(r.by) /\ ~store[r.by].extant
          /\ IF Ready(r.by)
             THEN /\ Moves(r, [r EXCEPT !.stage = "barrier",
                                        !.index = Len(log)])
                  /\ UNCHANGED lastOk /\ Silent
             ELSE Reply(r, "unavailable")
          /\ UNCHANGED replica
    /\ UNCHANGED <<log, proposed>> /\ Frame

\* A bug to rule out: a Node that is not here is not anywhere.
BarrierSkipped(r) ==
    /\ r.stage = "barrier"
    /\ Reply(r, "not found")
    /\ UNCHANGED <<log, proposed, replica>> /\ Frame

\* _beat_here once this member is current.
Barrier(r) ==
    /\ r.stage = "barrier" /\ applied[r.by] >= r.index
    /\ \/ Elsewhere(r.by) /\ r.by = r.at /\ Forward(r) /\ UNCHANGED replica
       \/ Elsewhere(r.by) /\ r.by # r.at /\ Reply(r, "not owner")
            /\ UNCHANGED replica
       \/ ~Elsewhere(r.by) /\ store[r.by].extant /\ Beat(r)
       \/ ~Elsewhere(r.by) /\ ~store[r.by].extant /\ Reply(r, "not found")
            /\ UNCHANGED replica
    /\ UNCHANGED <<log, proposed>> /\ Frame

\* The deadline of a request, or of the forward it waits for.
GiveUp(r) ==
    /\ \/ ~(r.by \in Up) /\ UNCHANGED faults
       \/ r.by # r.at /\ ~Reaches(r.at, r.by) /\ UNCHANGED faults
       \/ r.stage \in {"commit", "barrier"} /\ ~Ready(r.by) /\ UNCHANGED faults
       \/ /\ r.stage \notin {"route", "gate"} /\ faults < MaxFaults
          /\ faults' = faults + 1
    /\ Answer(r, "unavailable")
    /\ UNCHANGED <<cluster, log, proposed, replica, asked, collecting>>

----------------------------------------------------------------------------
(* Committing and applying.                                                *)

Commit(m) ==
    /\ proposed[m] # <<>> /\ Ready(m)
    /\ log' = Append(log, Head(proposed[m]))
    /\ proposed' = [proposed EXCEPT ![m] = Tail(@)]
    /\ UNCHANGED <<cluster, replica, reqs, asked, collecting, lastOk,
                   faults>>
    /\ Silent

\* A change of leader, or a member that ends, takes a proposal with it.
Lose(m) ==
    /\ proposed[m] # <<>>
    /\ \/ m \in down /\ UNCHANGED faults
       \/ m \in Up /\ faults < MaxFaults /\ faults' = faults + 1
    /\ proposed' = [proposed EXCEPT ![m] = Tail(@)]
    /\ UNCHANGED <<cluster, log, replica, reqs, asked, collecting, lastOk>>
    /\ Silent

\* A bug to rule out: an entry is counted twice.
ApplyAhead(m) ==
    /\ m \in Up /\ applied[m] < Len(log)
    /\ applied' = [applied EXCEPT ![m] = @ + 2]
    /\ UNCHANGED <<cluster, log, proposed, store, table, reqs, asked,
                   collecting, lastOk, faults>>
    /\ Silent

\* StateMachine.apply: a registration decides, a claim takes the Node over, an
\* expiry removes the Node and leaves the table as it was.
Apply(m) ==
    LET e == log[applied[m] + 1]
    IN  /\ applied[m] < Len(log)
        /\ Ready(m)
        /\ applied' = [applied EXCEPT ![m] = @ + 1]
        /\ store' = [store EXCEPT ![m] =
              IF e.op = "register" THEN [extant |-> TRUE, health |-> e.health]
              ELSE Absent]
        /\ table' = [table EXCEPT ![m] =
              IF e.op = "register" /\ e.claim # None THEN e.claim ELSE @]
        /\ collecting' = [collecting EXCEPT ![m] =
              IF e.op = "expire" /\ e.by = m THEN FALSE ELSE @]
        /\ UNCHANGED <<cluster, log, proposed, reqs, asked, lastOk, faults>>
        /\ Silent

\* A bug to rule out: every member expires what it holds.
CollectAnyone(m) ==
    /\ Ready(m) /\ ~collecting[m]
    /\ store[m].extant /\ store[m].health < now - GcInterval
    /\ proposed' = [proposed EXCEPT ![m] =
                      Append(@, [op |-> "expire", by |-> m])]
    /\ collecting' = [collecting EXCEPT ![m] = TRUE]
    /\ UNCHANGED <<cluster, log, replica, reqs, asked, lastOk, faults>>
    /\ Silent

\* A bug to rule out: the threshold is computed once, when the member starts.
CollectFrozen(m) ==
    /\ Ready(m) /\ ~collecting[m]
    /\ store[m].extant /\ store[m].health < 0 - GcInterval
    /\ proposed' = [proposed EXCEPT ![m] =
                      Append(@, [op |-> "expire", by |-> m])]
    /\ collecting' = [collecting EXCEPT ![m] = TRUE]
    /\ UNCHANGED <<cluster, log, replica, reqs, asked, lastOk, faults>>
    /\ Silent

\* collect_garbage: the owner proposes the expiry of a Node it has not heard.
Collect(m) ==
    /\ Ready(m) /\ ~collecting[m]
    /\ store[m].extant /\ store[m].health < now - GcInterval
    /\ OwnerFor(m) = m
    /\ proposed' = [proposed EXCEPT ![m] =
                      Append(@, [op |-> "expire", by |-> m])]
    /\ collecting' = [collecting EXCEPT ![m] = TRUE]
    /\ UNCHANGED <<cluster, log, replica, reqs, asked, lastOk, faults>>
    /\ Silent

\* Its commit misses the deadline: the pass ends, the next one tries again.
CollectAgain(m) ==
    /\ collecting[m] /\ proposed[m] = <<>> /\ applied[m] = Len(log)
    /\ collecting' = [collecting EXCEPT ![m] = FALSE]
    /\ UNCHANGED <<cluster, log, proposed, replica, reqs, asked, lastOk,
                   faults>>
    /\ Silent

----------------------------------------------------------------------------
(* The environment.                                                        *)

Settled ==
    /\ reqs = {}
    /\ \A m \in Up : Ready(m) => proposed[m] = <<>> /\ applied[m] = Len(log)

Tick ==
    /\ now < MaxTime /\ Settled
    /\ now' = now + 1
    /\ UNCHANGED <<log, proposed, replica, cut, down, reqs, asked, collecting,
                   lastOk, faults>>
    /\ Silent

Cut(m, k) ==
    /\ m # k /\ {m, k} \subseteq Up /\ {m, k} \notin cut /\ faults < MaxFaults
    /\ cut' = cut \cup {{m, k}}
    /\ faults' = faults + 1
    /\ UNCHANGED <<now, down, log, proposed, replica, reqs, asked, collecting,
                   lastOk>>
    /\ Silent

Heal(c) ==
    /\ cut' = cut \ {c}
    /\ UNCHANGED <<now, down, log, proposed, replica, reqs, asked, collecting,
                   lastOk, faults>>
    /\ Silent

Crash(m) ==
    /\ m \in Up /\ Cardinality(down) < MaxCrashes
    /\ down' = down \cup {m}
    /\ UNCHANGED <<now, cut, log, proposed, replica, reqs, asked, collecting,
                   lastOk, faults>>
    /\ Silent

----------------------------------------------------------------------------
Init ==
    /\ now = 0
    /\ log = <<>>
    /\ proposed = [m \in Member |-> <<>>]
    /\ applied = [m \in Member |-> 0]
    /\ store = [m \in Member |-> Absent]
    /\ table = [m \in Member |-> None]
    /\ cut = {}
    /\ down = {}
    /\ reqs = {}
    /\ asked = 0
    /\ collecting = [m \in Member |-> FALSE]
    /\ lastOk = 0
    /\ said = NoAnswer
    /\ faults = 0

Serve(r) ==
    \/ RouteRegister(r) \/ ProposeRegister(r)
    \/ RegisterApplied(r) \/ AppliedHere(r)
    \/ RouteHeartbeat(r) \/ Barrier(r)

Next ==
    \/ \E m \in Member, verb \in {"register", "heartbeat"} : Arrive(verb, m)
    \/ \E r \in reqs : Serve(r)
    \/ \E r \in reqs : GiveUp(r)
    \/ \E m \in Member : Commit(m) \/ Lose(m) \/ Apply(m)
    \/ \E m \in Member : Collect(m) \/ CollectAgain(m) \/ Crash(m)
    \/ \E m, k \in Member : Cut(m, k)
    \/ \E c \in cut : Heal(c)
    \/ Tick

\* Handlers run, consensus makes progress, links heal, the collector's timer
\* and the clock go on, on every member that has not ended.
Fairness ==
    /\ WF_vars(Tick)
    /\ WF_vars(\E r \in reqs : Serve(r) \/ GiveUp(r))
    /\ \A m \in Member :
          /\ WF_vars(Commit(m))
          /\ WF_vars(Apply(m))
          /\ WF_vars(Collect(m))
          /\ WF_vars(CollectAgain(m))
          /\ WF_vars(Lose(m) /\ m \in down)
    /\ WF_vars(\E c \in cut : Heal(c))

Spec == Init /\ [][Next]_vars

FairSpec == Spec /\ Fairness

----------------------------------------------------------------------------
\* Type invariant.
TypeOK ==
    /\ now \in 0..MaxTime /\ faults \in 0..MaxFaults
    /\ \A m \in Member :
          /\ applied[m] \in 0..Len(log)
          /\ table[m] \in Member \cup {None}
          /\ store[m].extant \in BOOLEAN /\ store[m].health \in 0..MaxTime
    /\ \A r \in reqs : r.by \in Member /\ r.index \in 0..Len(log)

\* A heartbeat is answered 404, which makes a Node register everything again,
\* only if the Node was not registered at some moment of the request, however
\* far behind the member that answers is (_read_barrier in _beat_here).
NotFoundIsTrue ==
    said.code = "not found" => \E n \in said.req.since..said.index : ~Held(n)

\* A request is forwarded at most twice, however the Node moves between members
\* and however far behind their tables are (route_again).
RoutedTwice == \A r \in reqs : r.hops <= 2

\* A Node told that it is registered finds itself in the store of the member
\* that told it, whichever member committed the entry (_await_applied).
ReadsItsWrites ==
    [][said'.code = "ok" /\ said'.req.verb = "register" =>
         \E i \in 1..applied[said'.req.at] :
            log[i].op = "register" /\ log[i].req = said'.req.id]_vars

\* A Node is expired only after a silence longer than the collection interval
\* (Behaviour - Registration.md:51): no member decides it while another answers
\* the Node's heartbeats.
\* Violated where a member that cannot reach the owner answers the heartbeats
\* itself (_heartbeat).
ExpiredOnlyWhenSilent ==
    [][\A m \in Member : collecting'[m] /\ ~collecting[m]
          => lastOk < now - GcInterval]_vars

\* A Node that has gone silent is removed from the registry.
\* Violated where the owner ends: no other member collects its Nodes
\* (collect_garbage).
SilentNodeIsCollected == <>[](~Held(Len(log)))
=============================================================================
