---------------------------- MODULE Reservation ----------------------------
(***************************************************************************)
(* The reservation of Nodes: the session a Node keeps                      *)
(* (nmos/crypto/__init__.py, ExclusiveSession, behind                      *)
(* nmos/api/handlers_exclusive.py) and the controller that acquires it for *)
(* its administrators and keeps it alive from one background task          *)
(* (nmos/controller/reservation.py, SessionStore).                         *)
(*                                                                         *)
(* Nothing here has an absolute time: a Node counts how long ago the       *)
(* session was created and kept alive, the controller how long ago it      *)
(* heard of either.  Time may pass while a request is on its way, at most  *)
(* RequestTime of it, and never while a task could run.  A token is only   *)
(* ever compared with that of the Node's session, so all that is kept of   *)
(* one is whether it is "current" there or "stale".                        *)
(*                                                                         *)
(* The controller's entries are objects: the background task goes on with  *)
(* the ones it found at the start of its walk, whatever release() and      *)
(* acquire() have done to the dictionary since.  The object in the         *)
(* dictionary is in slot 0 of its key; one that has left it moves to       *)
(* another slot, and so do the references to it.                           *)
(***************************************************************************)
EXTENDS Integers, FiniteSets, Sequences

CONSTANTS
    Admins,         \* administrators logged in at the controller
    Nodes,
    AliveTime,      \* ALIVETIME, and ALIVE_TIME_SECONDS at the Node
    MinLifetime,    \* MIN_LIFETIME
    Lifetime,       \* the Session Lifetime the Nodes are configured with
    RenewRetry,     \* RENEW_TRANSPORT_ERROR_RETRY
    RequestTime,    \* how long a request may take: NODE_REQUEST_TIMEOUT
    Faults,         \* "request" loses requests; the name of an operation
                    \* loses the answers to that operation
    MaxLost,        \* requests of the background task to a Node that fail in a row
    Uses,           \* whether the administrators use what they have reserved
    MaxRestarts     \* restarts of Nodes

\* Assumed of the constants by the modules that instantiate this one.
TimesAssumption ==
    /\ AliveTime \in Nat /\ AliveTime % 2 = 0
    /\ {MinLifetime, Lifetime} \subseteq {t \in Nat : t % 6 = 0}
    /\ AliveTime <= MinLifetime /\ MinLifetime <= Lifetime
    /\ {RenewRetry, RequestTime, MaxLost, MaxRestarts} \subseteq Nat
    /\ Uses \in BOOLEAN

VARIABLES
    node,       \* _session of each Node
    sessions,   \* _sessions: the (admin, Node) pairs that have an object
    heap,       \* the ReservationSession objects
    present,    \* AdminSessionStore: "in", "leaving" or "out"
    leaving,    \* the objects whose release an administrator waits for
    phase,      \* the background task: "asleep", "due" or "walking"
    work,       \* the objects its walk has still to visit
    late,       \* how long ago it read the clock
    req,        \* the request each task waits for, or Nothing
    lost,       \* requests of the background task that failed in a row, per Node
    restarts

vars == <<node, sessions, heap, present, leaving, phase, work, late, req, lost,
          restarts>>

Half == AliveTime \div 2
Keys == Admins \X Nodes
Ids == Keys \X (0 .. 2)
Nobody == "nobody"
NoId == <<<<Nobody, Nobody>>, 0>>
Nothing == [op |-> "none"]
Poll == <<"poll", Nobody>>
Tasks == {Poll} \cup ({"acquire", "release"} \X Admins)
Tokens == {"none", "current", "stale"}
MaxLate == RequestTime * Cardinality(Keys)
MaxAge == Lifetime + 2 * RequestTime + MaxLate + 1

Min2(x, y) == IF x < y THEN x ELSE y
Max2(x, y) == IF x < y THEN y ELSE x

NoSession == [admin |-> Nobody, created |-> 0, kept |-> 0, expired |-> TRUE]
Blank == [token |-> "none", age |-> 0, idle |-> 0, lifetime |-> MinLifetime,
          deferred |-> 0]

\* The object of the dictionary, and the slot for one that leaves it
Stored(k) == <<k, 0>>
Referenced ==
    {Stored(k) : k \in sessions} \cup work
        \cup UNION {{leaving[a][i] : i \in 1 .. Len(leaving[a])} : a \in Admins}
        \cup {req[c].obj : c \in {t \in Tasks : req[t] # Nothing}}
Aside(k) == IF <<k, 1>> \in Referenced THEN <<k, 2>> ELSE <<k, 1>>

\* What becomes of the references to the objects of the keys ks, when those
\* leave the dictionary
Moved(ks, id) == IF id[2] = 0 /\ id[1] \in ks THEN Aside(id[1]) ELSE id
MovedHeap(ks) ==
    [id \in Ids |-> IF id[1] \in ks /\ id = Aside(id[1]) THEN heap[Stored(id[1])]
                    ELSE heap[id]]
MovedReq(ks) == [c \in Tasks |-> IF req[c] = Nothing THEN Nothing
                                 ELSE [req[c] EXCEPT !.obj = Moved(ks, @)]]
MovedWork(ks) == {Moved(ks, id) : id \in work}

\* What nobody can reach is forgotten.
Collected(h) == [id \in Ids |-> IF id \in Referenced' THEN h[id] ELSE Blank]

\* current_token
CurrentToken(k) == IF k \in sessions THEN heap[Stored(k)].token ELSE "none"

----------------------------------------------------------------------------
(* The Node *)

\* _is_alive_internal
IsAlive(s) == ~s.expired /\ s.created < Lifetime /\ s.kept < AliveTime

\* Looking at a session that has lapsed ends it.
Looked(s) == [s EXCEPT !.expired = ~IsAlive(s)]

Answer(status, token, retry) == [status |-> status, token |-> token, retry |-> retry]

\* No session, or another one's token: 401
Refused(s, token) == s.expired \/ token # "current"

\* acquire
NodeAcquire(s, a) ==
    IF IsAlive(s)
    THEN [session |-> s, answer |-> Answer(423, "none", 0)]
    ELSE [session |-> [admin |-> a, created |-> 0, kept |-> 0, expired |-> FALSE],
          answer |-> Answer(200, "current", 0)]

\* Mutant: a renewal does not restart the Lifetime
RenewKeepsAge(s, token) ==
    IF Refused(s, token) THEN [session |-> s, answer |-> Answer(401, "none", 0)]
    ELSE IF 3 * s.created < Lifetime
    THEN [session |-> s,
          answer |-> Answer(425, "none", Max2(1, (Lifetime \div 2) - s.created))]
    ELSE [session |-> [s EXCEPT !.kept = 0],
          answer |-> Answer(200, "current", 0)]

\* renew: only after a third of the Lifetime, and a new token
NodeRenew(s, token) ==
    IF Refused(s, token) THEN [session |-> s, answer |-> Answer(401, "none", 0)]
    ELSE IF 3 * s.created < Lifetime
    THEN [session |-> s,
          answer |-> Answer(425, "none", Max2(1, (Lifetime \div 2) - s.created))]
    ELSE [session |-> [s EXCEPT !.created = 0, !.kept = 0],
          answer |-> Answer(200, "current", 0)]

\* keep_alive
NodeKeepAlive(s, token) ==
    IF Refused(s, token) THEN [session |-> s, answer |-> Answer(401, "none", 0)]
    ELSE [session |-> [s EXCEPT !.kept = 0], answer |-> Answer(200, "none", 0)]

\* release
NodeRelease(s, token) ==
    IF Refused(s, token) THEN [session |-> s, answer |-> Answer(401, "none", 0)]
    ELSE [session |-> NoSession, answer |-> Answer(200, "none", 0)]

Handled(r, s) ==
    CASE r.op = "acquire" -> NodeAcquire(s, r.admin)
      [] r.op = "renew" -> NodeRenew(s, r.token)
      [] r.op = "keepalive" -> NodeKeepAlive(s, r.token)
      [] r.op = "release" -> NodeRelease(s, r.token)

\* An ended session is as good as none.
Remembered(s) == IF s.expired THEN NoSession ELSE s

\* The tokens of Node n that anybody has are no longer the Node's.
Staled(token) == IF token = "current" THEN "stale" ELSE token
StaleHeap(n) == [id \in Ids |-> IF id[1][2] = n
                                THEN [heap[id] EXCEPT !.token = Staled(@)] ELSE heap[id]]
StaleReq(n) == [c \in Tasks |-> IF req[c] # Nothing /\ req[c].node = n
                                THEN [req[c] EXCEPT !.token = Staled(@),
                                                    !.answer.token = Staled(@)]
                                ELSE req[c]]

\* The Node handles the request of task c.  Of the four operations acquire()
\* alone asks whether the session is alive.
Execute(c) ==
    /\ req[c] # Nothing /\ req[c].state = "sent"
    /\ LET n == req[c].node
           h == Handled(req[c], IF req[c].op = "acquire" THEN Looked(node[n]) ELSE node[n])
           new == h.answer.token = "current" \/ h.session.expired
       IN  /\ node' = [node EXCEPT ![n] = Remembered(h.session)]
           /\ heap' = IF new THEN StaleHeap(n) ELSE heap
           /\ req' = [(IF new THEN StaleReq(n) ELSE req)
                         EXCEPT ![c].state = "answered", ![c].answer = h.answer]
    /\ UNCHANGED <<sessions, present, leaving, phase, work, late, lost, restarts>>

Ends(n) ==
    /\ node' = [node EXCEPT ![n] = NoSession]
    /\ heap' = StaleHeap(n)
    /\ req' = StaleReq(n)
    /\ UNCHANGED <<sessions, present, leaving, phase, work, late, lost>>

\* A state-changing request of an administrator that carries current_token():
\* check_exclusive_authorization, is_owner, and the keep-alive that comes with it.
Use(k) ==
    /\ Uses /\ CurrentToken(k) = "current" /\ IsAlive(node[k[2]])
    /\ node' = [node EXCEPT ![k[2]].kept = 0]
    /\ UNCHANGED <<sessions, heap, present, leaving, phase, work, late, req, lost,
                   restarts>>

\* A request finds the session lapsed: check_exclusive_authorization again, with
\* a bearer (is_owner) or without one (is_alive).
Peek(n) ==
    /\ ~node[n].expired /\ ~IsAlive(node[n])
    /\ Ends(n)
    /\ UNCHANGED restarts

\* The session is in the Node's memory only.
NodeRestart(n) ==
    /\ restarts < MaxRestarts /\ ~node[n].expired
    /\ restarts' = restarts + 1
    /\ Ends(n)

----------------------------------------------------------------------------
(* RemoteNodeClient._request: one outcome, status 0 when no exchange completed *)

Lose(c) ==
    /\ req[c] # Nothing
    /\ \/ req[c].state = "sent" /\ "request" \in Faults
       \/ req[c].state = "answered" /\ req[c].answer.status # 0 /\ req[c].op \in Faults
    /\ c = Poll => lost[req[c].node] < MaxLost
    /\ lost' = IF c = Poll THEN [lost EXCEPT ![req[c].node] = @ + 1] ELSE lost
    /\ req' = [req EXCEPT ![c].state = "answered", ![c].answer = Answer(0, "none", 0)]
    /\ UNCHANGED <<node, sessions, heap, present, leaving, phase, work, late, restarts>>

Sent(op, id, k, token) ==
    [op |-> op, obj |-> id, admin |-> k[1], node |-> k[2], token |-> token,
     state |-> "sent", answer |-> Answer(0, "none", 0), age |-> 0]

\* Task c takes the answer to its request.
Takes(c) ==
    /\ req[c] # Nothing /\ req[c].state = "answered"
    /\ lost' = IF c # Poll \/ req[c].answer.status = 0 THEN lost
               ELSE [lost EXCEPT ![req[c].node] = 0]

----------------------------------------------------------------------------
(* The administrators' requests: acquire(), release() and the logout *)

\* acquire() finds no token and asks the Node.
Acquire(k) ==
    LET c == <<"acquire", k[1]>>
    IN  /\ present[k[1]] = "in" /\ req[c] = Nothing
        /\ CurrentToken(k) = "none"
        /\ req' = [req EXCEPT ![c] = Sent("acquire", NoId, k, "none")]
        /\ UNCHANGED <<node, sessions, heap, present, leaving, phase, work, late,
                       lost, restarts>>

\* acquire() has its answer: the new session replaces whatever is there.
Acquired(a) ==
    LET c == <<"acquire", a>>
        k == <<a, req[c].node>>
        got == req[c].answer.status = 200
        old == IF got THEN {k} \cap sessions ELSE {}
    IN  /\ Takes(c)
        /\ req' = [MovedReq(old) EXCEPT ![c] = Nothing]
        /\ work' = MovedWork(old)
        /\ sessions' = IF got THEN sessions \cup {k} ELSE sessions
        /\ UNCHANGED <<node, present, leaving, phase, late, restarts>>
        /\ heap' = Collected(IF got
                             THEN [MovedHeap(old) EXCEPT ![Stored(k)] =
                                      [Blank EXCEPT !.token = req[c].answer.token]]
                             ELSE heap)

\* The sessions ks of an administrator leave the dictionary, to be released in
\* the order given.
Leaves(a, ks, order) ==
    /\ leaving' = [leaving EXCEPT ![a] =
           [i \in DOMAIN order |-> Aside(<<a, order[i]>>)]]
    /\ sessions' = sessions \ ks
    /\ req' = MovedReq(ks)
    /\ work' = MovedWork(ks)
    /\ UNCHANGED <<node, phase, late, lost, restarts>>
    /\ heap' = Collected(MovedHeap(ks))

\* release()
Release(k) ==
    /\ present[k[1]] = "in" /\ leaving[k[1]] = <<>> /\ req[<<"release", k[1]>>] = Nothing
    /\ k \in sessions
    /\ Leaves(k[1], {k}, <<k[2]>>)
    /\ UNCHANGED present

\* logout_handler: release_all(), and the administrator is discarded after it.
Logout(a) ==
    LET held == {n \in Nodes : <<a, n>> \in sessions}
    IN  /\ present[a] = "in" /\ leaving[a] = <<>> /\ req[<<"release", a>>] = Nothing
        /\ present' = [present EXCEPT ![a] = "leaving"]
        /\ \E order \in [1 .. Cardinality(held) -> held] :
               /\ {order[i] : i \in DOMAIN order} = held
               /\ Leaves(a, {a} \X held, order)

\* _release_session, of the token the object has now
ReleaseNext(a) ==
    LET c == <<"release", a>>
        id == Head(leaving[a])
    IN  /\ leaving[a] # <<>> /\ req[c] = Nothing
        /\ leaving' = [leaving EXCEPT ![a] = Tail(@)]
        /\ req' = IF heap[id].token = "none" THEN req
                  ELSE [req EXCEPT ![c] = Sent("release", id, id[1], heap[id].token)]
        /\ UNCHANGED <<node, sessions, present, phase, work, late, lost, restarts>>
        /\ heap' = Collected(heap)

\* Best effort: whatever the Node answered, the local state is gone already.
Released(a) ==
    LET c == <<"release", a>>
    IN  /\ Takes(c)
        /\ req' = [req EXCEPT ![c] = Nothing]
        /\ UNCHANGED <<node, sessions, present, leaving, phase, work, late, restarts>>
        /\ heap' = Collected(heap)

\* AdminSessionStore.discard
Discard(a) ==
    /\ present[a] = "leaving" /\ leaving[a] = <<>> /\ req[<<"release", a>>] = Nothing
    /\ present' = [present EXCEPT ![a] = "out"]
    /\ UNCHANGED <<node, sessions, heap, leaving, phase, work, late, req, lost, restarts>>

----------------------------------------------------------------------------
(* The background task: _run and _tick *)

\* _tick takes its snapshot and reads the clock, once.
TickStart ==
    /\ phase = "due"
    /\ phase' = "walking" /\ late' = 0
    /\ work' = {Stored(k) : k \in sessions}
    /\ UNCHANGED <<node, sessions, heap, present, leaving, req, lost, restarts>>

\* Mutant: keeps alive only once the window has closed
KeepAliveLate(s) == s.idle - late >= AliveTime

\* The branches of _tick, for the object id at the clock it has read
RenewDue(s) == 2 * (s.age - late) > s.lifetime /\ s.deferred + late <= 0
KeepAliveDue(s) == AliveTime - s.idle + late < Half

Asked(id, s) ==
    IF s.token = "none" THEN Sent("acquire", id, id[1], "none")
    ELSE IF RenewDue(s) THEN Sent("renew", id, id[1], s.token)
    ELSE IF KeepAliveDue(s) THEN Sent("keepalive", id, id[1], s.token)
    ELSE Nothing

\* Mutant: a session is maintained whoever has logged out
VisitAny(id) ==
    /\ req' = [req EXCEPT ![Poll] = Asked(id, heap[id])]
    /\ work' = work \ {id}
    /\ UNCHANGED sessions
    /\ heap' = Collected(heap)

\* A session whose owner has vanished is dropped and released.
DropVanished(id) ==
    LET k == id[1]
        token == heap[id].token
        old == {k} \cap sessions
    IN  /\ sessions' = sessions \ {k}
        /\ work' = MovedWork(old) \ {Moved(old, id)}
        /\ req' = IF token = "none" THEN MovedReq(old)
                  ELSE [MovedReq(old) EXCEPT ![Poll] = Sent("release", Moved(old, id), k, token)]
        /\ heap' = Collected(MovedHeap(old))

\* One object of the walk is dropped, reacquired, renewed, kept alive or left.
VisitOne(id) ==
    IF present[id[1][1]] = "out" THEN DropVanished(id)
    ELSE /\ req' = [req EXCEPT ![Poll] = Asked(id, heap[id])]
         /\ work' = work \ {id}
         /\ UNCHANGED sessions
         /\ heap' = Collected(heap)

\* The walk goes in the dictionary's order; the model takes any.
Visit(id) ==
    /\ phase = "walking" /\ req[Poll] = Nothing
    /\ id \in work
    /\ UNCHANGED <<node, present, leaving, phase, late, lost, restarts>>
    /\ VisitOne(id)

\* The walk is over; the task sleeps for POLL_INTERVAL.
TickEnd ==
    /\ phase = "walking" /\ work = {} /\ req[Poll] = Nothing
    /\ phase' = "asleep" /\ late' = 0
    /\ UNCHANGED <<node, sessions, heap, present, leaving, work, req, lost, restarts>>

\* Mutant: the times are cleared, the token is not
ZeroedTimes(s) == [s EXCEPT !.age = 0, !.idle = 0, !.deferred = 0]

\* What a failure leaves: "the zero-the-token pattern"
Zeroed(s) == [s EXCEPT !.token = "none", !.age = 0, !.idle = 0, !.deferred = 0]
Rebased(s, token) == [s EXCEPT !.token = token, !.age = 0, !.idle = 0, !.deferred = 0]

\* _try_reacquire
Reacquired(s, r) == IF r.status = 200 THEN Rebased(s, r.token) ELSE s

\* Mutant: half the Lifetime is taken for the whole
TooEarlyHalf(s, retry) ==
    [s EXCEPT !.deferred = retry, !.lifetime = Max2(MinLifetime, retry + s.age)]

\* Mutant: the Lifetime derived is added to the one believed
TooEarlyMore(s, retry) ==
    [s EXCEPT !.deferred = retry, !.lifetime = @ + 2 * (retry + s.age)]

\* _apply_too_early: expires_at is renewed_at + lifetime, before and after
TooEarly(s, retry) ==
    [s EXCEPT !.deferred = retry, !.lifetime = Max2(MinLifetime, 2 * (retry + s.age))]

\* _try_renew
Renewed(s, r) ==
    CASE r.status = 0 -> [s EXCEPT !.deferred = RenewRetry]
      [] r.status = 425 -> TooEarly(s, r.retry)
      [] r.status = 200 -> Rebased(s, r.token)
      [] OTHER -> Zeroed(s)

\* _try_keepalive
KeptAlive(s, r) ==
    CASE r.status = 200 -> [s EXCEPT !.idle = 0]
      [] r.status = 0 /\ s.idle < AliveTime -> s
      [] OTHER -> Zeroed(s)

\* The background task has the answer it waited for.
PollAnswered ==
    LET r == req[Poll]
        s == heap[r.obj]
    IN  /\ Takes(Poll)
        /\ req' = [req EXCEPT ![Poll] = Nothing]
        /\ UNCHANGED <<node, sessions, present, leaving, phase, work, late, restarts>>
        /\ heap' = Collected([heap EXCEPT ![r.obj] =
               CASE r.op = "acquire" -> Reacquired(s, r.answer)
                 [] r.op = "renew" -> Renewed(s, r.answer)
                 [] r.op = "keepalive" -> KeptAlive(s, r.answer)
                 [] r.op = "release" -> s])

----------------------------------------------------------------------------
(* Time *)

Older(s) == IF s.expired THEN s
            ELSE [s EXCEPT !.created = Min2(@ + 1, Lifetime),
                           !.kept = Min2(@ + 1, AliveTime)]

Aged(s) == IF s.token = "none" THEN s
           ELSE [s EXCEPT !.age = Min2(@ + 1, MaxAge),
                          !.idle = Min2(@ + 1, AliveTime + MaxLate),
                          !.deferred = Max2(@ - 1, 0 - MaxLate)]

\* Time passes when every task waits, for the network or for the next second.
Time ==
    /\ phase = "asleep" \/ req[Poll] # Nothing
    /\ \A a \in Admins : (leaving[a] # <<>> \/ present[a] = "leaving")
                             => req[<<"release", a>>] # Nothing
    /\ \A c \in Tasks : req[c] # Nothing => req[c].age < RequestTime
    /\ phase' = IF phase = "asleep" THEN "due" ELSE phase
    /\ late' = IF phase = "walking" THEN Min2(late + 1, MaxLate) ELSE late
    /\ node' = [n \in Nodes |-> Older(node[n])]
    /\ heap' = [id \in Ids |-> Aged(heap[id])]
    /\ req' = [c \in Tasks |-> IF req[c] = Nothing THEN Nothing
                               ELSE [req[c] EXCEPT !.age = @ + 1]]
    /\ UNCHANGED <<sessions, present, leaving, work, lost, restarts>>

----------------------------------------------------------------------------
Init ==
    /\ node = [n \in Nodes |-> NoSession]
    /\ sessions = {}
    /\ heap = [id \in Ids |-> Blank]
    /\ present = [a \in Admins |-> "in"]
    /\ leaving = [a \in Admins |-> <<>>]
    /\ phase = "asleep" /\ work = {} /\ late = 0
    /\ req = [c \in Tasks |-> Nothing]
    /\ lost = [n \in Nodes |-> 0]
    /\ restarts = 0

PollStep == TickStart \/ TickEnd \/ PollAnswered \/ \E id \in Ids : Visit(id)
HandlerStep == \E a \in Admins : Acquired(a) \/ ReleaseNext(a) \/ Released(a) \/ Discard(a)

Next ==
    \/ PollStep \/ HandlerStep \/ Time
    \/ \E c \in Tasks : Execute(c) \/ Lose(c)
    \/ \E k \in Keys : Acquire(k) \/ Release(k) \/ Use(k)
    \/ \E a \in Admins : Logout(a)
    \/ \E n \in Nodes : Peek(n) \/ NodeRestart(n)

Spec == Init /\ [][Next]_vars

\* The event loop runs what can run, the Node answers what reaches it, and the
\* clock goes on, however much the administrators ask for in an instant.
FairSpec ==
    /\ Spec /\ SF_vars(Time) /\ WF_vars(PollStep)
    /\ \A a \in Admins : /\ WF_vars(Acquired(a))
                         /\ WF_vars(ReleaseNext(a) \/ Released(a) \/ Discard(a))
    /\ \A c \in Tasks : WF_vars(Execute(c))

----------------------------------------------------------------------------
(* Properties *)

NodeSession == [admin : Admins \cup {Nobody}, created : 0 .. Lifetime,
                kept : 0 .. AliveTime, expired : BOOLEAN]
Session == [token : Tokens, age : 0 .. MaxAge, idle : 0 .. (AliveTime + MaxLate),
            lifetime : MinLifetime .. (Lifetime + 2 * RequestTime),
            deferred : (0 - MaxLate) .. Max2(Lifetime, RenewRetry)]

\* Type correctness.  The belief of the controller about the Lifetime of a Node
\* (_apply_too_early) stays within the delays of the network around the truth.
TypeOK ==
    /\ node \in [Nodes -> NodeSession]
    /\ sessions \subseteq Keys
    /\ heap \in [Ids -> Session]
    /\ present \in [Admins -> {"in", "leaving", "out"}]
    /\ \A a \in Admins : \A i \in 1 .. Len(leaving[a]) : leaving[a][i] \in Ids
    /\ phase \in {"asleep", "due", "walking"}
    /\ work \subseteq Ids /\ late \in 0 .. MaxLate
    /\ \A c \in Tasks : req[c] # Nothing => req[c].age \in 0 .. RequestTime
    /\ lost \in [Nodes -> 0 .. MaxLost] /\ restarts \in 0 .. MaxRestarts

Holds(a, n) == IsAlive(node[n]) /\ node[n].admin = a
Valid(k) ==
    CurrentToken(k) = "current" /\ IsAlive(node[k[2]])

\* A reservation the controller shows as held is held: its Node has a live
\* session under that token, whatever rivals ask and however the renewals, the
\* keep-alives, the derived Lifetime and the delays fall (_tick, _try_renew,
\* _try_keepalive, _apply_too_early).
\* Violated with two slow Nodes, which are kept one after the other (_tick).
Kept ==
    \A k \in Keys :
        (/\ CurrentToken(k) # "none"
         /\ req[Poll] # Nothing => req[Poll].obj # Stored(k))
            => Valid(k)

\* One refused renew is enough: a session whose Lifetime has been derived is
\* never called too early again (_apply_too_early: "no further 425 occurs").
OneTooEarly ==
    LET r == req[Poll]
    IN  ~(/\ r # Nothing /\ r.state = "answered" /\ r.answer.status = 425
          /\ heap[r.obj].lifetime > MinLifetime)

\* The controller gets back what it lost: a session it keeps in its dictionary
\* is valid again, unless it was given up or another administrator has the Node
\* (_try_reacquire after a 401, a lapse, a restart of the Node).
HeldAgain ==
    \A k \in Keys :
        (k \in sessions)
            ~> (Valid(k) \/ k \notin sessions
                \/ \E b \in Admins \ {k[1]} : Holds(b, k[2]))

\* The Nodes of an administrator who has logged out come free, even those
\* acquired while the logout was going on (_tick drops a vanished owner's).
LeftIsFreed ==
    \A a \in Admins : (present[a] = "out") ~> (\A n \in Nodes : ~Holds(a, n))

\* reservation.py: "A ``401`` is the Node telling us our session is gone."
\* Violated where the answer of a renewal was lost.
GoneMeansGone ==
    LET r == req[Poll]
    IN  (/\ r # Nothing /\ r.state = "answered" /\ r.answer.status = 401
         /\ r.op \in {"renew", "keepalive"} /\ r.obj[2] = 0)
            => ~Holds(r.admin, r.node)

\* reservation.py: "Now -- and only now -- is discarding the token the right
\* answer, because a reacquire can actually succeed."
\* Violated where answers of keep-alives were lost.
DiscardIsRight ==
    [][(/\ req[Poll] # Nothing /\ req[Poll].op = "keepalive" /\ req'[Poll] = Nothing
        /\ req[Poll].answer.status = 0 /\ heap[req[Poll].obj].idle >= AliveTime
        /\ req[Poll].obj[2] = 0)
            => ~Holds(req[Poll].admin, req[Poll].node)]_vars

\* app.py, logout_handler: "the polling task won't try to reacquire a session the
\* admin is actively giving up".
\* Violated by the walk over entries that a logout has taken out meanwhile.
NotReacquired ==
    [][(/\ req[Poll] = Nothing /\ req'[Poll] # Nothing
        /\ req'[Poll].op = "acquire" /\ present[req'[Poll].admin] = "leaving")
            => req'[Poll].obj[2] = 0]_vars

\* app.py, logout_handler: "release every Node Reservation the admin had held".
\* Violated where a release races a renewal.
LogoutReleases ==
    \A a \in Admins :
        (/\ present[a] = "out"
         /\ \A n \in Nodes : <<a, n>> \notin sessions
         /\ \A c \in Tasks : req[c] # Nothing => req[c].admin # a)
            => \A n \in Nodes : ~Holds(a, n)
=============================================================================
