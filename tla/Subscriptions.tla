---- MODULE Subscriptions ----
(***************************************************************************)
(* Subscriptions of the Query API: creation, deletion and reaping, the     *)
(* WebSocket handler with its reader and its rate-limited sender, and the  *)
(* grains that carry registry changes to each client                       *)
(* (src/nmos/registry/subscriptions.py, websocket.py), over the store      *)
(* whose every change is published in the step that makes it               *)
(* (registry.py) or, when the whole store is replaced, as the backend does *)
(* (raft/machine.py, etcd_backend.py).                                     *)
(*                                                                         *)
(* A client is one WebSocket of one subscription.  A subscription's id is  *)
(* never used again.  A filter is the set of bodies it matches.            *)
(***************************************************************************)
EXTENDS Naturals, FiniteSets

CONSTANTS
    Resources,   \* resource ids of the subscribed type
    Bodies,      \* what a resource can say of itself
    Matching,    \* the bodies the subscriptions' filter matches
    Subs,        \* subscriptions
    Persistent,  \* the subscriptions with persist set
    Clients,     \* WebSockets
    Replacement, \* how the store is replaced: "never", "etcd" or "raft"
    RateLimited, \* max_update_rate_ms is not zero
    MaxChanges,  \* bound on the changes of the store
    None         \* no body, no subscription

\* Assumed of the constants by the modules that instantiate this one.
SubscriptionConstants ==
    /\ Matching \subseteq Bodies
    /\ Persistent \subseteq Subs
    /\ Replacement \in {"never", "etcd", "raft"}
    /\ RateLimited \in BOOLEAN
    /\ MaxChanges \in Nat
    /\ None \notin Bodies \cup Subs

VARIABLES
    store,       \* the body of each registered resource
    changes,     \* how often it changed
    known,       \* subscriptions that /subscriptions lists
    gone,        \* subscriptions deleted or reaped
    connections, \* the clients attached to each subscription
    sub,         \* the subscription a client asked for
    phase,       \* where the client's handler is
    pending,     \* the changes buffered for it, one for a resource
    wake,        \* its sender has been told there is work
    closed,      \* its connection is closed by the server
    left,        \* it went away, and the reader saw it
    sender,      \* where its sender is
    grain,       \* the changes its sender is writing
    view         \* what it knows of the registry

manager == <<known, gone, connections>>
handler == <<sub, phase, left>>
buffer  == <<pending, wake, closed>>
sending == <<sender, grain, view>>
vars == <<store, changes, manager, handler, buffer, sending>>

Body == Bodies \cup {None}
PendingEvent == [pre: Body, post: Body]

TypeOK ==
    /\ store \in [Resources -> Body]
    /\ changes \in 0..MaxChanges
    /\ known \subseteq Subs
    /\ gone \subseteq Subs
    /\ connections \in [Subs -> SUBSET Clients]
    /\ sub \in [Clients -> Subs \cup {None}]
    /\ phase \in [Clients -> {"idle", "upgrading", "open", "ended"}]
    /\ pending \in [Clients -> [Resources -> PendingEvent \cup {None}]]
    /\ wake \in [Clients -> BOOLEAN]
    /\ closed \in [Clients -> BOOLEAN]
    /\ left \in [Clients -> BOOLEAN]
    /\ sender \in [Clients -> {"waiting", "writing", "sleeping", "ended"}]
    /\ grain \in [Clients -> [Resources -> PendingEvent \cup {None}]]
    /\ view \in [Clients -> [Resources -> Body]]

Nothing == [r \in Resources |-> None]

Init ==
    /\ store \in [Resources -> Body]
    /\ changes = 0
    /\ known = {}
    /\ gone = {}
    /\ connections = [s \in Subs |-> {}]
    /\ sub = [c \in Clients |-> None]
    /\ phase = [c \in Clients |-> "idle"]
    /\ pending = [c \in Clients |-> Nothing]
    /\ wake = [c \in Clients |-> FALSE]
    /\ closed = [c \in Clients |-> FALSE]
    /\ left = [c \in Clients |-> FALSE]
    /\ sender = [c \in Clients |-> "waiting"]
    /\ grain = [c \in Clients |-> Nothing]
    /\ view = [c \in Clients |-> Nothing]

----------------------------------------------------------------------------
(* Grains *)

Shown(b) == IF b \in Matching THEN b ELSE None

ClassifyByPost(pre, post) ==
    IF post \in Matching THEN [pre |-> Shown(pre), post |-> post] ELSE None

(* What a subscription sees of a change: the filter on either side. *)
Classify(pre, post) ==
    IF {pre, post} \cap Matching = {} THEN None
    ELSE [pre |-> Shown(pre), post |-> Shown(post)]

MergeWhole(old, new) == [old EXCEPT !.post = new]

(* The first pre and the last post of a window. *)
Merge(old, new) == [old EXCEPT !.post = new.post]

(* A buffer once a change is enqueued; None is no change. *)
Enqueued(buf, ev) ==
    [r \in Resources |->
        IF ev[r] = None THEN buf[r]
        ELSE IF buf[r] = None THEN ev[r]
        ELSE Merge(buf[r], ev[r])]

WakesOnFirst(c, ev) ==
    wake[c] \/ (pending[c] = Nothing /\ sender[c] = "waiting" /\ ev # Nothing)

Wakes(c, ev) == wake[c] \/ ev # Nothing

(* Buffer ev[r] for every client in C, and wake their senders. *)
Enqueue(C, ev) ==
    /\ pending' = [c \in Clients |->
                    IF c \in C THEN Enqueued(pending[c], ev) ELSE pending[c]]
    /\ wake' = [c \in Clients |-> IF c \in C THEN Wakes(c, ev) ELSE wake[c]]

(* Changes go to the connections of the subscriptions that are listed. *)
Publish(old, new) ==
    Enqueue(UNION {connections[s]: s \in known},
            [r \in Resources |-> IF old[r] = new[r] THEN None
                                 ELSE Classify(old[r], new[r])])

----------------------------------------------------------------------------
(* The store *)

(* A registration, an update or a removal, published in the same step. *)
Change(r, b) ==
    /\ changes < MaxChanges
    /\ changes' = changes + 1
    /\ b # store[r]
    /\ store' = [store EXCEPT ![r] = b]
    /\ Publish(store, store')
    /\ UNCHANGED <<manager, handler, closed, sending>>

(* An update with the body a resource already has: a grain like a sync. *)
Repeat(r) ==
    /\ changes < MaxChanges
    /\ changes' = changes + 1
    /\ store[r] # None
    /\ Enqueue(UNION {connections[s]: s \in known},
               [q \in Resources |-> IF q = r THEN Classify(store[r], store[r])
                                             ELSE None])
    /\ UNCHANGED <<store, manager, handler, closed, sending>>

(* A snapshot replaces the store.  etcd's backend publishes the difference *)
(* (_resnapshot); raft's state machine publishes nothing.                  *)
Replace(new) ==
    /\ Replacement # "never"
    /\ changes < MaxChanges
    /\ changes' = changes + 1
    /\ store' = new
    /\ IF Replacement = "etcd" THEN Publish(store, new)
                               ELSE UNCHANGED <<pending, wake>>
    /\ UNCHANGED <<manager, handler, closed, sending>>

----------------------------------------------------------------------------
(* The manager and the WebSocket handler *)

CreateOrMatch(s) ==
    /\ s \notin known \cup gone
    /\ known' = known \cup {s}
    /\ UNCHANGED <<store, changes, gone, connections, handler, buffer, sending>>

(* DELETE of a persistent subscription closes its clients. *)
Delete(s) ==
    /\ s \in known \cap Persistent
    /\ known' = known \ {s}
    /\ gone' = gone \cup {s}
    /\ connections' = [connections EXCEPT ![s] = {}]
    /\ closed' = [c \in Clients |-> closed[c] \/ c \in connections[s]]
    /\ wake' = [c \in Clients |-> wake[c] \/ c \in connections[s]]
    /\ UNCHANGED <<store, changes, handler, pending, sending>>

(* A client asks for ws_href; the subscription is looked up, and the       *)
(* upgrade awaited.                                                        *)
Upgrade(c, s) ==
    /\ phase[c] = "idle"
    /\ s \in known
    /\ sub' = [sub EXCEPT ![c] = s]
    /\ phase' = [phase EXCEPT ![c] = "upgrading"]
    /\ UNCHANGED <<store, changes, manager, left, buffer, sending>>

(* prepare fails: the client went away. *)
UpgradeFails(c) ==
    /\ phase[c] = "upgrading"
    /\ phase' = [phase EXCEPT ![c] = "ended"]
    /\ UNCHANGED <<store, changes, manager, sub, left, buffer, sending>>

(* Attaching, and the burst that shows the client what is registered. *)
Connect(c) ==
    /\ phase[c] = "upgrading"
    /\ phase' = [phase EXCEPT ![c] = "open"]
    /\ connections' = [connections EXCEPT ![sub[c]] = @ \cup {c}]
    /\ Enqueue({c}, [r \in Resources |-> Classify(store[r], store[r])])
    /\ UNCHANGED <<store, changes, known, gone, sub, left, closed, sending>>

(* The client closes its socket and the reader sees it. *)
Leave(c) ==
    /\ phase[c] = "open"
    /\ left' = [left EXCEPT ![c] = TRUE]
    /\ UNCHANGED <<store, changes, manager, sub, phase, buffer, sending>>

(* Either end ended: detach, reap a subscription nobody is left on, and    *)
(* cancel the sender.                                                      *)
Disconnect(c) ==
    /\ phase[c] = "open"
    /\ left[c] \/ closed[c]
    /\ phase' = [phase EXCEPT ![c] = "ended"]
    /\ closed' = [closed EXCEPT ![c] = TRUE]
    /\ wake' = [wake EXCEPT ![c] = TRUE]
    /\ connections' = [connections EXCEPT ![sub[c]] = @ \ {c}]
    /\ LET reaped == IF connections[sub[c]] = {c}
                     THEN {sub[c]} \ Persistent ELSE {}
       IN known' = known \ reaped /\ gone' = gone \cup reaped
    /\ sender' = [sender EXCEPT ![c] = "ended"]
    /\ UNCHANGED <<store, changes, sub, left, pending, grain, view>>

----------------------------------------------------------------------------
(* The sender *)

(* Woken: take all that is buffered, or go on waiting if there is nothing. *)
Drain(c) ==
    /\ phase[c] = "open"
    /\ sender[c] = "waiting"
    /\ wake[c]
    /\ ~closed[c]
    /\ grain' = [grain EXCEPT ![c] = pending[c]]
    /\ pending' = [pending EXCEPT ![c] = Nothing]
    /\ wake' = [wake EXCEPT ![c] = FALSE]
    /\ sender' = [sender EXCEPT ![c] =
                    IF pending[c] = Nothing THEN "waiting" ELSE "writing"]
    /\ UNCHANGED <<store, changes, manager, handler, closed, view>>

SenderEnds(c) ==
    /\ phase[c] = "open"
    /\ sender[c] \in {"waiting", "sleeping"}
    /\ closed[c] \/ left[c]
    /\ sender' = [sender EXCEPT ![c] = "ended"]
    /\ UNCHANGED <<store, changes, manager, handler, buffer, grain, view>>

(* What a client knows once it has taken in some changes. *)
Shows(seen, ev) ==
    [r \in Resources |-> IF ev[r] = None THEN seen[r] ELSE ev[r].post]

(* The client receives the grain; the window is slept out. *)
Sent(c) ==
    /\ phase[c] = "open"
    /\ sender[c] = "writing"
    /\ view' = [view EXCEPT ![c] = Shows(view[c], grain[c])]
    /\ grain' = [grain EXCEPT ![c] = Nothing]
    /\ sender' = [sender EXCEPT ![c] =
                    IF RateLimited THEN "sleeping" ELSE "waiting"]
    /\ UNCHANGED <<store, changes, manager, handler, buffer>>

(* The peer vanished mid-write. *)
SendFails(c) ==
    /\ phase[c] = "open"
    /\ sender[c] = "writing"
    /\ left[c]
    /\ sender' = [sender EXCEPT ![c] = "ended"]
    /\ UNCHANGED <<store, changes, manager, handler, buffer, grain, view>>

WindowEnds(c) ==
    /\ phase[c] = "open"
    /\ sender[c] = "sleeping"
    /\ ~closed[c]
    /\ sender' = [sender EXCEPT ![c] = "waiting"]
    /\ UNCHANGED <<store, changes, manager, handler, buffer, grain, view>>

----------------------------------------------------------------------------
Next ==
    \/ \E r \in Resources, b \in Body: Change(r, b)
    \/ \E r \in Resources: Repeat(r)
    \/ \E new \in [Resources -> Body]: Replace(new)
    \/ \E s \in Subs: CreateOrMatch(s) \/ Delete(s)
    \/ \E c \in Clients, s \in Subs: Upgrade(c, s)
    \/ \E c \in Clients:
          \/ UpgradeFails(c) \/ Connect(c) \/ Leave(c) \/ Disconnect(c)
          \/ Drain(c) \/ SenderEnds(c) \/ Sent(c) \/ SendFails(c)
          \/ WindowEnds(c)

Spec == Init /\ [][Next]_vars

(* The event loop runs ready tasks, sleeps end and writes complete. *)
FairSpec ==
    /\ Spec
    /\ \A c \in Clients:
          /\ WF_vars(Drain(c))
          /\ WF_vars(Sent(c))
          /\ WF_vars(WindowEnds(c))
          /\ WF_vars(Disconnect(c))

----------------------------------------------------------------------------
(* Properties *)

Serving(c) ==
    /\ phase[c] = "open"
    /\ sub[c] \in known
    /\ ~closed[c]
    /\ ~left[c]

(* Coalescing loses nothing: what a client knows, with the grain being     *)
(* written and the changes buffered for it, is what its subscription       *)
(* matches, through filter transitions, removals and revivals within one   *)
(* window (connect, publish, _classify, enqueue, drain).                   *)
(* Violated where a snapshot of the raft backend replaces the store, which *)
(* tells no subscription of it (Replacement = "raft").                     *)
NothingIsLost ==
    \A c \in Clients: Serving(c) =>
        Shows(Shows(view[c], grain[c]), pending[c])
            = [r \in Resources |-> Shown(store[r])]

(* A client of a live subscription catches up with the registry whenever   *)
(* the registry stands still: no wake-up is lost between drain, send and   *)
(* sleep (_send_grains).                                                   *)
ClientCatchesUp ==
    \A c \in Clients:
        []<>(Serving(c) => view[c] = [r \in Resources |-> Shown(store[r])])

(* A client whose subscription is gone is closed by the server: it would   *)
(* otherwise keep a socket on which nothing can come (refuted: the         *)
(* subscription is looked up before the upgrade is awaited and attached to *)
(* after it).                                                              *)
GoneIsClosed ==
    \A c \in Clients: phase[c] = "open" /\ sub[c] \in gone => closed[c]

(* Every change in a grain has one of the four shapes: something before or *)
(* something after (refuted: added and removed within one window).         *)
EveryChangeHasAShape ==
    \A c \in Clients, r \in Resources:
        grain[c][r] # None => grain[c][r] # [pre |-> None, post |-> None]
====
