--------------------------- MODULE SnapshotTransfer -------------------------
(***************************************************************************)
(* Compaction and the transfer of a snapshot to a follower whose entries   *)
(* are gone (RaftNode._maybe_compact, _send_snapshot, on_install_snapshot, *)
(* on_install_snapshot_reply; SnapshotStore.begin, finish, abandon).       *)
(*                                                                         *)
(* Leaders are two members, one of which may depose the other, and the     *)
(* follower is one member.  All that is committed is one history, so an    *)
(* index stands for the state through it, and a snapshot is a number of    *)
(* chunks labelled with its index; two images of one index differ at most  *)
(* in the health of Nodes, which is not replicated state.  What is not     *)
(* committed is a tail of that history, of one leader: tails that conflict *)
(* are RaftNode's.                                                         *)
(*                                                                         *)
(* Chunks travel on the BULK connection.  Appends travel on CONTROL, in    *)
(* order and one at a time: what an append carries is decided when it is   *)
(* sent, and it is answered when it arrives.                               *)
(***************************************************************************)
EXTENDS Integers, Sequences, FiniteSets

CONSTANTS
    Leader,         \* members that may lead
    First,          \* the one that leads at the start
    Chunks,         \* chunks of a snapshot
    MaxIndex,       \* bound: entries
    MaxTerm,        \* bound: terms
    MaxDrops,       \* bound: connections lost, assemblies dropped
    MaxRestarts     \* bound: restarts of the follower

\* Assumed of the constants by the modules that instantiate this one.
TransferAssumption ==
    /\ First \in Leader
    /\ {Chunks, MaxIndex, MaxTerm} \subseteq Nat \ {0}
    /\ {MaxDrops, MaxRestarts} \subseteq Nat

VARIABLES
    lead,           \* the term each leader leads, 0 if it does not
    applied,        \* what each leader has committed and applied
    last,           \* where its log ends
    snapshot,       \* _snapshot_meta.last_index, 0 if there is none
    boundary,       \* RaftLog.snapshot_index
    walk,           \* a compaction in finish(): what it will store and discard
    peer,           \* _PeerState of each leader about the follower
    sequence,       \* _append_sequence
    flight,         \* the append each leader has sent and not seen answered
    up,             \* the follower's incarnation CONTROL is connected to, or 0
    bulk,           \* the BULK connection each leader has, or 0
    dialled,        \* BULK connections opened so far
    frames,         \* chunks in flight
    answers,        \* InstallSnapshotReply in flight
    f,              \* the follower: its term, commit index, last_applied, log's
                    \* end and boundary, snapshot, compaction, partial
                    \* transfers and incarnation, the most its log has held in
                    \* it, and whether its store is of one snapshot
    drops, restarts

leaders == <<lead, applied, last, snapshot, boundary, walk>>
links == <<up, bulk, dialled>>
sender == <<peer, sequence, flight>>
vars == <<leaders, sender, links, frames, answers, f, drops, restarts>>

NoWalk == [index |-> 0, discard |-> 0, open |-> FALSE]

NoAssembly == [identity |-> <<>>, data |-> <<>>]

NoAppend == [term |-> 0, prev |-> 0, last |-> 0, commit |-> 0]

FreshPeer == [match |-> 0, next |-> 1, offset |-> 0, request |-> 0,
              carrier |-> 0, sending |-> 0, floor |-> 0]

Higher(a, b) == IF a < b THEN b ELSE a

Lower(a, b) == IF a < b THEN a ELSE b

----------------------------------------------------------------------------
(* Compaction: begin pins last_applied; finish yields; the applier waits.  *)

\* How much of a leader's log may go: what a connected follower has confirmed,
\* unless the log is at max_log_entries.
DiscardTo(l) ==
    {applied[l]} \cup
    (IF lead[l] > 0 /\ up[l] > 0 THEN {Lower(applied[l], peer[l].match)}
                                  ELSE {})

BeginCompaction(l) ==
    /\ walk[l] = NoWalk
    /\ applied[l] > boundary[l]
    /\ \E d \in DiscardTo(l) :
          walk' = [walk EXCEPT ![l] = [index |-> applied[l], discard |-> d,
                                       open |-> TRUE]]
    /\ UNCHANGED <<lead, applied, last, snapshot, boundary, sender, links,
                   frames, answers, f, drops, restarts>>

FinishCompaction(l) ==
    /\ walk[l] # NoWalk
    /\ snapshot' = [snapshot EXCEPT ![l] = walk[l].index]
    /\ boundary' = [boundary EXCEPT ![l] = Higher(@, walk[l].discard)]
    /\ walk' = [walk EXCEPT ![l] = NoWalk]
    /\ UNCHANGED <<lead, applied, last, sender, links, frames, answers, f,
                   drops, restarts>>

FollowerBeginsCompaction ==
    /\ f.walk = NoWalk
    /\ f.applied > f.boundary
    /\ f' = [f EXCEPT !.walk = [index |-> f.applied, discard |-> f.applied,
                                open |-> TRUE]]
    /\ UNCHANGED <<leaders, sender, links, frames, answers, drops, restarts>>

\* A bug to rule out: an install meanwhile does not stop the walk.
FollowerFinishesAnyway ==
    /\ f.walk # NoWalk
    /\ f' = [f EXCEPT !.snapshot = f.walk.index,
                      !.boundary = Higher(@, f.walk.discard),
                      !.walk = NoWalk]
    /\ UNCHANGED <<leaders, sender, links, frames, answers, drops, restarts>>

\* An abandoned walk ends in SnapshotAbandoned and stores nothing.
FollowerFinishesCompaction ==
    /\ f.walk # NoWalk
    /\ f' = IF f.walk.open
            THEN [f EXCEPT !.snapshot = f.walk.index,
                           !.boundary = Higher(@, f.walk.discard),
                           !.walk = NoWalk]
            ELSE [f EXCEPT !.walk = NoWalk]
    /\ UNCHANGED <<leaders, sender, links, frames, answers, drops, restarts>>

----------------------------------------------------------------------------
(* Sending.                                                                *)

\* What a transfer sends: pinned when it starts, for its whole length.
Pinned(l, p) ==
    IF p.offset = 0 \/ p.sending = 0 THEN snapshot[l] ELSE p.sending

\* A bug to rule out: a chunk whose connection ended is awaited for ever.
SendsChunkOnce(l, p) == snapshot[l] > 0 /\ bulk[l] > 0 /\ p.request = 0

\* _send_snapshot, where it has a chunk to send: one at a time, and the same
\* one again only on a new connection.  Otherwise it sends a keepalive.
SendsChunk(l, p) ==
    /\ snapshot[l] > 0 /\ bulk[l] > 0
    /\ p.request = 0 \/ p.carrier # bulk[l]

\* An append is sent if none is outstanding, and lost if CONTROL has ended.
Sent(l, outstanding, a) ==
    IF outstanding = NoAppend /\ up[l] = f.incarnation THEN a ELSE outstanding

\* _send_keepalive: anchored at 0, it vouches for nothing.
Keepalive(l) == [term |-> lead[l], prev |-> 0, last |-> 0, commit |-> 0]

\* What the follower lacks, from a leader as it is after the step.
Window(l, p) ==
    [term |-> lead[l], prev |-> p.next - 1, last |-> last'[l],
     commit |-> applied'[l]]

SendSnapshot(l, p, outstanding) ==
    LET pin == Pinned(l, p)
        id == sequence[l] + 1
        offset == IF p.sending = 0 THEN 0 ELSE p.offset
    IN  \/ /\ SendsChunk(l, p)
           /\ peer' = [peer EXCEPT ![l] =
                 [p EXCEPT !.sending = pin, !.offset = offset,
                           !.request = id, !.carrier = bulk[l]]]
           /\ sequence' = [sequence EXCEPT ![l] = id]
           /\ frames' = frames \cup
                 {[id |-> id, carrier |-> <<l, bulk[l]>>,
                   identity |-> <<lead[l], l, pin>>, offset |-> offset,
                   of |-> pin, done |-> offset + 1 = Chunks]}
           /\ flight' = [flight EXCEPT ![l] = outstanding]
        \/ /\ ~SendsChunk(l, p)
           /\ peer' = [peer EXCEPT ![l] = p]
           /\ flight' =
                 [flight EXCEPT ![l] = Sent(l, outstanding, Keepalive(l))]
           /\ UNCHANGED <<sequence, frames>>

\* _send_append: to a follower that needs entries that are gone, a chunk; to
\* any other, entries.
Stranded(l, p) == p.next - 1 < boundary[l]

SendAppend(l, p, outstanding) ==
    \/ Stranded(l, p) /\ SendSnapshot(l, p, outstanding)
    \/ /\ ~Stranded(l, p)
       /\ peer' = [peer EXCEPT ![l] = p]
       /\ flight' = [flight EXCEPT ![l] = Sent(l, outstanding, Window(l, p))]
       /\ UNCHANGED <<sequence, frames>>

\* _replicate.
Replicate(l) ==
    IF up[l] > 0 THEN SendAppend(l, peer[l], flight[l])
                 ELSE UNCHANGED <<sender, frames>>

----------------------------------------------------------------------------
(* Appends.                                                                *)

\* The follower in a leader's term: _step_down drops every partial transfer.
InTerm(t) ==
    IF t = f.term THEN f
    ELSE [f EXCEPT !.term = t, !.assembly = [l \in Leader |-> NoAssembly]]

\* on_append_entries: below what is committed nothing is taken, beyond the log's
\* end it is refused.
Refused(g, a) == a.prev > g.last

Taken(g, a) ==
    IF a.prev < g.commit \/ Refused(g, a) THEN g
    ELSE [g EXCEPT !.last = Higher(@, a.last),
                   !.held = Higher(@, a.last),
                   !.commit = Higher(@, Lower(a.commit, a.last))]

Vouched(g, a) == IF a.prev < g.commit THEN g.commit ELSE a.last

\* on_append_entries_reply: a refusal moves next_index back, unless it is below
\* what was acknowledged; a success moves both forward.
Answered(l, p, g, a) ==
    LET match == Higher(p.match, Lower(Vouched(g, a), last[l]))
    IN  IF Refused(g, a)
        THEN IF g.last + 1 > p.match /\ g.last + 1 < p.next
             THEN [p EXCEPT !.next = g.last + 1] ELSE p
        ELSE [p EXCEPT !.match = match, !.next = Higher(@, match + 1)]

\* Whether the leader goes on at once.
GoesOn(l, p, g, a) ==
    IF Refused(g, a) THEN p # peer[l]
    ELSE /\ p.match > peer[l].match \/ a.prev < a.last
         /\ p.next <= last[l]

\* An append arrives and is answered.
AppendArrives(l) ==
    LET a == flight[l]
        g == InTerm(a.term)
        p == Answered(l, peer[l], f, a)
    IN  /\ a # NoAppend
        /\ a.term >= f.term
        /\ f' = Taken(g, a)
        /\ UNCHANGED <<leaders, links, answers, drops, restarts>>
        /\ \/ /\ a.term = lead[l] /\ GoesOn(l, p, f, a)
              /\ SendAppend(l, p, NoAppend)
           \/ /\ a.term = lead[l] /\ ~GoesOn(l, p, f, a)
              /\ peer' = [peer EXCEPT ![l] = p]
              /\ flight' = [flight EXCEPT ![l] = NoAppend]
              /\ UNCHANGED <<sequence, frames>>
           \/ /\ a.term # lead[l]
              /\ flight' = [flight EXCEPT ![l] = NoAppend]
              /\ UNCHANGED <<peer, sequence, frames>>

\* It arrives from a leader of an earlier term, which learns that it is one.
AppendTooLate(l) ==
    /\ flight[l] # NoAppend /\ flight[l].term < f.term
    /\ flight' = [flight EXCEPT ![l] = NoAppend]
    /\ lead' = [lead EXCEPT ![l] = IF @ < f.term THEN 0 ELSE @]
    /\ UNCHANGED <<applied, last, snapshot, boundary, walk, peer, sequence,
                   links, frames, answers, f, drops, restarts>>

\* Whether an append says anything that is not known.
Tells(l, a) ==
    \/ a.term < f.term \/ Taken(InTerm(a.term), a) # f
    \/ Answered(l, peer[l], f, a) # peer[l]

\* The ticker's heartbeat, where it is of consequence.
Heartbeat(l) ==
    /\ lead[l] > 0 /\ up[l] > 0
    /\ UNCHANGED <<leaders, links, answers, f, drops, restarts>>
    /\ SendAppend(l, peer[l], flight[l])
    /\ \/ frames' # frames
       \/ flight' # flight /\ Tells(l, flight'[l])

----------------------------------------------------------------------------
(* Receiving.                                                              *)

\* Chunks of one connection arrive in the order they were sent.
Deliverable(c) == \A d \in frames : d.carrier = c.carrier => d.id >= c.id

AnswerTo(c, received, done, g) ==
    [id |-> c.id, to |-> c.identity[2], term |-> g.term, received |-> received,
     done |-> done, commit |-> g.commit]

\* A transfer assembled from pieces of one snapshot.
Whole(data) == \A i \in 1..Len(data) : data[i] = <<data[1][1], i - 1>>

\* A bug to rule out: the commit index stays where it was.
InstalledUncommitted(g, c, data) ==
    [g EXCEPT !.applied = c.of, !.last = c.of, !.held = Higher(@, c.of),
              !.boundary = c.of, !.snapshot = c.of, !.walk.open = FALSE,
              !.whole = Whole(data),
              !.assembly[c.identity[2]] = NoAssembly]

\* reset_to_snapshot replaces the whole log: entries that follow go as well.
Installed(g, c, data) ==
    [g EXCEPT !.applied = c.of, !.commit = Higher(@, c.of), !.last = c.of,
              !.held = Higher(@, c.of), !.boundary = c.of, !.snapshot = c.of,
              !.walk.open = FALSE, !.whole = Whole(data),
              !.assembly[c.identity[2]] = NoAssembly]

\* A bug to rule out: a chunk is matched to its transfer by offset alone.
MatchesByOffset(held, c) == TRUE

Matches(held, c) == held.identity = c.identity

\* A bug to rule out: whatever arrives is assembled and installed.
NeverHeld(g, c) == FALSE

AlreadyHeld(g, c) == c.of <= g.commit

\* A copy of a chunk that is held.
Holds(held, c) ==
    /\ Matches(held, c)
    /\ c.offset < Len(held.data)
    /\ held.data[c.offset + 1] = <<c.of, c.offset>>

\* The follower after a chunk of its term, and what it answers.
Receive(g, c) ==
    LET l == c.identity[2]
        held == IF c.offset = 0 THEN [identity |-> c.identity, data |-> <<>>]
                ELSE g.assembly[l]
        data == Append(held.data, <<c.of, c.offset>>)
        Dropped == [g EXCEPT !.assembly[l] = NoAssembly]
    IN  CASE AlreadyHeld(g, c) ->
             <<Dropped, AnswerTo(c, 0, FALSE, g)>>
          [] ~AlreadyHeld(g, c) /\ Holds(held, c) ->
             <<g, AnswerTo(c, Len(held.data), FALSE, g)>>
          [] ~AlreadyHeld(g, c) /\ ~Holds(held, c)
                /\ ~(Matches(held, c) /\ c.offset = Len(held.data)) ->
             <<Dropped, AnswerTo(c, 0, FALSE, g)>>
          [] OTHER ->
             IF ~c.done
             THEN <<[g EXCEPT !.assembly[l] = [held EXCEPT !.data = data]],
                    AnswerTo(c, Len(data), FALSE, g)>>
             ELSE <<Installed(g, c, data),
                    AnswerTo(c, Len(data), TRUE, Installed(g, c, data))>>

\* on_install_snapshot.
OnInstallSnapshot(c) ==
    /\ Deliverable(c)
    /\ frames' = frames \ {c}
    /\ IF c.identity[1] < f.term
       THEN /\ answers' = answers \cup {AnswerTo(c, 0, FALSE, f)}
            /\ UNCHANGED f
       ELSE LET r == Receive(InTerm(c.identity[1]), c)
            IN  /\ f' = r[1]
                /\ answers' = answers \cup {r[2]}
    /\ UNCHANGED <<leaders, sender, links, drops, restarts>>

\* on_install_snapshot_reply: a later term ends the leadership ...
OnReplyOfLaterTerm(a) ==
    /\ a.term > lead[a.to]
    /\ answers' = answers \ {a}
    /\ lead' = [lead EXCEPT ![a.to] = 0]
    /\ UNCHANGED <<applied, last, snapshot, boundary, walk, sender, links,
                   frames, f, drops, restarts>>

\* A bug to rule out: nothing fences the answers of an earlier incarnation.
IgnoredByTerm(a) == a.term < lead[a.to]

\* ... one for another term, or from before the reconnection, is ignored ...
Ignored(a) ==
    \/ a.term < lead[a.to]
    \/ a.term = lead[a.to] /\ a.id <= peer[a.to].floor

OnIgnoredReply(a) ==
    /\ Ignored(a)
    /\ answers' = answers \ {a}
    /\ UNCHANGED <<leaders, sender, links, frames, f, drops, restarts>>

\* ... and any other says what the follower has committed, and, if it answers
\* the chunk in flight, what to send next.
OnReply(a) ==
    LET l == a.to
        credited == Lower(a.commit, last[l])
        p == IF credited > peer[l].match
             THEN [peer[l] EXCEPT !.match = credited,
                                  !.next = Higher(@, credited + 1)]
             ELSE peer[l]
        covers == a.done \/ (p.sending > 0 /\ a.commit >= p.sending)
        over == [p EXCEPT !.request = 0, !.sending = 0, !.offset = 0]
    IN  /\ a.term = lead[l] /\ ~Ignored(a)
        /\ answers' = answers \ {a}
        /\ UNCHANGED <<leaders, links, f, drops, restarts>>
        /\ \/ /\ a.id # p.request
              /\ peer' = [peer EXCEPT ![l] = p]
              /\ UNCHANGED <<sequence, flight, frames>>
           \/ /\ a.id = p.request /\ covers
              /\ SendAppend(l, [over EXCEPT !.next = p.match + 1], flight[l])
           \/ /\ a.id = p.request /\ ~covers /\ a.received = 0
              /\ peer' = [peer EXCEPT ![l] = over]
              /\ UNCHANGED <<sequence, flight, frames>>
           \/ /\ a.id = p.request /\ ~covers /\ a.received > 0
              /\ SendSnapshot(l, [p EXCEPT !.request = 0,
                                           !.offset = a.received], flight[l])

----------------------------------------------------------------------------
(* Connections, leaders and the follower's process.                        *)

DialBulk(l) ==
    /\ bulk[l] = 0 /\ up[l] = f.incarnation
    /\ dialled' = [dialled EXCEPT ![l] = @ + 1]
    /\ bulk' = [bulk EXCEPT ![l] = dialled[l] + 1]
    /\ UNCHANGED <<leaders, sender, up, frames, answers, f, drops, restarts>>

\* The leader gives up the connection; what it carried may still be read.
DropBulk(l) ==
    /\ bulk[l] > 0 /\ drops < MaxDrops
    /\ drops' = drops + 1
    /\ bulk' = [bulk EXCEPT ![l] = 0]
    /\ UNCHANGED <<leaders, sender, up, dialled, frames, answers, f, restarts>>

\* What a connection given up carried may also be lost.
LoseFrame(c) ==
    /\ c.carrier[2] # bulk[c.carrier[1]]
    /\ frames' = frames \ {c}
    /\ UNCHANGED <<leaders, sender, links, answers, f, drops, restarts>>

\* on_peer_state, down: noticed because the follower restarted, or a drop.
PeerDown(l) ==
    /\ up[l] > 0
    /\ \/ up[l] # f.incarnation /\ UNCHANGED drops
       \/ up[l] = f.incarnation /\ drops < MaxDrops /\ drops' = drops + 1
    /\ up' = [up EXCEPT ![l] = 0]
    /\ flight' = [flight EXCEPT ![l] = NoAppend]
    /\ UNCHANGED <<leaders, peer, sequence, bulk, dialled, frames, answers, f,
                   restarts>>

\* on_peer_state, up: a leader disowns what it knew and what is in flight, and
\* sends an append.
PeerUp(l) ==
    LET p == [FreshPeer EXCEPT !.next = last[l] + 1, !.floor = sequence[l]]
    IN  /\ up[l] = 0
        /\ up' = [up EXCEPT ![l] = f.incarnation]
        /\ UNCHANGED <<leaders, sequence, bulk, dialled, frames, answers, f,
                       drops, restarts>>
        /\ IF lead[l] > 0
           THEN /\ peer' = [peer EXCEPT ![l] = p]
                /\ flight' = [flight EXCEPT ![l] = Window(l, p)]
           ELSE UNCHANGED <<peer, flight>>

\* The follower's own link to l fails: on_peer_state drops the buffer.
DropAssembly(l) ==
    /\ f.assembly[l] # NoAssembly /\ drops < MaxDrops
    /\ drops' = drops + 1
    /\ f' = [f EXCEPT !.assembly[l] = NoAssembly]
    /\ UNCHANGED <<leaders, sender, links, frames, answers, restarts>>

\* The follower's process ends and starts again with nothing but its term: its
\* connections end with it, its answers may still be read.
Restart ==
    /\ restarts < MaxRestarts
    /\ restarts' = restarts + 1
    /\ f' = [f EXCEPT !.commit = 0, !.applied = 0, !.last = 0, !.held = 0,
                      !.boundary = 0, !.snapshot = 0, !.walk = NoWalk,
                      !.whole = TRUE,
                      !.assembly = [l \in Leader |-> NoAssembly],
                      !.incarnation = @ + 1]
    /\ bulk' = [l \in Leader |-> 0]
    /\ frames' = {}
    /\ flight' = [l \in Leader |-> NoAppend]
    /\ UNCHANGED <<leaders, peer, sequence, up, dialled, answers, drops>>

FollowerApplies ==
    /\ f.walk = NoWalk /\ f.applied < f.commit
    /\ f' = [f EXCEPT !.applied = f.commit]
    /\ UNCHANGED <<leaders, sender, links, frames, answers, drops, restarts>>

Current(l) == lead[l] > 0 /\ \A k \in Leader : lead[k] <= lead[l]

\* The current leader appends an entry (propose, on_propose).
Propose(l) ==
    /\ Current(l) /\ last[l] < MaxIndex
    /\ last' = [last EXCEPT ![l] = @ + 1]
    /\ UNCHANGED <<lead, applied, snapshot, boundary, walk, links, answers, f,
                   drops, restarts>>
    /\ Replicate(l)

\* _advance_commit: an entry the third member has is committed, and applied
\* unless the leader is compacting.  The follower's own answer commits as well,
\* unless it is catching up: then this step comes next.
Commit(l) ==
    /\ Current(l) /\ walk[l] = NoWalk /\ applied[l] < last[l]
    /\ applied' = [applied EXCEPT ![l] = @ + 1]
    /\ UNCHANGED <<lead, last, snapshot, boundary, walk, links, answers, f,
                   drops, restarts>>
    /\ Replicate(l)

\* The other leader wins a later term with all that is in the log, and appends
\* an entry of its own; the first may not know of it yet.  What an earlier
\* leadership of its own sent has arrived or is lost.
Depose(l, k) ==
    LET p == [FreshPeer EXCEPT !.next = last[k] + 1, !.floor = sequence[l]]
    IN  /\ Current(k) /\ l # k /\ walk[l] = NoWalk
        /\ lead[k] < MaxTerm /\ last[k] < MaxIndex
        /\ lead' = [lead EXCEPT ![l] = lead[k] + 1]
        /\ applied' = [applied EXCEPT ![l] = applied[k]]
        /\ last' = [last EXCEPT ![l] = last[k] + 1]
        /\ peer' = [peer EXCEPT ![l] = p]
        /\ flight' = [flight EXCEPT ![l] =
              IF up[l] # f.incarnation THEN NoAppend
              ELSE [term |-> lead[k] + 1, prev |-> last[k],
                    last |-> last[k] + 1, commit |-> applied[k]]]
        /\ UNCHANGED <<snapshot, boundary, walk, sequence, links, frames,
                       answers, f, drops, restarts>>

----------------------------------------------------------------------------
Init ==
    /\ lead = [l \in Leader |-> IF l = First THEN 1 ELSE 0]
    /\ applied = [l \in Leader |-> 0]
    /\ last = [l \in Leader |-> IF l = First THEN 1 ELSE 0]
    /\ snapshot = [l \in Leader |-> 0]
    /\ boundary = [l \in Leader |-> 0]
    /\ walk = [l \in Leader |-> NoWalk]
    /\ peer = [l \in Leader |-> FreshPeer]
    /\ sequence = [l \in Leader |-> 0]
    /\ flight = [l \in Leader |-> NoAppend]
    /\ up = [l \in Leader |-> 0]
    /\ bulk = [l \in Leader |-> 0]
    /\ dialled = [l \in Leader |-> 0]
    /\ frames = {}
    /\ answers = {}
    /\ f = [term |-> 1, commit |-> 0, applied |-> 0, last |-> 0, held |-> 0,
            boundary |-> 0, snapshot |-> 0, walk |-> NoWalk, whole |-> TRUE,
            assembly |-> [l \in Leader |-> NoAssembly], incarnation |-> 1]
    /\ drops = 0
    /\ restarts = 0

Deliver ==
    \/ \E c \in frames : OnInstallSnapshot(c)
    \/ \E a \in answers :
          OnReplyOfLaterTerm(a) \/ OnIgnoredReply(a) \/ OnReply(a)

Work(l) ==
    FinishCompaction(l) \/ Heartbeat(l) \/ AppendArrives(l) \/ AppendTooLate(l)
    \/ DialBulk(l) \/ PeerUp(l)

Next ==
    \/ Deliver
    \/ \E l \in Leader : Work(l)
    \/ \E l \in Leader : BeginCompaction(l) \/ PeerDown(l)
    \/ \E l \in Leader : Propose(l) \/ Commit(l)
    \/ \E l \in Leader : DropBulk(l) \/ DropAssembly(l)
    \/ \E l, k \in Leader : Depose(l, k)
    \/ \E c \in frames : LoseFrame(c)
    \/ FollowerBeginsCompaction \/ FollowerFinishesCompaction
    \/ FollowerApplies \/ Restart

\* Frames on a live connection arrive, the ticker and the dialler keep
\* running, a lost peer is noticed.
Fairness ==
    /\ WF_vars(Deliver)
    /\ \A l \in Leader :
          /\ WF_vars(FinishCompaction(l))
          /\ WF_vars(Heartbeat(l))
          /\ WF_vars(AppendArrives(l) \/ AppendTooLate(l))
          /\ WF_vars(DialBulk(l))
          /\ WF_vars(PeerUp(l))
          /\ WF_vars(PeerDown(l) /\ up[l] # f.incarnation)

Spec == Init /\ [][Next]_vars

FairSpec == Spec /\ Fairness

----------------------------------------------------------------------------
\* Type invariant.
TypeOK ==
    /\ \A l \in Leader :
          /\ lead[l] \in 0..MaxTerm
          /\ snapshot[l] <= applied[l] /\ applied[l] <= last[l]
          /\ last[l] <= MaxIndex
          /\ peer[l].offset \in 0..(Chunks - 1)
          /\ peer[l].match <= last[l] /\ peer[l].match < peer[l].next
          /\ Len(f.assembly[l].data) < Chunks
    /\ f.applied <= f.commit /\ f.commit <= f.last /\ f.last <= f.held
    /\ f.held <= MaxIndex
    /\ f.term \in 0..MaxTerm

\* What a follower installs is one snapshot: chunks sent again, late, of an
\* earlier transfer or of another leader are never spliced into it
\* (on_install_snapshot's _Assembly and its identity).
NeverSpliced == f.whole

\* A member can hand on what its log has dropped: its snapshot reaches its
\* log's boundary, whatever an install does to a compaction that is walking
\* the store (SnapshotStore.abandon).
CoversBoundary ==
    /\ f.snapshot >= f.boundary
    /\ \A l \in Leader : snapshot[l] >= boundary[l]

\* A leader credits a follower only with what its log has held in this
\* incarnation, although answers of an earlier one may still arrive
\* (reply_floor).  It may credit what the log has lost since: CreditIsHeld.
CreditWasHeld ==
    \A l \in Leader :
       lead[l] > 0 /\ up[l] = f.incarnation => peer[l].match <= f.held

\* What a follower acknowledged to the leader it follows its log still holds,
\* as on_append_entries_reply says of a refusal at or below it.  It does not: a
\* snapshot replaces the log, entries that follow it included
\* (reset_to_snapshot), and may be sent after entries that are not committed, if
\* what the follower has not confirmed was discarded meanwhile
\* (_maybe_compact).
CreditIsHeld ==
    \A l \in Leader :
       lead[l] > 0 /\ lead[l] >= f.term /\ up[l] = f.incarnation
       => peer[l].match <= f.last

\* A running follower never goes back behind what it has applied or committed,
\* whichever snapshot arrives (on_install_snapshot's early answer).
NeverGoesBack ==
    [][f'.incarnation = f.incarnation =>
         f'.commit >= f.commit /\ f'.applied >= f.applied]_vars

\* Once connections stay up and nothing more is committed, a follower is
\* caught up, by entries or by a snapshot, from wherever it was, as long as its
\* log holds what it acknowledged: where it does not, it may wait for ever.
CatchesUp ==
    []CreditIsHeld
    => <>[](\E l \in Leader : Current(l) /\ f.commit = applied[l])
=============================================================================
