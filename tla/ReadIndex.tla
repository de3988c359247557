------------------------------ MODULE ReadIndex -----------------------------
(***************************************************************************)
(* The read barrier of the raft backend: before a member answers a client  *)
(* from its own store it learns a read index (RaftNode.read_index) and     *)
(* waits until it has applied it (raft_backend._read_barrier).             *)
(*                                                                         *)
(* The consensus core is reduced to what a read relies on and what         *)
(* RaftNode shows of it: an election takes a majority to a new term and    *)
(* its winner's log is up to date, an append carries the leader's whole    *)
(* log, an answer echoes the append's id.  Frames between two members keep *)
(* their order; a frame never delivered is a lost one.                     *)
(***************************************************************************)
EXTENDS Integers, Sequences, FiniteSets, FiniteSetsExt, Functions

CONSTANTS
    Member,
    None,           \* no leader known
    First,          \* the member that leads at the start
    Candidates,     \* bound: members that may be elected
    Read,           \* requests of clients
    Reader,         \* bound: members that clients reach, whose stores matter
    Path,           \* how a request looks at the store: see StoreSeen
    Installs,       \* whether a member may catch up by a snapshot
    Overflows,      \* whether a leader may have discarded what a member has
                    \* not confirmed that it knows: max_log_entries
    MaxTerm,        \* bound: terms
    MaxLog,         \* bound: log length
    MaxSequence,    \* bound: rounds of appends of one member
    MaxInFlight     \* bound: frames in flight when a timer or a client acts

\* Assumed of the constants by the modules that instantiate this one.
ReadAssumption ==
    /\ IsFiniteSet(Member) /\ First \in Member /\ Reader \subseteq Member
    /\ MaxTerm \in Nat

VARIABLES
    term, role, leader, log, commit,
    sequence,       \* _append_sequence
    heard,          \* _PeerState.heard_request of each member about each other
    match,          \* _PeerState.match_index
    applied,        \* machine.last_applied, which the fence follows
    retired,        \* last index of each store a snapshot has replaced
    frames,
    reads,          \* the clients' requests, and _reads of their leaders
    committed       \* history: the highest index any leader has committed

core == <<term, role, leader, log, commit, sequence, heard, match>>
vars == <<core, applied, retired, frames, reads, committed>>

Quorum == Cardinality(Member) \div 2 + 1

Peers(m) == Member \ {m}

Link == {l \in Member \X Member : l[1] # l[2]}

Quiet == SumFunction([l \in Link |-> Len(frames[l])]) <= MaxInFlight

Lead(m) == role[m] = "leader"

\* Which of the two logs a voter prefers.
UpToDate(mine, theirs) ==
    LET last(s) == IF s = <<>> THEN 0 ELSE s[Len(s)]
    IN  \/ last(theirs) > last(mine)
        \/ last(theirs) = last(mine) /\ Len(theirs) >= Len(mine)

IsPrefixOf(s, t) == Len(s) <= Len(t) /\ SubSeq(t, 1, Len(s)) = s

\* An append to every peer (_replicate).
ReplicateOn(net, m, theLog, theCommit, theTerm) ==
    [l \in Link |->
       IF l[1] # m THEN net[l]
       ELSE Append(net[l],
              [kind |-> "append", id |-> sequence[m] + 1, term |-> theTerm,
               log |-> theLog, commit |-> theCommit])]

Replicate(m, theLog, theCommit, theTerm) ==
    /\ sequence[m] < MaxSequence
    /\ sequence' = [sequence EXCEPT ![m] = @ + 1]
    /\ frames' = ReplicateOn(frames, m, theLog, theCommit, theTerm)

----------------------------------------------------------------------------
(* Reads at the leader.                                                    *)

\* The store object a request was handed when it began, by its position in the
\* order of the stores of its member.
Store(m) == Len(retired[m]) + 1

\* How much of the log the store consulted after the barrier reflects.
\* "lookup" asks the registry for its store again (unregister, _beat_here,
\* _resolve_node); "register" looks at the store it held before the barrier
\* (_register_as_owner).
StoreSeen(r) ==
    LET m == reads[r].at
    IN  IF reads[r].path = "register" /\ reads[r].store < Store(m)
        THEN retired[m][reads[r].store]
        ELSE applied[m]

Held(m, rs) == {r \in Read : rs[r].phase = "held" /\ rs[r].server = m}

\* _fail_reads: the reads waiting at m are refused.
FailReads(m, rs) ==
    [r \in Read |-> IF r \in Held(m, rs)
                    THEN [rs[r] EXCEPT !.phase = "refused"] ELSE rs[r]]

\* A bug to rule out: a new leader trusts the commit index it was elected with.
committed_in_any_term(m, theCommit) == TRUE

committed_in_current_term(m, theCommit) ==
    theCommit > 0 /\ log[m][theCommit] = term[m]

\* _arm_reads: every postponed read gets its index and a round of appends.
Arms(m, rs, theCommit) ==
    /\ committed_in_current_term(m, theCommit)
    /\ \E r \in Held(m, rs) : rs[r].index = None

ArmReads(m, rs, theCommit) ==
    IF Arms(m, rs, theCommit)
    THEN [r \in Read |->
            IF r \in Held(m, rs) /\ rs[r].index = None
            THEN [rs[r] EXCEPT !.index = theCommit, !.after = sequence[m]]
            ELSE rs[r]]
    ELSE rs

\* A bug to rule out: an answer to an append sent earlier confirms the read.
ConfirmedBefore(m, read, theHeard) ==
    Cardinality({p \in Peers(m) : theHeard[p] > 0}) + 1 >= Quorum

Confirmed(m, read, theHeard) ==
    Cardinality({p \in Peers(m) : theHeard[p] > read.after}) + 1 >= Quorum

\* _confirm_reads, with what m has then heard from its peers.
ConfirmReads(m, rs, theHeard) ==
    [r \in Read |->
       IF /\ r \in Held(m, rs) /\ rs[r].index # None
          /\ Confirmed(m, rs[r], theHeard)
       THEN [rs[r] EXCEPT
               !.phase = IF rs[r].at = m THEN "fenced" ELSE "granted"]
       ELSE rs[r]]

\* _begin_read on the leader m: appended to _reads, and armed if it can be.
BeginReadAt(m, rs) ==
    LET armed == ArmReads(m, rs, commit[m])
    IN  /\ reads' = ConfirmReads(m, armed, heard[m])
        /\ IF Arms(m, rs, commit[m])
           THEN Replicate(m, log[m], commit[m], term[m])
           ELSE UNCHANGED <<sequence, frames>>

----------------------------------------------------------------------------
(* Requests of clients.                                                    *)

\* A request reaches m, which finds that it would refuse it from its store and
\* takes a read barrier first: as the leader, by asking it, or not at all.
Begin(r, m, path) ==
    /\ Quiet
    /\ reads[r].phase = "idle"
    /\ LET began == [reads EXCEPT ![r] = [@ EXCEPT
                       !.at = m, !.path = path, !.must = committed,
                       !.store = Store(m)]]
       IN  \/ /\ Lead(m)
              /\ BeginReadAt(m, [began EXCEPT ![r].phase = "held",
                                              ![r].server = m])
           \/ /\ ~Lead(m) /\ leader[m] # None
              /\ reads' = [began EXCEPT ![r].phase = "asked",
                                        ![r].server = leader[m]]
              /\ UNCHANGED <<sequence, frames>>
           \/ /\ ~Lead(m) /\ leader[m] = None
              /\ reads' = [began EXCEPT ![r].phase = "refused"]
              /\ UNCHANGED <<sequence, frames>>
    /\ UNCHANGED <<term, role, leader, log, commit, heard, match, applied,
                   retired, committed>>

\* on_read_index: the question reaches the member that was the leader.
OnReadIndex(r) ==
    /\ reads[r].phase = "asked"
    /\ LET l == reads[r].server
       IN  \/ /\ Lead(l)
              /\ BeginReadAt(l, [reads EXCEPT ![r].phase = "held"])
           \/ /\ ~Lead(l)
              /\ reads' = [reads EXCEPT ![r].phase = "refused"]
              /\ UNCHANGED <<sequence, frames>>
    /\ UNCHANGED <<term, role, leader, log, commit, heard, match, applied,
                   retired, committed>>

\* ReadIndexReply reaches the asker, which then waits at its fence.
OnReadIndexReply(r) ==
    /\ reads[r].phase = "granted"
    /\ reads' = [reads EXCEPT ![r].phase = "fenced"]
    /\ UNCHANGED <<core, applied, retired, frames, committed>>

\* A bug to rule out: the answer does not wait for the fence.
AnswerUnfenced(r) ==
    /\ reads[r].phase = "fenced"
    /\ reads' = [reads EXCEPT ![r].phase = "answered",
                              ![r].got = StoreSeen(r)]
    /\ UNCHANGED <<core, applied, retired, frames, committed>>

\* fence.wait returns and the request is decided again, and answered.
Answer(r) ==
    /\ reads[r].phase = "fenced"
    /\ applied[reads[r].at] >= reads[r].index
    /\ reads' = [reads EXCEPT ![r].phase = "answered",
                              ![r].got = StoreSeen(r)]
    /\ UNCHANGED <<core, applied, retired, frames, committed>>

\* mutation_timeout: 503, and the read is forgotten wherever it waits.
Timeout(r) ==
    /\ reads[r].phase \in {"asked", "held", "granted", "fenced"}
    /\ reads' = [reads EXCEPT ![r].phase = "refused"]
    /\ UNCHANGED <<core, applied, retired, frames, committed>>

----------------------------------------------------------------------------
(* The consensus core.                                                     *)

\* m wins an election of a new term with the votes of q.  Its peers start
\* afresh, and it appends an entry of its own (_won, _become_leader).
Elect(m, q, t) ==
    /\ Quiet
    /\ m \in q /\ Cardinality(q) >= Quorum
    /\ m \in Candidates /\ Len(log[m]) < MaxLog
    /\ (\A p \in q : term[p] < t) /\ (\E p \in q : term[p] = t - 1)
    /\ \A p \in q : UpToDate(log[p], log[m])
    /\ term' = [p \in Member |-> IF p \in q THEN t ELSE term[p]]
    /\ role' = [p \in Member |->
                  IF p = m THEN "leader"
                  ELSE IF p \in q THEN "follower" ELSE role[p]]
    /\ leader' = [p \in Member |->
                    IF p = m THEN m ELSE IF p \in q THEN None ELSE leader[p]]
    /\ log' = [log EXCEPT ![m] = Append(@, t)]
    /\ heard' = [heard EXCEPT ![m] = [p \in Peers(m) |-> 0]]
    /\ match' = [match EXCEPT ![m] = [p \in Peers(m) |-> 0]]
    /\ Replicate(m, log'[m], commit[m], t)
    /\ reads' = [r \in Read |->
          IF \E p \in q : r \in Held(p, reads)
          THEN [reads[r] EXCEPT !.phase = "refused"] ELSE reads[r]]
    /\ UNCHANGED <<commit, applied, retired, committed>>

\* A client's write is appended and sent.
Propose(m) ==
    /\ Quiet
    /\ Lead(m) /\ Len(log[m]) < MaxLog
    /\ log' = [log EXCEPT ![m] = Append(@, term[m])]
    /\ Replicate(m, log'[m], commit[m], term[m])
    /\ UNCHANGED <<term, role, leader, commit, heard, match, applied, retired,
                   reads, committed>>

\* The ticker's heartbeat.
Heartbeat(m) ==
    /\ Quiet
    /\ Lead(m)
    /\ Replicate(m, log[m], commit[m], term[m])
    /\ UNCHANGED <<term, role, leader, log, commit, heard, match, applied,
                   retired, reads, committed>>

\* on_append_entries: the frame at the head of the link l.
OnAppend(l) ==
    LET f == Head(frames[l])
        m == l[2]
        Reply(t, id, match_index) == frames' = [frames EXCEPT
            ![l] = Tail(@),
            ![<<m, l[1]>>] = Append(@, [kind |-> "reply", id |-> id,
                                        term |-> t, match |-> match_index])]
    IN  /\ frames[l] # <<>> /\ f.kind = "append"
        /\ \/ /\ f.term < term[m]
              /\ Reply(term[m], 0, 0)        \* _append_reject
              /\ UNCHANGED <<core, reads>>
           \/ /\ f.term >= term[m]
              /\ Reply(f.term, f.id, Len(f.log))
              /\ term' = [term EXCEPT ![m] = f.term]
              /\ role' = [role EXCEPT ![m] = "follower"]
              /\ leader' = [leader EXCEPT ![m] = l[1]]
              /\ log' = [log EXCEPT ![m] =
                           IF IsPrefixOf(f.log, @) THEN @ ELSE f.log]
              /\ commit' = [commit EXCEPT ![m] =
                              Max({@, Min({f.commit, Len(f.log)})})]
              /\ reads' = FailReads(m, reads)
              /\ UNCHANGED <<sequence, heard, match>>
        /\ UNCHANGED <<applied, retired, committed>>

\* _advance_commit's candidate: what a quorum holds, of this term.
Committable(m, theMatch) ==
    LET held(k) == 1 + Cardinality({p \in Peers(m) : theMatch[p] >= k})
    IN  {k \in 1..Len(log[m]) :
           k > commit[m] /\ held(k) >= Quorum /\ log[m][k] = term[m]}

\* on_append_entries_reply: a later term ends the leadership ...
OnReplyOfLaterTerm(l) ==
    LET f == Head(frames[l])
        m == l[2]
    IN  /\ frames[l] # <<>> /\ f.kind = "reply" /\ f.term > term[m]
        /\ frames' = [frames EXCEPT ![l] = Tail(@)]
        /\ term' = [term EXCEPT ![m] = f.term]
        /\ role' = [role EXCEPT ![m] = "follower"]
        /\ leader' = [leader EXCEPT ![m] = None]
        /\ reads' = FailReads(m, reads)
        /\ UNCHANGED <<log, commit, sequence, heard, match, applied, retired,
                       committed>>

\* ... one for a leadership that has ended, or that names no append of it, is
\* ignored (reply_floor) ...
OnStaleReply(l) ==
    LET f == Head(frames[l])
        m == l[2]
    IN  /\ frames[l] # <<>> /\ f.kind = "reply"
        /\ f.term < term[m] \/ (f.term = term[m] /\ (~Lead(m) \/ f.id = 0))
        /\ frames' = [frames EXCEPT ![l] = Tail(@)]
        /\ UNCHANGED <<core, applied, retired, reads, committed>>

\* ... and one of this leadership confirms reads, and may commit entries and
\* arm the reads that waited for that.
OnReply(l) ==
    LET f == Head(frames[l])
        m == l[2]
        theHeard == [heard[m] EXCEPT ![l[1]] = Max({@, f.id})]
        theMatch == [match[m] EXCEPT ![l[1]] = Max({@, f.match})]
        confirmed == ConfirmReads(m, reads, theHeard)
        ks == Committable(m, theMatch)
        tail == [frames EXCEPT ![l] = Tail(@)]
    IN  /\ frames[l] # <<>> /\ f.kind = "reply"
        /\ f.term = term[m] /\ Lead(m) /\ f.id # 0
        /\ heard' = [heard EXCEPT ![m] = theHeard]
        /\ match' = [match EXCEPT ![m] = theMatch]
        /\ \/ /\ ks = {}
              /\ frames' = tail
              /\ reads' = confirmed
              /\ UNCHANGED <<commit, sequence, committed>>
           \/ \E k \in ks :
              /\ \A j \in ks : j <= k
              /\ commit' = [commit EXCEPT ![m] = k]
              /\ committed' = IF k > committed THEN k ELSE committed
              /\ sequence[m] < MaxSequence
              /\ sequence' = [sequence EXCEPT ![m] = @ + 1]
              /\ frames' = ReplicateOn(tail, m, log[m], k, term[m])
              /\ reads' = IF Arms(m, confirmed, k)
                          THEN ArmReads(m, confirmed, k) ELSE confirmed
        /\ UNCHANGED <<term, role, leader, log, applied, retired>>

\* A bug to rule out: the run is bounded by the log, not by the commit index.
ApplyTail(m) ==
    /\ applied[m] < Len(log[m])
    /\ applied' = [applied EXCEPT ![m] = Len(log[m])]
    /\ UNCHANGED <<core, retired, frames, reads, committed>>

\* _apply_committed, which ends with the fence at the commit index.
Apply(m) ==
    /\ applied[m] < commit[m]
    /\ applied' = [applied EXCEPT ![m] = commit[m]]
    /\ UNCHANGED <<core, retired, frames, reads, committed>>

\* on_install_snapshot, as a whole: the leader's state replaces the store and
\* the log, whatever of the log follows it.  A leader sends its state where it
\* has no entries left for the member, which then lacks something of it, unless
\* the leader discarded what the member had not confirmed.
Install(m, l) ==
    /\ Installs
    /\ Lead(l) /\ term[l] = term[m] /\ leader[m] = l /\ l # m
    /\ applied[l] > commit[m]
    /\ Overflows \/ ~IsPrefixOf(SubSeq(log[l], 1, applied[l]), log[m])
    /\ retired' = [retired EXCEPT ![m] = Append(@, applied[m])]
    /\ applied' = [applied EXCEPT ![m] = applied[l]]
    /\ commit' = [commit EXCEPT ![m] = applied[l]]
    /\ log' = [log EXCEPT ![m] = SubSeq(log[l], 1, applied[l])]
    /\ UNCHANGED <<term, role, leader, sequence, heard, match, frames, reads,
                   committed>>

----------------------------------------------------------------------------
NoRead == [phase |-> "idle", at |-> None, path |-> None, must |-> -1,
           store |-> 0, server |-> None, index |-> None, after |-> 0,
           got |-> -1]

\* First leads term 1 and has committed its first entry, which its peers hold.
Init ==
    /\ term = [m \in Member |-> 1]
    /\ role = [m \in Member |-> IF m = First THEN "leader" ELSE "follower"]
    /\ leader = [m \in Member |-> First]
    /\ log = [m \in Member |-> <<1>>]
    /\ commit = [m \in Member |-> IF m = First THEN 1 ELSE 0]
    /\ sequence = [m \in Member |-> IF m = First THEN 1 ELSE 0]
    /\ heard = [m \in Member |->
                  [p \in Peers(m) |-> IF m = First THEN 1 ELSE 0]]
    /\ match = heard
    /\ applied = commit
    /\ retired = [m \in Member |-> <<>>]
    /\ frames = [l \in Link |-> <<>>]
    /\ reads = [r \in Read |-> NoRead]
    /\ committed = 1

\* bound: a behaviour ends once every request has ended.
Open == \E r \in Read : reads[r].phase \notin {"answered", "refused"}

Next ==
    \/ \E r \in Read, m \in Reader, path \in Path : Begin(r, m, path)
    \/ \E r \in Read :
          OnReadIndex(r) \/ OnReadIndexReply(r) \/ Answer(r) \/ Timeout(r)
    \/ \E m \in Member, q \in SUBSET Member, t \in 1..MaxTerm :
          Open /\ Elect(m, q, t)
    \/ \E m \in Member : Open /\ (Propose(m) \/ Heartbeat(m))
    \/ \E m \in Reader : Open /\ Apply(m)
    \/ \E l \in Link : Open /\ (OnAppend(l) \/ OnReply(l))
    \/ \E l \in Link : Open /\ (OnReplyOfLaterTerm(l) \/ OnStaleReply(l))
    \/ \E m \in Reader, l \in Member : Open /\ Install(m, l)

Spec == Init /\ [][Next]_vars

----------------------------------------------------------------------------
Phase == {"idle", "asked", "held", "granted", "fenced", "answered", "refused"}

\* Type invariant.
TypeOK ==
    /\ term \in [Member -> 0..MaxTerm]
    /\ role \in [Member -> {"leader", "follower"}]
    /\ leader \in [Member -> Member \cup {None}]
    /\ \A m \in Member : log[m] \in Seq(1..MaxTerm) /\ Len(log[m]) <= MaxLog
    /\ \A m \in Member : applied[m] <= commit[m] /\ commit[m] <= Len(log[m])
    /\ sequence \in [Member -> 0..MaxSequence]
    /\ \A r \in Read : reads[r].phase \in Phase
    /\ committed \in 0..MaxLog

LinearizableRead == INSTANCE LinearizableRead WITH
    written <- committed,
    begun <- [r \in Read |-> reads[r].must],
    answer <- [r \in Read |-> reads[r].got]

\* Where the code keeps that promise: on stores that stay, and on stores that a
\* snapshot replaces if the request asks for its store again after the barrier
\* and no snapshot drops what its member has acknowledged.  A registration does
\* not ask again (_register_as_owner), and a leader that has discarded too much
\* sends such a snapshot (SnapshotTransfer!CreditIsHeld).
PromiseApplies == Installs => "register" \notin Path /\ ~Overflows

\* Read barriers implement linearizable reads, where PromiseApplies: whatever
\* leaders come and go while a read is asked for, confirmed, answered and
\* waited for, the store then looked at holds every write committed before the
\* request began.
ImplementsLinearizableRead == LinearizableRead!Spec
=============================================================================
