------------------------------ MODULE RaftNode ------------------------------
(***************************************************************************)
(* The consensus core of the fault-tolerant registry (nmos/raft/node.py)   *)
(* over its transport (nmos/raft/transport.py) and its term file           *)
(* (nmos/raft/persist.py): pre-vote, election, replication, commit, the    *)
(* non-voting rejoin of a restarted member, and the recovery election.     *)
(*                                                                         *)
(* The log is volatile; a member keeps only its term, vote and incarnation *)
(* across a restart.  Time is abstracted: a timer may fire whenever the    *)
(* code lets it, a lease or a pending append may or may not have expired.  *)
(***************************************************************************)
EXTENDS Naturals, Sequences, FiniteSets, RaftLog

CONSTANTS
    Member,             \* layout.members
    None,               \* Python's None: no vote, no leader
    MaxEntries,         \* timing.max_entries_per_append
    MaxTerm,            \* bound: no campaign beyond this term
    MaxLog,             \* bound: no proposal beyond this log length
    MaxInFlight,        \* bound: frames in flight when a timer or client acts
    Candidates,         \* bound: members whose election timer may fire
    Restarting,         \* bound: members whose process may end
    MaxIncarnation,     \* bound: starts of one member
    MaxForgotten,       \* bound: members without their log at the same time
    MaxResends,         \* bound: appends sent again because overdue
    MaxDrops,           \* bound: connections lost between two live members
    MaxSaveFailures     \* bound: term-file saves that fail

ASSUME MemberAssumption == IsFiniteSet(Member) /\ Cardinality(Member) >= 2
ASSUME NoneAssumption == None \notin Member
ASSUME BoundAssumption ==
    /\ MaxEntries \in Nat \ {0}
    /\ Candidates \subseteq Member
    /\ Restarting \subseteq Member
    /\ MaxTerm \in Nat /\ MaxLog \in Nat /\ MaxInFlight \in Nat
    /\ MaxIncarnation \in Nat /\ MaxForgotten \in Nat
    /\ MaxResends \in Nat /\ MaxDrops \in Nat /\ MaxSaveFailures \in Nat

VARIABLES
    disk,           \* TermStore: the durable term and vote of each member
    incarnation,    \* TermStore: how many times each member has started
    term, voted_for, role, leader, voting,
    round,          \* the votes counted: _votes, _forgotten, _pre_*
    log, commit_index,
    peers,          \* _PeerState of each member about each other one
    stopped,        \* members that failed an invariant and stopped (_fail)
    link,           \* i's outbound connection to j
    req, rep,       \* requests and answers in flight on that connection
    orphan,         \* requests j has received on a connection i has given up
    resends, drops, saveFailures,
    elected,        \* history: <<term, member>> of every leadership
    cast,           \* history: <<term, voter, candidate>> of every vote given
    committed       \* history: <<index, term>> of every entry a leader committed

durable == <<disk, incarnation>>
election == <<term, voted_for, role, leader, voting, round>>
replication == <<log, commit_index, peers>>
network == <<link, req, rep, orphan>>
history == <<elected, cast, committed>>
faults == <<resends, drops, saveFailures>>
vars == <<durable, election, replication, network, history, stopped, faults>>

-----------------------------------------------------------------------------
(* Types *)

Role == {"FOLLOWER", "PRE_CANDIDATE", "CANDIDATE", "LEADER"}

Quorum == Cardinality(Member) \div 2 + 1

Peers(i) == Member \ {i}

PersistentState == [term : Nat, voted_for : Member \cup {None}]

Round == [votes : SUBSET Member, forgotten : SUBSET Member,
          pre_votes : SUBSET Member, pre_refusals : SUBSET Member,
          pre_forgotten : SUBSET Member]

PeerState == [next_index : Nat, match_index : Nat, catching_up : BOOLEAN,
              promote_through : Nat, sent_commit : Nat, pending : Nat]

RequestVote == [type : {"RequestVote"}, term : Nat, pre_vote : BOOLEAN,
                last_log_index : Nat, last_log_term : Nat]

AppendEntries == [type : {"AppendEntries"}, term : Nat,
                  prev_log_index : Nat, prev_log_term : Nat,
                  entries : Seq(Nat), leader_commit : Nat]

Promote == [type : {"Promote"}, term : Nat]

RequestVoteReply == [type : {"RequestVoteReply"}, term : Nat,
                     granted : BOOLEAN, voting : BOOLEAN, pre_vote : BOOLEAN]

\* request: which append the echoed request_id names.  "none" is request_id 0,
\* which is at or below every reply_floor; "carrying" and "empty" say whether
\* the append carried entries.
AppendEntriesReply == [type : {"AppendEntriesReply"}, term : Nat,
                       success : BOOLEAN, match_index : Nat,
                       conflict_index : Nat, catching_up : BOOLEAN,
                       request : {"carrying", "empty", "none"}]

Request == RequestVote \cup AppendEntries \cup Promote
Answer == RequestVoteReply \cup AppendEntriesReply

EmptyRound == [votes |-> {}, forgotten |-> {}, pre_votes |-> {},
               pre_refusals |-> {}, pre_forgotten |-> {}]

FreshPeer == [next_index |-> 1, match_index |-> 0, catching_up |-> FALSE,
              promote_through |-> 0, sent_commit |-> 0, pending |-> 0]

-----------------------------------------------------------------------------
(* Connections.  Member i dials j: i's requests and j's answers to them      *)
(* share that connection, in order.  "broken" is a connection whose far end  *)
(* is gone and which i has not given up yet: state.up still holds, what i    *)
(* writes is lost, the answers already on their way can still be read.       *)

Up(i, j) == link[i][j] # "down"

\* Bound: a member that neither leads nor may campaign never sends a request,
\* so it is left undialled.
MaySend(i) == i \in Candidates \/ role[i] = "LEADER"

\* Transport.send of out[j] to every peer j: dropped where nothing is connected.
Send(i, out) ==
    req' = [req EXCEPT ![i] =
               [j \in Member |-> IF link[i][j] = "up" THEN req[i][j] \o out[j]
                                                      ELSE req[i][j]]]

ToAll(i, m) == [j \in Member |-> IF j = i THEN <<>> ELSE <<m>>]

\* A request j sent to i, on j's connection or left over from one j gave up
\* (_serve reads on until the end of the stream).
Source == {"connection", "orphan"}
Inbound(i, j, src) == IF src = "connection" THEN req[j][i] ELSE orphan[j][i]

\* i has handled the request at the head of Inbound(i, j, src); answers is
\* what it writes back, which a given-up connection does not carry.
Respond(i, j, src, answers) ==
    IF src = "connection"
    THEN /\ req' = [req EXCEPT ![j][i] = Tail(@)]
         /\ rep' = [rep EXCEPT ![j][i] = @ \o answers]
         /\ UNCHANGED <<link, orphan>>
    ELSE /\ orphan' = [orphan EXCEPT ![j][i] = Tail(@)]
         /\ UNCHANGED <<link, req, rep>>

\* A handler of i raised out of a request of j: _serve closes the connection.
EndInbound(i, j, src) ==
    IF src = "connection"
    THEN /\ link' = [link EXCEPT ![j][i] = "broken"]
         /\ req' = [req EXCEPT ![j][i] = <<>>]
         /\ UNCHANGED <<rep, orphan>>
    ELSE /\ orphan' = [orphan EXCEPT ![j][i] = <<>>]
         /\ UNCHANGED <<link, req, rep>>

\* _drop of i's link to j: what j has not answered is orphaned there.
DropLink(i, j) ==
    /\ link' = [link EXCEPT ![i][j] = "down"]
    /\ req' = [req EXCEPT ![i][j] = <<>>]
    /\ rep' = [rep EXCEPT ![i][j] = <<>>]
    /\ orphan' = [orphan EXCEPT ![i][j] = @ \o req[i][j]]

\* Member i's process ends: its own connections are orphaned, its peers'
\* connections to it are broken, and whatever it had received is gone.
ProcessEnds(i) ==
    /\ link' = [a \in Member |-> [b \in Member |->
                   IF a = i THEN "down"
                   ELSE IF b = i /\ link[a][b] = "up" THEN "broken"
                   ELSE link[a][b]]]
    /\ req' = [a \in Member |-> [b \in Member |->
                   IF a = i \/ b = i THEN <<>> ELSE req[a][b]]]
    /\ rep' = [rep EXCEPT ![i] = [b \in Member |-> <<>>]]
    /\ orphan' = [a \in Member |-> [b \in Member |->
                   IF a = i THEN orphan[a][b] \o req[a][b]
                   ELSE IF b = i THEN <<>>
                   ELSE orphan[a][b]]]

-----------------------------------------------------------------------------
(* Elections *)

\* Mutant of Won: the recovery clause without the veto of the other members.
WonWithoutVeto(i, votes, forgotten) ==
    LET proven == forgotten \cup (IF voting[i] THEN {} ELSE {i})
    IN \/ Cardinality(votes \ proven) >= Quorum
       \/ /\ Cardinality(Member) - Cardinality(proven) < Quorum
          /\ Cardinality(votes) >= Quorum

\* _won: a quorum of grants from members that kept their log; or, where the
\* round's own answers prove no such quorum can exist, a quorum of any grants
\* that includes every member not proven to have forgotten.
Won(i, votes, forgotten) ==
    LET proven == forgotten \cup (IF voting[i] THEN {} ELSE {i})
    IN \/ Cardinality(votes \ proven) >= Quorum
       \/ /\ Cardinality(Member) - Cardinality(proven) < Quorum
          /\ Cardinality(votes) >= Quorum
          /\ Member \ proven \subseteq votes

\* _pre_vote_is_lost
PreVoteIsLost(refusals) ==
    Cardinality(Member) - Cardinality(refusals) < Quorum

\* _reaches_a_majority
ReachesAMajority(i) == 1 + Cardinality({j \in Peers(i) : Up(i, j)}) >= Quorum

\* _leader_lease_holds: whether election_min has passed is left open.
LeaseMayHold(i) == role[i] # "LEADER" /\ leader[i] # None

VoteRequest(i, t, pre) ==
    [type |-> "RequestVote", term |-> t, pre_vote |-> pre,
     last_log_index |-> LastIndex(log[i]), last_log_term |-> LastTerm(log[i])]

VoteReply(t, granted, v, pre) ==
    [type |-> "RequestVoteReply", term |-> t, granted |-> granted,
     voting |-> v, pre_vote |-> pre]

\* Timers and clients act only while the network has room: at most MaxInFlight
\* connections with a frame in flight, and one frame on each.
Busy == {p \in Member \X Member : req[p[1]][p[2]] # <<>> \/ rep[p[1]][p[2]] # <<>>}
RoomToSend ==
    /\ Cardinality(Busy) <= MaxInFlight
    /\ \A p \in Busy : Len(req[p[1]][p[2]]) + Len(rep[p[1]][p[2]]) = 1

\* _pre_campaign, from _tick once the election deadline has passed.
PreCampaign(i) ==
    /\ i \notin stopped
    /\ role[i] # "LEADER"
    /\ ReachesAMajority(i)
    /\ i \in Candidates /\ term[i] < MaxTerm /\ RoomToSend
    /\ role' = [role EXCEPT ![i] = "PRE_CANDIDATE"]
    /\ leader' = [leader EXCEPT ![i] = None]
    /\ round' = [round EXCEPT ![i] = [@ EXCEPT !.pre_votes = {i}, !.pre_refusals = {},
                                               !.pre_forgotten = {}]]
    /\ Send(i, ToAll(i, VoteRequest(i, term[i] + 1, TRUE)))
    /\ UNCHANGED <<durable, term, voted_for, voting, replication, link, rep,
                   orphan, history, stopped, faults>>

\* What _campaign has done by the time it saves the term.
Candidacy(i) ==
    /\ role' = [role EXCEPT ![i] = "CANDIDATE"]
    /\ term' = [term EXCEPT ![i] = @ + 1]
    /\ voted_for' = [voted_for EXCEPT ![i] = i]

\* _campaign.  A cluster of two or more is never won by one's own vote alone.
Campaign(i) ==
    /\ Candidacy(i)
    /\ disk' = [disk EXCEPT ![i] = [term |-> term[i] + 1, voted_for |-> i]]
    /\ cast' = cast \cup {<<term[i] + 1, i, i>>}
    /\ leader' = [leader EXCEPT ![i] = None]
    /\ Send(i, ToAll(i, VoteRequest(i, term[i] + 1, FALSE)))

\* _step_down, the memory half and the save.
Adopt(i, t) ==
    /\ term' = [term EXCEPT ![i] = t]
    /\ voted_for' = [voted_for EXCEPT ![i] = None]
    /\ role' = [role EXCEPT ![i] = "FOLLOWER"]
    /\ leader' = [leader EXCEPT ![i] = None]
    /\ round' = [round EXCEPT ![i] = EmptyRound]

StepDown(i, t) ==
    /\ Adopt(i, t)
    /\ disk' = [disk EXCEPT ![i] = [term |-> t, voted_for |-> None]]

\* on_request_vote under a lease: refused, and no term adopted.
RefuseUnderLease(i, j, src, m) ==
    /\ m.type = "RequestVote"
    /\ LeaseMayHold(i)
    /\ Respond(i, j, src, <<VoteReply(term[i], FALSE, voting[i], m.pre_vote)>>)
    /\ UNCHANGED <<durable, election, replication, history, stopped, faults>>

\* _answer_pre_vote: nothing is promised and nothing changes.
AnswerPreVote(i, j, src, m) ==
    LET granted == /\ m.term > term[i]
                   /\ IsAtLeastAsCurrentAs(log[i], m.last_log_index, m.last_log_term)
    IN
    /\ m.type = "RequestVote" /\ m.pre_vote
    /\ Respond(i, j, src, <<VoteReply(IF granted THEN m.term ELSE term[i],
                                      granted, voting[i], TRUE)>>)
    /\ UNCHANGED <<durable, election, replication, history, stopped, faults>>

\* Mutant of Grants: a second vote in one term.
GrantsAgain(i, j, m) ==
    /\ m.term >= term[i]
    /\ IsAtLeastAsCurrentAs(log[i], m.last_log_index, m.last_log_term)

\* The grant condition of on_request_vote, in the term it has after stepping
\* down to the candidate's.
Grants(i, j, m) ==
    /\ m.term >= term[i]
    /\ m.term > term[i] \/ voted_for[i] \in {None, j}
    /\ IsAtLeastAsCurrentAs(log[i], m.last_log_index, m.last_log_term)

\* Mutant of GrantVote: the vote is answered without being saved.
GrantVoteUnsaved(i, j, src, m) ==
    /\ m.type = "RequestVote" /\ ~m.pre_vote
    /\ Grants(i, j, m)
    /\ term' = [term EXCEPT ![i] = m.term]
    /\ voted_for' = [voted_for EXCEPT ![i] = j]
    /\ cast' = cast \cup {<<m.term, i, j>>}
    /\ Respond(i, j, src, <<VoteReply(m.term, TRUE, voting[i], FALSE)>>)
    /\ UNCHANGED <<durable, role, leader, round, voting, replication, elected,
                   committed, stopped, faults>>

\* on_request_vote, a real one: granted, and saved before it is answered.
GrantVote(i, j, src, m) ==
    /\ m.type = "RequestVote" /\ ~m.pre_vote
    /\ Grants(i, j, m)
    /\ term' = [term EXCEPT ![i] = m.term]
    /\ voted_for' = [voted_for EXCEPT ![i] = j]
    /\ disk' = [disk EXCEPT ![i] = [term |-> m.term, voted_for |-> j]]
    /\ cast' = cast \cup {<<m.term, i, j>>}
    /\ IF m.term > term[i]
       THEN /\ role' = [role EXCEPT ![i] = "FOLLOWER"]
            /\ leader' = [leader EXCEPT ![i] = None]
            /\ round' = [round EXCEPT ![i] = EmptyRound]
       ELSE UNCHANGED <<role, leader, round>>
    /\ Respond(i, j, src, <<VoteReply(m.term, TRUE, voting[i], FALSE)>>)
    /\ UNCHANGED <<incarnation, voting, replication, elected, committed,
                   stopped, faults>>

\* on_request_vote, a real one: refused, a later term adopted all the same.
DenyVote(i, j, src, m) ==
    /\ m.type = "RequestVote" /\ ~m.pre_vote
    /\ ~Grants(i, j, m)
    /\ IF m.term > term[i] THEN StepDown(i, m.term)
       ELSE UNCHANGED <<disk, term, voted_for, role, leader, round>>
    /\ Respond(i, j, src, <<VoteReply(Greatest(m.term, term[i]), FALSE,
                                      voting[i], FALSE)>>)
    /\ UNCHANGED <<incarnation, voting, replication, history, stopped, faults>>

-----------------------------------------------------------------------------
(* Replication: what a leader sends *)

\* The appends with entries, of term t, that j has not answered yet, and
\* their answers that i has not read; i is reading one when taken is TRUE.
Outstanding(i, j, t, taken) ==
    Cardinality({k \in DOMAIN req[i][j] :
                    /\ req[i][j][k].type = "AppendEntries"
                    /\ req[i][j][k].term = t
                    /\ req[i][j][k].entries # <<>>})
    + Cardinality({k \in DOMAIN rep[i][j] :
                    /\ rep[i][j][k].type = "AppendEntriesReply"
                    /\ rep[i][j][k].term = t
                    /\ rep[i][j][k].request = "carrying"
                    /\ ~(taken /\ k = 1)})

\* _carrying_entries_would_repeat_them: an append is in flight, not overdue.
Paused(s, late) == s.pending > 0 /\ ~late

\* The entries _send_append carries to the peer with state s.
Carried(l, s, late) ==
    IF Paused(s, late) THEN <<>> ELSE Slice(l, s.next_index, MaxEntries)

\* _send_append: the message...
AppendFor(t, l, c, s, late) ==
    [type |-> "AppendEntries", term |-> t,
     prev_log_index |-> s.next_index - 1,
     prev_log_term |-> TermAt(l, s.next_index - 1),
     entries |-> Carried(l, s, late), leader_commit |-> c]

\* Mutant of AfterAppend: the commit index the follower learns, off by one.
AfterAppendOffByOne(l, c, s, late, n) ==
    LET entries == Carried(l, s, late) IN
    [s EXCEPT !.pending = IF entries # <<>> THEN n + 1
                          ELSE IF Paused(s, late) THEN @ ELSE 0,
              !.sent_commit = Least(c, s.next_index - 2 + Len(entries))]

\* ...and the peer state it leaves.  pending is pending_request, as the place
\* of the awaited answer among those still to come (n were outstanding).
AfterAppend(l, c, s, late, n) ==
    LET entries == Carried(l, s, late) IN
    [s EXCEPT !.pending = IF entries # <<>> THEN n + 1
                          ELSE IF Paused(s, late) THEN @ ELSE 0,
              !.sent_commit = Least(c, s.next_index - 1 + Len(entries))]

\* Peers of J whose pending append has gone unanswered for election_min.  Time
\* is abstracted: any that is pending may be.
Overdue(i, J) ==
    {late \in SUBSET {j \in J : peers[i][j].pending > 0} :
        resends + Cardinality(late) <= MaxResends}

\* _replicate to the peers in J (those that are up), with peer states row.
Targets(i) == {j \in Peers(i) : Up(i, j)}

Appends(i, t, l, c, row, J, late) ==
    [j \in Member |-> IF j \in J THEN <<AppendFor(t, l, c, row[j], j \in late)>>
                                 ELSE <<>>]

\* read is the peer whose answer i is handling, or None.
AppendedRow(i, t, l, c, row, J, late, read) ==
    [j \in Member |->
        IF j \in J THEN AfterAppend(l, c, row[j], j \in late,
                                    Outstanding(i, j, t, j = read))
                   ELSE row[j]]

\* _become_leader: every peer's view is reset, a no-op of the new term is
\* appended and replicated at once.
BecomeLeader(i) ==
    LET l == AppendLocal(log[i], term[i])
        row == [j \in Member |->
                   [FreshPeer EXCEPT !.next_index = LastIndex(log[i]) + 1]]
    IN
    /\ role' = [role EXCEPT ![i] = "LEADER"]
    /\ leader' = [leader EXCEPT ![i] = i]
    /\ voting' = [voting EXCEPT ![i] = TRUE]
    /\ log' = [log EXCEPT ![i] = l]
    /\ peers' = [peers EXCEPT ![i] =
                    AppendedRow(i, term[i], l, commit_index[i], row, Targets(i), {}, None)]
    /\ Send(i, Appends(i, term[i], l, commit_index[i], row, Targets(i), {}))
    /\ elected' = elected \cup {<<term[i], i>>}

-----------------------------------------------------------------------------
(* Answers.  m is the answer at the head of i's connection to j. *)

TakeAnswer(i, j) ==
    /\ rep' = [rep EXCEPT ![i][j] = Tail(@)]
    /\ UNCHANGED <<link, orphan, incarnation, stopped, drops,
                   saveFailures>>

\* The answers that tell i it is behind: any of a later term, except a granted
\* pre-vote, whose term is the prospective one.
TellsOfLaterTerm(i, m) ==
    /\ m.term > term[i]
    /\ ~(m.type = "RequestVoteReply" /\ m.pre_vote /\ m.granted)

\* on_request_vote_reply, on_append_entries_reply: a later term ends it.
OnLaterTerm(i, j, m) ==
    /\ TakeAnswer(i, j)
    /\ TellsOfLaterTerm(i, m)
    /\ StepDown(i, m.term)
    /\ UNCHANGED <<voting, replication, req, history, resends>>

\* Mutant of IsStale: the term of an answer is not compared.
IsStaleAnyTerm(i, m) ==
    CASE m.type = "RequestVoteReply" /\ m.pre_vote -> role[i] # "PRE_CANDIDATE"
      [] m.type = "RequestVoteReply" /\ ~m.pre_vote -> role[i] # "CANDIDATE"
      [] OTHER -> role[i] # "LEADER" \/ m.request = "none"

\* The answers each handler returns from at once: to a round or a leadership
\* that is over, or naming no append of this one.
IsStale(i, m) ==
    CASE m.type = "RequestVoteReply" /\ m.pre_vote ->
            \/ role[i] # "PRE_CANDIDATE"
            \/ m.granted /\ m.term # term[i] + 1
      [] m.type = "RequestVoteReply" /\ ~m.pre_vote ->
            role[i] # "CANDIDATE" \/ m.term # term[i]
      [] OTHER -> role[i] # "LEADER" \/ m.term # term[i] \/ m.request = "none"

OnStaleAnswer(i, j, m) ==
    /\ TakeAnswer(i, j)
    /\ ~TellsOfLaterTerm(i, m) /\ IsStale(i, m)
    /\ UNCHANGED <<disk, election, replication, req, history, resends>>

\* _on_pre_vote_reply, granted: campaign as soon as the round is won.
PreVoteCounted(i, j, m) ==
    [round[i] EXCEPT !.pre_votes = @ \cup {j},
                     !.pre_forgotten = IF m.voting THEN @ ELSE @ \cup {j}]

OnPreVoteGranted(i, j, m) ==
    LET counted == PreVoteCounted(i, j, m) IN
    /\ TakeAnswer(i, j)
    /\ m.type = "RequestVoteReply" /\ m.pre_vote /\ m.granted
    /\ ~IsStale(i, m)
    /\ IF Won(i, counted.pre_votes, counted.pre_forgotten)
       THEN /\ Campaign(i)
            /\ round' = [round EXCEPT ![i] = [counted EXCEPT !.votes = {i},
                                                             !.forgotten = {}]]
       ELSE /\ round' = [round EXCEPT ![i] = counted]
            /\ UNCHANGED <<disk, term, voted_for, role, leader, req, cast>>
    /\ UNCHANGED <<voting, replication, elected, committed, resends>>

\* _on_pre_vote_reply, refused: follow again once the round cannot be won.
OnPreVoteRefused(i, j, m) ==
    LET refusals == round[i].pre_refusals \cup {j} IN
    /\ TakeAnswer(i, j)
    /\ m.type = "RequestVoteReply" /\ m.pre_vote /\ ~m.granted
    /\ ~TellsOfLaterTerm(i, m) /\ ~IsStale(i, m)
    /\ IF PreVoteIsLost(refusals)
       THEN /\ role' = [role EXCEPT ![i] = "FOLLOWER"]
            /\ round' = [round EXCEPT ![i] = [@ EXCEPT !.pre_votes = {},
                                                       !.pre_refusals = {}]]
       ELSE /\ round' = [round EXCEPT ![i] = [@ EXCEPT !.pre_refusals = refusals]]
            /\ UNCHANGED role
    /\ UNCHANGED <<disk, term, voted_for, leader, voting, replication, req,
                   history, resends>>

\* on_request_vote_reply, to the round this candidate is in.
VoteCounted(i, j, m) ==
    [round[i] EXCEPT !.forgotten = IF m.voting THEN @ ELSE @ \cup {j},
                     !.votes = IF m.granted THEN @ \cup {j} ELSE @]

OnRequestVoteReply(i, j, m) ==
    LET counted == VoteCounted(i, j, m) IN
    /\ TakeAnswer(i, j)
    /\ m.type = "RequestVoteReply" /\ ~m.pre_vote
    /\ ~TellsOfLaterTerm(i, m) /\ ~IsStale(i, m)
    /\ round' = [round EXCEPT ![i] = counted]
    /\ IF Won(i, counted.votes, counted.forgotten)
       THEN BecomeLeader(i)
       ELSE UNCHANGED <<role, leader, voting, log, peers, req, elected>>
    /\ UNCHANGED <<disk, term, voted_for, commit_index, cast, committed,
                   resends>>

-----------------------------------------------------------------------------
(* Replication: the follower's side *)

\* _contradicting_committed: the anchor or an entry of m disagrees with what
\* is committed here, from the snapshot boundary up.
Contradicts(i, m) ==
    LET checked == log[i].snapshot_index ..
                       Least(commit_index[i], LastIndex(log[i]))
    IN \/ /\ m.prev_log_index \in checked
          /\ TermAt(log[i], m.prev_log_index) # m.prev_log_term
       \/ \E k \in DOMAIN m.entries :
             /\ m.prev_log_index + k \in checked
             /\ TermAt(log[i], m.prev_log_index + k) # m.entries[k]

AppendReply(i, t, success, match, conflict, request) ==
    [type |-> "AppendEntriesReply", term |-> t, success |-> success,
     match_index |-> match, conflict_index |-> conflict,
     catching_up |-> ~voting[i], request |-> request]

Echo(m) == IF m.entries # <<>> THEN "carrying" ELSE "empty"

\* on_append_entries of an earlier term (_append_reject).
RejectAppend(i, j, src, m) ==
    /\ m.type = "AppendEntries"
    /\ m.term < term[i]
    /\ Respond(i, j, src, <<AppendReply(i, term[i], FALSE, 0, 0, "none")>>)
    /\ UNCHANGED <<durable, election, replication, history, stopped, faults>>

\* Mutant of Follow: the term is adopted afresh, its vote included, also when
\* this member is already in it.
FollowAfresh(i, j, t) ==
    /\ leader' = [leader EXCEPT ![i] = j]
    /\ role' = [role EXCEPT ![i] = "FOLLOWER"]
    /\ term' = [term EXCEPT ![i] = t]
    /\ voted_for' = [voted_for EXCEPT ![i] = None]
    /\ disk' = [disk EXCEPT ![i] = [term |-> t, voted_for |-> None]]
    /\ round' = [round EXCEPT ![i] = EmptyRound]

\* The sender is the leader of its term: adopt the term, follow it.
Follow(i, j, t) ==
    /\ leader' = [leader EXCEPT ![i] = j]
    /\ role' = [role EXCEPT ![i] = "FOLLOWER"]
    /\ IF t > term[i]
       THEN /\ term' = [term EXCEPT ![i] = t]
            /\ voted_for' = [voted_for EXCEPT ![i] = None]
            /\ disk' = [disk EXCEPT ![i] = [term |-> t, voted_for |-> None]]
            /\ round' = [round EXCEPT ![i] = EmptyRound]
       ELSE UNCHANGED <<term, voted_for, disk, round>>

\* _fail: the member stops for good and its transport closes.
Fail(i) ==
    /\ stopped' = stopped \cup {i}
    /\ ProcessEnds(i)

\* on_append_entries that contradicts what is committed here.
StopOnContradiction(i, j, src, m) ==
    /\ m.type = "AppendEntries"
    /\ m.term >= term[i]
    /\ Contradicts(i, m)
    /\ Follow(i, j, m.term)
    /\ Fail(i)
    /\ UNCHANGED <<incarnation, voting, replication, history, faults>>

\* on_append_entries anchored where this log has something else, or nothing.
ConflictingAppend(i, j, src, m) ==
    /\ m.type = "AppendEntries"
    /\ m.term >= term[i]
    /\ ~Contradicts(i, m)
    /\ m.prev_log_index >= commit_index[i]
    /\ ~Matches(log[i], m.prev_log_index, m.prev_log_term)
    /\ Follow(i, j, m.term)
    /\ Respond(i, j, src,
               <<AppendReply(i, m.term, FALSE, 0,
                     FindConflict(log[i], m.prev_log_index, m.prev_log_term),
                     Echo(m))>>)
    /\ UNCHANGED <<incarnation, voting, replication, history, stopped, faults>>

\* Mutant of Accepted: what the leader has committed is taken for committed
\* here, past the entries it vouches for.
AcceptedPastTheLog(i, m) ==
    IF m.prev_log_index < commit_index[i]
    THEN [log |-> log[i], commit |-> commit_index[i], match |-> commit_index[i]]
    ELSE [log |-> AppendReplicated(log[i], m.prev_log_index + 1, m.entries),
          commit |-> Greatest(commit_index[i], m.leader_commit),
          match |-> m.prev_log_index + Len(m.entries)]

\* Mutant of Accepted: the leader's commit index is taken as it is.
AcceptedUnclamped(i, m) ==
    IF m.prev_log_index < commit_index[i]
    THEN [log |-> log[i], commit |-> commit_index[i], match |-> commit_index[i]]
    ELSE LET vouched == m.prev_log_index + Len(m.entries)
         IN [log |-> AppendReplicated(log[i], m.prev_log_index + 1, m.entries),
             commit |-> Least(m.leader_commit, vouched),
             match |-> vouched]

\* What an accepted append leaves, and the match it is answered with: nothing
\* is taken from one anchored below the commit index.
Accepted(i, m) ==
    IF m.prev_log_index < commit_index[i]
    THEN [log |-> log[i], commit |-> commit_index[i], match |-> commit_index[i]]
    ELSE LET vouched == m.prev_log_index + Len(m.entries)
         IN [log |-> AppendReplicated(log[i], m.prev_log_index + 1, m.entries),
             commit |-> Greatest(commit_index[i], Least(m.leader_commit, vouched)),
             match |-> vouched]

\* on_append_entries, accepted.
AcceptAppend(i, j, src, m) ==
    LET after == Accepted(i, m) IN
    /\ m.type = "AppendEntries"
    /\ m.term >= term[i]
    /\ ~Contradicts(i, m)
    /\ \/ m.prev_log_index < commit_index[i]
       \/ Matches(log[i], m.prev_log_index, m.prev_log_term)
    /\ Follow(i, j, m.term)
    /\ log' = [log EXCEPT ![i] = after.log]
    /\ commit_index' = [commit_index EXCEPT ![i] = after.commit]
    /\ Respond(i, j, src, <<AppendReply(i, m.term, TRUE, after.match, 0, Echo(m))>>)
    /\ UNCHANGED <<incarnation, voting, peers, history, stopped, faults>>

\* on_promote: nothing is answered.
OnPromote(i, j, src, m) ==
    /\ m.type = "Promote"
    /\ voting' = [voting EXCEPT ![i] = @ \/ m.term >= term[i]]
    /\ Respond(i, j, src, <<>>)
    /\ UNCHANGED <<durable, term, voted_for, role, leader, round, replication,
                   history, stopped, faults>>

-----------------------------------------------------------------------------
(* Replication: the leader's side *)

\* _advance_commit: the index a quorum holds, this leader included and members
\* catching up left out; of the current term, or nothing moves.
Counted(i, row) == {j \in Peers(i) : ~row[j].catching_up}

QuorumIndex(i, row) ==
    LET held(n) == {j \in Counted(i, row) : row[j].match_index >= n}
        reached == {n \in {row[j].match_index : j \in Counted(i, row)} :
                        Cardinality(held(n)) >= Quorum - 1}
    IN IF reached = {} THEN 0 ELSE Max(reached)

CommitAfter(i, row) ==
    LET candidate == QuorumIndex(i, row)
    IN IF /\ candidate > commit_index[i]
          /\ ~Compacted(log[i], candidate)
          /\ TermAt(log[i], candidate) = term[i]
       THEN candidate ELSE commit_index[i]

\* Mutant of Heard: the bar is one past the log.
HeardBarTooHigh(i, j, m) ==
    [peers[i][j] EXCEPT
        !.pending = IF m.request = "carrying" /\ @ > 0 THEN @ - 1 ELSE @,
        !.catching_up = m.catching_up,
        !.promote_through = IF m.catching_up /\ ~peers[i][j].catching_up
                            THEN LastIndex(log[i]) + 1 ELSE @]

\* What any answer to this leadership tells about the peer.
Heard(i, j, m) ==
    [peers[i][j] EXCEPT
        !.pending = IF m.request = "carrying" /\ @ > 0 THEN @ - 1 ELSE @,
        !.catching_up = m.catching_up,
        !.promote_through = IF m.catching_up /\ ~peers[i][j].catching_up
                            THEN LastIndex(log[i]) ELSE @]

IsAppendAnswer(i, m) ==
    /\ m.type = "AppendEntriesReply"
    /\ ~TellsOfLaterTerm(i, m) /\ ~IsStale(i, m)

\* on_append_entries_reply, a refusal: resend from where the follower says,
\* unless it is at or below what it has acknowledged, or would not move back.
OnAppendRefused(i, j, m) ==
    LET s == Heard(i, j, m)
        resume == Greatest(1, m.conflict_index)
        moved == [s EXCEPT !.next_index = resume,
                           !.sent_commit = Least(@, resume - 1)]
    IN
    /\ TakeAnswer(i, j)
    /\ IsAppendAnswer(i, m) /\ ~m.success
    /\ IF m.conflict_index > s.match_index /\ resume < s.next_index
       THEN \E late \in Overdue(i, {j}) :
               LET row == [peers[i] EXCEPT ![j] = moved] IN
               /\ resends' = resends + Cardinality(late)
               /\ peers' = [peers EXCEPT ![i] =
                     AppendedRow(i, term[i], log[i], commit_index[i], row, {j}, late, j)]
               /\ Send(i, Appends(i, term[i], log[i], commit_index[i], row, {j}, late))
       ELSE /\ peers' = [peers EXCEPT ![i][j] = s]
            /\ UNCHANGED <<req, resends>>
    /\ UNCHANGED <<disk, election, log, commit_index, history>>

\* Mutant of Acknowledged: promoted by the first success.
AcknowledgedAtOnce(i, j, m) ==
    LET s == Heard(i, j, m)
        match == Greatest(s.match_index, Least(m.match_index, LastIndex(log[i])))
    IN [s EXCEPT !.match_index = match,
                 !.next_index = Greatest(@, match + 1),
                 !.catching_up = FALSE]

\* The peer state a success leaves, before anything is sent for it.
Acknowledged(i, j, m) ==
    LET s == Heard(i, j, m)
        match == Greatest(s.match_index, Least(m.match_index, LastIndex(log[i])))
    IN [s EXCEPT !.match_index = match,
                 !.next_index = Greatest(@, match + 1),
                 !.catching_up = @ /\ match < s.promote_through]

Promoted(i, j, m) == m.catching_up /\ ~Acknowledged(i, j, m).catching_up

\* _should_send_now
ShouldSendNow(i, s) ==
    /\ s.pending = 0
    /\ \/ s.next_index <= LastIndex(log[i])
       \/ commit_index[i] > s.sent_commit /\ s.sent_commit < s.next_index - 1

\* on_append_entries_reply, a success: credit, promote, commit, send on.
OnAppendAccepted(i, j, m) ==
    LET s == Acknowledged(i, j, m)
        row == [peers[i] EXCEPT ![j] = s]
        news == \/ s.match_index > peers[i][j].match_index
                \/ m.request = "carrying" /\ peers[i][j].pending = 1
        commit == IF news THEN CommitAfter(i, row) ELSE commit_index[i]
        J == IF commit > commit_index[i] THEN Targets(i)
             ELSE IF news /\ ShouldSendNow(i, s) THEN {j}
             ELSE {}
        promote == IF Promoted(i, j, m)
                   THEN <<[type |-> "Promote", term |-> term[i]]>> ELSE <<>>
    IN
    /\ TakeAnswer(i, j)
    /\ IsAppendAnswer(i, m) /\ m.success
    /\ commit_index' = [commit_index EXCEPT ![i] = commit]
    /\ committed' = committed \cup {<<n, TermAt(log[i], n)>> :
                                        n \in commit_index[i] + 1 .. commit}
    /\ \E late \in Overdue(i, J) :
          LET out == Appends(i, term[i], log[i], commit, row, J, late) IN
          /\ resends' = resends + Cardinality(late)
          /\ peers' = [peers EXCEPT ![i] =
                AppendedRow(i, term[i], log[i], commit, row, J, late, j)]
          /\ Send(i, [out EXCEPT ![j] = promote \o @])
    /\ UNCHANGED <<disk, election, log, elected, cast>>

\* _tick of a leader: _replicate.
LeaderTick(i) ==
    /\ i \notin stopped
    /\ role[i] = "LEADER"
    /\ RoomToSend /\ Targets(i) # {}
    /\ \E late \in Overdue(i, Targets(i)) :
          /\ resends' = resends + Cardinality(late)
          /\ peers' = [peers EXCEPT ![i] =
                AppendedRow(i, term[i], log[i], commit_index[i], peers[i],
                            Targets(i), late, None)]
          /\ Send(i, Appends(i, term[i], log[i], commit_index[i], peers[i],
                             Targets(i), late))
    /\ UNCHANGED <<durable, election, log, commit_index, link, rep, orphan,
                   history, stopped, drops, saveFailures>>

\* _tick of a leader a quorum has stopped answering: _relinquish.
Relinquish(i) ==
    /\ i \notin stopped
    /\ role[i] = "LEADER"
    /\ role' = [role EXCEPT ![i] = "FOLLOWER"]
    /\ leader' = [leader EXCEPT ![i] = None]
    /\ round' = [round EXCEPT ![i] = EmptyRound]
    /\ UNCHANGED <<durable, term, voted_for, voting, replication, network,
                   history, stopped, faults>>

\* _drain or on_propose on the leader: append and replicate.
Propose(i) ==
    /\ i \notin stopped
    /\ role[i] = "LEADER"
    /\ LastIndex(log[i]) < MaxLog /\ RoomToSend
    /\ LET l == AppendLocal(log[i], term[i]) IN
       \E late \in Overdue(i, Targets(i)) :
          /\ resends' = resends + Cardinality(late)
          /\ log' = [log EXCEPT ![i] = l]
          /\ peers' = [peers EXCEPT ![i] =
                AppendedRow(i, term[i], l, commit_index[i], peers[i], Targets(i), late, None)]
          /\ Send(i, Appends(i, term[i], l, commit_index[i], peers[i],
                             Targets(i), late))
    /\ UNCHANGED <<durable, election, commit_index, link, rep, orphan,
                   history, stopped, drops, saveFailures>>

-----------------------------------------------------------------------------
(* Connections and processes *)

\* Mutant of Reconnected: the credit of the last connection is kept.
ReconnectedAsBefore(i, j) ==
    [peers[i][j] EXCEPT !.next_index = LastIndex(log[i]) + 1,
                        !.pending = 0, !.sent_commit = 0]

\* What a leader knows of a peer it has just connected to: nothing.
Reconnected(i, j) ==
    [peers[i][j] EXCEPT !.match_index = 0,
                        !.next_index = LastIndex(log[i]) + 1,
                        !.pending = 0, !.sent_commit = 0]

\* on_peer_state(up=True), from _connect.  A leader forgets what it knew of
\* the peer and probes it at once, first on the new connection.
PeerUp(i, j) ==
    LET s == Reconnected(i, j) IN
    /\ i # j /\ i \notin stopped /\ j \notin stopped
    /\ MaySend(i) /\ link[i][j] = "down"
    /\ link' = [link EXCEPT ![i][j] = "up"]
    /\ IF role[i] = "LEADER"
       THEN /\ peers' = [peers EXCEPT ![i][j] =
                            AfterAppend(log[i], commit_index[i], s, FALSE, 0)]
            /\ req' = [req EXCEPT ![i][j] =
                         <<AppendFor(term[i], log[i], commit_index[i], s, FALSE)>>]
       ELSE UNCHANGED <<peers, req>>
    /\ UNCHANGED <<durable, election, log, commit_index, rep, orphan, history,
                   stopped, faults>>

\* _drop, with on_peer_state(up=False).
Disconnect(i, j) ==
    /\ DropLink(i, j)
    /\ peers' = [peers EXCEPT ![i][j].catching_up = FALSE]

\* The end of the stream is read (the far end is gone)...
PeerGone(i, j) ==
    /\ i \notin stopped
    /\ link[i][j] = "broken"
    /\ Disconnect(i, j)
    /\ UNCHANGED <<durable, election, log, commit_index, history, stopped,
                   faults>>

\* ...or the connection to a live member fails or goes silent.
PeerLost(i, j) ==
    /\ i \notin stopped
    /\ link[i][j] = "up" /\ drops < MaxDrops
    /\ Disconnect(i, j)
    /\ drops' = drops + 1
    /\ UNCHANGED <<durable, election, log, commit_index, history, stopped,
                   resends, saveFailures>>

\* The end of a stream its caller gave up: what is unread is discarded.
OrphanEnds(i, j) ==
    /\ orphan[i][j] # <<>>
    /\ orphan' = [orphan EXCEPT ![i][j] = <<>>]
    /\ UNCHANGED <<durable, election, replication, link, req, rep, history,
                   stopped, faults>>

\* Mutant of VotesOnStart: a restarted member votes at once.
VotesOnEveryStart(n) == TRUE

\* __init__: only the first start of a member's state directory votes.
VotesOnStart(n) == n = 1

\* The process ends and starts again: TermStore.load, RaftNode.__init__.
Restart(i) ==
    /\ i \in Restarting /\ incarnation[i] < MaxIncarnation
    /\ Cardinality({j \in Member : ~voting[j]} \cup {i}) <= MaxForgotten
    /\ incarnation' = [incarnation EXCEPT ![i] = @ + 1]
    /\ term' = [term EXCEPT ![i] = disk[i].term]
    /\ voted_for' = [voted_for EXCEPT ![i] = disk[i].voted_for]
    /\ role' = [role EXCEPT ![i] = "FOLLOWER"]
    /\ leader' = [leader EXCEPT ![i] = None]
    /\ voting' = [voting EXCEPT ![i] = VotesOnStart(incarnation[i] + 1)]
    /\ round' = [round EXCEPT ![i] = EmptyRound]
    /\ log' = [log EXCEPT ![i] = EmptyLog]
    /\ commit_index' = [commit_index EXCEPT ![i] = 0]
    /\ peers' = [peers EXCEPT ![i] = [j \in Member |-> FreshPeer]]
    /\ stopped' = stopped \ {i}
    /\ ProcessEnds(i)
    /\ UNCHANGED <<disk, history, faults>>

-----------------------------------------------------------------------------
(* A save of the term file that fails (OSError out of _persist): what was    *)
(* assigned before it stays, the rest of the handler does not run, and the   *)
(* connection the message came by is closed.  The file itself holds the old  *)
(* state, or the new one when the failure came after the rename (os.replace) *)
(* that publishes it.                                                        *)

SaveFails ==
    /\ saveFailures < MaxSaveFailures
    /\ saveFailures' = saveFailures + 1
    /\ UNCHANGED <<incarnation, voting, history, stopped, resends, drops>>

SavedOrNot(i, state) == UNCHANGED disk \/ disk' = [disk EXCEPT ![i] = state]

\* _campaign, on winning the pre-vote: the votes of the last round stay.
CampaignSaveFails(i, j, m) ==
    LET counted == PreVoteCounted(i, j, m) IN
    /\ SaveFails
    /\ m.type = "RequestVoteReply" /\ m.pre_vote /\ m.granted
    /\ ~IsStale(i, m)
    /\ Won(i, counted.pre_votes, counted.pre_forgotten)
    /\ Candidacy(i)
    /\ SavedOrNot(i, [term |-> term[i] + 1, voted_for |-> i])
    /\ round' = [round EXCEPT ![i] = counted]
    /\ Disconnect(i, j)
    /\ UNCHANGED <<leader, log, commit_index>>

\* _step_down, from an answer.
StepDownSaveFailsOnAnswer(i, j, m) ==
    /\ SaveFails
    /\ TellsOfLaterTerm(i, m)
    /\ Adopt(i, m.term)
    /\ SavedOrNot(i, [term |-> m.term, voted_for |-> None])
    /\ Disconnect(i, j)
    /\ UNCHANGED <<log, commit_index>>

\* _step_down, from a request.
StepDownSaveFailsOnRequest(i, j, src, m) ==
    /\ SaveFails
    /\ \/ m.type = "RequestVote" /\ ~m.pre_vote
       \/ m.type = "AppendEntries"
    /\ m.term > term[i]
    /\ Adopt(i, m.term)
    /\ SavedOrNot(i, [term |-> m.term, voted_for |-> None])
    /\ EndInbound(i, j, src)
    /\ UNCHANGED replication

\* on_request_vote: the save of the vote itself, after that of the term.
GrantSaveFails(i, j, src, m) ==
    /\ SaveFails
    /\ m.type = "RequestVote" /\ ~m.pre_vote
    /\ Grants(i, j, m)
    /\ term' = [term EXCEPT ![i] = m.term]
    /\ voted_for' = [voted_for EXCEPT ![i] = j]
    /\ IF m.term > term[i]
       THEN /\ \E v \in {None, j} :
                  disk' = [disk EXCEPT ![i] = [term |-> m.term, voted_for |-> v]]
            /\ role' = [role EXCEPT ![i] = "FOLLOWER"]
            /\ leader' = [leader EXCEPT ![i] = None]
            /\ round' = [round EXCEPT ![i] = EmptyRound]
       ELSE /\ SavedOrNot(i, [term |-> m.term, voted_for |-> j])
            /\ UNCHANGED <<role, leader, round>>
    /\ EndInbound(i, j, src)
    /\ UNCHANGED replication

-----------------------------------------------------------------------------

Init ==
    /\ disk = [i \in Member |-> [term |-> 0, voted_for |-> None]]
    /\ incarnation = [i \in Member |-> 1]
    /\ term = [i \in Member |-> 0]
    /\ voted_for = [i \in Member |-> None]
    /\ role = [i \in Member |-> "FOLLOWER"]
    /\ leader = [i \in Member |-> None]
    /\ voting = [i \in Member |-> VotesOnStart(incarnation[i])]
    /\ round = [i \in Member |-> EmptyRound]
    /\ log = [i \in Member |-> EmptyLog]
    /\ commit_index = [i \in Member |-> 0]
    /\ peers = [i \in Member |-> [j \in Member |-> FreshPeer]]
    /\ stopped = {}
    /\ link = [i \in Member |-> [j \in Member |->
                  IF i \in Candidates /\ i # j THEN "up" ELSE "down"]]
    /\ req = [i \in Member |-> [j \in Member |-> <<>>]]
    /\ rep = [i \in Member |-> [j \in Member |-> <<>>]]
    /\ orphan = [i \in Member |-> [j \in Member |-> <<>>]]
    /\ resends = 0 /\ drops = 0 /\ saveFailures = 0
    /\ elected = {} /\ cast = {} /\ committed = {}

\* _dispatch of a request of j.
HandleRequest(i, j, src) ==
    LET m == Head(Inbound(i, j, src)) IN
    /\ Inbound(i, j, src) # <<>> /\ i \notin stopped
    /\ \/ RefuseUnderLease(i, j, src, m)
       \/ AnswerPreVote(i, j, src, m)
       \/ GrantVote(i, j, src, m)
       \/ DenyVote(i, j, src, m)
       \/ RejectAppend(i, j, src, m)
       \/ StopOnContradiction(i, j, src, m)
       \/ ConflictingAppend(i, j, src, m)
       \/ AcceptAppend(i, j, src, m)
       \/ OnPromote(i, j, src, m)
       \/ StepDownSaveFailsOnRequest(i, j, src, m)
       \/ GrantSaveFails(i, j, src, m)

\* _dispatch of an answer of j.
HandleAnswer(i, j) ==
    LET m == Head(rep[i][j]) IN
    /\ rep[i][j] # <<>> /\ i \notin stopped
    /\ \/ OnLaterTerm(i, j, m)
       \/ OnStaleAnswer(i, j, m)
       \/ OnPreVoteGranted(i, j, m)
       \/ OnPreVoteRefused(i, j, m)
       \/ OnRequestVoteReply(i, j, m)
       \/ OnAppendRefused(i, j, m)
       \/ OnAppendAccepted(i, j, m)
       \/ CampaignSaveFails(i, j, m)
       \/ StepDownSaveFailsOnAnswer(i, j, m)

Next ==
    \E i \in Member :
        \/ PreCampaign(i)
        \/ LeaderTick(i)
        \/ Relinquish(i)
        \/ Propose(i)
        \/ Restart(i)
        \/ \E j \in Member :
              \/ \E src \in Source : HandleRequest(i, j, src)
              \/ HandleAnswer(i, j)
              \/ PeerUp(i, j)
              \/ PeerGone(i, j)
              \/ PeerLost(i, j)
              \/ OrphanEnds(i, j)

Spec == Init /\ [][Next]_vars

-----------------------------------------------------------------------------
(* Properties *)

\* Every variable has its type.
TypeOK ==
    /\ disk \in [Member -> PersistentState]
    /\ incarnation \in [Member -> Nat]
    /\ term \in [Member -> Nat]
    /\ voted_for \in [Member -> Member \cup {None}]
    /\ role \in [Member -> Role]
    /\ leader \in [Member -> Member \cup {None}]
    /\ voting \in [Member -> BOOLEAN]
    /\ round \in [Member -> Round]
    /\ log \in [Member -> LogType]
    /\ commit_index \in [Member -> Nat]
    /\ peers \in [Member -> [Member -> PeerState]]
    /\ stopped \in SUBSET Member
    /\ link \in [Member -> [Member -> {"down", "up", "broken"}]]
    /\ req \in [Member -> [Member -> Seq(Request)]]
    /\ rep \in [Member -> [Member -> Seq(Answer)]]
    /\ orphan \in [Member -> [Member -> Seq(Request)]]
    /\ resends \in Nat /\ drops \in Nat /\ saveFailures \in Nat
    /\ elected \in SUBSET (Nat \X Member)
    /\ cast \in SUBSET (Nat \X Member \X Member)
    /\ committed \in SUBSET (Nat \X Nat)

\* Member i holds the entry e of term e[2] at index e[1].
Holds(i, e) ==
    /\ e[1] <= LastIndex(log[i])
    /\ e[1] <= log[i].snapshot_index \/ TermAt(log[i], e[1]) = e[2]

\* The leader of the latest term that has had one.
IsLatestLeader(i) ==
    role[i] = "LEADER" /\ \A e \in elected : e[1] <= term[i]

\* At most one member ever becomes leader of a term (_become_leader), whatever
\* is lost, delayed or restarted.
ElectionSafety ==
    \A e, f \in elected : e[1] = f[1] => e = f

\* Every leadership rests on a quorum of votes given in its own term, the
\* recovery election of _won included: no vote of another round is counted.
ElectedByQuorum ==
    \A e \in elected :
        Cardinality({v \in Member : <<e[1], v, e[2]>> \in cast}) >= Quorum

\* The votes given and the leaderships won are a run of Ballot: no voter ever
\* votes twice in a term or in an earlier one, across restarts, and no leader
\* rests on less than a majority of its own term.
Ballots == INSTANCE Ballot
ImplementsBallot == Ballots!Spec

\* A vote, once given, is on the voter's disk until it moves to a later term:
\* on_request_vote and _campaign save before they answer or ask.
VoteIsDurable ==
    \A v \in cast : \/ disk[v[2]].term > v[1]
                    \/ disk[v[2]] = [term |-> v[1], voted_for |-> v[3]]

\* What the term file says only moves forward, and a vote on it is never
\* changed within its term, across restarts and failed saves.
VoteOnce ==
    [][\A i \in Member :
          /\ disk'[i].term >= disk[i].term
          /\ (disk'[i].term = disk[i].term /\ disk[i].voted_for # None)
                => disk'[i] = disk[i]]_vars

\* A quorum of the members votes, that is, holds what it acknowledged: the
\* members that restarted and were not promoted since are fewer.
HasQuorum == Cardinality({i \in Member : voting[i]}) >= Quorum

\* The newest leader holds every entry a leader ever committed: what a client
\* was told is registered survives the restart of a member and the election
\* after it (the module docstring's scenario).
LeaderCompleteness ==
    \A i \in Member : IsLatestLeader(i) => \A e \in committed : Holds(i, e)

\* What a member believes committed, and so applies, some leader committed;
\* and leaders never commit two different entries at one index.
StateMachineSafety ==
    /\ \A e, f \in committed : e[1] = f[1] => e = f
    /\ \A i \in Member : \A n \in FirstIndex(log[i]) .. commit_index[i] :
          <<n, TermAt(log[i], n)>> \in committed

\* No leader's append ever contradicts what a member has committed: the
\* fail-stop of _contradicting_committed is never taken.
NeverStopped == stopped = {}

\* Every index a member works with lies in its log: it commits nothing it does
\* not hold, and a leader anchors every append inside its own log and above what
\* the peer has acknowledged (Match < Next), so _send_append never raises.
IndexBounds ==
    /\ \A i \in Member : commit_index[i] <= LastIndex(log[i])
    /\ \A i, j \in Member : role[i] = "LEADER" =>
          /\ peers[i][j].match_index < peers[i][j].next_index
          /\ peers[i][j].next_index <= LastIndex(log[i]) + 1

\* A contradiction with what is committed only ever stops a member that does
\* not vote: no member whose log counts has committed what the leader lacks.
StopsOnlyLearners == \A i \in stopped : ~voting[i]

\* Two logs with the same term at an index agree on everything before it
\* (AppendEntries' anchor check and append_replicated).
LogMatching ==
    \A i, j \in Member :
        \A n \in 1 .. Least(LastIndex(log[i]), LastIndex(log[j])) :
            TermAt(log[i], n) = TermAt(log[j], n)
                => \A k \in 1 .. n : TermAt(log[i], k) = TermAt(log[j], k)

\* What a leader credits a connected follower of its own term with
\* (match_index), that follower holds: no answer of an earlier process or an
\* earlier connection is credited to the one that replaced it.
MatchIsHeld ==
    \A i, j \in Member :
        (role[i] = "LEADER" /\ i # j /\ link[i][j] = "up" /\ term[j] = term[i])
            => \A n \in 1 .. peers[i][j].match_index :
                  Holds(j, <<n, TermAt(log[i], n)>>)

\* The voting members that lack a committed entry are never enough to elect a
\* leader: a member votes again only once it is promoted, and it is promoted
\* only once it holds what its earlier life may have acknowledged.
CommittedOutvotesTheRest ==
    \A e \in committed :
        Cardinality({i \in Member : voting[i] /\ ~Holds(i, e)}) < Quorum

\* A committed entry that some voting member still holds is held by the newest
\* leader, however many members have forgotten: the veto of _won's recovery
\* clause.
VotersVeto ==
    \A i \in Member : IsLatestLeader(i) =>
        \A e \in committed :
            (\E j \in Member : voting[j] /\ Holds(j, e)) => Holds(i, e)

\* What the comment "When every voter has forgotten" says of _won: an entry
\* that survives anywhere cannot be left behind by the winner.
SurvivorsVeto ==
    \A i \in Member : IsLatestLeader(i) =>
        \A e \in committed :
            (\E j \in Member : Holds(j, e)) => Holds(i, e)

\* While a process lives, what it has committed stays committed and is never
\* replaced in its log (append_replicated's floor, and the max in
\* on_append_entries).
CommittedStays ==
    [][\A i \in Member :
          incarnation'[i] = incarnation[i] =>
              /\ commit_index'[i] >= commit_index[i]
              /\ \A n \in 1 .. commit_index[i] :
                    /\ n <= LastIndex(log'[i])
                    /\ TermAt(log'[i], n) = TermAt(log[i], n)]_vars

\* A promotion member i has on its way to member j.
PromotionSent(i, j) ==
    \E k \in DOMAIN req[i][j] : req[i][j][k].type = "Promote"

\* What the comments of on_append_entries_reply and _advance_commit say: a
\* member catching up is never counted.  A leader that commits has a quorum,
\* itself included, of members that vote, that it has promoted, or whose end it
\* has not noticed yet, so that the answer it counts was given by a voter.
CatchingUpNeverCounted ==
    [][\A i \in Member :
          (role[i] = "LEADER" /\ role'[i] = "LEADER" /\ commit_index'[i] > commit_index[i])
              => Cardinality({i} \cup
                    {j \in Peers(i) :
                        /\ peers'[i][j].match_index >= commit_index'[i]
                        /\ \/ voting[j] \/ PromotionSent(i, j)'
                           \/ link[i][j] = "broken"}) >= Quorum]_vars
=============================================================================
