---------------------------- MODULE MCRaftNode ----------------------------
(***************************************************************************)
(* Three members for TLC, from a fresh boot or from an established leader. *)
(***************************************************************************)
EXTENDS RaftNode, TLC

CONSTANTS a, b, c

\* From a fresh boot the members whose election timer fires are alike.
CandidateSymmetry == Permutations({a, b})

\* Member a has led term 1 since the first boot; its no-op is committed, every
\* member holds it and has been told, and nothing is in flight.
Established ==
    /\ disk = [i \in Member |-> [term |-> 1, voted_for |-> a]]
    /\ incarnation = [i \in Member |-> 1]
    /\ term = [i \in Member |-> 1]
    /\ voted_for = [i \in Member |-> a]
    /\ role = [i \in Member |-> IF i = a THEN "LEADER" ELSE "FOLLOWER"]
    /\ leader = [i \in Member |-> a]
    /\ voting = [i \in Member |-> TRUE]
    /\ round = [i \in Member |->
          IF i = a THEN [EmptyRound EXCEPT !.votes = {a, b}, !.pre_votes = {a, b}]
                   ELSE EmptyRound]
    /\ log = [i \in Member |-> AppendLocal(EmptyLog, 1)]
    /\ commit_index = [i \in Member |-> 1]
    /\ peers = [i \in Member |-> [j \in Member |->
          IF i = a /\ j # a
          THEN [FreshPeer EXCEPT !.next_index = 2, !.match_index = 1,
                                 !.sent_commit = 1]
          ELSE FreshPeer]]
    /\ stopped = {}
    /\ link = [i \in Member |-> [j \in Member |->
          IF i \in Candidates \cup {a} /\ i # j THEN "up" ELSE "down"]]
    /\ req = [i \in Member |-> [j \in Member |-> <<>>]]
    /\ rep = [i \in Member |-> [j \in Member |-> <<>>]]
    /\ orphan = [i \in Member |-> [j \in Member |-> <<>>]]
    /\ resends = 0 /\ drops = 0 /\ saveFailures = 0
    /\ elected = {<<1, a>>}
    /\ cast = {<<1, i, a>> : i \in Member}
    /\ committed = {<<1, 1>>}

EstablishedSpec == Established /\ [][Next]_vars

-----------------------------------------------------------------------------
(* A stable leader: a quorum goes on answering it, so it never relinquishes,  *)
(* and no election timer fires.                                               *)

StableNext ==
    \E i \in Member :
        \/ LeaderTick(i)
        \/ Propose(i)
        \/ Restart(i)
        \/ \E j \in Member :
              \/ \E src \in Source : HandleRequest(i, j, src)
              \/ HandleAnswer(i, j)
              \/ PeerUp(i, j)
              \/ PeerGone(i, j)
              \/ PeerLost(i, j)
              \/ OrphanEnds(i, j)

\* The processes keep running their tasks: as long as one can, a leader ticks,
\* a connection is read, a dropped one is noticed, a peer is dialled.
Delivers(i, j) ==
    HandleAnswer(i, j) \/ \E src \in Source : HandleRequest(i, j, src)

Fairness ==
    /\ WF_vars(\E i \in Member : LeaderTick(i))
    /\ WF_vars(\E i, j \in Member : Delivers(i, j))
    /\ WF_vars(\E i, j \in Member : PeerUp(i, j))
    /\ WF_vars(\E i, j \in Member : PeerGone(i, j))

StableSpec == Established /\ [][StableNext]_vars /\ Fairness

\* Under a stable leader the cluster converges once restarts, lost connections
\* and proposals cease: every member votes again, so the restarted one has been
\* caught up and promoted, and every member has committed all that the leader
\* has appended.
Converges ==
    <>[](\A i \in Member :
            voting[i] /\ commit_index[i] = LastIndex(log[a]))
=============================================================================
