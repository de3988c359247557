---------------------------- MODULE MCRestarts ----------------------------
(***************************************************************************)
(* Restarts of RaftNode's members.  The log is volatile: what is committed *)
(* is promised only as long as a quorum of the members votes, that is, has *)
(* not forgotten it.  A history variable remembers whether one always did. *)
(***************************************************************************)
EXTENDS MCRaftNode

VARIABLE quorumKept     \* history: a voting quorum has existed all along

RestartSpec ==
    /\ Established /\ quorumKept = TRUE
    /\ [][Next /\ quorumKept' = (quorumKept /\ HasQuorum')]_<<vars, quorumKept>>

\* The four promises that restarts must not break, as long as a quorum of the
\* voters has kept its log all along: a committed entry is on every newer
\* leader, is never contradicted, and never comes within one vote of being lost
\* (_start_as_learner, _maybe_promote, and _won's count of voting members).
SafeWhileQuorumKept ==
    quorumKept => /\ LeaderCompleteness
                  /\ StateMachineSafety
                  /\ CommittedOutvotesTheRest
                  /\ NeverStopped
=============================================================================
