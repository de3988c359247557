------------------------------- MODULE Ballot -------------------------------
(***************************************************************************)
(* What an election promises, whatever the network and the disks do: a     *)
(* ledger of votes in which no voter ever goes back, and leaders that each *)
(* rest on a majority of it.  RaftNode implements it (Ballots there), with *)
(* its own history variables as the ledger.                                *)
(***************************************************************************)
EXTENDS Naturals, FiniteSets

CONSTANT Member

VARIABLES
    cast,       \* <<term, voter, candidate>> of every vote given
    elected     \* <<term, member>> of every leadership

Majority == Cardinality(Member) \div 2 + 1

Supporters(e) == {v \in Member : <<e[1], v, e[2]>> \in cast}

Init == cast = {} /\ elected = {}

\* A voter gives a vote in a later term than any it has voted in, or gives the
\* same vote again.
Give(v) ==
    /\ v \in Nat \X Member \X Member
    /\ \A w \in cast : w[2] = v[2] => (w[1] < v[1] \/ w = v)
    /\ cast' = cast \cup {v}
    /\ UNCHANGED elected

\* A candidate leads once a majority has voted for it in its term.
Lead(e) ==
    /\ e \in Nat \X Member
    /\ Cardinality(Supporters(e)) >= Majority
    /\ elected' = elected \cup {e}
    /\ UNCHANGED cast

\* Terms are unbounded: the vote and the leadership are named by what they add.
Next == (\E v \in cast' : Give(v)) \/ (\E e \in elected' : Lead(e))

Spec == Init /\ [][Next]_<<cast, elected>>

-----------------------------------------------------------------------------

\* No voter has two votes in one term.
OneVotePerTerm == \A v, w \in cast : (v[1] = w[1] /\ v[2] = w[2]) => v = w

\* Every leadership rests on a majority.
LedByMajority == \A e \in elected : Cardinality(Supporters(e)) >= Majority

\* No term has two leaders.
OneLeaderPerTerm == \A e, f \in elected : e[1] = f[1] => e = f
=============================================================================
