-------------------------- MODULE RaftSafetyProofs --------------------------
(***************************************************************************)
(* What a leader of RaftNode has committed is never lost: for every        *)
(* cluster and every value of the bounds, as long as no save of a term     *)
(* file fails and the members that vote are a quorum.                      *)
(*                                                                         *)
(* Every action is reduced to what it does to the member that takes it, to *)
(* the requests and the answers in flight, to the connections, to what a   *)
(* leader knows of its peers, and to what is committed.  The safety of     *)
(* what is committed is then proved over those few moves.                  *)
(***************************************************************************)
EXTENDS RaftNodeProofs

-----------------------------------------------------------------------------
(* What is in flight *)

\* The requests on their way from x to y, on x's connection or left over from
\* one it gave up, and the answers on their way back.
Wire(x, y) == Range(req[x][y]) \cup Range(orphan[x][y])
Ans(x, y) == Range(rep[x][y])

IsAppend(m) == m.type = "AppendEntries"
IsPromote(m) == m.type = "Promote"
IsAsk(m) == m.type = "RequestVote" /\ ~m.pre_vote
IsVoteReply(r) == r.type = "RequestVoteReply" /\ ~r.pre_vote
IsAck(r) == r.type = "AppendEntriesReply" /\ r.success

\* Nothing is in flight where nothing is connected, and nobody dials itself.
Silent ==
    /\ \A x, y \in Member : link[x][y] = "down" => req[x][y] = <<>> /\ rep[x][y] = <<>>
    /\ \A x \in Member : link[x][x] = "down" /\ orphan[x][x] = <<>>

\* As long as no save has failed the file is at the member's term; a member
\* has been started.
Files == \A k \in Member : disk[k].term = term[k] /\ incarnation[k] >= 1

-----------------------------------------------------------------------------
(* What a step may do to a member *)

\* The log stays, and so does the vote; a later term may be entered.
Rests(k) ==
    /\ log'[k] = log[k] /\ voting'[k] = voting[k] /\ term'[k] >= term[k]
    /\ \/ role'[k] = role[k] /\ term'[k] = term[k]
       \/ role'[k] \notin {"LEADER", "CANDIDATE"}

\* A round of votes is opened (_campaign).
Campaigns(k) ==
    /\ log'[k] = log[k] /\ voting'[k] = voting[k] /\ term'[k] = term[k] + 1
    /\ role'[k] = "CANDIDATE"
    /\ round'[k].votes = {k} /\ round'[k].forgotten = {}

\* The process starts again without its log.
Forgets(k) ==
    /\ log'[k] = EmptyLog /\ voting'[k] = FALSE /\ term'[k] >= term[k]
    /\ role'[k] = "FOLLOWER" /\ commit_index'[k] = 0
    /\ \A x \in Member : Wire(x, k)' = {} /\ link'[x][k] # "up"

\* A leader appends an entry.
Adds(k) ==
    /\ role[k] = "LEADER" /\ role'[k] = "LEADER"
    /\ term'[k] = term[k] /\ voting'[k] = voting[k]
    /\ log'[k] = AppendLocal(log[k], term[k])

\* Candidate k has these votes and these confessions, from its round and from
\* the answers in flight to it.
Counts(k, votes, forgotten) ==
    /\ \A v \in votes \ forgotten :
          \/ v \in round[k].votes \ round[k].forgotten
          \/ \E r \in Ans(k, v) : /\ IsVoteReply(r) /\ r.term = term[k]
                                  /\ r.granted /\ r.voting
    /\ \A v \in forgotten :
          \/ v \in round[k].forgotten
          \/ \E r \in Ans(k, v) : IsVoteReply(r) /\ r.term = term[k] /\ ~r.voting

\* A candidate becomes the leader of its term.
Wins(k) ==
    /\ role[k] = "CANDIDATE" /\ role'[k] = "LEADER"
    /\ term'[k] = term[k] /\ voting'[k] = TRUE
    /\ log'[k] = AppendLocal(log[k], term[k])
    /\ <<term[k], k>> \in elected'
    /\ \A j \in Member : peers'[k][j].match_index = 0 /\ ~peers'[k][j].catching_up
    /\ \E votes, forgotten \in SUBSET Member :
          Won(k, votes, forgotten) /\ Counts(k, votes, forgotten)

\* Member k takes append m of member j.
TakesFrom(k, j, m) ==
    /\ m \in Wire(j, k) /\ IsAppend(m)
    /\ m.term >= term[k] /\ term'[k] = m.term
    /\ role'[k] = "FOLLOWER" /\ voting'[k] = voting[k]
    /\ m.prev_log_index >= commit_index[k] /\ m.prev_log_index <= LastIndex(log[k])
    /\ m.prev_log_index = 0 \/ TermAt(log[k], m.prev_log_index) = m.prev_log_term
    /\ log'[k] = AppendReplicated(log[k], m.prev_log_index + 1, m.entries)
    /\ commit_index'[k] = Greatest(commit_index[k],
                             Least(m.leader_commit, m.prev_log_index + Len(m.entries)))

\* Member k is told that it may vote again.
Joins(k) ==
    /\ log'[k] = log[k] /\ term'[k] = term[k] /\ role'[k] = role[k] /\ voting'[k] = TRUE
    /\ \E j \in Member : \E m \in Wire(j, k) : IsPromote(m) /\ m.term >= term[k]

MemberMove(k) ==
    \/ Rests(k) \/ Campaigns(k) \/ Forgets(k) \/ Adds(k) \/ Wins(k) \/ Joins(k)
    \/ \E j \in Member : \E m \in Wire(j, k) : TakesFrom(k, j, m)

\* A candidate that goes on with its round.
RoundMove(k) ==
    role[k] = "CANDIDATE" /\ role'[k] = "CANDIDATE" /\ term'[k] = term[k] =>
        Counts(k, round'[k].votes, round'[k].forgotten)

-----------------------------------------------------------------------------
(* What a step may put in flight *)

\* The bar a peer must reach to vote again, once it has said it is catching up.
Bar(x, y) ==
    IF peers[x][y].catching_up THEN peers[x][y].promote_through ELSE LastIndex(log[x])

NewAsk(x, m) ==
    /\ IsAsk(m) /\ role'[x] = "CANDIDATE" /\ m.term = term'[x]
    /\ m.last_log_index = LastIndex(log'[x]) /\ m.last_log_term = LastTerm(log'[x])

NewAppend(x, m) ==
    /\ IsAppend(m) /\ role'[x] = "LEADER" /\ m.term = term'[x]
    /\ Part(AppendSpan(m), LogSpan(log'[x])) /\ m.leader_commit = commit_index'[x]

NewPromote(x, y, m) ==
    /\ IsPromote(m) /\ role[x] = "LEADER" /\ role'[x] = "LEADER"
    /\ m.term = term[x] /\ term'[x] = term[x] /\ link[x][y] = "up"
    /\ \E r \in Ans(x, y) :
          /\ IsAck(r) /\ r.term = term[x]
          /\ Bar(x, y) <= peers[x][y].match_index \/ Bar(x, y) <= r.match_index

NewRequest(x, y, m) ==
    \/ m.type = "RequestVote" /\ m.pre_vote
    \/ NewAsk(x, m)
    \/ NewAppend(x, m)
    \/ NewPromote(x, y, m)

NewVote(x, y, r) ==
    /\ IsVoteReply(r) /\ r.term = term'[y]
    /\ r.voting = voting[y] /\ voting'[y] = voting[y]
    /\ r.granted => \E m \in Wire(x, y) :
          /\ IsAsk(m) /\ m.term = r.term
          /\ IsAtLeastAsCurrentAs(log[y], m.last_log_index, m.last_log_term)

NewAck(x, y, r) ==
    /\ IsAck(r) /\ r.term = term'[y]
    /\ \E m \in Wire(x, y) :
          /\ IsAppend(m) /\ m.term = r.term /\ term[y] <= r.term
          /\ \/ /\ TakesFrom(y, x, m)
                /\ r.match_index = m.prev_log_index + Len(m.entries)
             \/ log'[y] = log[y] /\ r.match_index = commit_index[y]

NewAnswer(x, y, r) ==
    \/ ~IsVoteReply(r) /\ ~IsAck(r)
    \/ NewVote(x, y, r)
    \/ NewAck(x, y, r)

WireMove == \A x, y \in Member : \A m \in Wire(x, y)' :
                m \in Wire(x, y) \/ NewRequest(x, y, m)
AnsMove == \A x, y \in Member : \A r \in Ans(x, y)' :
                r \in Ans(x, y) \/ NewAnswer(x, y, r)

-----------------------------------------------------------------------------
(* What a step may do to what a leader knows, and to what is committed *)

LinkMove(x, y) ==
    /\ link'[x][y] = "up" =>
          \/ link[x][y] = "up"
          \/ link[x][y] = "down" /\ (role'[x] = "LEADER" => peers'[x][y].match_index = 0)
    /\ link'[x][y] = "down" => link[x][y] = "down" \/ ~peers'[x][y].catching_up

RowMove(k, j) ==
    role[k] = "LEADER" /\ role'[k] = "LEADER" =>
        /\ \/ peers'[k][j].match_index <= peers[k][j].match_index
           \/ \E r \in Ans(k, j) : /\ IsAck(r) /\ r.term = term[k]
                                   /\ peers'[k][j].match_index <= r.match_index
        /\ peers'[k][j].catching_up =>
              \/ /\ peers[k][j].catching_up
                 /\ peers'[k][j].promote_through = peers[k][j].promote_through
              \/ peers'[k][j].promote_through = LastIndex(log[k]) /\ link[k][j] # "down"

\* The members a leader may count for an entry of its term.
Acked(l, n) ==
    {j \in Member :
        \/ j = l
        \/ peers[l][j].match_index >= n
        \/ \E r \in Ans(l, j) : IsAck(r) /\ r.term = term[l] /\ r.match_index >= n}

\* A leader commits an entry of its term that a quorum has acknowledged.
Advances(k) ==
    /\ role[k] = "LEADER" /\ role'[k] = "LEADER" /\ log'[k] = log[k]
    /\ commit_index'[k] > commit_index[k] /\ commit_index'[k] <= LastIndex(log[k])
    /\ TermAt(log[k], commit_index'[k]) = term[k]
    /\ Cardinality(Acked(k, commit_index'[k])) >= Quorum

CommitRule(k) ==
    \/ /\ commit_index'[k] = commit_index[k] /\ commit_index[k] <= LastIndex(log'[k])
       /\ \A x \in 0 .. commit_index[k] : TermAt(log'[k], x) = TermAt(log[k], x)
    \/ Forgets(k)
    \/ Advances(k)
    \/ \E j \in Member : \E m \in Wire(j, k) : TakesFrom(k, j, m)

LedgerMove ==
    /\ \A e \in elected' : e \in elected \/ \E k \in Member : Wins(k) /\ e = <<term[k], k>>
    /\ committed \subseteq committed'
    /\ \A e \in committed' :
          \/ e \in committed
          \/ \E k \in Member : \E n \in 1 .. commit_index'[k] :
                Advances(k) /\ e = <<n, TermAt(log[k], n)>>
    /\ \A k \in Member : Advances(k) =>
          \A n \in 1 .. commit_index'[k] :
              n <= commit_index[k] \/ <<n, TermAt(log[k], n)>> \in committed'

\* What a step does, taken together: to the members, to the network, and as a
\* whole.
MemberMoves ==
    \A k \in Member :
        MemberMove(k) /\ RoundMove(k) /\ CommitRule(k) /\ \A j \in Member : RowMove(k, j)

NetMoves ==
    /\ WireMove /\ AnsMove
    /\ \A x, y \in Member : LinkMove(x, y)
    /\ Silent'

SafeMove ==
    /\ MemberMoves /\ NetMoves /\ LedgerMove
    /\ Files' /\ stopped' \subseteq stopped

-----------------------------------------------------------------------------
(* The network *)

\* The request a handler is given was on the wire, and the answer.
LEMMA HeadOnWire ==
  ASSUME NetworkOK, NEW i \in Member, NEW j \in Member, NEW src,
         Inbound(i, j, src) # <<>>, NEW m, m = Head(Inbound(i, j, src))
  PROVE  m \in Wire(j, i)
<1> DEFINE s == Inbound(i, j, src)
<1>1. req[j][i] \in Seq(Request) /\ orphan[j][i] \in Seq(Request)
  BY InFlight
<1>2. s \in Seq(Request)
  BY <1>1 DEF Inbound
<1>3. Range(s) \subseteq Range(req[j][i]) \cup Range(orphan[j][i])
  BY DEF Inbound
<1>4. s # <<>> /\ m = Head(s)
  OBVIOUS
<1> HIDE DEF s
<1>5. m = s[1] /\ 1 \in DOMAIN s
  <2>1. Len(s) \in Nat /\ DOMAIN s = 1 .. Len(s) /\ Len(s) # 0
    BY <1>2, <1>4, LenProperties, EmptySeq
  <2>2. QED
    BY <1>2, <1>4, <2>1
<1>6. m \in Range(s)
  BY <1>5 DEF Range
<1>7. QED
  BY <1>3, <1>6 DEF Wire

LEMMA HeadAnswered ==
  ASSUME NetworkOK, Silent, NEW i \in Member, NEW j \in Member, rep[i][j] # <<>>,
         NEW m, m = Head(rep[i][j])
  PROVE  m \in Ans(i, j) /\ link[i][j] # "down" /\ i # j
<1> DEFINE s == rep[i][j]
<1>1. s \in Seq(Answer) /\ s # <<>> /\ m = Head(s)
  BY DEF NetworkOK
<1>2. link[i][j] # "down" /\ i # j
  BY DEF Silent
<1> HIDE DEF s
<1>3. m = s[1] /\ 1 \in DOMAIN s
  <2>1. Len(s) \in Nat /\ DOMAIN s = 1 .. Len(s) /\ Len(s) # 0
    BY <1>1, LenProperties, EmptySeq
  <2>2. QED
    BY <1>1, <2>1
<1>4. QED
  BY <1>2, <1>3 DEF Range, Ans, s

\* A member that answers a request puts nothing else in flight.
LEMMA RespondNet ==
  ASSUME NetworkOK, Silent, NEW i \in Member, NEW j \in Member, NEW src \in Source,
         Inbound(i, j, src) # <<>>, NEW answers \in Seq(Answer), Respond(i, j, src, answers)
  PROVE  /\ \A x, y \in Member : Wire(x, y)' \subseteq Wire(x, y)
         /\ \A x, y \in Member : \A r \in Ans(x, y)' :
               r \in Ans(x, y) \/ (x = j /\ y = i /\ r \in Range(answers))
         /\ UNCHANGED link /\ Silent'
<1>1. req[j][i] \in Seq(Request) /\ orphan[j][i] \in Seq(Request) /\ rep[j][i] \in Seq(Answer)
  BY DEF NetworkOK
<1>2. CASE src = "connection"
  <2>1. Range(Tail(req[j][i])) \subseteq Range(req[j][i]) /\ req[j][i] # <<>>
    BY <1>1, <1>2, TailRange DEF Inbound
  <2>2. Range(rep[j][i] \o answers) = Range(rep[j][i]) \cup Range(answers)
    BY <1>1, RangeConcatenation
  <2>3. /\ req' = [req EXCEPT ![j][i] = Tail(req[j][i])]
        /\ rep' = [rep EXCEPT ![j][i] = rep[j][i] \o answers]
        /\ UNCHANGED <<link, orphan>>
    BY <1>2 DEF Respond
  <2>4. \A a, b \in Member :
           \/ req'[a][b] = req[a][b] /\ rep'[a][b] = rep[a][b]
           \/ /\ a = j /\ b = i /\ req'[a][b] = Tail(req[j][i])
              /\ rep'[a][b] = rep[j][i] \o answers
    BY <2>3 DEF NetworkOK
  <2>5. link[j][i] # "down"
    BY <2>1 DEF Silent
  <2>6. Silent'
    BY <2>3, <2>4, <2>5 DEF Silent
  <2>7. \A x, y \in Member : Wire(x, y)' \subseteq Wire(x, y)
    BY <2>1, <2>3, <2>4 DEF Wire
  <2>8. \A x, y \in Member : \A r \in Ans(x, y)' :
               r \in Ans(x, y) \/ (x = j /\ y = i /\ r \in Range(answers))
    BY <2>2, <2>4 DEF Ans
  <2>9. QED
    BY <2>3, <2>6, <2>7, <2>8
<1>3. CASE src # "connection"
  <2>1. Range(Tail(orphan[j][i])) \subseteq Range(orphan[j][i]) /\ orphan[j][i] # <<>>
    BY <1>1, <1>3, TailRange DEF Inbound
  <2>2. /\ orphan' = [orphan EXCEPT ![j][i] = Tail(orphan[j][i])]
        /\ UNCHANGED <<link, req, rep>>
    BY <1>3 DEF Respond
  <2>3. \A a, b \in Member :
          orphan'[a][b] = orphan[a][b] \/ (a = j /\ b = i /\ orphan'[a][b] = Tail(orphan[j][i]))
    BY <2>2 DEF NetworkOK
  <2>4. i # j
    BY <2>1 DEF Silent
  <2>5. Silent'
    BY <2>2, <2>3, <2>4 DEF Silent
  <2>6. QED
    BY <2>1, <2>2, <2>3, <2>5 DEF Wire, Ans
<1>4. QED
  BY <1>2, <1>3

\* A member that reads an answer puts nothing in flight by it.
LEMMA TakeNet ==
  ASSUME NetworkOK, Silent, NEW i \in Member, NEW j \in Member, rep[i][j] # <<>>,
         TakeAnswer(i, j)
  PROVE  /\ \A x, y \in Member : Ans(x, y)' \subseteq Ans(x, y)
         /\ AnsMove
         /\ UNCHANGED <<link, orphan>>
         /\ \A x, y \in Member : link[x][y] = "down" => rep'[x][y] = <<>>
<1>1. rep[i][j] \in Seq(Answer) /\ link[i][j] # "down"
  BY DEF NetworkOK, Silent
<1>2. Range(Tail(rep[i][j])) \subseteq Range(rep[i][j])
  BY <1>1, TailRange
<1>3. rep' = [rep EXCEPT ![i][j] = Tail(rep[i][j])] /\ UNCHANGED <<link, orphan>>
  BY DEF TakeAnswer
<1>4. \A a, b \in Member :
         rep'[a][b] = rep[a][b] \/ (a = i /\ b = j /\ rep'[a][b] = Tail(rep[i][j]))
  BY <1>3 DEF NetworkOK
<1>5. \A x, y \in Member : Ans(x, y)' \subseteq Ans(x, y)
  BY <1>2, <1>4 DEF Ans
<1>6. \A x, y \in Member : link[x][y] = "down" => rep'[x][y] = <<>>
  BY <1>1, <1>4 DEF Silent
<1>7. QED
  BY <1>3, <1>5, <1>6 DEF AnsMove

\* What a member sends goes out on the connections that are up.
LEMMA SendNet ==
  ASSUME NetworkOK, Silent, NEW i \in Member, NEW out \in [Member -> Seq(Request)],
         Send(i, out), UNCHANGED <<link, orphan>>
  PROVE  /\ \A x, y \in Member : \A m \in Wire(x, y)' :
               \/ m \in Wire(x, y)
               \/ x = i /\ link[i][y] = "up" /\ m \in Range(out[y])
         /\ \A x, y \in Member : link[x][y] = "down" => req'[x][y] = <<>>
<1>1. \A a, b \in Member :
         \/ req'[a][b] = req[a][b]
         \/ a = i /\ link[i][b] = "up" /\ req'[a][b] = req[a][b] \o out[b]
  BY DEF Send, NetworkOK
<1>2. ASSUME NEW b \in Member
      PROVE  Range(req[i][b] \o out[b]) = Range(req[i][b]) \cup Range(out[b])
  <2>1. req[i][b] \in Seq(Request) /\ out[b] \in Seq(Request)
    BY InFlight
  <2>2. QED
    BY <2>1, RangeConcatenation
<1>3. ASSUME NEW x \in Member, NEW y \in Member, NEW m \in Wire(x, y)'
      PROVE  m \in Wire(x, y) \/ (x = i /\ link[i][y] = "up" /\ m \in Range(out[y]))
  <2>1. m \in Range(req'[x][y]) \/ m \in Range(orphan[x][y])
    BY DEF Wire
  <2>2. CASE req'[x][y] = req[x][y]
    BY <2>1, <2>2 DEF Wire
  <2>3. CASE x = i /\ link[i][y] = "up" /\ req'[x][y] = req[x][y] \o out[y]
    BY <1>2, <2>1, <2>3 DEF Wire
  <2>4. QED
    BY <1>1, <2>2, <2>3
<1>4. ASSUME NEW x \in Member, NEW y \in Member, link[x][y] = "down"
      PROVE  req'[x][y] = <<>>
  BY <1>1, <1>4 DEF Silent
<1>5. QED
  BY <1>3, <1>4

\* The end of a connection or of a process puts nothing in flight.
LEMMA EndNet ==
  ASSUME NetworkOK, Silent, NEW i \in Member, NEW j \in Member,
         \/ DropLink(i, j) /\ link[i][j] # "down"
         \/ ProcessEnds(i)
         \/ orphan' = [orphan EXCEPT ![i][j] = <<>>] /\ UNCHANGED <<link, req, rep>>
         \/ UNCHANGED network
  PROVE  WireMove /\ AnsMove /\ Silent'
<1>1. ASSUME NEW a \in Member, NEW b \in Member
      PROVE  /\ req'[a][b] \in {req[a][b], <<>>} /\ rep'[a][b] \in {rep[a][b], <<>>}
             /\ orphan'[a][b] \in {orphan[a][b], <<>>, orphan[a][b] \o req[a][b]}
             /\ link'[a][b] = "down" =>
                   \/ link[a][b] = "down"
                   \/ req'[a][b] = <<>> /\ rep'[a][b] = <<>>
             /\ a = b => orphan'[a][b] = <<>> /\ link'[a][b] = "down"
  <2>0. <<>> \o <<>> = <<>>
    OBVIOUS
  <2>1. CASE DropLink(i, j) /\ link[i][j] # "down"
    BY <2>0, <2>1 DEF DropLink, NetworkOK, Silent
  <2>2. CASE ProcessEnds(i)
    BY <2>0, <2>2 DEF ProcessEnds, NetworkOK, Silent
  <2>3. CASE orphan' = [orphan EXCEPT ![i][j] = <<>>] /\ UNCHANGED <<link, req, rep>>
    BY <2>3 DEF NetworkOK, Silent
  <2>4. CASE UNCHANGED network
    BY <2>4 DEF network, Silent
  <2>5. QED
    BY <2>1, <2>2, <2>3, <2>4
<1>2. ASSUME NEW a \in Member, NEW b \in Member
      PROVE  Range(orphan[a][b] \o req[a][b]) = Range(orphan[a][b]) \cup Range(req[a][b])
  <2>1. req[a][b] \in Seq(Request) /\ orphan[a][b] \in Seq(Request)
    BY InFlight
  <2>2. QED
    BY <2>1, RangeConcatenation
<1>3. ASSUME NEW a \in Member, NEW b \in Member
      PROVE  Wire(a, b)' \subseteq Wire(a, b) /\ Ans(a, b)' \subseteq Ans(a, b)
  BY <1>1, <1>2, EmptyRange DEF Wire, Ans
<1>4. Silent'
  <2>1. ASSUME NEW x \in Member, NEW y \in Member, link'[x][y] = "down"
        PROVE  req'[x][y] = <<>> /\ rep'[x][y] = <<>>
    <3>1. CASE link[x][y] = "down"
      <4>1. req[x][y] = <<>> /\ rep[x][y] = <<>>
        BY <3>1 DEF Silent
      <4>2. QED
        BY <1>1, <4>1
    <3>2. CASE link[x][y] # "down"
      BY <1>1, <2>1, <3>2
    <3>3. QED
      BY <3>1, <3>2
  <2>2. \A x \in Member : link'[x][x] = "down" /\ orphan'[x][x] = <<>>
    BY <1>1
  <2>3. QED
    BY <2>1, <2>2 DEF Silent
<1>5. QED
  BY <1>3, <1>4 DEF WireMove, AnsMove

-----------------------------------------------------------------------------
(* The members *)

\* What a step leaves alone of the members other than i.
Others(i) ==
    \A k \in Member \ {i} :
        /\ log'[k] = log[k] /\ voting'[k] = voting[k] /\ term'[k] = term[k]
        /\ role'[k] = role[k] /\ round'[k] = round[k]
        /\ commit_index'[k] = commit_index[k] /\ peers'[k] = peers[k]

LEMMA CountsItself ==
  ASSUME NEW k \in Member
  PROVE  Counts(k, round[k].votes, round[k].forgotten)
BY DEF Counts

\* What is committed here is held as it was.
LEMMA CommitStays ==
  ASSUME Inv, NEW k \in Member, log'[k] = log[k], commit_index'[k] = commit_index[k]
  PROVE  CommitRule(k) /\ ~Advances(k)
<1>1. commit_index[k] \in Nat /\ commit_index[k] <= LastIndex(log[k])
  BY MemberFacts
<1>2. QED
  BY <1>1 DEF CommitRule, Advances

LEMMA OthersMove ==
  ASSUME Inv, NEW i \in Member, Others(i), NEW k \in Member \ {i}
  PROVE  /\ MemberMove(k) /\ RoundMove(k) /\ CommitRule(k) /\ ~Advances(k)
         /\ \A j \in Member : RowMove(k, j)
<1>1. /\ log'[k] = log[k] /\ voting'[k] = voting[k] /\ term'[k] = term[k]
      /\ role'[k] = role[k] /\ round'[k] = round[k]
      /\ commit_index'[k] = commit_index[k] /\ peers'[k] = peers[k]
  BY DEF Others
<1>2. term[k] \in Nat /\ peers[k] \in [Member -> PeerState]
  BY MemberFacts
<1>3. MemberMove(k)
  BY <1>1, <1>2 DEF MemberMove, Rests
<1>4. RoundMove(k)
  BY <1>1, CountsItself DEF RoundMove
<1>5. CommitRule(k) /\ ~Advances(k)
  BY <1>1, CommitStays
<1>6. ASSUME NEW j \in Member
      PROVE  RowMove(k, j)
  <2>1. peers[k][j].match_index \in Nat
    BY <1>2 DEF PeerState
  <2>2. QED
    BY <1>1, <2>1 DEF RowMove
<1>7. QED
  BY <1>3, <1>4, <1>5, <1>6

\* Where what a leader knows stays, its rows do.
LEMMA RowStays ==
  ASSUME Inv, NEW i \in Member,
         \/ peers'[i] = peers[i]
         \/ role[i] # "LEADER"
         \/ role'[i] # "LEADER"
  PROVE  \A j \in Member : RowMove(i, j)
<1>1. ASSUME NEW j \in Member
      PROVE  peers[i][j].match_index \in Nat
  BY MemberFacts DEF PeerState
<1>2. QED
  BY <1>1 DEF RowMove

LEMMA OneMoves ==
  ASSUME Inv, NEW i \in Member, Others(i), MemberMove(i), RoundMove(i), CommitRule(i),
         \A j \in Member : RowMove(i, j)
  PROVE  MemberMoves
<1>1. ASSUME NEW k \in Member
      PROVE  /\ MemberMove(k) /\ RoundMove(k) /\ CommitRule(k)
             /\ \A j \in Member : RowMove(k, j)
  <2>1. CASE k = i
    BY <2>1
  <2>2. CASE k # i
    BY <2>2, OthersMove
  <2>3. QED
    BY <2>1, <2>2
<1>2. QED
  BY <1>1 DEF MemberMoves

LEMMA LedgerStays ==
  ASSUME Inv, NEW i \in Member, Others(i), ~Advances(i), UNCHANGED <<elected, committed>>
  PROVE  LedgerMove
<1>1. \A k \in Member : ~Advances(k)
  BY OthersMove
<1>2. QED
  BY <1>1 DEF LedgerMove

\* A step after which a member does no more than follow.
LEMMA CalmMove ==
  ASSUME Inv, NEW i \in Member, Others(i), Rests(i), commit_index'[i] = commit_index[i],
         UNCHANGED <<elected, committed>>,
         role'[i] = "CANDIDATE" => round'[i] = round[i],
         \A j \in Member : RowMove(i, j)
  PROVE  MemberMoves /\ LedgerMove
<1>1. MemberMove(i)
  BY DEF MemberMove
<1>2. RoundMove(i)
  BY CountsItself DEF RoundMove
<1>3. CommitRule(i) /\ ~Advances(i)
  BY CommitStays DEF Rests
<1>4. QED
  BY <1>1, <1>2, <1>3, OneMoves, LedgerStays

\* The file follows the member's term.
LEMMA FilesKept ==
  ASSUME Inv, Files, NEW i \in Member, UNCHANGED incarnation,
         \/ UNCHANGED <<disk, term>>
         \/ \E t \in Nat, v \in Member \cup {None} :
               /\ disk' = [disk EXCEPT ![i] = [term |-> t, voted_for |-> v]]
               /\ term' = [term EXCEPT ![i] = t]
  PROVE  Files'
<1>1. ElectionOK
  BY DEF Inv
<1>2. CASE UNCHANGED <<disk, term>>
  BY <1>2 DEF Files
<1>3. ASSUME NEW t \in Nat, NEW v \in Member \cup {None},
             disk' = [disk EXCEPT ![i] = [term |-> t, voted_for |-> v]],
             term' = [term EXCEPT ![i] = t]
      PROVE  Files'
  <2>1. \A k \in Member : disk'[k].term = term'[k]
    BY <1>1, <1>3 DEF ElectionOK, Files
  <2>2. QED
    BY <2>1 DEF Files
<1>4. QED
  BY <1>2, <1>3

LEMMA LinksStay ==
  ASSUME UNCHANGED link
  PROVE  \A x, y \in Member : LinkMove(x, y)
BY DEF LinkMove

-----------------------------------------------------------------------------
(* Requests that are answered *)

\* One answer, and nothing else, is put in flight.
LEMMA AnswerNet ==
  ASSUME NetworkOK, Silent, NEW i \in Member, NEW j \in Member, NEW src \in Source,
         Inbound(i, j, src) # <<>>, NEW r \in Answer, Respond(i, j, src, <<r>>),
         NewAnswer(j, i, r)
  PROVE  NetMoves
<1>1. <<r>> \in Seq(Answer)
  BY OneAnswer
<1>2. /\ \A x, y \in Member : Wire(x, y)' \subseteq Wire(x, y)
      /\ \A x, y \in Member : \A s \in Ans(x, y)' :
            s \in Ans(x, y) \/ (x = j /\ y = i /\ s \in Range(<<r>>))
      /\ UNCHANGED link /\ Silent'
  BY <1>1, RespondNet
<1>3. Range(<<r>>) = {r}
  BY DEF Range
<1>4. AnsMove
  BY <1>2, <1>3 DEF AnsMove
<1>5. WireMove
  BY <1>2 DEF WireMove
<1>6. QED
  BY <1>2, <1>4, <1>5, LinksStay DEF NetMoves

\* Nothing changes but what is in flight.
LEMMA RefusedOutright ==
  ASSUME Inv, Silent, Files, NEW i \in Member, NEW j \in Member, NEW src \in Source,
         NEW m \in Request, Inbound(i, j, src) # <<>>,
         \/ RefuseUnderLease(i, j, src, m)
         \/ AnswerPreVote(i, j, src, m)
         \/ RejectAppend(i, j, src, m)
  PROVE  SafeMove
<1>1. /\ NetworkOK /\ TypeOK /\ term[i] \in Nat /\ m.term \in Nat /\ voting[i] \in BOOLEAN
      /\ peers[i] \in [Member -> PeerState]
  BY MemberFacts, RequestFields DEF Inv
<1>2. UNCHANGED <<durable, election, replication, history, stopped>>
  BY DEF RefuseUnderLease, AnswerPreVote, RejectAppend
<1>3. MemberMoves /\ LedgerMove
  <2>1. Others(i) /\ Rests(i)
    BY <1>1, <1>2 DEF Others, Rests, election, replication
  <2>2. /\ UNCHANGED <<elected, committed>> /\ commit_index'[i] = commit_index[i]
        /\ round'[i] = round[i] /\ peers'[i] = peers[i]
    BY <1>2 DEF election, replication, history
  <2>3. QED
    BY <2>1, <2>2, RowStays, CalmMove
<1>4. NetMoves
  <2>1. CASE RefuseUnderLease(i, j, src, m)
    <3> DEFINE r == VoteReply(term[i], FALSE, voting[i], m.pre_vote)
    <3>1. m.pre_vote \in BOOLEAN
      BY <2>1, RequestFields DEF RefuseUnderLease, RequestVote
    <3>2. r \in Answer
      BY <1>1, <3>1, VoteReplyType
    <3>3. /\ r.type = "RequestVoteReply" /\ r.term = term[i] /\ r.granted = FALSE
          /\ r.voting = voting[i]
      BY DEF VoteReply
    <3>4. Respond(i, j, src, <<r>>)
      BY <2>1 DEF RefuseUnderLease
    <3> HIDE DEF r
    <3>5. NewAnswer(j, i, r)
      BY <1>2, <3>3 DEF NewAnswer, NewVote, IsVoteReply, IsAck, election
    <3>6. QED
      BY <1>1, <3>2, <3>4, <3>5, AnswerNet
  <2>2. CASE AnswerPreVote(i, j, src, m)
    <3>1. PICK t \in {m.term, term[i]}, g \in BOOLEAN :
             Respond(i, j, src, <<VoteReply(t, g, voting[i], TRUE)>>)
      BY <2>2 DEF AnswerPreVote
    <3> DEFINE r == VoteReply(t, g, voting[i], TRUE)
    <3>2. r \in Answer
      BY <1>1, VoteReplyType
    <3>3. r.type = "RequestVoteReply" /\ r.pre_vote
      BY DEF VoteReply
    <3>4. Respond(i, j, src, <<r>>)
      BY <3>1
    <3> HIDE DEF r
    <3>5. NewAnswer(j, i, r)
      BY <3>3 DEF NewAnswer, IsVoteReply, IsAck
    <3>6. QED
      BY <1>1, <3>2, <3>4, <3>5, AnswerNet
  <2>3. CASE RejectAppend(i, j, src, m)
    <3> DEFINE r == AppendReply(i, term[i], FALSE, 0, 0, "none")
    <3>2. r \in Answer
      BY <1>1, AppendReplyType
    <3>3. r.type = "AppendEntriesReply" /\ r.success = FALSE
      BY DEF AppendReply
    <3>4. Respond(i, j, src, <<r>>)
      BY <2>3 DEF RejectAppend
    <3> HIDE DEF r
    <3>5. NewAnswer(j, i, r)
      BY <3>3 DEF NewAnswer, IsVoteReply, IsAck
    <3>6. QED
      BY <1>1, <3>2, <3>4, <3>5, AnswerNet
  <2>4. QED
    BY <2>1, <2>2, <2>3
<1>5. Files'
  BY <1>2, FilesKept DEF durable, election
<1>6. QED
  BY <1>2, <1>3, <1>4, <1>5 DEF SafeMove

\* A vote granted or refused, or an append that does not fit: a later term is
\* entered, and no more.
LEMMA VoteAnswered ==
  ASSUME Inv, Silent, Files, NEW i \in Member, NEW j \in Member, NEW src \in Source,
         NEW m \in Request, Inbound(i, j, src) # <<>>, m = Head(Inbound(i, j, src)),
         GrantVote(i, j, src, m) \/ DenyVote(i, j, src, m)
  PROVE  SafeMove
<1>1. /\ NetworkOK /\ ElectionOK /\ term[i] \in Nat /\ m.term \in Nat /\ voting[i] \in BOOLEAN
      /\ None \in Member \cup {None} /\ j \in Member \cup {None}
      /\ m \in Wire(j, i)
  BY MemberFacts, RequestFields, HeadOnWire DEF Inv
<1>2. /\ UNCHANGED <<incarnation, voting, replication, elected, committed, stopped>>
      /\ m.type = "RequestVote" /\ ~m.pre_vote
  BY DEF GrantVote, DenyVote, history
<1>3. /\ term' = [term EXCEPT ![i] = Greatest(m.term, term[i])]
      /\ \/ UNCHANGED <<role, round>> /\ Greatest(m.term, term[i]) = term[i]
         \/ role' = [role EXCEPT ![i] = "FOLLOWER"] /\ round' = [round EXCEPT ![i] = EmptyRound]
      /\ \/ UNCHANGED disk /\ Greatest(m.term, term[i]) = term[i]
         \/ \E v \in Member \cup {None} :
              disk' = [disk EXCEPT ![i] = [term |-> Greatest(m.term, term[i]), voted_for |-> v]]
  <2>1. CASE GrantVote(i, j, src, m)
    <3>1. m.term >= term[i] /\ Greatest(m.term, term[i]) = m.term
      BY <1>1, <2>1 DEF GrantVote, Grants, Greatest
    <3>2. /\ term' = [term EXCEPT ![i] = m.term]
          /\ disk' = [disk EXCEPT ![i] = [term |-> m.term, voted_for |-> j]]
          /\ IF m.term > term[i]
             THEN role' = [role EXCEPT ![i] = "FOLLOWER"] /\ round' = [round EXCEPT ![i] = EmptyRound]
             ELSE UNCHANGED <<role, round>>
      BY <2>1 DEF GrantVote
    <3>3. m.term > term[i] \/ m.term = term[i]
      BY <1>1, <3>1
    <3>4. QED
      BY <1>1, <3>1, <3>2, <3>3
  <2>2. CASE DenyVote(i, j, src, m)
    <3>1. CASE m.term > term[i]
      <4>1. Greatest(m.term, term[i]) = m.term
        BY <1>1, <3>1 DEF Greatest
      <4>2. QED
        BY <1>1, <2>2, <3>1, <4>1 DEF DenyVote, StepDown, Adopt
    <3>2. CASE ~(m.term > term[i])
      <4>1. Greatest(m.term, term[i]) = term[i]
        BY <1>1, <3>2 DEF Greatest
      <4>2. UNCHANGED <<disk, term, role, round>>
        BY <2>2, <3>2 DEF DenyVote
      <4>3. term' = [term EXCEPT ![i] = term[i]]
        BY <1>1, <4>2 DEF ElectionOK
      <4>4. QED
        BY <4>1, <4>2, <4>3
    <3>3. QED
      BY <3>1, <3>2
  <2>3. QED
    BY <2>1, <2>2
<1>4. Greatest(m.term, term[i]) \in Nat /\ Greatest(m.term, term[i]) >= term[i]
  BY <1>1 DEF Greatest
<1>5. Others(i) /\ Rests(i) /\ term'[i] = Greatest(m.term, term[i])
  BY <1>1, <1>2, <1>3, <1>4 DEF Others, Rests, replication, ElectionOK
<1>6. MemberMoves /\ LedgerMove
  <2>1. /\ commit_index'[i] = commit_index[i] /\ peers'[i] = peers[i]
        /\ role'[i] = "CANDIDATE" => round'[i] = round[i]
    BY <1>1, <1>2, <1>3 DEF replication, ElectionOK
  <2>2. QED
    BY <1>2, <1>5, <2>1, RowStays, CalmMove
<1>7. NetMoves
  <2>1. PICK g \in BOOLEAN :
          /\ Respond(i, j, src, <<VoteReply(Greatest(m.term, term[i]), g, voting[i], FALSE)>>)
          /\ g => Grants(i, j, m)
    <3>1. CASE GrantVote(i, j, src, m)
      <4>1. Greatest(m.term, term[i]) = m.term
        BY <1>1, <3>1 DEF GrantVote, Grants, Greatest
      <4>2. QED
        BY <3>1, <4>1 DEF GrantVote
    <3>2. CASE DenyVote(i, j, src, m)
      BY <3>2 DEF DenyVote
    <3>3. QED
      BY <3>1, <3>2
  <2> DEFINE r == VoteReply(Greatest(m.term, term[i]), g, voting[i], FALSE)
  <2>2. r \in Answer
    BY <1>1, <1>4, VoteReplyType
  <2>3. /\ r.type = "RequestVoteReply" /\ ~r.pre_vote /\ r.term = Greatest(m.term, term[i])
        /\ r.voting = voting[i] /\ r.granted = g
    BY DEF VoteReply
  <2>4. Respond(i, j, src, <<r>>)
    BY <2>1
  <2> HIDE DEF r
  <2>5. r.granted => /\ m.term = r.term
                     /\ IsAtLeastAsCurrentAs(log[i], m.last_log_index, m.last_log_term)
    BY <1>1, <2>1, <2>3 DEF Grants, Greatest
  <2>6. NewVote(j, i, r)
    BY <1>1, <1>2, <1>5, <2>3, <2>5 DEF NewVote, IsVoteReply, IsAsk
  <2>7. NewAnswer(j, i, r)
    BY <2>6 DEF NewAnswer
  <2>8. QED
    BY <1>1, <2>2, <2>4, <2>7, AnswerNet
<1>8. Files'
  <2> DEFINE t == Greatest(m.term, term[i])
  <2>1. /\ t \in Nat /\ term' = [term EXCEPT ![i] = t]
        /\ \/ UNCHANGED disk /\ t = term[i]
           \/ \E v \in Member \cup {None} :
                disk' = [disk EXCEPT ![i] = [term |-> t, voted_for |-> v]]
    BY <1>3, <1>4
  <2> HIDE DEF t
  <2>2. CASE UNCHANGED disk /\ t = term[i]
    <3>1. UNCHANGED <<disk, term>>
      BY <1>1, <2>1, <2>2 DEF ElectionOK
    <3>2. QED
      BY <1>2, <3>1, FilesKept
  <2>3. CASE \E v \in Member \cup {None} :
                disk' = [disk EXCEPT ![i] = [term |-> t, voted_for |-> v]]
    BY <1>2, <2>1, <2>3, FilesKept
  <2>4. QED
    BY <2>1, <2>2, <2>3
<1>9. QED
  BY <1>2, <1>6, <1>7, <1>8 DEF SafeMove

\* What following the sender of an append does.
LEMMA FollowTaken ==
  ASSUME Inv, Files, NEW i \in Member, NEW j \in Member, NEW t \in Nat, t >= term[i],
         Follow(i, j, t), UNCHANGED <<incarnation, voting>>
  PROVE  /\ role'[i] = "FOLLOWER" /\ term'[i] = t /\ voting'[i] = voting[i]
         /\ \A k \in Member \ {i} : /\ role'[k] = role[k] /\ term'[k] = term[k]
                                     /\ round'[k] = round[k] /\ voting'[k] = voting[k]
         /\ Files'
<1>1. ElectionOK /\ term[i] \in Nat /\ None \in Member \cup {None}
  BY MemberFacts DEF Inv
<1>2. /\ role' = [role EXCEPT ![i] = "FOLLOWER"]
      /\ IF t > term[i]
         THEN /\ term' = [term EXCEPT ![i] = t]
              /\ disk' = [disk EXCEPT ![i] = [term |-> t, voted_for |-> None]]
              /\ round' = [round EXCEPT ![i] = EmptyRound]
         ELSE UNCHANGED <<term, disk, round>>
  BY DEF Follow
<1>3. t > term[i] \/ t = term[i]
  BY <1>1
<1>4. /\ role'[i] = "FOLLOWER" /\ term'[i] = t /\ voting'[i] = voting[i]
      /\ \A k \in Member \ {i} : /\ role'[k] = role[k] /\ term'[k] = term[k]
                                  /\ round'[k] = round[k] /\ voting'[k] = voting[k]
  BY <1>1, <1>2, <1>3 DEF ElectionOK
<1>5. \/ UNCHANGED <<disk, term>>
      \/ \E v \in Member \cup {None} :
            /\ disk' = [disk EXCEPT ![i] = [term |-> t, voted_for |-> v]]
            /\ term' = [term EXCEPT ![i] = t]
  BY <1>1, <1>2
<1>6. Files'
  BY <1>5, FilesKept
<1>7. QED
  BY <1>4, <1>6

\* An append that does not fit here.
LEMMA ConflictAnswered ==
  ASSUME Inv, Silent, Files, NEW i \in Member, NEW j \in Member, NEW src \in Source,
         NEW m \in Request, Inbound(i, j, src) # <<>>, ConflictingAppend(i, j, src, m)
  PROVE  SafeMove
<1>1. /\ NetworkOK /\ TypeOK /\ term[i] \in Nat /\ m.term \in Nat /\ log[i] \in FullLog
      /\ m.term >= term[i] /\ m \in AppendEntries
  BY MemberFacts, RequestFields DEF Inv, ConflictingAppend
<1>2. /\ UNCHANGED <<incarnation, voting, log, commit_index, peers, elected, committed, stopped>>
      /\ Follow(i, j, m.term)
  BY DEF ConflictingAppend, replication, history
<1>3. /\ role'[i] = "FOLLOWER" /\ term'[i] = m.term /\ voting'[i] = voting[i]
      /\ \A k \in Member \ {i} : /\ role'[k] = role[k] /\ term'[k] = term[k]
                                  /\ round'[k] = round[k] /\ voting'[k] = voting[k]
      /\ Files'
  BY <1>1, <1>2, FollowTaken
<1>4. Others(i) /\ Rests(i)
  BY <1>1, <1>2, <1>3 DEF Others, Rests
<1>5. MemberMoves /\ LedgerMove
  <2>1. commit_index'[i] = commit_index[i] /\ peers'[i] = peers[i] /\ role'[i] # "CANDIDATE"
    BY <1>2, <1>3
  <2>2. QED
    BY <1>2, <1>4, <2>1, RowStays, CalmMove
<1>6. NetMoves
  <2> DEFINE c == FindConflict(log[i], m.prev_log_index, m.prev_log_term)
             r == AppendReply(i, m.term, FALSE, 0, c, Echo(m))
  <2>1. c \in Nat /\ Echo(m) \in {"carrying", "empty", "none"}
    BY <1>1, FindConflictType, EchoType DEF AppendEntries
  <2>2. Respond(i, j, src, <<r>>)
    BY DEF ConflictingAppend
  <2> HIDE DEF c
  <2>3. r \in Answer
    BY <1>1, <2>1, AppendReplyType
  <2>4. r.type = "AppendEntriesReply" /\ r.success = FALSE
    BY DEF AppendReply
  <2> HIDE DEF r
  <2>5. NewAnswer(j, i, r)
    BY <2>4 DEF NewAnswer, IsVoteReply, IsAck
  <2>6. QED
    BY <1>1, <2>2, <2>3, <2>5, AnswerNet
<1>7. QED
  BY <1>2, <1>3, <1>5, <1>6 DEF SafeMove

\* A member is promoted, or ignores the promotion of an earlier term.
LEMMA PromoteTaken ==
  ASSUME Inv, Silent, Files, NEW i \in Member, NEW j \in Member, NEW src \in Source,
         NEW m \in Request, Inbound(i, j, src) # <<>>, m = Head(Inbound(i, j, src)),
         OnPromote(i, j, src, m)
  PROVE  SafeMove
<1>1. /\ NetworkOK /\ ElectionOK /\ term[i] \in Nat /\ m \in Wire(j, i)
      /\ commit_index[i] \in Nat
  BY MemberFacts, HeadOnWire DEF Inv
<1>2. /\ UNCHANGED <<durable, term, role, round, log, commit_index, peers, elected,
                    committed, stopped>>
      /\ m.type = "Promote"
      /\ voting' = [voting EXCEPT ![i] = voting[i] \/ m.term >= term[i]]
      /\ Respond(i, j, src, <<>>)
  BY DEF OnPromote, replication, history
<1>3. Others(i) /\ MemberMove(i)
  <2>1. \A k \in Member \ {i} : voting'[k] = voting[k]
    BY <1>1, <1>2 DEF ElectionOK
  <2>2. Others(i)
    BY <1>2, <2>1 DEF Others
  <2>3. CASE m.term >= term[i]
    <3>1. voting'[i] = TRUE
      <4>1. (voting[i] \/ m.term >= term[i]) = TRUE
        BY <2>3
      <4>2. QED
        BY <1>1, <1>2, <4>1 DEF ElectionOK
    <3>2. QED
      BY <1>1, <1>2, <2>2, <2>3, <3>1 DEF MemberMove, Joins, IsPromote
  <2>4. CASE ~(m.term >= term[i])
    <3>1. voting'[i] = voting[i]
      <4>1. voting[i] \in BOOLEAN
        BY <1>1 DEF ElectionOK
      <4>2. (voting[i] \/ m.term >= term[i]) = voting[i]
        BY <2>4, <4>1
      <4>3. QED
        BY <1>1, <1>2, <4>2 DEF ElectionOK
    <3>2. QED
      BY <1>1, <1>2, <2>2, <3>1 DEF MemberMove, Rests
  <2>5. QED
    BY <2>3, <2>4
<1>4. RoundMove(i)
  BY <1>2, CountsItself DEF RoundMove
<1>5. CommitRule(i) /\ ~Advances(i)
  BY <1>2, CommitStays
<1>6. MemberMoves /\ LedgerMove
  BY <1>2, <1>3, <1>4, <1>5, RowStays, OneMoves, LedgerStays
<1>7. NetMoves
  <2> DEFINE none == <<>>
  <2>1. none \in Seq(Answer) /\ Range(none) = {} /\ Respond(i, j, src, none)
    BY <1>2, EmptyRange
  <2> HIDE DEF none
  <2>2. /\ \A x, y \in Member : Wire(x, y)' \subseteq Wire(x, y)
        /\ \A x, y \in Member : \A s \in Ans(x, y)' :
              s \in Ans(x, y) \/ (x = j /\ y = i /\ s \in Range(none))
        /\ UNCHANGED link /\ Silent'
    BY <1>1, <2>1, RespondNet
  <2>3. WireMove /\ AnsMove
    BY <2>1, <2>2 DEF WireMove, AnsMove
  <2>4. QED
    BY <2>2, <2>3, LinksStay DEF NetMoves
<1>8. Files'
  BY <1>2, FilesKept DEF durable
<1>9. QED
  BY <1>2, <1>6, <1>7, <1>8 DEF SafeMove

\* An append that fits here.
LEMMA AppendTaken ==
  ASSUME Inv, Silent, Files, NEW i \in Member, NEW j \in Member, NEW src \in Source,
         NEW m \in Request, Inbound(i, j, src) # <<>>, m = Head(Inbound(i, j, src)),
         AcceptAppend(i, j, src, m)
  PROVE  SafeMove
<1> DEFINE p == m.prev_log_index
           after == Accepted(i, m)
           r == AppendReply(i, m.term, TRUE, after.match, 0, Echo(m))
<1>1. /\ NetworkOK /\ ReplicationOK /\ TypeOK /\ term[i] \in Nat /\ log[i] \in FullLog
      /\ commit_index[i] \in Nat /\ commit_index[i] <= LastIndex(log[i])
      /\ LastIndex(log[i]) \in Nat /\ m \in Wire(j, i)
      /\ m.term \in Nat /\ m.term >= term[i] /\ m.type = "AppendEntries" /\ m \in AppendEntries
  BY MemberFacts, RequestFields, HeadOnWire DEF Inv, AcceptAppend
<1>2. /\ UNCHANGED <<incarnation, voting, peers, elected, committed, stopped>>
      /\ Follow(i, j, m.term)
      /\ log' = [log EXCEPT ![i] = after.log]
      /\ commit_index' = [commit_index EXCEPT ![i] = after.commit]
      /\ Respond(i, j, src, <<r>>)
      /\ p < commit_index[i] \/ Matches(log[i], p, m.prev_log_term)
  BY DEF AcceptAppend, history
<1>3. /\ role'[i] = "FOLLOWER" /\ term'[i] = m.term /\ voting'[i] = voting[i]
      /\ \A k \in Member \ {i} : /\ role'[k] = role[k] /\ term'[k] = term[k]
                                  /\ round'[k] = round[k] /\ voting'[k] = voting[k]
      /\ Files'
  BY <1>1, <1>2, FollowTaken
<1>4. p \in Nat /\ m.prev_log_term \in Nat /\ m.entries \in Seq(Nat)
  BY <1>1 DEF AppendEntries
<1>5. /\ r \in Answer /\ r.type = "AppendEntriesReply" /\ r.success = TRUE
      /\ r.term = m.term /\ r.match_index = after.match
  <2>1. after.match \in Nat /\ Echo(m) \in {"carrying", "empty", "none"}
    BY <1>1, <1>2, AcceptedType, EchoType
  <2> HIDE DEF after
  <2>2. r \in Answer
    BY <1>1, <2>1, AppendReplyType
  <2>3. QED
    BY <2>2 DEF AppendReply
<1>6. Others(i)
  <2> HIDE DEF after
  <2>1. \A k \in Member \ {i} : log'[k] = log[k] /\ commit_index'[k] = commit_index[k]
    BY <1>1, <1>2 DEF ReplicationOK
  <2>2. QED
    BY <1>2, <1>3, <2>1 DEF Others
<1>7. /\ log'[i] = after.log /\ commit_index'[i] = after.commit
  <2> HIDE DEF after
  <2>1. QED
    BY <1>1, <1>2 DEF ReplicationOK
<1>8. /\ MemberMove(i) /\ CommitRule(i)
      /\ \/ TakesFrom(i, j, m) /\ after.match = p + Len(m.entries)
         \/ log'[i] = log[i] /\ after.match = commit_index[i]
  <2>1. CASE p < commit_index[i]
    <3>1. after = [log |-> log[i], commit |-> commit_index[i], match |-> commit_index[i]]
      BY <2>1 DEF Accepted
    <3>2. /\ log'[i] = log[i] /\ commit_index'[i] = commit_index[i]
          /\ after.match = commit_index[i]
      BY <1>7, <3>1
    <3>3. MemberMove(i)
      BY <1>1, <1>3, <3>2 DEF MemberMove, Rests
    <3>4. QED
      BY <3>2, <3>3, CommitStays
  <2>2. CASE ~(p < commit_index[i])
    <3>1. after = [log |-> AppendReplicated(log[i], p + 1, m.entries),
                   commit |-> Greatest(commit_index[i],
                                       Least(m.leader_commit, p + Len(m.entries))),
                   match |-> p + Len(m.entries)]
      BY <2>2 DEF Accepted
    <3>2. /\ log'[i] = AppendReplicated(log[i], p + 1, m.entries)
          /\ commit_index'[i] = Greatest(commit_index[i],
                                         Least(m.leader_commit, p + Len(m.entries)))
          /\ after.match = p + Len(m.entries)
      BY <1>7, <3>1
    <3>3. /\ p <= LastIndex(log[i])
          /\ p = 0 \/ TermAt(log[i], p) = m.prev_log_term
      BY <1>1, <1>2, <1>4, <2>2 DEF Matches, FullLog
    <3>4. p >= commit_index[i]
      BY <1>1, <1>4, <2>2
    <3>5. TakesFrom(i, j, m)
      BY <1>1, <1>3, <3>2, <3>3, <3>4 DEF TakesFrom, IsAppend
    <3>6. QED
      BY <1>1, <3>2, <3>5 DEF MemberMove, CommitRule
  <2>3. QED
    BY <2>1, <2>2
<1> HIDE DEF r, after
<1>9. MemberMoves
  BY <1>3, <1>6, <1>8, RowStays, OneMoves DEF RoundMove
<1>10. LedgerMove
  BY <1>2, <1>3, <1>6, LedgerStays DEF Advances
<1>11. NetMoves
  <2>1. NewAck(j, i, r)
    BY <1>1, <1>3, <1>5, <1>8 DEF NewAck, IsAck, IsAppend
  <2>2. NewAnswer(j, i, r)
    BY <2>1 DEF NewAnswer
  <2>3. QED
    BY <1>1, <1>2, <1>5, <2>2, AnswerNet
<1>12. QED
  BY <1>2, <1>3, <1>9, <1>10, <1>11 DEF SafeMove

-----------------------------------------------------------------------------
(* Answers that are read, timers, and connections: nothing is sent *)

LEMMA AnswerRead ==
  ASSUME Inv, Silent, Files, NEW i \in Member, NEW j \in Member, rep[i][j] # <<>>,
         NEW m \in Answer,
         \/ OnStaleAnswer(i, j, m)
         \/ OnPreVoteRefused(i, j, m)
         \/ OnLaterTerm(i, j, m)
  PROVE  SafeMove
<1>1. /\ NetworkOK /\ ElectionOK /\ term[i] \in Nat /\ m.term \in Nat
      /\ None \in Member \cup {None}
  BY MemberFacts, AnswerFields DEF Inv
<1>2. /\ TakeAnswer(i, j)
      /\ UNCHANGED <<incarnation, voting, log, commit_index, peers, req, elected, committed, stopped>>
  BY DEF OnStaleAnswer, OnPreVoteRefused, OnLaterTerm, TakeAnswer, replication, history, election
<1>3. \/ UNCHANGED <<disk, term, role, round>>
      \/ /\ UNCHANGED <<disk, term>> /\ round' \in [Member -> Round]
         /\ \A k \in Member \ {i} : role'[k] = role[k] /\ round'[k] = round[k]
         /\ role'[i] # "LEADER" /\ role'[i] # "CANDIDATE"
      \/ /\ m.term > term[i]
         /\ term' = [term EXCEPT ![i] = m.term] /\ role' = [role EXCEPT ![i] = "FOLLOWER"]
         /\ round' = [round EXCEPT ![i] = EmptyRound]
         /\ disk' = [disk EXCEPT ![i] = [term |-> m.term, voted_for |-> None]]
  <2>1. CASE OnStaleAnswer(i, j, m)
    BY <2>1 DEF OnStaleAnswer, election
  <2>2. CASE OnLaterTerm(i, j, m)
    BY <2>2 DEF OnLaterTerm, StepDown, Adopt, TellsOfLaterTerm
  <2>3. CASE OnPreVoteRefused(i, j, m)
    <3>1. role[i] = "PRE_CANDIDATE"
      BY <2>3 DEF OnPreVoteRefused, IsStale
    <3>2. /\ UNCHANGED <<disk, term>>
          /\ \/ role' = [role EXCEPT ![i] = "FOLLOWER"]
             \/ UNCHANGED role
          /\ \E x \in Round : round' = [round EXCEPT ![i] = x]
      <4>1. round[i] \in Round
        BY <1>1 DEF ElectionOK
      <4>2. /\ [round[i] EXCEPT !.pre_votes = {}, !.pre_refusals = {}] \in Round
            /\ [round[i] EXCEPT !.pre_refusals = round[i].pre_refusals \cup {j}] \in Round
        BY <4>1 DEF Round
      <4>3. QED
        BY <2>3, <4>2 DEF OnPreVoteRefused
    <3>3. QED
      BY <1>1, <3>1, <3>2 DEF ElectionOK
  <2>4. QED
    BY <2>1, <2>2, <2>3
<1>4. Others(i) /\ Rests(i) /\ (role'[i] = "CANDIDATE" => round'[i] = round[i])
  BY <1>1, <1>2, <1>3 DEF Others, Rests, ElectionOK
<1>5. MemberMoves /\ LedgerMove
  BY <1>2, <1>4, RowStays, CalmMove
<1>6. NetMoves
  <2>1. /\ AnsMove /\ UNCHANGED <<link, orphan>>
        /\ \A x, y \in Member : link[x][y] = "down" => rep'[x][y] = <<>>
    BY <1>1, <1>2, TakeNet
  <2>2. WireMove
    BY <1>2, <2>1 DEF WireMove, Wire
  <2>3. Silent'
    BY <1>2, <2>1 DEF Silent
  <2>4. QED
    BY <2>1, <2>2, <2>3, LinksStay DEF NetMoves
<1>7. Files'
  BY <1>1, <1>2, <1>3, FilesKept DEF TakeAnswer
<1>8. QED
  BY <1>2, <1>5, <1>6, <1>7 DEF SafeMove, TakeAnswer

LEMMA Quietened ==
  ASSUME Inv, Silent, Files, NEW i \in Member, NEW j \in Member,
         \/ Relinquish(i) \/ PeerGone(i, j) \/ PeerLost(i, j) \/ OrphanEnds(i, j)
         \/ UNCHANGED vars
  PROVE  SafeMove
<1>1. /\ NetworkOK /\ ElectionOK /\ ReplicationOK /\ term[i] \in Nat
      /\ peers[i] \in [Member -> PeerState]
  BY MemberFacts DEF Inv
<1>2. /\ UNCHANGED <<disk, incarnation, term, voting, log, commit_index, elected, committed, stopped>>
  BY DEF Relinquish, PeerGone, PeerLost, OrphanEnds, durable, election, replication, history, vars
<1>3. /\ \/ UNCHANGED <<role, round>>
         \/ role' = [role EXCEPT ![i] = "FOLLOWER"] /\ round' = [round EXCEPT ![i] = EmptyRound]
      /\ \/ UNCHANGED <<peers, link>>
         \/ /\ link[i][j] # "down" /\ DropLink(i, j)
            /\ peers' = [peers EXCEPT ![i][j].catching_up = FALSE]
  BY DEF Relinquish, PeerGone, PeerLost, OrphanEnds, Disconnect, election, replication,
         network, vars
<1>4. Others(i) /\ Rests(i) /\ (role'[i] = "CANDIDATE" => round'[i] = round[i])
  BY <1>1, <1>2, <1>3 DEF Others, Rests, ElectionOK, ReplicationOK
<1>5. ASSUME NEW x \in Member
      PROVE  RowMove(i, x)
  <2>1. CASE peers' = peers
    BY <2>1, RowStays
  <2>2. CASE peers' = [peers EXCEPT ![i][j].catching_up = FALSE]
    <3>1. /\ peers'[i][x].match_index = peers[i][x].match_index
          /\ peers'[i][x].promote_through = peers[i][x].promote_through
          /\ peers'[i][x].catching_up => peers[i][x].catching_up
          /\ peers[i][x].match_index \in Nat
      BY <1>1, <2>2 DEF ReplicationOK, PeerState
    <3>2. QED
      BY <3>1 DEF RowMove
  <2>3. QED
    BY <1>3, <2>1, <2>2
<1>6. MemberMoves /\ LedgerMove
  BY <1>2, <1>4, <1>5, CalmMove
<1>7. WireMove /\ AnsMove /\ Silent'
  <2>1. \/ DropLink(i, j) /\ link[i][j] # "down"
        \/ orphan' = [orphan EXCEPT ![i][j] = <<>>] /\ UNCHANGED <<link, req, rep>>
        \/ UNCHANGED network
    BY DEF Relinquish, PeerGone, PeerLost, OrphanEnds, Disconnect, vars
  <2>2. QED
    BY <1>1, <2>1, EndNet
<1>8. ASSUME NEW x \in Member, NEW y \in Member
      PROVE  LinkMove(x, y)
  <2>1. CASE UNCHANGED link
    BY <2>1, LinksStay
  <2>2. CASE DropLink(i, j) /\ peers' = [peers EXCEPT ![i][j].catching_up = FALSE]
    <3>1. /\ link'[x][y] = link[x][y] \/ (x = i /\ y = j /\ link'[x][y] = "down")
          /\ peers'[i][j].catching_up = FALSE
      BY <1>1, <2>2 DEF DropLink, NetworkOK, ReplicationOK, PeerState
    <3>2. QED
      BY <3>1 DEF LinkMove
  <2>3. QED
    BY <1>3, <2>1, <2>2
<1>9. Files'
  BY <1>2, FilesKept
<1>10. QED
  BY <1>2, <1>6, <1>7, <1>8, <1>9 DEF SafeMove, NetMoves

-----------------------------------------------------------------------------
(* Votes are asked for, and counted *)

\* A round of requests for votes goes out.
LEMMA AskNet ==
  ASSUME Inv, Silent, NEW i \in Member, NEW pre \in BOOLEAN,
         Send(i, ToAll(i, VoteRequest(i, term[i] + 1, pre))), UNCHANGED <<link, orphan, log>>,
         pre \/ (role'[i] = "CANDIDATE" /\ term'[i] = term[i] + 1)
  PROVE  /\ WireMove
         /\ \A x, y \in Member : link[x][y] = "down" => req'[x][y] = <<>>
<1> DEFINE v == VoteRequest(i, term[i] + 1, pre)
           out == ToAll(i, v)
<1>1. NetworkOK /\ term[i] \in Nat /\ Uncompacted
  BY MemberFacts DEF Inv
<1>2. v \in Request
  BY <1>1, VoteRequestType
<1>3. NewRequest(i, i, v)
  BY DEF VoteRequest, NewRequest, NewAsk, IsAsk
<1> HIDE DEF v
<1>4. out \in [Member -> Seq(Request)]
  BY <1>2, ToAllType
<1>5. \A k \in Member : Range(out[k]) \subseteq {v}
  <2>1. \A k \in Member : out[k] \in {<<>>, <<v>>}
    BY DEF ToAll
  <2>2. Range(<<v>>) = {v}
    BY DEF Range
  <2> HIDE DEF out
  <2>3. QED
    BY <2>1, <2>2, EmptyRange
<1>6. Send(i, out)
  BY DEF v
<1> HIDE DEF out
<1>7. /\ \A x, y \in Member : \A m \in Wire(x, y)' :
            \/ m \in Wire(x, y)
            \/ x = i /\ link[i][y] = "up" /\ m \in Range(out[y])
      /\ \A x, y \in Member : link[x][y] = "down" => req'[x][y] = <<>>
  BY <1>1, <1>4, <1>6, SendNet
<1>8. \A y \in Member : NewRequest(i, y, v)
  BY <1>3 DEF NewRequest, VoteRequest, NewAsk, NewAppend, NewPromote, IsAppend, IsPromote, v
<1>9. WireMove
  BY <1>5, <1>7, <1>8 DEF WireMove
<1>10. QED
  BY <1>7, <1>9

LEMMA PreVoteAsked ==
  ASSUME Inv, Silent, Files, NEW i \in Member, PreCampaign(i)
  PROVE  SafeMove
<1>1. NetworkOK /\ ElectionOK /\ term[i] \in Nat
  BY MemberFacts DEF Inv
<1>2. /\ UNCHANGED <<disk, incarnation, term, voting, log, commit_index, peers, link, rep, orphan,
                    elected, committed, stopped>>
      /\ role' = [role EXCEPT ![i] = "PRE_CANDIDATE"]
      /\ \A k \in Member \ {i} : round'[k] = round[k]
      /\ Send(i, ToAll(i, VoteRequest(i, term[i] + 1, TRUE)))
  BY <1>1 DEF PreCampaign, durable, replication, history, ElectionOK
<1>3. Others(i) /\ Rests(i) /\ role'[i] # "CANDIDATE"
  BY <1>1, <1>2 DEF Others, Rests, ElectionOK
<1>4. MemberMoves /\ LedgerMove
  BY <1>2, <1>3, RowStays, CalmMove
<1>5. WireMove /\ \A x, y \in Member : link[x][y] = "down" => req'[x][y] = <<>>
  BY <1>2, AskNet
<1>6. AnsMove
  BY <1>2 DEF AnsMove, Ans
<1>7. Silent'
  BY <1>2, <1>5 DEF Silent
<1>8. Files'
  BY <1>2, FilesKept
<1>9. QED
  BY <1>2, <1>4, <1>5, <1>6, <1>7, <1>8, LinksStay DEF SafeMove, NetMoves

LEMMA PreVoteGranted ==
  ASSUME Inv, Silent, Files, NEW i \in Member, NEW j \in Member, rep[i][j] # <<>>,
         NEW m \in Answer, OnPreVoteGranted(i, j, m)
  PROVE  SafeMove
<1> DEFINE counted == PreVoteCounted(i, j, m)
           opened == [counted EXCEPT !.votes = {i}, !.forgotten = {}]
<1>1. /\ NetworkOK /\ ElectionOK /\ term[i] \in Nat /\ counted \in Round
      /\ i \in Member \cup {None}
  BY MemberFacts, CountedType DEF Inv
<1>2. /\ TakeAnswer(i, j)
      /\ UNCHANGED <<incarnation, voting, log, commit_index, peers, elected, committed, stopped>>
      /\ role[i] = "PRE_CANDIDATE"
      /\ \/ /\ round' = [round EXCEPT ![i] = counted]
            /\ UNCHANGED <<disk, term, role, req>>
         \/ Campaign(i) /\ round' = [round EXCEPT ![i] = opened]
  BY DEF OnPreVoteGranted, TakeAnswer, IsStale, replication
<1>3. opened.votes = {i} /\ opened.forgotten = {} /\ opened \in Round
  BY <1>1 DEF Round
<1> HIDE DEF counted, opened
<1>4. /\ AnsMove /\ UNCHANGED <<link, orphan>>
      /\ \A x, y \in Member : link[x][y] = "down" => rep'[x][y] = <<>>
  BY <1>1, <1>2, TakeNet
<1>5. CASE round' = [round EXCEPT ![i] = counted] /\ UNCHANGED <<disk, term, role, req>>
  <2>1. Others(i) /\ Rests(i) /\ role'[i] # "CANDIDATE"
    BY <1>1, <1>2, <1>5 DEF Others, Rests, ElectionOK
  <2>2. MemberMoves /\ LedgerMove
    BY <1>2, <2>1, RowStays, CalmMove
  <2>3. WireMove
    BY <1>4, <1>5 DEF WireMove, Wire
  <2>4. Silent'
    BY <1>4, <1>5 DEF Silent
  <2>5. Files'
    BY <1>2, <1>5, FilesKept
  <2>6. QED
    BY <1>2, <1>4, <2>2, <2>3, <2>4, <2>5, LinksStay DEF SafeMove, NetMoves
<1>6. CASE Campaign(i) /\ round' = [round EXCEPT ![i] = opened]
  <2>1. /\ role' = [role EXCEPT ![i] = "CANDIDATE"]
        /\ term' = [term EXCEPT ![i] = term[i] + 1]
        /\ disk' = [disk EXCEPT ![i] = [term |-> term[i] + 1, voted_for |-> i]]
        /\ Send(i, ToAll(i, VoteRequest(i, term[i] + 1, FALSE)))
    BY <1>6 DEF Campaign, Candidacy
  <2>2. Others(i) /\ Campaigns(i)
    BY <1>1, <1>2, <1>3, <1>6, <2>1 DEF Others, Campaigns, ElectionOK
  <2>3. MemberMove(i) /\ RoundMove(i) /\ CommitRule(i) /\ ~Advances(i)
    <3>1. CommitRule(i) /\ ~Advances(i)
      BY <1>2, CommitStays
    <3>2. RoundMove(i)
      BY <1>2 DEF RoundMove
    <3>3. QED
      BY <2>2, <3>1, <3>2 DEF MemberMove
  <2>4. MemberMoves /\ LedgerMove
    BY <1>2, <2>2, <2>3, RowStays, OneMoves, LedgerStays
  <2>5. WireMove /\ \A x, y \in Member : link[x][y] = "down" => req'[x][y] = <<>>
    <3>1. role'[i] = "CANDIDATE" /\ term'[i] = term[i] + 1
      BY <2>2 DEF Campaigns
    <3>2. QED
      BY <1>2, <1>4, <2>1, <3>1, AskNet
  <2>6. Silent'
    BY <1>4, <2>5 DEF Silent
  <2>7. Files'
    <3> DEFINE t == term[i] + 1
    <3>1. /\ t \in Nat /\ term' = [term EXCEPT ![i] = t]
          /\ disk' = [disk EXCEPT ![i] = [term |-> t, voted_for |-> i]]
      BY <1>1, <2>1
    <3> HIDE DEF t
    <3>2. QED
      BY <1>1, <1>2, <3>1, FilesKept
  <2>8. QED
    BY <1>2, <1>4, <2>4, <2>5, <2>6, <2>7, LinksStay DEF SafeMove, NetMoves
<1>7. QED
  BY <1>2, <1>5, <1>6

-----------------------------------------------------------------------------
(* The process starts again *)

LEMMA StartedAgain ==
  ASSUME Inv, Silent, Files, NEW i \in Member, Restart(i)
  PROVE  SafeMove
<1>1. /\ NetworkOK /\ ElectionOK /\ ReplicationOK /\ term[i] \in Nat /\ incarnation[i] \in Nat
      /\ disk[i].term = term[i] /\ incarnation[i] >= 1 /\ commit_index[i] \in Nat
  BY MemberFacts DEF Inv, ElectionOK, Files
<1>2. /\ incarnation' = [incarnation EXCEPT ![i] = incarnation[i] + 1]
      /\ term' = [term EXCEPT ![i] = disk[i].term]
      /\ role' = [role EXCEPT ![i] = "FOLLOWER"]
      /\ voting' = [voting EXCEPT ![i] = VotesOnStart(incarnation[i] + 1)]
      /\ round' = [round EXCEPT ![i] = EmptyRound]
      /\ log' = [log EXCEPT ![i] = EmptyLog]
      /\ commit_index' = [commit_index EXCEPT ![i] = 0]
      /\ peers' = [peers EXCEPT ![i] = [j \in Member |-> FreshPeer]]
      /\ stopped' = stopped \ {i}
      /\ ProcessEnds(i)
      /\ UNCHANGED <<disk, elected, committed>>
  BY DEF Restart, history
<1>3. VotesOnStart(incarnation[i] + 1) = FALSE
  BY <1>1 DEF VotesOnStart
<1>4. ASSUME NEW x \in Member
      PROVE  req'[x][i] = <<>> /\ orphan'[x][i] = <<>> /\ link'[x][i] # "up"
  <2>1. <<>> \o <<>> = <<>>
    OBVIOUS
  <2>2. req[i][i] = <<>> /\ orphan[i][i] = <<>>
    BY DEF Silent
  <2>3. QED
    BY <1>1, <1>2, <2>1, <2>2 DEF ProcessEnds, NetworkOK
<1>5. Forgets(i)
  <2>1. \A x \in Member : Wire(x, i)' = {} /\ link'[x][i] # "up"
    BY <1>4, EmptyRange DEF Wire
  <2>2. /\ log'[i] = EmptyLog /\ voting'[i] = FALSE /\ term'[i] = term[i]
        /\ role'[i] = "FOLLOWER" /\ commit_index'[i] = 0
    BY <1>1, <1>2, <1>3 DEF ElectionOK, ReplicationOK
  <2>3. QED
    BY <1>1, <2>1, <2>2 DEF Forgets
<1>6. Others(i)
  BY <1>1, <1>2 DEF Others, ElectionOK, ReplicationOK
<1>7. MemberMove(i) /\ RoundMove(i) /\ CommitRule(i) /\ ~Advances(i)
  BY <1>5 DEF MemberMove, RoundMove, CommitRule, Advances, Forgets
<1>8. MemberMoves /\ LedgerMove
  <2>1. role'[i] # "LEADER"
    BY <1>5 DEF Forgets
  <2>2. QED
    BY <1>2, <1>6, <1>7, <2>1, RowStays, OneMoves, LedgerStays
<1>9. WireMove /\ AnsMove /\ Silent'
  BY <1>1, <1>2, EndNet
<1>10. ASSUME NEW x \in Member, NEW y \in Member
       PROVE  LinkMove(x, y)
  <2>1. \/ x = i /\ link'[x][y] = "down"
        \/ link'[x][y] = "broken" \/ link'[x][y] = link[x][y]
    BY <1>1, <1>2 DEF ProcessEnds, NetworkOK
  <2>2. peers'[i][y].catching_up = FALSE
    BY <1>1, <1>2 DEF ReplicationOK, FreshPeer
  <2>3. QED
    BY <2>1, <2>2 DEF LinkMove
<1>11. Files'
  <2>1. ASSUME NEW k \in Member
        PROVE  disk'[k].term = term'[k] /\ incarnation'[k] >= 1
    BY <1>1, <1>2 DEF Files, ElectionOK
  <2>2. QED
    BY <2>1 DEF Files
<1>12. QED
  BY <1>2, <1>8, <1>9, <1>10, <1>11 DEF SafeMove, NetMoves

-----------------------------------------------------------------------------
(* What a leader sends *)

LEMMA SendMoves ==
  ASSUME NetworkOK, Silent, NEW i \in Member, NEW out \in [Member -> Seq(Request)],
         Send(i, out), UNCHANGED <<link, orphan>>,
         \A y \in Member : \A m \in Range(out[y]) : link[i][y] = "up" => NewRequest(i, y, m)
  PROVE  /\ WireMove
         /\ \A x, y \in Member : link[x][y] = "down" => req'[x][y] = <<>>
<1>1. /\ \A x, y \in Member : \A m \in Wire(x, y)' :
            \/ m \in Wire(x, y)
            \/ x = i /\ link[i][y] = "up" /\ m \in Range(out[y])
      /\ \A x, y \in Member : link[x][y] = "down" => req'[x][y] = <<>>
  BY SendNet
<1>2. QED
  BY <1>1 DEF WireMove

LEMMA AppendsNew ==
  ASSUME TypeOK, NEW i \in Member, NEW t \in Nat, NEW l \in FullLog, NEW c \in Nat,
         NEW row, RowOK(l, row), NEW J, NEW late,
         NEW j \in Member, NEW m \in Range(Appends(i, t, l, c, row, J, late)[j])
  PROVE  /\ IsAppend(m) /\ m.term = t /\ m.leader_commit = c
         /\ Part(AppendSpan(m), LogSpan(l))
<1> DEFINE a(b) == AppendFor(t, l, c, row[j], b)
<1>1. \A b : IsAppend(a(b)) /\ a(b).term = t /\ a(b).leader_commit = c
  BY DEF AppendFor, IsAppend
<1>2. Appends(i, t, l, c, row, J, late)[j] \in {<<a(j \in late)>>, <<>>}
  BY DEF Appends
<1> HIDE DEF a
<1>3. m = a(j \in late)
  <2>1. Range(<<a(j \in late)>>) = {a(j \in late)}
    BY DEF Range
  <2>2. QED
    BY <1>2, <2>1, EmptyRange
<1>4. QED
  BY <1>1, <1>3, AppendsAreParts

LEMMA AppendsNet ==
  ASSUME Inv, Silent, NEW i \in Member, NEW l \in FullLog, NEW c \in Nat,
         NEW row, RowOK(l, row), NEW J, NEW late,
         Send(i, Appends(i, term[i], l, c, row, J, late)), UNCHANGED <<link, orphan>>,
         role'[i] = "LEADER", term'[i] = term[i], log'[i] = l, commit_index'[i] = c
  PROVE  /\ WireMove
         /\ \A x, y \in Member : link[x][y] = "down" => req'[x][y] = <<>>
<1> DEFINE out == Appends(i, term[i], l, c, row, J, late)
<1>1. NetworkOK /\ TypeOK /\ term[i] \in Nat
  BY MemberFacts DEF Inv
<1>2. out \in [Member -> Seq(Request)]
  BY <1>1, ReplicateType
<1>3. \A y \in Member : \A m \in Range(out[y]) : NewAppend(i, m)
  BY <1>1, AppendsNew DEF NewAppend
<1> HIDE DEF out
<1>4. Send(i, out)
  BY DEF out
<1>5. \A y \in Member : \A m \in Range(out[y]) : NewRequest(i, y, m)
  BY <1>3 DEF NewRequest
<1>6. QED
  BY <1>1, <1>2, <1>4, <1>5, SendMoves

\* A round of replication leaves what was acknowledged, and who is catching up.
LEMMA AppendedRowKeeps ==
  ASSUME NEW i \in Member, NEW t, NEW l \in FullLog, NEW c, NEW row, RowOK(l, row),
         NEW J, NEW late, NEW read, NEW j \in Member, NEW new,
         new = AppendedRow(i, t, l, c, row, J, late, read)[j]
  PROVE  /\ new.match_index = row[j].match_index
         /\ new.catching_up = row[j].catching_up
         /\ new.promote_through = row[j].promote_through
<1>1. row[j] \in PeerState
  BY DEF RowOK
<1>2. \A b, n : /\ AfterAppend(l, c, row[j], b, n).match_index = row[j].match_index
                /\ AfterAppend(l, c, row[j], b, n).catching_up = row[j].catching_up
                /\ AfterAppend(l, c, row[j], b, n).promote_through = row[j].promote_through
  BY <1>1 DEF AfterAppend, PeerState
<1>3. new = row[j] \/ \E b, n : new = AfterAppend(l, c, row[j], b, n)
  BY DEF AppendedRow
<1>4. QED
  BY <1>2, <1>3

\* _tick of a leader.
LEMMA Ticked ==
  ASSUME Inv, Silent, Files, NEW i \in Member, LeaderTick(i)
  PROVE  SafeMove
<1>1. /\ role[i] = "LEADER" /\ log[i] \in FullLog /\ commit_index[i] \in Nat /\ RowOK(log[i], peers[i])
      /\ ReplicationOK /\ term[i] \in Nat
  BY MemberFacts, LeaderRow DEF Inv, LeaderTick
<1>2. /\ UNCHANGED <<disk, incarnation, term, voting, role, round, log, commit_index, link, rep,
                    orphan, elected, committed, stopped>>
      /\ \E late :
            /\ peers' = [peers EXCEPT ![i] =
                  AppendedRow(i, term[i], log[i], commit_index[i], peers[i],
                              Targets(i), late, None)]
            /\ Send(i, Appends(i, term[i], log[i], commit_index[i], peers[i],
                               Targets(i), late))
  BY DEF LeaderTick, durable, election, history
<1>3. PICK late :
         /\ peers' = [peers EXCEPT ![i] =
               AppendedRow(i, term[i], log[i], commit_index[i], peers[i],
                           Targets(i), late, None)]
         /\ Send(i, Appends(i, term[i], log[i], commit_index[i], peers[i],
                            Targets(i), late))
  BY <1>2
<1>4. Others(i) /\ Rests(i)
  BY <1>1, <1>2, <1>3 DEF Others, Rests, ReplicationOK
<1>5. ASSUME NEW j \in Member
      PROVE  RowMove(i, j)
  <2>1. peers'[i] = AppendedRow(i, term[i], log[i], commit_index[i], peers[i],
                                Targets(i), late, None)
    BY <1>1, <1>3 DEF ReplicationOK
  <2>2. /\ peers'[i][j].match_index = peers[i][j].match_index
        /\ peers'[i][j].catching_up = peers[i][j].catching_up
        /\ peers'[i][j].promote_through = peers[i][j].promote_through
    BY <1>1, <2>1, AppendedRowKeeps
  <2>3. peers[i][j].match_index \in Nat
    BY <1>1 DEF RowOK, PeerState
  <2>4. QED
    BY <2>2, <2>3 DEF RowMove
<1>6. MemberMoves /\ LedgerMove
  BY <1>2, <1>4, <1>5, CalmMove
<1>7. WireMove /\ \A x, y \in Member : link[x][y] = "down" => req'[x][y] = <<>>
  <2>1. /\ UNCHANGED <<link, orphan>> /\ role'[i] = "LEADER" /\ term'[i] = term[i]
        /\ log'[i] = log[i] /\ commit_index'[i] = commit_index[i]
    BY <1>1, <1>2
  <2>2. QED
    BY <1>1, <1>3, <2>1, AppendsNet
<1>8. AnsMove
  BY <1>2 DEF AnsMove, Ans
<1>9. Silent'
  BY <1>2, <1>7 DEF Silent
<1>10. Files'
  BY <1>2, FilesKept
<1>11. QED
  BY <1>2, <1>6, <1>7, <1>8, <1>9, <1>10, LinksStay DEF SafeMove, NetMoves

\* A log with one more entry says all it said.
LEMMA LongerSays ==
  ASSUME NEW l \in FullLog, NEW t \in Nat, NEW a, a = AppendLocal(l, t)
  PROVE  /\ a \in FullLog /\ LastIndex(a) = LastIndex(l) + 1
         /\ \A x \in 0 .. LastIndex(l) : TermAt(a, x) = TermAt(l, x)
         /\ TermAt(a, LastIndex(l) + 1) = t
<1>1. a \in FullLog /\ LastIndex(a) = LastIndex(l) + 1 /\ LastIndex(l) \in Nat
  BY AppendLocalType, LastType
<1>2. /\ \A n \in 0 .. LastIndex(l) : LogSpan(a)[n] = LogSpan(l)[n]
      /\ LogSpan(a)[LastIndex(l) + 1] = t
  BY AppendLocalSpan
<1>3. \A x \in 0 .. LastIndex(a) : LogSpan(a)[x] = TermAt(a, x)
  BY <1>1, LogSpanIs
<1>4. \A x \in 0 .. LastIndex(l) : LogSpan(l)[x] = TermAt(l, x)
  BY <1>1, LogSpanIs
<1>5. LastIndex(l) + 1 \in 0 .. LastIndex(a) /\ 0 .. LastIndex(l) \subseteq 0 .. LastIndex(a)
  BY <1>1
<1>6. QED
  BY <1>1, <1>2, <1>3, <1>4, <1>5

\* What is committed lies below an entry that is appended.
LEMMA CommitBelow ==
  ASSUME Inv, NEW i \in Member, log'[i] = AppendLocal(log[i], term[i]),
         commit_index'[i] = commit_index[i]
  PROVE  CommitRule(i) /\ ~Advances(i)
<1>1. /\ term[i] \in Nat /\ log[i] \in FullLog /\ LastIndex(log[i]) \in Nat
      /\ commit_index[i] \in Nat /\ commit_index[i] <= LastIndex(log[i])
  BY MemberFacts
<1>2. /\ LastIndex(log'[i]) = LastIndex(log[i]) + 1
      /\ \A x \in 0 .. LastIndex(log[i]) : TermAt(log'[i], x) = TermAt(log[i], x)
  BY <1>1, LongerSays
<1>3. /\ commit_index[i] <= LastIndex(log'[i])
      /\ 0 .. commit_index[i] \subseteq 0 .. LastIndex(log[i])
  BY <1>1, <1>2
<1>4. \A x \in 0 .. commit_index[i] : TermAt(log'[i], x) = TermAt(log[i], x)
  BY <1>2, <1>3
<1>5. ~(commit_index'[i] > commit_index[i])
  BY <1>1
<1>6. QED
  BY <1>3, <1>4, <1>5 DEF CommitRule, Advances

LEMMA Proposed ==
  ASSUME Inv, Silent, Files, NEW i \in Member, Propose(i)
  PROVE  SafeMove
<1> DEFINE a == AppendLocal(log[i], term[i])
<1>1. /\ role[i] = "LEADER" /\ log[i] \in FullLog /\ commit_index[i] \in Nat
      /\ RowOK(log[i], peers[i]) /\ ReplicationOK /\ term[i] \in Nat
  BY MemberFacts, LeaderRow DEF Inv, Propose
<1>2. /\ UNCHANGED <<disk, incarnation, term, voting, role, round, commit_index, link, rep,
                    orphan, elected, committed, stopped>>
      /\ log' = [log EXCEPT ![i] = a]
      /\ \E late :
            /\ peers' = [peers EXCEPT ![i] =
                  AppendedRow(i, term[i], a, commit_index[i], peers[i],
                              Targets(i), late, None)]
            /\ Send(i, Appends(i, term[i], a, commit_index[i], peers[i],
                               Targets(i), late))
  BY DEF Propose, durable, election, history
<1>3. a = AppendLocal(log[i], term[i])
  OBVIOUS
<1> HIDE DEF a
<1>4. PICK late :
         /\ peers' = [peers EXCEPT ![i] =
               AppendedRow(i, term[i], a, commit_index[i], peers[i],
                           Targets(i), late, None)]
         /\ Send(i, Appends(i, term[i], a, commit_index[i], peers[i],
                            Targets(i), late))
  BY <1>2
<1>5. /\ a \in FullLog /\ log'[i] = a /\ RowOK(a, peers[i])
  <2>1. a \in FullLog /\ LastIndex(a) = LastIndex(log[i]) + 1 /\ LastIndex(log[i]) \in Nat
    BY <1>1, <1>3, LongerSays, LastType
  <2>2. ASSUME NEW j \in Member
        PROVE  peers[i][j].next_index <= LastIndex(a) + 1
    <3>1. peers[i][j].next_index \in Nat /\ peers[i][j].next_index <= LastIndex(log[i]) + 1
      BY <1>1 DEF RowOK, PeerState
    <3>2. QED
      BY <2>1, <3>1
  <2>3. QED
    BY <1>1, <1>2, <2>1, <2>2 DEF RowOK, ReplicationOK
<1>6. Others(i) /\ Adds(i)
  BY <1>1, <1>2, <1>3, <1>4, <1>5 DEF Others, Adds, ReplicationOK
<1>7. ASSUME NEW j \in Member
      PROVE  RowMove(i, j)
  <2>1. peers'[i] = AppendedRow(i, term[i], a, commit_index[i], peers[i],
                                Targets(i), late, None)
    BY <1>1, <1>4 DEF ReplicationOK
  <2>2. /\ peers'[i][j].match_index = peers[i][j].match_index
        /\ peers'[i][j].catching_up = peers[i][j].catching_up
        /\ peers'[i][j].promote_through = peers[i][j].promote_through
    BY <1>5, <2>1, AppendedRowKeeps
  <2>3. peers[i][j].match_index \in Nat
    BY <1>1 DEF RowOK, PeerState
  <2>4. QED
    BY <2>2, <2>3 DEF RowMove
<1>8. MemberMoves /\ LedgerMove
  <2>1. CommitRule(i) /\ ~Advances(i)
    BY <1>2, <1>3, <1>5, CommitBelow
  <2>2. RoundMove(i)
    BY <1>1 DEF RoundMove
  <2>3. MemberMove(i)
    BY <1>6 DEF MemberMove
  <2>4. QED
    BY <1>2, <1>6, <1>7, <2>1, <2>2, <2>3, OneMoves, LedgerStays
<1>9. WireMove /\ \A x, y \in Member : link[x][y] = "down" => req'[x][y] = <<>>
  <2>1. /\ UNCHANGED <<link, orphan>> /\ role'[i] = "LEADER" /\ term'[i] = term[i]
        /\ commit_index'[i] = commit_index[i]
    BY <1>1, <1>2
  <2>2. QED
    BY <1>1, <1>4, <1>5, <2>1, AppendsNet
<1>10. AnsMove
  BY <1>2 DEF AnsMove, Ans
<1>11. Silent'
  BY <1>2, <1>9 DEF Silent
<1>12. Files'
  BY <1>2, FilesKept
<1>13. QED
  BY <1>2, <1>8, <1>9, <1>10, <1>11, <1>12, LinksStay DEF SafeMove, NetMoves

-----------------------------------------------------------------------------
(* A vote is counted *)

LEMMA VoteCounts ==
  ASSUME Inv, Silent, NEW i \in Member, NEW j \in Member, rep[i][j] # <<>>,
         NEW m \in Answer, m = Head(rep[i][j]), OnRequestVoteReply(i, j, m)
  PROVE  Counts(i, VoteCounted(i, j, m).votes, VoteCounted(i, j, m).forgotten)
<1> DEFINE counted == VoteCounted(i, j, m)
<1>1. NetworkOK /\ round[i] \in Round
  BY MemberFacts DEF Inv
<1>2. m \in Ans(i, j) /\ IsVoteReply(m) /\ m.term = term[i] /\ m \in RequestVoteReply
  <2>1. m \in Ans(i, j)
    BY <1>1, HeadAnswered
  <2>2. m.type = "RequestVoteReply" /\ ~m.pre_vote /\ ~IsStale(i, m)
    BY DEF OnRequestVoteReply
  <2>3. m \in RequestVoteReply
    BY <2>2, AnswerFields
  <2>4. m.term = term[i]
    BY <2>2, <2>3 DEF IsStale, RequestVoteReply
  <2>5. QED
    BY <2>1, <2>2, <2>3, <2>4 DEF IsVoteReply
<1>3. /\ counted.votes = IF m.granted THEN round[i].votes \cup {j} ELSE round[i].votes
      /\ counted.forgotten = IF m.voting THEN round[i].forgotten
                                         ELSE round[i].forgotten \cup {j}
      /\ m.voting \in BOOLEAN /\ m.granted \in BOOLEAN
  BY <1>1, <1>2 DEF VoteCounted, Round, RequestVoteReply
<1> HIDE DEF counted
<1>4. ASSUME NEW v \in counted.votes \ counted.forgotten
      PROVE  \/ v \in round[i].votes \ round[i].forgotten
             \/ \E r \in Ans(i, v) : /\ IsVoteReply(r) /\ r.term = term[i]
                                     /\ r.granted /\ r.voting
  <2>1. CASE v \in round[i].votes
    BY <1>3, <1>4, <2>1
  <2>2. CASE v \notin round[i].votes
    <3>1. v = j /\ m.granted /\ m.voting
      BY <1>3, <1>4, <2>2
    <3>2. QED
      BY <1>2, <3>1
  <2>3. QED
    BY <2>1, <2>2
<1>5. ASSUME NEW v \in counted.forgotten
      PROVE  \/ v \in round[i].forgotten
             \/ \E r \in Ans(i, v) : IsVoteReply(r) /\ r.term = term[i] /\ ~r.voting
  <2>1. CASE v \in round[i].forgotten
    BY <2>1
  <2>2. CASE v \notin round[i].forgotten
    <3>1. v = j /\ ~m.voting
      BY <1>3, <1>5, <2>2
    <3>2. QED
      BY <1>2, <3>1
  <2>3. QED
    BY <2>1, <2>2
<1>6. Counts(i, counted.votes, counted.forgotten)
  BY <1>4, <1>5 DEF Counts
<1>7. QED
  BY <1>6 DEF counted

LEMMA LeaderMade ==
  ASSUME Inv, Silent, Files, NEW i \in Member, NEW j \in Member, rep[i][j] # <<>>,
         NEW m \in Answer, m = Head(rep[i][j]), OnRequestVoteReply(i, j, m),
         BecomeLeader(i),
         Won(i, VoteCounted(i, j, m).votes, VoteCounted(i, j, m).forgotten)
  PROVE  SafeMove
<1> DEFINE a == AppendLocal(log[i], term[i])
           row == [k \in Member |-> [FreshPeer EXCEPT !.next_index = LastIndex(log[i]) + 1]]
           counted == VoteCounted(i, j, m)
<1>1. /\ NetworkOK /\ ElectionOK /\ ReplicationOK /\ log[i] \in FullLog /\ commit_index[i] \in Nat
      /\ term[i] \in Nat /\ counted \in Round
  BY MemberFacts, CountedType DEF Inv
<1>2. /\ TakeAnswer(i, j) /\ role[i] = "CANDIDATE"
      /\ UNCHANGED <<disk, incarnation, term, commit_index, committed, stopped>>
      /\ round' = [round EXCEPT ![i] = counted]
  <2>1. m.type = "RequestVoteReply" /\ ~m.pre_vote /\ ~IsStale(i, m)
    BY DEF OnRequestVoteReply
  <2>2. m \in RequestVoteReply
    BY <2>1, AnswerFields
  <2>3. role[i] = "CANDIDATE"
    BY <2>1, <2>2 DEF IsStale, RequestVoteReply
  <2>4. QED
    BY <2>3 DEF OnRequestVoteReply, TakeAnswer
<1>3. /\ role' = [role EXCEPT ![i] = "LEADER"]
      /\ voting' = [voting EXCEPT ![i] = TRUE]
      /\ log' = [log EXCEPT ![i] = a]
      /\ peers' = [peers EXCEPT ![i] =
                      AppendedRow(i, term[i], a, commit_index[i], row, Targets(i), {}, None)]
      /\ Send(i, Appends(i, term[i], a, commit_index[i], row, Targets(i), {}))
      /\ elected' = elected \cup {<<term[i], i>>}
  BY DEF BecomeLeader
<1>4. /\ AnsMove /\ UNCHANGED <<link, orphan>>
      /\ \A x, y \in Member : link[x][y] = "down" => rep'[x][y] = <<>>
  BY <1>1, <1>2, TakeNet
<1>5. a \in FullLog /\ RowOK(a, row) /\ a = AppendLocal(log[i], term[i])
  BY <1>1, LongerSays, FreshRow
<1>6. \A k \in Member : row[k].match_index = 0 /\ row[k].catching_up = FALSE
  BY DEF FreshPeer
<1>7. Counts(i, counted.votes, counted.forgotten) /\ Won(i, counted.votes, counted.forgotten)
      /\ counted.votes \in SUBSET Member /\ counted.forgotten \in SUBSET Member
  BY <1>1, VoteCounts DEF Round
<1> HIDE DEF a, row, counted
<1>8. /\ log'[i] = a /\ role'[i] = "LEADER" /\ term'[i] = term[i] /\ voting'[i] = TRUE
      /\ commit_index'[i] = commit_index[i]
      /\ peers'[i] = AppendedRow(i, term[i], a, commit_index[i], row, Targets(i), {}, None)
  BY <1>1, <1>2, <1>3 DEF ElectionOK, ReplicationOK
<1>9. Wins(i)
  <2>1. \A k \in Member : peers'[i][k].match_index = 0 /\ ~peers'[i][k].catching_up
    BY <1>5, <1>6, <1>8, AppendedRowKeeps
  <2>2. <<term[i], i>> \in elected'
    BY <1>3
  <2>3. QED
    BY <1>2, <1>5, <1>7, <1>8, <2>1, <2>2 DEF Wins
<1>10. Others(i)
  BY <1>1, <1>2, <1>3 DEF Others, ElectionOK, ReplicationOK
<1>11. MemberMoves /\ LedgerMove
  <2>1. CommitRule(i) /\ ~Advances(i)
    BY <1>5, <1>8, CommitBelow
  <2>2. MemberMove(i) /\ RoundMove(i)
    BY <1>8, <1>9 DEF MemberMove, RoundMove
  <2>3. \A k \in Member : RowMove(i, k)
    BY <1>2, RowStays
  <2>4. MemberMoves
    BY <1>10, <2>1, <2>2, <2>3, OneMoves
  <2>5. \A k \in Member : ~Advances(k)
    BY <1>10, <2>1, OthersMove
  <2>6. LedgerMove
    BY <1>2, <1>3, <1>9, <2>5 DEF LedgerMove
  <2>7. QED
    BY <2>4, <2>6
<1>12. WireMove /\ \A x, y \in Member : link[x][y] = "down" => req'[x][y] = <<>>
  BY <1>1, <1>3, <1>4, <1>5, <1>8, AppendsNet
<1>13. Silent'
  BY <1>4, <1>12 DEF Silent
<1>14. Files'
  BY <1>2, FilesKept
<1>15. QED
  BY <1>2, <1>4, <1>11, <1>12, <1>13, <1>14, LinksStay DEF SafeMove, NetMoves

LEMMA VoteHeard ==
  ASSUME Inv, Silent, Files, NEW i \in Member, NEW j \in Member, rep[i][j] # <<>>,
         NEW m \in Answer, m = Head(rep[i][j]), OnRequestVoteReply(i, j, m)
  PROVE  SafeMove
<1> DEFINE counted == VoteCounted(i, j, m)
<1>1. CASE Won(i, counted.votes, counted.forgotten)
  BY <1>1, LeaderMade DEF OnRequestVoteReply
<1>2. CASE ~Won(i, counted.votes, counted.forgotten)
  <2>1. /\ NetworkOK /\ ElectionOK /\ term[i] \in Nat /\ counted \in Round
    BY MemberFacts, CountedType DEF Inv
  <2>2. /\ TakeAnswer(i, j)
        /\ UNCHANGED <<disk, incarnation, term, role, voting, log, commit_index, peers, req,
                       elected, committed, stopped>>
        /\ round' = [round EXCEPT ![i] = counted]
    BY <1>2 DEF OnRequestVoteReply, TakeAnswer
  <2>3. Counts(i, counted.votes, counted.forgotten)
    BY VoteCounts
  <2> HIDE DEF counted
  <2>4. /\ AnsMove /\ UNCHANGED <<link, orphan>>
        /\ \A x, y \in Member : link[x][y] = "down" => rep'[x][y] = <<>>
    BY <2>1, <2>2, TakeNet
  <2>5. Others(i) /\ Rests(i) /\ round'[i] = counted
    BY <2>1, <2>2 DEF Others, Rests, ElectionOK
  <2>6. MemberMoves /\ LedgerMove
    <3>1. CommitRule(i) /\ ~Advances(i)
      BY <2>2, CommitStays
    <3>2. MemberMove(i) /\ RoundMove(i)
      BY <2>3, <2>5 DEF MemberMove, RoundMove
    <3>3. QED
      BY <2>2, <2>5, <3>1, <3>2, RowStays, OneMoves, LedgerStays
  <2>7. WireMove
    BY <2>2, <2>4 DEF WireMove, Wire
  <2>8. Silent'
    BY <2>2, <2>4 DEF Silent
  <2>9. Files'
    BY <2>2, FilesKept
  <2>10. QED
    BY <2>2, <2>4, <2>6, <2>7, <2>8, <2>9, LinksStay DEF SafeMove, NetMoves
<1>3. QED
  BY <1>1, <1>2

-----------------------------------------------------------------------------
(* A leader hears of an append *)

\* What an answer tells of its sender (Heard).
LEMMA HeardIs ==
  ASSUME Inv, NEW i \in Member, NEW j \in Member, NEW m \in AppendEntriesReply,
         NEW s, s = Heard(i, j, m)
  PROVE  /\ s \in PeerState
         /\ s.match_index = peers[i][j].match_index
         /\ s.catching_up = m.catching_up
         /\ s.promote_through = IF m.catching_up /\ ~peers[i][j].catching_up
                                THEN LastIndex(log[i]) ELSE peers[i][j].promote_through
<1>1. s \in PeerState
  BY HeardType
<1>2. peers[i][j] \in PeerState
  BY MemberFacts
<1>3. QED
  BY <1>1, <1>2 DEF Heard, PeerState

\* What a success tells of its sender (Acknowledged).
LEMMA AcknowledgedIs ==
  ASSUME Inv, NEW i \in Member, NEW j \in Member, NEW m \in AppendEntriesReply,
         NEW s, s = Acknowledged(i, j, m)
  PROVE  /\ peers[i][j].match_index \in Nat /\ s.match_index \in Nat
         /\ \/ s.match_index = peers[i][j].match_index
            \/ s.match_index <= m.match_index
         /\ s.promote_through = IF m.catching_up /\ ~peers[i][j].catching_up
                                THEN LastIndex(log[i]) ELSE peers[i][j].promote_through
         /\ s.catching_up = (m.catching_up /\ s.match_index < s.promote_through)
<1> DEFINE h == Heard(i, j, m)
           match == Greatest(h.match_index, Least(m.match_index, LastIndex(log[i])))
           next == Greatest(h.next_index, match + 1)
           up == h.catching_up /\ match < h.promote_through
<1>1. /\ h \in PeerState /\ h.match_index = peers[i][j].match_index
      /\ h.catching_up = m.catching_up
      /\ h.promote_through = IF m.catching_up /\ ~peers[i][j].catching_up
                             THEN LastIndex(log[i]) ELSE peers[i][j].promote_through
  BY HeardIs
<1>2. s = [h EXCEPT !.match_index = match, !.next_index = next, !.catching_up = up]
  BY DEF Acknowledged
<1>3. LastIndex(log[i]) \in Nat /\ m.match_index \in Nat
  BY MemberFacts DEF AppendEntriesReply
<1> HIDE DEF h
<1>4. h.match_index \in Nat
  BY <1>1 DEF PeerState
<1>5. match \in Nat /\ (match = h.match_index \/ match <= m.match_index)
  BY <1>3, <1>4 DEF Greatest, Least
<1> HIDE DEF match, next
<1>6. s.match_index = match /\ s.promote_through = h.promote_through /\ s.catching_up = up
  BY <1>1, <1>2 DEF PeerState
<1>7. QED
  BY <1>1, <1>4, <1>5, <1>6

\* Who is catching up, after any answer, and how much a success credits.
LEMMA HeardRowMoves ==
  ASSUME Inv, Silent, NEW i \in Member, NEW j \in Member, rep[i][j] # <<>>,
         NEW m \in AppendEntriesReply, m = Head(rep[i][j]), m.term = term[i],
         NEW s \in PeerState,
         \/ s.match_index = peers[i][j].match_index
         \/ s.match_index <= m.match_index /\ m.success,
         s.catching_up => m.catching_up,
         s.promote_through = IF m.catching_up /\ ~peers[i][j].catching_up
                             THEN LastIndex(log[i]) ELSE peers[i][j].promote_through,
         NEW x \in Member, NEW old, old = IF x = j THEN s ELSE peers[i][x],
         peers'[i][x].match_index = old.match_index,
         peers'[i][x].catching_up = old.catching_up,
         peers'[i][x].promote_through = old.promote_through
  PROVE  RowMove(i, x)
<1>1. NetworkOK /\ peers[i] \in [Member -> PeerState]
  BY MemberFacts DEF Inv
<1>2. m \in Ans(i, j) /\ link[i][j] # "down"
  BY <1>1, HeadAnswered
<1>3. m.type = "AppendEntriesReply"
  BY DEF AppendEntriesReply
<1>4. peers[i][x].match_index \in Nat
  BY <1>1 DEF PeerState
<1>5. CASE x # j
  <2>1. old = peers[i][x]
    BY <1>5
  <2>2. QED
    BY <1>4, <2>1 DEF RowMove
<1>6. CASE x = j
  <2>1. old = s
    BY <1>6
  <2>2. \/ peers'[i][x].match_index <= peers[i][x].match_index
        \/ \E r \in Ans(i, x) : /\ IsAck(r) /\ r.term = term[i]
                                /\ peers'[i][x].match_index <= r.match_index
    BY <1>2, <1>3, <1>4, <1>6, <2>1 DEF IsAck
  <2>3. peers'[i][x].catching_up =>
           \/ /\ peers[i][x].catching_up
              /\ peers'[i][x].promote_through = peers[i][x].promote_through
           \/ peers'[i][x].promote_through = LastIndex(log[i]) /\ link[i][x] # "down"
    BY <1>2, <1>6, <2>1
  <2>4. QED
    BY <2>2, <2>3 DEF RowMove
<1>7. QED
  BY <1>5, <1>6

\* What a leader commits is of its term, and a quorum is counted for it.
LEMMA CountedQuorum ==
  ASSUME Inv, NEW i \in Member, NEW row, RowOK(log[i], row),
         NEW c, c = CommitAfter(i, row), c # commit_index[i],
         NEW S \in SUBSET Member, i \in S,
         \A j \in Member \ {i} : row[j].match_index >= c => j \in S
  PROVE  /\ c > commit_index[i] /\ TermAt(log[i], c) = term[i]
         /\ Cardinality(S) >= Quorum
<1> DEFINE held(n) == {j \in Counted(i, row) : row[j].match_index >= n}
           reached == {n \in {row[j].match_index : j \in Counted(i, row)} :
                           Cardinality(held(n)) >= Quorum - 1}
<1>1. /\ c = QuorumIndex(i, row) /\ c > commit_index[i] /\ TermAt(log[i], c) = term[i]
  BY DEF CommitAfter
<1>2. QuorumIndex(i, row) = IF reached = {} THEN 0 ELSE Max(reached)
  BY DEF QuorumIndex
<1>3. \A j \in Counted(i, row) : /\ row[j].match_index \in Nat
                                 /\ row[j].match_index <= LastIndex(log[i])
  <2>1. LastIndex(log[i]) \in Nat
    BY MemberFacts
  <2>2. TAKE j \in Counted(i, row)
  <2>3. j \in Member
    BY DEF Counted, Peers
  <2>4. row[j] \in PeerState /\ row[j].match_index < row[j].next_index
        /\ row[j].next_index <= LastIndex(log[i]) + 1
    BY <2>3 DEF RowOK
  <2>5. QED
    BY <2>1, <2>4 DEF PeerState
<1>4. reached \in SUBSET Nat /\ \A n \in reached : n <= LastIndex(log[i])
  BY <1>3
<1>5. c \in reached
  <2>1. commit_index[i] \in Nat /\ LastIndex(log[i]) \in Nat
    BY MemberFacts
  <2> HIDE DEF reached
  <2>2. reached # {}
    BY <1>1, <1>2, <2>1
  <2>3. QED
    BY <1>1, <1>2, <1>4, <2>1, <2>2, MaxOfNats
<1>6. Cardinality(held(c)) >= Quorum - 1
  BY <1>5
<1>7. /\ held(c) \subseteq S \ {i} /\ IsFiniteSet(S)
  <2>1. \A j \in Counted(i, row) : j \in Member \ {i}
    BY DEF Counted, Peers
  <2>2. IsFiniteSet(S)
    BY MemberAssumption, FS_Subset
  <2>3. QED
    BY <2>1, <2>2
<1> DEFINE R == S \ {i}
           H == held(c)
<1>8. /\ IsFiniteSet(R) /\ Cardinality(R) = Cardinality(S) - 1
      /\ Cardinality(S) \in Nat
  BY <1>7, FS_RemoveElement, FS_CardinalityType
<1> HIDE DEF R
<1>9. H \subseteq R
  BY <1>7 DEF R
<1> HIDE DEF H
<1>10. /\ Cardinality(H) <= Cardinality(R) /\ Cardinality(H) \in Nat
  BY <1>8, <1>9, FS_Subset, FS_CardinalityType
<1>11. Quorum \in Nat
  BY MemberAssumption, FS_CardinalityType DEF Quorum
<1>12. Cardinality(S) >= Quorum
  BY <1>6, <1>8, <1>10, <1>11 DEF H
<1>13. QED
  BY <1>1, <1>12

\* on_append_entries_reply, a refusal.
LEMMA RefusalHeard ==
  ASSUME Inv, Silent, Files, NEW i \in Member, NEW j \in Member, rep[i][j] # <<>>,
         NEW m \in Answer, m = Head(rep[i][j]), OnAppendRefused(i, j, m)
  PROVE  SafeMove
<1> DEFINE s == Heard(i, j, m)
           resume == Greatest(1, m.conflict_index)
           moved == [s EXCEPT !.next_index = resume,
                              !.sent_commit = Least(s.sent_commit, resume - 1)]
<1>1. m \in AppendEntriesReply /\ role[i] = "LEADER" /\ m.term = term[i]
  <2>1. m \in AppendEntriesReply /\ role[i] = "LEADER"
    BY AppendAnswerFacts DEF OnAppendRefused
  <2>2. m.type = "AppendEntriesReply" /\ ~IsStale(i, m)
    BY DEF OnAppendRefused, IsAppendAnswer
  <2>3. QED
    BY <2>1, <2>2 DEF IsStale
<1>2. /\ NetworkOK /\ ReplicationOK /\ log[i] \in FullLog /\ commit_index[i] \in Nat
      /\ term[i] \in Nat /\ RowOK(log[i], peers[i]) /\ peers[i] \in [Member -> PeerState]
  BY <1>1, MemberFacts, LeaderRow DEF Inv
<1>3. /\ TakeAnswer(i, j)
      /\ UNCHANGED <<disk, incarnation, term, role, round, voting, log, commit_index,
                     elected, committed, stopped>>
  BY DEF OnAppendRefused, TakeAnswer, election, history
<1>4. /\ s \in PeerState
      /\ s.match_index = peers[i][j].match_index
      /\ s.catching_up = m.catching_up
      /\ s.promote_through = IF m.catching_up /\ ~peers[i][j].catching_up
                             THEN LastIndex(log[i]) ELSE peers[i][j].promote_through
  BY <1>1, HeardIs
<1>5. /\ AnsMove /\ UNCHANGED <<link, orphan>>
      /\ \A x, y \in Member : link[x][y] = "down" => rep'[x][y] = <<>>
  BY <1>2, <1>3, TakeNet
<1>6. Rests(i)
  BY <1>2, <1>3 DEF Rests
<1>7. \/ /\ peers' = [peers EXCEPT ![i][j] = s] /\ UNCHANGED req
      \/ /\ m.conflict_index > s.match_index /\ resume < s.next_index
         /\ \E late :
              /\ peers' = [peers EXCEPT ![i] =
                    AppendedRow(i, term[i], log[i], commit_index[i],
                                [peers[i] EXCEPT ![j] = moved], {j}, late, j)]
              /\ Send(i, Appends(i, term[i], log[i], commit_index[i],
                                 [peers[i] EXCEPT ![j] = moved], {j}, late))
  BY DEF OnAppendRefused
<1>8. Files'
  BY <1>3, FilesKept
<1>9. CASE peers' = [peers EXCEPT ![i][j] = s] /\ UNCHANGED req
  <2> DEFINE row == [peers[i] EXCEPT ![j] = s]
  <2> HIDE DEF s
  <2>1. Others(i) /\ peers'[i] = row
    BY <1>2, <1>3, <1>9 DEF Others, ReplicationOK
  <2>2. row = [peers[i] EXCEPT ![j] = s]
    OBVIOUS
  <2> HIDE DEF row
  <2>3. ASSUME NEW x \in Member
        PROVE  RowMove(i, x)
    <3>1. row[x] = IF x = j THEN s ELSE peers[i][x]
      BY <1>2, <2>2
    <3>2. QED
      BY <1>1, <1>4, <2>1, <3>1, HeardRowMoves, SMTT(40)
  <2>4. MemberMoves /\ LedgerMove
    BY <1>3, <1>6, <2>1, <2>3, CalmMove
  <2>5. WireMove /\ Silent'
    BY <1>5, <1>9 DEF WireMove, Wire, Silent
  <2>6. QED
    BY <1>3, <1>5, <1>8, <2>4, <2>5, LinksStay DEF SafeMove, NetMoves
<1>10. CASE /\ m.conflict_index > s.match_index /\ resume < s.next_index
            /\ \E late :
                 /\ peers' = [peers EXCEPT ![i] =
                       AppendedRow(i, term[i], log[i], commit_index[i],
                                   [peers[i] EXCEPT ![j] = moved], {j}, late, j)]
                 /\ Send(i, Appends(i, term[i], log[i], commit_index[i],
                                    [peers[i] EXCEPT ![j] = moved], {j}, late))
  <2> DEFINE row == [peers[i] EXCEPT ![j] = moved]
  <2>1. RowOK(log[i], row)
    BY <1>1, <1>10, MovedRow
  <2>2. PICK late :
           /\ peers' = [peers EXCEPT ![i] =
                 AppendedRow(i, term[i], log[i], commit_index[i], row, {j}, late, j)]
           /\ Send(i, Appends(i, term[i], log[i], commit_index[i], row, {j}, late))
    BY <1>10
  <2>3. row = [peers[i] EXCEPT ![j] = moved]
    OBVIOUS
  <2> HIDE DEF row
  <2>4. moved \in PeerState
    <3> HIDE DEF moved
    <3>1. row[j] = moved
      BY <1>2, <2>3
    <3>2. QED
      BY <2>1, <3>1 DEF RowOK
  <2>5. /\ moved.match_index = s.match_index /\ moved.catching_up = s.catching_up
        /\ moved.promote_through = s.promote_through
    <3> HIDE DEF s, resume
    <3>1. QED
      BY <1>4 DEF PeerState
  <2> HIDE DEF moved, s, resume
  <2>6. Others(i)
        /\ peers'[i] = AppendedRow(i, term[i], log[i], commit_index[i], row, {j}, late, j)
    BY <1>2, <1>3, <2>2 DEF Others, ReplicationOK
  <2>7. \A x \in Member : /\ peers'[i][x].match_index = row[x].match_index
                          /\ peers'[i][x].catching_up = row[x].catching_up
                          /\ peers'[i][x].promote_through = row[x].promote_through
    BY <1>2, <2>1, <2>6, AppendedRowKeeps
  <2>8. ASSUME NEW x \in Member
        PROVE  RowMove(i, x)
    <3>1. /\ moved.match_index = peers[i][j].match_index
          /\ moved.catching_up => m.catching_up
          /\ moved.promote_through = IF m.catching_up /\ ~peers[i][j].catching_up
                                     THEN LastIndex(log[i]) ELSE peers[i][j].promote_through
      BY <1>4, <2>5
    <3>2. row[x] = IF x = j THEN moved ELSE peers[i][x]
      BY <1>2, <2>3
    <3>3. QED
      BY <1>1, <2>4, <2>7, <3>1, <3>2, HeardRowMoves
  <2>9. MemberMoves /\ LedgerMove
    BY <1>3, <1>6, <2>6, <2>8, CalmMove
  <2>10. WireMove /\ \A x, y \in Member : link[x][y] = "down" => req'[x][y] = <<>>
    <3>1. /\ role'[i] = "LEADER" /\ term'[i] = term[i]
          /\ log'[i] = log[i] /\ commit_index'[i] = commit_index[i]
      BY <1>1, <1>3
    <3>2. QED
      BY <1>2, <1>5, <2>1, <2>2, <3>1, AppendsNet
  <2>11. Silent'
    BY <1>5, <2>10 DEF Silent
  <2>12. QED
    BY <1>3, <1>5, <1>8, <2>9, <2>10, <2>11, LinksStay DEF SafeMove, NetMoves
<1>11. QED
  BY <1>7, <1>9, <1>10

\* on_append_entries_reply, a success: the promotion it may send.
LEMMA PromotionIsNew ==
  ASSUME Inv, Silent, NEW i \in Member, NEW j \in Member, rep[i][j] # <<>>,
         NEW m \in AppendEntriesReply, m = Head(rep[i][j]), m.term = term[i], m.success,
         role[i] = "LEADER", role'[i] = "LEADER", term'[i] = term[i],
         Promoted(i, j, m), link[i][j] = "up",
         NEW p, p = [type |-> "Promote", term |-> term[i]]
  PROVE  NewRequest(i, j, p)
<1> DEFINE s == Acknowledged(i, j, m)
<1>1. /\ peers[i][j].match_index \in Nat /\ s.match_index \in Nat
      /\ \/ s.match_index = peers[i][j].match_index
         \/ s.match_index <= m.match_index
      /\ s.promote_through = IF m.catching_up /\ ~peers[i][j].catching_up
                             THEN LastIndex(log[i]) ELSE peers[i][j].promote_through
      /\ s.catching_up = (m.catching_up /\ s.match_index < s.promote_through)
  BY AcknowledgedIs
<1>2. m.catching_up /\ ~s.catching_up
  BY DEF Promoted
<1> HIDE DEF s
<1>3. /\ peers[i][j] \in PeerState /\ LastIndex(log[i]) \in Nat /\ NetworkOK
      /\ m.match_index \in Nat
  BY MemberFacts DEF Inv, AppendEntriesReply
<1>4. Bar(i, j) = s.promote_through /\ Bar(i, j) \in Nat
  BY <1>1, <1>2, <1>3 DEF Bar, PeerState
<1>5. s.match_index >= Bar(i, j)
  <2>1. ~(s.match_index < s.promote_through)
    BY <1>1, <1>2
  <2>2. QED
    BY <1>1, <1>4, <2>1
<1>6. Bar(i, j) <= peers[i][j].match_index \/ Bar(i, j) <= m.match_index
  BY <1>1, <1>3, <1>4, <1>5
<1>7. m \in Ans(i, j) /\ IsAck(m)
  BY <1>3, HeadAnswered DEF IsAck, AppendEntriesReply
<1>8. NewPromote(i, j, p)
  BY <1>6, <1>7 DEF NewPromote, IsPromote
<1>9. QED
  BY <1>8 DEF NewRequest

\* on_append_entries_reply, a success: what it may commit.
LEMMA CommitCounted ==
  ASSUME Inv, Silent, NEW i \in Member, NEW j \in Member, rep[i][j] # <<>>,
         NEW m \in AppendEntriesReply, m = Head(rep[i][j]), m.term = term[i], m.success,
         role[i] = "LEADER", role'[i] = "LEADER", log'[i] = log[i],
         NEW s \in PeerState,
         \/ s.match_index = peers[i][j].match_index
         \/ s.match_index <= m.match_index,
         NEW row, row = [peers[i] EXCEPT ![j] = s], RowOK(log[i], row),
         NEW c, c = CommitAfter(i, row) \/ c = commit_index[i], commit_index'[i] = c
  PROVE  /\ CommitRule(i)
         /\ c # commit_index[i] => Advances(i)
         /\ c = commit_index[i] => ~Advances(i)
<1>1. CASE c = commit_index[i]
  BY <1>1, CommitStays
<1>2. CASE c # commit_index[i]
  <2> DEFINE S == Acked(i, c)
  <2>1. /\ NetworkOK /\ peers[i] \in [Member -> PeerState] /\ m.match_index \in Nat
        /\ commit_index[i] \in Nat /\ m.type = "AppendEntriesReply"
    BY MemberFacts DEF Inv, AppendEntriesReply
  <2>2. c = CommitAfter(i, row) /\ c \in Nat /\ c <= LastIndex(log[i])
    BY <1>2, CommitAfterType
  <2>3. m \in Ans(i, j) /\ IsAck(m)
    BY <2>1, HeadAnswered DEF IsAck
  <2>4. S \in SUBSET Member /\ i \in S
    BY DEF Acked
  <2>5. ASSUME NEW x \in Member \ {i}, row[x].match_index >= c
        PROVE  x \in S
    <3>1. CASE x # j
      BY <2>1, <2>5, <3>1 DEF Acked
    <3>2. CASE x = j
      <4>1. row[x] = s
        BY <2>1, <3>2
      <4>2. peers[i][j].match_index >= c \/ m.match_index >= c
        <5>1. s.match_index \in Nat
          BY DEF PeerState
        <5>2. QED
          BY <2>1, <2>2, <2>5, <4>1, <5>1
      <4>3. QED
        BY <2>3, <3>2, <4>2 DEF Acked
    <3>3. QED
      BY <3>1, <3>2
  <2> HIDE DEF S
  <2>6. /\ c > commit_index[i] /\ TermAt(log[i], c) = term[i]
        /\ Cardinality(S) >= Quorum
    BY <1>2, <2>2, <2>4, <2>5, CountedQuorum
  <2>7. Advances(i)
    BY <2>2, <2>6 DEF Advances, S
  <2>8. QED
    BY <1>2, <2>7 DEF CommitRule
<1>3. QED
  BY <1>1, <1>2

\* on_append_entries_reply, a success: credit, promote, commit, send on.
LEMMA SuccessHeard ==
  ASSUME Inv, Silent, Files, NEW i \in Member, NEW j \in Member, rep[i][j] # <<>>,
         NEW m \in Answer, m = Head(rep[i][j]), OnAppendAccepted(i, j, m)
  PROVE  SafeMove
<1> DEFINE s == Acknowledged(i, j, m)
           row == [peers[i] EXCEPT ![j] = s]
           news == \/ s.match_index > peers[i][j].match_index
                   \/ m.request = "carrying" /\ peers[i][j].pending = 1
           c == IF news THEN CommitAfter(i, row) ELSE commit_index[i]
           J == IF c > commit_index[i] THEN Targets(i)
                ELSE IF news /\ ShouldSendNow(i, s) THEN {j}
                ELSE {}
           promote == IF Promoted(i, j, m)
                      THEN <<[type |-> "Promote", term |-> term[i]]>> ELSE <<>>
<1>1. m \in AppendEntriesReply /\ role[i] = "LEADER" /\ m.term = term[i] /\ m.success
  <2>1. m \in AppendEntriesReply /\ role[i] = "LEADER"
    BY AppendAnswerFacts DEF OnAppendAccepted
  <2>2. m.type = "AppendEntriesReply" /\ ~IsStale(i, m) /\ m.success
    BY DEF OnAppendAccepted, IsAppendAnswer
  <2>3. QED
    BY <2>1, <2>2 DEF IsStale
<1>2. /\ NetworkOK /\ ReplicationOK /\ log[i] \in FullLog /\ commit_index[i] \in Nat
      /\ term[i] \in Nat /\ RowOK(log[i], peers[i]) /\ peers[i] \in [Member -> PeerState]
      /\ TypeOK
  BY <1>1, MemberFacts, LeaderRow DEF Inv
<1>3. /\ TakeAnswer(i, j)
      /\ UNCHANGED <<disk, incarnation, term, role, round, voting, log, elected, stopped>>
      /\ commit_index' = [commit_index EXCEPT ![i] = c]
      /\ committed' = committed \cup {<<n, TermAt(log[i], n)>> :
                                          n \in commit_index[i] + 1 .. c}
      /\ \E late :
           /\ peers' = [peers EXCEPT ![i] =
                 AppendedRow(i, term[i], log[i], c, row, J, late, j)]
           /\ Send(i, [Appends(i, term[i], log[i], c, row, J, late)
                         EXCEPT ![j] = promote \o @])
  BY DEF OnAppendAccepted, TakeAnswer, election
<1>4. /\ s \in PeerState
      /\ \/ s.match_index = peers[i][j].match_index
         \/ s.match_index <= m.match_index
      /\ s.catching_up => m.catching_up
      /\ s.promote_through = IF m.catching_up /\ ~peers[i][j].catching_up
                             THEN LastIndex(log[i]) ELSE peers[i][j].promote_through
  <2>1. s \in PeerState
    BY <1>1, AcknowledgedType
  <2>2. /\ \/ s.match_index = peers[i][j].match_index
           \/ s.match_index <= m.match_index
        /\ s.promote_through = IF m.catching_up /\ ~peers[i][j].catching_up
                               THEN LastIndex(log[i]) ELSE peers[i][j].promote_through
        /\ s.catching_up = (m.catching_up /\ s.match_index < s.promote_through)
    BY <1>1, AcknowledgedIs
  <2> HIDE DEF s
  <2>3. s.catching_up => m.catching_up
    BY <2>2, Zenon
  <2>4. QED
    BY <2>1, <2>2, <2>3
<1>5. /\ AnsMove /\ UNCHANGED <<link, orphan>>
      /\ \A x, y \in Member : link[x][y] = "down" => rep'[x][y] = <<>>
  BY <1>2, <1>3, TakeNet
<1>6. RowOK(log[i], row)
  <2>1. /\ s \in PeerState /\ s.match_index < s.next_index
        /\ s.next_index <= LastIndex(log[i]) + 1
    BY <1>1, AcknowledgedType
  <2> HIDE DEF s
  <2>2. QED
    BY <1>2, <2>1, RowWith
<1>7. promote \in Seq(Request)
      /\ \A p \in Range(promote) : link[i][j] = "up" => NewRequest(i, j, p)
  <2> DEFINE p == [type |-> "Promote", term |-> term[i]]
  <2>1. p \in Request
    BY <1>2 DEF Request, Promote
  <2>2. Promoted(i, j, m) /\ link[i][j] = "up" => NewRequest(i, j, p)
    BY <1>1, <1>3, PromotionIsNew
  <2> HIDE DEF p
  <2>3. <<p>> \in Seq(Request) /\ <<>> \in Seq(Request) /\ Range(<<p>>) = {p}
    BY <2>1 DEF Range
  <2>4. promote = IF Promoted(i, j, m) THEN <<p>> ELSE <<>>
    BY DEF p
  <2> HIDE DEF promote
  <2>5. CASE Promoted(i, j, m)
    BY <2>2, <2>3, <2>4, <2>5
  <2>6. CASE ~Promoted(i, j, m)
    BY <2>3, <2>4, <2>6, EmptyRange
  <2>7. QED
    BY <2>5, <2>6
<1>8. c = CommitAfter(i, row) \/ c = commit_index[i]
  OBVIOUS
<1>9. row = [peers[i] EXCEPT ![j] = s]
  OBVIOUS
<1> HIDE DEF s, row, news, c, J, promote
<1>10. c \in Nat
  BY <1>2, <1>6, <1>8, CommitAfterType
<1>11. PICK late :
          /\ peers' = [peers EXCEPT ![i] =
                AppendedRow(i, term[i], log[i], c, row, J, late, j)]
          /\ Send(i, [Appends(i, term[i], log[i], c, row, J, late)
                        EXCEPT ![j] = promote \o @])
  BY <1>3
<1>12. /\ role'[i] = "LEADER" /\ term'[i] = term[i] /\ log'[i] = log[i]
       /\ commit_index'[i] = c
       /\ peers'[i] = AppendedRow(i, term[i], log[i], c, row, J, late, j)
  BY <1>1, <1>2, <1>3, <1>11 DEF ReplicationOK
<1>13. Others(i)
  BY <1>2, <1>3, <1>11 DEF Others, ReplicationOK
<1>14. Rests(i)
  BY <1>2, <1>3 DEF Rests
<1>15. ASSUME NEW x \in Member
       PROVE  RowMove(i, x)
  <2>1. /\ peers'[i][x].match_index = row[x].match_index
        /\ peers'[i][x].catching_up = row[x].catching_up
        /\ peers'[i][x].promote_through = row[x].promote_through
    BY <1>2, <1>6, <1>12, AppendedRowKeeps
  <2>2. row[x] = IF x = j THEN s ELSE peers[i][x]
    BY <1>2, <1>9
  <2>3. QED
    BY <1>1, <1>4, <2>1, <2>2, HeardRowMoves
<1>16. /\ CommitRule(i)
       /\ c # commit_index[i] => Advances(i)
       /\ c = commit_index[i] => ~Advances(i)
  BY <1>1, <1>4, <1>6, <1>8, <1>9, <1>12, CommitCounted
<1>17. MemberMoves
  <2>1. MemberMove(i) /\ RoundMove(i)
    BY <1>1, <1>14 DEF MemberMove, RoundMove
  <2>2. QED
    BY <1>13, <1>15, <1>16, <2>1, OneMoves
<1>18. LedgerMove
  <2>1. \A k \in Member \ {i} : ~Advances(k)
    BY <1>13, OthersMove
  <2>2. committed \subseteq committed' /\ UNCHANGED elected
    BY <1>3
  <2>3. ASSUME NEW e \in committed', e \notin committed
        PROVE  \E k \in Member : \E n \in 1 .. commit_index'[k] :
                   Advances(k) /\ e = <<n, TermAt(log[k], n)>>
    <3>1. PICK n \in commit_index[i] + 1 .. c : e = <<n, TermAt(log[i], n)>>
      BY <1>3, <2>3
    <3>2. n \in 1 .. c /\ c # commit_index[i]
      BY <1>2, <1>10
    <3>3. QED
      BY <1>12, <1>16, <3>1, <3>2
  <2>4. ASSUME NEW k \in Member, Advances(k), NEW n \in 1 .. commit_index'[k]
        PROVE  n <= commit_index[k] \/ <<n, TermAt(log[k], n)>> \in committed'
    <3>1. k = i
      BY <2>1, <2>4
    <3>2. n \in 1 .. c
      BY <1>12, <3>1
    <3>3. n <= commit_index[i] \/ n \in commit_index[i] + 1 .. c
      BY <1>2, <1>10, <3>2
    <3>4. QED
      BY <1>3, <3>1, <3>3
  <2>5. QED
    BY <2>2, <2>3, <2>4 DEF LedgerMove
<1> DEFINE out == Appends(i, term[i], log[i], c, row, J, late)
           all == [out EXCEPT ![j] = promote \o @]
<1>19. /\ out \in [Member -> Seq(Request)]
       /\ \A y \in Member : \A p \in Range(out[y]) : NewRequest(i, y, p)
  <2>1. out \in [Member -> Seq(Request)]
    BY <1>2, <1>6, <1>10, ReplicateType
  <2>2. \A y \in Member : \A p \in Range(out[y]) : NewAppend(i, p)
    BY <1>2, <1>6, <1>10, <1>12, AppendsNew DEF NewAppend
  <2>3. QED
    BY <2>1, <2>2 DEF NewRequest
<1>20. Send(i, all)
  BY <1>11
<1> HIDE DEF out
<1>21. /\ promote \o out[j] \in Seq(Request)
       /\ Range(promote \o out[j]) = Range(promote) \cup Range(out[j])
  <2>1. out[j] \in Seq(Request)
    BY <1>19
  <2>2. QED
    BY <1>7, <2>1, ConcatProperties, RangeConcatenation
<1>22. all \in [Member -> Seq(Request)]
  BY <1>19, <1>21
<1>23. ASSUME NEW y \in Member, NEW p \in Range(all[y]), link[i][y] = "up"
       PROVE  NewRequest(i, y, p)
  <2>1. all[y] = IF y = j THEN promote \o out[j] ELSE out[y]
    BY <1>19
  <2> HIDE DEF all
  <2>2. p \in Range(out[y]) \/ (y = j /\ p \in Range(promote))
    BY <1>21, <1>23, <2>1
  <2>3. QED
    BY <1>7, <1>19, <1>23, <2>2
<1> HIDE DEF all
<1>24. WireMove /\ \A x, y \in Member : link[x][y] = "down" => req'[x][y] = <<>>
  BY <1>2, <1>5, <1>20, <1>22, <1>23, SendMoves
<1>25. Silent'
  BY <1>5, <1>24 DEF Silent
<1>26. Files'
  BY <1>3, FilesKept
<1>27. QED
  BY <1>3, <1>5, <1>17, <1>18, <1>24, <1>25, <1>26, LinksStay DEF SafeMove, NetMoves

-----------------------------------------------------------------------------
(* A connection is made *)

\* A leader that connects probes the peer, and knows nothing of it.
LEMMA Probed ==
  ASSUME Inv, Silent, NEW i \in Member, NEW j \in Member, PeerUp(i, j), role[i] = "LEADER",
         NEW new, new = peers'[i][j]
  PROVE  /\ \E a \in Request : NewAppend(i, a) /\ req' = [req EXCEPT ![i][j] = <<a>>]
         /\ peers' = [peers EXCEPT ![i][j] = new]
         /\ new.match_index = 0
         /\ new.catching_up = peers[i][j].catching_up
         /\ new.promote_through = peers[i][j].promote_through
<1> DEFINE s == Reconnected(i, j)
           a == AppendFor(term[i], log[i], commit_index[i], s, FALSE)
           n == AfterAppend(log[i], commit_index[i], s, FALSE, 0)
<1>1. /\ term[i] \in Nat /\ log[i] \in FullLog /\ peers[i] \in [Member -> PeerState]
      /\ commit_index[i] \in Nat /\ ReplicationOK /\ FALSE \in BOOLEAN
  BY MemberFacts DEF Inv
<1>2. /\ UNCHANGED <<log, role, term, commit_index>>
      /\ req' = [req EXCEPT ![i][j] = <<a>>]
      /\ peers' = [peers EXCEPT ![i][j] = n]
  BY DEF PeerUp, election
<1>3. /\ s \in PeerState /\ s.match_index < s.next_index /\ s.next_index <= LastIndex(log[i]) + 1
  BY ReconnectedType
<1>4. /\ s.match_index = 0 /\ s.catching_up = peers[i][j].catching_up
      /\ s.promote_through = peers[i][j].promote_through
  BY <1>1 DEF Reconnected, PeerState
<1> HIDE DEF s
<1>5. a \in Request /\ Part(AppendSpan(a), LogSpan(log[i]))
  <2>1. a \in AppendEntries /\ Part(AppendSpan(a), LogSpan(log[i]))
    BY <1>1, <1>3, AppendForPart
  <2>2. QED
    BY <2>1 DEF Request
<1>6. IsAppend(a) /\ a.term = term[i] /\ a.leader_commit = commit_index[i]
  BY DEF AppendFor, IsAppend
<1>7. /\ n.match_index = s.match_index /\ n.catching_up = s.catching_up
      /\ n.promote_through = s.promote_through
  BY <1>3 DEF AfterAppend, PeerState
<1> HIDE DEF a, n
<1>8. NewAppend(i, a)
  BY <1>2, <1>5, <1>6 DEF NewAppend
<1>9. new = n
  BY <1>1, <1>2 DEF ReplicationOK
<1>10. QED
  BY <1>2, <1>4, <1>5, <1>7, <1>8, <1>9

LEMMA Connected ==
  ASSUME Inv, Silent, Files, NEW i \in Member, NEW j \in Member, PeerUp(i, j)
  PROVE  SafeMove
<1>1. /\ NetworkOK /\ ReplicationOK /\ term[i] \in Nat /\ peers[i] \in [Member -> PeerState]
  BY MemberFacts DEF Inv
<1>2. /\ UNCHANGED <<disk, incarnation, term, role, round, voting, log, commit_index, rep, orphan,
                    elected, committed, stopped>>
      /\ i # j /\ link[i][j] = "down" /\ link' = [link EXCEPT ![i][j] = "up"]
  BY DEF PeerUp, durable, election, history
<1>3. \/ role[i] # "LEADER" /\ UNCHANGED <<peers, req>>
      \/ role[i] = "LEADER"
  BY DEF PeerUp
<1>4. \/ UNCHANGED <<peers, req>>
      \/ /\ \E a \in Request : NewAppend(i, a) /\ req' = [req EXCEPT ![i][j] = <<a>>]
         /\ \E new : /\ peers' = [peers EXCEPT ![i][j] = new] /\ new = peers'[i][j]
                     /\ new.match_index = 0
                     /\ new.catching_up = peers[i][j].catching_up
                     /\ new.promote_through = peers[i][j].promote_through
  BY <1>3, Probed
<1>5. role[i] = "LEADER" => peers'[i][j].match_index = 0
  BY <1>3, Probed
<1>6. Others(i) /\ Rests(i)
  BY <1>1, <1>2, <1>4 DEF Others, Rests, ReplicationOK
<1>7. ASSUME NEW x \in Member
      PROVE  RowMove(i, x)
  <2>1. CASE UNCHANGED peers
    BY <2>1, RowStays
  <2>2. CASE \E new : /\ peers' = [peers EXCEPT ![i][j] = new] /\ new = peers'[i][j]
                      /\ new.match_index = 0
                      /\ new.catching_up = peers[i][j].catching_up
                      /\ new.promote_through = peers[i][j].promote_through
    <3>1. PICK new : /\ peers' = [peers EXCEPT ![i][j] = new]
                     /\ new.match_index = 0
                     /\ new.catching_up = peers[i][j].catching_up
                     /\ new.promote_through = peers[i][j].promote_through
      BY <2>2
    <3>2. peers'[i][x] = IF x = j THEN new ELSE peers[i][x]
      BY <1>1, <3>1 DEF ReplicationOK
    <3>3. peers[i][x].match_index \in Nat
      BY <1>1 DEF PeerState
    <3>4. QED
      BY <3>1, <3>2, <3>3 DEF RowMove
  <2>3. QED
    BY <1>4, <2>1, <2>2
<1>8. MemberMoves /\ LedgerMove
  BY <1>2, <1>6, <1>7, CalmMove
<1>9. WireMove /\ \A x, y \in Member : link'[x][y] = "down" => req'[x][y] = <<>>
  <2>1. CASE UNCHANGED req
    <3>1. WireMove
      BY <1>2, <2>1 DEF WireMove, Wire
    <3>2. QED
      BY <1>1, <1>2, <2>1, <3>1 DEF Silent, NetworkOK
  <2>2. CASE \E a \in Request : NewAppend(i, a) /\ req' = [req EXCEPT ![i][j] = <<a>>]
    <3>1. PICK a \in Request : NewAppend(i, a) /\ req' = [req EXCEPT ![i][j] = <<a>>]
      BY <2>2
    <3>2. Range(<<a>>) = {a}
      BY DEF Range
    <3>3. ASSUME NEW x \in Member, NEW y \in Member, NEW m \in Wire(x, y)'
          PROVE  m \in Wire(x, y) \/ NewRequest(x, y, m)
      <4>1. req'[x][y] = req[x][y] \/ (x = i /\ req'[x][y] = <<a>>)
        BY <1>1, <3>1 DEF NetworkOK
      <4>2. \/ m \in Wire(x, y)
            \/ x = i /\ m = a
        BY <1>2, <3>2, <3>3, <4>1 DEF Wire
      <4>3. QED
        BY <3>1, <4>2 DEF NewRequest
    <3>4. \A x, y \in Member : link'[x][y] = "down" => req'[x][y] = <<>>
      BY <1>1, <1>2, <3>1 DEF Silent, NetworkOK
    <3>5. WireMove
      BY <3>3 DEF WireMove
    <3>6. QED
      BY <3>4, <3>5
  <2>3. QED
    BY <1>4, <2>1, <2>2
<1>10. AnsMove
  BY <1>2 DEF AnsMove, Ans
<1>11. Silent'
  <2>1. \A x, y \in Member : link'[x][y] = "down" => rep'[x][y] = <<>>
    BY <1>1, <1>2 DEF Silent, NetworkOK
  <2>2. \A x \in Member : link'[x][x] = "down" /\ orphan'[x][x] = <<>>
    BY <1>1, <1>2 DEF Silent, NetworkOK
  <2>3. QED
    BY <1>9, <2>1, <2>2 DEF Silent
<1>12. ASSUME NEW x \in Member, NEW y \in Member
       PROVE  LinkMove(x, y)
  <2>1. link'[x][y] = IF x = i /\ y = j THEN "up" ELSE link[x][y]
    BY <1>1, <1>2 DEF NetworkOK
  <2>2. QED
    BY <1>2, <1>5, <2>1 DEF LinkMove
<1>13. Files'
  BY <1>2, FilesKept
<1>14. QED
  BY <1>2, <1>8, <1>9, <1>10, <1>11, <1>12, <1>13 DEF SafeMove, NetMoves

-----------------------------------------------------------------------------
(* Every step *)

\* The member that stops on an append that contradicts what is committed.
Contradicted ==
    \E i, j \in Member : \E m \in Wire(j, i) :
        IsAppend(m) /\ m.term >= term[i] /\ Contradicts(i, m)

\* As long as no save fails, a step is one of the moves above, or a member has
\* been sent an append that contradicts what it has committed.
LEMMA StepIsSafe ==
  ASSUME Inv, Silent, Files, saveFailures' = 0, ~Contradicted, [Next]_vars
  PROVE  SafeMove
<1>1. ASSUME NEW i \in Member, NEW j \in Member,
             \/ PreCampaign(i) \/ Relinquish(i) \/ Restart(i)
             \/ LeaderTick(i) \/ Propose(i) \/ PeerUp(i, j) \/ PeerGone(i, j)
             \/ PeerLost(i, j) \/ OrphanEnds(i, j)
      PROVE  SafeMove
  BY <1>1, PreVoteAsked, StartedAgain, Ticked, Proposed, Connected, Quietened
<1>2. ~SaveFails
  <2>1. saveFailures \in Nat
    BY DEF Inv, LedgerOK
  <2>2. QED
    BY <2>1 DEF SaveFails
<1>3. ASSUME NEW i \in Member, NEW j \in Member, NEW src \in Source, NEW m \in Request,
             Inbound(i, j, src) # <<>>, m = Head(Inbound(i, j, src)),
             \/ RefuseUnderLease(i, j, src, m)
             \/ AnswerPreVote(i, j, src, m)
             \/ RejectAppend(i, j, src, m)
             \/ OnPromote(i, j, src, m)
             \/ GrantVote(i, j, src, m)
             \/ GrantSaveFails(i, j, src, m)
             \/ DenyVote(i, j, src, m)
             \/ StepDownSaveFailsOnRequest(i, j, src, m)
             \/ StopOnContradiction(i, j, src, m)
             \/ ConflictingAppend(i, j, src, m)
             \/ AcceptAppend(i, j, src, m)
      PROVE  SafeMove
  <2>1. ~GrantSaveFails(i, j, src, m) /\ ~StepDownSaveFailsOnRequest(i, j, src, m)
    BY <1>2 DEF GrantSaveFails, StepDownSaveFailsOnRequest
  <2>2. ~StopOnContradiction(i, j, src, m)
    <3>1. m \in Wire(j, i)
      BY <1>3, HeadOnWire DEF Inv
    <3>2. QED
      BY <3>1 DEF StopOnContradiction, Contradicted, IsAppend
  <2>3. QED
    BY <1>3, <2>1, <2>2, RefusedOutright, PromoteTaken, VoteAnswered, ConflictAnswered,
       AppendTaken
<1>4. ASSUME NEW i \in Member, NEW j \in Member, NEW m \in Answer,
             rep[i][j] # <<>>, m = Head(rep[i][j]),
             \/ OnStaleAnswer(i, j, m)
             \/ OnAppendRefused(i, j, m)
             \/ OnAppendAccepted(i, j, m)
             \/ OnPreVoteRefused(i, j, m)
             \/ OnLaterTerm(i, j, m)
             \/ StepDownSaveFailsOnAnswer(i, j, m)
             \/ OnPreVoteGranted(i, j, m)
             \/ CampaignSaveFails(i, j, m)
             \/ OnRequestVoteReply(i, j, m)
      PROVE  SafeMove
  <2>1. ~StepDownSaveFailsOnAnswer(i, j, m) /\ ~CampaignSaveFails(i, j, m)
    BY <1>2 DEF StepDownSaveFailsOnAnswer, CampaignSaveFails
  <2>2. QED
    BY <1>4, <2>1, AnswerRead, RefusalHeard, SuccessHeard, PreVoteGranted, VoteHeard
<1>5. CASE Next
  <2>1. PICK i \in Member, j \in Member :
            \/ PreCampaign(i) \/ Relinquish(i) \/ Restart(i)
            \/ LeaderTick(i) \/ Propose(i) \/ PeerUp(i, j) \/ PeerGone(i, j)
            \/ PeerLost(i, j) \/ OrphanEnds(i, j)
            \/ \E src \in Source, m \in Request :
                  /\ Inbound(i, j, src) # <<>> /\ m = Head(Inbound(i, j, src))
                  /\ \/ RefuseUnderLease(i, j, src, m)
                     \/ AnswerPreVote(i, j, src, m)
                     \/ RejectAppend(i, j, src, m)
                     \/ OnPromote(i, j, src, m)
                     \/ GrantVote(i, j, src, m)
                     \/ GrantSaveFails(i, j, src, m)
                     \/ DenyVote(i, j, src, m)
                     \/ StepDownSaveFailsOnRequest(i, j, src, m)
                     \/ StopOnContradiction(i, j, src, m)
                     \/ ConflictingAppend(i, j, src, m)
                     \/ AcceptAppend(i, j, src, m)
            \/ \E m \in Answer :
                  /\ rep[i][j] # <<>> /\ m = Head(rep[i][j])
                  /\ \/ OnStaleAnswer(i, j, m)
                     \/ OnAppendRefused(i, j, m)
                     \/ OnAppendAccepted(i, j, m)
                     \/ OnPreVoteRefused(i, j, m)
                     \/ OnLaterTerm(i, j, m)
                     \/ StepDownSaveFailsOnAnswer(i, j, m)
                     \/ OnPreVoteGranted(i, j, m)
                     \/ CampaignSaveFails(i, j, m)
                     \/ OnRequestVoteReply(i, j, m)
    BY <1>5, StepCases, Zenon
  <2>2. QED
    BY <1>1, <1>3, <1>4, <2>1
<1>6. CASE UNCHANGED vars
  <2>1. \A i, j \in Member : SafeMove
    BY <1>6, Quietened
  <2>2. Member # {}
    BY MemberAssumption, FS_EmptySet
  <2>3. QED
    BY <2>1, <2>2
<1>7. QED
  BY <1>5, <1>6

LEMMA StartIsSilent ==
  ASSUME Init
  PROVE  Silent /\ Files
<1>1. Silent
  BY DEF Init, Silent
<1>2. Files
  BY DEF Init, Files
<1>3. QED
  BY <1>1, <1>2

-----------------------------------------------------------------------------
(***************************************************************************)
(* What a leader has committed is never lost: for every cluster and every  *)
(* value of the bounds, as long as no save of a term file fails and the    *)
(* members that vote are a quorum.                                         *)
(*                                                                         *)
(* A member may come back without its log, so a majority that acknowledged *)
(* an entry may soon not hold it.  What lasts is that none of those who    *)
(* acknowledged it votes again before it holds the entry again, and that   *)
(* no candidate wins without one of them: this is what Core says of an     *)
(* entry and of those who acknowledged it, and it is shown to survive      *)
(* every step.                                                             *)
(***************************************************************************)

-----------------------------------------------------------------------------
(* What is known of every state already *)

Led(t) == \E e \in elected : e[1] = t
LaterLed(t) == \E e \in elected : e[1] > t

\* The members whose vote candidate k has, or is about to read.
Backers(k) ==
    {v \in Member \ {k} :
        \/ v \in round[k].votes \ round[k].forgotten
        \/ \E r \in Ans(k, v) : /\ IsVoteReply(r) /\ r.term = term[k]
                                /\ r.granted /\ r.voting}

LogTypes ==
    \A i \in Member :
        /\ LastIndex(log[i]) \in Nat /\ term[i] \in Nat
        /\ commit_index[i] \in Nat /\ commit_index[i] <= LastIndex(log[i])
        /\ \A x \in 0 .. LastIndex(log[i]) : TermAt(log[i], x) \in Nat
        /\ TermAt(log[i], 0) = 0
        /\ LastTerm(log[i]) = TermAt(log[i], LastIndex(log[i]))

LogsLed == \A i \in Member : \A x \in 1 .. LastIndex(log[i]) : Led(TermAt(log[i], x))

LogsMatched ==
    \A i, j \in Member : \A n \in 0 .. LastIndex(log[i]) :
        n <= LastIndex(log[j]) /\ TermAt(log[i], n) = TermAt(log[j], n) =>
            \A x \in 0 .. n : TermAt(log[i], x) = TermAt(log[j], x)

LeaderNewest ==
    \A k, i \in Member : role[k] = "LEADER" =>
        \A x \in 1 .. LastIndex(log[i]) :
            TermAt(log[i], x) = term[k] => x <= LastIndex(log[k])

\* The last index append m speaks of.
Through(m) == m.prev_log_index + Len(m.entries)

AppendTypes ==
    \A m \in Appended :
        /\ m.prev_log_index \in Nat /\ Through(m) \in Nat /\ m.prev_log_index <= Through(m)
        /\ m.term \in Nat /\ m.leader_commit \in Nat
        /\ DOMAIN AppendSpan(m) = m.prev_log_index .. Through(m)
        /\ \A x \in m.prev_log_index .. Through(m) : AppendSpan(m)[x] \in Nat
        /\ AppendSpan(m)[m.prev_log_index] = m.prev_log_term
        /\ m.prev_log_index = 0 => m.prev_log_term = 0

AppendsMatched ==
    \A m \in Appended, i \in Member : \A n \in m.prev_log_index .. Through(m) :
        n <= LastIndex(log[i]) /\ TermAt(log[i], n) = AppendSpan(m)[n] =>
            \A x \in m.prev_log_index .. n : TermAt(log[i], x) = AppendSpan(m)[x]

AppendsLed ==
    \A m \in Appended : \A x \in m.prev_log_index .. Through(m) :
        x > 0 => Led(AppendSpan(m)[x])

\* A backer has entered the term of its candidate.
BackersAhead ==
    \A k \in Member : role[k] = "CANDIDATE" =>
        \A v \in Backers(k) : term[v] >= term[k]

\* So has a quorum the term of every leader there was.
LedQuorum ==
    \A e \in elected : \E V \in SUBSET Member :
        Cardinality(V) >= Quorum /\ \A v \in V : term[v] >= e[1]

MessageTypes ==
    \A x, y \in Member :
        /\ \A m \in Wire(x, y) :
              /\ m.term \in Nat
              /\ IsAppend(m) => m \in Appended
              /\ IsAsk(m) => m.last_log_index \in Nat /\ m.last_log_term \in Nat
        /\ \A r \in Ans(x, y) : r.term \in Nat /\ (IsAck(r) => r.match_index \in Nat)
        /\ peers[x][y].match_index \in Nat /\ peers[x][y].promote_through \in Nat

Known ==
    /\ Inv /\ MessageTypes
    /\ LogTypes /\ LogsLed /\ LogsMatched /\ LeaderNewest
    /\ AppendTypes /\ AppendsMatched /\ AppendsLed
    /\ LeadersElected /\ CandidatesNew /\ ElectionSafety
    /\ BackersAhead /\ LedQuorum

\* The last term of a log is the term at its last index.
LEMMA LastTermIs ==
  ASSUME NEW l \in FullLog
  PROVE  LastTerm(l) = TermAt(l, LastIndex(l))
<1>1. l.snapshot_index = 0 /\ l.snapshot_term = 0 /\ l.entries \in Seq(Nat)
  BY DEF FullLog, LogType
<1>2. LastIndex(l) = Len(l.entries) /\ Len(l.entries) \in Nat
  BY LastType
<1>3. TermAt(l, LastIndex(l)) = IF Len(l.entries) = 0 THEN 0 ELSE l.entries[Len(l.entries)]
  BY <1>2, TermAtIs
<1>4. l.entries = <<>> <=> Len(l.entries) = 0
  BY <1>1, EmptySeq
<1>5. QED
  BY <1>1, <1>3, <1>4 DEF LastTerm

LEMMA LogFacts ==
  ASSUME Inv
  PROVE  LogTypes
<1> SUFFICES ASSUME NEW i \in Member
             PROVE  /\ LastIndex(log[i]) \in Nat /\ term[i] \in Nat
                    /\ commit_index[i] \in Nat /\ commit_index[i] <= LastIndex(log[i])
                    /\ \A x \in 0 .. LastIndex(log[i]) : TermAt(log[i], x) \in Nat
                    /\ TermAt(log[i], 0) = 0
                    /\ LastTerm(log[i]) = TermAt(log[i], LastIndex(log[i]))
  BY DEF LogTypes
<1>1. /\ LastIndex(log[i]) \in Nat /\ term[i] \in Nat /\ log[i] \in FullLog
      /\ commit_index[i] \in Nat /\ commit_index[i] <= LastIndex(log[i])
  BY MemberFacts
<1>2. \A x \in 0 .. LastIndex(log[i]) : TermAt(log[i], x) \in Nat
  BY <1>1, TermAtType
<1>3. TermAt(log[i], 0) = 0
  BY <1>1, TermAtIs
<1>4. QED
  BY <1>1, <1>2, <1>3, LastTermIs

\* What a log says, index by index.
LEMMA LogSaid ==
  ASSUME Inv, NEW i \in Member
  PROVE  /\ LogSpan(log[i]) \in Spans
         /\ DOMAIN LogSpan(log[i]) = 0 .. LastIndex(log[i])
         /\ \A x \in 0 .. LastIndex(log[i]) : LogSpan(log[i])[x] = TermAt(log[i], x)
BY MemberFacts, LogSpanIs DEF Spans

LEMMA AppendFacts ==
  ASSUME Inv, ZeroAtZero
  PROVE  AppendTypes
<1> SUFFICES ASSUME NEW m \in Appended
             PROVE  /\ m.prev_log_index \in Nat /\ Through(m) \in Nat
                    /\ m.prev_log_index <= Through(m)
                    /\ m.term \in Nat /\ m.leader_commit \in Nat
                    /\ DOMAIN AppendSpan(m) = m.prev_log_index .. Through(m)
                    /\ \A x \in m.prev_log_index .. Through(m) : AppendSpan(m)[x] \in Nat
                    /\ AppendSpan(m)[m.prev_log_index] = m.prev_log_term
                    /\ m.prev_log_index = 0 => m.prev_log_term = 0
  BY DEF AppendTypes
<1>1. m \in AppendEntries
  BY DEF Appended, Sent, Request, RequestVote, Promote, AppendEntries
<1>2. /\ m.prev_log_index \in Nat /\ m.term \in Nat /\ m.leader_commit \in Nat
      /\ Len(m.entries) \in Nat
  BY <1>1, LenProperties DEF AppendEntries
<1>3. /\ Through(m) \in Nat /\ m.prev_log_index <= Through(m)
      /\ m.prev_log_index \in m.prev_log_index .. Through(m)
  BY <1>2 DEF Through
<1>4. /\ DOMAIN AppendSpan(m) = m.prev_log_index .. Through(m)
      /\ AppendSpan(m)[m.prev_log_index] = m.prev_log_term
      /\ IsSpan(AppendSpan(m))
  BY <1>1, AppendSpanIs DEF Through
<1>5. AppendSpan(m) \in Spans
  BY DEF Spans
<1>6. m.prev_log_index = 0 => m.prev_log_term = 0
  BY <1>3, <1>4, <1>5 DEF ZeroAtZero
<1>7. \A x \in m.prev_log_index .. Through(m) : AppendSpan(m)[x] \in Nat
  BY <1>4 DEF IsSpan
<1>8. QED
  BY <1>2, <1>3, <1>4, <1>6, <1>7

LEMMA MessageFacts ==
  ASSUME Inv
  PROVE  MessageTypes
<1> SUFFICES ASSUME NEW x \in Member, NEW y \in Member
             PROVE  /\ \A m \in Wire(x, y) :
                          /\ m.term \in Nat
                          /\ IsAppend(m) => m \in Appended
                          /\ IsAsk(m) => /\ m.last_log_index \in Nat
                                         /\ m.last_log_term \in Nat
                    /\ \A r \in Ans(x, y) : r.term \in Nat /\ (IsAck(r) => r.match_index \in Nat)
                    /\ peers[x][y].match_index \in Nat /\ peers[x][y].promote_through \in Nat
  BY DEF MessageTypes
<1>1. peers[x][y].match_index \in Nat /\ peers[x][y].promote_through \in Nat
  <2>1. peers[x][y] \in PeerState
    BY MemberFacts
  <2>2. QED
    BY <2>1 DEF PeerState
<1>2. ASSUME NEW m \in Wire(x, y)
      PROVE  /\ m.term \in Nat
             /\ IsAppend(m) => m \in Appended
             /\ IsAsk(m) => m.last_log_index \in Nat /\ m.last_log_term \in Nat
  <2>1. m \in Request
    BY InFlight DEF Inv, Wire
  <2>2. m \in Sent
    BY <2>1 DEF Sent, Wire
  <2>3. m.term \in Nat /\ (IsAppend(m) => m \in Appended)
    BY <2>1, <2>2 DEF Appended, IsAppend, Request, RequestVote, AppendEntries, Promote
  <2>4. IsAsk(m) => m.last_log_index \in Nat /\ m.last_log_term \in Nat
    BY <2>1 DEF IsAsk, Request, RequestVote, AppendEntries, Promote
  <2>5. QED
    BY <2>3, <2>4
<1>3. ASSUME NEW r \in Ans(x, y)
      PROVE  r.term \in Nat /\ (IsAck(r) => r.match_index \in Nat)
  <2>1. rep[x][y] \in Seq(Answer)
    BY DEF Inv, NetworkOK
  <2>2. r \in Answer
    BY <2>1, RangeOfSeq DEF Ans
  <2>3. QED
    BY <2>2 DEF Answer, RequestVoteReply, AppendEntriesReply, IsAck
<1>4. QED
  BY <1>1, <1>2, <1>3

\* What the invariant of the logs says, index by index.
LEMMA SpanFacts ==
  ASSUME Inv, SpansInv
  PROVE  LogsLed /\ LogsMatched /\ LeaderNewest /\ AppendsMatched /\ AppendsLed
<1>1. LogTypes /\ AppendTypes
  BY LogFacts, AppendFacts DEF SpansInv
<1>2. \A m \in Appended : AppendSpan(m) \in Spans
  BY DEF Spans
<1>3. LogsLed
  <2> SUFFICES ASSUME NEW i \in Member, NEW x \in 1 .. LastIndex(log[i])
               PROVE  Led(TermAt(log[i], x))
    BY DEF LogsLed
  <2>1. x \in 0 .. LastIndex(log[i]) /\ x # 0
    BY <1>1 DEF LogTypes
  <2>2. \E e \in elected : e[1] = LogSpan(log[i])[x]
    BY <2>1, LogSaid DEF SpansInv, TermsLed
  <2>3. QED
    BY <2>1, <2>2, LogSaid DEF Led
<1>4. LogsMatched
  <2> SUFFICES ASSUME NEW i \in Member, NEW j \in Member, NEW n \in 0 .. LastIndex(log[i]),
                      n <= LastIndex(log[j]), TermAt(log[i], n) = TermAt(log[j], n),
                      NEW x \in 0 .. n
               PROVE  TermAt(log[i], x) = TermAt(log[j], x)
    BY DEF LogsMatched
  <2>1. /\ n \in 0 .. LastIndex(log[j]) /\ x \in 0 .. LastIndex(log[j])
        /\ x \in 0 .. LastIndex(log[i]) /\ x <= n
    BY <1>1 DEF LogTypes
  <2>2. Agree(LogSpan(log[i]), LogSpan(log[j]))
    BY LogSaid DEF SpansInv, Matched
  <2>3. LogSpan(log[i])[x] = LogSpan(log[j])[x]
    BY <2>1, <2>2, LogSaid DEF Agree
  <2>4. QED
    BY <2>1, <2>3, LogSaid
<1>5. LeaderNewest
  <2> SUFFICES ASSUME NEW k \in Member, NEW i \in Member, role[k] = "LEADER",
                      NEW x \in 1 .. LastIndex(log[i]), TermAt(log[i], x) = term[k]
               PROVE  x <= LastIndex(log[k])
    BY DEF LeaderNewest
  <2>1. x \in 0 .. LastIndex(log[i]) /\ x > 0
    BY <1>1 DEF LogTypes
  <2>2. Within(term[k], LastIndex(log[k]))
    BY DEF SpansInv, LeaderHolds
  <2>3. QED
    BY <2>1, <2>2, LogSaid DEF Within
<1>6. AppendsMatched
  <2> SUFFICES ASSUME NEW m \in Appended, NEW i \in Member,
                      NEW n \in m.prev_log_index .. Through(m),
                      n <= LastIndex(log[i]), TermAt(log[i], n) = AppendSpan(m)[n],
                      NEW x \in m.prev_log_index .. n
               PROVE  TermAt(log[i], x) = AppendSpan(m)[x]
    BY DEF AppendsMatched
  <2>1. m.prev_log_index \in Nat /\ LastIndex(log[i]) \in Nat /\ Through(m) \in Nat
    BY <1>1 DEF LogTypes, AppendTypes
  <2>2. /\ n \in 0 .. LastIndex(log[i]) /\ x \in 0 .. LastIndex(log[i])
        /\ x \in m.prev_log_index .. Through(m) /\ x <= n
    BY <2>1
  <2>3. Agree(LogSpan(log[i]), AppendSpan(m))
    BY <1>2, LogSaid DEF SpansInv, Matched
  <2>4. DOMAIN AppendSpan(m) = m.prev_log_index .. Through(m)
    BY <1>1 DEF AppendTypes
  <2>5. LogSpan(log[i])[x] = AppendSpan(m)[x]
    BY <2>2, <2>3, <2>4, LogSaid DEF Agree
  <2>6. QED
    BY <2>2, <2>5, LogSaid
<1>7. AppendsLed
  <2> SUFFICES ASSUME NEW m \in Appended, NEW x \in m.prev_log_index .. Through(m), x > 0
               PROVE  Led(AppendSpan(m)[x])
    BY DEF AppendsLed
  <2>1. x \in DOMAIN AppendSpan(m) /\ x # 0
    BY <1>1 DEF AppendTypes
  <2>2. QED
    BY <1>2, <2>1 DEF SpansInv, TermsLed, Led
<1>8. QED
  BY <1>3, <1>4, <1>5, <1>6, <1>7

\* A vote that is counted, or is about to be, was cast, and its voter has
\* entered its term.
LEMMA VotersAhead ==
  ASSUME Inv, VoteInv, NEW e \in cast
  PROVE  e[2] \in Member /\ e[1] \in Nat /\ term[e[2]] >= e[1]
<1>1. e[2] \in Member /\ e[1] \in Nat
  BY DEF Inv, LedgerOK
<1>2. disk[e[2]].term \in Nat /\ term[e[2]] \in Nat /\ disk[e[2]].term <= term[e[2]]
  BY <1>1, FileFacts DEF Inv, VoteInv, FileFollowed
<1>3. disk[e[2]].term >= e[1]
  <2>1. CASE disk[e[2]].term > e[1]
    BY <1>1, <1>2, <2>1
  <2>2. CASE disk[e[2]] = [term |-> e[1], voted_for |-> e[3]]
    <3>1. disk[e[2]].term = e[1]
      BY <2>2
    <3>2. QED
      BY <1>1, <3>1
  <2>3. QED
    BY <2>1, <2>2 DEF VoteInv, VoteIsDurable
<1>4. QED
  BY <1>1, <1>2, <1>3

LEMMA BackersFacts ==
  ASSUME Inv, VoteInv, BallotLink, saveFailures = 0
  PROVE  BackersAhead
<1> SUFFICES ASSUME NEW k \in Member, role[k] = "CANDIDATE", NEW v \in Backers(k)
             PROVE  term[v] >= term[k]
  BY DEF BackersAhead
<1>1. v \in Member
  BY DEF Backers
<1>2. <<term[k], v, k>> \in cast
  <2>1. CASE v \in round[k].votes
    BY <2>1 DEF BallotLink, VotesOK
  <2>2. CASE \E r \in Ans(k, v) : IsVoteReply(r) /\ r.term = term[k] /\ r.granted
    <3>1. PICK r \in Ans(k, v) : IsVoteReply(r) /\ r.term = term[k] /\ r.granted
      BY <2>2
    <3>2. PICK n \in DOMAIN rep[k][v] : r = rep[k][v][n]
      BY DEF Ans, Range
    <3>3. IsGrant(rep[k][v][n])
      BY <3>1, <3>2 DEF IsGrant, IsVoteReply
    <3>4. QED
      BY <1>1, <3>1, <3>2, <3>3 DEF BallotLink, RepliesOK
  <2>3. QED
    BY <2>1, <2>2 DEF Backers
<1>3. QED
  BY <1>2, VotersAhead

LEMMA QuorumFacts ==
  ASSUME Inv, VoteInv, ElectedByQuorum
  PROVE  LedQuorum
<1> SUFFICES ASSUME NEW e \in elected
             PROVE  \E V \in SUBSET Member :
                        Cardinality(V) >= Quorum /\ \A v \in V : term[v] >= e[1]
  BY DEF LedQuorum
<1> DEFINE V == {v \in Member : <<e[1], v, e[2]>> \in cast}
<1>1. Cardinality(V) >= Quorum
  BY DEF ElectedByQuorum
<1>2. ASSUME NEW v \in V PROVE term[v] >= e[1]
  BY VotersAhead
<1>3. QED
  BY <1>1, <1>2

\* All of this holds as long as no save has failed.
LEMMA KnownHolds == Spec /\ [](saveFailures = 0) => []Known
<1>1. Inv /\ (VoteInv /\ BallotLink) /\ saveFailures = 0 /\ MatchInv
        /\ ElectionSafety /\ ElectedByQuorum => Known
  BY LogFacts, AppendFacts, MessageFacts, SpanFacts, BackersFacts, QuorumFacts
     DEF Known, MatchInv, SpansInv, LedInv
<1>2. QED
  BY <1>1, InvHolds, VoteInvHolds, MatchInvHolds, OneLeaderATerm, LeadersHaveQuorums, PTL

-----------------------------------------------------------------------------
(* Terms only rise along a log, and nobody speaks of a term before its time *)

LogsSorted ==
    \A i \in Member :
        /\ \A x, y \in 0 .. LastIndex(log[i]) :
              x <= y => TermAt(log[i], x) <= TermAt(log[i], y)
        /\ TermAt(log[i], LastIndex(log[i])) <= term[i]

AppendsSorted ==
    \A m \in Appended :
        /\ \A x, y \in m.prev_log_index .. Through(m) :
              x <= y => AppendSpan(m)[x] <= AppendSpan(m)[y]
        /\ AppendSpan(m)[Through(m)] <= m.term

\* An append or a promotion was sent by a leader of its term...
RequestsLed ==
    /\ \A m \in Appended : Led(m.term)
    /\ \A x, y \in Member : \A m \in Wire(x, y) : IsPromote(m) => Led(m.term)

\* ...and while that leader leads its log says all that the append says.
AppendsPart ==
    \A m \in Appended, k \in Member : role[k] = "LEADER" /\ m.term = term[k] =>
        /\ Through(m) <= LastIndex(log[k])
        /\ \A x \in m.prev_log_index .. Through(m) : AppendSpan(m)[x] = TermAt(log[k], x)

\* A candidate asks for a vote with what its log says.
AsksOK ==
    \A x, y \in Member : \A m \in Wire(x, y) : IsAsk(m) =>
        /\ m.term <= term[x]
        /\ role[x] = "CANDIDATE" /\ m.term = term[x] =>
              m.last_log_index = LastIndex(log[x]) /\ m.last_log_term = LastTerm(log[x])

\* Who answers has entered the term it answers in; a vote and an acknowledgement
\* answer what was sent in that term.
AnswersOK ==
    \A x, y \in Member : \A r \in Ans(x, y) :
        /\ IsVoteReply(r) \/ IsAck(r) => r.term <= term[y]
        /\ IsVoteReply(r) /\ r.granted => r.term <= term[x]
        /\ IsAck(r) => Led(r.term)

\* A peer that is catching up is connected, and one that has acknowledged an
\* entry has entered its leader's term.
RowsOK ==
    \A k, j \in Member : role[k] = "LEADER" =>
        /\ link[k][j] = "down" => ~peers[k][j].catching_up
        /\ peers[k][j].match_index > 0 => term[j] >= term[k]

Base ==
    /\ Silent /\ Files
    /\ LogsSorted /\ AppendsSorted /\ RequestsLed /\ AppendsPart
    /\ AsksOK /\ AnswersOK /\ RowsOK

\* A step as long as no save fails.
Stepped == Known /\ Known' /\ Base /\ SafeMove /\ elected \subseteq elected'

LEMMA TermsRise ==
  ASSUME Stepped, NEW k \in Member
  PROVE  term'[k] >= term[k] /\ term[k] \in Nat /\ term'[k] \in Nat
<1>1. term[k] \in Nat /\ term'[k] \in Nat
  BY DEF Stepped, Known, LogTypes
<1>2. MemberMove(k)
  BY DEF Stepped, SafeMove, MemberMoves
<1>3. QED
  BY <1>1, <1>2 DEF MemberMove, Rests, Campaigns, Forgets, Adds, Wins, Joins, TakesFrom

\* A leader was the leader of its term, or has just won.
LEMMA LeaderMoves ==
  ASSUME Stepped, NEW k \in Member, role'[k] = "LEADER"
  PROVE  /\ term'[k] = term[k]
         /\ \/ role[k] = "LEADER" /\ (log'[k] = log[k] \/ Adds(k))
            \/ Wins(k)
<1>1. MemberMove(k)
  BY DEF Stepped, SafeMove, MemberMoves
<1>2. QED
  BY <1>1 DEF MemberMove, Rests, Campaigns, Forgets, Adds, Wins, Joins, TakesFrom

\* A candidate was the candidate of its term, or has just become one.
LEMMA CandidateMoves ==
  ASSUME Stepped, NEW k \in Member, role'[k] = "CANDIDATE"
  PROVE  /\ log'[k] = log[k]
         /\ \/ role[k] = "CANDIDATE" /\ term'[k] = term[k]
            \/ Campaigns(k)
<1>1. MemberMove(k)
  BY DEF Stepped, SafeMove, MemberMoves
<1>2. QED
  BY <1>1 DEF MemberMove, Rests, Campaigns, Forgets, Adds, Wins, Joins, TakesFrom

\* Every append was in flight, or a leader has just sent it.
LEMMA AppendIsNew ==
  ASSUME Stepped, NEW m \in Appended', m \notin Appended
  PROVE  \E x \in Member : NewAppend(x, m)
<1>1. m \in Request /\ m.type = "AppendEntries"
  BY DEF Appended, Sent
<1>2. PICK x \in Member, y \in Member : m \in Wire(x, y)'
  BY DEF Appended, Sent, Wire
<1>3. m \notin Wire(x, y)
  BY <1>1 DEF Stepped, Known, MessageTypes, IsAppend
<1>4. NewRequest(x, y, m)
  BY <1>2, <1>3 DEF Stepped, SafeMove, NetMoves, WireMove
<1>5. QED
  BY <1>1, <1>4 DEF NewRequest, NewAsk, NewPromote, IsAsk, IsPromote

\* Who wins a term is its first leader.
LEMMA WinnerIsNew ==
  ASSUME Stepped, NEW k \in Member, Wins(k)
  PROVE  ~Led(term[k]) /\ <<term[k], k>> \in elected'
<1>1. <<term[k], k>> \in elected' /\ <<term[k], k>> \notin elected
  BY DEF Wins, Stepped, Known, CandidatesNew
<1>2. ASSUME NEW e \in elected, e[1] = term[k]
      PROVE  FALSE
  <2>1. e \in elected' /\ ElectionSafety'
    BY DEF Stepped, Known
  <2>2. e = <<term[k], k>>
    BY <1>1, <1>2, <2>1 DEF ElectionSafety
  <2>3. QED
    BY <1>1, <2>2
<1>3. QED
  BY <1>1, <1>2 DEF Led

LEMMA LedGrows ==
  ASSUME Stepped, NEW t
  PROVE  /\ Led(t) => Led(t)'
         /\ LaterLed(t) => LaterLed(t)'
BY DEF Stepped, Led, LaterLed

\* What a log says once its owner has appended an entry of its term.
LEMMA LogLonger ==
  ASSUME Stepped, NEW k \in Member, log'[k] = AppendLocal(log[k], term[k])
  PROVE  /\ LastIndex(log'[k]) = LastIndex(log[k]) + 1
         /\ \A x \in 0 .. LastIndex(log[k]) : TermAt(log'[k], x) = TermAt(log[k], x)
         /\ TermAt(log'[k], LastIndex(log[k]) + 1) = term[k]
<1>1. log[k] \in FullLog /\ term[k] \in Nat
  BY MemberFacts DEF Stepped, Known
<1>2. QED
  BY <1>1, LongerSays

\* What a log says once its owner has taken an append.
LEMMA TakenSays ==
  ASSUME Stepped, NEW k \in Member, NEW j \in Member, NEW m, TakesFrom(k, j, m),
         NEW p, p = m.prev_log_index, NEW q, q = Through(m)
  PROVE  /\ m \in Appended
         /\ p \in Nat /\ q \in Nat /\ p <= q
         /\ p <= LastIndex(log[k]) /\ q <= LastIndex(log'[k])
         /\ \A x \in 0 .. p : TermAt(log'[k], x) = TermAt(log[k], x)
         /\ \A x \in p .. q : TermAt(log'[k], x) = AppendSpan(m)[x]
         /\ TermAt(log[k], p) = AppendSpan(m)[p]
         /\ log'[k] = log[k] \/ LastIndex(log'[k]) = q
         /\ (\A x \in p .. q : x <= LastIndex(log[k]) /\ TermAt(log[k], x) = AppendSpan(m)[x])
               => log'[k] = log[k]
<1>1. m \in Wire(j, k) /\ IsAppend(m) /\ p <= LastIndex(log[k])
      /\ (p = 0 \/ TermAt(log[k], p) = m.prev_log_term)
      /\ log'[k] = AppendReplicated(log[k], p + 1, m.entries)
  BY DEF TakesFrom
<1>2. m \in Appended
  BY <1>1 DEF Stepped, Known, MessageTypes
<1>3. m \in AppendEntries
  BY <1>2 DEF Appended, Sent, Request, RequestVote, Promote, AppendEntries
<1>4. /\ p \in Nat /\ q \in Nat /\ p <= q /\ q = p + Len(m.entries)
      /\ AppendSpan(m)[p] = m.prev_log_term /\ (p = 0 => m.prev_log_term = 0)
  BY <1>2 DEF Stepped, Known, AppendTypes, Through
<1>5. m.entries \in Seq(Nat) /\ Len(m.entries) \in Nat /\ DOMAIN m.entries = 1 .. Len(m.entries)
  BY <1>3, LenProperties DEF AppendEntries
<1> DEFINE l == log[k]
           a == log'[k]
<1>6. l \in FullLog /\ a \in FullLog /\ LastIndex(l) \in Nat /\ LastIndex(a) \in Nat
  BY MemberFacts, LastType DEF Stepped, Known, Inv, ReplicationOK
<1>7. /\ a = AppendReplicated(l, p + 1, m.entries) /\ p <= LastIndex(l)
      /\ p = 0 \/ TermAt(l, p) = m.prev_log_term
  BY <1>1
<1> HIDE DEF l, a
<1>8. /\ p <= LastIndex(a)
      /\ \A n \in 0 .. p : LogSpan(a)[n] = LogSpan(l)[n]
      /\ \/ a = l /\ HoldsAll(l, p + 1, m.entries)
         \/ /\ LastIndex(a) = q
            /\ \A n \in p + 1 .. q : LogSpan(a)[n] = AppendSpan(m)[n]
  <2>1. /\ p <= LastIndex(a)
        /\ \A n \in 0 .. p : LogSpan(a)[n] = LogSpan(l)[n]
        /\ \/ a = l /\ HoldsAll(l, p + 1, m.entries)
           \/ /\ LastIndex(a) = p + Len(m.entries)
              /\ \A n \in p + 1 .. p + Len(m.entries) : LogSpan(a)[n] = AppendSpan(m)[n]
    BY <1>3, <1>4, <1>6, <1>7, AppendReplicatedSpan
  <2>2. QED
    BY <1>4, <2>1
<1>9. /\ \A x \in 0 .. LastIndex(l) : LogSpan(l)[x] = TermAt(l, x)
      /\ \A x \in 0 .. LastIndex(a) : LogSpan(a)[x] = TermAt(a, x)
      /\ LogSpan(l)[0] = 0
  BY <1>6, LogSpanIs
<1>10. \A x \in 0 .. p : TermAt(a, x) = TermAt(l, x)
  <2> TAKE x \in 0 .. p
  <2>1. x \in 0 .. LastIndex(l) /\ x \in 0 .. LastIndex(a)
    BY <1>4, <1>6, <1>7, <1>8
  <2>2. QED
    BY <1>8, <1>9, <2>1
<1>11. TermAt(l, p) = AppendSpan(m)[p]
  <2>1. CASE p = 0
    <3>1. 0 \in 0 .. LastIndex(l)
      BY <1>6
    <3>2. TermAt(l, 0) = 0
      BY <1>9, <3>1
    <3>3. QED
      BY <1>4, <2>1, <3>2
  <2>2. CASE p # 0
    BY <1>4, <1>7, <2>2
  <2>3. QED
    BY <2>1, <2>2
<1> DEFINE Held == \A x \in p .. q : x <= LastIndex(l) /\ TermAt(l, x) = AppendSpan(m)[x]
<1>12. ASSUME NEW n \in 1 .. Len(m.entries)
       PROVE  /\ p + 1 + n - 1 = p + n /\ p + n \in p .. q /\ p + n \in Nat /\ p + n # 0
              /\ AppendSpan(m)[p + n] = m.entries[n]
              /\ Get(l, p + n) = TermAt(l, p + n)
  <2>1. p + 1 + n - 1 = p + n /\ p + n \in p .. q /\ p + n \in Nat /\ p + n # 0
    BY <1>4, <1>5
  <2>2. AppendSpan(m)[p + n] = m.entries[n]
    BY <1>3, AppendSpanIs
  <2>3. Get(l, p + n) = TermAt(l, p + n)
    BY <1>6, <2>1 DEF TermAt, FullLog
  <2>4. QED
    BY <2>1, <2>2, <2>3
<1>13. HoldsAll(l, p + 1, m.entries) <=> Held
  <2>1. ASSUME Held PROVE HoldsAll(l, p + 1, m.entries)
    <3>1. ASSUME NEW n \in Unheld(l, p + 1, m.entries) PROVE FALSE
      <4>1. n \in 1 .. Len(m.entries)
            /\ (p + 1 + n - 1 > LastIndex(l) \/ Get(l, p + 1 + n - 1) # m.entries[n])
        BY <1>5 DEF Unheld
      <4>2. p + n <= LastIndex(l) /\ TermAt(l, p + n) = AppendSpan(m)[p + n]
        BY <1>12, <2>1, <4>1
      <4>3. p + n \in Nat /\ ~(p + n > LastIndex(l))
        BY <1>6, <1>12, <4>1, <4>2
      <4>4. QED
        BY <1>12, <4>1, <4>2, <4>3
    <3>2. QED
      BY <3>1 DEF HoldsAll
  <2>2. ASSUME HoldsAll(l, p + 1, m.entries) PROVE Held
    <3>1. ASSUME NEW x \in p .. q, x # p
          PROVE  x <= LastIndex(l) /\ TermAt(l, x) = AppendSpan(m)[x]
      <4> DEFINE n == x - p
      <4>1. n \in 1 .. Len(m.entries) /\ p + n = x
        BY <1>4, <1>5, <3>1
      <4> HIDE DEF n
      <4>2. p + n > l.snapshot_index
        BY <1>4, <1>5, <1>6, <4>1 DEF FullLog
      <4>3. n \notin Unheld(l, p + 1, m.entries) /\ p + 1 + n - 1 = p + n
        BY <1>12, <2>2, <4>1 DEF HoldsAll
      <4>4. ~(p + n > LastIndex(l)) /\ Get(l, p + n) = m.entries[n]
        BY <1>5, <4>1, <4>2, <4>3 DEF Unheld
      <4>5. p + n \in Nat
        BY <1>12, <4>1
      <4>6. QED
        BY <1>6, <1>12, <4>1, <4>4, <4>5
    <3>2. QED
      BY <1>7, <1>11, <3>1
  <2>3. QED
    BY <2>1, <2>2
<1>14. Held => a = l
  BY <1>7, <1>13 DEF AppendReplicated, HoldsAll
<1>15. q <= LastIndex(a) /\ \A x \in p .. q : TermAt(a, x) = AppendSpan(m)[x]
  <2>1. CASE a = l /\ HoldsAll(l, p + 1, m.entries)
    <3>1. Held
      BY <1>13, <2>1
    <3>2. q \in p .. q
      BY <1>4
    <3>3. QED
      BY <2>1, <3>1, <3>2
  <2>2. CASE LastIndex(a) = q /\ \A n \in p + 1 .. q : LogSpan(a)[n] = AppendSpan(m)[n]
    <3>1. ASSUME NEW x \in p .. q
          PROVE  TermAt(a, x) = AppendSpan(m)[x]
      <4>1. CASE x = p
        <5>1. p \in 0 .. p
          BY <1>4
        <5>2. QED
          BY <1>10, <1>11, <4>1, <5>1
      <4>2. CASE x # p
        <5>1. x \in p + 1 .. q /\ x \in 0 .. LastIndex(a)
          BY <1>4, <2>2, <4>2
        <5>2. QED
          BY <1>9, <2>2, <5>1
      <4>3. QED
        BY <4>1, <4>2
    <3>2. q <= LastIndex(a)
      BY <1>4, <2>2
    <3>3. QED
      BY <3>1, <3>2
  <2>3. QED
    BY <1>8, <2>1, <2>2
<1>16. a = l \/ LastIndex(a) = q
  BY <1>8
<1>17. (\A x \in p .. q : x <= LastIndex(l) /\ TermAt(l, x) = AppendSpan(m)[x]) => a = l
  BY <1>14
<1> HIDE DEF Held
<1>18. QED
  BY <1>2, <1>4, <1>7, <1>10, <1>11, <1>15, <1>16, <1>17 DEF l, a

-----------------------------------------------------------------------------
(* Every step keeps this *)

\* What was said of a member's own log by a new append of its.
LEMMA NewAppendSays ==
  ASSUME Stepped, NEW x \in Member, NEW m \in Appended', NewAppend(x, m)
  PROVE  /\ Through(m) <= LastIndex(log'[x])
         /\ \A y \in m.prev_log_index .. Through(m) :
               y \in 0 .. LastIndex(log'[x]) /\ AppendSpan(m)[y] = TermAt(log'[x], y)
<1>1. /\ m.prev_log_index \in Nat /\ Through(m) \in Nat /\ m.prev_log_index <= Through(m)
      /\ DOMAIN AppendSpan(m) = m.prev_log_index .. Through(m)
      /\ LastIndex(log'[x]) \in Nat
  BY DEF Stepped, Known, AppendTypes, LogTypes
<1>2. log'[x] \in FullLog
  BY DEF Stepped, Known, Inv, ReplicationOK
<1>3. Part(AppendSpan(m), LogSpan(log'[x]))
  BY DEF NewAppend
<1>4. /\ DOMAIN LogSpan(log'[x]) = 0 .. LastIndex(log'[x])
      /\ \A y \in 0 .. LastIndex(log'[x]) : LogSpan(log'[x])[y] = TermAt(log'[x], y)
  BY <1>2, LogSpanIs
<1>5. ASSUME NEW y \in m.prev_log_index .. Through(m)
      PROVE  y \in 0 .. LastIndex(log'[x]) /\ AppendSpan(m)[y] = TermAt(log'[x], y)
  BY <1>1, <1>3, <1>4 DEF Part
<1>6. Through(m) \in m.prev_log_index .. Through(m)
  BY <1>1
<1>7. QED
  BY <1>1, <1>5, <1>6

LEMMA LogsSortedKept ==
  ASSUME Stepped
  PROVE  LogsSorted'
<1> SUFFICES ASSUME NEW i \in Member
             PROVE  /\ \A x, y \in 0 .. LastIndex(log'[i]) :
                          x <= y => TermAt(log'[i], x) <= TermAt(log'[i], y)
                    /\ TermAt(log'[i], LastIndex(log'[i])) <= term'[i]
  BY DEF LogsSorted
<1> DEFINE n == LastIndex(log[i])
<1>1. /\ n \in Nat /\ term[i] \in Nat /\ term'[i] \in Nat /\ term'[i] >= term[i]
      /\ LastIndex(log'[i]) \in Nat
      /\ \A x \in 0 .. n : TermAt(log[i], x) \in Nat
      /\ \A x \in 0 .. LastIndex(log'[i]) : TermAt(log'[i], x) \in Nat
  BY TermsRise DEF Stepped, Known, LogTypes
<1>2. /\ \A x, y \in 0 .. n : x <= y => TermAt(log[i], x) <= TermAt(log[i], y)
      /\ TermAt(log[i], n) <= term[i]
  BY DEF Stepped, Base, LogsSorted
<1>3. n \in 0 .. n /\ TermAt(log[i], n) \in Nat
  BY <1>1
<1>4. \A x \in 0 .. n : TermAt(log[i], x) <= TermAt(log[i], n)
  BY <1>1, <1>2, <1>3
<1>5. CASE log'[i] = log[i]
  BY <1>1, <1>2, <1>3, <1>5
<1>6. CASE log'[i] = AppendLocal(log[i], term[i])
  <2>1. /\ LastIndex(log'[i]) = n + 1
        /\ \A x \in 0 .. n : TermAt(log'[i], x) = TermAt(log[i], x)
        /\ TermAt(log'[i], n + 1) = term[i]
    BY <1>6, LogLonger
  <2>2. ASSUME NEW x \in 0 .. LastIndex(log'[i]), NEW y \in 0 .. LastIndex(log'[i]), x <= y
        PROVE  TermAt(log'[i], x) <= TermAt(log'[i], y)
    <3>1. CASE y \in 0 .. n
      <4>1. x \in 0 .. n
        BY <1>1, <2>2, <3>1
      <4>2. QED
        BY <1>2, <2>1, <2>2, <3>1, <4>1
    <3>2. CASE y = n + 1 /\ x \in 0 .. n
      BY <1>1, <1>2, <1>3, <1>4, <2>1, <3>2
    <3>3. CASE y = n + 1 /\ x = n + 1
      BY <1>1, <2>1, <3>3
    <3>4. QED
      BY <1>1, <2>1, <3>1, <3>2, <3>3
  <2>3. QED
    BY <1>1, <2>1, <2>2
<1>7. CASE log'[i] = EmptyLog
  <2>1. EmptyLog \in FullLog /\ LastIndex(EmptyLog) = 0
    BY FreshTypes
  <2>2. TermAt(EmptyLog, 0) = 0
    BY <2>1, TermAtIs
  <2>3. QED
    BY <1>1, <1>7, <2>1, <2>2
<1>8. ASSUME NEW j \in Member, NEW m \in Wire(j, i), TakesFrom(i, j, m), log'[i] # log[i]
      PROVE  /\ \A x, y \in 0 .. LastIndex(log'[i]) :
                          x <= y => TermAt(log'[i], x) <= TermAt(log'[i], y)
             /\ TermAt(log'[i], LastIndex(log'[i])) <= term'[i]
  <2> DEFINE p == m.prev_log_index
             q == Through(m)
  <2>1. /\ m \in Appended
        /\ p \in Nat /\ q \in Nat /\ p <= q
        /\ p <= n /\ LastIndex(log'[i]) = q
        /\ \A x \in 0 .. p : TermAt(log'[i], x) = TermAt(log[i], x)
        /\ \A x \in p .. q : TermAt(log'[i], x) = AppendSpan(m)[x]
        /\ TermAt(log[i], p) = AppendSpan(m)[p]
    BY <1>8, TakenSays
  <2>2. /\ \A x, y \in p .. q : x <= y => AppendSpan(m)[x] <= AppendSpan(m)[y]
        /\ AppendSpan(m)[q] <= m.term
        /\ \A x \in p .. q : AppendSpan(m)[x] \in Nat
    BY <2>1 DEF Stepped, Known, AppendTypes, Base, AppendsSorted
  <2>3. m.term = term'[i]
    BY <1>8 DEF TakesFrom
  <2> HIDE DEF p, q
  <2>4. TermAt(log'[i], q) <= term'[i]
    <3>1. q \in p .. q
      BY <2>1
    <3>2. QED
      BY <2>1, <2>2, <2>3, <3>1
  <2>5. ASSUME NEW x \in 0 .. q, NEW y \in 0 .. q, x <= y
        PROVE  TermAt(log'[i], x) <= TermAt(log'[i], y)
    <3>1. CASE y <= p
      <4>1. x \in 0 .. p /\ y \in 0 .. p /\ x \in 0 .. n /\ y \in 0 .. n
        BY <1>1, <2>1, <2>5, <3>1
      <4>2. QED
        BY <1>2, <2>1, <2>5, <4>1
    <3>2. CASE y > p /\ x >= p
      <4>1. x \in p .. q /\ y \in p .. q
        BY <2>1, <3>2
      <4>2. QED
        BY <2>1, <2>2, <2>5, <4>1
    <3>3. CASE y > p /\ x < p
      <4>1. /\ x \in 0 .. p /\ x \in 0 .. n /\ p \in 0 .. n /\ x <= p /\ p <= y
            /\ y \in p .. q /\ p \in p .. q
        BY <1>1, <2>1, <3>3
      <4>2. TermAt(log[i], x) <= TermAt(log[i], p) /\ AppendSpan(m)[p] <= AppendSpan(m)[y]
        BY <1>2, <2>2, <4>1
      <4>3. TermAt(log'[i], x) = TermAt(log[i], x) /\ TermAt(log'[i], y) = AppendSpan(m)[y]
        BY <2>1, <4>1
      <4>4. TermAt(log[i], x) \in Nat /\ AppendSpan(m)[p] \in Nat /\ AppendSpan(m)[y] \in Nat
        BY <1>1, <2>2, <4>1
      <4>5. QED
        BY <2>1, <4>2, <4>3, <4>4
    <3>4. QED
      BY <2>1, <3>1, <3>2, <3>3
  <2>6. QED
    BY <2>1, <2>4, <2>5
<1>9. MemberMove(i)
  BY DEF Stepped, SafeMove, MemberMoves
<1> HIDE DEF n
<1>10. QED
  BY <1>5, <1>6, <1>7, <1>8, <1>9
     DEF MemberMove, Rests, Campaigns, Forgets, Adds, Wins, Joins

LEMMA AppendsSortedKept ==
  ASSUME Stepped
  PROVE  AppendsSorted'
<1> SUFFICES ASSUME NEW m \in Appended'
             PROVE  /\ \A x, y \in m.prev_log_index .. Through(m) :
                          x <= y => AppendSpan(m)[x] <= AppendSpan(m)[y]
                    /\ AppendSpan(m)[Through(m)] <= m.term
  BY DEF AppendsSorted
<1>1. CASE m \in Appended
  BY <1>1 DEF Stepped, Base, AppendsSorted
<1>2. CASE m \notin Appended
  <2>1. PICK k \in Member : NewAppend(k, m)
    BY <1>2, AppendIsNew
  <2> DEFINE n == LastIndex(log'[k])
  <2>2. /\ n \in Nat /\ m.prev_log_index \in Nat /\ Through(m) \in Nat
        /\ m.prev_log_index <= Through(m) /\ term'[k] \in Nat
        /\ \A x \in 0 .. n : TermAt(log'[k], x) \in Nat
    BY DEF Stepped, Known, LogTypes, AppendTypes
  <2>3. /\ Through(m) <= n
        /\ \A y \in m.prev_log_index .. Through(m) :
              y \in 0 .. n /\ AppendSpan(m)[y] = TermAt(log'[k], y)
    BY <2>1, NewAppendSays
  <2>4. /\ \A x, y \in 0 .. n : x <= y => TermAt(log'[k], x) <= TermAt(log'[k], y)
        /\ TermAt(log'[k], n) <= term'[k]
    BY LogsSortedKept DEF LogsSorted
  <2>5. m.term = term'[k]
    BY <2>1 DEF NewAppend
  <2> HIDE DEF n
  <2>6. Through(m) \in m.prev_log_index .. Through(m) /\ n \in 0 .. n
    BY <2>2
  <2>7. TermAt(log'[k], Through(m)) <= TermAt(log'[k], n)
    BY <2>3, <2>4, <2>6
  <2>8. /\ TermAt(log'[k], Through(m)) \in Nat /\ TermAt(log'[k], n) \in Nat
        /\ AppendSpan(m)[Through(m)] = TermAt(log'[k], Through(m))
    BY <2>2, <2>3, <2>6
  <2>9. AppendSpan(m)[Through(m)] <= m.term
    BY <2>2, <2>4, <2>5, <2>7, <2>8
  <2>10. \A x, y \in m.prev_log_index .. Through(m) :
                          x <= y => AppendSpan(m)[x] <= AppendSpan(m)[y]
    BY <2>3, <2>4
  <2>11. QED
    BY <2>9, <2>10
<1>3. QED
  BY <1>1, <1>2

LEMMA RequestsLedKept ==
  ASSUME Stepped
  PROVE  RequestsLed'
<1>1. ASSUME NEW x \in Member, role'[x] = "LEADER", NEW t, t = term'[x]
      PROVE  Led(t)'
  <2>1. <<term'[x], x>> \in elected'
    BY <1>1 DEF Stepped, Known, LeadersElected
  <2>2. QED
    BY <1>1, <2>1 DEF Led
<1>2. ASSUME NEW m \in Appended'
      PROVE  Led(m.term)'
  <2>1. CASE m \in Appended
    BY <2>1, LedGrows DEF Stepped, Base, RequestsLed
  <2>2. CASE m \notin Appended
    <3>1. PICK x \in Member : NewAppend(x, m)
      BY <2>2, AppendIsNew
    <3>2. QED
      BY <1>1, <3>1 DEF NewAppend
  <2>3. QED
    BY <2>1, <2>2
<1>3. ASSUME NEW x \in Member, NEW y \in Member, NEW m \in Wire(x, y)', IsPromote(m)
      PROVE  Led(m.term)'
  <2>1. CASE m \in Wire(x, y)
    BY <1>3, <2>1, LedGrows DEF Stepped, Base, RequestsLed
  <2>2. CASE NewRequest(x, y, m)
    <3>1. NewPromote(x, y, m)
      BY <1>3, <2>2 DEF NewRequest, NewAsk, NewAppend, IsPromote, IsAsk, IsAppend
    <3>2. QED
      BY <1>1, <3>1 DEF NewPromote
  <2>3. QED
    BY <2>1, <2>2 DEF Stepped, SafeMove, NetMoves, WireMove
<1>4. QED
  BY <1>2, <1>3 DEF RequestsLed

LEMMA AppendsPartKept ==
  ASSUME Stepped
  PROVE  AppendsPart'
<1> SUFFICES ASSUME NEW m \in Appended', NEW k \in Member,
                    role'[k] = "LEADER", m.term = term'[k]
             PROVE  /\ Through(m) <= LastIndex(log'[k])
                    /\ \A x \in m.prev_log_index .. Through(m) :
                          AppendSpan(m)[x] = TermAt(log'[k], x)
  BY DEF AppendsPart
<1>1. CASE m \notin Appended
  <2>1. PICK x \in Member : NewAppend(x, m)
    BY <1>1, AppendIsNew
  <2>2. <<term'[x], x>> \in elected' /\ <<term'[k], k>> \in elected'
    BY <2>1 DEF NewAppend, Stepped, Known, LeadersElected
  <2>3. term'[x] = term'[k]
    BY <2>1 DEF NewAppend
  <2>4. <<term'[x], x>> = <<term'[k], k>>
    BY <2>2, <2>3 DEF Stepped, Known, ElectionSafety
  <2>5. x = k
    BY <2>4
  <2>6. QED
    BY <2>1, <2>5, NewAppendSays
<1>2. CASE m \in Appended
  <2>1. ~Wins(k)
    BY <1>2, WinnerIsNew DEF Wins, Stepped, Base, RequestsLed
  <2>2. role[k] = "LEADER" /\ term'[k] = term[k] /\ (log'[k] = log[k] \/ Adds(k))
    BY <2>1, LeaderMoves
  <2>3. /\ Through(m) <= LastIndex(log[k])
        /\ \A x \in m.prev_log_index .. Through(m) : AppendSpan(m)[x] = TermAt(log[k], x)
    BY <1>2, <2>2 DEF Stepped, Base, AppendsPart
  <2>4. CASE log'[k] = log[k]
    BY <2>3, <2>4
  <2>5. CASE Adds(k)
    <3>1. /\ LastIndex(log'[k]) = LastIndex(log[k]) + 1
          /\ \A x \in 0 .. LastIndex(log[k]) : TermAt(log'[k], x) = TermAt(log[k], x)
      BY <2>5, LogLonger DEF Adds
    <3>2. LastIndex(log[k]) \in Nat /\ m.prev_log_index \in Nat /\ Through(m) \in Nat
      BY DEF Stepped, Known, LogTypes, AppendTypes
    <3>3. m.prev_log_index .. Through(m) \subseteq 0 .. LastIndex(log[k])
      BY <2>3, <3>2
    <3>4. QED
      BY <2>3, <3>1, <3>2, <3>3
  <2>6. QED
    BY <2>2, <2>4, <2>5
<1>3. QED
  BY <1>1, <1>2

LEMMA AsksKept ==
  ASSUME Stepped
  PROVE  AsksOK'
<1> SUFFICES ASSUME NEW x \in Member, NEW y \in Member, NEW m \in Wire(x, y)', IsAsk(m)
             PROVE  /\ m.term <= term'[x]
                    /\ role'[x] = "CANDIDATE" /\ m.term = term'[x] =>
                          /\ m.last_log_index = LastIndex(log'[x])
                          /\ m.last_log_term = LastTerm(log'[x])
  BY DEF AsksOK
<1>1. /\ term'[x] >= term[x] /\ term[x] \in Nat /\ term'[x] \in Nat /\ m.term \in Nat
  BY TermsRise DEF Stepped, Known, MessageTypes
<1>2. CASE m \in Wire(x, y)
  <2>1. /\ m.term <= term[x]
        /\ role[x] = "CANDIDATE" /\ m.term = term[x] =>
              m.last_log_index = LastIndex(log[x]) /\ m.last_log_term = LastTerm(log[x])
    BY <1>2 DEF Stepped, Base, AsksOK
  <2>2. ASSUME role'[x] = "CANDIDATE", m.term = term'[x]
        PROVE  role[x] = "CANDIDATE" /\ term'[x] = term[x] /\ log'[x] = log[x]
    BY <1>1, <2>1, <2>2, CandidateMoves DEF Campaigns
  <2>3. QED
    BY <1>1, <2>1, <2>2
<1>3. CASE NewRequest(x, y, m)
  <2>1. NewAsk(x, m)
    BY <1>3 DEF NewRequest, NewPromote, NewAppend, IsPromote, IsAsk, IsAppend
  <2>2. QED
    BY <1>1, <2>1 DEF NewAsk
<1>4. QED
  BY <1>2, <1>3 DEF Stepped, SafeMove, NetMoves, WireMove

LEMMA AnswersKept ==
  ASSUME Stepped
  PROVE  AnswersOK'
<1> SUFFICES ASSUME NEW x \in Member, NEW y \in Member, NEW r \in Ans(x, y)'
             PROVE  /\ IsVoteReply(r) \/ IsAck(r) => r.term <= term'[y]
                    /\ IsVoteReply(r) /\ r.granted => r.term <= term'[x]
                    /\ IsAck(r) => Led(r.term)'
  BY DEF AnswersOK
<1>1. /\ term'[x] >= term[x] /\ term[x] \in Nat /\ term'[x] \in Nat
      /\ term'[y] >= term[y] /\ term[y] \in Nat /\ term'[y] \in Nat
      /\ r.term \in Nat
  BY TermsRise DEF Stepped, Known, MessageTypes
<1>2. CASE r \in Ans(x, y)
  <2>1. /\ IsVoteReply(r) \/ IsAck(r) => r.term <= term[y]
        /\ IsVoteReply(r) /\ r.granted => r.term <= term[x]
        /\ IsAck(r) => Led(r.term)
    BY <1>2 DEF Stepped, Base, AnswersOK
  <2>2. QED
    BY <1>1, <2>1, LedGrows
<1>3. CASE ~IsVoteReply(r) /\ ~IsAck(r)
  BY <1>3
<1>4. CASE NewVote(x, y, r)
  <2>1. ~IsAck(r) /\ r.term = term'[y]
    BY <1>4 DEF NewVote, IsVoteReply, IsAck
  <2>2. r.granted => r.term <= term[x]
    BY <1>4 DEF NewVote, Stepped, Base, AsksOK
  <2>3. QED
    BY <1>1, <2>1, <2>2
<1>5. CASE NewAck(x, y, r)
  <2>1. ~IsVoteReply(r) /\ r.term = term'[y]
    BY <1>5 DEF NewAck, IsVoteReply, IsAck
  <2>2. PICK m \in Wire(x, y) : IsAppend(m) /\ m.term = r.term
    BY <1>5 DEF NewAck
  <2>3. m \in Appended
    BY <2>2 DEF Stepped, Known, MessageTypes
  <2>4. Led(r.term)
    BY <2>2, <2>3 DEF Stepped, Base, RequestsLed
  <2>5. QED
    BY <1>1, <2>1, <2>4, LedGrows
<1>6. QED
  BY <1>2, <1>3, <1>4, <1>5 DEF Stepped, SafeMove, NetMoves, AnsMove, NewAnswer

LEMMA RowsKept ==
  ASSUME Stepped
  PROVE  RowsOK'
<1> SUFFICES ASSUME NEW k \in Member, NEW j \in Member, role'[k] = "LEADER"
             PROVE  /\ link'[k][j] = "down" => ~peers'[k][j].catching_up
                    /\ peers'[k][j].match_index > 0 => term'[j] >= term'[k]
  BY DEF RowsOK
<1>1. /\ term'[k] = term[k] /\ term[k] \in Nat /\ term[j] \in Nat /\ term'[j] \in Nat
      /\ term'[j] >= term[j]
      /\ peers[k][j].match_index \in Nat /\ peers'[k][j].match_index \in Nat
  BY LeaderMoves, TermsRise DEF Stepped, Known, MessageTypes
<1>2. CASE Wins(k)
  BY <1>2 DEF Wins
<1>3. CASE role[k] = "LEADER"
  <2>1. /\ link[k][j] = "down" => ~peers[k][j].catching_up
        /\ peers[k][j].match_index > 0 => term[j] >= term[k]
    BY <1>3 DEF Stepped, Base, RowsOK
  <2>2. RowMove(k, j) /\ LinkMove(k, j)
    BY DEF Stepped, SafeMove, NetMoves, MemberMoves
  <2>3. \/ peers'[k][j].match_index <= peers[k][j].match_index
        \/ \E r \in Ans(k, j) : IsAck(r) /\ r.term = term[k]
    BY <1>3, <2>2 DEF RowMove
  <2>4. ASSUME NEW r \in Ans(k, j), IsAck(r), r.term = term[k]
        PROVE  term[j] >= term[k]
    BY <1>1, <2>4 DEF Stepped, Base, AnswersOK
  <2>5. peers'[k][j].match_index > 0 => term'[j] >= term'[k]
    BY <1>1, <2>1, <2>3, <2>4
  <2>6. peers'[k][j].catching_up => peers[k][j].catching_up \/ link[k][j] # "down"
    BY <1>3, <2>2 DEF RowMove
  <2>7. link'[k][j] = "down" => link[k][j] = "down" \/ ~peers'[k][j].catching_up
    BY <2>2 DEF LinkMove
  <2>8. QED
    BY <2>1, <2>5, <2>6, <2>7, Zenon
<1>4. QED
  BY <1>2, <1>3, LeaderMoves

LEMMA BaseKept ==
  ASSUME Stepped
  PROVE  Base'
<1>1. Silent' /\ Files'
  BY DEF Stepped, SafeMove, NetMoves
<1>2. QED
  BY <1>1, LogsSortedKept, AppendsSortedKept, RequestsLedKept, AppendsPartKept, AsksKept,
     AnswersKept, RowsKept DEF Base

-----------------------------------------------------------------------------
(* Who has told a candidate that it has forgotten *)

\* The members that told the candidates of term x, or know as one of them, that
\* they have lost their log.
Forgot(x) ==
    {v \in Member :
        \/ \E c \in Member :
              \/ \E r \in Ans(c, v) : IsVoteReply(r) /\ r.term = x /\ ~r.voting
              \/ role[c] = "CANDIDATE" /\ term[c] = x /\ v \in round[c].forgotten
        \/ role[v] = "CANDIDATE" /\ term[v] = x /\ ~voting[v]}

ForgotBehind == \A x \in Nat : \A v \in Forgot(x) : term[v] >= x

\* Until a leader is elected at x or beyond, they do not vote again...
ForgottenWait ==
    \A x \in Nat : ~Led(x) /\ ~LaterLed(x) => \A v \in Forgot(x) : ~voting[v]

\* ...the one elected beyond x, if none was at x, did without them...
ForgottenUnneeded ==
    \A x \in Nat : ~Led(x) /\ LaterLed(x) =>
        \E V \in SUBSET Member : /\ Cardinality(V) >= Quorum
                                 /\ \A v \in V : v \notin Forgot(x) /\ term[v] > x

\* ...as its backers are others.
BackersRemember ==
    \A k \in Member : role[k] = "CANDIDATE" =>
        \A x \in Nat : x < term[k] /\ ~Led(x) /\ ~LaterLed(x) =>
            \A v \in Backers(k) : v \notin Forgot(x)

ForgotOK == ForgotBehind /\ ForgottenWait /\ ForgottenUnneeded /\ BackersRemember

LEMMA ForgotGrows ==
  ASSUME Stepped, NEW x \in Nat, NEW v \in Member, v \in Forgot(x)', v \notin Forgot(x)
  PROVE  ~voting[v] /\ ~voting'[v] /\ term'[v] = x
<1>1. ASSUME NEW c \in Member, NEW r \in Ans(c, v)', IsVoteReply(r), r.term = x, ~r.voting
      PROVE  ~voting[v] /\ ~voting'[v] /\ term'[v] = x
  <2>1. r \notin Ans(c, v)
    BY <1>1 DEF Forgot
  <2>2. NewVote(c, v, r)
    BY <1>1, <2>1 DEF Stepped, SafeMove, NetMoves, AnsMove, NewAnswer, NewAck,
                      IsAck, IsVoteReply
  <2>3. r.voting = voting[v] /\ voting'[v] = voting[v] /\ r.term = term'[v]
    BY <2>2 DEF NewVote
  <2>4. ~voting[v] /\ ~voting'[v]
    BY <1>1, <2>3, Zenon
  <2>5. QED
    BY <1>1, <2>3, <2>4
<1>2. ASSUME NEW c \in Member, role'[c] = "CANDIDATE", term'[c] = x, v \in round'[c].forgotten
      PROVE  FALSE
  <2>1. CASE Campaigns(c)
    BY <1>2, <2>1 DEF Campaigns
  <2>2. CASE role[c] = "CANDIDATE" /\ term'[c] = term[c]
    <3>1. Counts(c, round'[c].votes, round'[c].forgotten)
      BY <1>2, <2>2 DEF Stepped, SafeMove, MemberMoves, RoundMove
    <3>2. \/ v \in round[c].forgotten
          \/ \E r \in Ans(c, v) : IsVoteReply(r) /\ r.term = term[c] /\ ~r.voting
      BY <1>2, <3>1 DEF Counts
    <3>3. QED
      BY <1>2, <2>2, <3>2 DEF Forgot
  <2>3. QED
    BY <1>2, <2>1, <2>2, CandidateMoves
<1>3. ASSUME role'[v] = "CANDIDATE", term'[v] = x, ~voting'[v]
      PROVE  ~voting[v]
  <2>1. MemberMove(v)
    BY DEF Stepped, SafeMove, MemberMoves
  <2>2. voting'[v] = voting[v]
    BY <1>3, <2>1, Zenon
       DEF MemberMove, Rests, Campaigns, Forgets, Adds, Wins, Joins, TakesFrom
  <2>3. QED
    BY <1>3, <2>2, Zenon
<1>4. QED
  BY <1>1, <1>2, <1>3 DEF Forgot

\* A backer was one before the step, or has just voted for what it was asked.
LEMMA BackersGrow ==
  ASSUME Stepped, NEW k \in Member, role'[k] = "CANDIDATE", NEW v \in Member, v \in Backers(k)'
  PROVE  /\ role[k] = "CANDIDATE" /\ term'[k] = term[k] /\ log'[k] = log[k]
         /\ \/ v \in Backers(k)
            \/ /\ voting[v] /\ term'[v] = term'[k]
               /\ \E m \in Wire(k, v) :
                     /\ IsAsk(m) /\ m.term = term[k]
                     /\ IsAtLeastAsCurrentAs(log[v], m.last_log_index, m.last_log_term)
<1>1. /\ v # k
      /\ \/ v \in round'[k].votes \ round'[k].forgotten
         \/ \E r \in Ans(k, v)' : IsVoteReply(r) /\ r.term = term'[k] /\ r.granted /\ r.voting
  BY DEF Backers
<1>2. ASSUME NEW r \in Ans(k, v)', IsVoteReply(r), r.term = term'[k], r.granted, r.voting,
             r \notin Ans(k, v)
      PROVE  /\ voting[v] /\ term'[v] = term'[k]
             /\ \E m \in Wire(k, v) :
                   /\ IsAsk(m) /\ m.term = term'[k]
                   /\ IsAtLeastAsCurrentAs(log[v], m.last_log_index, m.last_log_term)
  <2>1. NewVote(k, v, r)
    BY <1>2 DEF Stepped, SafeMove, NetMoves, AnsMove, NewAnswer, NewAck, IsAck, IsVoteReply
  <2>2. r.voting = voting[v] /\ r.term = term'[v]
    BY <2>1 DEF NewVote
  <2>3. voting[v]
    BY <1>2, <2>2, Zenon
  <2>4. QED
    BY <1>2, <2>1, <2>2, <2>3 DEF NewVote
<1>3. /\ term[k] \in Nat /\ term'[k] \in Nat
  BY TermsRise
<1>4. ~Campaigns(k)
  <2>1. SUFFICES ASSUME Campaigns(k) PROVE FALSE
    OBVIOUS
  <2>2. term'[k] = term[k] + 1 /\ round'[k].votes = {k}
    BY <2>1 DEF Campaigns
  <2>3. PICK r \in Ans(k, v)' : IsVoteReply(r) /\ r.term = term'[k] /\ r.granted /\ r.voting
    BY <1>1, <2>2
  <2>4. CASE r \in Ans(k, v)
    <3>1. r.term <= term[k]
      BY <2>3, <2>4 DEF Stepped, Base, AnswersOK
    <3>2. QED
      BY <1>3, <2>2, <2>3, <3>1
  <2>5. CASE r \notin Ans(k, v)
    <3>1. PICK m \in Wire(k, v) : IsAsk(m) /\ m.term = term'[k]
      BY <1>2, <2>3, <2>5
    <3>2. m.term <= term[k]
      BY <3>1 DEF Stepped, Base, AsksOK
    <3>3. QED
      BY <1>3, <2>2, <3>1, <3>2
  <2>6. QED
    BY <2>4, <2>5
<1>5. role[k] = "CANDIDATE" /\ term'[k] = term[k] /\ log'[k] = log[k]
  BY <1>4, CandidateMoves
<1>6. CASE v \in round'[k].votes \ round'[k].forgotten
  <2>1. Counts(k, round'[k].votes, round'[k].forgotten)
    BY <1>5 DEF Stepped, SafeMove, MemberMoves, RoundMove
  <2>2. \/ v \in round[k].votes \ round[k].forgotten
        \/ \E r \in Ans(k, v) : IsVoteReply(r) /\ r.term = term[k] /\ r.granted /\ r.voting
    BY <1>6, <2>1 DEF Counts
  <2>3. v \in Backers(k)
    BY <1>1, <2>2 DEF Backers
  <2>4. QED
    BY <1>5, <2>3
<1>7. CASE \E r \in Ans(k, v)' : IsVoteReply(r) /\ r.term = term'[k] /\ r.granted /\ r.voting
  <2>1. PICK r \in Ans(k, v)' : IsVoteReply(r) /\ r.term = term'[k] /\ r.granted /\ r.voting
    BY <1>7
  <2>2. CASE r \in Ans(k, v)
    <3>1. v \in Backers(k)
      BY <1>1, <1>5, <2>1, <2>2 DEF Backers
    <3>2. QED
      BY <1>5, <3>1
  <2>3. CASE r \notin Ans(k, v)
    BY <1>2, <1>5, <2>1, <2>3
  <2>4. QED
    BY <2>2, <2>3
<1>8. QED
  BY <1>1, <1>6, <1>7

\* A quorum leaves less than a quorum of others.
LEMMA OthersAreFew ==
  ASSUME NEW V \in SUBSET Member, NEW P \in SUBSET Member, Cardinality(V) >= Quorum,
         \A v \in V : v \notin P
  PROVE  ~(Cardinality(Member) - Cardinality(P) < Quorum)
<1> DEFINE W == Member \ P
<1>1. IsFiniteSet(V) /\ IsFiniteSet(P) /\ IsFiniteSet(W) /\ V \in SUBSET W
  BY MemberAssumption, FS_Subset
<1>2. Cardinality(V) <= Cardinality(W)
  BY <1>1, FS_Subset
<1>3. Cardinality(W) = Cardinality(Member) - Cardinality(Member \cap P)
  BY MemberAssumption, FS_Difference
<1>4. Member \cap P = P
  OBVIOUS
<1>5. /\ Cardinality(V) \in Nat /\ Cardinality(P) \in Nat /\ Cardinality(W) \in Nat
      /\ Cardinality(Member) \in Nat
  BY <1>1, MemberAssumption, FS_CardinalityType
<1>6. Quorum \in Nat
  BY <1>5 DEF Quorum
<1>7. QED
  BY <1>2, <1>3, <1>4, <1>5, <1>6

\* A candidate wins by a quorum of members that have kept their log, as long as
\* the members that vote are a quorum: the recovery clause of _won is not used.
LEMMA WinnersVoters ==
  ASSUME Stepped, ForgotOK, HasQuorum, NEW k \in Member, Wins(k)
  PROVE  \E V \in SUBSET Member :
            /\ Cardinality(V) >= Quorum
            /\ \A v \in V : v \in Backers(k) \/ (v = k /\ voting[k])
<1>1. PICK votes \in SUBSET Member, forgotten \in SUBSET Member :
          Won(k, votes, forgotten) /\ Counts(k, votes, forgotten)
  BY DEF Wins
<1> DEFINE own == IF voting[k] THEN {} ELSE {k}
           proven == forgotten \cup own
           V == votes \ proven
           x == term[k]
<1>2. x \in Nat /\ ~Led(x) /\ role[k] = "CANDIDATE"
  BY TermsRise, WinnerIsNew DEF Wins
<1>3. proven \in SUBSET Member
  OBVIOUS
<1>4. ASSUME NEW v \in proven
      PROVE  v \in Forgot(x)
  <2>1. CASE v \in forgotten
    <3>1. \/ v \in round[k].forgotten
          \/ \E r \in Ans(k, v) : IsVoteReply(r) /\ r.term = term[k] /\ ~r.voting
      BY <1>1, <2>1 DEF Counts
    <3>2. QED
      BY <1>2, <1>3, <3>1 DEF Forgot
  <2>2. CASE v \notin forgotten
    <3>1. v = k /\ ~voting[k]
      BY <2>2
    <3>2. QED
      BY <1>2, <3>1 DEF Forgot
  <2>3. QED
    BY <2>1, <2>2
<1>5. ASSUME NEW v \in V
      PROVE  v \in Backers(k) \/ (v = k /\ voting[k])
  <2>1. v \in votes \ forgotten /\ v \in Member
    OBVIOUS
  <2>2. \/ v \in round[k].votes \ round[k].forgotten
        \/ \E r \in Ans(k, v) : IsVoteReply(r) /\ r.term = term[k] /\ r.granted /\ r.voting
    BY <1>1, <2>1 DEF Counts
  <2>3. CASE v = k
    BY <2>3
  <2>4. CASE v # k
    BY <2>1, <2>2, <2>4 DEF Backers
  <2>5. QED
    BY <2>3, <2>4
<1>6. ~(Cardinality(Member) - Cardinality(proven) < Quorum)
  <2>1. CASE LaterLed(x)
    <3>1. PICK W \in SUBSET Member :
              Cardinality(W) >= Quorum /\ \A v \in W : v \notin Forgot(x)
      BY <1>2, <2>1 DEF ForgotOK, ForgottenUnneeded
    <3>2. \A v \in W : v \notin proven
      BY <1>4, <3>1
    <3> HIDE DEF proven
    <3>3. QED
      BY <1>3, <3>1, <3>2, OthersAreFew
  <2>2. CASE ~LaterLed(x)
    <3> DEFINE W == {v \in Member : voting[v]}
    <3>1. W \in SUBSET Member /\ Cardinality(W) >= Quorum
      BY DEF HasQuorum
    <3>2. \A v \in Forgot(x) : ~voting[v]
      BY <1>2, <2>2 DEF ForgotOK, ForgottenWait
    <3>3. \A v \in W : v \notin proven
      BY <1>4, <3>2
    <3> HIDE DEF proven, W
    <3>4. QED
      BY <1>3, <3>1, <3>3, OthersAreFew
  <2>3. QED
    BY <2>1, <2>2
<1>7. Cardinality(V) >= Quorum
  BY <1>1, <1>6 DEF Won
<1>8. QED
  BY <1>5, <1>7

\* They have all entered the term of the winner.
LEMMA VotersTerms ==
  ASSUME Stepped, NEW k \in Member, Wins(k), NEW v, v \in Backers(k) \/ v = k
  PROVE  v \in Member /\ term[v] >= term[k]
<1>1. role[k] = "CANDIDATE" /\ term[k] \in Nat
  BY TermsRise DEF Wins
<1>2. CASE v \in Backers(k)
  BY <1>1, <1>2 DEF Stepped, Known, BackersAhead, Backers
<1>3. QED
  BY <1>1, <1>2

\* Who has forgotten votes again by a leader's word or by leading, in a term
\* that has a leader.
LEMMA VotesAgain ==
  ASSUME Stepped, NEW v \in Member, ~voting[v], voting'[v]
  PROVE  \E e \in elected' : e[1] >= term[v]
<1>1. MemberMove(v)
  BY DEF Stepped, SafeMove, MemberMoves
<1>2. Wins(v) \/ Joins(v)
  BY <1>1, Zenon DEF MemberMove, Rests, Campaigns, Forgets, Adds, TakesFrom
<1>3. CASE Wins(v)
  <2>1. <<term[v], v>> \in elected'
    BY <1>3 DEF Wins
  <2>2. term[v] \in Nat
    BY TermsRise
  <2>3. QED
    BY <2>1, <2>2
<1>4. CASE Joins(v)
  <2>1. PICK j \in Member : \E m \in Wire(j, v) : IsPromote(m) /\ m.term >= term[v]
    BY <1>4 DEF Joins
  <2>2. PICK m \in Wire(j, v) : IsPromote(m) /\ m.term >= term[v]
    BY <2>1
  <2>3. PICK e \in elected : e[1] = m.term
    BY <2>2 DEF Stepped, Base, RequestsLed, Led
  <2>4. e \in elected'
    BY DEF Stepped
  <2>5. QED
    BY <2>2, <2>3, <2>4
<1>5. QED
  BY <1>2, <1>3, <1>4

LEMMA BehindStays ==
  ASSUME Stepped, ForgotOK
  PROVE  ForgotBehind'
<1> SUFFICES ASSUME NEW x \in Nat, NEW v \in Member, v \in Forgot(x)'
             PROVE  term'[v] >= x
  BY DEF ForgotBehind, Forgot
<1>1. term'[v] >= term[v] /\ term[v] \in Nat /\ term'[v] \in Nat
  BY TermsRise
<1>2. CASE v \in Forgot(x)
  <2>1. term[v] >= x
    BY <1>2 DEF ForgotOK, ForgotBehind
  <2>2. QED
    BY <1>1, <2>1
<1>3. CASE v \notin Forgot(x)
  BY <1>1, <1>3, ForgotGrows
<1>4. QED
  BY <1>2, <1>3

LEMMA WaitStays ==
  ASSUME Stepped, ForgotOK
  PROVE  ForgottenWait'
<1> SUFFICES ASSUME NEW x \in Nat, ~Led(x)', ~LaterLed(x)',
                    NEW v \in Member, v \in Forgot(x)'
             PROVE  ~voting'[v]
  BY DEF ForgottenWait, Forgot
<1>1. ~Led(x) /\ ~LaterLed(x)
  BY LedGrows
<1>2. CASE v \notin Forgot(x)
  BY <1>2, ForgotGrows
<1>3. CASE v \in Forgot(x)
  <2>1. ~voting[v] /\ term[v] >= x
    BY <1>1, <1>3 DEF ForgotOK, ForgottenWait, ForgotBehind
  <2>2. ASSUME voting'[v] PROVE FALSE
    <3>1. PICK e \in elected' : e[1] >= term[v]
      BY <2>1, <2>2, VotesAgain
    <3>2. e[1] \in Nat /\ term[v] \in Nat
      BY <3>1, TermsRise DEF Stepped, Known, Inv, LedgerOK
    <3>3. e[1] = x \/ e[1] > x
      BY <2>1, <3>1, <3>2
    <3>4. QED
      BY <3>1, <3>3 DEF Led, LaterLed
  <2>3. QED
    BY <2>2
<1>4. QED
  BY <1>2, <1>3

LEMMA UnneededStays ==
  ASSUME Stepped, ForgotOK, HasQuorum
  PROVE  ForgottenUnneeded'
<1> SUFFICES ASSUME NEW x \in Nat, ~Led(x)', LaterLed(x)'
             PROVE  \E V \in SUBSET Member :
                        /\ Cardinality(V) >= Quorum
                        /\ \A v \in V : v \notin Forgot(x)' /\ term'[v] > x
  BY DEF ForgottenUnneeded
<1>1. ~Led(x)
  BY LedGrows
<1>2. SUFFICES \E V \in SUBSET Member :
                        /\ Cardinality(V) >= Quorum
                        /\ \A v \in V : v \notin Forgot(x) /\ term[v] > x
  <2>1. ASSUME NEW v \in Member, v \notin Forgot(x), term[v] > x
        PROVE  v \notin Forgot(x)' /\ term'[v] > x
    <3>1. term'[v] >= term[v] /\ term[v] \in Nat /\ term'[v] \in Nat
      BY TermsRise
    <3>2. term'[v] > x
      BY <2>1, <3>1
    <3>3. QED
      BY <2>1, <3>1, <3>2, ForgotGrows
  <2>2. QED
    BY <2>1
<1>3. CASE LaterLed(x)
  BY <1>1, <1>3 DEF ForgotOK, ForgottenUnneeded
<1>4. CASE ~LaterLed(x)
  <2>1. PICK e \in elected' : e[1] > x
    BY DEF LaterLed
  <2>2. e \notin elected
    BY <1>4, <2>1 DEF LaterLed
  <2>3. PICK k \in Member : Wins(k) /\ e = <<term[k], k>>
    BY <2>1, <2>2 DEF Stepped, SafeMove, LedgerMove
  <2>4. term[k] > x /\ role[k] = "CANDIDATE" /\ term[k] \in Nat
    BY <2>1, <2>3, TermsRise DEF Wins
  <2>5. PICK V \in SUBSET Member :
            /\ Cardinality(V) >= Quorum
            /\ \A v \in V : v \in Backers(k) \/ (v = k /\ voting[k])
    BY <2>3, WinnersVoters
  <2>6. ASSUME NEW v \in V
        PROVE  v \notin Forgot(x) /\ term[v] > x
    <3>1. term[v] >= term[k] /\ v \in Member
      BY <2>3, <2>5, VotersTerms
    <3>2. term[v] > x
      BY <2>4, <3>1, TermsRise
    <3>3. CASE v \in Backers(k)
      BY <1>1, <1>4, <2>4, <3>2, <3>3 DEF ForgotOK, BackersRemember
    <3>4. CASE v = k /\ voting[k]
      BY <1>1, <1>4, <3>2, <3>4 DEF ForgotOK, ForgottenWait
    <3>5. QED
      BY <2>5, <3>3, <3>4
  <2>7. QED
    BY <2>5, <2>6
<1>5. QED
  BY <1>3, <1>4

LEMMA RememberStays ==
  ASSUME Stepped, ForgotOK
  PROVE  BackersRemember'
<1> SUFFICES ASSUME NEW k \in Member, role'[k] = "CANDIDATE", NEW x \in Nat, x < term'[k],
                    ~Led(x)', ~LaterLed(x)', NEW v \in Member, v \in Backers(k)',
                    v \in Forgot(x)'
             PROVE  FALSE
  BY DEF BackersRemember, Backers
<1>1. ~Led(x) /\ ~LaterLed(x)
  BY LedGrows
<1>2. /\ role[k] = "CANDIDATE" /\ term'[k] = term[k]
      /\ v \in Backers(k) \/ (voting[v] /\ term'[v] = term'[k])
  BY BackersGrow
<1>3. term[k] \in Nat /\ term[v] \in Nat /\ term'[v] >= term[v] /\ term'[v] \in Nat
  BY TermsRise
<1>4. CASE v \in Forgot(x)
  <2>1. ~voting[v]
    BY <1>1, <1>4 DEF ForgotOK, ForgottenWait
  <2>2. v \notin Backers(k)
    BY <1>1, <1>2, <1>4 DEF ForgotOK, BackersRemember
  <2>3. QED
    BY <1>2, <2>1, <2>2
<1>5. CASE v \notin Forgot(x)
  <2>1. ~voting[v] /\ term'[v] = x
    BY <1>5, ForgotGrows
  <2>2. v \in Backers(k)
    BY <1>2, <2>1
  <2>3. term[v] >= term[k]
    BY <1>2, <2>2 DEF Stepped, Known, BackersAhead
  <2>4. QED
    BY <1>2, <1>3, <2>1, <2>3
<1>6. QED
  BY <1>4, <1>5

LEMMA ForgotKept ==
  ASSUME Stepped, ForgotOK, HasQuorum
  PROVE  ForgotOK'
BY BehindStays, WaitStays, UnneededStays, RememberStays DEF ForgotOK

-----------------------------------------------------------------------------
(* An entry and those who acknowledged it *)

\* Log j says what f says, up to n.
Kept(j, n, f) ==
    n <= LastIndex(log[j]) /\ \A x \in 0 .. n : TermAt(log[j], x) = f[x]

\* A never becomes a quorum: with all those who may still join it, whose terms
\* are not beyond t, it is not one.
Beyond(A, t) == Cardinality(A \cup {j \in Member : term[j] <= t}) < Quorum

\* Append m says nothing else than f up to n, and starts beyond n only on an
\* entry that is not older.
Tells(m, n, f) ==
    /\ n < m.prev_log_index => m.prev_log_term >= f[n]
    /\ \A x \in m.prev_log_index .. Through(m) : x <= n => AppendSpan(m)[x] = f[x]

\* A log that says x has an entry of term t at or beyond the entry (n, f[n]).
IsLater(x, t, n, f) == t > f[n] \/ (t = f[n] /\ x >= n)

LeadersKeep(n, f) ==
    \A k \in Member : role[k] = "LEADER" /\ term[k] >= f[n] => Kept(k, n, f)

VotersKeep(n, f, A) == \A j \in A : voting[j] => Kept(j, n, f)

LaterKeep(n, f) ==
    \A i \in Member : \A x \in 0 .. LastIndex(log[i]) :
        IsLater(x, TermAt(log[i], x), n, f) => n <= x /\ Kept(i, n, f)

AppendsTell(n, f) == \A m \in Appended : m.term >= f[n] => Tells(m, n, f)

CandidatesKeep(n, f, A) ==
    \A k \in Member : role[k] = "CANDIDATE" /\ term[k] > f[n] =>
        \A v \in A : v \in Backers(k) => Kept(k, n, f)

PromotedKeep(n, f, A) ==
    \A k \in Member : \A j \in A : \A m \in Wire(k, j) :
        IsPromote(m) /\ m.term >= term[j] => Kept(j, n, f)

RejoinersKeep(n, f, A) ==
    \A k \in Member : \A j \in A :
        role[k] = "LEADER" /\ term[k] >= f[n] /\ link[k][j] = "up" /\ peers[k][j].catching_up
            => Kept(j, n, f) \/ n <= peers[k][j].promote_through

\* The entry (n, f[n]) has been acknowledged by A, and whoever leads later
\* holds it, and who of A has forgotten it does not vote before it holds it
\* again.
Core(n, f, A) ==
    /\ LeadersKeep(n, f) /\ VotersKeep(n, f, A) /\ LaterKeep(n, f) /\ AppendsTell(n, f)
    /\ CandidatesKeep(n, f, A) /\ PromotedKeep(n, f, A) /\ RejoinersKeep(n, f, A)

\* It is so as long as A may still become a quorum.
Good(n, f, A) ==
    /\ \A j \in A : term[j] >= f[n]
    /\ Beyond(A, f[n]) \/ Core(n, f, A)

\* Two logs say the same up to n.
Shared(j, k, n) ==
    /\ n <= LastIndex(log[j]) /\ n <= LastIndex(log[k])
    /\ \A x \in 0 .. n : TermAt(log[j], x) = TermAt(log[k], x)

\* What a peer has acknowledged it holds, as long as it answers on the same
\* connection and in the same term.
Credit ==
    \A k, j \in Member : role[k] = "LEADER" =>
        /\ \A r \in Ans(k, j) :
              IsAck(r) /\ r.term = term[k] => r.match_index <= LastIndex(log[k])
        /\ link[k][j] = "up" /\ term[j] = term[k] =>
              /\ Shared(j, k, peers[k][j].match_index)
              /\ \A r \in Ans(k, j) :
                    IsAck(r) /\ r.term = term[k] => Shared(j, k, r.match_index)

\* What some log says of an entry: its terms do not fall, the last was led, and
\* whatever else says the same at one index says the same before it.
Said(n, f) ==
    /\ n \in Nat /\ n > 0 /\ f[n] \in Nat
    /\ \A x \in 0 .. n : f[x] \in Nat /\ f[x] <= f[n]
    /\ \A x, y \in 0 .. n : x <= y => f[x] <= f[y]
    /\ Led(f[n])
    /\ \A i \in Member : \A x \in 0 .. n :
          x <= LastIndex(log[i]) /\ TermAt(log[i], x) = f[x] =>
              \A y \in 0 .. x : TermAt(log[i], y) = f[y]

LEMMA SaidByLog ==
  ASSUME Known, LogsSorted, NEW n \in Nat, n > 0, NEW f, NEW j \in Member, Kept(j, n, f)
  PROVE  Said(n, f)
<1>1. /\ LastIndex(log[j]) \in Nat /\ n <= LastIndex(log[j])
      /\ \A x \in 0 .. LastIndex(log[j]) : TermAt(log[j], x) \in Nat
      /\ \A x \in 0 .. n : TermAt(log[j], x) = f[x]
  BY DEF Known, LogTypes, Kept
<1>2. \A x \in 0 .. n : x \in 0 .. LastIndex(log[j])
  BY <1>1
<1>3. n \in 0 .. n
  OBVIOUS
<1>4. \A x, y \in 0 .. n : x <= y => f[x] <= f[y]
  BY <1>1, <1>2 DEF LogsSorted
<1>5. \A x \in 0 .. n : f[x] \in Nat /\ f[x] <= f[n]
  BY <1>1, <1>2, <1>3, <1>4
<1>6. Led(f[n])
  <2>1. n \in 1 .. LastIndex(log[j])
    BY <1>1
  <2>2. QED
    BY <1>1, <1>3, <2>1 DEF Known, LogsLed
<1>7. ASSUME NEW i \in Member, NEW x \in 0 .. n, x <= LastIndex(log[i]),
             TermAt(log[i], x) = f[x], NEW y \in 0 .. x
      PROVE  TermAt(log[i], y) = f[y]
  <2>1. LastIndex(log[i]) \in Nat
    BY DEF Known, LogTypes
  <2>2. x \in 0 .. LastIndex(log[i]) /\ x <= LastIndex(log[j])
    BY <1>1, <1>2, <1>7, <2>1
  <2>3. TermAt(log[i], x) = TermAt(log[j], x)
    BY <1>1, <1>7
  <2>4. TermAt(log[i], y) = TermAt(log[j], y)
    BY <2>2, <2>3 DEF Known, LogsMatched
  <2>5. y \in 0 .. n
    BY <1>7
  <2>6. QED
    BY <1>1, <2>4, <2>5
<1>8. QED
  BY <1>3, <1>4, <1>5, <1>6, <1>7 DEF Said

-----------------------------------------------------------------------------
(* Every step keeps it *)

\* A step from a state in which A may still become a quorum.
Holding(n, f, A) ==
    /\ Stepped /\ ForgotOK /\ HasQuorum /\ Credit /\ Said(n, f) /\ A \in SUBSET Member
    /\ \A j \in A : term[j] >= f[n]
    /\ ~Beyond(A, f[n]) /\ Core(n, f, A)

LEMMA KeptLonger ==
  ASSUME Stepped, NEW n \in Nat, NEW f, NEW k \in Member, Kept(k, n, f),
         log'[k] = log[k] \/ log'[k] = AppendLocal(log[k], term[k])
  PROVE  Kept(k, n, f)'
<1>1. CASE log'[k] = log[k]
  BY <1>1 DEF Kept
<1>2. CASE log'[k] = AppendLocal(log[k], term[k])
  <2>1. LastIndex(log[k]) \in Nat
    BY DEF Stepped, Known, LogTypes
  <2>2. /\ LastIndex(log'[k]) = LastIndex(log[k]) + 1
        /\ \A x \in 0 .. LastIndex(log[k]) : TermAt(log'[k], x) = TermAt(log[k], x)
    BY <1>2, LogLonger
  <2>3. n <= LastIndex(log[k]) /\ \A x \in 0 .. n : TermAt(log[k], x) = f[x]
    BY DEF Kept
  <2>4. n <= LastIndex(log'[k]) /\ \A x \in 0 .. n : x \in 0 .. LastIndex(log[k])
    BY <2>1, <2>2, <2>3
  <2>5. \A x \in 0 .. n : TermAt(log'[k], x) = f[x]
    BY <2>2, <2>3, <2>4
  <2>6. QED
    BY <2>4, <2>5 DEF Kept
<1>3. QED
  BY <1>1, <1>2

\* Who takes an append that tells the entry keeps it.
LEMMA TakeKeeps ==
  ASSUME Stepped, NEW n \in Nat, NEW f, NEW k \in Member, NEW j \in Member, NEW m,
         TakesFrom(k, j, m), Kept(k, n, f), Tells(m, n, f)
  PROVE  Kept(k, n, f)'
<1> DEFINE p == m.prev_log_index
           q == Through(m)
<1>1. /\ p \in Nat /\ q \in Nat /\ p <= q
      /\ q <= LastIndex(log'[k])
      /\ \A x \in 0 .. p : TermAt(log'[k], x) = TermAt(log[k], x)
      /\ \A x \in p .. q : TermAt(log'[k], x) = AppendSpan(m)[x]
      /\ (\A x \in p .. q : x <= LastIndex(log[k]) /\ TermAt(log[k], x) = AppendSpan(m)[x])
               => log'[k] = log[k]
  BY TakenSays
<1>2. \A x \in p .. q : x <= n => AppendSpan(m)[x] = f[x]
  BY DEF Tells
<1>3. n <= LastIndex(log[k]) /\ \A x \in 0 .. n : TermAt(log[k], x) = f[x]
  BY DEF Kept
<1>4. LastIndex(log[k]) \in Nat /\ LastIndex(log'[k]) \in Nat
  BY DEF Stepped, Known, LogTypes
<1> HIDE DEF p, q
<1>5. CASE n <= q
  <2>1. n <= LastIndex(log'[k])
    BY <1>1, <1>4, <1>5
  <2>2. ASSUME NEW x \in 0 .. n
        PROVE  TermAt(log'[k], x) = f[x]
    <3>1. CASE x <= p
      <4>1. x \in 0 .. p
        BY <1>1, <3>1
      <4>2. QED
        BY <1>1, <1>3, <4>1
    <3>2. CASE x > p
      <4>1. x \in p .. q /\ x <= n
        BY <1>1, <1>5, <3>2
      <4>2. QED
        BY <1>1, <1>2, <4>1
    <3>3. QED
      BY <1>1, <3>1, <3>2
  <2>3. QED
    BY <2>1, <2>2 DEF Kept
<1>6. CASE n > q
  <2>1. ASSUME NEW x \in p .. q
        PROVE  x <= LastIndex(log[k]) /\ TermAt(log[k], x) = AppendSpan(m)[x]
    <3>1. x \in 0 .. n /\ x <= n /\ x <= LastIndex(log[k])
      BY <1>1, <1>3, <1>4, <1>6
    <3>2. QED
      BY <1>2, <1>3, <3>1
  <2>2. log'[k] = log[k]
    BY <1>1, <2>1
  <2>3. QED
    BY <2>2 DEF Kept
<1>7. QED
  BY <1>1, <1>5, <1>6

\* A member that does not forget keeps it.
LEMMA KeptStays ==
  ASSUME NEW n, NEW f, NEW A, Holding(n, f, A), NEW j \in Member, Kept(j, n, f),
         term[j] >= f[n], ~Forgets(j)
  PROVE  Kept(j, n, f)'
<1>1. Stepped /\ n \in Nat /\ f[n] \in Nat
  BY DEF Holding, Said
<1>2. MemberMove(j)
  BY <1>1 DEF Stepped, SafeMove, MemberMoves
<1>3. CASE \E i \in Member : \E m \in Wire(i, j) : TakesFrom(j, i, m)
  <2>1. PICK i \in Member : \E m \in Wire(i, j) : TakesFrom(j, i, m)
    BY <1>3
  <2>2. PICK m \in Wire(i, j) : TakesFrom(j, i, m)
    BY <2>1
  <2>3. m \in Appended
    BY <1>1, <2>2, TakenSays
  <2>4. m.term >= term[j] /\ m.term \in Nat /\ term[j] \in Nat
    BY <1>1, <2>2, <2>3, TermsRise DEF TakesFrom, Stepped, Known, AppendTypes
  <2>5. m.term >= f[n]
    BY <1>1, <2>4
  <2>6. Tells(m, n, f)
    BY <2>3, <2>5 DEF Holding, Core, AppendsTell
  <2>7. QED
    BY <1>1, <2>2, <2>6, TakeKeeps
<1>4. CASE Rests(j) \/ Campaigns(j) \/ Adds(j) \/ Wins(j) \/ Joins(j)
  <2>1. log'[j] = log[j] \/ log'[j] = AppendLocal(log[j], term[j])
    BY <1>4, Zenon DEF Rests, Campaigns, Adds, Wins, Joins
  <2>2. QED
    BY <1>1, <2>1, KeptLonger
<1>5. QED
  BY <1>2, <1>3, <1>4 DEF MemberMove

\* Nobody wins a later term without it, and nobody else wins its term.
LEMMA WinnerKeeps ==
  ASSUME NEW n, NEW f, NEW A, Holding(n, f, A), NEW k \in Member, Wins(k),
         term[k] >= f[n]
  PROVE  Kept(k, n, f)
<1>1. Stepped /\ ForgotOK /\ HasQuorum /\ f[n] \in Nat /\ Led(f[n]) /\ A \in SUBSET Member
  BY DEF Holding, Said
<1>2. term[k] \in Nat /\ role[k] = "CANDIDATE"
  BY <1>1, TermsRise DEF Wins
<1>3. term[k] > f[n]
  <2>1. ~Led(term[k])
    BY <1>1, WinnerIsNew
  <2>2. term[k] # f[n]
    BY <1>1, <2>1
  <2>3. QED
    BY <1>1, <1>2, <2>2
<1>4. PICK V \in SUBSET Member :
          /\ Cardinality(V) >= Quorum
          /\ \A v \in V : v \in Backers(k) \/ (v = k /\ voting[k])
  BY <1>1, WinnersVoters
<1> DEFINE W == A \cup {j \in Member : term[j] <= f[n]}
<1>5. W \in SUBSET Member
  BY <1>1
<1>6. Cardinality(W) >= Quorum
  <2>1. ~(Cardinality(W) < Quorum)
    BY DEF Holding, Beyond
  <2>2. IsFiniteSet(W)
    BY <1>5, MemberAssumption, FS_Subset
  <2>3. Cardinality(W) \in Nat /\ Quorum \in Nat
    BY <2>2, FS_CardinalityType, MemberAssumption DEF Quorum
  <2> HIDE DEF W
  <2>4. QED
    BY <2>1, <2>3
<1> HIDE DEF W
<1>7. PICK v \in Member : v \in V /\ v \in W
  BY <1>4, <1>5, <1>6, QuorumsMeet
<1>8. v \in Backers(k) \/ (v = k /\ voting[k])
  BY <1>4, <1>7
<1>9. term[v] >= term[k] /\ term[v] \in Nat
  BY <1>1, <1>8, VotersTerms, TermsRise
<1>10. v \in A
  BY <1>1, <1>2, <1>3, <1>7, <1>9 DEF W
<1>11. CASE v \in Backers(k)
  BY <1>2, <1>3, <1>10, <1>11 DEF Holding, Core, CandidatesKeep
<1>12. CASE v = k /\ voting[k]
  BY <1>10, <1>12 DEF Holding, Core, VotersKeep
<1>13. QED
  BY <1>8, <1>11, <1>12

LEMMA LeadersKeepStays ==
  ASSUME NEW n, NEW f, NEW A, Holding(n, f, A)
  PROVE  LeadersKeep(n, f)'
<1> SUFFICES ASSUME NEW k \in Member, role'[k] = "LEADER", term'[k] >= f[n]
             PROVE  Kept(k, n, f)'
  BY DEF LeadersKeep
<1>1. Stepped /\ n \in Nat
  BY DEF Holding, Said
<1>2. /\ term'[k] = term[k]
      /\ \/ role[k] = "LEADER" /\ (log'[k] = log[k] \/ Adds(k))
         \/ Wins(k)
  BY <1>1, LeaderMoves
<1>3. log'[k] = log[k] \/ log'[k] = AppendLocal(log[k], term[k])
  BY <1>2 DEF Adds, Wins
<1>4. Kept(k, n, f)
  <2>1. CASE role[k] = "LEADER"
    BY <1>2, <2>1 DEF Holding, Core, LeadersKeep
  <2>2. CASE Wins(k)
    BY <1>2, <2>2, WinnerKeeps
  <2>3. QED
    BY <1>2, <2>1, <2>2
<1>5. QED
  BY <1>1, <1>3, <1>4, KeptLonger

LEMMA VotersKeepStays ==
  ASSUME NEW n, NEW f, NEW A, Holding(n, f, A)
  PROVE  VotersKeep(n, f, A)'
<1> SUFFICES ASSUME NEW j \in A, voting'[j]
             PROVE  Kept(j, n, f)'
  BY DEF VotersKeep
<1>1. Stepped /\ n \in Nat /\ j \in Member /\ term[j] >= f[n]
  BY DEF Holding, Said
<1>2. MemberMove(j)
  BY <1>1 DEF Stepped, SafeMove, MemberMoves
<1>3. ~Forgets(j)
  BY Zenon DEF Forgets
<1>4. Kept(j, n, f)
  <2>1. CASE voting[j]
    BY <2>1 DEF Holding, Core, VotersKeep
  <2>2. CASE ~voting[j]
    <3>1. Wins(j) \/ Joins(j)
      BY <1>2, <1>3, <2>2, Zenon DEF MemberMove, Rests, Campaigns, Adds, TakesFrom
    <3>2. CASE Wins(j)
      BY <1>1, <3>2, WinnerKeeps
    <3>3. CASE Joins(j)
      <4>1. PICK k \in Member : \E m \in Wire(k, j) : IsPromote(m) /\ m.term >= term[j]
        BY <3>3 DEF Joins
      <4>2. QED
        BY <4>1 DEF Holding, Core, PromotedKeep
    <3>4. QED
      BY <3>1, <3>2, <3>3
  <2>3. QED
    BY <2>1, <2>2
<1>5. QED
  BY <1>1, <1>3, <1>4, KeptStays

LEMMA LaterKeepStays ==
  ASSUME NEW n, NEW f, NEW A, Holding(n, f, A)
  PROVE  LaterKeep(n, f)'
<1> SUFFICES ASSUME NEW i \in Member, NEW x \in 0 .. LastIndex(log'[i]),
                    IsLater(x, TermAt(log'[i], x), n, f)
             PROVE  n <= x /\ Kept(i, n, f)'
  BY DEF LaterKeep, IsLater
<1>1. /\ Stepped /\ n \in Nat /\ n > 0 /\ f[n] \in Nat
      /\ \A y \in 0 .. n : f[y] \in Nat /\ f[y] <= f[n]
  BY DEF Holding, Said
<1>2. MemberMove(i)
  BY <1>1 DEF Stepped, SafeMove, MemberMoves
<1>3. /\ LastIndex(log[i]) \in Nat /\ LastIndex(log'[i]) \in Nat /\ term[i] \in Nat
      /\ \A y \in 0 .. LastIndex(log[i]) : TermAt(log[i], y) \in Nat
      /\ \A y \in 0 .. LastIndex(log'[i]) : TermAt(log'[i], y) \in Nat
  BY <1>1 DEF Stepped, Known, LogTypes
<1>4. \A y \in 0 .. LastIndex(log[i]) :
          IsLater(y, TermAt(log[i], y), n, f) => n <= y /\ Kept(i, n, f)
  BY DEF Holding, Core, LaterKeep
<1>5. CASE log'[i] = log[i]
  BY <1>4, <1>5 DEF Kept
<1>6. CASE log'[i] = EmptyLog
  <2>1. EmptyLog \in FullLog /\ LastIndex(EmptyLog) = 0
    BY FreshTypes
  <2>2. TermAt(EmptyLog, 0) = 0
    BY <2>1, TermAtIs
  <2>3. x = 0
    BY <1>6, <2>1
  <2>4. QED
    BY <1>1, <1>6, <2>2, <2>3 DEF IsLater
<1>7. CASE /\ role'[i] = "LEADER" /\ term'[i] = term[i]
           /\ log'[i] = AppendLocal(log[i], term[i])
  <2>1. /\ LastIndex(log'[i]) = LastIndex(log[i]) + 1
        /\ \A y \in 0 .. LastIndex(log[i]) : TermAt(log'[i], y) = TermAt(log[i], y)
        /\ TermAt(log'[i], LastIndex(log[i]) + 1) = term[i]
    BY <1>1, <1>7, LogLonger
  <2>2. CASE x \in 0 .. LastIndex(log[i])
    <3>1. n <= x /\ Kept(i, n, f)
      BY <1>4, <2>1, <2>2
    <3>2. QED
      BY <1>1, <1>7, <3>1, KeptLonger
  <2>3. CASE x = LastIndex(log[i]) + 1
    <3>1. term'[i] >= f[n]
      BY <1>1, <1>3, <1>7, <2>1, <2>3 DEF IsLater
    <3>2. Kept(i, n, f)'
      BY <1>7, <3>1, LeadersKeepStays DEF LeadersKeep
    <3>3. n <= LastIndex(log'[i])
      BY <3>2 DEF Kept
    <3>4. QED
      BY <2>1, <2>3, <3>2, <3>3
  <2>4. QED
    BY <1>3, <2>1, <2>2, <2>3
<1>8. ASSUME NEW j \in Member, NEW m \in Wire(j, i), TakesFrom(i, j, m), log'[i] # log[i]
      PROVE  n <= x /\ Kept(i, n, f)'
  <2> DEFINE p == m.prev_log_index
             q == Through(m)
  <2>1. /\ m \in Appended
        /\ p \in Nat /\ q \in Nat /\ p <= q
        /\ p <= LastIndex(log[i]) /\ LastIndex(log'[i]) = q
        /\ \A y \in 0 .. p : TermAt(log'[i], y) = TermAt(log[i], y)
        /\ \A y \in p .. q : TermAt(log'[i], y) = AppendSpan(m)[y]
        /\ TermAt(log[i], p) = AppendSpan(m)[p]
    BY <1>1, <1>8, TakenSays
  <2>2. /\ \A y, z \in p .. q : y <= z => AppendSpan(m)[y] <= AppendSpan(m)[z]
        /\ AppendSpan(m)[q] <= m.term
        /\ \A y \in p .. q : AppendSpan(m)[y] \in Nat
        /\ AppendSpan(m)[p] = m.prev_log_term
        /\ m.term \in Nat
    BY <1>1, <2>1 DEF Stepped, Known, AppendTypes, Base, AppendsSorted
  <2>3. m.term >= term[i]
    BY <1>8 DEF TakesFrom
  <2>4. m.term >= f[n] => Tells(m, n, f)
    BY <2>1 DEF Holding, Core, AppendsTell
  <2>5. Kept(i, n, f) /\ m.term >= f[n] => Kept(i, n, f)'
    BY <1>1, <1>8, <2>4, TakeKeeps
  <2> HIDE DEF p, q
  <2>6. CASE x <= p
    <3>1. x \in 0 .. p /\ x \in 0 .. LastIndex(log[i])
      BY <1>3, <2>1, <2>6
    <3>2. TermAt(log'[i], x) = TermAt(log[i], x)
      BY <2>1, <3>1
    <3>3. n <= x /\ Kept(i, n, f)
      BY <1>4, <3>1, <3>2
    <3>4. TermAt(log[i], x) >= f[n] /\ TermAt(log[i], x) \in Nat
      BY <1>1, <1>3, <3>1, <3>2 DEF IsLater
    <3>5. TermAt(log[i], x) <= term[i]
      <4>1. LastIndex(log[i]) \in 0 .. LastIndex(log[i])
        BY <1>3
      <4>2. /\ TermAt(log[i], x) <= TermAt(log[i], LastIndex(log[i]))
            /\ TermAt(log[i], LastIndex(log[i])) <= term[i]
        BY <1>1, <1>3, <3>1, <4>1 DEF Stepped, Base, LogsSorted
      <4>3. QED
        BY <1>3, <3>4, <4>1, <4>2
    <3>6. m.term >= f[n]
      BY <1>1, <1>3, <2>2, <2>3, <3>4, <3>5
    <3>7. QED
      BY <2>5, <3>3, <3>6
  <2>7. CASE x > p
    <3>1. x \in p .. q /\ TermAt(log'[i], x) = AppendSpan(m)[x]
      BY <2>1, <2>7
    <3>2. AppendSpan(m)[x] >= f[n]
      BY <1>1, <2>2, <3>1 DEF IsLater
    <3>3. m.term >= f[n]
      <4>1. q \in p .. q /\ x <= q
        BY <2>1, <3>1
      <4>2. AppendSpan(m)[x] <= AppendSpan(m)[q] /\ AppendSpan(m)[q] \in Nat
        BY <2>2, <3>1, <4>1
      <4>3. QED
        BY <1>1, <2>2, <3>1, <3>2, <4>2
    <3>4. /\ n < p => m.prev_log_term >= f[n]
          /\ \A y \in p .. q : y <= n => AppendSpan(m)[y] = f[y]
      BY <2>4, <3>3 DEF Tells, p, q
    <3>5. n <= x
      <4>1. SUFFICES ASSUME x < n PROVE FALSE
        BY <1>1, <3>1
      <4>2. x \in 0 .. n /\ AppendSpan(m)[x] = f[x]
        BY <1>1, <2>1, <3>1, <3>4, <4>1
      <4>3. f[x] <= f[n] /\ f[x] \in Nat
        BY <1>1, <4>2
      <4>4. AppendSpan(m)[x] = f[n]
        BY <1>1, <3>2, <4>2, <4>3
      <4>5. QED
        BY <1>1, <3>1, <4>1, <4>4 DEF IsLater
    <3>6. Kept(i, n, f)'
      <4>1. p \in p .. q /\ p \in 0 .. LastIndex(log[i])
        BY <1>3, <2>1
      <4>2. CASE n < p
        <5>1. IsLater(p, TermAt(log[i], p), n, f)
          BY <1>1, <2>1, <2>2, <3>4, <4>1, <4>2 DEF IsLater
        <5>2. QED
          BY <1>4, <2>5, <3>3, <4>1, <5>1
      <4>3. CASE n = p
        <5>1. TermAt(log[i], n) = f[n] /\ n \in 0 .. n /\ n <= LastIndex(log[i])
          BY <1>1, <2>1, <3>4, <4>1, <4>3
        <5>2. \A y \in 0 .. n : TermAt(log[i], y) = f[y]
          BY <5>1 DEF Holding, Said
        <5>3. Kept(i, n, f)
          BY <5>1, <5>2 DEF Kept
        <5>4. QED
          BY <2>5, <3>3, <5>3
      <4>4. CASE n > p
        <5>1. TermAt(log[i], p) = f[p] /\ p \in 0 .. n
          BY <1>1, <2>1, <3>4, <4>1, <4>4
        <5>2. \A y \in 0 .. p : TermAt(log[i], y) = f[y]
          BY <2>1, <5>1 DEF Holding, Said
        <5>3. ASSUME NEW y \in 0 .. n
              PROVE  TermAt(log'[i], y) = f[y]
          <6>1. CASE y <= p
            <7>1. y \in 0 .. p
              BY <2>1, <6>1
            <7>2. QED
              BY <2>1, <5>2, <7>1
          <6>2. CASE y > p
            <7>1. y \in p .. q /\ y <= n
              BY <1>1, <2>1, <3>1, <3>5, <6>2
            <7>2. QED
              BY <2>1, <3>4, <7>1
          <6>3. QED
            BY <2>1, <6>1, <6>2
        <5>4. n <= LastIndex(log'[i])
          BY <1>1, <2>1, <3>1, <3>5
        <5>5. QED
          BY <5>3, <5>4 DEF Kept
      <4>5. QED
        BY <1>1, <2>1, <4>2, <4>3, <4>4
    <3>7. QED
      BY <3>5, <3>6
  <2>8. QED
    BY <1>3, <2>1, <2>6, <2>7
<1>9. CASE \E j \in Member : \E m \in Wire(j, i) : TakesFrom(i, j, m)
  BY <1>5, <1>8, <1>9
<1>10. CASE Rests(i) \/ Campaigns(i) \/ Joins(i) \/ Forgets(i) \/ Adds(i) \/ Wins(i)
  <2>1. CASE Rests(i) \/ Campaigns(i) \/ Joins(i)
    <3>1. log'[i] = log[i]
      BY <2>1, Zenon DEF Rests, Campaigns, Joins
    <3>2. QED
      BY <1>5, <3>1
  <2>2. CASE Forgets(i)
    BY <1>6, <2>2 DEF Forgets
  <2>3. CASE Adds(i) \/ Wins(i)
    BY <1>7, <2>3 DEF Adds, Wins
  <2>4. QED
    BY <1>10, <2>1, <2>2, <2>3
<1>11. QED
  BY <1>2, <1>9, <1>10 DEF MemberMove

LEMMA AppendsTellStays ==
  ASSUME NEW n, NEW f, NEW A, Holding(n, f, A)
  PROVE  AppendsTell(n, f)'
<1> SUFFICES ASSUME NEW m \in Appended', m.term >= f[n]
             PROVE  Tells(m, n, f)
  BY DEF AppendsTell, Tells
<1>1. Stepped /\ n \in Nat /\ f[n] \in Nat
  BY DEF Holding, Said
<1>2. CASE m \in Appended
  BY <1>2 DEF Holding, Core, AppendsTell
<1>3. CASE m \notin Appended
  <2>1. PICK x \in Member : NewAppend(x, m)
    BY <1>1, <1>3, AppendIsNew
  <2>2. Kept(x, n, f)'
    <3>1. role'[x] = "LEADER" /\ term'[x] >= f[n]
      BY <2>1 DEF NewAppend
    <3>2. QED
      BY <3>1, LeadersKeepStays DEF LeadersKeep
  <2>3. n <= LastIndex(log'[x]) /\ \A y \in 0 .. n : TermAt(log'[x], y) = f[y]
    BY <2>2 DEF Kept
  <2>4. /\ Through(m) <= LastIndex(log'[x])
        /\ \A y \in m.prev_log_index .. Through(m) :
              y \in 0 .. LastIndex(log'[x]) /\ AppendSpan(m)[y] = TermAt(log'[x], y)
    BY <1>1, <2>1, NewAppendSays
  <2>5. /\ m.prev_log_index \in Nat /\ Through(m) \in Nat /\ m.prev_log_index <= Through(m)
        /\ AppendSpan(m)[m.prev_log_index] = m.prev_log_term
    BY <1>1 DEF Stepped, Known, AppendTypes
  <2>6. \A y, z \in 0 .. LastIndex(log'[x]) :
            y <= z => TermAt(log'[x], y) <= TermAt(log'[x], z)
    BY <1>1, BaseKept DEF Base, LogsSorted
  <2> DEFINE p == m.prev_log_index
  <2>7. p \in p .. Through(m) /\ n \in 0 .. n
    BY <1>1, <2>5
  <2>8. ASSUME n < p
        PROVE  m.prev_log_term >= f[n]
    <3>1. p \in 0 .. LastIndex(log'[x]) /\ m.prev_log_term = TermAt(log'[x], p)
      BY <2>4, <2>5, <2>7
    <3>2. n \in 0 .. LastIndex(log'[x]) /\ f[n] = TermAt(log'[x], n)
      BY <1>1, <2>3, <2>7, <2>8, <3>1
    <3>3. TermAt(log'[x], n) <= TermAt(log'[x], p) /\ TermAt(log'[x], p) \in Nat
      <4>1. n <= p
        BY <1>1, <2>5, <2>8
      <4>2. TermAt(log'[x], p) \in Nat
        BY <1>1, <3>1 DEF Stepped, Known, LogTypes
      <4>3. QED
        BY <2>6, <3>1, <3>2, <4>1, <4>2
    <3>4. QED
      BY <1>1, <3>1, <3>2, <3>3
  <2>9. ASSUME NEW y \in p .. Through(m), y <= n
        PROVE  AppendSpan(m)[y] = f[y]
    <3>1. y \in 0 .. n
      BY <1>1, <2>5, <2>9
    <3>2. QED
      BY <2>3, <2>4, <2>9, <3>1
  <2>10. QED
    BY <2>8, <2>9 DEF Tells
<1>4. QED
  BY <1>2, <1>3

LEMMA CandidatesKeepStays ==
  ASSUME NEW n, NEW f, NEW A, Holding(n, f, A)
  PROVE  CandidatesKeep(n, f, A)'
<1> SUFFICES ASSUME NEW k \in Member, role'[k] = "CANDIDATE", term'[k] > f[n],
                    NEW v \in A, v \in Backers(k)'
             PROVE  Kept(k, n, f)'
  BY DEF CandidatesKeep
<1>1. /\ Stepped /\ n \in Nat /\ n > 0 /\ f[n] \in Nat /\ v \in Member
      /\ \A i \in Member : \A x \in 0 .. LastIndex(log[i]) :
            IsLater(x, TermAt(log[i], x), n, f) => n <= x /\ Kept(i, n, f)
  BY DEF Holding, Said, Core, LaterKeep
<1>2. /\ role[k] = "CANDIDATE" /\ term'[k] = term[k] /\ log'[k] = log[k]
      /\ \/ v \in Backers(k)
         \/ /\ voting[v] /\ term'[v] = term'[k]
            /\ \E m \in Wire(k, v) :
                  /\ IsAsk(m) /\ m.term = term[k]
                  /\ IsAtLeastAsCurrentAs(log[v], m.last_log_index, m.last_log_term)
  BY <1>1, BackersGrow
<1>3. Kept(k, n, f)
  <2>1. CASE v \in Backers(k)
    BY <1>2, <2>1 DEF Holding, Core, CandidatesKeep
  <2>2. CASE /\ voting[v]
             /\ \E m \in Wire(k, v) :
                  /\ IsAsk(m) /\ m.term = term[k]
                  /\ IsAtLeastAsCurrentAs(log[v], m.last_log_index, m.last_log_term)
    <3>1. PICK m \in Wire(k, v) :
              /\ IsAsk(m) /\ m.term = term[k]
              /\ IsAtLeastAsCurrentAs(log[v], m.last_log_index, m.last_log_term)
      BY <2>2
    <3>2. m.last_log_index = LastIndex(log[k]) /\ m.last_log_term = LastTerm(log[k])
      BY <1>1, <1>2, <3>1 DEF Stepped, Base, AsksOK
    <3>3. Kept(v, n, f)
      BY <2>2 DEF Holding, Core, VotersKeep
    <3> DEFINE y == LastIndex(log[v])
               z == LastIndex(log[k])
    <3>4. /\ y \in Nat /\ z \in Nat
          /\ LastTerm(log[v]) = TermAt(log[v], y) /\ LastTerm(log[k]) = TermAt(log[k], z)
          /\ \A x \in 0 .. y : TermAt(log[v], x) \in Nat
          /\ \A x \in 0 .. z : TermAt(log[k], x) \in Nat
      BY <1>1 DEF Stepped, Known, LogTypes
    <3>5. n <= y /\ n \in 0 .. n /\ TermAt(log[v], n) = f[n]
      BY <1>1, <3>3 DEF Kept
    <3>6. \/ TermAt(log[k], z) > TermAt(log[v], y)
          \/ TermAt(log[k], z) = TermAt(log[v], y) /\ z >= y
      BY <3>1, <3>2, <3>4 DEF IsAtLeastAsCurrentAs
    <3>7. \A a, b \in 0 .. y : a <= b => TermAt(log[v], a) <= TermAt(log[v], b)
      BY <1>1 DEF Stepped, Base, LogsSorted
    <3> HIDE DEF y, z
    <3>8. y \in 0 .. y /\ z \in 0 .. z /\ n \in 0 .. y
      BY <1>1, <3>4, <3>5
    <3>9. f[n] <= TermAt(log[v], y) /\ TermAt(log[v], y) \in Nat /\ TermAt(log[k], z) \in Nat
      BY <3>4, <3>5, <3>7, <3>8
    <3>10. TermAt(log[k], z) > f[n] \/ (TermAt(log[k], z) = f[n] /\ z >= n)
      BY <1>1, <3>4, <3>5, <3>6, <3>9
    <3>11. IsLater(z, TermAt(log[k], z), n, f)
      BY <3>10 DEF IsLater
    <3>12. QED
      BY <1>1, <3>8, <3>11 DEF z
  <2>3. QED
    BY <1>2, <2>1, <2>2
<1>4. QED
  BY <1>1, <1>2, <1>3, KeptLonger

\* What is shared with a leader that holds the entry is the entry too.
LEMMA SharedKept ==
  ASSUME NEW n \in Nat, NEW f, NEW j \in Member, NEW k \in Member, NEW x \in Nat,
         Shared(j, k, x), Kept(k, n, f), n <= x, LastIndex(log[j]) \in Nat
  PROVE  Kept(j, n, f)
<1>1. /\ x <= LastIndex(log[j])
      /\ \A y \in 0 .. x : TermAt(log[j], y) = TermAt(log[k], y)
  BY DEF Shared
<1>2. \A y \in 0 .. n : TermAt(log[k], y) = f[y]
  BY DEF Kept
<1>3. \A y \in 0 .. n : y \in 0 .. x
  OBVIOUS
<1>4. n <= LastIndex(log[j])
  BY <1>1
<1>5. QED
  BY <1>1, <1>2, <1>3, <1>4 DEF Kept

LEMMA PromotedKeepStays ==
  ASSUME NEW n, NEW f, NEW A, Holding(n, f, A)
  PROVE  PromotedKeep(n, f, A)'
<1> SUFFICES ASSUME NEW k \in Member, NEW j \in A, NEW m \in Wire(k, j)',
                    IsPromote(m), m.term >= term'[j]
             PROVE  Kept(j, n, f)'
  BY DEF PromotedKeep
<1>1. /\ Stepped /\ n \in Nat /\ f[n] \in Nat /\ j \in Member /\ term[j] >= f[n]
  BY DEF Holding, Said
<1>2. ~Forgets(j)
  <2>1. SUFFICES ASSUME Forgets(j) PROVE FALSE
    OBVIOUS
  <2>2. \A x \in Member : Wire(x, j)' = {}
    BY <2>1, Zenon DEF Forgets
  <2>3. QED
    BY <2>2
<1>3. /\ term'[j] >= term[j] /\ term[j] \in Nat /\ term'[j] \in Nat /\ term[k] \in Nat
      /\ m.term \in Nat
  BY <1>1, TermsRise DEF Stepped, Known, MessageTypes
<1>4. Kept(j, n, f)
  <2>1. CASE m \in Wire(k, j)
    <3>1. m.term >= term[j]
      BY <1>3
    <3>2. QED
      BY <2>1, <3>1 DEF Holding, Core, PromotedKeep
  <2>2. CASE m \notin Wire(k, j)
    <3>1. NewRequest(k, j, m)
      BY <1>1, <2>2, Zenon DEF Stepped, SafeMove, NetMoves, WireMove
    <3>2. NewPromote(k, j, m)
      BY <3>1 DEF NewRequest, NewAsk, NewAppend, IsAsk, IsAppend, IsPromote
    <3>3. /\ role[k] = "LEADER" /\ m.term = term[k] /\ link[k][j] = "up"
          /\ \E r \in Ans(k, j) :
                /\ IsAck(r) /\ r.term = term[k]
                /\ Bar(k, j) <= peers[k][j].match_index \/ Bar(k, j) <= r.match_index
      BY <3>2, Zenon DEF NewPromote
    <3>4. PICK r \in Ans(k, j) :
                /\ IsAck(r) /\ r.term = term[k]
                /\ Bar(k, j) <= peers[k][j].match_index \/ Bar(k, j) <= r.match_index
      BY <3>3
    <3>5. r.term <= term[j]
      BY <1>1, <3>4 DEF Stepped, Base, AnswersOK
    <3>6. term[j] = term[k]
      BY <1>3, <3>3, <3>4, <3>5
    <3>7. Shared(j, k, peers[k][j].match_index) /\ Shared(j, k, r.match_index)
      BY <3>3, <3>4, <3>6 DEF Holding, Credit
    <3>8. Kept(k, n, f)
      BY <1>1, <3>3, <3>6 DEF Holding, Core, LeadersKeep
    <3>9. /\ peers[k][j].match_index \in Nat /\ r.match_index \in Nat
          /\ peers[k][j].promote_through \in Nat
          /\ LastIndex(log[j]) \in Nat /\ LastIndex(log[k]) \in Nat
      BY <1>1, <3>4 DEF Stepped, Known, MessageTypes, LogTypes
    <3>10. Kept(j, n, f) \/ n <= Bar(k, j)
      <4>1. CASE peers[k][j].catching_up
        <5>1. Kept(j, n, f) \/ n <= peers[k][j].promote_through
          BY <1>1, <3>3, <3>6, <4>1 DEF Holding, Core, RejoinersKeep
        <5>2. QED
          BY <4>1, <5>1 DEF Bar
      <4>2. CASE ~peers[k][j].catching_up
        BY <3>8, <4>2 DEF Bar, Kept
      <4>3. QED
        BY <4>1, <4>2
    <3>11. ASSUME n <= Bar(k, j) PROVE Kept(j, n, f)
      <4>1. Bar(k, j) \in Nat
        BY <3>9 DEF Bar
      <4>2. CASE Bar(k, j) <= peers[k][j].match_index
        <5>1. n <= peers[k][j].match_index
          BY <1>1, <3>9, <3>11, <4>1, <4>2
        <5>2. QED
          BY <1>1, <3>7, <3>8, <3>9, <5>1, SharedKept
      <4>3. CASE Bar(k, j) <= r.match_index
        <5>1. n <= r.match_index
          BY <1>1, <3>9, <3>11, <4>1, <4>3
        <5>2. QED
          BY <1>1, <3>7, <3>8, <3>9, <5>1, SharedKept
      <4>4. QED
        BY <3>4, <4>2, <4>3
    <3>12. QED
      BY <3>10, <3>11
  <2>3. QED
    BY <2>1, <2>2
<1>5. QED
  BY <1>1, <1>2, <1>4, KeptStays

LEMMA RejoinersKeepStays ==
  ASSUME NEW n, NEW f, NEW A, Holding(n, f, A)
  PROVE  RejoinersKeep(n, f, A)'
<1> SUFFICES ASSUME NEW k \in Member, NEW j \in A, role'[k] = "LEADER",
                    term'[k] >= f[n], link'[k][j] = "up", peers'[k][j].catching_up
             PROVE  Kept(j, n, f)' \/ n <= peers'[k][j].promote_through
  BY DEF RejoinersKeep
<1>1. Stepped /\ n \in Nat /\ j \in Member /\ term[j] >= f[n]
  BY DEF Holding, Said
<1>2. ~Forgets(j)
  <2>1. SUFFICES ASSUME Forgets(j) PROVE FALSE
    OBVIOUS
  <2>2. \A x \in Member : link'[x][j] # "up"
    BY <2>1, Zenon DEF Forgets
  <2>3. QED
    BY <2>2
<1>3. /\ term'[k] = term[k]
      /\ \/ role[k] = "LEADER"
         \/ Wins(k)
  BY <1>1, LeaderMoves
<1>4. ~Wins(k)
  <2>1. SUFFICES ASSUME Wins(k) PROVE FALSE
    OBVIOUS
  <2>2. ~peers'[k][j].catching_up
    BY <1>1, <2>1 DEF Wins
  <2>3. QED
    BY <2>2
<1>5. role[k] = "LEADER"
  BY <1>3, <1>4
<1>6. \/ /\ peers[k][j].catching_up
         /\ peers'[k][j].promote_through = peers[k][j].promote_through
      \/ peers'[k][j].promote_through = LastIndex(log[k])
  BY <1>1, <1>5 DEF Stepped, SafeMove, MemberMoves, RowMove
<1>7. Kept(k, n, f)
  BY <1>3, <1>5 DEF Holding, Core, LeadersKeep
<1>8. CASE peers'[k][j].promote_through = LastIndex(log[k])
  BY <1>7, <1>8 DEF Kept
<1>9. CASE /\ peers[k][j].catching_up
           /\ peers'[k][j].promote_through = peers[k][j].promote_through
  <2>1. link[k][j] = "up"
    <3>1. link[k][j] = "up" \/ link[k][j] = "down"
      BY <1>1 DEF Stepped, SafeMove, NetMoves, LinkMove
    <3>2. link[k][j] # "down"
      BY <1>1, <1>5, <1>9 DEF Stepped, Base, RowsOK
    <3>3. QED
      BY <3>1, <3>2
  <2>2. Kept(j, n, f) \/ n <= peers[k][j].promote_through
    BY <1>3, <1>5, <1>9, <2>1 DEF Holding, Core, RejoinersKeep
  <2>3. Kept(j, n, f) => Kept(j, n, f)'
    BY <1>1, <1>2, KeptStays
  <2>4. QED
    BY <1>9, <2>2, <2>3
<1>10. QED
  BY <1>6, <1>8, <1>9

\* Once nobody can win a term up to t without one of A, nobody ever can.
LEMMA BeyondStays ==
  ASSUME Stepped, NEW t \in Nat, NEW A \in SUBSET Member, Beyond(A, t)
  PROVE  Beyond(A, t)'
<1> DEFINE P == A \cup {j \in Member : term[j] <= t}
           R == A \cup {j \in Member : term'[j] <= t}
<1>1. Cardinality(P) < Quorum
  BY DEF Beyond
<1>2. R \subseteq P
  <2>1. ASSUME NEW j \in Member, term'[j] <= t
        PROVE  term[j] <= t
    BY <2>1, TermsRise
  <2>2. QED
    BY <2>1
<1>3. P \in SUBSET Member
  OBVIOUS
<1> HIDE DEF P, R
<1>4. IsFiniteSet(P) /\ IsFiniteSet(Member)
  BY <1>3, MemberAssumption, FS_Subset
<1>5. IsFiniteSet(R) /\ Cardinality(R) <= Cardinality(P)
  BY <1>2, <1>4, FS_Subset
<1>6. Cardinality(R) \in Nat /\ Cardinality(P) \in Nat /\ Quorum \in Nat
  BY <1>4, <1>5, FS_CardinalityType, MemberAssumption DEF Quorum
<1>7. Cardinality(R) < Quorum
  BY <1>1, <1>5, <1>6
<1>8. QED
  BY <1>7 DEF Beyond, R

\* The entry stays good.
LEMMA GoodKept ==
  ASSUME Stepped, ForgotOK, HasQuorum, Credit, NEW n, NEW f, Said(n, f),
         NEW A \in SUBSET Member, Good(n, f, A)
  PROVE  Good(n, f, A)'
<1>1. f[n] \in Nat /\ \A j \in A : j \in Member
  BY DEF Said
<1>2. \A j \in A : term[j] >= f[n]
  BY DEF Good
<1>3. \A j \in A : term'[j] >= f[n]
  BY <1>1, <1>2, TermsRise
<1>4. CASE Beyond(A, f[n])
  <2> DEFINE t == f[n]
  <2>1. t \in Nat /\ Beyond(A, t)
    BY <1>1, <1>4
  <2> HIDE DEF t
  <2>2. Beyond(A, t)'
    BY <2>1, BeyondStays
  <2>3. Beyond(A, f[n])'
    BY <2>2 DEF t, Beyond
  <2>4. QED
    BY <1>3, <2>3 DEF Good
<1>5. CASE ~Beyond(A, f[n])
  <2>1. Holding(n, f, A)
    BY <1>2, <1>5 DEF Holding, Good
  <2>2. Core(n, f, A)'
    BY <2>1, LeadersKeepStays, VotersKeepStays, LaterKeepStays, AppendsTellStays,
       CandidatesKeepStays, PromotedKeepStays, RejoinersKeepStays DEF Core
  <2>3. QED
    BY <1>3, <2>2 DEF Good
<1>6. QED
  BY <1>4, <1>5

-----------------------------------------------------------------------------
(* An entry that a quorum has acknowledged *)

Firm(n, f) ==
    /\ n \in Nat /\ n > 0
    /\ \E A \in SUBSET Member : Cardinality(A) >= Quorum /\ Good(n, f, A)

\* A quorum is never too few, so whoever leads holds the entry, and so does a
\* quorum of the members that vote, all but the fewest.
LEMMA FirmIs ==
  ASSUME Known, LogsSorted, HasQuorum, NEW n, NEW f, Firm(n, f)
  PROVE  /\ Said(n, f) /\ LeadersKeep(n, f) /\ LaterKeep(n, f) /\ AppendsTell(n, f)
         /\ \E A \in SUBSET Member : Cardinality(A) >= Quorum /\ VotersKeep(n, f, A)
<1>1. n \in Nat /\ n > 0
  BY DEF Firm
<1>2. PICK A \in SUBSET Member : Cardinality(A) >= Quorum /\ Good(n, f, A)
  BY DEF Firm
<1>3. ~Beyond(A, f[n])
  <2> DEFINE W == A \cup {j \in Member : term[j] <= f[n]}
  <2>1. A \subseteq W /\ W \in SUBSET Member
    OBVIOUS
  <2> HIDE DEF W
  <2>2. IsFiniteSet(W)
    BY <2>1, MemberAssumption, FS_Subset
  <2>3. IsFiniteSet(A) /\ Cardinality(A) <= Cardinality(W)
    BY <2>1, <2>2, FS_Subset
  <2>4. Cardinality(A) \in Nat /\ Cardinality(W) \in Nat /\ Quorum \in Nat
    BY <2>2, <2>3, FS_CardinalityType, MemberAssumption DEF Quorum
  <2>5. ~(Cardinality(W) < Quorum)
    BY <1>2, <2>3, <2>4
  <2>6. QED
    BY <2>5 DEF Beyond, W
<1>4. Core(n, f, A)
  BY <1>2, <1>3 DEF Good
<1> DEFINE V == {i \in Member : voting[i]}
<1>5. V \in SUBSET Member /\ Cardinality(V) >= Quorum
  BY DEF HasQuorum
<1> HIDE DEF V
<1>6. PICK v \in Member : v \in A /\ v \in V
  BY <1>2, <1>5, QuorumsMeet
<1>7. Kept(v, n, f)
  BY <1>4, <1>6 DEF Core, VotersKeep, V
<1>8. Said(n, f)
  BY <1>1, <1>7, SaidByLog
<1>9. QED
  BY <1>2, <1>4, <1>8 DEF Core

LEMMA FirmKept ==
  ASSUME Stepped, ForgotOK, HasQuorum, Credit, NEW n, NEW f, Firm(n, f)
  PROVE  Firm(n, f)'
<1>1. PICK A \in SUBSET Member : Cardinality(A) >= Quorum /\ Good(n, f, A)
  BY DEF Firm
<1>2. n \in Nat /\ n > 0
  BY DEF Firm
<1>3. Said(n, f)
  BY FirmIs DEF Stepped, Base
<1>4. Good(n, f, A)'
  BY <1>1, <1>3, GoodKept
<1>5. QED
  BY <1>1, <1>2, <1>4 DEF Firm

\* Everything up to c is committed as f says it.
Com(c, f) == \A x \in 1 .. c : <<x, f[x]>> \in committed

\* What a member believes committed was acknowledged by a quorum, in a term it
\* has entered...
MembersBacked ==
    \A i \in Member : commit_index[i] > 0 =>
        \E n, f : /\ Firm(n, f) /\ commit_index[i] <= n /\ f[n] <= term[i]
                  /\ Kept(i, commit_index[i], f) /\ Com(commit_index[i], f)

\* ...and so was what an append says is committed...
AppendsBacked ==
    \A m \in Appended : m.leader_commit > 0 =>
        \E n, f : /\ Firm(n, f) /\ m.leader_commit <= n /\ f[n] <= m.term
                  /\ Com(m.leader_commit, f)

\* ...and what is committed.
LedgerBacked ==
    \A e \in committed :
        e[1] > 0 /\ \E n, f : Firm(n, f) /\ e[1] <= n /\ f[e[1]] = e[2]

Backed == MembersBacked /\ AppendsBacked /\ LedgerBacked

\* What a leader has appended in its term is good, with those who acknowledged
\* it.
LeadersGood ==
    \A l \in Member : role[l] = "LEADER" =>
        \A n \in Nat : \A f, A :
            n > 0 /\ Kept(l, n, f) /\ f[n] = term[l] /\ A = Acked(l, n) => Good(n, f, A)

Safe == Base /\ ForgotOK /\ Credit /\ LeadersGood /\ Backed /\ stopped = {}

\* A step from a state in which all of this holds.
SafeStep == Stepped /\ HasQuorum /\ Safe

\* A member that takes an append that tells the entry says the same as it, as
\* far as the append goes.
LEMMA TakenTold ==
  ASSUME Stepped, NEW n, NEW f, Said(n, f), LaterKeep(n, f), NEW i \in Member,
         NEW j \in Member, NEW m, TakesFrom(i, j, m), Tells(m, n, f)
  PROVE  \A x \in 0 .. n : x <= Through(m) =>
             x <= LastIndex(log'[i]) /\ TermAt(log'[i], x) = f[x]
<1>1. n \in Nat /\ n > 0 /\ f[n] \in Nat
  BY DEF Said
<1>2. /\ LastIndex(log[i]) \in Nat /\ LastIndex(log'[i]) \in Nat
      /\ \A y \in 0 .. LastIndex(log[i]) : TermAt(log[i], y) \in Nat
  BY DEF Stepped, Known, LogTypes
<1> DEFINE p == m.prev_log_index
           q == Through(m)
<1>3. /\ m \in Appended
      /\ p \in Nat /\ q \in Nat /\ p <= q
      /\ p <= LastIndex(log[i]) /\ q <= LastIndex(log'[i])
      /\ \A y \in 0 .. p : TermAt(log'[i], y) = TermAt(log[i], y)
      /\ \A y \in p .. q : TermAt(log'[i], y) = AppendSpan(m)[y]
      /\ TermAt(log[i], p) = AppendSpan(m)[p]
  BY TakenSays
<1>4. AppendSpan(m)[p] = m.prev_log_term
  BY <1>3 DEF Stepped, Known, AppendTypes
<1>5. /\ n < p => m.prev_log_term >= f[n]
      /\ \A y \in p .. q : y <= n => AppendSpan(m)[y] = f[y]
  BY DEF Tells
<1> SUFFICES ASSUME NEW x \in 0 .. n, x <= q
             PROVE  x <= LastIndex(log'[i]) /\ TermAt(log'[i], x) = f[x]
  OBVIOUS
<1> HIDE DEF p, q
<1>6. p \in 0 .. LastIndex(log[i]) /\ p \in p .. q /\ n \in 0 .. n
  BY <1>1, <1>2, <1>3
<1>7. x <= LastIndex(log'[i])
  BY <1>2, <1>3
<1>8. CASE x > p
  <2>1. x \in p .. q /\ x <= n
    BY <1>1, <1>3, <1>8
  <2>2. QED
    BY <1>3, <1>5, <1>7, <2>1
<1>9. CASE x <= p
  <2>1. x \in 0 .. p
    BY <1>3, <1>9
  <2>2. TermAt(log'[i], x) = TermAt(log[i], x)
    BY <1>3, <2>1
  <2>3. CASE n < p
    <3>1. IsLater(p, TermAt(log[i], p), n, f)
      BY <1>1, <1>2, <1>3, <1>4, <1>5, <1>6, <2>3 DEF IsLater
    <3>2. Kept(i, n, f)
      BY <1>6, <3>1 DEF LaterKeep
    <3>3. QED
      BY <1>7, <2>2, <3>2 DEF Kept
  <2>4. CASE p <= n
    <3>1. p \in 0 .. n /\ TermAt(log[i], p) = f[p]
      BY <1>1, <1>3, <1>5, <1>6, <2>4
    <3>2. \A y \in 0 .. p : TermAt(log[i], y) = f[y]
      BY <1>3, <3>1 DEF Said
    <3>3. QED
      BY <1>7, <2>1, <2>2, <3>2
  <2>5. QED
    BY <1>1, <1>3, <2>3, <2>4
<1>10. QED
  BY <1>1, <1>3, <1>8, <1>9

-----------------------------------------------------------------------------
(* What a leader is told its peers hold *)

LEMMA SharedAtZero ==
  ASSUME Known, NEW j \in Member, NEW k \in Member
  PROVE  Shared(j, k, 0)
<1>1. /\ LastIndex(log[j]) \in Nat /\ LastIndex(log[k]) \in Nat
      /\ TermAt(log[j], 0) = 0 /\ TermAt(log[k], 0) = 0
  BY DEF Known, LogTypes
<1>2. \A x \in 0 .. 0 : x = 0
  OBVIOUS
<1>3. QED
  BY <1>1, <1>2 DEF Shared

\* A leader holds what a member of its term or an earlier one has committed.
LEMMA CommitHeld ==
  ASSUME SafeStep, NEW k \in Member, NEW j \in Member, role[k] = "LEADER",
         term[j] <= term[k]
  PROVE  Shared(j, k, commit_index[j])
<1>1. Known /\ LogsSorted /\ HasQuorum
  BY DEF SafeStep, Stepped, Base
<1>2. /\ commit_index[j] \in Nat /\ term[j] \in Nat /\ term[k] \in Nat
      /\ LastIndex(log[j]) \in Nat /\ LastIndex(log[k]) \in Nat
  BY <1>1 DEF Known, LogTypes
<1>3. CASE commit_index[j] = 0
  BY <1>1, <1>3, SharedAtZero
<1>4. CASE commit_index[j] > 0
  <2>1. \E n, f : /\ Firm(n, f) /\ commit_index[j] <= n /\ f[n] <= term[j]
                  /\ Kept(j, commit_index[j], f)
    BY <1>4, Zenon DEF SafeStep, Safe, Backed, MembersBacked
  <2>2. PICK n, f : /\ Firm(n, f) /\ commit_index[j] <= n /\ f[n] <= term[j]
                    /\ Kept(j, commit_index[j], f)
    BY <2>1
  <2>3. Said(n, f) /\ LeadersKeep(n, f)
    BY <1>1, <2>2, FirmIs
  <2>4. n \in Nat /\ f[n] \in Nat
    BY <2>3 DEF Said
  <2>5. Kept(k, n, f)
    BY <1>2, <2>2, <2>3, <2>4 DEF LeadersKeep
  <2> DEFINE c == commit_index[j]
  <2>6. /\ c <= LastIndex(log[j]) /\ \A x \in 0 .. c : TermAt(log[j], x) = f[x]
        /\ n <= LastIndex(log[k]) /\ \A x \in 0 .. n : TermAt(log[k], x) = f[x]
    BY <2>2, <2>5 DEF Kept
  <2>7. c <= n /\ c \in Nat
    BY <1>2, <2>2
  <2> HIDE DEF c
  <2>8. c <= LastIndex(log[k]) /\ \A x \in 0 .. c : x \in 0 .. n
    BY <1>2, <2>4, <2>6, <2>7
  <2>9. \A x \in 0 .. c : TermAt(log[j], x) = TermAt(log[k], x)
    BY <2>6, <2>8
  <2>10. Shared(j, k, c)
    BY <2>6, <2>8, <2>9 DEF Shared
  <2>11. QED
    BY <2>10 DEF c
<1>5. QED
  BY <1>2, <1>3, <1>4

\* The log of who leads on says all it said.
LEMMA LeaderLonger ==
  ASSUME Stepped, NEW k \in Member, role[k] = "LEADER", role'[k] = "LEADER"
  PROVE  /\ LastIndex(log[k]) <= LastIndex(log'[k])
         /\ \A x \in 0 .. LastIndex(log[k]) : TermAt(log'[k], x) = TermAt(log[k], x)
         /\ LastIndex(log'[k]) <= LastIndex(log[k]) + 1
<1>1. LastIndex(log[k]) \in Nat
  BY DEF Stepped, Known, LogTypes
<1>2. log'[k] = log[k] \/ Adds(k)
  <2>1. ~Wins(k)
    BY DEF Wins
  <2>2. QED
    BY <2>1, LeaderMoves
<1>3. CASE log'[k] = log[k]
  BY <1>1, <1>3
<1>4. CASE Adds(k)
  <2>1. log'[k] = AppendLocal(log[k], term[k])
    BY <1>4 DEF Adds
  <2>2. QED
    BY <1>1, <2>1, LogLonger
<1>5. QED
  BY <1>2, <1>3, <1>4

LEMMA WinnerUnheard ==
  ASSUME Stepped, NEW k \in Member, Wins(k), NEW j \in Member
  PROVE  /\ \A m \in Wire(k, j) : IsAppend(m) => m.term # term[k]
         /\ \A r \in Ans(k, j) : IsAck(r) => r.term # term[k]
<1>1. ~Led(term[k])
  BY WinnerIsNew
<1>2. ASSUME NEW m \in Wire(k, j), IsAppend(m), m.term = term[k]
      PROVE  FALSE
  <2>1. m \in Appended
    BY <1>2 DEF Stepped, Known, MessageTypes
  <2>2. Led(m.term)
    BY <2>1 DEF Stepped, Base, RequestsLed
  <2>3. QED
    BY <1>1, <1>2, <2>2
<1>3. ASSUME NEW r \in Ans(k, j), IsAck(r), r.term = term[k]
      PROVE  FALSE
  <2>1. Led(r.term)
    BY <1>3 DEF Stepped, Base, AnswersOK
  <2>2. QED
    BY <1>1, <1>3, <2>1
<1>4. QED
  BY <1>2, <1>3

\* A new acknowledgement of a leader's append is for what both hold.
LEMMA NewAckShared ==
  ASSUME SafeStep, NEW k \in Member, NEW j \in Member, role'[k] = "LEADER",
         NEW r, NewAck(k, j, r), r.term = term'[k]
  PROVE  /\ role[k] = "LEADER" /\ term'[j] = term[k]
         /\ r.match_index \in Nat /\ r.match_index <= LastIndex(log[k])
         /\ Shared(j, k, r.match_index)'
<1>1. Stepped /\ Known
  BY DEF SafeStep, Stepped
<1>2. term'[k] = term[k] /\ (role[k] = "LEADER" \/ Wins(k))
  BY <1>1, LeaderMoves
<1>3. PICK m \in Wire(k, j) :
          /\ IsAppend(m) /\ m.term = r.term /\ term[j] <= r.term
          /\ \/ /\ TakesFrom(j, k, m)
                /\ r.match_index = m.prev_log_index + Len(m.entries)
             \/ log'[j] = log[j] /\ r.match_index = commit_index[j]
  BY DEF NewAck
<1>4. role[k] = "LEADER"
  <2>1. ~Wins(k)
    BY <1>1, <1>2, <1>3, WinnerUnheard
  <2>2. QED
    BY <1>2, <2>1
<1>5. term'[j] = term[k]
  BY <1>2 DEF NewAck
<1>6. /\ LastIndex(log[k]) <= LastIndex(log'[k])
      /\ \A x \in 0 .. LastIndex(log[k]) : TermAt(log'[k], x) = TermAt(log[k], x)
  BY <1>1, <1>4, LeaderLonger
<1>7. /\ LastIndex(log[k]) \in Nat /\ LastIndex(log'[k]) \in Nat
      /\ LastIndex(log[j]) \in Nat /\ LastIndex(log'[j]) \in Nat
      /\ commit_index[j] \in Nat
  BY <1>1 DEF Stepped, Known, LogTypes
<1>8. CASE log'[j] = log[j] /\ r.match_index = commit_index[j]
  <2>1. term[j] <= term[k]
    BY <1>2, <1>3
  <2>2. Shared(j, k, r.match_index)
    BY <1>4, <1>8, <2>1, CommitHeld
  <2> DEFINE y == r.match_index
  <2>3. /\ y <= LastIndex(log[j]) /\ y <= LastIndex(log[k]) /\ y \in Nat
        /\ \A x \in 0 .. y : TermAt(log[j], x) = TermAt(log[k], x)
    BY <1>7, <1>8, <2>2 DEF Shared
  <2> HIDE DEF y
  <2>4. y <= LastIndex(log'[k]) /\ \A x \in 0 .. y : x \in 0 .. LastIndex(log[k])
    BY <1>6, <1>7, <2>3
  <2>5. \A x \in 0 .. y : TermAt(log'[j], x) = TermAt(log'[k], x)
    BY <1>6, <1>8, <2>3, <2>4
  <2>6. QED
    BY <1>4, <1>5, <1>8, <2>3, <2>4, <2>5 DEF Shared, y
<1>9. CASE TakesFrom(j, k, m) /\ r.match_index = Through(m)
  <2> DEFINE p == m.prev_log_index
             q == Through(m)
  <2>1. /\ m \in Appended
        /\ p \in Nat /\ q \in Nat /\ p <= q
        /\ p <= LastIndex(log[j]) /\ q <= LastIndex(log'[j])
        /\ \A x \in 0 .. p : TermAt(log'[j], x) = TermAt(log[j], x)
        /\ \A x \in p .. q : TermAt(log'[j], x) = AppendSpan(m)[x]
        /\ TermAt(log[j], p) = AppendSpan(m)[p]
    BY <1>1, <1>9, TakenSays
  <2>2. /\ q <= LastIndex(log[k])
        /\ \A x \in p .. q : AppendSpan(m)[x] = TermAt(log[k], x)
    BY <1>1, <1>2, <1>3, <1>4, <2>1 DEF Stepped, Base, AppendsPart
  <2>3. r.match_index = q
    BY <1>9
  <2> HIDE DEF p, q
  <2>4. \A x \in 0 .. p : TermAt(log[j], x) = TermAt(log[k], x)
    <3>1. p \in 0 .. LastIndex(log[j]) /\ p <= LastIndex(log[k]) /\ p \in p .. q
      BY <1>7, <2>1, <2>2
    <3>2. TermAt(log[j], p) = TermAt(log[k], p)
      BY <2>1, <2>2, <3>1
    <3>3. QED
      BY <1>1, <3>1, <3>2 DEF Known, LogsMatched
  <2>5. ASSUME NEW x \in 0 .. q
        PROVE  TermAt(log'[j], x) = TermAt(log'[k], x)
    <3>1. TermAt(log'[k], x) = TermAt(log[k], x)
      BY <1>6, <1>7, <2>1, <2>2
    <3>2. CASE x <= p
      <4>1. x \in 0 .. p
        BY <2>1, <3>2
      <4>2. QED
        BY <2>1, <2>4, <3>1, <4>1
    <3>3. CASE x > p
      <4>1. x \in p .. q
        BY <2>1, <3>3
      <4>2. QED
        BY <2>1, <2>2, <3>1, <4>1
    <3>4. QED
      BY <2>1, <3>2, <3>3
  <2>6. q <= LastIndex(log'[k])
    BY <1>6, <1>7, <2>1, <2>2
  <2>7. QED
    BY <1>4, <1>5, <2>1, <2>2, <2>3, <2>5, <2>6 DEF Shared
<1>10. QED
  BY <1>3, <1>8, <1>9 DEF Through

LEMMA SharedLess ==
  ASSUME NEW j, NEW k, NEW x \in Nat, NEW y \in Nat, y <= x, Shared(j, k, x),
         LastIndex(log[j]) \in Nat, LastIndex(log[k]) \in Nat
  PROVE  Shared(j, k, y)
<1>1. /\ x <= LastIndex(log[j]) /\ x <= LastIndex(log[k])
      /\ \A z \in 0 .. x : TermAt(log[j], z) = TermAt(log[k], z)
  BY DEF Shared
<1>2. \A z \in 0 .. y : z \in 0 .. x
  OBVIOUS
<1>3. QED
  BY <1>1, <1>2 DEF Shared

\* What a member shares with the leader of its term it shares until it forgets.
LEMMA SharedStays ==
  ASSUME Stepped, NEW k \in Member, NEW j \in Member, role[k] = "LEADER",
         role'[k] = "LEADER", term'[j] = term[k], ~Forgets(j),
         NEW x \in Nat, Shared(j, k, x)
  PROVE  Shared(j, k, x)'
<1>1. /\ LastIndex(log[k]) <= LastIndex(log'[k])
      /\ \A y \in 0 .. LastIndex(log[k]) : TermAt(log'[k], y) = TermAt(log[k], y)
  BY LeaderLonger
<1>2. /\ LastIndex(log[k]) \in Nat /\ LastIndex(log'[k]) \in Nat
      /\ LastIndex(log[j]) \in Nat /\ LastIndex(log'[j]) \in Nat
      /\ \A y \in 0 .. LastIndex(log[k]) : TermAt(log[k], y) \in Nat
  BY DEF Stepped, Known, LogTypes
<1>3. PICK f : f = LogSpan(log[k])
  OBVIOUS
<1>4. \A y \in 0 .. LastIndex(log[k]) : f[y] = TermAt(log[k], y)
  BY <1>3, LogSaid DEF Stepped, Known
<1>5. /\ x <= LastIndex(log[j]) /\ x <= LastIndex(log[k])
      /\ \A y \in 0 .. x : TermAt(log[j], y) = TermAt(log[k], y)
  BY DEF Shared
<1>6. \A y \in 0 .. x : y \in 0 .. LastIndex(log[k])
  BY <1>2, <1>5
<1>7. Kept(j, x, f)
  BY <1>4, <1>5, <1>6 DEF Kept
<1>8. Kept(j, x, f)'
  <2>1. MemberMove(j)
    BY DEF Stepped, SafeMove, MemberMoves
  <2>2. CASE \E i \in Member : \E m \in Wire(i, j) : TakesFrom(j, i, m)
    <3>1. PICK i \in Member : \E m \in Wire(i, j) : TakesFrom(j, i, m)
      BY <2>2
    <3>2. PICK m \in Wire(i, j) : TakesFrom(j, i, m)
      BY <3>1
    <3>3. m \in Appended /\ m.term = term[k]
      BY <3>2, TakenSays DEF TakesFrom
    <3>4. /\ m.prev_log_index \in Nat /\ Through(m) \in Nat /\ m.prev_log_index <= Through(m)
          /\ AppendSpan(m)[m.prev_log_index] = m.prev_log_term
      BY <3>3 DEF Stepped, Known, AppendTypes
    <3>5. /\ Through(m) <= LastIndex(log[k])
          /\ \A y \in m.prev_log_index .. Through(m) : AppendSpan(m)[y] = TermAt(log[k], y)
      BY <3>3 DEF Stepped, Base, AppendsPart
    <3>6. \A y \in m.prev_log_index .. Through(m) : AppendSpan(m)[y] = f[y]
      <4>1. \A y \in m.prev_log_index .. Through(m) : y \in 0 .. LastIndex(log[k])
        BY <1>2, <3>4, <3>5
      <4>2. QED
        BY <1>4, <3>5, <4>1
    <3>7. x < m.prev_log_index => m.prev_log_term >= f[x]
      <4> DEFINE p == m.prev_log_index
      <4>1. SUFFICES ASSUME x < p PROVE m.prev_log_term >= f[x]
        OBVIOUS
      <4>2. p \in m.prev_log_index .. Through(m) /\ p \in 0 .. LastIndex(log[k])
            /\ x \in 0 .. LastIndex(log[k]) /\ x <= p
        BY <1>2, <1>5, <3>4, <3>5, <4>1
      <4>3. m.prev_log_term = TermAt(log[k], p) /\ f[x] = TermAt(log[k], x)
        BY <1>4, <3>4, <3>5, <4>2
      <4>4. TermAt(log[k], x) <= TermAt(log[k], p)
        BY <4>2 DEF Stepped, Base, LogsSorted
      <4>5. TermAt(log[k], x) \in Nat /\ TermAt(log[k], p) \in Nat
        BY <1>2, <4>2
      <4>6. QED
        BY <4>3, <4>4, <4>5
    <3>8. Tells(m, x, f)
      BY <3>6, <3>7 DEF Tells
    <3>9. QED
      BY <1>7, <3>2, <3>8, TakeKeeps
  <2>3. CASE Rests(j) \/ Campaigns(j) \/ Adds(j) \/ Wins(j) \/ Joins(j)
    <3>1. log'[j] = log[j] \/ log'[j] = AppendLocal(log[j], term[j])
      BY <2>3, Zenon DEF Rests, Campaigns, Adds, Wins, Joins
    <3>2. QED
      BY <1>7, <3>1, KeptLonger
  <2>4. QED
    BY <2>1, <2>2, <2>3 DEF MemberMove
<1>9. /\ x <= LastIndex(log'[j])
      /\ \A y \in 0 .. x : TermAt(log'[j], y) = f[y]
  BY <1>8 DEF Kept
<1>10. x <= LastIndex(log'[k])
  BY <1>1, <1>2, <1>5
<1>11. \A y \in 0 .. x : TermAt(log'[j], y) = TermAt(log'[k], y)
  BY <1>1, <1>4, <1>6, <1>9
<1>12. QED
  BY <1>9, <1>10, <1>11 DEF Shared

\* An acknowledgement of a leader's term is new, or of a leader that leads on.
LEMMA OldAck ==
  ASSUME SafeStep, NEW k \in Member, NEW j \in Member, role'[k] = "LEADER",
         NEW r \in Ans(k, j)', IsAck(r), r.term = term'[k]
  PROVE  /\ term'[k] = term[k] /\ r.match_index \in Nat /\ role[k] = "LEADER"
         /\ r \in Ans(k, j) \/ NewAck(k, j, r)
<1>1. Stepped
  BY DEF SafeStep
<1>2. term'[k] = term[k] /\ (role[k] = "LEADER" \/ Wins(k))
  BY <1>1, LeaderMoves
<1>3. r.match_index \in Nat
  BY <1>1 DEF Stepped, Known, MessageTypes
<1>4. r \in Ans(k, j) \/ NewAck(k, j, r)
  <2>1. r \in Ans(k, j) \/ NewAnswer(k, j, r)
    BY <1>1, Zenon DEF Stepped, SafeMove, NetMoves, AnsMove
  <2>2. ~NewVote(k, j, r)
    BY DEF NewVote, IsVoteReply, IsAck
  <2>3. QED
    BY <2>1, <2>2 DEF NewAnswer
<1>5. role[k] = "LEADER"
  <2>1. CASE NewAck(k, j, r)
    BY <2>1, NewAckShared
  <2>2. CASE r \in Ans(k, j)
    <3>1. ~Wins(k)
      BY <1>1, <1>2, <2>2, WinnerUnheard
    <3>2. QED
      BY <1>2, <3>1
  <2>3. QED
    BY <1>4, <2>1, <2>2
<1>6. QED
  BY <1>2, <1>3, <1>4, <1>5

\* A row of a leader that leads on has no more credit than it had, or than an
\* acknowledgement gives it.
LEMMA CreditKept ==
  ASSUME SafeStep
  PROVE  Credit'
<1> SUFFICES ASSUME NEW k \in Member, NEW j \in Member, role'[k] = "LEADER"
             PROVE  /\ \A r \in Ans(k, j)' : IsAck(r) /\ r.term = term'[k] =>
                          r.match_index <= LastIndex(log'[k])
                    /\ link'[k][j] = "up" /\ term'[j] = term'[k] =>
                          /\ Shared(j, k, peers[k][j].match_index)'
                          /\ \A r \in Ans(k, j)' : IsAck(r) /\ r.term = term'[k] =>
                                Shared(j, k, r.match_index)'
  BY DEF Credit, Ans, Shared
<1>1. Stepped /\ Known /\ Credit
  BY DEF SafeStep, Safe, Stepped
<1>2. /\ LastIndex(log[k]) \in Nat /\ LastIndex(log'[k]) \in Nat
      /\ LastIndex(log[j]) \in Nat /\ LastIndex(log'[j]) \in Nat
      /\ peers[k][j].match_index \in Nat /\ peers'[k][j].match_index \in Nat
      /\ term[j] \in Nat /\ term[k] \in Nat
      /\ term'[j] \in Nat /\ term'[j] >= term[j]
  BY <1>1, TermsRise DEF Stepped, Known, LogTypes, MessageTypes
<1>3. term'[k] = term[k] /\ (role[k] = "LEADER" \/ Wins(k))
  BY <1>1, LeaderMoves
<1>4. ASSUME NEW r \in Ans(k, j)', IsAck(r), r.term = term'[k]
      PROVE  r.match_index <= LastIndex(log'[k])
  <2>1. role[k] = "LEADER" /\ r.match_index \in Nat
        /\ (r \in Ans(k, j) \/ NewAck(k, j, r))
    BY <1>4, OldAck
  <2>2. LastIndex(log[k]) <= LastIndex(log'[k])
    BY <1>1, <2>1, LeaderLonger
  <2>3. r.match_index <= LastIndex(log[k])
    <3>1. CASE NewAck(k, j, r)
      BY <1>4, <3>1, NewAckShared
    <3>2. CASE r \in Ans(k, j)
      BY <1>1, <1>3, <1>4, <2>1, <3>2 DEF Credit
    <3>3. QED
      BY <2>1, <3>1, <3>2
  <2>4. QED
    BY <1>2, <2>1, <2>2, <2>3
<1>5. ASSUME link'[k][j] = "up", term'[j] = term'[k]
      PROVE  /\ Shared(j, k, peers[k][j].match_index)'
             /\ \A r \in Ans(k, j)' : IsAck(r) /\ r.term = term'[k] =>
                   Shared(j, k, r.match_index)'
  <2>1. ~Forgets(j)
    <3>1. SUFFICES ASSUME Forgets(j) PROVE FALSE
      OBVIOUS
    <3>2. \A x \in Member : link'[x][j] # "up"
      BY <3>1, Zenon DEF Forgets
    <3>3. QED
      BY <1>5, <3>2
  <2>2. \/ link[k][j] = "up"
        \/ link[k][j] = "down" /\ peers'[k][j].match_index = 0
    BY <1>1, <1>5 DEF Stepped, SafeMove, NetMoves, LinkMove
  <2>3. ASSUME NEW r \in Ans(k, j), IsAck(r), r.term = term[k], role[k] = "LEADER"
        PROVE  link[k][j] = "up" /\ term[j] = term[k] /\ Shared(j, k, r.match_index)
    <3>1. link[k][j] = "up"
      <4>1. SUFFICES ASSUME link[k][j] = "down" PROVE FALSE
        BY <2>2
      <4>2. rep[k][j] = <<>>
        BY <1>1, <4>1 DEF Stepped, Base, Silent
      <4>3. Ans(k, j) = {}
        BY <4>2, EmptySeq DEF Ans, Range
      <4>4. QED
        BY <2>3, <4>3
    <3>2. r.term <= term[j]
      BY <1>1, <2>3 DEF Stepped, Base, AnswersOK
    <3>3. term[j] = term[k]
      BY <1>2, <1>3, <1>5, <2>3, <3>2
    <3>4. QED
      BY <1>1, <2>3, <3>1, <3>3 DEF Credit
  <2>4. ASSUME NEW r \in Ans(k, j)', IsAck(r), r.term = term'[k]
        PROVE  Shared(j, k, r.match_index)'
    <3>1. role[k] = "LEADER" /\ r.match_index \in Nat
          /\ (r \in Ans(k, j) \/ NewAck(k, j, r))
      BY <2>4, OldAck
    <3>2. CASE NewAck(k, j, r)
      BY <2>4, <3>2, NewAckShared
    <3>3. CASE r \in Ans(k, j)
      <4>1. Shared(j, k, r.match_index)
        BY <1>3, <2>3, <2>4, <3>1, <3>3
      <4>2. QED
        BY <1>1, <1>3, <1>5, <2>1, <3>1, <4>1, SharedStays
    <3>4. QED
      BY <3>1, <3>2, <3>3
  <2>5. PICK x \in Nat : x = peers'[k][j].match_index
    BY <1>2
  <2>6. Shared(j, k, x)'
    <3>1. CASE x = 0
      <4>1. /\ LastIndex(log'[j]) \in Nat /\ LastIndex(log'[k]) \in Nat
            /\ TermAt(log'[j], 0) = 0 /\ TermAt(log'[k], 0) = 0
        BY <1>1 DEF Stepped, Known, LogTypes
      <4>2. \A y \in 0 .. x : y = 0
        BY <3>1
      <4>3. QED
        BY <3>1, <4>1, <4>2 DEF Shared
    <3>2. CASE x > 0
      <4>1. role[k] = "LEADER"
        <5>1. ~Wins(k)
          <6>1. SUFFICES ASSUME Wins(k) PROVE FALSE
            OBVIOUS
          <6>2. peers'[k][j].match_index = 0
            BY <6>1 DEF Wins
          <6>3. QED
            BY <2>5, <3>2, <6>2
        <5>2. QED
          BY <1>3, <5>1
      <4>2. \/ x <= peers[k][j].match_index
            \/ \E r \in Ans(k, j) : /\ IsAck(r) /\ r.term = term[k]
                                    /\ x <= r.match_index
        BY <1>1, <2>5, <4>1 DEF Stepped, SafeMove, MemberMoves, RowMove
      <4>3. Shared(j, k, x)
        <5>1. CASE x <= peers[k][j].match_index
          <6>1. link[k][j] = "up"
            BY <2>2, <2>5, <3>2
          <6>2. peers[k][j].match_index > 0
            BY <1>2, <3>2, <5>1
          <6>3. term[j] >= term[k]
            BY <1>1, <4>1, <6>2 DEF Stepped, Base, RowsOK
          <6>4. term[j] = term[k]
            BY <1>2, <1>3, <1>5, <6>3
          <6>5. Shared(j, k, peers[k][j].match_index)
            BY <1>1, <4>1, <6>1, <6>4 DEF Credit
          <6>6. QED
            BY <1>2, <5>1, <6>5, SharedLess
        <5>2. CASE \E r \in Ans(k, j) : /\ IsAck(r) /\ r.term = term[k]
                                        /\ x <= r.match_index
          <6>1. PICK r \in Ans(k, j) : /\ IsAck(r) /\ r.term = term[k]
                                       /\ x <= r.match_index
            BY <5>2
          <6>2. Shared(j, k, r.match_index)
            BY <2>3, <4>1, <6>1
          <6>3. r.match_index \in Nat
            BY <1>1, <6>1 DEF Known, MessageTypes
          <6>4. QED
            BY <1>2, <6>1, <6>2, <6>3, SharedLess
        <5>3. QED
          BY <4>2, <5>1, <5>2
      <4>4. QED
        BY <1>1, <1>3, <1>5, <2>1, <4>1, <4>3, SharedStays
    <3>3. QED
      BY <2>5, <3>1, <3>2
  <2>7. Shared(j, k, peers[k][j].match_index)'
    BY <2>5, <2>6 DEF Shared
  <2>8. QED
    BY <2>4, <2>7
<1>6. QED
  BY <1>4, <1>5

-----------------------------------------------------------------------------
(* What leaders append *)

\* Who acknowledges an entry in its term, and holds it, joins those who did.
LEMMA GoodGrows ==
  ASSUME Known', NEW n, NEW f, f[n] \in Nat,
         NEW A \in SUBSET Member, NEW B \in SUBSET Member, Good(n, f, A)',
         \A j \in B : j \in A \/ (term'[j] = f[n] /\ Kept(j, n, f)')
  PROVE  Good(n, f, B)'
<1>1. \A j \in B : term'[j] >= f[n]
  BY DEF Good
<1>2. CASE Beyond(A, f[n])'
  <2> DEFINE P == A \cup {j \in Member : term'[j] <= f[n]}
             R == B \cup {j \in Member : term'[j] <= f[n]}
  <2>1. Cardinality(P) < Quorum
    BY <1>2 DEF Beyond
  <2>2. R \subseteq P /\ P \in SUBSET Member
    <3>1. ASSUME NEW j \in B, j \notin A
          PROVE  term'[j] <= f[n]
      BY <3>1
    <3>2. QED
      BY <3>1
  <2> HIDE DEF P, R
  <2>3. IsFiniteSet(P)
    BY <2>2, MemberAssumption, FS_Subset
  <2>4. IsFiniteSet(R) /\ Cardinality(R) <= Cardinality(P)
    BY <2>2, <2>3, FS_Subset
  <2>5. Cardinality(R) \in Nat /\ Cardinality(P) \in Nat /\ Quorum \in Nat
    BY <2>3, <2>4, FS_CardinalityType, MemberAssumption DEF Quorum
  <2>6. Cardinality(R) < Quorum
    BY <2>1, <2>4, <2>5
  <2>7. Beyond(B, f[n])'
    BY <2>6 DEF Beyond, R
  <2>8. QED
    BY <1>1, <2>7 DEF Good
<1>3. CASE Core(n, f, A)'
  <2>1. /\ LeadersKeep(n, f)' /\ VotersKeep(n, f, A)' /\ LaterKeep(n, f)' /\ AppendsTell(n, f)'
        /\ CandidatesKeep(n, f, A)' /\ PromotedKeep(n, f, A)' /\ RejoinersKeep(n, f, A)'
    BY <1>3 DEF Core
  <2>2. VotersKeep(n, f, B)'
    BY <2>1 DEF VotersKeep
  <2>3. CandidatesKeep(n, f, B)'
    <3> SUFFICES ASSUME NEW k \in Member, role'[k] = "CANDIDATE", term'[k] > f[n],
                        NEW v \in B, v \in Backers(k)'
                 PROVE  Kept(k, n, f)'
      BY DEF CandidatesKeep
    <3>1. v \in A
      <4>1. term'[v] >= term'[k]
        BY DEF Known, BackersAhead
      <4>2. term'[v] \in Nat /\ term'[k] \in Nat
        BY DEF Known, LogTypes
      <4>3. term'[v] # f[n]
        BY <4>1, <4>2
      <4>4. QED
        BY <4>3
    <3>2. QED
      BY <2>1, <3>1 DEF CandidatesKeep
  <2>4. PromotedKeep(n, f, B)'
    <3> SUFFICES ASSUME NEW k \in Member, NEW j \in B, NEW m \in Wire(k, j)',
                        IsPromote(m), m.term >= term'[j]
                 PROVE  Kept(j, n, f)'
      BY DEF PromotedKeep
    <3>1. CASE j \in A
      BY <2>1, <3>1 DEF PromotedKeep
    <3>2. QED
      BY <3>1
  <2>5. RejoinersKeep(n, f, B)'
    <3> SUFFICES ASSUME NEW k \in Member, NEW j \in B, role'[k] = "LEADER",
                        term'[k] >= f[n], link'[k][j] = "up", peers'[k][j].catching_up
                 PROVE  Kept(j, n, f)' \/ n <= peers'[k][j].promote_through
      BY DEF RejoinersKeep
    <3>1. CASE j \in A
      BY <2>1, <3>1 DEF RejoinersKeep
    <3>2. QED
      BY <3>1
  <2>6. Core(n, f, B)'
    BY <2>1, <2>2, <2>3, <2>4, <2>5 DEF Core
  <2>7. QED
    BY <1>1, <2>6 DEF Good
<1>4. QED
  BY <1>2, <1>3 DEF Good

\* Who is not in a quorum is less than a quorum.
LEMMA FewLeft ==
  ASSUME NEW V \in SUBSET Member, NEW P \in SUBSET Member, Cardinality(V) >= Quorum,
         \A v \in V : v \notin P
  PROVE  Cardinality(P) < Quorum
<1> DEFINE W == Member \ V
<1>1. IsFiniteSet(V) /\ IsFiniteSet(W) /\ P \subseteq W
  BY MemberAssumption, FS_Subset
<1>2. IsFiniteSet(P) /\ Cardinality(P) <= Cardinality(W)
  BY <1>1, FS_Subset
<1>3. Cardinality(W) = Cardinality(Member) - Cardinality(Member \cap V)
  BY MemberAssumption, FS_Difference
<1>4. Member \cap V = V
  OBVIOUS
<1>5. /\ Cardinality(P) \in Nat /\ Cardinality(V) \in Nat /\ Cardinality(W) \in Nat
      /\ Cardinality(Member) \in Nat
  BY <1>1, <1>2, MemberAssumption, FS_CardinalityType
<1> HIDE DEF W
<1>6. Cardinality(W) = Cardinality(Member) - Cardinality(V)
  BY <1>3, <1>4
<1>7. Cardinality(Member) - Cardinality(V) < Quorum /\ Quorum \in Nat
  BY <1>5 DEF Quorum
<1>8. QED
  BY <1>2, <1>5, <1>6, <1>7

\* An entry that only its leader holds: no later leader has been elected, or a
\* quorum has gone beyond its term.
LEMMA GoodAlone ==
  ASSUME Known', Base', NEW l \in Member, role'[l] = "LEADER", NEW n, NEW f,
         n \in Nat, n > 0, n = LastIndex(log'[l]), Kept(l, n, f)', f[n] = term'[l],
         NEW B \in SUBSET Member, \A j \in B : j = l
  PROVE  Good(n, f, B)'
<1> DEFINE t == f[n]
<1>1. t = term'[l] /\ t \in Nat /\ \A j \in B : term'[j] >= t
  BY DEF Known, LogTypes
<1>2. CASE \E e \in elected' : e[1] > t
  <2>1. PICK e \in elected' : e[1] > t
    BY <1>2
  <2>2. PICK V \in SUBSET Member :
            Cardinality(V) >= Quorum /\ \A v \in V : term'[v] >= e[1]
    BY <2>1 DEF Known, LedQuorum
  <2> DEFINE P == B \cup {j \in Member : term'[j] <= t}
  <2>3. \A v \in V : v \notin P
    <3> SUFFICES ASSUME NEW v \in V PROVE v \notin P
      OBVIOUS
    <3>1. term'[v] >= e[1] /\ e[1] \in Nat /\ term'[v] \in Nat
      BY <2>1, <2>2 DEF Known, LogTypes, Inv, LedgerOK
    <3>2. ~(term'[v] <= t)
      BY <1>1, <2>1, <3>1
    <3>3. v # l
      BY <1>1, <3>2
    <3>4. QED
      BY <3>2, <3>3
  <2>4. P \in SUBSET Member
    OBVIOUS
  <2> HIDE DEF P
  <2>5. Cardinality(P) < Quorum
    BY <2>2, <2>3, <2>4, FewLeft
  <2>6. Beyond(B, f[n])'
    BY <2>5 DEF Beyond, P
  <2>7. QED
    BY <1>1, <2>6 DEF Good
<1>3. CASE \A e \in elected' : ~(e[1] > t)
  <2>1. \A e \in elected' : e[1] \in Nat /\ e[1] <= t
    BY <1>1, <1>3 DEF Known, Inv, LedgerOK
  <2>3. LeadersKeep(n, f)'
    <3> SUFFICES ASSUME NEW k \in Member, role'[k] = "LEADER", term'[k] >= t
                 PROVE  Kept(k, n, f)'
      BY DEF LeadersKeep
    <3>1. <<term'[k], k>> \in elected' /\ <<term'[l], l>> \in elected'
      BY DEF Known, LeadersElected
    <3>2. term'[k] = t
      BY <1>1, <2>1, <3>1
    <3>3. <<term'[k], k>> = <<term'[l], l>>
      BY <1>1, <3>1, <3>2 DEF Known, ElectionSafety
    <3>4. QED
      BY <3>3
  <2>4. VotersKeep(n, f, B)'
    BY DEF VotersKeep
  <2>5. LaterKeep(n, f)'
    <3> SUFFICES ASSUME NEW i \in Member, NEW x \in 0 .. LastIndex(log'[i]),
                        IsLater(x, TermAt(log'[i], x), n, f)
                 PROVE  n <= x /\ Kept(i, n, f)'
      BY DEF LaterKeep, IsLater
    <3>1. /\ LastIndex(log'[i]) \in Nat /\ TermAt(log'[i], x) \in Nat
          /\ TermAt(log'[i], 0) = 0
      BY DEF Known, LogTypes
    <3>2. x > 0
      <4>1. CASE x = 0
        BY <1>1, <3>1, <4>1 DEF IsLater
      <4>2. QED
        BY <4>1
    <3>3. x \in 1 .. LastIndex(log'[i])
      BY <3>1, <3>2
    <3>4. \E e \in elected' : e[1] = TermAt(log'[i], x)
      BY <3>3 DEF Known, LogsLed, Led
    <3>5. TermAt(log'[i], x) = t /\ x >= n
      <4>1. TermAt(log'[i], x) <= t
        BY <2>1, <3>4
      <4>2. QED
        BY <1>1, <3>1, <4>1 DEF IsLater
    <3>6. x <= LastIndex(log'[l])
      BY <1>1, <3>3, <3>5 DEF Known, LeaderNewest
    <3>7. x = n
      BY <3>5, <3>6
    <3>8. n \in 0 .. n /\ TermAt(log'[l], n) = t /\ n <= LastIndex(log'[l])
      BY DEF Kept
    <3>9. \A y \in 0 .. n : TermAt(log'[i], y) = TermAt(log'[l], y)
      BY <3>5, <3>7, <3>8 DEF Known, LogsMatched
    <3>10. \A y \in 0 .. n : TermAt(log'[l], y) = f[y]
      BY DEF Kept
    <3>11. n <= LastIndex(log'[i])
      BY <3>7
    <3>12. QED
      BY <3>7, <3>9, <3>10, <3>11 DEF Kept
  <2>6. AppendsTell(n, f)'
    <3> SUFFICES ASSUME NEW m \in Appended', m.term >= t
                 PROVE  Tells(m, n, f)
      BY DEF AppendsTell, Tells
    <3>1. m.term = t
      <4>1. \E e \in elected' : e[1] = m.term
        BY DEF Base, RequestsLed, Led
      <4>2. m.term <= t /\ m.term \in Nat
        BY <2>1, <4>1
      <4>3. QED
        BY <1>1, <4>2
    <3>2. /\ Through(m) <= LastIndex(log'[l])
          /\ \A x \in m.prev_log_index .. Through(m) : AppendSpan(m)[x] = TermAt(log'[l], x)
      BY <1>1, <3>1 DEF Base, AppendsPart
    <3>3. m.prev_log_index \in Nat /\ Through(m) \in Nat /\ m.prev_log_index <= Through(m)
      BY DEF Known, AppendTypes
    <3>4. \A y \in 0 .. n : TermAt(log'[l], y) = f[y]
      BY DEF Kept
    <3>5. ~(n < m.prev_log_index)
      BY <3>2, <3>3
    <3>6. \A x \in m.prev_log_index .. Through(m) : x \in 0 .. n
      BY <3>2, <3>3
    <3>7. QED
      BY <3>2, <3>4, <3>5, <3>6 DEF Tells
  <2>7. CandidatesKeep(n, f, B)'
    <3> SUFFICES ASSUME NEW k \in Member, role'[k] = "CANDIDATE", term'[k] > t,
                        l \in Backers(k)'
                 PROVE  FALSE
      BY DEF CandidatesKeep
    <3>1. term'[l] >= term'[k]
      BY DEF Known, BackersAhead
    <3>2. term'[k] \in Nat
      BY DEF Known, LogTypes
    <3>3. QED
      BY <1>1, <3>1, <3>2
  <2>8. PromotedKeep(n, f, B)' /\ RejoinersKeep(n, f, B)'
    BY DEF PromotedKeep, RejoinersKeep
  <2>9. Core(n, f, B)'
    BY <2>3, <2>4, <2>5, <2>6, <2>7, <2>8 DEF Core
  <2>10. QED
    BY <1>1, <2>9 DEF Good
<1>4. QED
  BY <1>2, <1>3

\* An entry that a leader had appended has been acknowledged by who had
\* acknowledged it, and by who now holds it in its term.
LEMMA OldEntryGood ==
  ASSUME SafeStep, NEW l \in Member, role[l] = "LEADER", role'[l] = "LEADER",
         NEW n \in Nat, n > 0, n <= LastIndex(log[l]), NEW f, Kept(l, n, f)',
         f[n] = term'[l], NEW B, B = Acked(l, n)'
  PROVE  Good(n, f, B)'
<1>1. Stepped /\ Known /\ Known' /\ LogsSorted /\ ForgotOK /\ HasQuorum /\ Credit
  BY DEF SafeStep, Safe, Stepped, Base
<1>2. term'[l] = term[l]
  BY <1>1, LeaderMoves
<1>3. /\ LastIndex(log[l]) \in Nat /\ LastIndex(log'[l]) \in Nat
      /\ \A j \in Member : LastIndex(log'[j]) \in Nat
  BY <1>1 DEF Known, LogTypes
<1>4. Kept(l, n, f)
  <2>1. /\ LastIndex(log[l]) <= LastIndex(log'[l])
        /\ \A x \in 0 .. LastIndex(log[l]) : TermAt(log'[l], x) = TermAt(log[l], x)
    BY <1>1, LeaderLonger
  <2>2. \A x \in 0 .. n : x \in 0 .. LastIndex(log[l])
    BY <1>3
  <2>3. \A x \in 0 .. n : TermAt(log'[l], x) = f[x]
    BY DEF Kept
  <2>4. QED
    BY <2>1, <2>2, <2>3 DEF Kept
<1>5. Said(n, f)
  BY <1>1, <1>4, SaidByLog
<1>6. PICK A \in SUBSET Member : A = Acked(l, n)
  BY DEF Acked
<1>7. Good(n, f, A)
  BY <1>2, <1>4, <1>6 DEF SafeStep, Safe, LeadersGood
<1>8. Good(n, f, A)'
  BY <1>1, <1>5, <1>7, GoodKept
<1>9. ASSUME NEW j \in B, j \notin A
      PROVE  term'[j] = f[n] /\ Kept(j, n, f)'
  <2>1. j \in Member /\ j # l
    BY <1>6, <1>9 DEF Acked
  <2>2. /\ peers[l][j].match_index \in Nat /\ peers'[l][j].match_index \in Nat
        /\ \A r \in Ans(l, j) : IsAck(r) => r.match_index \in Nat
    BY <1>1, <2>1 DEF Known, MessageTypes
  <2>3. /\ ~(peers[l][j].match_index >= n)
        /\ \A r \in Ans(l, j) : IsAck(r) /\ r.term = term[l] => ~(r.match_index >= n)
    BY <1>6, <1>9, <2>1 DEF Acked
  <2>4. ~(peers'[l][j].match_index >= n)
    <3>1. \/ peers'[l][j].match_index <= peers[l][j].match_index
          \/ \E r \in Ans(l, j) : /\ IsAck(r) /\ r.term = term[l]
                                  /\ peers'[l][j].match_index <= r.match_index
      BY <1>1, <2>1 DEF Stepped, SafeMove, MemberMoves, RowMove
    <3>2. QED
      BY <2>2, <2>3, <3>1
  <2>5. PICK r \in Ans(l, j)' : IsAck(r) /\ r.term = term'[l] /\ r.match_index >= n
    BY <1>9, <2>1, <2>4 DEF Acked, Ans
  <2>6. r \in Ans(l, j) \/ NewAck(l, j, r)
    BY <2>1, <2>5, OldAck
  <2>7. NewAck(l, j, r)
    BY <1>2, <2>3, <2>5, <2>6
  <2>8. /\ term'[j] = term[l] /\ r.match_index \in Nat
        /\ Shared(j, l, r.match_index)'
    BY <2>1, <2>5, <2>7, NewAckShared
  <2> DEFINE y == r.match_index
  <2>9. /\ y <= LastIndex(log'[j]) /\ y \in Nat /\ n <= y
        /\ \A x \in 0 .. y : TermAt(log'[j], x) = TermAt(log'[l], x)
    BY <2>5, <2>8 DEF Shared
  <2> HIDE DEF y
  <2>10. \A x \in 0 .. n : TermAt(log'[l], x) = f[x]
    BY DEF Kept
  <2>11. n <= LastIndex(log'[j]) /\ \A x \in 0 .. n : x \in 0 .. y
    BY <1>3, <2>1, <2>9
  <2>12. Kept(j, n, f)'
    BY <2>9, <2>10, <2>11 DEF Kept
  <2>13. QED
    BY <1>2, <2>8, <2>12
<1>10. B \in SUBSET Member /\ f[n] \in Nat
  BY <1>5 DEF Acked, Said
<1>11. QED
  BY <1>1, <1>8, <1>9, <1>10, GoodGrows

\* An entry that a leader appends nobody else has acknowledged.
LEMMA NewEntryGood ==
  ASSUME SafeStep, NEW l \in Member, role'[l] = "LEADER",
         NEW n \in Nat, n > LastIndex(log[l]), NEW f, Kept(l, n, f)',
         f[n] = term'[l], NEW B, B = Acked(l, n)'
  PROVE  Good(n, f, B)'
<1>1. Stepped /\ Known /\ Known' /\ Base' /\ Credit
  BY BaseKept DEF SafeStep, Safe, Stepped
<1>2. /\ term'[l] = term[l]
      /\ \/ role[l] = "LEADER" /\ (log'[l] = log[l] \/ Adds(l))
         \/ Wins(l)
  BY <1>1, LeaderMoves
<1>3. LastIndex(log[l]) \in Nat /\ LastIndex(log'[l]) \in Nat
  BY <1>1 DEF Known, LogTypes
<1>4. n <= LastIndex(log'[l])
  BY DEF Kept
<1>5. log'[l] = AppendLocal(log[l], term[l])
  <2>1. log'[l] # log[l]
    BY <1>3, <1>4
  <2>2. QED
    BY <1>2, <2>1 DEF Adds, Wins
<1>6. n = LastIndex(log'[l]) /\ n > 0
  <2>1. LastIndex(log'[l]) = LastIndex(log[l]) + 1
    BY <1>1, <1>5, LogLonger
  <2>2. QED
    BY <1>3, <1>4, <2>1
<1>7. ASSUME NEW j \in B, j # l
      PROVE  FALSE
  <2>1. j \in Member
    BY <1>7 DEF Acked
  <2>2. /\ peers[l][j].match_index \in Nat /\ peers'[l][j].match_index \in Nat
        /\ \A r \in Ans(l, j) : IsAck(r) => r.match_index \in Nat
    BY <1>1, <2>1 DEF Known, MessageTypes
  <2>3. ~(peers'[l][j].match_index >= n)
    <3>1. CASE Wins(l)
      <4>1. peers'[l][j].match_index = 0
        BY <2>1, <3>1 DEF Wins
      <4>2. QED
        BY <1>6, <4>1
    <3>2. CASE role[l] = "LEADER"
      <4>1. \/ peers'[l][j].match_index <= peers[l][j].match_index
            \/ \E r \in Ans(l, j) : /\ IsAck(r) /\ r.term = term[l]
                                    /\ peers'[l][j].match_index <= r.match_index
        BY <1>1, <2>1, <3>2 DEF Stepped, SafeMove, MemberMoves, RowMove
      <4>2. peers[l][j].match_index <= LastIndex(log[l])
        <5>1. /\ peers[l][j].match_index < peers[l][j].next_index
              /\ peers[l][j].next_index <= LastIndex(log[l]) + 1
          BY <1>1, <2>1, <3>2 DEF Known, Inv, ReplicationOK, IndexBounds
        <5>2. peers[l][j].next_index \in Nat
          <6>1. peers[l][j] \in PeerState
            BY <1>1, <2>1, MemberFacts DEF Known
          <6>2. QED
            BY <6>1 DEF PeerState
        <5>3. QED
          BY <1>3, <2>2, <5>1, <5>2
      <4>3. ASSUME NEW r \in Ans(l, j), IsAck(r), r.term = term[l]
            PROVE  r.match_index <= LastIndex(log[l])
        BY <1>1, <2>1, <3>2, <4>3 DEF Credit
      <4>4. QED
        BY <1>3, <2>2, <4>1, <4>2, <4>3
    <3>3. QED
      BY <1>2, <3>1, <3>2
  <2>4. PICK r \in Ans(l, j)' : IsAck(r) /\ r.term = term'[l] /\ r.match_index >= n
    BY <1>7, <2>1, <2>3 DEF Acked, Ans
  <2>5. role[l] = "LEADER" /\ r.match_index \in Nat /\ (r \in Ans(l, j) \/ NewAck(l, j, r))
    BY <2>1, <2>4, OldAck
  <2>6. r.match_index <= LastIndex(log[l])
    <3>1. CASE NewAck(l, j, r)
      BY <2>1, <2>4, <3>1, NewAckShared
    <3>2. CASE r \in Ans(l, j)
      BY <1>1, <1>2, <2>1, <2>4, <2>5, <3>2 DEF Credit
    <3>3. QED
      BY <2>5, <3>1, <3>2
  <2>7. QED
    BY <1>3, <2>4, <2>5, <2>6
<1>8. B \in SUBSET Member
  BY DEF Acked
<1>9. QED
  BY <1>1, <1>6, <1>7, <1>8, GoodAlone

LEMMA LeadersGoodKept ==
  ASSUME SafeStep
  PROVE  LeadersGood'
<1> SUFFICES ASSUME NEW l \in Member, role'[l] = "LEADER", NEW n \in Nat, NEW f, NEW A,
                    n > 0, Kept(l, n, f)', f[n] = term'[l], A = Acked(l, n)'
             PROVE  Good(n, f, A)'
  BY DEF LeadersGood
<1>1. Stepped /\ LastIndex(log[l]) \in Nat
  BY DEF SafeStep, Stepped, Known, LogTypes
<1>2. CASE n > LastIndex(log[l])
  BY <1>2, NewEntryGood
<1>3. CASE n <= LastIndex(log[l])
  <2>1. ~Wins(l)
    <3>1. SUFFICES ASSUME Wins(l) PROVE FALSE
      OBVIOUS
    <3>2. log'[l] = AppendLocal(log[l], term[l]) /\ term'[l] = term[l]
      BY <3>1 DEF Wins
    <3>3. n \in 0 .. LastIndex(log[l]) /\ n \in 0 .. n /\ n \in 1 .. LastIndex(log[l])
      BY <1>1, <1>3
    <3>4. TermAt(log'[l], n) = TermAt(log[l], n)
      BY <1>1, <3>2, <3>3, LogLonger
    <3>5. TermAt(log[l], n) = term[l]
      BY <3>2, <3>3, <3>4 DEF Kept
    <3>6. Led(TermAt(log[l], n))
      BY <1>1, <3>3 DEF Stepped, Known, LogsLed
    <3>7. QED
      BY <1>1, <3>1, <3>5, <3>6, WinnerIsNew
  <2>2. role[l] = "LEADER"
    BY <1>1, <2>1, LeaderMoves
  <2>3. QED
    BY <1>3, <2>2, OldEntryGood
<1>4. QED
  BY <1>1, <1>2, <1>3

-----------------------------------------------------------------------------
(* What is committed *)

\* What a leader commits a quorum has acknowledged.
LEMMA AdvanceFirm ==
  ASSUME SafeStep, NEW k \in Member, Advances(k), NEW c, c = commit_index'[k]
  PROVE  /\ c \in Nat /\ c <= LastIndex(log[k])
         /\ \E f : Firm(c, f) /\ Kept(k, c, f) /\ f[c] = term[k]
<1>1. Stepped /\ Known /\ Known'
  BY DEF SafeStep, Stepped
<1>2. /\ c \in Nat /\ commit_index[k] \in Nat /\ LastIndex(log[k]) \in Nat
  BY <1>1 DEF Known, LogTypes
<1>3. /\ role[k] = "LEADER" /\ c > commit_index[k] /\ c <= LastIndex(log[k])
      /\ TermAt(log[k], c) = term[k] /\ Cardinality(Acked(k, c)) >= Quorum
  BY DEF Advances
<1>4. PICK f : f = LogSpan(log[k])
  OBVIOUS
<1>5. \A x \in 0 .. LastIndex(log[k]) : f[x] = TermAt(log[k], x)
  BY <1>1, <1>4, LogSaid DEF Known
<1>6. \A x \in 0 .. c : x \in 0 .. LastIndex(log[k])
  BY <1>2, <1>3
<1>7. Kept(k, c, f) /\ c \in 0 .. c /\ f[c] = term[k] /\ c > 0
  BY <1>2, <1>3, <1>5, <1>6 DEF Kept
<1>8. PICK A \in SUBSET Member : A = Acked(k, c)
  BY DEF Acked
<1>9. Good(c, f, A)
  BY <1>2, <1>3, <1>7, <1>8 DEF SafeStep, Safe, LeadersGood
<1>10. Firm(c, f)
  BY <1>2, <1>3, <1>7, <1>8, <1>9 DEF Firm
<1>11. QED
  BY <1>2, <1>3, <1>7, <1>10

LEMMA FirmStays ==
  ASSUME SafeStep, NEW n, NEW f, Firm(n, f)
  PROVE  /\ Firm(n, f)' /\ Said(n, f) /\ LaterKeep(n, f) /\ AppendsTell(n, f)
         /\ \A c : Com(c, f) => Com(c, f)'
<1>1. Stepped /\ ForgotOK /\ HasQuorum /\ Credit /\ Known /\ LogsSorted
  BY DEF SafeStep, Safe, Stepped, Base
<1>2. committed \subseteq committed'
  BY <1>1 DEF Stepped, SafeMove, LedgerMove
<1>3. \A c : Com(c, f) => Com(c, f)'
  BY <1>2 DEF Com
<1>4. QED
  BY <1>1, <1>3, FirmIs, FirmKept

LEMMA MembersBackedKept ==
  ASSUME SafeStep
  PROVE  MembersBacked'
<1> SUFFICES ASSUME NEW i \in Member, NEW c, c = commit_index'[i], c > 0
             PROVE  \E n, f : /\ Firm(n, f)' /\ c <= n /\ f[n] <= term'[i]
                              /\ Kept(i, c, f)' /\ Com(c, f)'
  BY DEF MembersBacked, Kept, Com
<1>1. Stepped /\ Known /\ Known'
  BY DEF SafeStep, Stepped
<1>2. /\ c \in Nat /\ commit_index[i] \in Nat /\ LastIndex(log[i]) \in Nat
      /\ LastIndex(log'[i]) \in Nat /\ commit_index[i] <= LastIndex(log[i])
      /\ term[i] \in Nat /\ term'[i] \in Nat /\ term'[i] >= term[i]
  BY <1>1, TermsRise DEF Known, LogTypes
<1>3. CommitRule(i)
  BY <1>1 DEF Stepped, SafeMove, MemberMoves
<1>4. commit_index[i] > 0 =>
          \E n, f : /\ Firm(n, f) /\ commit_index[i] <= n /\ f[n] <= term[i]
                    /\ Kept(i, commit_index[i], f) /\ Com(commit_index[i], f)
  BY Zenon DEF SafeStep, Safe, Backed, MembersBacked
\* The member commits no more, and its log says the same up to there.
<1>5. ASSUME c = commit_index[i], c <= LastIndex(log'[i]),
             \A x \in 0 .. c : TermAt(log'[i], x) = TermAt(log[i], x)
      PROVE  \E n, f : /\ Firm(n, f)' /\ c <= n /\ f[n] <= term'[i]
                       /\ Kept(i, c, f)' /\ Com(c, f)'
  <2>1. PICK n, f : /\ Firm(n, f) /\ c <= n /\ f[n] <= term[i]
                    /\ Kept(i, c, f) /\ Com(c, f)
    BY <1>4, <1>5
  <2>2. Firm(n, f)' /\ Com(c, f)' /\ f[n] \in Nat
    BY <2>1, FirmStays DEF Said
  <2>3. Kept(i, c, f)'
    BY <1>5, <2>1 DEF Kept
  <2>4. f[n] <= term'[i]
    BY <1>2, <2>1, <2>2
  <2>5. QED
    BY <2>1, <2>2, <2>3, <2>4
<1>6. CASE /\ commit_index'[i] = commit_index[i] /\ commit_index[i] <= LastIndex(log'[i])
           /\ \A x \in 0 .. commit_index[i] : TermAt(log'[i], x) = TermAt(log[i], x)
  BY <1>5, <1>6
<1>7. CASE Forgets(i)
  <2>1. commit_index'[i] = 0
    BY <1>7 DEF Forgets
  <2>2. QED
    BY <2>1
<1>8. CASE Advances(i)
  <2>1. PICK f : Firm(c, f) /\ Kept(i, c, f) /\ f[c] = term[i]
    BY <1>8, AdvanceFirm
  <2>2. Firm(c, f)'
    BY <2>1, FirmStays
  <2>3. log'[i] = log[i]
    BY <1>8 DEF Advances
  <2>4. Kept(i, c, f)'
    BY <2>1, <2>3 DEF Kept
  <2>5. Com(c, f)'
    <3> SUFFICES ASSUME NEW x \in 1 .. c PROVE <<x, f[x]>> \in committed'
      BY DEF Com
    <3>1. x \in 0 .. c /\ f[x] = TermAt(log[i], x)
      BY <1>2, <2>1 DEF Kept
    <3>2. x <= commit_index[i] \/ <<x, TermAt(log[i], x)>> \in committed'
      BY <1>1, <1>8 DEF Stepped, SafeMove, LedgerMove
    <3>3. CASE x <= commit_index[i]
      <4>1. commit_index[i] > 0
        BY <1>2, <3>3
      <4>2. PICK n, g : /\ Firm(n, g) /\ Kept(i, commit_index[i], g)
                        /\ Com(commit_index[i], g)
        BY <1>4, <4>1
      <4>3. x \in 0 .. commit_index[i] /\ x \in 1 .. commit_index[i]
        BY <1>2, <3>3
      <4>4. g[x] = TermAt(log[i], x) /\ <<x, g[x]>> \in committed
        BY <4>2, <4>3 DEF Kept, Com
      <4>5. committed \subseteq committed'
        BY <1>1 DEF Stepped, SafeMove, LedgerMove
      <4>6. QED
        BY <3>1, <4>4, <4>5
    <3>4. QED
      BY <3>1, <3>2, <3>3
  <2>6. term[i] <= term'[i]
    BY <1>2
  <2>7. QED
    BY <1>2, <2>1, <2>2, <2>4, <2>5, <2>6
<1>9. CASE \E j \in Member : \E m \in Wire(j, i) : TakesFrom(i, j, m)
  <2>1. PICK j \in Member : \E m \in Wire(j, i) : TakesFrom(i, j, m)
    BY <1>9
  <2>2. PICK m \in Wire(j, i) : TakesFrom(i, j, m)
    BY <2>1
  <2> DEFINE p == m.prev_log_index
             q == Through(m)
  <2>3. /\ m \in Appended
        /\ p \in Nat /\ q \in Nat /\ p <= q
        /\ p <= LastIndex(log[i]) /\ q <= LastIndex(log'[i])
        /\ \A x \in 0 .. p : TermAt(log'[i], x) = TermAt(log[i], x)
    BY <1>1, <2>2, TakenSays
  <2>4. /\ p >= commit_index[i] /\ term'[i] = m.term
        /\ c = Greatest(commit_index[i], Least(m.leader_commit, q))
    BY <2>2 DEF TakesFrom, Through
  <2>5. m.leader_commit \in Nat
    BY <1>1, <2>3 DEF Known, AppendTypes
  <2> HIDE DEF p, q
  <2>6. CASE c = commit_index[i]
    <3>1. c <= LastIndex(log'[i])
      BY <1>2, <2>3, <2>4, <2>6
    <3>2. \A x \in 0 .. c : x \in 0 .. p
      BY <1>2, <2>3, <2>4, <2>6
    <3>3. QED
      BY <1>5, <2>3, <2>6, <3>1, <3>2
  <2>7. CASE c # commit_index[i]
    <3>1. c <= m.leader_commit /\ c <= q /\ m.leader_commit > 0
      BY <1>2, <2>3, <2>4, <2>5, <2>7 DEF Greatest, Least
    <3>2. PICK n, f : /\ Firm(n, f) /\ m.leader_commit <= n /\ f[n] <= m.term
                      /\ Com(m.leader_commit, f)
      BY <2>3, <3>1 DEF SafeStep, Safe, Backed, AppendsBacked
    <3>3. Firm(n, f)' /\ Said(n, f) /\ LaterKeep(n, f) /\ AppendsTell(n, f)
          /\ Com(m.leader_commit, f)'
      BY <3>2, FirmStays
    <3>4. n \in Nat /\ f[n] \in Nat /\ m.term \in Nat
      BY <1>1, <2>3, <3>3 DEF Said, Known, AppendTypes
    <3>5. Tells(m, n, f)
      BY <2>3, <3>2, <3>3, <3>4 DEF AppendsTell
    <3>6. \A x \in 0 .. n : x <= q => x <= LastIndex(log'[i]) /\ TermAt(log'[i], x) = f[x]
      BY <1>1, <2>2, <3>3, <3>5, TakenTold DEF q
    <3>7. c <= n /\ \A x \in 0 .. c : x \in 0 .. n /\ x <= q
      BY <1>2, <2>3, <2>5, <3>1, <3>2, <3>4
    <3>8. c <= LastIndex(log'[i])
      BY <1>2, <2>3, <3>1
    <3>9. Kept(i, c, f)'
      BY <3>6, <3>7, <3>8 DEF Kept
    <3>10. Com(c, f)'
      <4>1. \A x \in 1 .. c : x \in 1 .. m.leader_commit
        BY <1>2, <2>5, <3>1
      <4>2. QED
        BY <3>3, <4>1 DEF Com
    <3>11. QED
      BY <2>4, <3>2, <3>3, <3>7, <3>9, <3>10
  <2>8. QED
    BY <2>6, <2>7
<1>10. QED
  BY <1>3, <1>6, <1>7, <1>8, <1>9 DEF CommitRule

LEMMA AppendsBackedKept ==
  ASSUME SafeStep
  PROVE  AppendsBacked'
<1> SUFFICES ASSUME NEW m \in Appended', m.leader_commit > 0
             PROVE  \E n, f : /\ Firm(n, f)' /\ m.leader_commit <= n /\ f[n] <= m.term
                              /\ Com(m.leader_commit, f)'
  BY DEF AppendsBacked, Com
<1>1. CASE m \in Appended
  <2>1. PICK n, f : /\ Firm(n, f) /\ m.leader_commit <= n /\ f[n] <= m.term
                    /\ Com(m.leader_commit, f)
    BY <1>1 DEF SafeStep, Safe, Backed, AppendsBacked
  <2>2. QED
    BY <2>1, FirmStays
<1>2. CASE m \notin Appended
  <2>1. PICK x \in Member : NewAppend(x, m)
    BY <1>2, AppendIsNew DEF SafeStep
  <2>2. m.term = term'[x] /\ m.leader_commit = commit_index'[x]
    BY <2>1 DEF NewAppend
  <2>3. commit_index'[x] > 0
    BY <2>2
  <2>4. PICK n, f : /\ Firm(n, f)' /\ commit_index'[x] <= n /\ f[n] <= term'[x]
                    /\ \A y \in 1 .. commit_index'[x] : <<y, f[y]>> \in committed'
    BY <2>3, MembersBackedKept DEF MembersBacked, Com
  <2>5. QED
    BY <2>2, <2>4 DEF Com
<1>3. QED
  BY <1>1, <1>2

LEMMA LedgerBackedKept ==
  ASSUME SafeStep
  PROVE  LedgerBacked'
<1> SUFFICES ASSUME NEW e \in committed'
             PROVE  e[1] > 0 /\ \E n, f : Firm(n, f)' /\ e[1] <= n /\ f[e[1]] = e[2]
  BY DEF LedgerBacked
<1>1. CASE e \in committed
  <2>1. e[1] > 0 /\ \E n, f : Firm(n, f) /\ e[1] <= n /\ f[e[1]] = e[2]
    BY <1>1 DEF SafeStep, Safe, Backed, LedgerBacked
  <2>2. PICK n, f : Firm(n, f) /\ e[1] <= n /\ f[e[1]] = e[2]
    BY <2>1
  <2>3. QED
    BY <2>1, <2>2, FirmStays
<1>2. CASE e \notin committed
  <2>1. \E k \in Member : \E n \in 1 .. commit_index'[k] :
            Advances(k) /\ e = <<n, TermAt(log[k], n)>>
    BY <1>2 DEF SafeStep, Stepped, SafeMove, LedgerMove
  <2>2. PICK k \in Member : \E n \in 1 .. commit_index'[k] :
            Advances(k) /\ e = <<n, TermAt(log[k], n)>>
    BY <2>1
  <2>3. PICK y \in 1 .. commit_index'[k] : Advances(k) /\ e = <<y, TermAt(log[k], y)>>
    BY <2>2
  <2>4. PICK c : c = commit_index'[k]
    OBVIOUS
  <2>5. PICK f : c \in Nat /\ Firm(c, f) /\ Kept(k, c, f)
    BY <2>3, <2>4, AdvanceFirm
  <2>6. Firm(c, f)'
    BY <2>5, FirmStays
  <2>7. y \in 0 .. c /\ y <= c /\ y > 0
    BY <2>4, <2>5
  <2>8. f[y] = TermAt(log[k], y)
    BY <2>5, <2>7 DEF Kept
  <2>9. e[1] = y /\ e[2] = f[y]
    BY <2>3, <2>8
  <2>10. QED
    BY <2>6, <2>7, <2>9
<1>3. QED
  BY <1>1, <1>2

-----------------------------------------------------------------------------
(* All of this holds throughout *)

\* An append that is not stale never contradicts what its taker has committed.
LEMMA NeverContradicted ==
  ASSUME Known, HasQuorum, Safe
  PROVE  ~Contradicted
<1> SUFFICES ASSUME Contradicted PROVE FALSE
  OBVIOUS
<1>1. PICK i \in Member : \E j \in Member : \E m \in Wire(j, i) :
          IsAppend(m) /\ m.term >= term[i] /\ Contradicts(i, m)
  BY DEF Contradicted
<1>2. PICK j \in Member : \E m \in Wire(j, i) :
          IsAppend(m) /\ m.term >= term[i] /\ Contradicts(i, m)
  BY <1>1
<1>3. PICK m \in Wire(j, i) : IsAppend(m) /\ m.term >= term[i] /\ Contradicts(i, m)
  BY <1>2
<1>4. m \in Appended
  BY <1>3 DEF Known, MessageTypes
<1>5. m \in AppendEntries
  BY <1>4 DEF Appended, Sent, Request, RequestVote, Promote, AppendEntries
<1> DEFINE p == m.prev_log_index
           q == Through(m)
           c == commit_index[i]
<1>6. /\ p \in Nat /\ q \in Nat /\ p <= q /\ q = p + Len(m.entries)
      /\ AppendSpan(m)[p] = m.prev_log_term /\ (p = 0 => m.prev_log_term = 0)
      /\ m.term \in Nat
  BY <1>4 DEF Known, AppendTypes, Through
<1>7. /\ DOMAIN m.entries = 1 .. Len(m.entries) /\ Len(m.entries) \in Nat
      /\ \A k \in 1 .. Len(m.entries) : AppendSpan(m)[p + k] = m.entries[k]
  BY <1>5, AppendSpanIs, LenProperties DEF AppendEntries
<1>8. /\ c \in Nat /\ c <= LastIndex(log[i]) /\ LastIndex(log[i]) \in Nat /\ term[i] \in Nat
      /\ TermAt(log[i], 0) = 0 /\ log[i].snapshot_index = 0
  <2>1. log[i].snapshot_index = 0
    BY MemberFacts DEF Known, FullLog
  <2>2. QED
    BY <2>1 DEF Known, LogTypes
<1>9. log[i].snapshot_index .. Least(c, LastIndex(log[i])) = 0 .. c
  BY <1>8 DEF Least
<1>10. \/ p \in 0 .. c /\ TermAt(log[i], p) # m.prev_log_term
       \/ \E k \in DOMAIN m.entries : /\ p + k \in 0 .. c
                                      /\ TermAt(log[i], p + k) # m.entries[k]
  BY <1>3, <1>9 DEF Contradicts
<1> HIDE DEF p, q, c
<1>11. \E x \in p .. q : x \in 0 .. c /\ TermAt(log[i], x) # AppendSpan(m)[x] /\ x > 0
  <2>1. CASE p \in 0 .. c /\ TermAt(log[i], p) # m.prev_log_term
    <3>1. p > 0
      BY <1>6, <1>8, <2>1
    <3>2. p \in p .. q
      BY <1>6
    <3>3. QED
      BY <1>6, <2>1, <3>1, <3>2
  <2>2. CASE \E k \in DOMAIN m.entries : /\ p + k \in 0 .. c
                                         /\ TermAt(log[i], p + k) # m.entries[k]
    <3>1. PICK k \in 1 .. Len(m.entries) : /\ p + k \in 0 .. c
                                           /\ TermAt(log[i], p + k) # m.entries[k]
      BY <1>7, <2>2
    <3>2. p + k \in p .. q /\ p + k > 0
      BY <1>6, <1>7
    <3>3. QED
      BY <1>7, <3>1, <3>2
  <2>3. QED
    BY <1>10, <2>1, <2>2
<1>12. PICK x \in p .. q : x \in 0 .. c /\ TermAt(log[i], x) # AppendSpan(m)[x] /\ x > 0
  BY <1>11
<1>13. commit_index[i] > 0
  BY <1>8, <1>12 DEF c
<1>14. PICK n, f : /\ Firm(n, f) /\ commit_index[i] <= n /\ f[n] <= term[i]
                   /\ Kept(i, commit_index[i], f)
  BY <1>13 DEF Safe, Backed, MembersBacked
<1>15. Said(n, f) /\ AppendsTell(n, f)
  BY <1>14, FirmIs DEF Safe, Base
<1>16. n \in Nat /\ f[n] \in Nat
  BY <1>15 DEF Said
<1>17. m.term >= f[n]
  BY <1>3, <1>6, <1>8, <1>14, <1>16
<1>18. Tells(m, n, f)
  BY <1>4, <1>15, <1>17 DEF AppendsTell
<1>19. x <= n
  BY <1>8, <1>12, <1>14, <1>16 DEF c
<1>20. AppendSpan(m)[x] = f[x]
  BY <1>12, <1>18, <1>19 DEF Tells, p, q
<1>21. TermAt(log[i], x) = f[x]
  BY <1>12, <1>14 DEF Kept, c
<1>22. QED
  BY <1>12, <1>20, <1>21

LEMMA SafeKept ==
  ASSUME Known, Known', Safe, HasQuorum, saveFailures' = 0, [Next]_vars
  PROVE  Safe'
<1>1. ~Contradicted
  BY NeverContradicted
<1>2. Inv /\ Silent /\ Files
  BY DEF Known, Safe, Base
<1>3. SafeMove
  BY <1>1, <1>2, StepIsSafe
<1>4. elected \subseteq elected'
  BY <1>2, StepLogMoves, ElectedGrows DEF LogMoves
<1>5. SafeStep
  BY <1>3, <1>4 DEF SafeStep, Stepped, Safe
<1>6. Stepped /\ ForgotOK
  BY <1>5 DEF SafeStep, Safe
<1>7. Base' /\ ForgotOK' /\ Credit' /\ LeadersGood'
  BY <1>5, <1>6, BaseKept, ForgotKept, CreditKept, LeadersGoodKept
<1>8. Backed'
  BY <1>5, MembersBackedKept, AppendsBackedKept, LedgerBackedKept DEF Backed
<1>9. stopped' = {}
  <2>1. stopped = {} /\ stopped' \subseteq stopped
    BY <1>3 DEF Safe, SafeMove
  <2>2. QED
    BY <2>1
<1>10. QED
  BY <1>7, <1>8, <1>9 DEF Safe

LEMMA StartIsSafe ==
  ASSUME Init, Known
  PROVE  Safe
<1>1. /\ Silent /\ Files
  BY StartIsSilent
<1>2. /\ \A x, y \in Member : Wire(x, y) = {} /\ Ans(x, y) = {}
      /\ Appended = {} /\ elected = {} /\ committed = {}
      /\ \A i \in Member : /\ role[i] = "FOLLOWER" /\ log[i] = EmptyLog
                           /\ term[i] = 0 /\ commit_index[i] = 0
  <2>1. \A x, y \in Member : Wire(x, y) = {} /\ Ans(x, y) = {}
    BY EmptySeq DEF Init, Wire, Ans, Range
  <2>2. Appended = {}
    BY DEF Init, Appended, Sent, Range
  <2>3. QED
    BY <2>1, <2>2 DEF Init
<1>3. LastIndex(EmptyLog) = 0 /\ TermAt(EmptyLog, 0) = 0
  <2>1. EmptyLog \in FullLog /\ LastIndex(EmptyLog) = 0
    BY FreshTypes
  <2>2. QED
    BY <2>1, TermAtIs
<1>4. LogsSorted
  <2> SUFFICES ASSUME NEW i \in Member
               PROVE  /\ \A x, y \in 0 .. LastIndex(log[i]) :
                            x <= y => TermAt(log[i], x) <= TermAt(log[i], y)
                      /\ TermAt(log[i], LastIndex(log[i])) <= term[i]
    BY DEF LogsSorted
  <2>1. log[i] = EmptyLog /\ term[i] = 0
    BY <1>2
  <2>2. \A x \in 0 .. LastIndex(EmptyLog) : x = 0
    BY <1>3
  <2>3. QED
    BY <1>3, <2>1, <2>2
<1>5. AppendsSorted /\ RequestsLed /\ AppendsPart /\ AsksOK /\ AnswersOK /\ RowsOK
  BY <1>2 DEF AppendsSorted, RequestsLed, AppendsPart, AsksOK, AnswersOK, RowsOK
<1>6. Base
  BY <1>1, <1>4, <1>5 DEF Base
<1>7. ForgotOK
  <2>1. \A x : \A v \in Member : v \notin Forgot(x)
    BY <1>2 DEF Forgot
  <2>2. \A x : \A v \in Forgot(x) : FALSE
    BY <2>1 DEF Forgot
  <2>3. ForgotBehind /\ ForgottenWait /\ BackersRemember
    BY <2>2 DEF ForgotBehind, ForgottenWait, BackersRemember
  <2>4. ForgottenUnneeded
    BY <1>2 DEF ForgottenUnneeded, LaterLed
  <2>5. QED
    BY <2>3, <2>4 DEF ForgotOK
<1>8. Credit /\ LeadersGood
  BY <1>2 DEF Credit, LeadersGood
<1>9. Backed
  BY <1>2 DEF Backed, MembersBacked, AppendsBacked, LedgerBacked
<1>10. stopped = {}
  BY DEF Init
<1>11. QED
  BY <1>6, <1>7, <1>8, <1>9, <1>10 DEF Safe

\* The invariant holds as long as no save has failed and those that vote are a
\* quorum.
THEOREM SafeHolds == Spec /\ [](saveFailures = 0 /\ HasQuorum) => []Safe
<1>1. Init /\ Known => Safe
  BY StartIsSafe
<1>2. Known /\ Known' /\ Safe /\ HasQuorum /\ (saveFailures = 0)' /\ [Next]_vars => Safe'
  BY SafeKept
<1>3. QED
  BY <1>1, <1>2, KnownHolds, PTL DEF Spec

-----------------------------------------------------------------------------
(* What follows *)

\* An entry that a quorum has acknowledged some member that votes holds.
LEMMA FirmHeld ==
  ASSUME Known, LogsSorted, HasQuorum, NEW n, NEW f, Firm(n, f)
  PROVE  \E v \in Member : Kept(v, n, f)
<1>1. PICK A \in SUBSET Member : Cardinality(A) >= Quorum /\ VotersKeep(n, f, A)
  BY FirmIs
<1> DEFINE V == {i \in Member : voting[i]}
<1>2. V \in SUBSET Member /\ Cardinality(V) >= Quorum
  BY DEF HasQuorum
<1> HIDE DEF V
<1>3. PICK v \in Member : v \in A /\ v \in V
  BY <1>1, <1>2, QuorumsMeet
<1>4. QED
  BY <1>1, <1>3 DEF VotersKeep, V

\* Who holds an entry up to n holds what is committed up to there.
LEMMA KeptHolds ==
  ASSUME Known, NEW n \in Nat, NEW f, NEW i \in Member, Kept(i, n, f),
         NEW e \in Nat \X Nat, e[1] <= n, f[e[1]] = e[2]
  PROVE  Holds(i, e)
<1>1. LastIndex(log[i]) \in Nat
  BY DEF Known, LogTypes
<1>2. n <= LastIndex(log[i]) /\ \A x \in 0 .. n : TermAt(log[i], x) = f[x]
  BY DEF Kept
<1>3. e[1] \in 0 .. n
  OBVIOUS
<1>4. e[1] <= LastIndex(log[i]) /\ TermAt(log[i], e[1]) = e[2]
  BY <1>1, <1>2, <1>3
<1>5. QED
  BY <1>4 DEF Holds

LEMMA LeadersHold ==
  ASSUME Known, HasQuorum, Safe
  PROVE  LeaderCompleteness
<1> SUFFICES ASSUME NEW i \in Member, IsLatestLeader(i), NEW e \in committed
             PROVE  Holds(i, e)
  BY DEF LeaderCompleteness
<1>1. e \in Nat \X Nat
  BY DEF Known, Inv, LedgerOK
<1>2. PICK n, f : Firm(n, f) /\ e[1] <= n /\ f[e[1]] = e[2]
  BY DEF Safe, Backed, LedgerBacked
<1>3. Said(n, f) /\ LeadersKeep(n, f)
  BY <1>2, FirmIs DEF Safe, Base
<1>4. n \in Nat /\ Led(f[n])
  BY <1>3 DEF Said
<1>5. role[i] = "LEADER" /\ f[n] <= term[i]
  BY <1>4 DEF IsLatestLeader, Led
<1>6. f[n] \in Nat /\ term[i] \in Nat
  BY <1>3 DEF Said, Known, LogTypes
<1>7. Kept(i, n, f)
  BY <1>3, <1>5, <1>6 DEF LeadersKeep
<1>8. QED
  BY <1>1, <1>2, <1>4, <1>7, KeptHolds

\* Of two entries acknowledged by quorums, who holds the later holds the other.
LEMMA FirmsAgree ==
  ASSUME Known, LogsSorted, HasQuorum, NEW n, NEW f, Firm(n, f), NEW h, NEW g, Firm(h, g),
         f[n] > g[h] \/ (f[n] = g[h] /\ n >= h), NEW x \in Nat, x <= n, x <= h
  PROVE  f[x] = g[x]
<1>1. n \in Nat /\ h \in Nat
  BY DEF Firm
<1>2. PICK v \in Member : Kept(v, n, f)
  BY FirmHeld
<1>3. /\ n <= LastIndex(log[v]) /\ LastIndex(log[v]) \in Nat
      /\ \A y \in 0 .. n : TermAt(log[v], y) = f[y]
  BY <1>2 DEF Kept, Known, LogTypes
<1>4. n \in 0 .. LastIndex(log[v]) /\ n \in 0 .. n
  BY <1>1, <1>3
<1>5. IsLater(n, TermAt(log[v], n), h, g)
  BY <1>3, <1>4 DEF IsLater
<1>6. Kept(v, h, g)
  BY <1>4, <1>5, FirmIs DEF LaterKeep
<1>7. x \in 0 .. n /\ x \in 0 .. h
  BY <1>1
<1>8. QED
  BY <1>3, <1>6, <1>7 DEF Kept

LEMMA CommittedAgrees ==
  ASSUME Known, HasQuorum, Safe
  PROVE  StateMachineSafety
<1>1. LogsSorted /\ committed \in SUBSET (Nat \X Nat)
  BY DEF Safe, Base, Known, Inv, LedgerOK
<1>2. ASSUME NEW d \in committed, NEW e \in committed, d[1] = e[1]
      PROVE  d = e
  <2>1. d \in Nat \X Nat /\ e \in Nat \X Nat
    BY <1>1
  <2>2. PICK n, f : Firm(n, f) /\ d[1] <= n /\ f[d[1]] = d[2]
    BY DEF Safe, Backed, LedgerBacked
  <2>3. PICK h, g : Firm(h, g) /\ e[1] <= h /\ g[e[1]] = e[2]
    BY DEF Safe, Backed, LedgerBacked
  <2>4. n \in Nat /\ f[n] \in Nat /\ h \in Nat /\ g[h] \in Nat
    <3>1. Said(n, f) /\ Said(h, g)
      BY <1>1, <2>2, <2>3, FirmIs
    <3>2. QED
      BY <3>1 DEF Said
  <2>5. PICK x \in Nat : x = d[1] /\ x = e[1] /\ x <= n /\ x <= h
    BY <1>2, <2>1, <2>2, <2>3
  <2>6. f[x] = g[x]
    <3>1. CASE f[n] > g[h] \/ (f[n] = g[h] /\ n >= h)
      BY <1>1, <2>2, <2>3, <2>5, <3>1, FirmsAgree
    <3>2. CASE g[h] > f[n] \/ (g[h] = f[n] /\ h >= n)
      BY <1>1, <2>2, <2>3, <2>5, <3>2, FirmsAgree
    <3>3. QED
      BY <2>4, <3>1, <3>2
  <2>7. d[2] = e[2]
    BY <2>2, <2>3, <2>5, <2>6
  <2>8. QED
    BY <1>2, <2>1, <2>7
<1>3. ASSUME NEW i \in Member, NEW n \in FirstIndex(log[i]) .. commit_index[i]
      PROVE  <<n, TermAt(log[i], n)>> \in committed
  <2>1. log[i].snapshot_index = 0 /\ commit_index[i] \in Nat
    BY MemberFacts DEF Known, FullLog
  <2>2. n \in 1 .. commit_index[i] /\ n \in 0 .. commit_index[i] /\ commit_index[i] > 0
    BY <1>3, <2>1 DEF FirstIndex
  <2>3. PICK h, f : Kept(i, commit_index[i], f) /\ Com(commit_index[i], f)
    BY <2>2 DEF Safe, Backed, MembersBacked
  <2>4. TermAt(log[i], n) = f[n] /\ <<n, f[n]>> \in committed
    BY <2>2, <2>3 DEF Kept, Com
  <2>5. QED
    BY <2>4
<1>4. QED
  BY <1>2, <1>3 DEF StateMachineSafety

LEMMA VotersHold ==
  ASSUME Known, HasQuorum, Safe
  PROVE  CommittedOutvotesTheRest
<1> SUFFICES ASSUME NEW e \in committed
             PROVE  Cardinality({i \in Member : voting[i] /\ ~Holds(i, e)}) < Quorum
  BY DEF CommittedOutvotesTheRest
<1>1. e \in Nat \X Nat
  BY DEF Known, Inv, LedgerOK
<1>2. PICK n, f : Firm(n, f) /\ e[1] <= n /\ f[e[1]] = e[2]
  BY DEF Safe, Backed, LedgerBacked
<1>3. n \in Nat
  BY <1>2 DEF Firm
<1>4. PICK A \in SUBSET Member : Cardinality(A) >= Quorum /\ VotersKeep(n, f, A)
  BY <1>2, FirmIs DEF Safe, Base
<1> DEFINE P == {i \in Member : voting[i] /\ ~Holds(i, e)}
<1>5. \A j \in A : j \notin P
  <2> SUFFICES ASSUME NEW j \in A, voting[j] PROVE Holds(j, e)
    OBVIOUS
  <2>1. Kept(j, n, f)
    BY <1>4 DEF VotersKeep
  <2>2. QED
    BY <1>1, <1>2, <1>3, <2>1, KeptHolds
<1>6. P \in SUBSET Member
  OBVIOUS
<1> HIDE DEF P
<1>7. Cardinality(P) < Quorum
  BY <1>4, <1>5, <1>6, FewLeft
<1>8. QED
  BY <1>7 DEF P

LEMMA CreditIsHeld ==
  ASSUME Known, Credit
  PROVE  MatchIsHeld
<1> SUFFICES ASSUME NEW i \in Member, NEW j \in Member, role[i] = "LEADER",
                    link[i][j] = "up", term[j] = term[i],
                    NEW n \in 1 .. peers[i][j].match_index
             PROVE  Holds(j, <<n, TermAt(log[i], n)>>)
  BY DEF MatchIsHeld
<1> DEFINE x == peers[i][j].match_index
<1>1. x \in Nat /\ LastIndex(log[j]) \in Nat
  BY DEF Known, MessageTypes, LogTypes
<1>2. x <= LastIndex(log[j]) /\ \A y \in 0 .. x : TermAt(log[j], y) = TermAt(log[i], y)
  BY DEF Credit, Shared
<1>3. n <= x /\ n \in 0 .. x
  BY <1>1
<1> HIDE DEF x
<1>4. n <= LastIndex(log[j]) /\ TermAt(log[j], n) = TermAt(log[i], n)
  BY <1>1, <1>2, <1>3
<1>5. QED
  BY <1>4 DEF Holds

\* In a cluster of any size, whatever is lost, delayed or restarted, the newest
\* leader holds every entry a leader ever committed, as long as no save of a
\* term file has failed and the members that vote have been a quorum
\* (on_request_vote's comparison of logs, _won's count of voting members,
\* _start_as_learner and _maybe_promote).
THEOREM LeadersAreComplete ==
  Spec /\ [](saveFailures = 0 /\ HasQuorum) => []LeaderCompleteness
<1>1. Known /\ (saveFailures = 0 /\ HasQuorum) /\ Safe => LeaderCompleteness
  BY LeadersHold
<1>2. QED
  BY <1>1, KnownHolds, SafeHolds, PTL

\* Under the same condition no two entries are committed at one index, what a
\* member applies some leader committed, no member stops on a contradiction,
\* and the voting members that lack a committed entry never make a quorum
\* (_contradicting_committed and _advance_commit).
THEOREM CommittedSurvives ==
  Spec /\ [](saveFailures = 0 /\ HasQuorum) =>
      [](StateMachineSafety /\ CommittedOutvotesTheRest /\ NeverStopped)
<1>1. Known /\ (saveFailures = 0 /\ HasQuorum) /\ Safe
        => StateMachineSafety /\ CommittedOutvotesTheRest /\ NeverStopped
  BY CommittedAgrees, VotersHold DEF Safe, NeverStopped
<1>2. QED
  BY <1>1, KnownHolds, SafeHolds, PTL

\* And what a leader credits a connected follower of its term with, that
\* follower holds (on_append_entries_reply, and the reset of match_index when a
\* peer connects again).
THEOREM MatchesAreHeld ==
  Spec /\ [](saveFailures = 0 /\ HasQuorum) => []MatchIsHeld
<1>1. Known /\ Safe => MatchIsHeld
  BY CreditIsHeld DEF Safe
<1>2. QED
  BY <1>1, KnownHolds, SafeHolds, PTL
=============================================================================
