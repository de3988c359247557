--------------------------- MODULE ReadIndexProofs --------------------------
(***************************************************************************)
(* The read barrier implements linearizable reads, for every cluster, any  *)
(* number of requests and every value of the bounds.                       *)
(*                                                                         *)
(* What was committed when a request began is held by a quorum, and by     *)
(* every leader from the term on in which it was committed.  A leader that *)
(* arms the read either holds it below its commit index, or has been       *)
(* deposed by a quorum that will not confirm the read.                     *)
(***************************************************************************)
EXTENDS ReadIndex, FiniteSetTheorems, TLAPS

-----------------------------------------------------------------------------
(* Types.                                                                  *)

Appends == [kind : {"append"}, id : Nat, term : Nat, log : Seq(Nat), commit : Nat]
Replies == [kind : {"reply"}, id : Nat, term : Nat, match : Nat]

Barriers == [phase : Phase, at : Member \cup {None}, path : Path \cup {None},
             must : Nat \cup {-1}, store : Nat, server : Member \cup {None},
             index : Nat \cup {None}, after : Nat, got : Nat \cup {-1}]

Types ==
    /\ term \in [Member -> Nat]
    /\ role \in [Member -> {"leader", "follower"}]
    /\ leader \in [Member -> Member \cup {None}]
    /\ log \in [Member -> Seq(Nat)]
    /\ commit \in [Member -> Nat]
    /\ sequence \in [Member -> Nat]
    /\ DOMAIN heard = Member /\ heard = [m \in Member |-> heard[m]]
    /\ DOMAIN match = Member /\ match = [m \in Member |-> match[m]]
    /\ \A m \in Member : /\ heard[m] \in [Peers(m) -> Nat]
                         /\ match[m] \in [Peers(m) -> Nat]
    /\ applied \in [Member -> Nat]
    /\ retired \in [Member -> Seq(Nat)]
    /\ frames \in [Link -> Seq(Appends \cup Replies)]
    /\ reads \in [Read -> Barriers]
    /\ committed \in Nat

-----------------------------------------------------------------------------
(* Logs and what is in flight.                                             *)

\* s is the beginning of t.
Begins(s, t) == Len(s) <= Len(t) /\ \A i \in 1 .. Len(s) : s[i] = t[i]

Flight(l) == {frames[l][i] : i \in 1 .. Len(frames[l])}

\* The appends in flight on l.
Sent(l) == {g \in Flight(l) : g.kind = "append"}

\* The answers in flight on l.
Answers(l) == {g \in Flight(l) : g.kind = "reply"}

\* Every log there is, on a member or in flight.
Logs == {log[m] : m \in Member} \cup {g.log : g \in UNION {Sent(l) : l \in Link}}

\* Terms rise along a log, to the term t.
Rising(s, t) ==
    /\ \A i \in 1 .. Len(s) : s[i] <= t
    /\ \A i, j \in 1 .. Len(s) : i <= j => s[i] <= s[j]

Quorums == {Q \in SUBSET Member : Cardinality(Q) >= Quorum}

-----------------------------------------------------------------------------
(* Elections and logs.                                                     *)

\* Every term in use was reached by a quorum.
TermsBacked == \A m \in Member : \E Q \in Quorums : \A p \in Q : term[p] >= term[m]

\* A log rises to the term of who holds it, or sent it.
LogsRise ==
    /\ \A m \in Member : Rising(log[m], term[m])
    /\ \A l \in Link : \A g \in Sent(l) : Rising(g.log, g.term)

\* Nobody speaks of a term, or names an append, that there has not been.
FlightBehind ==
    \A l \in Link :
        /\ \A g \in Sent(l) : g.term <= term[l[1]] /\ g.id <= sequence[l[1]]
        /\ \A a \in Answers(l) : a.term <= term[l[1]] /\ a.id <= sequence[l[2]]

\* A term has one leader, and its appends are that leader's.
OneLeader ==
    \A x \in Member : Lead(x) =>
        /\ \A y \in Member : (Lead(y) /\ term[y] = term[x]) => y = x
        /\ \A l \in Link : \A g \in Sent(l) :
              g.term = term[x] => l[1] = x /\ Begins(g.log, log[x])

\* The entries of its term are the leader's.
LeaderHolds ==
    \A x \in Member : Lead(x) =>
        \A X \in Logs : \A i \in 1 .. Len(X) : X[i] = term[x] =>
            i <= Len(log[x]) /\ log[x][i] = term[x]

\* Two logs with the same term at an index agree up to it.
Match(X, Y) ==
    \A i \in 1 .. Len(X) :
        i <= Len(Y) /\ X[i] = Y[i] => \A j \in 1 .. i : X[j] = Y[j]

Matching == \A X, Y \in Logs : Match(X, Y)

\* A leader credits nobody with more than it holds.
CreditBounded ==
    \A x \in Member : Lead(x) =>
        \A p \in Peers(x) :
            /\ match[x][p] <= Len(log[x])
            /\ \A a \in Answers(<<p, x>>) : a.term = term[x] => a.match <= Len(log[x])

-----------------------------------------------------------------------------
(* What is committed.  F is a log up to an entry, t the term of the entry, *)
(* A those who acknowledged it in that term.                               *)

TermOf(F) == F[Len(F)]

\* A log that got as far as F.
Reaches(X, F) ==
    \E i \in 1 .. Len(X) : X[i] > TermOf(F) \/ (X[i] = TermOf(F) /\ i >= Len(F))

Core(F, A) ==
    /\ \A x \in Member : Lead(x) /\ term[x] >= TermOf(F) => Begins(F, log[x])
    /\ \A p \in A : Begins(F, log[p])
    /\ \A l \in Link : \A g \in Sent(l) :
          /\ g.term > TermOf(F) => Begins(F, g.log)
          /\ g.term = TermOf(F) => (Begins(F, g.log) \/ Begins(g.log, F))
    /\ \A X \in Logs : Reaches(X, F) => Begins(F, X)

\* Too few can still acknowledge it.
Beyond(F, A) == \A Q \in Quorums : \E p \in Q : p \notin A /\ term[p] > TermOf(F)

\* A log up to an entry of the term it rises to.
Heads == {F \in Seq(Nat) : Len(F) # 0 /\ Rising(F, TermOf(F))}

Good(F, A) ==
    /\ F \in Heads /\ A \in SUBSET Member
    /\ A # {} /\ \A p \in A : term[p] >= TermOf(F)
    /\ Core(F, A) \/ Beyond(F, A)

\* Those who may count towards a quorum for the entry n of the leader x.
Counted(x, n) ==
    {x} \cup
    {p \in Peers(x) :
       \/ n <= match[x][p]
       \/ \E a \in Answers(<<p, x>>) : a.term = term[x] /\ n <= a.match}

\* The entries of a leader's own term.
LeadersGood ==
    \A x \in Member : Lead(x) =>
        \A n \in 1 .. Len(log[x]) : log[x][n] = term[x] =>
            \E A : Counted(x, n) \subseteq A /\ Good(SubSeq(log[x], 1, n), A)

\* A leader of its term has committed F.
Told(F) == \A x \in Member : Lead(x) /\ term[x] = TermOf(F) => commit[x] >= Len(F)

\* Index n is committed for good.
Firm(n) ==
    \E F, A : Len(F) = n /\ A \in Quorums /\ Good(F, A) /\ Told(F)

\* A log up to the index c is committed for good by the term t.
Vouched(X, c, t) ==
    \E F, A : /\ A \in Quorums /\ Good(F, A) /\ TermOf(F) <= t
              /\ c <= Len(F) /\ c <= Len(X) /\ \A i \in 1 .. c : X[i] = F[i]

\* What a member takes for committed is.
CommitsHeld ==
    /\ \A m \in Member : Vouched(log[m], commit[m], term[m]) /\ applied[m] <= commit[m]
    /\ \A l \in Link : \A g \in Sent(l) : Vouched(g.log, g.commit, g.term)

-----------------------------------------------------------------------------
(* Reads.                                                                  *)

HeardBehind == \A x \in Member : \A p \in Peers(x) : heard[x][p] <= sequence[x]

\* A quorum has moved on from the leader that armed the read, and will not
\* confirm it.
Deposed(R) ==
    \E Q \in Quorums : \A p \in Q :
        /\ p # R.server /\ term[p] > term[R.server]
        /\ heard[R.server][p] <= R.after
        /\ \A a \in Answers(<<p, R.server>>) :
              a.term = term[R.server] => a.id <= R.after

\* The index a read waits for is not before what was committed when it began.
Covers(R) == R.index \in Nat /\ R.index >= R.must

ReadOK(R) ==
    /\ R.phase = "idle" => R.must = -1
    /\ R.phase \in {"idle", "asked"} => R.index = None
    /\ R.phase # "answered" => R.got = -1
    /\ R.phase \in {"asked", "held", "granted", "fenced"} =>
          /\ Firm(R.must)
          /\ R.at \in Member /\ R.server \in Member /\ R.path \in Path /\ R.store # 0
    /\ R.phase = "held" =>
          Lead(R.server) /\ (R.index # None => (Covers(R) \/ Deposed(R)))
    /\ R.phase \in {"granted", "fenced"} => Covers(R)

ReadsOK == \A r \in Read : ReadOK(reads[r])

\* A member that is not to be caught up by a snapshot keeps its store.
StoresKept == Installs \/ \A m \in Member : retired[m] = <<>>

Raft ==
    /\ TermsBacked /\ LogsRise /\ FlightBehind /\ OneLeader /\ LeaderHolds
    /\ Matching /\ CreditBounded

Inv ==
    /\ Types /\ Raft /\ LeadersGood /\ CommitsHeld /\ Firm(committed)
    /\ HeardBehind /\ ReadsOK /\ StoresKept

-----------------------------------------------------------------------------
(* Quorums and prefixes.                                                   *)

\* Two quorums have a member in common.
LEMMA QuorumsMeet ==
    ASSUME ReadAssumption, NEW P \in Quorums, NEW Q \in Quorums
    PROVE  \E p \in Member : p \in P /\ p \in Q
<1>1. IsFiniteSet(Member) /\ IsFiniteSet(P) /\ IsFiniteSet(Q)
  BY FS_Subset DEF ReadAssumption, Quorums
<1>2. /\ Cardinality(Member) \in Nat /\ Cardinality(P) \in Nat /\ Cardinality(Q) \in Nat
  BY <1>1, FS_CardinalityType
<1>3. Cardinality(P) + Cardinality(Q) > Cardinality(Member)
  BY <1>2 DEF Quorums, Quorum
<1>4. P \cap Q # {}
  BY <1>1, <1>3, FS_MajoritiesIntersect DEF Quorums
<1> QED
  BY <1>4 DEF Quorums

\* A set with a quorum in it is one.
LEMMA QuorumGrows ==
    ASSUME ReadAssumption, NEW P \in SUBSET Member, NEW Q \in SUBSET Member,
           Cardinality(P) >= Quorum, P \subseteq Q
    PROVE  Q \in Quorums
<1>1. IsFiniteSet(Member) /\ IsFiniteSet(P) /\ IsFiniteSet(Q)
  BY FS_Subset DEF ReadAssumption
<1>2. Cardinality(P) <= Cardinality(Q)
  BY <1>1, FS_Subset
<1>3. /\ Cardinality(Member) \in Nat /\ Cardinality(P) \in Nat /\ Cardinality(Q) \in Nat
  BY <1>1, FS_CardinalityType
<1> QED
  BY <1>2, <1>3 DEF Quorums, Quorum

\* The whole membership is a quorum.
LEMMA AllAreQuorum ==
    ASSUME ReadAssumption
    PROVE  Member \in Quorums
<1>1. IsFiniteSet(Member) /\ Cardinality(Member) \in Nat /\ First \in Member
  BY FS_CardinalityType DEF ReadAssumption
<1>2. Cardinality(Member) # 0
  BY <1>1, FS_EmptySet
<1> QED
  BY <1>1, <1>2 DEF Quorums, Quorum

\* A quorum has a member.
LEMMA QuorumNotEmpty ==
    ASSUME ReadAssumption, NEW Q \in Quorums
    PROVE  Q # {}
<1>1. \E p \in Member : p \in Q /\ p \in Q
  BY QuorumsMeet
<1> QED
  BY <1>1

\* The model's prefix test.
LEMMA PrefixIsBegins ==
    ASSUME NEW s \in Seq(Nat), NEW t \in Seq(Nat)
    PROVE  IsPrefixOf(s, t) <=> Begins(s, t)
<1>1. CASE Len(s) <= Len(t)
  <2>1. SubSeq(t, 1, Len(s)) \in Seq(Nat) /\ Len(SubSeq(t, 1, Len(s))) = Len(s)
    BY <1>1
  <2>2. \A i \in 1 .. Len(s) : SubSeq(t, 1, Len(s))[i] = t[i]
    BY <1>1
  <2>3. ASSUME \A i \in 1 .. Len(s) : s[i] = t[i]
        PROVE  SubSeq(t, 1, Len(s)) = s
    BY <2>1, <2>2, <2>3
  <2> QED
    BY <1>1, <2>2, <2>3 DEF IsPrefixOf, Begins
<1> QED
  BY <1>1 DEF IsPrefixOf, Begins

LEMMA BeginsSelf ==
    ASSUME NEW s \in Seq(Nat)
    PROVE  Begins(s, s)
BY DEF Begins

LEMMA BeginsOn ==
    ASSUME NEW s \in Seq(Nat), NEW t \in Seq(Nat), NEW u \in Seq(Nat),
           Begins(s, t), Begins(t, u)
    PROVE  Begins(s, u)
BY DEF Begins

LEMMA BeginsAt ==
    ASSUME NEW s \in Seq(Nat), NEW t \in Seq(Nat), Begins(s, t)
    PROVE  /\ Len(s) <= Len(t)
           /\ \A i \in 1 .. Len(s) : i \in 1 .. Len(t) /\ s[i] = t[i]
BY DEF Begins

\* Of two beginnings of one log the shorter begins the longer.
LEMMA Beginnings ==
    ASSUME NEW s \in Seq(Nat), NEW t \in Seq(Nat), NEW u \in Seq(Nat),
           Begins(s, u), Begins(t, u), Len(s) <= Len(t)
    PROVE  Begins(s, t)
BY DEF Begins

\* Cutting a log, and adding to it.
LEMMA Cut ==
    ASSUME NEW s \in Seq(Nat), NEW k \in 0 .. Len(s)
    PROVE  /\ SubSeq(s, 1, k) \in Seq(Nat) /\ Len(SubSeq(s, 1, k)) = k
           /\ \A i \in 1 .. k : SubSeq(s, 1, k)[i] = s[i]
           /\ Begins(SubSeq(s, 1, k), s)
<1>1. /\ SubSeq(s, 1, k) \in Seq(Nat) /\ Len(SubSeq(s, 1, k)) = k
      /\ \A i \in 1 .. k : SubSeq(s, 1, k)[i] = s[i]
  OBVIOUS
<1> QED
  BY <1>1 DEF Begins

\* Where an entry of such a log is.
LEMMA Where ==
    ASSUME NEW s \in Seq(Nat), NEW t \in Nat, NEW u \in Seq(Nat), u = Append(s, t),
           NEW i \in 1 .. Len(u)
    PROVE  \/ i = Len(u) /\ i = Len(s) + 1 /\ u[i] = t
           \/ i # Len(u) /\ i \in 1 .. Len(s) /\ u[i] = s[i]
<1>1. /\ Len(u) = Len(s) + 1 /\ \A k \in 1 .. Len(s) : u[k] = s[k]
      /\ u[Len(s) + 1] = t
  OBVIOUS
<1>2. CASE i = Len(s) + 1
  BY <1>1, <1>2
<1>3. CASE i # Len(s) + 1
  <2>1. i \in 1 .. Len(s) /\ i # Len(u)
    BY <1>1, <1>3
  <2> QED
    BY <1>1, <2>1
<1> QED
  BY <1>2, <1>3

LEMMA Extended ==
    ASSUME NEW s \in Seq(Nat), NEW t \in Nat
    PROVE  /\ Append(s, t) \in Seq(Nat) /\ Len(Append(s, t)) = Len(s) + 1
           /\ \A i \in 1 .. Len(s) : Append(s, t)[i] = s[i]
           /\ Append(s, t)[Len(s) + 1] = t
           /\ Begins(s, Append(s, t))
<1>1. /\ Append(s, t) \in Seq(Nat) /\ Len(Append(s, t)) = Len(s) + 1
      /\ \A i \in 1 .. Len(s) : Append(s, t)[i] = s[i]
      /\ Append(s, t)[Len(s) + 1] = t
  OBVIOUS
<1> QED
  BY <1>1 DEF Begins

\* What is in flight.
LEMMA SentTyped ==
    ASSUME Types, NEW l \in Link, NEW g \in Sent(l)
    PROVE  /\ g.id \in Nat /\ g.term \in Nat /\ g.log \in Seq(Nat) /\ g.commit \in Nat
           /\ g.kind = "append" /\ g \in Flight(l)
<1>1. frames[l] \in Seq(Appends \cup Replies)
  BY DEF Types
<1>2. PICK i \in 1 .. Len(frames[l]) : g = frames[l][i]
  BY DEF Sent, Flight
<1>3. g \in Appends \cup Replies /\ g.kind = "append"
  BY <1>1, <1>2 DEF Sent
<1>4. g \in Appends
  BY <1>3 DEF Replies
<1> QED
  BY <1>3, <1>4 DEF Appends, Sent

LEMMA AnswerTyped ==
    ASSUME Types, NEW l \in Link, NEW a \in Answers(l)
    PROVE  /\ a.id \in Nat /\ a.term \in Nat /\ a.match \in Nat
           /\ a.kind = "reply" /\ a \in Flight(l)
<1>1. frames[l] \in Seq(Appends \cup Replies)
  BY DEF Types
<1>2. PICK i \in 1 .. Len(frames[l]) : a = frames[l][i]
  BY DEF Answers, Flight
<1>3. a \in Appends \cup Replies /\ a.kind = "reply"
  BY <1>1, <1>2 DEF Answers
<1>4. a \in Replies
  BY <1>3 DEF Appends
<1> QED
  BY <1>3, <1>4 DEF Replies, Answers

-----------------------------------------------------------------------------
(* What a step does to logs, terms and frames.                             *)

\* p keeps its log, adds an entry of its own as a leader, takes that of an
\* append, or a snapshot of its leader.
LogMove(p) ==
    \/ log'[p] = log[p]
    \/ Lead(p)' /\ log'[p] = Append(log[p], term'[p])
    \/ \E x \in Peers(p) : \E g \in Sent(<<x, p>>) :
          /\ g.term = term'[p] /\ log'[p] = g.log
          /\ ~Begins(g.log, log[p]) /\ ~Lead(p)'
    \/ \E x \in Member : \E k \in 0 .. Len(log[x]) :
          /\ Lead(x) /\ term[x] = term[p] /\ term'[p] = term[p]
          /\ log'[p] = SubSeq(log[x], 1, k)
          /\ ~Begins(log'[p], log[p]) /\ ~Lead(p)'

\* A leader sends what it has.
FreshAppend(l, g) ==
    /\ g.kind = "append" /\ Lead(l[1])' /\ g.term = term'[l[1]] /\ g.log = log'[l[1]]
    /\ g.commit = commit'[l[1]] /\ g.id <= sequence'[l[1]]

\* A member rejects an append, or answers what it has taken.
FreshAnswer(l, a) ==
    /\ a.kind = "reply" /\ a.term = term'[l[1]]
    /\ \/ a.id = 0 /\ a.match = 0
       \/ \E g \in Sent(<<l[2], l[1]>>) :
             /\ a.id = g.id /\ a.term = g.term /\ a.match = Len(g.log)
             /\ Begins(g.log, log'[l[1]])

FlightMove(l) ==
    \A g \in Flight(l)' : g \in Flight(l) \/ FreshAppend(l, g) \/ FreshAnswer(l, g)

\* A peer is credited with what one of its answers says.
CreditMove(x, p) ==
    \/ match'[x][p] = match[x][p]
    \/ match'[x][p] = 0
    \/ \E a \in Answers(<<p, x>>) : a.term = term[x] /\ match'[x][p] = a.match

HeardMove(x, p) ==
    \/ heard'[x][p] = heard[x][p]
    \/ heard'[x][p] = 0
    \/ \E a \in Answers(<<p, x>>) : a.term = term[x] /\ heard'[x][p] = a.id

Moves ==
    /\ \A p \in Member : term'[p] >= term[p] /\ sequence'[p] >= sequence[p] /\ LogMove(p)
    /\ \A l \in Link : FlightMove(l)
    /\ \A x \in Member : \A p \in Peers(x) : CreditMove(x, p) /\ HeardMove(x, p)

\* Nobody is elected, and no new term begins.
Calm ==
    /\ \A x \in Member : Lead(x)' =>
          Lead(x) /\ term'[x] = term[x] /\ commit'[x] >= commit[x]
    /\ \A p \in Member : \E y \in Member : term'[p] <= term[y]

\* The quorum q elects m to the term t.
ElectedBy(m, q, t) ==
    /\ m \in Member /\ q \in Quorums /\ m \in q /\ t \in Nat
    /\ \A p \in q : term[p] < t /\ term'[p] = t /\ UpToDate(log[p], log[m])
    /\ \A p \in Member : p \notin q => term'[p] = term[p]
    /\ Lead(m)' /\ \A x \in Member : x # m /\ Lead(x)' => Lead(x) /\ x \notin q
    /\ \A p \in Member : log'[p] = IF p = m THEN Append(log[m], t) ELSE log[p]
    /\ commit' = commit
    /\ \A l \in Link : \A g \in Flight(l)' :
          g \in Flight(l) \/ (l[1] = m /\ FreshAppend(l, g))
    /\ \A p \in Peers(m) : match'[m][p] = 0

Turn == Calm \/ \E m \in Member, q \in Quorums, t \in Nat : ElectedBy(m, q, t)

\* An election is to a term nobody has seen.
LEMMA ElectedAbove ==
    ASSUME ReadAssumption, Types, TermsBacked,
           NEW m \in Member, NEW q \in Quorums, NEW t \in Nat, ElectedBy(m, q, t),
           NEW p \in Member
    PROVE  term[p] < t
<1>1. PICK Q \in Quorums : \A v \in Q : term[v] >= term[p]
  BY DEF TermsBacked
<1>2. PICK v \in Member : v \in Q /\ v \in q
  BY QuorumsMeet
<1>3. term[v] >= term[p] /\ term[v] < t
  BY <1>1, <1>2 DEF ElectedBy
<1>4. term[v] \in Nat /\ term[p] \in Nat
  BY DEF Types
<1> QED
  BY <1>3, <1>4

LEMMA TermsBackedKept ==
    ASSUME ReadAssumption, Types, Types', TermsBacked, Moves, Turn
    PROVE  TermsBacked'
<1> SUFFICES ASSUME NEW p \in Member
             PROVE  \E Q \in Quorums : \A v \in Q : term'[v] >= term'[p]
  BY DEF TermsBacked, Quorums, Quorum
<1>0. \A v \in Member : term[v] \in Nat /\ term'[v] \in Nat /\ term'[v] >= term[v]
  BY DEF Types, Moves
<1>1. CASE Calm
  <2>1. PICK y \in Member : term'[p] <= term[y]
    BY <1>1 DEF Calm
  <2>2. PICK Q \in Quorums : \A v \in Q : term[v] >= term[y]
    BY DEF TermsBacked
  <2>3. \A v \in Q : term'[v] >= term'[p]
    BY <1>0, <2>1, <2>2 DEF Quorums
  <2> QED
    BY <2>3
<1>2. ASSUME NEW m \in Member, NEW q \in Quorums, NEW t \in Nat, ElectedBy(m, q, t)
      PROVE  \E Q \in Quorums : \A v \in Q : term'[v] >= term'[p]
  <2>1. term[p] < t
    BY <1>2, ElectedAbove
  <2>2. term'[p] <= t
    BY <1>0, <1>2, <2>1 DEF ElectedBy
  <2>3. \A v \in q : term'[v] >= term'[p]
    BY <1>0, <1>2, <2>2 DEF ElectedBy
  <2> QED
    BY <2>3
<1> QED
  BY <1>1, <1>2 DEF Turn

\* A log of before the step.
LEMMA LogsTyped ==
    ASSUME Types, NEW X \in Logs
    PROVE  X \in Seq(Nat)
<1>1. CASE X \in {log[m] : m \in Member}
  BY <1>1 DEF Types
<1>2. ASSUME NEW l \in Link, NEW g \in Sent(l), X = g.log
      PROVE  X \in Seq(Nat)
  BY <1>2, SentTyped
<1> QED
  BY <1>1, <1>2 DEF Logs

\* The same after the step.
LEMMA NewLogsTyped ==
    ASSUME Types', NEW X \in Logs'
    PROVE  X \in Seq(Nat)
<1>1. CASE \E m \in Member : X = log'[m]
  BY <1>1 DEF Types
<1>2. ASSUME NEW l \in Link, NEW g \in Sent(l)', X = g.log
      PROVE  X \in Seq(Nat)
  <2>1. frames'[l] \in Seq(Appends \cup Replies)
    BY DEF Types
  <2>2. PICK i \in 1 .. Len(frames'[l]) : g = frames'[l][i]
    BY DEF Sent, Flight
  <2>3. g \in Appends \cup Replies /\ g.kind = "append"
    BY <2>1, <2>2 DEF Sent
  <2>4. g \in Appends
    BY <2>3 DEF Replies
  <2> QED
    BY <1>2, <2>4 DEF Appends
<1> QED
  BY <1>1, <1>2 DEF Logs

LEMMA Links ==
    /\ \A x, p \in Member : x # p => <<x, p>> \in Link
    /\ \A l \in Link : l[1] \in Member /\ l[2] \in Member /\ l[1] # l[2]
                       /\ l = <<l[1], l[2]>>
BY DEF Link

LEMMA SentMoves ==
    ASSUME Moves, NEW l \in Link, NEW g \in Sent(l)', g \notin Sent(l)
    PROVE  FreshAppend(l, g)
<1>1. g \in Flight(l)' /\ g.kind = "append"
  BY DEF Sent
<1>2. g \notin Flight(l)
  BY <1>1 DEF Sent
<1>3. ~FreshAnswer(l, g)
  BY <1>1 DEF FreshAnswer
<1> QED
  BY <1>1, <1>2, <1>3 DEF Moves, FlightMove

LEMMA AnswersMove ==
    ASSUME Moves, NEW l \in Link, NEW a \in Answers(l)', a \notin Answers(l)
    PROVE  FreshAnswer(l, a)
<1>1. a \in Flight(l)' /\ a.kind = "reply"
  BY DEF Answers
<1>2. a \notin Flight(l)
  BY <1>1 DEF Answers
<1>3. ~FreshAppend(l, a)
  BY <1>1 DEF FreshAppend
<1> QED
  BY <1>1, <1>2, <1>3 DEF Moves, FlightMove

\* A leader's log only grows.
LEMMA LeaderLog ==
    ASSUME Types, Types', Moves, NEW x \in Member, Lead(x)'
    PROVE  /\ log'[x] = log[x] \/ log'[x] = Append(log[x], term'[x])
           /\ Begins(log[x], log'[x])
<1>1. log[x] \in Seq(Nat) /\ term'[x] \in Nat
  BY DEF Types
<1>2. log'[x] = log[x] \/ log'[x] = Append(log[x], term'[x])
  BY DEF Moves, LogMove
<1>3. Begins(log[x], log[x]) /\ Begins(log[x], Append(log[x], term'[x]))
  BY <1>1, BeginsSelf, Extended
<1> QED
  BY <1>2, <1>3

\* Every log is an old one, or begins one, or is a leader's with a new entry.
LEMMA NewLogs ==
    ASSUME Types, Types', Moves, NEW X \in Logs'
    PROVE  \/ \E Y \in Logs : Begins(X, Y)
           \/ \E x \in Member : /\ Lead(x)' /\ X = log'[x]
                                /\ X = Append(log[x], term'[x])
<1>1. ASSUME NEW p \in Member, X = log'[p]
      PROVE  \/ \E Y \in Logs : Begins(X, Y)
             \/ \E x \in Member : /\ Lead(x)' /\ X = log'[x]
                                  /\ X = Append(log[x], term'[x])
  <2>0. log[p] \in Seq(Nat) /\ log[p] \in Logs /\ LogMove(p)
    BY DEF Types, Logs, Moves
  <2>1. CASE log'[p] = log[p]
    BY <1>1, <2>0, <2>1, BeginsSelf
  <2>2. CASE Lead(p)' /\ log'[p] = Append(log[p], term'[p])
    BY <1>1, <2>2
  <2>3. ASSUME NEW x \in Peers(p), NEW g \in Sent(<<x, p>>), log'[p] = g.log
        PROVE  \E Y \in Logs : Begins(X, Y)
    <3>1. <<x, p>> \in Link
      BY Links DEF Peers
    <3>2. g.log \in Logs
      BY <3>1 DEF Logs
    <3> QED
      BY <1>1, <2>3, <3>1, <3>2, SentTyped, BeginsSelf
  <2>4. ASSUME NEW x \in Member, NEW k \in 0 .. Len(log[x]),
               log'[p] = SubSeq(log[x], 1, k)
        PROVE  \E Y \in Logs : Begins(X, Y)
    <3>1. log[x] \in Seq(Nat) /\ log[x] \in Logs
      BY DEF Types, Logs
    <3> QED
      BY <1>1, <2>4, <3>1, Cut
  <2> QED
    BY <2>0, <2>1, <2>2, <2>3, <2>4 DEF LogMove
<1>2. ASSUME NEW l \in Link, NEW g \in Sent(l)', X = g.log
      PROVE  \/ \E Y \in Logs : Begins(X, Y)
             \/ \E x \in Member : /\ Lead(x)' /\ X = log'[x]
                                  /\ X = Append(log[x], term'[x])
  <2>1. CASE g \in Sent(l)
    <3>1. g.log \in Logs
      BY <2>1 DEF Logs
    <3> QED
      BY <1>2, <2>1, <3>1, SentTyped, BeginsSelf
  <2>2. CASE g \notin Sent(l)
    <3>1. FreshAppend(l, g)
      BY <2>2, SentMoves
    <3>2. l[1] \in Member /\ X = log'[l[1]]
      BY <1>2, <3>1, Links DEF FreshAppend
    <3> QED
      BY <1>1, <3>2
  <2> QED
    BY <2>1, <2>2
<1>3. \/ \E p \in Member : X = log'[p]
      \/ \E l \in Link : \E g \in Sent(l)' : X = g.log
  BY DEF Logs
<1> QED
  BY <1>1, <1>2, <1>3

\* What is in flight is of a term its sender has reached.
LEMMA FlightBehindKept ==
    ASSUME Types, Types', FlightBehind, Moves
    PROVE  FlightBehind'
<1>0. \A p \in Member : /\ term[p] \in Nat /\ term'[p] \in Nat /\ term'[p] >= term[p]
                        /\ sequence[p] \in Nat /\ sequence'[p] \in Nat
                        /\ sequence'[p] >= sequence[p]
  BY DEF Types, Moves
<1>1. ASSUME NEW l \in Link, NEW g \in Sent(l)'
      PROVE  g.term <= term'[l[1]] /\ g.id <= sequence'[l[1]]
  <2>1. CASE g \in Sent(l)
    <3>1. g.term <= term[l[1]] /\ g.id <= sequence[l[1]]
      BY <2>1 DEF FlightBehind
    <3>2. g.term \in Nat /\ g.id \in Nat
      BY <2>1, SentTyped
    <3> QED
      BY <1>0, <3>1, <3>2, Links
  <2>2. CASE g \notin Sent(l)
    <3>1. FreshAppend(l, g)
      BY <2>2, SentMoves
    <3> QED
      BY <1>0, <3>1, Links DEF FreshAppend
  <2> QED
    BY <2>1, <2>2
<1>2. ASSUME NEW l \in Link, NEW a \in Answers(l)'
      PROVE  a.term <= term'[l[1]] /\ a.id <= sequence'[l[2]]
  <2>1. CASE a \in Answers(l)
    <3>1. a.term <= term[l[1]] /\ a.id <= sequence[l[2]]
      BY <2>1 DEF FlightBehind
    <3>2. a.term \in Nat /\ a.id \in Nat
      BY <2>1, AnswerTyped
    <3> QED
      BY <1>0, <3>1, <3>2, Links
  <2>2. CASE a \notin Answers(l)
    <3>1. FreshAnswer(l, a)
      BY <2>2, AnswersMove
    <3>2. CASE a.id = 0
      BY <1>0, <3>1, <3>2, Links DEF FreshAnswer
    <3>3. ASSUME NEW g \in Sent(<<l[2], l[1]>>), a.id = g.id
          PROVE  a.id <= sequence'[l[2]]
      <4>1. <<l[2], l[1]>> \in Link /\ l[2] \in Member
        BY Links
      <4>2. g.id <= sequence[l[2]] /\ g.id \in Nat
        BY <4>1, SentTyped DEF FlightBehind
      <4> QED
        BY <1>0, <3>3, <4>1, <4>2
    <3>4. a.term <= term'[l[1]]
      <4>1. a.term = term'[l[1]] /\ l[1] \in Member
        BY <3>1, Links DEF FreshAnswer
      <4> QED
        BY <1>0, <4>1
    <3>5. a.id <= sequence'[l[2]]
      BY <3>1, <3>2, <3>3 DEF FreshAnswer
    <3> QED
      BY <3>4, <3>5
  <2> QED
    BY <2>1, <2>2
<1> QED
  BY <1>1, <1>2 DEF FlightBehind

-----------------------------------------------------------------------------
(* Terms along a log.                                                      *)

LEMMA RisingPrefix ==
    ASSUME NEW s \in Seq(Nat), NEW u \in Seq(Nat), NEW t \in Nat, NEW v \in Nat,
           Begins(s, u), Rising(u, t), t <= v
    PROVE  Rising(s, v)
<1>1. \A i \in 1 .. Len(s) : i \in 1 .. Len(u) /\ s[i] = u[i] /\ u[i] \in Nat
  BY DEF Begins
<1>2. \A i \in 1 .. Len(s) : s[i] <= v
  BY <1>1 DEF Rising
<1>3. \A i, j \in 1 .. Len(s) : i <= j => s[i] <= s[j]
  BY <1>1 DEF Rising
<1> QED
  BY <1>2, <1>3 DEF Rising

LEMMA RisingAppend ==
    ASSUME NEW s \in Seq(Nat), NEW t \in Nat, NEW v \in Nat, Rising(s, t), t <= v
    PROVE  Rising(Append(s, v), v)
<1>1. /\ Append(s, v) \in Seq(Nat) /\ Len(Append(s, v)) = Len(s) + 1
      /\ \A i \in 1 .. Len(s) : Append(s, v)[i] = s[i]
      /\ Append(s, v)[Len(s) + 1] = v
  BY Extended
<1>2. ASSUME NEW i \in 1 .. Len(Append(s, v)) PROVE Append(s, v)[i] <= v
  <2>1. CASE i = Len(s) + 1
    BY <1>1, <2>1
  <2>2. CASE i # Len(s) + 1
    <3>1. i \in 1 .. Len(s)
      BY <1>1, <2>2
    <3>2. s[i] <= t /\ s[i] \in Nat
      BY <3>1 DEF Rising
    <3> QED
      BY <1>1, <3>1, <3>2
  <2> QED
    BY <2>1, <2>2
<1>3. ASSUME NEW i \in 1 .. Len(Append(s, v)), NEW j \in 1 .. Len(Append(s, v)), i <= j
      PROVE  Append(s, v)[i] <= Append(s, v)[j]
  <2>1. CASE j = Len(s) + 1
    BY <1>1, <1>2, <2>1
  <2>2. CASE j # Len(s) + 1
    <3>1. i \in 1 .. Len(s) /\ j \in 1 .. Len(s)
      BY <1>1, <1>3, <2>2
    <3> QED
      BY <1>1, <1>3, <3>1 DEF Rising
  <2> QED
    BY <2>1, <2>2
<1> QED
  BY <1>2, <1>3 DEF Rising

LEMMA LogsRiseKept ==
    ASSUME Types, Types', LogsRise, Moves
    PROVE  LogsRise'
<1>0. \A p \in Member : /\ term[p] \in Nat /\ term'[p] \in Nat /\ term[p] <= term'[p]
                        /\ log[p] \in Seq(Nat) /\ log'[p] \in Seq(Nat)
                        /\ Rising(log[p], term[p])
  BY DEF Types, Moves, LogsRise
<1>1. ASSUME NEW p \in Member PROVE Rising(log'[p], term'[p])
  <2>1. CASE log'[p] = log[p]
    BY <1>0, <2>1, BeginsSelf, RisingPrefix
  <2>2. CASE log'[p] = Append(log[p], term'[p])
    BY <1>0, <2>2, RisingAppend
  <2>3. ASSUME NEW x \in Peers(p), NEW g \in Sent(<<x, p>>),
               g.term = term'[p], log'[p] = g.log
        PROVE  Rising(log'[p], term'[p])
    <3>1. <<x, p>> \in Link
      BY Links DEF Peers
    <3> QED
      BY <2>3, <3>1 DEF LogsRise
  <2>4. ASSUME NEW x \in Member, NEW k \in 0 .. Len(log[x]), term[x] = term[p],
               term'[p] = term[p], log'[p] = SubSeq(log[x], 1, k)
        PROVE  Rising(log'[p], term'[p])
    <3>1. Begins(log'[p], log[x])
      BY <1>0, <2>4, Cut
    <3> QED
      BY <1>0, <2>4, <3>1, RisingPrefix
  <2> QED
    BY <2>1, <2>2, <2>3, <2>4 DEF Moves, LogMove
<1>2. ASSUME NEW l \in Link, NEW g \in Sent(l)' PROVE Rising(g.log, g.term)
  <2>1. CASE g \in Sent(l)
    BY <2>1 DEF LogsRise
  <2>2. CASE g \notin Sent(l)
    BY <1>1, <2>2, SentMoves, Links DEF FreshAppend
  <2> QED
    BY <2>1, <2>2
<1> QED
  BY <1>1, <1>2 DEF LogsRise, Rising

\* No log of before the step has an entry of a term nobody has seen.
LEMMA LogsBelow ==
    ASSUME ReadAssumption, Types, LogsRise, FlightBehind, NEW t \in Nat,
           \A p \in Member : term[p] < t,
           NEW X \in Logs, NEW i \in 1 .. Len(X)
    PROVE  X[i] < t
<1>1. X \in Seq(Nat) /\ X[i] \in Nat
  BY LogsTyped
<1>2. ASSUME NEW p \in Member, X = log[p] PROVE X[i] < t
  <2>1. X[i] <= term[p] /\ term[p] < t /\ term[p] \in Nat
    BY <1>2 DEF LogsRise, Rising, Types
  <2> QED
    BY <1>1, <2>1
<1>3. ASSUME NEW l \in Link, NEW g \in Sent(l), X = g.log PROVE X[i] < t
  <2>1. X[i] <= g.term /\ g.term <= term[l[1]] /\ g.term \in Nat
    BY <1>3, SentTyped DEF LogsRise, Rising, FlightBehind
  <2>2. term[l[1]] < t /\ term[l[1]] \in Nat
    BY Links DEF Types
  <2> QED
    BY <1>1, <2>1, <2>2
<1>4. (\E p \in Member : X = log[p]) \/ \E l \in Link : \E g \in Sent(l) : X = g.log
  BY DEF Logs
<1> QED
  BY <1>2, <1>3, <1>4

-----------------------------------------------------------------------------
(* One leader a term.                                                      *)

LEMMA LeadersNext ==
    ASSUME ReadAssumption, Types, Types', TermsBacked, FlightBehind, OneLeader, Moves, Turn
    PROVE  \A x \in Member : Lead(x)' =>
               /\ \A y \in Member : (Lead(y)' /\ term'[y] = term'[x]) => y = x
               /\ \A l \in Link : \A g \in Sent(l)' :
                     g.term = term'[x] => l[1] = x /\ Begins(g.log, log'[x])
<1>0. \A p \in Member : term[p] \in Nat /\ term'[p] \in Nat /\ log[p] \in Seq(Nat)
                        /\ log'[p] \in Seq(Nat)
  BY DEF Types
<1>1. CASE Calm
  <2> SUFFICES ASSUME NEW x \in Member, Lead(x)'
               PROVE  /\ \A y \in Member : (Lead(y)' /\ term'[y] = term'[x]) => y = x
                      /\ \A l \in Link : \A g \in Sent(l)' :
                            g.term = term'[x] => l[1] = x /\ Begins(g.log, log'[x])
    OBVIOUS
  <2>1. Lead(x) /\ term'[x] = term[x]
    BY <1>1 DEF Calm
  <2>2. ASSUME NEW y \in Member, Lead(y)', term'[y] = term'[x] PROVE y = x
    BY <1>1, <2>1, <2>2 DEF Calm, OneLeader
  <2>3. ASSUME NEW l \in Link, NEW g \in Sent(l)', g.term = term'[x]
        PROVE  l[1] = x /\ Begins(g.log, log'[x])
    <3>1. CASE g \in Sent(l)
      <4>1. l[1] = x /\ Begins(g.log, log[x])
        BY <2>1, <2>3, <3>1 DEF OneLeader
      <4>2. g.log \in Seq(Nat)
        BY <3>1, SentTyped
      <4> QED
        BY <1>0, <4>1, <4>2, LeaderLog, BeginsOn
    <3>2. CASE g \notin Sent(l)
      <4>1. l[1] \in Member /\ Lead(l[1])' /\ term'[l[1]] = term'[x] /\ g.log = log'[l[1]]
        BY <2>3, <3>2, SentMoves, Links DEF FreshAppend
      <4>2. l[1] = x
        BY <2>2, <4>1
      <4> QED
        BY <1>0, <4>1, <4>2, BeginsSelf
    <3> QED
      BY <3>1, <3>2
  <2> QED
    BY <2>2, <2>3
<1>2. ASSUME NEW m \in Member, NEW q \in Quorums, NEW t \in Nat, ElectedBy(m, q, t)
      PROVE  \A x \in Member : Lead(x)' =>
               /\ \A y \in Member : (Lead(y)' /\ term'[y] = term'[x]) => y = x
               /\ \A l \in Link : \A g \in Sent(l)' :
                     g.term = term'[x] => l[1] = x /\ Begins(g.log, log'[x])
  <2>1. \A p \in Member : term[p] < t
    BY <1>2, ElectedAbove
  <2>2. term'[m] = t /\ Lead(m)'
    BY <1>2 DEF ElectedBy
  <2>3. ASSUME NEW y \in Member, Lead(y)', y # m
        PROVE  Lead(y) /\ term'[y] = term[y] /\ term'[y] # t /\ log'[y] = log[y]
    <3>1. Lead(y) /\ term'[y] = term[y] /\ log'[y] = log[y]
      BY <1>2, <2>3 DEF ElectedBy
    <3> QED
      BY <1>0, <2>1, <3>1
  <2>4. ASSUME NEW l \in Link, NEW g \in Sent(l)', g \notin Sent(l)
        PROVE  l[1] = m /\ g.term = t /\ g.log = log'[m]
    <3>1. g \notin Flight(l) /\ g \in Flight(l)'
      BY <2>4 DEF Sent
    <3> QED
      BY <1>2, <2>2, <3>1 DEF ElectedBy, FreshAppend
  <2>5. ASSUME NEW l \in Link, NEW g \in Sent(l) PROVE g.term # t
    <3>1. g.term <= term[l[1]] /\ g.term \in Nat /\ term[l[1]] < t /\ term[l[1]] \in Nat
      BY <1>0, <2>1, SentTyped, Links DEF FlightBehind
    <3> QED
      BY <3>1
  <2>6. ASSUME NEW x \in Member, Lead(x)'
        PROVE  /\ \A y \in Member : (Lead(y)' /\ term'[y] = term'[x]) => y = x
               /\ \A l \in Link : \A g \in Sent(l)' :
                     g.term = term'[x] => l[1] = x /\ Begins(g.log, log'[x])
    <3>1. CASE x = m
      <4>1. ASSUME NEW y \in Member, Lead(y)', term'[y] = term'[x] PROVE y = x
        BY <2>2, <2>3, <3>1, <4>1
      <4>2. ASSUME NEW l \in Link, NEW g \in Sent(l)', g.term = term'[x]
            PROVE  l[1] = x /\ Begins(g.log, log'[x])
        BY <1>0, <2>2, <2>4, <2>5, <3>1, <4>2, BeginsSelf
      <4> QED
        BY <4>1, <4>2
    <3>2. CASE x # m
      <4>0. Lead(x) /\ term'[x] = term[x] /\ term'[x] # t /\ log'[x] = log[x]
        BY <2>3, <2>6, <3>2
      <4>1. ASSUME NEW y \in Member, Lead(y)', term'[y] = term'[x] PROVE y = x
        <5>1. y # m
          BY <2>2, <4>0, <4>1
        <5> QED
          BY <2>3, <4>0, <4>1, <5>1 DEF OneLeader
      <4>2. ASSUME NEW l \in Link, NEW g \in Sent(l)', g.term = term'[x]
            PROVE  l[1] = x /\ Begins(g.log, log'[x])
        <5>1. g \in Sent(l)
          BY <2>4, <4>0, <4>2
        <5> QED
          BY <4>0, <4>2, <5>1 DEF OneLeader
      <4> QED
        BY <4>1, <4>2
    <3> QED
      BY <3>1, <3>2
  <2> QED
    BY <2>6
<1> QED
  BY <1>1, <1>2 DEF Turn

LEMMA OneLeaderKept ==
    ASSUME ReadAssumption, Types, Types', TermsBacked, FlightBehind, OneLeader, Moves, Turn
    PROVE  OneLeader'
BY LeadersNext DEF OneLeader, Begins

\* In the term of a leader nobody else has entries that it has not.
LEMMA NoEntryBeyond ==
    ASSUME ReadAssumption, Types, Types', Raft, Moves, Turn,
           NEW x \in Member, Lead(x)', NEW X \in Logs, NEW i \in 1 .. Len(X),
           X[i] = term'[x]
    PROVE  i <= Len(log[x]) /\ log[x][i] = term'[x] /\ Lead(x) /\ term'[x] = term[x]
<1>1. CASE Calm
  <2>1. Lead(x) /\ term'[x] = term[x]
    BY <1>1 DEF Calm
  <2> QED
    BY <2>1 DEF Raft, LeaderHolds
<1>2. ASSUME NEW m \in Member, NEW q \in Quorums, NEW t \in Nat, ElectedBy(m, q, t)
      PROVE  i <= Len(log[x]) /\ log[x][i] = term'[x] /\ Lead(x) /\ term'[x] = term[x]
  <2>1. \A p \in Member : term[p] < t
    BY <1>2, ElectedAbove DEF Raft
  <2>2. X[i] < t /\ X[i] \in Nat
    BY <2>1, LogsBelow, LogsTyped DEF Raft
  <2>3. x # m
    BY <1>2, <2>2 DEF ElectedBy
  <2>4. Lead(x) /\ term'[x] = term[x]
    BY <1>2, <2>3 DEF ElectedBy
  <2> QED
    BY <2>4 DEF Raft, LeaderHolds
<1> QED
  BY <1>1, <1>2 DEF Turn

LEMMA LeaderHoldsKept ==
    ASSUME ReadAssumption, Types, Types', Raft, Moves, Turn
    PROVE  LeaderHolds'
<1>1. ASSUME NEW x \in Member, Lead(x)', NEW X \in Seq(Nat), NEW i \in 1 .. Len(X),
             X[i] = term'[x], NEW Y \in Logs, Begins(X, Y)
      PROVE  i <= Len(log'[x]) /\ log'[x][i] = term'[x]
  <2>0. Begins(log[x], log'[x]) /\ log[x] \in Seq(Nat) /\ log'[x] \in Seq(Nat)
    BY <1>1, LeaderLog DEF Types
  <2>1. Y \in Seq(Nat)
    BY LogsTyped
  <2>2. i \in 1 .. Len(Y) /\ Y[i] = term'[x]
    BY <1>1, <2>1, BeginsAt
  <2>3. i <= Len(log[x]) /\ log[x][i] = term'[x]
    BY <1>1, <2>2, NoEntryBeyond
  <2>4. i \in 1 .. Len(log[x])
    BY <2>0, <2>3
  <2>5. i \in 1 .. Len(log'[x]) /\ log'[x][i] = log[x][i]
    <3>1. \A j \in 1 .. Len(log[x]) : j \in 1 .. Len(log'[x]) /\ log[x][j] = log'[x][j]
      BY <2>0, BeginsAt
    <3> QED
      BY <2>4, <3>1
  <2>6. Len(log'[x]) \in Nat
    BY <2>0
  <2> QED
    BY <2>3, <2>5, <2>6
<1>2. ASSUME NEW x \in Member, Lead(x)', NEW X \in Seq(Nat), NEW i \in 1 .. Len(X),
             X[i] = term'[x],
             NEW y \in Member, Lead(y)', X = log'[y], X = Append(log[y], term'[y])
      PROVE  i <= Len(log'[x]) /\ log'[x][i] = term'[x]
  <2>1. log[y] \in Seq(Nat) /\ term'[y] \in Nat /\ log[y] \in Logs
    BY DEF Types, Logs
  <2>2. \/ i = Len(X) /\ i = Len(log[y]) + 1 /\ X[i] = term'[y]
        \/ i # Len(X) /\ i \in 1 .. Len(log[y]) /\ X[i] = log[y][i]
    BY <1>2, <2>1, Where
  <2>3. CASE i = Len(X)
    <3>1. term'[y] = term'[x]
      BY <1>2, <2>2, <2>3
    <3>2. y = x
      BY <1>2, <3>1, OneLeaderKept DEF Raft, OneLeader
    <3>3. X = log'[x] /\ i \in 1 .. Len(X) /\ X[i] = term'[x]
      BY <1>2, <3>2
    <3> QED
      BY <3>3
  <2>4. CASE i # Len(X)
    <3>1. i \in 1 .. Len(log[y]) /\ log[y][i] = term'[x]
      BY <1>2, <2>2, <2>4
    <3>2. i <= Len(log[x]) /\ log[x][i] = term'[x]
      BY <1>2, <2>1, <3>1, NoEntryBeyond
    <3>3. Begins(log[x], log'[x]) /\ log[x] \in Seq(Nat) /\ log'[x] \in Seq(Nat)
      BY <1>2, LeaderLog DEF Types
    <3>4. i \in 1 .. Len(log[x])
      BY <3>2, <3>3
    <3>5. i \in 1 .. Len(log'[x]) /\ log'[x][i] = log[x][i]
      <4>1. \A j \in 1 .. Len(log[x]) : j \in 1 .. Len(log'[x]) /\ log[x][j] = log'[x][j]
        BY <3>3, BeginsAt
      <4> QED
        BY <3>4, <4>1
    <3>6. Len(log'[x]) \in Nat
      BY <3>3
    <3> QED
      BY <3>2, <3>5, <3>6
  <2> QED
    BY <2>3, <2>4
<1>3. ASSUME NEW x \in Member, Lead(x)', NEW X \in Logs', NEW i \in 1 .. Len(X),
             X[i] = term'[x]
      PROVE  i <= Len(log'[x]) /\ log'[x][i] = term'[x]
  BY <1>1, <1>2, <1>3, NewLogs, NewLogsTyped
<1> QED
  BY <1>3 DEF LeaderHolds

LEMMA MatchDown ==
    ASSUME NEW s \in Seq(Nat), NEW t \in Seq(Nat), NEW u \in Seq(Nat), NEW v \in Seq(Nat),
           Begins(s, u), Begins(t, v), Match(u, v)
    PROVE  Match(s, t)
<1> SUFFICES ASSUME NEW i \in 1 .. Len(s), i <= Len(t), s[i] = t[i],
                    NEW j \in 1 .. i
             PROVE  s[j] = t[j]
  BY DEF Match
<1>1. i \in 1 .. Len(t) /\ j \in 1 .. Len(s) /\ j \in 1 .. Len(t)
  OBVIOUS
<1>2. i \in 1 .. Len(u) /\ i <= Len(v) /\ u[i] = v[i]
  BY <1>1, BeginsAt
<1>3. u[j] = v[j]
  BY <1>2 DEF Match
<1> QED
  BY <1>1, <1>3 DEF Begins

\* A log with one entry more, of a term the other log has not beyond it.
LEMMA MatchMore ==
    ASSUME NEW s \in Seq(Nat), NEW t \in Nat, NEW u \in Seq(Nat), NEW v \in Seq(Nat),
           u = Append(s, t), Match(s, v),
           Len(s) + 1 <= Len(v) => v[Len(s) + 1] # t
    PROVE  Match(u, v)
<1> SUFFICES ASSUME NEW i \in 1 .. Len(u), i <= Len(v), u[i] = v[i],
                    NEW j \in 1 .. i
             PROVE  u[j] = v[j]
  BY DEF Match
<1>1. i \in 1 .. Len(s) /\ u[i] = s[i]
  BY Where
<1>2. j \in 1 .. Len(u) /\ j # Len(s) + 1
  BY <1>1
<1>3. j \in 1 .. Len(s) /\ u[j] = s[j]
  BY <1>2, Where
<1>4. s[j] = v[j]
  BY <1>1 DEF Match
<1> QED
  BY <1>3, <1>4

LEMMA MatchAround ==
    ASSUME NEW u \in Seq(Nat), NEW v \in Seq(Nat), Match(u, v)
    PROVE  Match(v, u)
BY DEF Match

LEMMA MatchSelf ==
    ASSUME NEW u \in Seq(Nat)
    PROVE  Match(u, u)
BY DEF Match

\* A leader's log with a new entry and a log of before the step.
LEMMA MatchNew ==
    ASSUME ReadAssumption, Types, Types', Raft, Moves, Turn,
           NEW x \in Member, Lead(x)', NEW V \in Logs
    PROVE  Match(Append(log[x], term'[x]), V)
<1>1. log[x] \in Seq(Nat) /\ V \in Seq(Nat) /\ term'[x] \in Nat
  BY LogsTyped DEF Types
<1>2. Match(log[x], V)
  BY DEF Raft, Matching, Logs
<1>3. ASSUME Len(log[x]) + 1 <= Len(V), V[Len(log[x]) + 1] = term'[x]
      PROVE  FALSE
  <2>1. Len(log[x]) \in Nat /\ Len(V) \in Nat
    BY <1>1
  <2>2. Len(log[x]) + 1 \in 1 .. Len(V)
    BY <1>3, <2>1
  <2>3. Len(log[x]) + 1 <= Len(log[x])
    BY <1>3, <2>2, NoEntryBeyond
  <2> QED
    BY <2>1, <2>3
<1>4. PICK u : u = Append(log[x], term'[x])
  OBVIOUS
<1>5. u \in Seq(Nat)
  BY <1>1, <1>4
<1>6. Len(log[x]) + 1 <= Len(V) => V[Len(log[x]) + 1] # term'[x]
  BY <1>3
<1>7. Match(u, V)
  BY <1>1, <1>2, <1>4, <1>5, <1>6, MatchMore, Zenon
<1> QED
  BY <1>4, <1>7

LEMMA MatchingKept ==
    ASSUME ReadAssumption, Types, Types', Raft, Moves, Turn
    PROVE  Matching'
<1> DEFINE Old(X) == \E Y \in Logs : Begins(X, Y)
           New(X) == \E x \in Member : /\ Lead(x)' /\ X = log'[x]
                                       /\ X = Append(log[x], term'[x])
<1>1. ASSUME NEW X \in Seq(Nat), NEW Y \in Seq(Nat), Old(X), Old(Y)
      PROVE  Match(X, Y)
  <2>1. PICK U \in Logs : Begins(X, U)
    BY <1>1
  <2>2. PICK V \in Logs : Begins(Y, V)
    BY <1>1
  <2>3. Match(U, V) /\ U \in Seq(Nat) /\ V \in Seq(Nat)
    BY LogsTyped DEF Raft, Matching
  <2> QED
    BY <2>1, <2>2, <2>3, MatchDown
<1>2. ASSUME NEW X \in Seq(Nat), NEW Y \in Seq(Nat), New(X), Old(Y)
      PROVE  Match(X, Y)
  <2>1. PICK x \in Member : Lead(x)' /\ X = Append(log[x], term'[x])
    BY <1>2
  <2>2. PICK V \in Logs : Begins(Y, V)
    BY <1>2
  <2>3. Match(X, V) /\ V \in Seq(Nat)
    BY <2>1, LogsTyped, MatchNew
  <2> QED
    BY <2>2, <2>3, BeginsSelf, MatchDown
<1>3. ASSUME NEW X \in Seq(Nat), NEW Y \in Seq(Nat), New(X), New(Y)
      PROVE  Match(X, Y)
  <2>1. PICK x \in Member : /\ Lead(x)' /\ X = log'[x]
                            /\ X = Append(log[x], term'[x])
    BY <1>3
  <2>2. PICK y \in Member : /\ Lead(y)' /\ Y = log'[y]
                            /\ Y = Append(log[y], term'[y])
    BY <1>3
  <2>3. /\ log[x] \in Seq(Nat) /\ log[y] \in Seq(Nat)
        /\ term'[x] \in Nat /\ term'[y] \in Nat
    BY DEF Types
  <2>4. CASE x = y
    BY <2>1, <2>2, <2>4, MatchSelf
  <2>5. CASE x # y
    <3>1. term'[x] # term'[y]
      BY <2>1, <2>2, <2>5, OneLeaderKept DEF Raft, OneLeader
    <3>2. Match(Y, log[x])
      BY <2>2, MatchNew DEF Logs
    <3>3. Match(log[x], Y)
      BY <2>3, <3>2, MatchAround
    <3>4. ASSUME Len(log[x]) + 1 <= Len(Y), Y[Len(log[x]) + 1] = term'[x]
          PROVE  FALSE
      <4>1. Len(log[x]) + 1 \in 1 .. Len(Y)
        BY <2>3, <3>4
      <4>2. /\ Len(log[x]) + 1 \in 1 .. Len(log[y])
            /\ log[y][Len(log[x]) + 1] = term'[x]
        BY <2>2, <2>3, <3>1, <3>4, <4>1, Where
      <4>3. Len(log[x]) + 1 <= Len(log[x])
        <5>1. log[y] \in Logs
          BY DEF Logs
        <5> QED
          BY <2>1, <4>2, <5>1, NoEntryBeyond
      <4> QED
        BY <2>3, <4>3
    <3> QED
      BY <2>1, <2>3, <3>3, <3>4, MatchMore
  <2> QED
    BY <2>4, <2>5
<1>4. \A X \in Logs' : X \in Seq(Nat) /\ (Old(X) \/ New(X))
  BY NewLogs, NewLogsTyped
<1> HIDE DEF Old, New
<1>5. ASSUME NEW X \in Logs', NEW Y \in Logs'
      PROVE  Match(X, Y)
  <2>1. CASE New(Y)
    BY <1>2, <1>3, <1>4, <2>1, MatchAround
  <2>2. CASE Old(Y)
    BY <1>1, <1>2, <1>4, <2>2
  <2> QED
    BY <1>4, <2>1, <2>2
<1> QED
  BY <1>5 DEF Matching, Match

\* A leader led its term before, or has just been elected.
LEMMA Continues ==
    ASSUME Turn, NEW x \in Member, Lead(x)'
    PROVE  \/ Lead(x) /\ term'[x] = term[x]
           \/ \E q \in Quorums, t \in Nat : ElectedBy(x, q, t)
<1>1. CASE Calm
  BY <1>1 DEF Calm
<1>2. ASSUME NEW m \in Member, NEW q \in Quorums, NEW t \in Nat, ElectedBy(m, q, t)
      PROVE  \/ Lead(x) /\ term'[x] = term[x]
             \/ \E Q \in Quorums, v \in Nat : ElectedBy(x, Q, v)
  <2>1. CASE x = m
    BY <1>2, <2>1
  <2>2. CASE x # m
    BY <1>2, <2>2 DEF ElectedBy
  <2> QED
    BY <2>1, <2>2
<1> QED
  BY <1>1, <1>2 DEF Turn

\* A new leader has heard nothing in its term.
LEMMA NoAnswers ==
    ASSUME ReadAssumption, Types, Raft, NEW m \in Member, NEW q \in Quorums, NEW t \in Nat,
           ElectedBy(m, q, t), NEW l \in Link, NEW a \in Answers(l)'
    PROVE  a \in Answers(l) /\ a.term < t
<1>1. a \in Flight(l)' /\ a.kind = "reply"
  BY DEF Answers
<1>2. a \in Flight(l)
  BY <1>1 DEF ElectedBy, FreshAppend
<1>3. a \in Answers(l)
  BY <1>1, <1>2 DEF Answers
<1>4. a.term <= term[l[1]] /\ a.term \in Nat
  BY <1>3, AnswerTyped DEF Raft, FlightBehind
<1>5. term[l[1]] < t /\ term[l[1]] \in Nat
  BY ElectedAbove, Links DEF Raft, Types
<1> QED
  BY <1>3, <1>4, <1>5

LEMMA CreditBoundedKept ==
    ASSUME ReadAssumption, Types, Types', Raft, Moves, Turn
    PROVE  CreditBounded'
<1> SUFFICES ASSUME NEW x \in Member, Lead(x)', NEW p \in Peers(x)
             PROVE  /\ match'[x][p] <= Len(log'[x])
                    /\ \A a \in Answers(<<p, x>>)' :
                          a.term = term'[x] => a.match <= Len(log'[x])
  BY DEF CreditBounded, Peers
<1>0. p \in Member /\ p # x /\ <<p, x>> \in Link /\ <<x, p>> \in Link
  BY Links DEF Peers
<1>1. Len(log[x]) <= Len(log'[x]) /\ Len(log[x]) \in Nat /\ Len(log'[x]) \in Nat
  <2>1. log[x] \in Seq(Nat) /\ log'[x] \in Seq(Nat)
    BY DEF Types
  <2>2. Begins(log[x], log'[x])
    BY LeaderLog
  <2> QED
    BY <2>1, <2>2, BeginsAt
<1>2. CASE Lead(x) /\ term'[x] = term[x]
  <2>1. match'[x][p] <= Len(log'[x])
    <3>1. CASE match'[x][p] = match[x][p]
      <4>1. match[x][p] <= Len(log[x]) /\ match[x][p] \in Nat
        BY <1>2 DEF Raft, CreditBounded, Types
      <4> QED
        BY <1>1, <3>1, <4>1
    <3>2. CASE match'[x][p] = 0
      BY <1>1, <3>2
    <3>3. ASSUME NEW a \in Answers(<<p, x>>), a.term = term[x], match'[x][p] = a.match
          PROVE  match'[x][p] <= Len(log'[x])
      <4>1. a.match <= Len(log[x]) /\ a.match \in Nat
        BY <1>0, <1>2, <3>3, AnswerTyped DEF Raft, CreditBounded
      <4> QED
        BY <1>1, <3>3, <4>1
    <3> QED
      BY <3>1, <3>2, <3>3 DEF Moves, CreditMove
  <2>2. ASSUME NEW a \in Answers(<<p, x>>)', a.term = term'[x]
        PROVE  a.match <= Len(log'[x])
    <3>1. CASE a \in Answers(<<p, x>>)
      <4>1. a.match <= Len(log[x]) /\ a.match \in Nat
        BY <1>0, <1>2, <2>2, <3>1, AnswerTyped DEF Raft, CreditBounded
      <4> QED
        BY <1>1, <4>1
    <3>2. CASE a \notin Answers(<<p, x>>)
      <4>1. FreshAnswer(<<p, x>>, a)
        BY <1>0, <3>2, AnswersMove
      <4>2. CASE a.match = 0
        BY <1>1, <4>2
      <4>3. ASSUME NEW g \in Sent(<<x, p>>), a.term = g.term, a.match = Len(g.log)
            PROVE  a.match <= Len(log'[x])
        <5>1. Begins(g.log, log[x]) /\ g.log \in Seq(Nat)
          BY <1>0, <1>2, <2>2, <4>3, SentTyped DEF Raft, OneLeader
        <5>2. Len(g.log) <= Len(log[x]) /\ Len(g.log) \in Nat
          BY <5>1 DEF Begins
        <5> QED
          BY <1>1, <4>3, <5>2
      <4> QED
        BY <4>1, <4>2, <4>3 DEF FreshAnswer
    <3> QED
      BY <3>1, <3>2
  <2> QED
    BY <2>1, <2>2
<1>3. ASSUME NEW q \in Quorums, NEW t \in Nat, ElectedBy(x, q, t)
      PROVE  /\ match'[x][p] <= Len(log'[x])
             /\ \A a \in Answers(<<p, x>>)' :
                   a.term = term'[x] => a.match <= Len(log'[x])
  <2>1. match'[x][p] = 0 /\ term'[x] = t
    BY <1>3 DEF ElectedBy
  <2>2. \A a \in Answers(<<p, x>>)' : a.term < t /\ a \in Answers(<<p, x>>)
    BY <1>0, <1>3, NoAnswers
  <2>3. \A a \in Answers(<<p, x>>)' : a.term # term'[x]
    BY <1>0, <2>1, <2>2, AnswerTyped
  <2> QED
    BY <1>1, <2>1, <2>3
<1> QED
  BY <1>2, <1>3, Continues

LEMMA RaftKept ==
    ASSUME ReadAssumption, Types, Types', Raft, Moves, Turn
    PROVE  Raft'
BY TermsBackedKept, LogsRiseKept, FlightBehindKept, OneLeaderKept, LeaderHoldsKept,
   MatchingKept, CreditBoundedKept DEF Raft

-----------------------------------------------------------------------------
(* What is committed stays.                                                *)

LEMMA HeadTyped ==
    ASSUME NEW F \in Heads
    PROVE  /\ F \in Seq(Nat) /\ Len(F) \in 1 .. Len(F) /\ TermOf(F) \in Nat
           /\ \A i \in 1 .. Len(F) : F[i] <= TermOf(F)
BY DEF Heads, Rising, TermOf

\* A log that gets as far as F and begins one that F begins holds F.
LEMMA ReachesBack ==
    ASSUME NEW F \in Heads, NEW X \in Seq(Nat), NEW Y \in Seq(Nat), Begins(X, Y),
           Reaches(Y, F) => Begins(F, Y), Reaches(X, F)
    PROVE  Begins(F, X)
<1>0. /\ F \in Seq(Nat) /\ TermOf(F) \in Nat
      /\ \A i \in 1 .. Len(F) : F[i] <= TermOf(F)
  BY HeadTyped
<1>1. PICK i \in 1 .. Len(X) :
          X[i] > TermOf(F) \/ (X[i] = TermOf(F) /\ i >= Len(F))
  BY DEF Reaches
<1>2. i \in 1 .. Len(Y) /\ Y[i] = X[i] /\ Y[i] \in Nat
  BY BeginsAt
<1>3. Begins(F, Y)
  BY <1>1, <1>2 DEF Reaches
<1>4. i >= Len(F)
  <2>1. SUFFICES ASSUME i < Len(F) PROVE FALSE
    BY <1>0
  <2>2. i \in 1 .. Len(F)
    BY <1>0, <2>1
  <2>3. F[i] = Y[i]
    BY <1>0, <1>3, <2>2, BeginsAt
  <2>4. F[i] <= TermOf(F) /\ F[i] \in Nat
    BY <1>0, <2>2
  <2>5. X[i] = TermOf(F) /\ i >= Len(F)
    BY <1>0, <1>1, <1>2, <2>3, <2>4
  <2> QED
    BY <1>0, <2>1, <2>5
<1>5. Len(F) <= Len(X)
  BY <1>0, <1>4
<1> QED
  BY <1>0, <1>3, <1>5, Beginnings

\* A log with one entry more gets no farther, unless it is of a term from F on.
LEMMA ReachesMore ==
    ASSUME NEW F \in Heads, NEW s \in Seq(Nat), NEW t \in Nat, NEW u \in Seq(Nat),
           u = Append(s, t), t < TermOf(F), Reaches(u, F)
    PROVE  Reaches(s, F)
<1>1. PICK i \in 1 .. Len(u) :
          u[i] > TermOf(F) \/ (u[i] = TermOf(F) /\ i >= Len(F))
  BY DEF Reaches
<1>2. i \in 1 .. Len(s) /\ u[i] = s[i]
  BY <1>1, HeadTyped, Where
<1> QED
  BY <1>1, <1>2 DEF Reaches

\* Whoever has F keeps it.
LEMMA HeldKept ==
    ASSUME Types, Types', Raft, Moves, NEW F \in Heads, NEW A \in SUBSET Member,
           Core(F, A), NEW p \in Member, Begins(F, log[p]), term[p] >= TermOf(F)
    PROVE  Begins(F, log'[p])
<1>0. /\ F \in Seq(Nat) /\ TermOf(F) \in Nat /\ term[p] \in Nat /\ term'[p] \in Nat
      /\ term'[p] >= term[p] /\ log[p] \in Seq(Nat) /\ log'[p] \in Seq(Nat)
  BY HeadTyped DEF Types, Moves
<1>1. CASE log'[p] = log[p]
  BY <1>1
<1>2. CASE log'[p] = Append(log[p], term'[p])
  <2>1. Begins(log[p], log'[p])
    BY <1>0, <1>2, Extended
  <2> QED
    BY <1>0, <2>1, BeginsOn
<1>3. ASSUME NEW x \in Peers(p), NEW g \in Sent(<<x, p>>),
             g.term = term'[p], log'[p] = g.log, ~Begins(g.log, log[p])
      PROVE  Begins(F, log'[p])
  <2>1. <<x, p>> \in Link
    BY Links DEF Peers
  <2>2. g.term >= TermOf(F) /\ g.term \in Nat
    BY <1>0, <1>3
  <2>3. Begins(F, g.log) \/ Begins(g.log, F)
    BY <1>0, <2>1, <2>2 DEF Core
  <2>4. ~Begins(g.log, F)
    BY <1>0, <1>3, BeginsOn
  <2> QED
    BY <1>3, <2>3, <2>4
<1>4. ASSUME NEW x \in Member, NEW k \in 0 .. Len(log[x]),
             Lead(x), term[x] = term[p], log'[p] = SubSeq(log[x], 1, k),
             ~Begins(log'[p], log[p])
      PROVE  Begins(F, log'[p])
  <2>1. Begins(F, log[x]) /\ log[x] \in Seq(Nat)
    BY <1>4 DEF Core, Types
  <2>2. Begins(log'[p], log[x]) /\ Len(log'[p]) = k
    BY <1>4, <2>1, Cut
  <2>3. CASE Len(F) <= Len(log'[p])
    BY <1>0, <2>1, <2>2, <2>3, Beginnings
  <2>4. CASE Len(log'[p]) <= Len(F)
    <3>1. Begins(log'[p], F)
      BY <1>0, <2>1, <2>2, <2>4, Beginnings
    <3> QED
      BY <1>0, <1>4, <3>1, BeginsOn
  <2>5. Len(F) \in Nat /\ Len(log'[p]) \in Nat
    BY <1>0
  <2> QED
    BY <2>3, <2>4, <2>5
<1> QED
  BY <1>1, <1>2, <1>3, <1>4 DEF Moves, LogMove

\* If the leaders after the step have F, nothing else can lose it.
LEMMA CoreKept ==
    ASSUME ReadAssumption, Types, Types', Raft, Moves, NEW F \in Heads,
           NEW A \in SUBSET Member, \A p \in A : term[p] >= TermOf(F), Core(F, A),
           \A x \in Member : Lead(x)' /\ term'[x] >= TermOf(F) => Begins(F, log'[x])
    PROVE  Core(F, A)'
<1>0. F \in Seq(Nat) /\ TermOf(F) \in Nat
  BY HeadTyped
<1>1. \A p \in A : Begins(F, log'[p])
  BY HeldKept DEF Core
<1>2. ASSUME NEW l \in Link, NEW g \in Sent(l)'
      PROVE  /\ g.term > TermOf(F) => Begins(F, g.log)
             /\ g.term = TermOf(F) => (Begins(F, g.log) \/ Begins(g.log, F))
  <2>1. CASE g \in Sent(l)
    BY <2>1 DEF Core
  <2>2. CASE g \notin Sent(l)
    <3>1. /\ l[1] \in Member /\ Lead(l[1])' /\ g.term = term'[l[1]]
          /\ g.log = log'[l[1]]
      BY <2>2, SentMoves, Links DEF FreshAppend
    <3>2. g.term \in Nat
      BY <3>1 DEF Types
    <3>3. g.term >= TermOf(F) => Begins(F, g.log)
      BY <3>1
    <3> QED
      BY <1>0, <3>2, <3>3
  <2> QED
    BY <2>1, <2>2
<1>3. ASSUME NEW X \in Seq(Nat), NEW Y \in Logs, Begins(X, Y), Reaches(X, F)
      PROVE  Begins(F, X)
  <2>1. Reaches(Y, F) => Begins(F, Y)
    BY DEF Core
  <2>2. Y \in Seq(Nat)
    BY LogsTyped
  <2> QED
    BY <1>3, <2>1, <2>2, ReachesBack
<1>4. ASSUME NEW X \in Seq(Nat), NEW x \in Member, Lead(x)', X = log'[x],
             X = Append(log[x], term'[x]), Reaches(X, F)
      PROVE  Begins(F, X)
  <2>0. log[x] \in Seq(Nat) /\ term'[x] \in Nat
    BY DEF Types
  <2>1. CASE term'[x] >= TermOf(F)
    BY <1>4, <2>1
  <2>2. CASE term'[x] < TermOf(F)
    <3>1. Reaches(log[x], F)
      BY <1>4, <2>0, <2>2, ReachesMore
    <3>2. Begins(F, log[x])
      BY <3>1 DEF Core, Logs
    <3>3. Begins(log[x], X)
      BY <1>4, <2>0, Extended
    <3> QED
      BY <1>0, <2>0, <3>2, <3>3, BeginsOn
  <2> QED
    BY <1>0, <2>0, <2>1, <2>2
<1>5. ASSUME NEW X \in Logs', Reaches(X, F) PROVE Begins(F, X)
  BY <1>3, <1>4, <1>5, NewLogs, NewLogsTyped
<1> QED
  BY <1>1, <1>2, <1>5 DEF Core, Reaches, Begins, TermOf

\* Whoever a voter that has F prefers to itself has F.
LEMMA PreferredHolds ==
    ASSUME NEW F \in Heads, NEW s \in Seq(Nat), NEW u \in Seq(Nat), Begins(F, s),
           \A i, j \in 1 .. Len(s) : i <= j => s[i] <= s[j],
           UpToDate(s, u), Reaches(u, F) => Begins(F, u)
    PROVE  Begins(F, u)
<1>0. /\ F \in Seq(Nat) /\ TermOf(F) \in Nat /\ Len(F) \in 1 .. Len(F)
  BY HeadTyped
<1>1. Len(F) \in 1 .. Len(s) /\ s[Len(F)] = TermOf(F) /\ Len(F) <= Len(s)
  BY <1>0, BeginsAt DEF TermOf
<1>2. Len(s) \in 1 .. Len(s) /\ s # <<>>
  BY <1>1
<1>3. s[Len(s)] >= TermOf(F) /\ s[Len(s)] \in Nat
  <2>1. s[Len(F)] <= s[Len(s)]
    BY <1>1, <1>2
  <2>2. s[Len(F)] \in Nat /\ s[Len(s)] \in Nat
    BY <1>1, <1>2
  <2> QED
    BY <1>0, <1>1, <2>1, <2>2
<1>4. CASE u = <<>>
  BY <1>0, <1>2, <1>3, <1>4 DEF UpToDate
<1>5. CASE u # <<>>
  <2>1. Len(u) \in 1 .. Len(u) /\ u[Len(u)] \in Nat
    BY <1>5
  <2>2. \/ u[Len(u)] > s[Len(s)]
        \/ u[Len(u)] = s[Len(s)] /\ Len(u) >= Len(s)
    BY <1>2, <1>5 DEF UpToDate
  <2>3. \/ u[Len(u)] > TermOf(F)
        \/ u[Len(u)] = TermOf(F) /\ Len(u) >= Len(F)
    BY <1>0, <1>1, <1>3, <2>1, <2>2
  <2>4. Reaches(u, F)
    BY <2>1, <2>3 DEF Reaches
  <2> QED
    BY <2>4
<1> QED
  BY <1>4, <1>5

LEMMA GoodKept ==
    ASSUME ReadAssumption, Types, Types', Raft, Moves, Turn, NEW F, NEW A, Good(F, A)
    PROVE  Good(F, A)'
<1>0. F \in Heads /\ A \in SUBSET Member /\ F \in Seq(Nat) /\ TermOf(F) \in Nat
  BY HeadTyped DEF Good
<1>1. \A p \in Member : /\ term[p] \in Nat /\ term'[p] \in Nat /\ term'[p] >= term[p]
  BY DEF Types, Moves
<1>2. \A p \in A : term[p] >= TermOf(F) /\ term'[p] >= TermOf(F)
  BY <1>0, <1>1 DEF Good
<1>3. ASSUME Beyond(F, A) PROVE Beyond(F, A)'
  BY <1>0, <1>1, <1>3 DEF Beyond, Quorums, Quorum, TermOf
<1>4. ASSUME Core(F, A) PROVE Core(F, A)' \/ Beyond(F, A)'
  <2>1. CASE Calm
    <3>1. ASSUME NEW x \in Member, Lead(x)', term'[x] >= TermOf(F)
          PROVE  Begins(F, log'[x])
      <4>1. Lead(x) /\ term'[x] = term[x]
        BY <2>1, <3>1 DEF Calm
      <4>2. Begins(F, log[x])
        BY <1>4, <3>1, <4>1 DEF Core
      <4>3. Begins(log[x], log'[x]) /\ log[x] \in Seq(Nat) /\ log'[x] \in Seq(Nat)
        BY <3>1, LeaderLog DEF Types
      <4> QED
        BY <1>0, <4>2, <4>3, BeginsOn
    <3> QED
      BY <1>0, <1>2, <1>4, <3>1, CoreKept
  <2>2. ASSUME NEW m \in Member, NEW q \in Quorums, NEW t \in Nat, ElectedBy(m, q, t)
        PROVE  Core(F, A)' \/ Beyond(F, A)'
    <3>1. PICK a \in A : TRUE
      BY DEF Good
    <3>2. TermOf(F) < t
      BY <1>0, <1>1, <1>2, <2>2, <3>1, ElectedAbove DEF Raft
    <3>3. CASE q \cap A = {}
      <4>1. ASSUME NEW Q \in Quorums
            PROVE  \E p \in Q : p \notin A /\ term'[p] > TermOf(F)
        <5>1. PICK v \in Member : v \in Q /\ v \in q
          BY QuorumsMeet
        <5>2. term'[v] = t /\ v \notin A
          BY <2>2, <3>3, <5>1 DEF ElectedBy
        <5> QED
          BY <1>0, <3>2, <5>1, <5>2
      <4> QED
        BY <4>1 DEF Beyond, Quorums, Quorum, TermOf
    <3>4. CASE q \cap A # {}
      <4>1. PICK p \in q : p \in A
        BY <3>4
      <4>2. /\ p \in Member /\ log[p] \in Seq(Nat) /\ log[m] \in Seq(Nat)
            /\ Begins(F, log[p])
        BY <1>0, <1>4, <4>1 DEF Types, Core
      <4>3. \A i, j \in 1 .. Len(log[p]) : i <= j => log[p][i] <= log[p][j]
        BY <4>2 DEF Raft, LogsRise, Rising
      <4>4. UpToDate(log[p], log[m])
        BY <2>2, <4>1 DEF ElectedBy
      <4>5. Reaches(log[m], F) => Begins(F, log[m])
        BY <1>4 DEF Core, Logs
      <4>6. Begins(F, log[m])
        BY <1>0, <4>2, <4>3, <4>4, <4>5, PreferredHolds
      <4>7. ASSUME NEW x \in Member, Lead(x)', term'[x] >= TermOf(F)
            PROVE  Begins(F, log'[x])
        <5>1. Begins(F, log[x])
          <6>1. CASE x = m
            BY <4>6, <6>1
          <6>2. CASE x # m
            <7>1. Lead(x) /\ term'[x] = term[x]
              BY <2>2, <4>7, <6>2 DEF ElectedBy
            <7> QED
              BY <1>4, <4>7, <7>1 DEF Core
          <6> QED
            BY <6>1, <6>2
        <5>2. Begins(log[x], log'[x]) /\ log[x] \in Seq(Nat) /\ log'[x] \in Seq(Nat)
          BY <4>7, LeaderLog DEF Types
        <5> QED
          BY <1>0, <5>1, <5>2, BeginsOn
      <4> QED
        BY <1>0, <1>2, <1>4, <4>7, CoreKept
    <3> QED
      BY <3>3, <3>4
  <2> QED
    BY <2>1, <2>2 DEF Turn
<1>5. Core(F, A)' \/ Beyond(F, A)'
  BY <1>3, <1>4 DEF Good
<1>6. A # {}
  BY DEF Good
<1> QED
  BY <1>0, <1>2, <1>5, <1>6 DEF Good, TermOf

\* Others that hold it in its term join those who acknowledged it.
LEMMA GoodGrows ==
    ASSUME Types', NEW F, NEW A, Good(F, A)', NEW B \in SUBSET Member,
           \A p \in B : term'[p] = TermOf(F) /\ Begins(F, log'[p])
    PROVE  Good(F, A \cup B)'
<1>0. F \in Heads /\ A \in SUBSET Member /\ A # {} /\ TermOf(F) \in Nat
  BY HeadTyped DEF Good
<1>1. ASSUME Core(F, A)' PROVE Core(F, A \cup B)'
  <2>1. \A p \in A : Begins(F, log'[p])
    BY <1>1 DEF Core, Begins
  <2>2. \A p \in A \cup B : Begins(F, log'[p])
    BY <2>1
  <2> QED
    BY <1>1, <2>2 DEF Core, Begins
<1>2. ASSUME Beyond(F, A)' PROVE Beyond(F, A \cup B)'
  <2>1. ASSUME NEW Q \in Quorums
        PROVE  \E p \in Q : p \notin A \cup B /\ term'[p] > TermOf(F)
    <3>1. PICK p \in Q : p \notin A /\ term'[p] > TermOf(F)
      BY <1>2 DEF Beyond, Quorums, Quorum, TermOf
    <3>2. p \notin B
      BY <1>0, <3>1
    <3> QED
      BY <3>1, <3>2
  <2> QED
    BY <2>1 DEF Beyond, Quorums, Quorum, TermOf
<1>3. \A p \in A \cup B : term'[p] >= TermOf(F)
  BY <1>0 DEF Good, TermOf
<1> QED
  BY <1>0, <1>1, <1>2, <1>3 DEF Good, TermOf

\* A new entry that a leader alone holds.
LEMMA GoodAlone ==
    ASSUME ReadAssumption, Types, Types', Raft, Moves, Turn,
           NEW x \in Member, Lead(x)', NEW F, F = log'[x], F = Append(log[x], term'[x])
    PROVE  Good(F, {x})' /\ TermOf(F) = term'[x]
<1>0. Raft'
  BY RaftKept
<1>1. log[x] \in Seq(Nat) /\ F \in Seq(Nat) /\ \A p \in Member : log[p] \in Seq(Nat)
  BY DEF Types
<1>2. \A p \in Member : term[p] \in Nat /\ term'[p] \in Nat /\ term'[p] >= term[p]
  BY DEF Types, Moves
<1>3. /\ Len(F) = Len(log[x]) + 1 /\ TermOf(F) = term'[x]
      /\ F[Len(F)] = term'[x] /\ Len(F) \in 1 .. Len(F)
  BY <1>1, <1>2, Extended DEF TermOf
<1>4. F \in Heads
  <2>1. Rising(F, term'[x])
    BY <1>0 DEF Raft, LogsRise, Rising
  <2> QED
    BY <1>1, <1>3, <2>1 DEF Heads
<1>5. ASSUME NEW y \in Member, term'[y] > term'[x]
      PROVE  Beyond(F, {x})'
  <2>1. PICK P \in Quorums : \A p \in P : term'[p] >= term'[y]
    BY <1>0 DEF Raft, TermsBacked, Quorums, Quorum
  <2>2. ASSUME NEW Q \in Quorums
        PROVE  \E p \in Q : p \notin {x} /\ term'[p] > term'[x]
    <3>1. PICK v \in Member : v \in Q /\ v \in P
      BY QuorumsMeet
    <3>2. term'[v] > term'[x]
      BY <1>2, <1>5, <2>1, <3>1
    <3>3. v # x
      BY <1>2, <3>2
    <3> QED
      BY <3>1, <3>2, <3>3
  <2> QED
    BY <1>3, <2>2 DEF Beyond, Quorums, Quorum, TermOf
<1>6. ASSUME \A y \in Member : term'[y] <= term'[x]
      PROVE  Core(F, {x})'
  <2>1. ASSUME NEW y \in Member, Lead(y)', term'[y] >= term'[x]
        PROVE  Begins(F, log'[y])
    <3>1. term'[y] = term'[x]
      BY <1>2, <1>6, <2>1
    <3>2. y = x
      BY <1>0, <2>1, <3>1 DEF Raft, OneLeader
    <3> QED
      BY <1>1, <3>2, BeginsSelf
  <2>2. ASSUME NEW l \in Link, NEW g \in Sent(l)'
        PROVE  ~(g.term > term'[x]) /\ (g.term = term'[x] => Begins(g.log, F))
    <3>1. g.term <= term'[l[1]] /\ l[1] \in Member
      BY <1>0, Links DEF Raft, FlightBehind
    <3>2. term'[l[1]] <= term'[x] /\ term'[l[1]] \in Nat /\ term'[x] \in Nat
      BY <1>2, <1>6, <3>1
    <3>3. g.term \in Nat
      <4>1. frames'[l] \in Seq(Appends \cup Replies)
        BY DEF Types
      <4>2. PICK i \in 1 .. Len(frames'[l]) : g = frames'[l][i]
        BY DEF Sent, Flight
      <4> QED
        BY <4>1, <4>2 DEF Appends, Replies
    <3>4. g.term = term'[x] => Begins(g.log, F)
      <4>1. \A h \in Sent(l)' : h.term = term'[x] => Begins(h.log, log'[x])
        BY LeadersNext DEF Raft
      <4> QED
        BY <4>1
    <3> QED
      BY <3>1, <3>2, <3>3, <3>4
  <2>3. ASSUME NEW X \in Seq(Nat), NEW Y \in Logs, Begins(X, Y), NEW i \in 1 .. Len(X)
        PROVE  X[i] <= term'[x]
    <3>1. Y \in Seq(Nat)
      BY LogsTyped
    <3>2. i \in 1 .. Len(Y) /\ Y[i] = X[i]
      BY <2>3, <3>1, BeginsAt
    <3>3. /\ term'[x] + 1 \in Nat
          /\ \A p \in Member : term[p] < term'[x] + 1
      <4>1. \A p \in Member : term[p] <= term'[p] /\ term'[p] <= term'[x]
        BY <1>2, <1>6
      <4> QED
        BY <1>2, <4>1
    <3>4. Y[i] < term'[x] + 1
      BY <3>2, <3>3, LogsBelow DEF Raft
    <3>5. Y[i] \in Nat
      BY <3>1, <3>2
    <3> QED
      BY <1>2, <3>2, <3>4, <3>5
  <2>4. ASSUME NEW X \in Seq(Nat), NEW y \in Member, X = Append(log[y], term'[y]),
               NEW i \in 1 .. Len(X)
        PROVE  X[i] <= term'[x]
    <3>1. \/ X[i] = term'[y]
          \/ i \in 1 .. Len(log[y]) /\ X[i] = log[y][i]
      BY <1>1, <1>2, <2>4, Where
    <3>2. CASE X[i] = term'[y]
      BY <1>6, <3>2
    <3>3. CASE i \in 1 .. Len(log[y]) /\ X[i] = log[y][i]
      <4>1. log[y][i] <= term'[x]
        BY <1>1, <2>3, <3>3, BeginsSelf DEF Logs
      <4> QED
        BY <3>3, <4>1
    <3> QED
      BY <3>1, <3>2, <3>3
  <2>5. ASSUME NEW X \in Logs' PROVE \A i \in 1 .. Len(X) : X[i] <= term'[x]
    BY <2>3, <2>4, NewLogs, NewLogsTyped
  <2>6. ASSUME NEW X \in Logs', NEW i \in 1 .. Len(X), X[i] = term'[x], i >= Len(F)
        PROVE  Begins(F, X)
    <3>1. X \in Seq(Nat)
      BY NewLogsTyped
    <3>2. i <= Len(F)
      BY <1>0, <2>6 DEF Raft, LeaderHolds
    <3>3. i = Len(F)
      BY <1>1, <2>6, <3>2
    <3>4. Match(F, X)
      <4>1. \A U, V \in Logs' : Match(U, V)
        BY <1>0 DEF Raft, Matching, Match
      <4>2. F \in Logs'
        BY DEF Logs
      <4> QED
        BY <4>1, <4>2
    <3>5. Len(F) <= Len(X) /\ X[Len(F)] = F[Len(F)]
      BY <1>3, <2>6, <3>1, <3>3
    <3>6. \A j \in 1 .. Len(F) : F[j] = X[j]
      BY <1>3, <3>4, <3>5 DEF Match
    <3> QED
      BY <3>5, <3>6 DEF Begins
  <2>7. ASSUME NEW X \in Logs', Reaches(X, F)'
        PROVE  Begins(F, X)
    <3>1. PICK i \in 1 .. Len(X) :
              X[i] > term'[x] \/ (X[i] = term'[x] /\ i >= Len(F))
      BY <1>3, <2>7 DEF Reaches, TermOf
    <3>2. X[i] <= term'[x] /\ X[i] \in Nat
      BY <2>5, NewLogsTyped
    <3>3. X[i] = term'[x] /\ i >= Len(F)
      BY <1>2, <3>1, <3>2
    <3> QED
      BY <2>6, <3>3
  <2> QED
    BY <1>1, <1>3, <2>1, <2>2, <2>7, BeginsSelf DEF Core, Begins, Reaches, TermOf
<1>7. Core(F, {x})' \/ Beyond(F, {x})'
  <2>1. CASE \E y \in Member : term'[y] > term'[x]
    BY <1>5, <2>1
  <2>2. CASE ~ \E y \in Member : term'[y] > term'[x]
    <3>1. \A y \in Member : term'[y] <= term'[x]
      BY <1>2, <2>2
    <3> QED
      BY <1>6, <3>1
  <2> QED
    BY <2>1, <2>2
<1> QED
  BY <1>1, <1>3, <1>4, <1>7 DEF Good, TermOf

-----------------------------------------------------------------------------
(* A leader's entries, and what it commits of them.                        *)

\* Whoever newly counts for an entry of a leader holds it in its term.
LEMMA CountedKept ==
    ASSUME ReadAssumption, Types, Types', Raft, Moves, Turn,
           NEW x \in Member, Lead(x)', Lead(x), term'[x] = term[x],
           NEW n \in 1 .. Len(log[x]), NEW p \in Member, p \in Counted(x, n)'
    PROVE  \/ p \in Counted(x, n)
           \/ term'[p] = term[x] /\ Begins(SubSeq(log[x], 1, n), log'[p])
<1>1. CASE p = x
  BY <1>1 DEF Counted
<1>2. CASE p # x
  <2>0. p \in Peers(x) /\ <<p, x>> \in Link /\ <<x, p>> \in Link
    BY <1>2, Links DEF Peers
  <2>1. \/ n <= match'[x][p]
        \/ \E a \in Answers(<<p, x>>)' : a.term = term'[x] /\ n <= a.match
    BY <1>2 DEF Counted
  <2>2. n \in Nat /\ ~(n <= 0)
    OBVIOUS
  <2>3. CASE n <= match'[x][p]
    <3>1. CreditMove(x, p)
      BY <2>0 DEF Moves
    <3>2. CASE match'[x][p] = match[x][p]
      BY <2>0, <2>3, <3>2 DEF Counted
    <3>3. ASSUME NEW a \in Answers(<<p, x>>), a.term = term[x], match'[x][p] = a.match
          PROVE  p \in Counted(x, n)
      BY <2>0, <2>3, <3>3 DEF Counted
    <3>4. match'[x][p] # 0
      BY <2>2, <2>3
    <3> QED
      BY <3>1, <3>2, <3>3, <3>4 DEF CreditMove
  <2>4. ASSUME NEW a \in Answers(<<p, x>>)', a.term = term'[x], n <= a.match
        PROVE  \/ p \in Counted(x, n)
               \/ term'[p] = term[x] /\ Begins(SubSeq(log[x], 1, n), log'[p])
    <3>1. CASE a \in Answers(<<p, x>>)
      BY <2>0, <2>4, <3>1 DEF Counted
    <3>2. CASE a \notin Answers(<<p, x>>)
      <4>1. FreshAnswer(<<p, x>>, a)
        BY <2>0, <3>2, AnswersMove
      <4>2. a.match # 0
        BY <2>2, <2>4
      <4>3. PICK g \in Sent(<<x, p>>) : /\ a.term = g.term /\ a.match = Len(g.log)
                                        /\ Begins(g.log, log'[p])
        BY <4>1, <4>2 DEF FreshAnswer
      <4>4. a.term = term'[p]
        BY <4>1 DEF FreshAnswer
      <4>5. Begins(g.log, log[x]) /\ g.log \in Seq(Nat)
        BY <2>0, <2>4, <4>3, SentTyped DEF Raft, OneLeader
      <4>6. log[x] \in Seq(Nat) /\ log'[p] \in Seq(Nat)
        BY DEF Types
      <4>7. /\ SubSeq(log[x], 1, n) \in Seq(Nat) /\ Len(SubSeq(log[x], 1, n)) = n
            /\ Begins(SubSeq(log[x], 1, n), log[x])
        BY <4>6, Cut
      <4>8. Begins(SubSeq(log[x], 1, n), g.log)
        BY <2>4, <4>3, <4>5, <4>6, <4>7, Beginnings
      <4> QED
        BY <2>4, <4>3, <4>4, <4>5, <4>6, <4>7, <4>8, BeginsOn
    <3> QED
      BY <3>1, <3>2
  <2> QED
    BY <2>1, <2>3, <2>4
<1> QED
  BY <1>1, <1>2

\* Nobody but the leader counts for its new entry.
LEMMA CountedAlone ==
    ASSUME ReadAssumption, Types, Types', Raft, Moves, Turn,
           NEW x \in Member, Lead(x)', log'[x] = Append(log[x], term'[x]),
           NEW n \in Nat, n = Len(log[x]) + 1
    PROVE  Counted(x, n)' \subseteq {x}
<1> SUFFICES ASSUME NEW p \in Peers(x),
                    \/ n <= match'[x][p]
                    \/ \E a \in Answers(<<p, x>>)' : a.term = term'[x] /\ n <= a.match
             PROVE  FALSE
  BY DEF Counted, Peers
<1>0. p \in Member /\ p # x /\ <<p, x>> \in Link /\ <<x, p>> \in Link
      /\ Len(log[x]) \in Nat /\ n # 0
  <2>1. log[x] \in Seq(Nat)
    BY DEF Types
  <2>2. Len(log[x]) \in Nat
    BY <2>1
  <2>3. n # 0
    BY <2>2
  <2> QED
    BY <2>2, <2>3, Links DEF Peers
<1>1. CASE Lead(x) /\ term'[x] = term[x]
  <2>1. match[x][p] <= Len(log[x]) /\ match[x][p] \in Nat
    BY <1>1 DEF Raft, CreditBounded, Types
  <2>2. \A a \in Answers(<<p, x>>) : a.term = term[x] => a.match <= Len(log[x])
                                     /\ a.match \in Nat
    BY <1>0, <1>1, AnswerTyped DEF Raft, CreditBounded
  <2>3. ~(n <= match'[x][p])
    BY <1>0, <2>1, <2>2 DEF Moves, CreditMove
  <2>4. ASSUME NEW a \in Answers(<<p, x>>)', a.term = term'[x], n <= a.match
        PROVE  FALSE
    <3>1. CASE a \in Answers(<<p, x>>)
      BY <1>0, <1>1, <2>2, <2>4, <3>1
    <3>2. CASE a \notin Answers(<<p, x>>)
      <4>1. FreshAnswer(<<p, x>>, a)
        BY <1>0, <3>2, AnswersMove
      <4>2. a.match # 0
        BY <1>0, <2>4
      <4>3. PICK g \in Sent(<<x, p>>) : a.term = g.term /\ a.match = Len(g.log)
        BY <4>1, <4>2 DEF FreshAnswer
      <4>4. Begins(g.log, log[x]) /\ g.log \in Seq(Nat)
        BY <1>0, <1>1, <2>4, <4>3, SentTyped DEF Raft, OneLeader
      <4>5. Len(g.log) <= Len(log[x]) /\ Len(g.log) \in Nat
        BY <4>4 DEF Begins
      <4> QED
        BY <1>0, <2>4, <4>3, <4>5
    <3> QED
      BY <3>1, <3>2
  <2> QED
    BY <2>3, <2>4
<1>2. ASSUME NEW q \in Quorums, NEW t \in Nat, ElectedBy(x, q, t)
      PROVE  FALSE
  <2>1. match'[x][p] = 0 /\ term'[x] = t
    BY <1>2 DEF ElectedBy
  <2>2. \A a \in Answers(<<p, x>>)' : a.term < t /\ a \in Answers(<<p, x>>)
    BY <1>0, <1>2, NoAnswers
  <2>3. \A a \in Answers(<<p, x>>)' : a.term # term'[x]
    BY <1>0, <2>1, <2>2, AnswerTyped
  <2> QED
    BY <1>0, <2>1, <2>3
<1> QED
  BY <1>1, <1>2, Continues

LEMMA CutWhole ==
    ASSUME NEW s \in Seq(Nat)
    PROVE  SubSeq(s, 1, Len(s)) = s
OBVIOUS

LEMMA CutOfMore ==
    ASSUME NEW s \in Seq(Nat), NEW u \in Seq(Nat), Begins(s, u), NEW n \in 1 .. Len(s)
    PROVE  SubSeq(u, 1, n) = SubSeq(s, 1, n)
<1>1. n \in 0 .. Len(s) /\ n \in 0 .. Len(u)
  BY DEF Begins
<1>2. \A i \in 1 .. n : i \in 1 .. Len(s)
  OBVIOUS
<1>3. \A i \in 1 .. n : u[i] = s[i]
  BY <1>2, BeginsAt
<1>4. /\ SubSeq(u, 1, n) \in Seq(Nat) /\ Len(SubSeq(u, 1, n)) = n
      /\ SubSeq(s, 1, n) \in Seq(Nat) /\ Len(SubSeq(s, 1, n)) = n
      /\ \A i \in 1 .. n : SubSeq(u, 1, n)[i] = SubSeq(s, 1, n)[i]
  BY <1>1, <1>3, Cut
<1> QED
  BY <1>4

LEMMA LeadersGoodKept ==
    ASSUME ReadAssumption, Types, Types', Raft, LeadersGood, Moves, Turn
    PROVE  LeadersGood'
<1> SUFFICES ASSUME NEW x \in Member, Lead(x)', NEW n \in 1 .. Len(log'[x]),
                    log'[x][n] = term'[x]
             PROVE  \E A : Counted(x, n)' \subseteq A /\ Good(SubSeq(log[x], 1, n), A)'
  BY DEF LeadersGood
<1>0. /\ log[x] \in Seq(Nat) /\ log'[x] \in Seq(Nat) /\ term'[x] \in Nat
      /\ n \in Nat /\ n # 0
  <2>1. log[x] \in Seq(Nat) /\ log'[x] \in Seq(Nat) /\ term'[x] \in Nat
    BY DEF Types
  <2>2. n \in Nat /\ n # 0
    OBVIOUS
  <2> QED
    BY <2>1, <2>2
<1>1. log'[x] = log[x] \/ log'[x] = Append(log[x], term'[x])
  BY LeaderLog
<1>2. CASE log'[x] = Append(log[x], term'[x]) /\ n = Len(log[x]) + 1
  <2>1. PICK F : F = log'[x]
    OBVIOUS
  <2>2. Good(F, {x})' /\ F \in Seq(Nat)
    BY <1>0, <1>2, <2>1, GoodAlone
  <2>3. Counted(x, n)' \subseteq {x}
    BY <1>0, <1>2, CountedAlone
  <2>4. n = Len(F)
    BY <1>0, <1>2, <2>1, Extended
  <2>5. SubSeq(log'[x], 1, n) = F
    BY <2>1, <2>2, <2>4, CutWhole
  <2> QED
    BY <2>2, <2>3, <2>5
<1>3. CASE n \in 1 .. Len(log[x])
  <2>1. Begins(log[x], log'[x])
    BY LeaderLog
  <2>2. log[x][n] = term'[x]
    BY <1>0, <1>3, <2>1, BeginsAt
  <2>3. Lead(x) /\ term'[x] = term[x]
    <3>1. log[x] \in Logs
      BY DEF Logs
    <3> QED
      BY <1>3, <2>2, <3>1, NoEntryBeyond
  <2>4. PICK F : F = SubSeq(log[x], 1, n)
    OBVIOUS
  <2>5. SubSeq(log'[x], 1, n) = F
    BY <1>0, <1>3, <2>1, <2>4, CutOfMore
  <2>6. PICK A : Counted(x, n) \subseteq A /\ Good(F, A)
    BY <1>3, <2>2, <2>3, <2>4 DEF LeadersGood
  <2>7. Good(F, A)'
    BY <2>6, GoodKept
  <2>8. TermOf(F) = term[x]
    BY <1>0, <1>3, <2>2, <2>3, <2>4, Cut DEF TermOf
  <2>9. PICK B \in SUBSET Member :
            \A p \in Member : p \in B <=> term'[p] = TermOf(F) /\ Begins(F, log'[p])
    <3>1. {p \in Member : term'[p] = TermOf(F) /\ Begins(F, log'[p])} \in SUBSET Member
      OBVIOUS
    <3> QED
      BY <3>1
  <2>10. Good(F, A \cup B)'
    BY <2>7, <2>9, GoodGrows
  <2>11. ASSUME NEW p \in Member, p \in Counted(x, n)' PROVE p \in A \cup B
    BY <1>3, <2>3, <2>4, <2>6, <2>8, <2>9, <2>11, CountedKept
  <2>12. Counted(x, n)' \subseteq A \cup B
    BY <2>11 DEF Counted, Peers
  <2> QED
    BY <2>5, <2>10, <2>12
<1>4. \/ log'[x] = Append(log[x], term'[x]) /\ n = Len(log[x]) + 1
      \/ n \in 1 .. Len(log[x])
  BY <1>0, <1>1, Where
<1> QED
  BY <1>2, <1>3, <1>4

\* What is committed for good stays so.
LEMMA FirmKept ==
    ASSUME ReadAssumption, Types, Types', Raft, Moves, Turn, NEW n, Firm(n)
    PROVE  Firm(n)'
<1>1. PICK F, A : Len(F) = n /\ A \in Quorums /\ Good(F, A) /\ Told(F)
  BY DEF Firm
<1>2. Good(F, A)' /\ F \in Heads /\ TermOf(F) \in Nat /\ F \in Seq(Nat)
  BY <1>1, GoodKept, HeadTyped DEF Good
<1>3. ASSUME NEW x \in Member, Lead(x)', term'[x] = TermOf(F)
      PROVE  commit'[x] >= Len(F)
  <2>0. commit[x] \in Nat /\ commit'[x] \in Nat /\ Len(F) \in Nat
    BY <1>2 DEF Types
  <2>1. CASE Calm
    <3>1. Lead(x) /\ term'[x] = term[x] /\ commit'[x] >= commit[x]
      BY <1>3, <2>1 DEF Calm
    <3>2. commit[x] >= Len(F)
      BY <1>1, <1>3, <3>1 DEF Told
    <3> QED
      BY <2>0, <3>1, <3>2
  <2>2. ASSUME NEW m \in Member, NEW q \in Quorums, NEW t \in Nat, ElectedBy(m, q, t)
        PROVE  commit'[x] >= Len(F)
    <3>1. PICK a \in Member : term[a] >= TermOf(F)
      BY <1>1 DEF Good
    <3>2. term[a] < t /\ term[a] \in Nat
      BY <2>2, ElectedAbove DEF Raft, Types
    <3>3. x # m
      BY <1>2, <1>3, <2>2, <3>1, <3>2 DEF ElectedBy
    <3>4. Lead(x) /\ term'[x] = term[x] /\ commit' = commit
      BY <1>3, <2>2, <3>3 DEF ElectedBy
    <3> QED
      BY <1>1, <1>3, <3>4 DEF Told
  <2> QED
    BY <2>1, <2>2 DEF Turn
<1>4. Told(F)'
  BY <1>3 DEF Told, TermOf
<1> QED
  BY <1>1, <1>2, <1>4 DEF Firm, Quorums, Quorum

-----------------------------------------------------------------------------
(* Commit indices.                                                         *)

\* The leader x has a quorum for its entry n, and commits it.
Gathers(x, n) ==
    /\ Lead(x)' /\ n \in 1 .. Len(log'[x]) /\ log'[x][n] = term'[x] /\ commit'[x] = n
    /\ \E Q \in Quorums : Q \subseteq Counted(x, n)'

\* p keeps its commit index, commits as a leader, learns what the sender of an
\* append has committed, or takes the snapshot of its leader.
CommitMove(p) ==
    \/ commit'[p] = commit[p]
    \/ \E n \in Nat : Gathers(p, n)
    \/ \E x \in Peers(p) : \E g \in Sent(<<x, p>>) :
          /\ g.term = term'[p] /\ Begins(g.log, log'[p])
          /\ commit'[p] <= g.commit /\ commit'[p] <= Len(g.log)
    \/ \E x \in Member : \E k \in 0 .. commit[x] :
          /\ term[x] = term[p] /\ term'[p] = term[p]
          /\ log'[p] = SubSeq(log[x], 1, k) /\ commit'[p] = k

Commits ==
    /\ \A p \in Member : CommitMove(p) /\ applied'[p] <= commit'[p]
    /\ \/ committed' = committed
       \/ \E x \in Member : \E n \in Nat : committed' = n /\ Gathers(x, n)

\* A quorum's acknowledgements are not undone.
LEMMA QuorumIsCore ==
    ASSUME NEW F, NEW A \in Quorums, Good(F, A)
    PROVE  Core(F, A)
<1>1. ~Beyond(F, A)
  BY DEF Beyond
<1> QED
  BY <1>1 DEF Good

\* Agreement with F up to an index is kept as F itself is.
LEMMA AgreementKept ==
    ASSUME Types, Types', Raft, Moves, NEW F \in Heads, NEW A \in SUBSET Member,
           Core(F, A), NEW p \in Member, TermOf(F) <= term[p],
           NEW c \in Nat, c <= Len(F), c <= Len(log[p]),
           \A i \in 1 .. c : log[p][i] = F[i]
    PROVE  c <= Len(log'[p]) /\ \A i \in 1 .. c : log'[p][i] = F[i]
<1>0. /\ F \in Seq(Nat) /\ log[p] \in Seq(Nat) /\ log'[p] \in Seq(Nat)
  BY HeadTyped DEF Types
<1>1. TermOf(F) \in Nat /\ term[p] \in Nat /\ term'[p] \in Nat /\ term'[p] >= TermOf(F)
  <2>1. TermOf(F) \in Nat /\ term[p] \in Nat /\ term'[p] \in Nat /\ term'[p] >= term[p]
    BY HeadTyped DEF Types, Moves
  <2> QED
    BY <2>1
<1>2. ASSUME NEW Y \in Seq(Nat), Begins(F, Y)
      PROVE  c <= Len(Y) /\ \A i \in 1 .. c : Y[i] = F[i]
  <2>1. Len(F) <= Len(Y) /\ Len(F) \in Nat /\ Len(Y) \in Nat
    BY <1>0, <1>2, BeginsAt
  <2>2. \A i \in 1 .. c : i \in 1 .. Len(F)
    BY <2>1
  <2>3. \A i \in 1 .. Len(F) : F[i] = Y[i]
    BY <1>0, <1>2, BeginsAt
  <2>4. c <= Len(Y)
    BY <2>1
  <2> QED
    BY <2>2, <2>3, <2>4
<1>3. ASSUME NEW X \in Seq(Nat), NEW Y \in Seq(Nat), Begins(X, Y),
             \A i \in 1 .. c : i \in 1 .. Len(Y) => Y[i] = F[i], ~Begins(X, log[p])
      PROVE  c <= Len(X) /\ \A i \in 1 .. c : X[i] = F[i]
  <2>1. /\ Len(X) <= Len(Y) /\ Len(X) \in Nat /\ Len(Y) \in Nat /\ Len(log[p]) \in Nat
        /\ \A i \in 1 .. Len(X) : X[i] = Y[i] /\ i \in 1 .. Len(Y)
    BY <1>0, <1>3, BeginsAt
  <2>2. CASE c <= Len(X)
    <3>1. \A i \in 1 .. c : i \in 1 .. Len(X)
      BY <2>1, <2>2
    <3> QED
      BY <1>3, <2>1, <2>2, <3>1
  <2>3. CASE Len(X) < c
    <3>1. Len(X) <= Len(log[p]) /\ \A i \in 1 .. Len(X) : i \in 1 .. c
      BY <2>1, <2>3
    <3>2. \A i \in 1 .. Len(X) : X[i] = log[p][i]
      BY <1>3, <2>1, <3>1
    <3> QED
      BY <1>3, <3>1, <3>2 DEF Begins
  <2> QED
    BY <2>1, <2>2, <2>3
<1>4. CASE log'[p] = log[p]
  BY <1>4
<1>5. CASE log'[p] = Append(log[p], term'[p])
  <2>1. Begins(log[p], log'[p])
    BY <1>0, <1>1, <1>5, Extended
  <2>2. Len(log[p]) <= Len(log'[p]) /\ Len(log[p]) \in Nat /\ Len(log'[p]) \in Nat
        /\ \A i \in 1 .. Len(log[p]) : log[p][i] = log'[p][i]
    BY <1>0, <2>1, BeginsAt
  <2>3. \A i \in 1 .. c : i \in 1 .. Len(log[p])
    BY <2>2
  <2> QED
    BY <2>2, <2>3
<1>6. ASSUME NEW x \in Peers(p), NEW g \in Sent(<<x, p>>),
             g.term = term'[p], log'[p] = g.log, ~Begins(g.log, log[p])
      PROVE  c <= Len(log'[p]) /\ \A i \in 1 .. c : log'[p][i] = F[i]
  <2>1. <<x, p>> \in Link
    BY Links DEF Peers
  <2>2. Begins(F, g.log) \/ Begins(g.log, F)
    BY <1>1, <1>6, <2>1 DEF Core
  <2>3. CASE Begins(F, g.log)
    BY <1>0, <1>2, <1>6, <2>3
  <2>4. CASE Begins(g.log, F)
    BY <1>0, <1>3, <1>6, <2>4
  <2> QED
    BY <2>2, <2>3, <2>4
<1>7. ASSUME NEW x \in Member, NEW k \in 0 .. Len(log[x]),
             Lead(x), term[x] = term[p], log'[p] = SubSeq(log[x], 1, k),
             ~Begins(log'[p], log[p])
      PROVE  c <= Len(log'[p]) /\ \A i \in 1 .. c : log'[p][i] = F[i]
  <2>1. Begins(F, log[x]) /\ log[x] \in Seq(Nat)
    BY <1>7 DEF Core, Types
  <2>2. Begins(log'[p], log[x])
    BY <1>7, <2>1, Cut
  <2>3. \A i \in 1 .. c : log[x][i] = F[i]
    BY <1>2, <2>1
  <2> QED
    BY <1>0, <1>3, <1>7, <2>1, <2>2, <2>3
<1> QED
  BY <1>4, <1>5, <1>6, <1>7 DEF Moves, LogMove

\* What has been vouched for stays so, and for later terms.
LEMMA VouchedKept ==
    ASSUME ReadAssumption, Types, Types', Raft, Moves, Turn, NEW X, NEW c,
           NEW t \in Nat, NEW u \in Nat, t <= u, Vouched(X, c, t)
    PROVE  Vouched(X, c, u)'
<1>1. PICK F, A : /\ A \in Quorums /\ Good(F, A) /\ TermOf(F) <= t
                  /\ c <= Len(F) /\ c <= Len(X) /\ \A i \in 1 .. c : X[i] = F[i]
  BY DEF Vouched
<1>2. Good(F, A)'
  BY <1>1, GoodKept
<1>3. TermOf(F) \in Nat
  BY <1>1, HeadTyped DEF Good
<1>4. TermOf(F) <= u
  BY <1>1, <1>3
<1> QED
  BY <1>1, <1>2, <1>4 DEF Vouched, Quorums, Quorum, TermOf

\* A member whose commit index stays keeps what it covers.
LEMMA VouchedStays ==
    ASSUME ReadAssumption, Types, Types', Raft, CommitsHeld, Moves, Turn,
           NEW p \in Member, NEW X, NEW c, NEW t, X = log'[p], c = commit[p], t = term'[p]
    PROVE  Vouched(X, c, t)'
<1>0. c \in Nat /\ t \in Nat /\ term[p] \in Nat /\ term[p] <= t
  BY DEF Types, Moves
<1>1. PICK F, A : /\ A \in Quorums /\ Good(F, A) /\ TermOf(F) <= term[p]
                  /\ c <= Len(F) /\ c <= Len(log[p])
                  /\ \A i \in 1 .. c : log[p][i] = F[i]
  BY DEF CommitsHeld, Vouched
<1>2. Core(F, A) /\ F \in Heads /\ A \in SUBSET Member /\ TermOf(F) \in Nat
  BY <1>1, QuorumIsCore, HeadTyped DEF Good
<1>3. c <= Len(X) /\ \A i \in 1 .. c : X[i] = F[i]
  BY <1>0, <1>1, <1>2, AgreementKept
<1>4. Good(F, A)'
  BY <1>1, GoodKept
<1>5. TermOf(F) <= t
  BY <1>0, <1>1, <1>2
<1> QED
  BY <1>1, <1>3, <1>4, <1>5 DEF Vouched, Quorums, Quorum, TermOf

\* What a leader commits is vouched for, and told.
LEMMA GathersFirm ==
    ASSUME ReadAssumption, Types', Raft', LeadersGood',
           NEW x \in Member, NEW n \in Nat, Gathers(x, n),
           NEW F, F = SubSeq(log'[x], 1, n)
    PROVE  /\ \E A : A \in Quorums /\ Good(F, A)'
           /\ TermOf(F) = term'[x] /\ Len(F) = n /\ F \in Seq(Nat) /\ n <= Len(log'[x])
           /\ \A i \in 1 .. n : log'[x][i] = F[i]
           /\ Told(F)'
<1>0. /\ log'[x] \in Seq(Nat) /\ term'[x] \in Nat /\ commit'[x] = n
      /\ n \in 1 .. Len(log'[x]) /\ Lead(x)' /\ log'[x][n] = term'[x]
  BY DEF Gathers, Types
<1>1. n \in 0 .. Len(log'[x]) /\ n \in 1 .. n /\ n <= Len(log'[x])
  BY <1>0
<1>2. /\ F \in Seq(Nat) /\ Len(F) = n
      /\ \A i \in 1 .. n : F[i] = log'[x][i]
  BY <1>0, <1>1, Cut
<1>3. TermOf(F) = term'[x]
  BY <1>0, <1>1, <1>2 DEF TermOf
<1>4. PICK A : Counted(x, n)' \subseteq A /\ Good(F, A)'
  BY <1>0 DEF LeadersGood
<1>5. PICK Q \in Quorums : Q \subseteq Counted(x, n)'
  BY DEF Gathers
<1>6. A \in Quorums
  <2>1. A \in SUBSET Member /\ Q \subseteq A
    BY <1>4, <1>5 DEF Good
  <2> QED
    BY <2>1, QuorumGrows DEF Quorums
<1>7. ASSUME NEW y \in Member, Lead(y)', term'[y] = term'[x]
      PROVE  commit'[y] >= n
  <2>1. y = x
    BY <1>0, <1>7 DEF Raft, OneLeader
  <2> QED
    BY <1>0, <2>1
<1>8. Told(F)'
  BY <1>2, <1>3, <1>7 DEF Told, TermOf
<1> QED
  BY <1>1, <1>2, <1>3, <1>4, <1>6, <1>8

LEMMA FirmCommitted ==
    ASSUME ReadAssumption, Types, Types', Raft, Raft', LeadersGood', Moves, Turn,
           Commits, Firm(committed)
    PROVE  Firm(committed)'
<1>1. CASE committed' = committed
  <2>1. PICK n : n = committed
    OBVIOUS
  <2>2. Firm(n)'
    BY <2>1, FirmKept
  <2> QED
    BY <1>1, <2>1, <2>2
<1>2. ASSUME NEW x \in Member, NEW n \in Nat, committed' = n, Gathers(x, n)
      PROVE  Firm(committed)'
  <2>1. PICK F : F = SubSeq(log'[x], 1, n)
    OBVIOUS
  <2>2. (\E A : A \in Quorums /\ Good(F, A)') /\ Told(F)' /\ Len(F) = n
    BY <1>2, <2>1, GathersFirm
  <2> QED
    BY <1>2, <2>2 DEF Firm, Quorums, Quorum
<1> QED
  BY <1>1, <1>2 DEF Commits

LEMMA CommitsHeldKept ==
    ASSUME ReadAssumption, Types, Types', Raft, Raft', LeadersGood', CommitsHeld,
           Moves, Turn, Commits
    PROVE  CommitsHeld'
<1>0. \A p \in Member : /\ term[p] \in Nat /\ term'[p] \in Nat /\ term'[p] >= term[p]
                        /\ commit[p] \in Nat /\ commit'[p] \in Nat
  BY DEF Types, Moves
<1>1. ASSUME NEW p \in Member PROVE Vouched(log[p], commit[p], term[p])'
  <2>0. PICK X, c, t : X = log'[p] /\ c = commit'[p] /\ t = term'[p]
    OBVIOUS
  <2>1. SUFFICES Vouched(X, c, t)'
    BY <2>0
  <2>2. X \in Seq(Nat) /\ c \in Nat /\ t \in Nat /\ \A v \in Member : log[v] \in Seq(Nat)
    BY <2>0 DEF Types
  <2>3. CASE commit'[p] = commit[p]
    BY <2>0, <2>3, VouchedStays
  <2>4. ASSUME NEW n \in Nat, Gathers(p, n)
        PROVE  Vouched(X, c, t)'
    <3>1. PICK F : F = SubSeq(log'[p], 1, n)
      OBVIOUS
    <3>2. PICK A : A \in Quorums /\ Good(F, A)'
      BY <2>4, <3>1, GathersFirm
    <3>3. TermOf(F) = term'[p] /\ Len(F) = n /\ n <= Len(log'[p])
      BY <2>4, <3>1, GathersFirm
    <3>4. \A i \in 1 .. n : log'[p][i] = F[i]
      BY <2>4, <3>1, GathersFirm
    <3>5. commit'[p] = n
      BY <2>4 DEF Gathers
    <3>6. TermOf(F) <= t /\ c <= Len(F) /\ c <= Len(X)
      BY <2>0, <2>2, <3>5, <3>3
    <3> QED
      BY <2>0, <3>2, <3>5, <3>6, <3>4 DEF Vouched, Quorums, Quorum, TermOf
  <2>5. ASSUME NEW x \in Peers(p), NEW g \in Sent(<<x, p>>),
               g.term = term'[p], Begins(g.log, log'[p]),
               commit'[p] <= g.commit, commit'[p] <= Len(g.log)
        PROVE  Vouched(X, c, t)'
    <3>1. <<x, p>> \in Link
      BY Links DEF Peers
    <3>2. g.commit \in Nat /\ g.log \in Seq(Nat)
      BY <3>1, SentTyped
    <3>3. PICK F, A : /\ A \in Quorums /\ Good(F, A) /\ TermOf(F) <= g.term
                      /\ g.commit <= Len(F) /\ g.commit <= Len(g.log)
                      /\ \A i \in 1 .. g.commit : g.log[i] = F[i]
      BY <3>1 DEF CommitsHeld, Vouched
    <3>4. Good(F, A)' /\ F \in Seq(Nat)
      BY <3>3, GoodKept, HeadTyped DEF Good
    <3>5. /\ Len(g.log) <= Len(X)
          /\ \A i \in 1 .. Len(g.log) : g.log[i] = X[i]
      BY <2>0, <2>2, <2>5, <3>2, BeginsAt
    <3>6. c <= Len(F) /\ c <= Len(X)
      <4>1. c <= g.commit /\ g.commit <= Len(F) /\ Len(F) \in Nat
            /\ Len(g.log) \in Nat /\ Len(X) \in Nat /\ c <= Len(g.log)
        BY <2>0, <2>2, <2>5, <3>2, <3>3, <3>4
      <4> QED
        BY <2>2, <3>2, <3>5, <4>1
    <3>7. \A i \in 1 .. c : i \in 1 .. g.commit /\ i \in 1 .. Len(g.log)
      <4>1. c <= g.commit /\ c <= Len(g.log) /\ Len(g.log) \in Nat
        BY <2>0, <2>5, <3>2
      <4> QED
        BY <2>2, <3>2, <4>1
    <3>8. \A i \in 1 .. c : X[i] = F[i]
      BY <3>3, <3>5, <3>7
    <3> QED
      BY <2>0, <2>5, <3>3, <3>4, <3>6, <3>8 DEF Vouched, Quorums, Quorum, TermOf
  <2>6. ASSUME NEW x \in Member, NEW k \in 0 .. commit[x],
               term[x] = term[p], term'[p] = term[p],
               log'[p] = SubSeq(log[x], 1, k), commit'[p] = k
        PROVE  Vouched(X, c, t)'
    <3>1. PICK F, A : /\ A \in Quorums /\ Good(F, A) /\ TermOf(F) <= term[x]
                      /\ commit[x] <= Len(F) /\ commit[x] <= Len(log[x])
                      /\ \A i \in 1 .. commit[x] : log[x][i] = F[i]
      BY DEF CommitsHeld, Vouched
    <3>2. Good(F, A)' /\ F \in Seq(Nat)
      BY <3>1, GoodKept, HeadTyped DEF Good
    <3>3. k \in 0 .. Len(log[x]) /\ commit[x] \in Nat
      <4>1. commit[x] \in Nat /\ Len(log[x]) \in Nat
        BY <1>0, <2>2
      <4> QED
        BY <3>1, <4>1
    <3>4. Len(X) = k /\ \A i \in 1 .. k : X[i] = log[x][i]
      BY <2>0, <2>2, <2>6, <3>3, Cut
    <3>5. k <= Len(F) /\ k <= Len(X)
      <4>1. Len(F) \in Nat
        BY <3>2
      <4> QED
        BY <3>1, <3>3, <3>4, <4>1
    <3>6. \A i \in 1 .. k : i \in 1 .. commit[x]
      BY <3>3
    <3>7. \A i \in 1 .. k : X[i] = F[i]
      BY <3>1, <3>4, <3>6
    <3> QED
      BY <2>0, <2>6, <3>1, <3>2, <3>5, <3>7 DEF Vouched, Quorums, Quorum, TermOf
  <2> QED
    BY <2>3, <2>4, <2>5, <2>6 DEF Commits, CommitMove
<1>2. ASSUME NEW l \in Link, NEW g \in Sent(l)'
      PROVE  Vouched(g.log, g.commit, g.term)'
  <2>1. CASE g \in Sent(l)
    <3>1. PICK X, c, t : X = g.log /\ c = g.commit /\ t = g.term
      OBVIOUS
    <3>2. t \in Nat /\ t <= t /\ Vouched(X, c, t)
      BY <2>1, <3>1, SentTyped DEF CommitsHeld
    <3>3. Vouched(X, c, t)'
      BY <3>2, VouchedKept
    <3> QED
      BY <3>1, <3>3
  <2>2. CASE g \notin Sent(l)
    <3>1. FreshAppend(l, g) /\ l[1] \in Member
      BY <2>2, SentMoves, Links
    <3>2. g.log = log'[l[1]] /\ g.commit = commit'[l[1]] /\ g.term = term'[l[1]]
      BY <3>1 DEF FreshAppend
    <3>3. PICK p \in Member : p = l[1]
      BY <3>1
    <3>4. Vouched(log[p], commit[p], term[p])'
      BY <1>1
    <3> QED
      BY <3>2, <3>3, <3>4
  <2> QED
    BY <2>1, <2>2
<1>3. \A p \in Member : applied'[p] <= commit'[p]
  BY DEF Commits
<1> QED
  BY <1>1, <1>2, <1>3 DEF CommitsHeld

-----------------------------------------------------------------------------
(* Reads.                                                                  *)

LEMMA HeardBehindKept ==
    ASSUME Types, Types', FlightBehind, HeardBehind, Moves
    PROVE  HeardBehind'
<1> SUFFICES ASSUME NEW x \in Member, NEW p \in Peers(x)
             PROVE  heard'[x][p] <= sequence'[x]
  BY DEF HeardBehind
<1>0. /\ sequence[x] \in Nat /\ sequence'[x] \in Nat /\ sequence[x] <= sequence'[x]
      /\ heard[x][p] \in Nat /\ <<p, x>> \in Link
  <2>1. p \in Member /\ <<p, x>> \in Link
    BY Links DEF Peers
  <2>2. heard[x][p] \in Nat
    BY DEF Types
  <2> QED
    BY <2>1, <2>2 DEF Types, Moves
<1>1. HeardMove(x, p)
  BY DEF Moves
<1>2. ASSUME NEW a \in Answers(<<p, x>>) PROVE a.id <= sequence[x] /\ a.id \in Nat
  BY <1>0, AnswerTyped DEF FlightBehind
<1> QED
  BY <1>0, <1>1, <1>2 DEF HeardMove, HeardBehind

\* An armed read stays as it is while its leader leads.
LEMMA DeposedKept ==
    ASSUME ReadAssumption, Types, Types', Moves, NEW R \in Barriers, Deposed(R),
           R.server \in Member, term'[R.server] = term[R.server]
    PROVE  Deposed(R)'
<1>0. R.after \in Nat /\ \A p \in Member : term[p] \in Nat /\ term'[p] \in Nat
                                          /\ term'[p] >= term[p]
  BY DEF Barriers, Types, Moves
<1>1. PICK Q \in Quorums : \A p \in Q :
          /\ p # R.server /\ term[p] > term[R.server]
          /\ heard[R.server][p] <= R.after
          /\ \A a \in Answers(<<p, R.server>>) :
                a.term = term[R.server] => a.id <= R.after
  BY DEF Deposed
<1>2. ASSUME NEW p \in Q
      PROVE  /\ p # R.server /\ term'[p] > term'[R.server]
             /\ heard'[R.server][p] <= R.after
             /\ \A a \in Answers(<<p, R.server>>)' :
                   a.term = term'[R.server] => a.id <= R.after
  <2>1. p \in Member /\ p \in Peers(R.server) /\ <<p, R.server>> \in Link
    BY <1>1, Links DEF Quorums, Peers
  <2>2. term'[p] > term'[R.server]
    BY <1>0, <1>1, <2>1
  <2>3. heard'[R.server][p] <= R.after
    <3>1. HeardMove(R.server, p)
      BY <2>1 DEF Moves
    <3> QED
      BY <1>0, <1>1, <2>1, <3>1 DEF HeardMove
  <2>4. ASSUME NEW a \in Answers(<<p, R.server>>)', a.term = term'[R.server]
        PROVE  a.id <= R.after
    <3>1. CASE a \in Answers(<<p, R.server>>)
      BY <1>1, <2>4, <3>1
    <3>2. CASE a \notin Answers(<<p, R.server>>)
      <4>1. a.term = term'[p]
        BY <2>1, <3>2, AnswersMove DEF FreshAnswer
      <4> QED
        BY <1>0, <2>1, <2>2, <2>4, <4>1
    <3> QED
      BY <3>1, <3>2
  <2> QED
    BY <1>1, <2>2, <2>3, <2>4
<1> QED
  BY <1>2 DEF Deposed, Quorums, Quorum

LEMMA ReadKept ==
    ASSUME ReadAssumption, Types, Types', Raft, Moves, Turn, NEW R \in Barriers,
           ReadOK(R),
           R.phase = "held" => Lead(R.server)' /\ term'[R.server] = term[R.server]
    PROVE  ReadOK(R)'
<1>1. Firm(R.must) => Firm(R.must)'
  <2>1. PICK n : n = R.must
    OBVIOUS
  <2>2. Firm(n) => Firm(n)'
    BY FirmKept
  <2> QED
    BY <2>1, <2>2
<1>2. Covers(R) => Covers(R)'
  BY DEF Covers
<1>3. ASSUME R.phase = "held", Deposed(R) PROVE Deposed(R)'
  BY <1>3, DeposedKept DEF ReadOK
<1> QED
  BY <1>1, <1>2, <1>3 DEF ReadOK

\* The entries of a leader's term are above what was committed before it.
LEMMA Above ==
    ASSUME Types, Raft, NEW F \in Heads, NEW l \in Member, Begins(F, log[l]),
           TermOf(F) < term[l], NEW c \in 1 .. Len(log[l]), log[l][c] = term[l]
    PROVE  c >= Len(F)
<1>0. F \in Seq(Nat) /\ log[l] \in Seq(Nat) /\ Len(F) \in 1 .. Len(F)
      /\ TermOf(F) \in Nat /\ term[l] \in Nat
  BY HeadTyped DEF Types
<1>1. Len(F) \in 1 .. Len(log[l]) /\ log[l][Len(F)] = TermOf(F)
  BY <1>0, BeginsAt DEF TermOf
<1>2. SUFFICES ASSUME c < Len(F) PROVE FALSE
  BY <1>0
<1>3. c <= Len(F)
  BY <1>0, <1>2
<1>4. log[l][c] <= log[l][Len(F)]
  BY <1>1, <1>3 DEF Raft, LogsRise, Rising
<1> QED
  BY <1>0, <1>1, <1>4

\* Arming a read (_arm_reads).
LEMMA ReadArmed ==
    ASSUME ReadAssumption, Types, Raft, HeardBehind, NEW R \in Barriers, ReadOK(R),
           R.phase = "held", NEW l \in Member, R.server = l,
           NEW c \in 1 .. Len(log[l]), commit[l] <= c, log[l][c] = term[l],
           NEW S \in Barriers, S = [R EXCEPT !.index = c, !.after = sequence[l]]
    PROVE  ReadOK(S)
<1>0. /\ S.phase = "held" /\ S.at = R.at /\ S.path = R.path /\ S.must = R.must
      /\ S.store = R.store /\ S.server = l /\ S.index = c /\ S.after = sequence[l]
      /\ S.got = R.got
  BY DEF Barriers
<1>1. Firm(R.must) /\ Lead(l) /\ R.got = -1
  BY DEF ReadOK
<1>2. PICK F, A : Len(F) = R.must /\ A \in Quorums /\ Good(F, A) /\ Told(F)
  BY <1>1 DEF Firm
<1>3. /\ F \in Heads /\ TermOf(F) \in Nat /\ Len(F) \in Nat /\ A \in SUBSET Member
      /\ Core(F, A)
  BY <1>2, QuorumIsCore, HeadTyped DEF Good
<1>4. c \in Nat /\ commit[l] \in Nat /\ \A p \in Member : term[p] \in Nat
  BY DEF Types
<1>5. ASSUME TermOf(F) < term[l] PROVE Covers(S)
  <2>1. Begins(F, log[l])
    BY <1>1, <1>3, <1>4, <1>5 DEF Core
  <2>2. c >= Len(F)
    BY <1>3, <1>5, <2>1, Above
  <2> QED
    BY <1>0, <1>2, <1>4, <2>2 DEF Covers
<1>6. ASSUME TermOf(F) = term[l] PROVE Covers(S)
  <2>1. commit[l] >= Len(F)
    BY <1>1, <1>2, <1>6 DEF Told
  <2> QED
    BY <1>0, <1>2, <1>3, <1>4, <2>1 DEF Covers
<1>7. ASSUME TermOf(F) > term[l] PROVE Deposed(S)
  <2>1. ASSUME NEW p \in A
        PROVE  /\ p # l /\ term[p] > term[l]
               /\ heard[l][p] <= sequence[l]
               /\ \A a \in Answers(<<p, l>>) : a.id <= sequence[l]
    <3>1. p \in Member /\ term[p] >= TermOf(F)
      BY <1>2, <1>3 DEF Good
    <3>2. term[p] > term[l] /\ p # l
      BY <1>3, <1>4, <1>7, <3>1
    <3>3. p \in Peers(l) /\ <<p, l>> \in Link
      BY <3>1, <3>2, Links DEF Peers
    <3> QED
      BY <3>2, <3>3 DEF HeardBehind, Raft, FlightBehind
  <2> QED
    BY <1>0, <1>2, <2>1 DEF Deposed
<1>8. Covers(S) \/ Deposed(S)
  BY <1>3, <1>4, <1>5, <1>6, <1>7
<1> QED
  BY <1>0, <1>1, <1>8 DEF ReadOK

\* Whoever confirms a read is not of a quorum that has deposed its leader
\* (_confirm_reads).
LEMMA ReadConfirmed ==
    ASSUME ReadAssumption, Types, NEW R \in Barriers, ReadOK(R), R.phase = "held",
           NEW l \in Member, R.server = l, R.index # None,
           NEW h \in [Peers(l) -> Nat],
           \A p \in Peers(l) :
              \/ h[p] = heard[l][p]
              \/ \E a \in Answers(<<p, l>>) : a.term = term[l] /\ h[p] = a.id,
           Confirmed(l, R, h),
           NEW S \in Barriers,
           S = [R EXCEPT !.phase = IF R.at = l THEN "fenced" ELSE "granted"]
    PROVE  ReadOK(S)
<1>0. /\ S.phase \in {"granted", "fenced"} /\ S.at = R.at /\ S.path = R.path
      /\ S.must = R.must /\ S.store = R.store /\ S.server = l /\ S.index = R.index
      /\ S.after = R.after /\ S.got = R.got /\ R.after \in Nat
  BY DEF Barriers
<1>1. PICK C \in SUBSET Peers(l) :
          Cardinality(C) + 1 >= Quorum /\ \A p \in C : h[p] > R.after
  <2>1. {p \in Peers(l) : h[p] > R.after} \in SUBSET Peers(l)
    OBVIOUS
  <2> QED
    BY <2>1 DEF Confirmed
<1>2. C \cup {l} \in Quorums
  <2>1. IsFiniteSet(Member) /\ C \in SUBSET Member /\ l \notin C
    BY DEF ReadAssumption, Peers
  <2>2. IsFiniteSet(C)
    BY <2>1, FS_Subset
  <2>3. Cardinality(C \cup {l}) = Cardinality(C) + 1
    BY <2>1, <2>2, FS_AddElement
  <2> QED
    BY <1>1, <2>1, <2>3 DEF Quorums
<1>3. ~Deposed(R)
  <2>1. SUFFICES ASSUME Deposed(R) PROVE FALSE
    OBVIOUS
  <2>2. PICK Q \in Quorums : \A p \in Q :
            /\ p # l /\ heard[l][p] <= R.after
            /\ \A a \in Answers(<<p, l>>) : a.term = term[l] => a.id <= R.after
    BY <2>1 DEF Deposed
  <2>3. PICK p \in Member : p \in Q /\ p \in C \cup {l}
    BY <1>2, QuorumsMeet
  <2>4. p \in C /\ p \in Peers(l) /\ heard[l][p] \in Nat /\ h[p] \in Nat
    BY <1>1, <2>2, <2>3 DEF Types
  <2>5. h[p] <= R.after
    BY <2>2, <2>3, <2>4
  <2> QED
    BY <1>0, <1>1, <2>4, <2>5
<1>4. Covers(R)
  BY <1>3 DEF ReadOK
<1>5. Covers(S)
  BY <1>0, <1>4 DEF Covers
<1> QED
  BY <1>0, <1>5 DEF ReadOK

\* The same for all reads of a leader.
LEMMA ArmReadsOK ==
    ASSUME ReadAssumption, Types, Raft, HeardBehind, NEW rs \in [Read -> Barriers],
           \A r \in Read : ReadOK(rs[r]), NEW l \in Member,
           NEW c \in Nat, commit[l] <= c, c <= Len(log[l])
    PROVE  /\ ArmReads(l, rs, c) \in [Read -> Barriers]
           /\ \A r \in Read : /\ ReadOK(ArmReads(l, rs, c)[r])
                              /\ ArmReads(l, rs, c)[r].must = rs[r].must
                              /\ ArmReads(l, rs, c)[r].got = rs[r].got
<1>1. CASE ~Arms(l, rs, c)
  BY <1>1 DEF ArmReads
<1>2. CASE Arms(l, rs, c)
  <2>0. c \in 1 .. Len(log[l]) /\ log[l][c] = term[l] /\ sequence[l] \in Nat
    <3>1. c > 0 /\ log[l][c] = term[l] /\ sequence[l] \in Nat
      BY <1>2 DEF Arms, committed_in_current_term, Types
    <3>2. log[l] \in Seq(Nat)
      BY DEF Types
    <3>3. Len(log[l]) \in Nat
      BY <3>2
    <3> QED
      BY <3>1, <3>3
  <2>1. ASSUME NEW r \in Read, NEW S,
               S = IF r \in Held(l, rs) /\ rs[r].index = None
                   THEN [rs[r] EXCEPT !.index = c, !.after = sequence[l]]
                   ELSE rs[r]
        PROVE  S \in Barriers /\ ReadOK(S) /\ S.must = rs[r].must /\ S.got = rs[r].got
    <3>1. CASE r \in Held(l, rs) /\ rs[r].index = None
      <4>0. rs[r] \in Barriers /\ S = [rs[r] EXCEPT !.index = c, !.after = sequence[l]]
        BY <2>1, <3>1
      <4>1. S \in Barriers /\ S.must = rs[r].must /\ S.got = rs[r].got
        BY <2>0, <4>0 DEF Barriers
      <4>2. rs[r].phase = "held" /\ rs[r].server = l /\ ReadOK(rs[r])
        BY <3>1 DEF Held
      <4> QED
        BY <2>0, <4>0, <4>1, <4>2, ReadArmed
    <3>2. CASE ~(r \in Held(l, rs) /\ rs[r].index = None)
      BY <2>1, <3>2
    <3> QED
      BY <3>1, <3>2
  <2>2. ArmReads(l, rs, c) =
          [r \in Read |-> IF r \in Held(l, rs) /\ rs[r].index = None
                          THEN [rs[r] EXCEPT !.index = c, !.after = sequence[l]]
                          ELSE rs[r]]
    BY <1>2 DEF ArmReads
  <2> QED
    BY <2>1, <2>2
<1> QED
  BY <1>1, <1>2

LEMMA ConfirmReadsOK ==
    ASSUME ReadAssumption, Types, NEW rs \in [Read -> Barriers],
           \A r \in Read : ReadOK(rs[r]), NEW l \in Member,
           NEW h \in [Peers(l) -> Nat],
           \A p \in Peers(l) :
              \/ h[p] = heard[l][p]
              \/ \E a \in Answers(<<p, l>>) : a.term = term[l] /\ h[p] = a.id
    PROVE  /\ ConfirmReads(l, rs, h) \in [Read -> Barriers]
           /\ \A r \in Read : /\ ReadOK(ConfirmReads(l, rs, h)[r])
                              /\ ConfirmReads(l, rs, h)[r].must = rs[r].must
                              /\ ConfirmReads(l, rs, h)[r].got = rs[r].got
<1>1. ASSUME NEW r \in Read, NEW S,
             S = IF r \in Held(l, rs) /\ rs[r].index # None /\ Confirmed(l, rs[r], h)
                 THEN [rs[r] EXCEPT
                         !.phase = IF rs[r].at = l THEN "fenced" ELSE "granted"]
                 ELSE rs[r]
      PROVE  S \in Barriers /\ ReadOK(S) /\ S.must = rs[r].must /\ S.got = rs[r].got
  <2>1. CASE r \in Held(l, rs) /\ rs[r].index # None /\ Confirmed(l, rs[r], h)
    <3>0. /\ rs[r] \in Barriers
          /\ S = [rs[r] EXCEPT !.phase = IF rs[r].at = l THEN "fenced" ELSE "granted"]
      BY <1>1, <2>1
    <3>1. S \in Barriers /\ S.must = rs[r].must /\ S.got = rs[r].got
      BY <3>0 DEF Barriers, Phase
    <3>2. rs[r].phase = "held" /\ rs[r].server = l /\ ReadOK(rs[r])
      BY <2>1 DEF Held
    <3> QED
      BY <2>1, <3>0, <3>1, <3>2, ReadConfirmed
  <2>2. CASE ~(r \in Held(l, rs) /\ rs[r].index # None /\ Confirmed(l, rs[r], h))
    BY <1>1, <2>2
  <2> QED
    BY <2>1, <2>2
<1> QED
  BY <1>1 DEF ConfirmReads

\* A read that is refused promises nothing.
LEMMA ReadRefused ==
    ASSUME NEW R \in Barriers, ReadOK(R), R.phase # "answered",
           NEW S, S = [R EXCEPT !.phase = "refused"]
    PROVE  /\ S \in Barriers /\ ReadOK(S) /\ S.phase = "refused"
           /\ S.must = R.must /\ S.got = R.got
<1>1. /\ S \in Barriers /\ S.phase = "refused" /\ S.must = R.must /\ S.got = R.got
  BY DEF Barriers, Phase
<1> QED
  BY <1>1 DEF ReadOK

LEMMA FailReadsOK ==
    ASSUME Types, ReadsOK, NEW m \in Member
    PROVE  /\ FailReads(m, reads) \in [Read -> Barriers]
           /\ \A r \in Read : /\ ReadOK(FailReads(m, reads)[r])
                              /\ FailReads(m, reads)[r].must = reads[r].must
                              /\ FailReads(m, reads)[r].got = reads[r].got
                              /\ FailReads(m, reads)[r].phase = "held" =>
                                    FailReads(m, reads)[r].server # m
<1>1. ASSUME NEW r \in Read, NEW S,
             S = IF r \in Held(m, reads)
                 THEN [reads[r] EXCEPT !.phase = "refused"] ELSE reads[r]
      PROVE  /\ S \in Barriers /\ ReadOK(S) /\ S.must = reads[r].must
             /\ S.got = reads[r].got /\ (S.phase = "held" => S.server # m)
  <2>0. reads[r] \in Barriers /\ ReadOK(reads[r])
    BY DEF Types, ReadsOK
  <2>1. CASE r \in Held(m, reads)
    <3>1. reads[r].phase = "held" /\ S = [reads[r] EXCEPT !.phase = "refused"]
      BY <1>1, <2>1 DEF Held
    <3> QED
      BY <2>0, <3>1, ReadRefused
  <2>2. CASE r \notin Held(m, reads)
    BY <1>1, <2>0, <2>2 DEF Held
  <2> QED
    BY <2>1, <2>2
<1> QED
  BY <1>1 DEF FailReads

-----------------------------------------------------------------------------
(* Frames.                                                                 *)

Frames == Appends \cup Replies

\* What is on the link l of net.
On(net, l) == {net[l][i] : i \in 1 .. Len(net[l])}

LEMMA AppendItems ==
    ASSUME NEW S, NEW s \in Seq(S), NEW e \in S
    PROVE  /\ Append(s, e) \in Seq(S)
           /\ \A i \in 1 .. Len(Append(s, e)) :
                 Append(s, e)[i] = e \/ \E j \in 1 .. Len(s) : Append(s, e)[i] = s[j]
<1>1. Append(s, e) \in Seq(S) /\ Len(Append(s, e)) = Len(s) + 1
  OBVIOUS
<1>2. ASSUME NEW i \in 1 .. Len(Append(s, e))
      PROVE  Append(s, e)[i] = e \/ \E j \in 1 .. Len(s) : Append(s, e)[i] = s[j]
  <2>1. CASE i = Len(s) + 1
    BY <2>1
  <2>2. CASE i # Len(s) + 1
    <3>1. i \in 1 .. Len(s)
      BY <1>1, <2>2
    <3> QED
      BY <3>1
  <2> QED
    BY <2>1, <2>2
<1> QED
  BY <1>1, <1>2

LEMMA TailItems ==
    ASSUME NEW S, NEW s \in Seq(S), s # <<>>
    PROVE  /\ Tail(s) \in Seq(S) /\ Head(s) \in S
           /\ \A i \in 1 .. Len(Tail(s)) : \E j \in 1 .. Len(s) : Tail(s)[i] = s[j]
           /\ \E j \in 1 .. Len(s) : Head(s) = s[j]
<1>1. Tail(s) \in Seq(S) /\ Len(Tail(s)) = Len(s) - 1 /\ Head(s) = s[1] /\ Head(s) \in S
      /\ Len(s) \in Nat /\ Len(s) >= 1
  OBVIOUS
<1>2. ASSUME NEW i \in 1 .. Len(Tail(s))
      PROVE  \E j \in 1 .. Len(s) : Tail(s)[i] = s[j]
  <2>1. i + 1 \in 1 .. Len(s) /\ Tail(s)[i] = s[i + 1]
    BY <1>1
  <2> QED
    BY <2>1
<1> QED
  BY <1>1, <1>2

\* The head of a link is in flight.
LEMMA HeadInFlight ==
    ASSUME Types, NEW l \in Link, frames[l] # <<>>
    PROVE  /\ Head(frames[l]) \in Frames /\ Head(frames[l]) \in Flight(l)
           /\ Head(frames[l]).kind = "append" => Head(frames[l]) \in Sent(l)
           /\ Head(frames[l]).kind = "reply" => Head(frames[l]) \in Answers(l)
<1>1. frames[l] \in Seq(Frames)
  BY DEF Types, Frames
<1>2. Head(frames[l]) \in Frames /\ \E j \in 1 .. Len(frames[l]) : Head(frames[l]) = frames[l][j]
  BY <1>1, TailItems
<1> QED
  BY <1>2 DEF Flight, Sent, Answers

\* A frame is taken off its link.
LEMMA TakenOff ==
    ASSUME Types, NEW l \in Link, frames[l] # <<>>, NEW net,
           net = [frames EXCEPT ![l] = Tail(@)]
    PROVE  /\ net \in [Link -> Seq(Frames)]
           /\ \A k \in Link : On(net, k) \subseteq Flight(k)
<1>1. frames \in [Link -> Seq(Frames)]
  BY DEF Types, Frames
<1>2. /\ Tail(frames[l]) \in Seq(Frames)
      /\ \A i \in 1 .. Len(Tail(frames[l])) :
            \E j \in 1 .. Len(frames[l]) : Tail(frames[l])[i] = frames[l][j]
  BY <1>1, TailItems
<1>3. net \in [Link -> Seq(Frames)] /\ net[l] = Tail(frames[l])
      /\ \A k \in Link : k # l => net[k] = frames[k]
  BY <1>1, <1>2
<1> QED
  BY <1>2, <1>3 DEF On, Flight

\* A leader sends what it has then (_replicate).
LEMMA Sends ==
    ASSUME Types, NEW m \in Member, NEW net \in [Link -> Seq(Frames)],
           \A k \in Link : On(net, k) \subseteq Flight(k),
           NEW L \in Seq(Nat), NEW c \in Nat, NEW t \in Nat,
           L = log'[m], c = commit'[m], t = term'[m], Lead(m)',
           sequence' = [sequence EXCEPT ![m] = @ + 1],
           frames' = ReplicateOn(net, m, L, c, t)
    PROVE  /\ frames' \in [Link -> Seq(Frames)] /\ sequence' \in [Member -> Nat]
           /\ \A p \in Member : sequence'[p] >= sequence[p]
           /\ \A k \in Link : \A g \in Flight(k)' :
                 g \in Flight(k) \/ (k[1] = m /\ FreshAppend(k, g))
<1>1. sequence \in [Member -> Nat] /\ sequence'[m] = sequence[m] + 1
  BY DEF Types
<1>2. sequence' \in [Member -> Nat] /\ \A p \in Member : sequence'[p] >= sequence[p]
  BY <1>1
<1>3. PICK e : e = [kind |-> "append", id |-> sequence[m] + 1, term |-> t, log |-> L,
                    commit |-> c]
  OBVIOUS
<1>4. /\ e \in Frames /\ e.kind = "append" /\ e.id = sequence'[m] /\ e.term = t
      /\ e.log = L /\ e.commit = c
  BY <1>1, <1>3 DEF Frames, Appends
<1>5. frames' = [k \in Link |-> IF k[1] # m THEN net[k] ELSE Append(net[k], e)]
  BY <1>3 DEF ReplicateOn
<1>6. ASSUME NEW k \in Link
      PROVE  /\ frames'[k] \in Seq(Frames)
             /\ \A g \in Flight(k)' : g \in Flight(k) \/ (k[1] = m /\ g = e)
  <2>1. CASE k[1] # m
    <3>1. frames'[k] = net[k]
      BY <1>5, <2>1
    <3> QED
      BY <3>1 DEF On, Flight
  <2>2. CASE k[1] = m
    <3>1. frames'[k] = Append(net[k], e) /\ net[k] \in Seq(Frames)
      BY <1>5, <2>2
    <3>2. /\ frames'[k] \in Seq(Frames)
          /\ \A i \in 1 .. Len(frames'[k]) :
                frames'[k][i] = e \/ \E j \in 1 .. Len(net[k]) : frames'[k][i] = net[k][j]
      BY <1>4, <3>1, AppendItems
    <3>3. \A j \in 1 .. Len(net[k]) : net[k][j] \in Flight(k)
      BY DEF On
    <3>4. ASSUME NEW g \in Flight(k)' PROVE g = e \/ g \in Flight(k)
      <4>1. PICK i \in 1 .. Len(frames'[k]) : g = frames'[k][i]
        BY DEF Flight
      <4> QED
        BY <3>2, <3>3, <4>1
    <3> QED
      BY <2>2, <3>2, <3>4
  <2> QED
    BY <2>1, <2>2
<1>7. frames' \in [Link -> Seq(Frames)]
  BY <1>5, <1>6
<1>8. ASSUME NEW k \in Link, k[1] = m PROVE FreshAppend(k, e)
  <2>1. sequence'[m] <= sequence'[m]
    BY <1>1
  <2> QED
    BY <1>4, <1>8, <2>1 DEF FreshAppend
<1> QED
  BY <1>2, <1>6, <1>7, <1>8

-----------------------------------------------------------------------------
(* What the steps have in common.                                          *)

\* The reads of a step whose leaders go on leading.
LEMMA ReadsFollow ==
    ASSUME ReadAssumption, Types, Types', Raft, Moves, Turn,
           NEW rs \in [Read -> Barriers], reads' = rs, \A r \in Read : ReadOK(rs[r]),
           \A r \in Read : rs[r].phase = "held" =>
              Lead(rs[r].server)' /\ term'[rs[r].server] = term[rs[r].server]
    PROVE  ReadsOK'
<1>1. ASSUME NEW r \in Read, NEW R, R = rs[r] PROVE ReadOK(R)'
  <2>1. R \in Barriers /\ ReadOK(R)
    BY <1>1
  <2>2. R.phase = "held" => Lead(R.server)' /\ term'[R.server] = term[R.server]
    BY <1>1
  <2> QED
    BY <2>1, <2>2, ReadKept
<1> QED
  BY <1>1 DEF ReadsOK

\* What every step does.
Stepped == Types' /\ Moves /\ Turn /\ Commits /\ ReadsOK' /\ StoresKept'

\* No request begins and none is answered.
Unasked == \A r \in Read : reads'[r].must = reads[r].must /\ reads'[r].got = reads[r].got

\* A step that moves requests, and may have a leader send what it has.
LEMMA Idle ==
    ASSUME ReadAssumption, Inv,
           UNCHANGED <<term, role, leader, log, commit, heard, match, applied,
                       retired, committed>>,
           NEW rs \in [Read -> Barriers], reads' = rs, \A r \in Read : ReadOK(rs[r]),
           \/ UNCHANGED <<sequence, frames>>
           \/ \E m \in Member : Lead(m) /\ Replicate(m, log[m], commit[m], term[m])
    PROVE  Stepped
<1>0. Types /\ CommitsHeld /\ Raft /\ StoresKept
  BY DEF Inv
<1>1. /\ frames' \in [Link -> Seq(Frames)] /\ sequence' \in [Member -> Nat]
      /\ \A p \in Member : sequence'[p] >= sequence[p]
      /\ \A k \in Link : FlightMove(k)
  <2>0. frames \in [Link -> Seq(Frames)] /\ sequence \in [Member -> Nat]
    BY <1>0 DEF Types, Frames
  <2>1. CASE UNCHANGED <<sequence, frames>>
    <3>1. \A p \in Member : sequence'[p] >= sequence[p]
      BY <2>0, <2>1
    <3> QED
      BY <2>0, <2>1, <3>1 DEF FlightMove, Flight
  <2>2. ASSUME NEW m \in Member, Lead(m), Replicate(m, log[m], commit[m], term[m])
        PROVE  /\ frames' \in [Link -> Seq(Frames)] /\ sequence' \in [Member -> Nat]
               /\ \A p \in Member : sequence'[p] >= sequence[p]
               /\ \A k \in Link : FlightMove(k)
    <3>1. log[m] \in Seq(Nat) /\ commit[m] \in Nat /\ term[m] \in Nat
      BY <1>0 DEF Types
    <3>2. log[m] = log'[m] /\ commit[m] = commit'[m] /\ term[m] = term'[m] /\ Lead(m)'
      BY <2>2 DEF Lead
    <3>3. /\ sequence' = [sequence EXCEPT ![m] = @ + 1]
          /\ frames' = ReplicateOn(frames, m, log[m], commit[m], term[m])
      BY <2>2 DEF Replicate
    <3>4. \A k \in Link : On(frames, k) \subseteq Flight(k)
      BY DEF On, Flight
    <3>5. /\ frames' \in [Link -> Seq(Frames)] /\ sequence' \in [Member -> Nat]
          /\ \A p \in Member : sequence'[p] >= sequence[p]
          /\ \A k \in Link : \A g \in Flight(k)' :
                g \in Flight(k) \/ (k[1] = m /\ FreshAppend(k, g))
      BY <1>0, <2>0, <3>1, <3>2, <3>3, <3>4, Sends
    <3> QED
      BY <3>5 DEF FlightMove
  <2> QED
    BY <2>1, <2>2
<1>2. Types'
  BY <1>0, <1>1 DEF Types, Frames
<1>3. \A p \in Member : term'[p] >= term[p] /\ commit'[p] >= commit[p] /\ term'[p] <= term[p]
  BY <1>0 DEF Types
<1>4. Moves
  BY <1>1, <1>3 DEF Moves, LogMove, CreditMove, HeardMove
<1>5. Calm
  BY <1>3 DEF Calm, Lead
<1>6. Commits
  BY <1>0 DEF Commits, CommitMove, CommitsHeld
<1>7. ReadsOK'
  <2>1. \A r \in Read : rs[r].phase = "held" =>
           Lead(rs[r].server)' /\ term'[rs[r].server] = term[rs[r].server]
    BY DEF ReadOK, Lead
  <2> QED
    BY <1>0, <1>2, <1>4, <1>5, <2>1, ReadsFollow DEF Turn
<1> QED
  BY <1>0, <1>2, <1>4, <1>5, <1>6, <1>7 DEF Stepped, Turn, StoresKept

\* A request is put to the leader m (_begin_read).
LEMMA BeginReadAtOK ==
    ASSUME ReadAssumption, Inv, NEW m \in Member, NEW rs \in [Read -> Barriers],
           \A r \in Read : ReadOK(rs[r]), BeginReadAt(m, rs)
    PROVE  /\ reads' \in [Read -> Barriers]
           /\ \A r \in Read : /\ ReadOK(reads'[r])
                              /\ reads'[r].must = rs[r].must /\ reads'[r].got = rs[r].got
<1>0. Types /\ Raft /\ HeardBehind
  BY DEF Inv
<1>1. commit[m] \in Nat /\ commit[m] <= commit[m] /\ commit[m] <= Len(log[m])
  <2>1. commit[m] \in Nat
    BY <1>0 DEF Types
  <2>2. commit[m] <= Len(log[m])
    BY DEF Inv, CommitsHeld, Vouched
  <2> QED
    BY <2>1, <2>2
<1>2. PICK a : a = ArmReads(m, rs, commit[m])
  OBVIOUS
<1>3. /\ a \in [Read -> Barriers]
      /\ \A r \in Read : ReadOK(a[r]) /\ a[r].must = rs[r].must /\ a[r].got = rs[r].got
  BY <1>0, <1>1, <1>2, ArmReadsOK
<1>4. heard[m] \in [Peers(m) -> Nat]
  BY <1>0 DEF Types
<1>5. reads' = ConfirmReads(m, a, heard[m])
  BY <1>2 DEF BeginReadAt
<1>6. /\ ConfirmReads(m, a, heard[m]) \in [Read -> Barriers]
      /\ \A r \in Read : /\ ReadOK(ConfirmReads(m, a, heard[m])[r])
                         /\ ConfirmReads(m, a, heard[m])[r].must = a[r].must
                         /\ ConfirmReads(m, a, heard[m])[r].got = a[r].got
  BY <1>0, <1>3, <1>4, ConfirmReadsOK
<1> QED
  BY <1>3, <1>5, <1>6

-----------------------------------------------------------------------------
(* Requests.                                                               *)

\* The request r is put to sv.
Put(rs, r, ph, sv) == [rs EXCEPT ![r].phase = ph, ![r].server = sv]

LEMMA BeginOK ==
    ASSUME ReadAssumption, Inv, NEW r \in Read, NEW m \in Member, NEW path \in Path,
           Begin(r, m, path)
    PROVE  /\ Stepped /\ committed' = committed
           /\ reads[r].must = -1 /\ reads'[r].must = committed
           /\ \A s \in Read : s # r => reads'[s].must = reads[s].must
           /\ \A s \in Read : reads'[s].got = reads[s].got
<1>0. /\ Types /\ Firm(committed) /\ committed \in Nat /\ reads \in [Read -> Barriers]
      /\ \A s \in Read : ReadOK(reads[s])
  BY DEF Inv, Types, ReadsOK
<1>1. reads[r].phase = "idle" /\ reads[r].must = -1 /\ reads[r].index = None
      /\ reads[r].got = -1
  BY <1>0 DEF Begin, ReadOK
<1>2. Store(m) \in Nat /\ Store(m) # 0
  <2>1. retired[m] \in Seq(Nat)
    BY <1>0 DEF Types
  <2>2. Len(retired[m]) \in Nat
    BY <2>1
  <2> QED
    BY <2>2 DEF Store
<1>3. PICK R : R = [reads[r] EXCEPT !.at = m, !.path = path, !.must = committed,
                                    !.store = Store(m)]
  OBVIOUS
<1>4. /\ R \in Barriers /\ R.phase = "idle" /\ R.at = m /\ R.path = path
      /\ R.must = committed /\ R.store = Store(m) /\ R.index = None /\ R.got = -1
  BY <1>0, <1>1, <1>2, <1>3 DEF Barriers
<1>5. PICK began : began = [reads EXCEPT ![r] = R]
  OBVIOUS
<1>6. /\ began \in [Read -> Barriers] /\ began[r] = R
      /\ \A s \in Read : s # r => began[s] = reads[s]
  BY <1>0, <1>4, <1>5
<1>7. \/ /\ Lead(m)
         /\ BeginReadAt(m, Put(began, r, "held", m))
      \/ /\ leader[m] # None
         /\ reads' = Put(began, r, "asked", leader[m])
         /\ UNCHANGED <<sequence, frames>>
      \/ /\ reads' = [began EXCEPT ![r].phase = "refused"]
         /\ UNCHANGED <<sequence, frames>>
  BY <1>3, <1>5 DEF Begin, Put
<1>8. ASSUME NEW ph \in {"held", "asked"}, NEW sv \in Member, ph = "held" => Lead(sv),
             NEW rs, rs = Put(began, r, ph, sv)
      PROVE  /\ rs \in [Read -> Barriers] /\ \A s \in Read : ReadOK(rs[s])
             /\ rs[r].must = committed /\ \A s \in Read : rs[s].got = reads[s].got
             /\ \A s \in Read : s # r => rs[s].must = reads[s].must
  <2>1. PICK S : S = [R EXCEPT !.phase = ph, !.server = sv]
    OBVIOUS
  <2>2. /\ S \in Barriers /\ S.phase = ph /\ S.at = m /\ S.path = path /\ S.server = sv
        /\ S.must = committed /\ S.store = Store(m) /\ S.index = None /\ S.got = -1
    BY <1>4, <2>1 DEF Barriers, Phase
  <2>3. ReadOK(S)
    BY <1>0, <1>2, <1>8, <2>2 DEF ReadOK
  <2>4. rs = [began EXCEPT ![r] = S]
    BY <1>6, <1>8, <2>1 DEF Put
  <2>5. rs \in [Read -> Barriers] /\ rs[r] = S /\ \A s \in Read : s # r => rs[s] = reads[s]
    BY <1>6, <2>2, <2>4
  <2> QED
    BY <1>0, <1>1, <2>2, <2>3, <2>5
<1>9. UNCHANGED <<term, role, leader, log, commit, heard, match, applied, retired,
                  committed>>
  BY DEF Begin
<1>10. CASE Lead(m) /\ BeginReadAt(m, Put(began, r, "held", m))
  <2>1. PICK rs : rs = Put(began, r, "held", m)
    OBVIOUS
  <2>2. /\ rs \in [Read -> Barriers] /\ \A s \in Read : ReadOK(rs[s])
        /\ rs[r].must = committed /\ \A s \in Read : rs[s].got = reads[s].got
        /\ \A s \in Read : s # r => rs[s].must = reads[s].must
    BY <1>8, <1>10, <2>1
  <2>3. /\ reads' \in [Read -> Barriers]
        /\ \A s \in Read : /\ ReadOK(reads'[s])
                           /\ reads'[s].must = rs[s].must /\ reads'[s].got = rs[s].got
    BY <1>10, <2>1, <2>2, BeginReadAtOK
  <2>4. \/ UNCHANGED <<sequence, frames>>
        \/ Lead(m) /\ Replicate(m, log[m], commit[m], term[m])
    BY <1>10 DEF BeginReadAt
  <2>5. PICK new : new = reads'
    OBVIOUS
  <2>6. Stepped
    BY <1>9, <2>3, <2>4, <2>5, Idle
  <2> QED
    BY <1>1, <1>9, <2>2, <2>3, <2>6
<1>11. ASSUME leader[m] # None, UNCHANGED <<sequence, frames>>,
              reads' = Put(began, r, "asked", leader[m])
       PROVE  /\ Stepped /\ reads'[r].must = committed
              /\ \A s \in Read : s # r => reads'[s].must = reads[s].must
              /\ \A s \in Read : reads'[s].got = reads[s].got
  <2>1. PICK rs : rs = Put(began, r, "asked", leader[m])
    OBVIOUS
  <2>2. leader[m] \in Member
    BY <1>0, <1>11 DEF Types
  <2>3. /\ rs \in [Read -> Barriers] /\ \A s \in Read : ReadOK(rs[s])
        /\ rs[r].must = committed /\ \A s \in Read : rs[s].got = reads[s].got
        /\ \A s \in Read : s # r => rs[s].must = reads[s].must
    BY <1>8, <2>1, <2>2
  <2>4. Stepped
    BY <1>9, <1>11, <2>1, <2>3, Idle
  <2> QED
    BY <1>11, <2>1, <2>3, <2>4
<1>12. ASSUME UNCHANGED <<sequence, frames>>, reads' = [began EXCEPT ![r].phase = "refused"]
       PROVE  /\ Stepped /\ reads'[r].must = committed
              /\ \A s \in Read : s # r => reads'[s].must = reads[s].must
              /\ \A s \in Read : reads'[s].got = reads[s].got
  <2>1. PICK S : S = [R EXCEPT !.phase = "refused"]
    OBVIOUS
  <2>2. /\ S \in Barriers /\ S.phase = "refused" /\ S.must = committed /\ S.got = -1
    BY <1>4, <2>1 DEF Barriers, Phase
  <2>3. ReadOK(S)
    BY <2>2 DEF ReadOK
  <2>4. PICK rs : rs = [began EXCEPT ![r] = S]
    OBVIOUS
  <2>5. rs \in [Read -> Barriers] /\ rs[r] = S /\ \A s \in Read : s # r => rs[s] = reads[s]
    BY <1>6, <2>2, <2>4
  <2>6. reads' = rs
    BY <1>6, <1>12, <2>1, <2>4
  <2>7. \A s \in Read : ReadOK(rs[s])
    BY <1>0, <2>3, <2>5
  <2>8. Stepped
    BY <1>9, <1>12, <2>5, <2>6, <2>7, Idle
  <2> QED
    BY <1>1, <2>2, <2>5, <2>6, <2>8
<1> QED
  BY <1>1, <1>7, <1>9, <1>10, <1>11, <1>12

LEMMA OnReadIndexOK ==
    ASSUME ReadAssumption, Inv, NEW r \in Read, OnReadIndex(r)
    PROVE  Stepped /\ Unasked /\ committed' = committed
<1>0. /\ Types /\ reads \in [Read -> Barriers] /\ \A s \in Read : ReadOK(reads[s])
  BY DEF Inv, Types, ReadsOK
<1>1. /\ UNCHANGED <<term, role, leader, log, commit, heard, match, applied, retired,
                     committed>>
      /\ reads[r].phase = "asked" /\ reads[r] \in Barriers /\ ReadOK(reads[r])
  BY <1>0 DEF OnReadIndex
<1>2. PICK l : l = reads[r].server
  OBVIOUS
<1>3. l \in Member
  BY <1>1, <1>2 DEF ReadOK
<1>4. \/ Lead(l) /\ BeginReadAt(l, [reads EXCEPT ![r].phase = "held"])
      \/ reads' = [reads EXCEPT ![r].phase = "refused"] /\ UNCHANGED <<sequence, frames>>
  BY <1>2 DEF OnReadIndex
<1>5. CASE Lead(l) /\ BeginReadAt(l, [reads EXCEPT ![r].phase = "held"])
  <2>1. PICK S : S = [reads[r] EXCEPT !.phase = "held"]
    OBVIOUS
  <2>2. /\ S \in Barriers /\ S.phase = "held" /\ S.at = reads[r].at
        /\ S.path = reads[r].path /\ S.must = reads[r].must /\ S.store = reads[r].store
        /\ S.server = l /\ S.index = reads[r].index /\ S.got = reads[r].got
    BY <1>1, <1>2, <2>1 DEF Barriers, Phase
  <2>3. ReadOK(S)
    BY <1>1, <1>3, <1>5, <2>2 DEF ReadOK
  <2>4. PICK rs : rs = [reads EXCEPT ![r].phase = "held"]
    OBVIOUS
  <2>5. rs \in [Read -> Barriers] /\ rs[r] = S /\ \A s \in Read : s # r => rs[s] = reads[s]
    BY <1>0, <2>1, <2>2, <2>4
  <2>6. \A s \in Read : /\ ReadOK(rs[s])
                        /\ rs[s].must = reads[s].must /\ rs[s].got = reads[s].got
    BY <1>0, <2>2, <2>3, <2>5
  <2>7. /\ reads' \in [Read -> Barriers]
        /\ \A s \in Read : /\ ReadOK(reads'[s])
                           /\ reads'[s].must = rs[s].must /\ reads'[s].got = rs[s].got
    BY <1>3, <1>5, <2>4, <2>5, <2>6, BeginReadAtOK
  <2>8. \/ UNCHANGED <<sequence, frames>>
        \/ Lead(l) /\ Replicate(l, log[l], commit[l], term[l])
    BY <1>5 DEF BeginReadAt
  <2>9. PICK new : new = reads'
    OBVIOUS
  <2>10. Stepped
    BY <1>1, <1>3, <2>7, <2>8, <2>9, Idle
  <2> QED
    BY <1>1, <2>6, <2>7, <2>10 DEF Unasked
<1>6. CASE /\ reads' = [reads EXCEPT ![r].phase = "refused"]
           /\ UNCHANGED <<sequence, frames>>
  <2>1. PICK S : S = [reads[r] EXCEPT !.phase = "refused"]
    OBVIOUS
  <2>2. S \in Barriers /\ ReadOK(S) /\ S.must = reads[r].must /\ S.got = reads[r].got
    BY <1>1, <2>1, ReadRefused
  <2>3. PICK rs : rs = [reads EXCEPT ![r] = S]
    OBVIOUS
  <2>4. rs \in [Read -> Barriers] /\ rs[r] = S /\ \A s \in Read : s # r => rs[s] = reads[s]
    BY <1>0, <2>2, <2>3
  <2>5. reads' = rs
    BY <1>6, <2>1, <2>3
  <2>6. \A s \in Read : ReadOK(rs[s])
    BY <1>0, <2>2, <2>4
  <2>7. Stepped
    BY <1>1, <1>6, <2>4, <2>5, <2>6, Idle
  <2> QED
    BY <1>1, <2>2, <2>4, <2>5, <2>7 DEF Unasked
<1> QED
  BY <1>4, <1>5, <1>6

LEMMA OnReadIndexReplyOK ==
    ASSUME ReadAssumption, Inv, NEW r \in Read, OnReadIndexReply(r)
    PROVE  Stepped /\ Unasked /\ committed' = committed
<1>0. /\ Types /\ reads \in [Read -> Barriers] /\ \A s \in Read : ReadOK(reads[s])
  BY DEF Inv, Types, ReadsOK
<1>1. /\ UNCHANGED <<term, role, leader, log, commit, heard, match, applied, retired,
                     committed>> /\ UNCHANGED <<sequence, frames>>
      /\ reads[r].phase = "granted" /\ reads[r] \in Barriers /\ ReadOK(reads[r])
      /\ reads' = [reads EXCEPT ![r].phase = "fenced"]
  BY <1>0 DEF OnReadIndexReply, core
<1>2. PICK S : S = [reads[r] EXCEPT !.phase = "fenced"]
  OBVIOUS
<1>3. /\ S \in Barriers /\ S.phase = "fenced" /\ S.at = reads[r].at
      /\ S.path = reads[r].path /\ S.must = reads[r].must /\ S.store = reads[r].store
      /\ S.server = reads[r].server /\ S.index = reads[r].index /\ S.got = reads[r].got
  BY <1>1, <1>2 DEF Barriers, Phase
<1>4. ReadOK(S)
  BY <1>1, <1>3 DEF ReadOK, Covers
<1>5. PICK rs : rs = [reads EXCEPT ![r] = S]
  OBVIOUS
<1>6. rs \in [Read -> Barriers] /\ rs[r] = S /\ \A s \in Read : s # r => rs[s] = reads[s]
  BY <1>0, <1>3, <1>5
<1>7. reads' = rs
  BY <1>1, <1>2, <1>5
<1>8. \A s \in Read : ReadOK(rs[s])
  BY <1>0, <1>4, <1>6
<1>9. Stepped
  BY <1>1, <1>6, <1>7, <1>8, Idle
<1> QED
  BY <1>1, <1>3, <1>6, <1>7, <1>9 DEF Unasked

LEMMA TimeoutOK ==
    ASSUME ReadAssumption, Inv, NEW r \in Read, Timeout(r)
    PROVE  Stepped /\ Unasked /\ committed' = committed
<1>0. /\ Types /\ reads \in [Read -> Barriers] /\ \A s \in Read : ReadOK(reads[s])
  BY DEF Inv, Types, ReadsOK
<1>1. /\ UNCHANGED <<term, role, leader, log, commit, heard, match, applied, retired,
                     committed>> /\ UNCHANGED <<sequence, frames>>
      /\ reads[r].phase # "answered" /\ reads[r] \in Barriers /\ ReadOK(reads[r])
      /\ reads' = [reads EXCEPT ![r].phase = "refused"]
  BY <1>0 DEF Timeout, core
<1>2. PICK S : S = [reads[r] EXCEPT !.phase = "refused"]
  OBVIOUS
<1>3. S \in Barriers /\ ReadOK(S) /\ S.must = reads[r].must /\ S.got = reads[r].got
  BY <1>1, <1>2, ReadRefused
<1>4. PICK rs : rs = [reads EXCEPT ![r] = S]
  OBVIOUS
<1>5. rs \in [Read -> Barriers] /\ rs[r] = S /\ \A s \in Read : s # r => rs[s] = reads[s]
  BY <1>0, <1>3, <1>4
<1>6. reads' = rs
  BY <1>1, <1>2, <1>4
<1>7. \A s \in Read : ReadOK(rs[s])
  BY <1>0, <1>3, <1>5
<1>8. Stepped
  BY <1>1, <1>5, <1>6, <1>7, Idle
<1> QED
  BY <1>1, <1>3, <1>5, <1>6, <1>8 DEF Unasked

LEMMA AnswerOK ==
    ASSUME ReadAssumption, PromiseApplies, Inv, NEW r \in Read,
           Answer(r)
    PROVE  /\ Stepped /\ committed' = committed
           /\ reads[r].must # -1 /\ reads[r].got = -1 /\ reads'[r].got >= reads[r].must
           /\ \A s \in Read : s # r => reads'[s].got = reads[s].got
           /\ \A s \in Read : reads'[s].must = reads[s].must
<1>0. /\ Types /\ reads \in [Read -> Barriers] /\ \A s \in Read : ReadOK(reads[s])
      /\ StoresKept
  BY DEF Inv, Types, ReadsOK
<1>1. /\ UNCHANGED <<term, role, leader, log, commit, heard, match, applied, retired,
                     committed>> /\ UNCHANGED <<sequence, frames>>
      /\ reads[r].phase = "fenced" /\ reads[r] \in Barriers /\ ReadOK(reads[r])
      /\ applied[reads[r].at] >= reads[r].index
      /\ reads' = [reads EXCEPT ![r].phase = "answered", ![r].got = StoreSeen(r)]
  BY <1>0 DEF Answer, core
<1>2. /\ reads[r].got = -1 /\ reads[r].at \in Member /\ reads[r].path \in Path
      /\ reads[r].store # 0 /\ Firm(reads[r].must)
      /\ reads[r].index \in Nat /\ reads[r].index >= reads[r].must
  BY <1>1 DEF ReadOK, Covers
<1>3. reads[r].must \in Nat
  BY <1>2, HeadTyped DEF Firm, Good
<1>4. StoreSeen(r) = applied[reads[r].at]
  <2>1. CASE Installs
    BY <1>2, <2>1 DEF StoreSeen, PromiseApplies
  <2>2. CASE ~Installs
    <3>1. retired[reads[r].at] = <<>>
      BY <1>0, <1>2, <2>2 DEF StoresKept
    <3>2. Store(reads[r].at) = 1
      BY <3>1 DEF Store
    <3>3. ~(reads[r].store < Store(reads[r].at))
      <4>1. reads[r].store \in Nat
        BY <1>1 DEF Barriers
      <4> QED
        BY <1>2, <3>2, <4>1
    <3> QED
      BY <3>3 DEF StoreSeen
  <2> QED
    BY <2>1, <2>2
<1>5. PICK g : g = StoreSeen(r)
  OBVIOUS
<1>6. g \in Nat /\ g >= reads[r].must
  <2>1. applied[reads[r].at] \in Nat
    BY <1>0, <1>2 DEF Types
  <2> QED
    BY <1>1, <1>2, <1>3, <1>4, <1>5, <2>1
<1>7. PICK S : S = [reads[r] EXCEPT !.phase = "answered", !.got = g]
  OBVIOUS
<1>8. /\ S \in Barriers /\ S.phase = "answered" /\ S.must = reads[r].must /\ S.got = g
  BY <1>1, <1>6, <1>7 DEF Barriers, Phase
<1>9. ReadOK(S)
  BY <1>8 DEF ReadOK
<1>10. PICK rs : rs = [reads EXCEPT ![r] = S]
  OBVIOUS
<1>11. rs \in [Read -> Barriers] /\ rs[r] = S /\ \A s \in Read : s # r => rs[s] = reads[s]
  BY <1>0, <1>8, <1>10
<1>12. reads' = rs
  BY <1>0, <1>1, <1>5, <1>7, <1>10
<1>13. \A s \in Read : ReadOK(rs[s])
  BY <1>0, <1>9, <1>11
<1>14. Stepped
  BY <1>1, <1>11, <1>12, <1>13, Idle
<1>15. reads[r].must # -1
  BY <1>3
<1> QED
  BY <1>1, <1>2, <1>6, <1>8, <1>11, <1>12, <1>14, <1>15

LEMMA HeartbeatOK ==
    ASSUME ReadAssumption, Inv, NEW m \in Member, Heartbeat(m)
    PROVE  Stepped /\ Unasked /\ committed' = committed
<1>1. /\ UNCHANGED <<term, role, leader, log, commit, heard, match, applied, retired,
                     committed>>
      /\ Lead(m) /\ Replicate(m, log[m], commit[m], term[m]) /\ reads' = reads
  BY DEF Heartbeat
<1>2. reads \in [Read -> Barriers] /\ \A r \in Read : ReadOK(reads[r])
  BY DEF Inv, Types, ReadsOK
<1>3. PICK rs : rs = reads
  OBVIOUS
<1>4. Stepped
  BY <1>1, <1>2, <1>3, Idle
<1> QED
  BY <1>1, <1>4 DEF Unasked

-----------------------------------------------------------------------------
(* The consensus core.                                                     *)

LEMMA ProposeOK ==
    ASSUME ReadAssumption, Inv, NEW m \in Member, Propose(m)
    PROVE  Stepped /\ Unasked /\ committed' = committed
<1>0. /\ Types /\ Raft /\ CommitsHeld /\ StoresKept
      /\ reads \in [Read -> Barriers] /\ \A r \in Read : ReadOK(reads[r])
  BY DEF Inv, Types, ReadsOK
<1>1. /\ UNCHANGED <<term, role, leader, commit, heard, match, applied, retired, reads,
                     committed>>
      /\ Lead(m) /\ log' = [log EXCEPT ![m] = Append(@, term[m])]
      /\ Replicate(m, log'[m], commit[m], term[m])
  BY DEF Propose
<1>2. /\ log \in [Member -> Seq(Nat)] /\ commit[m] \in Nat /\ term[m] \in Nat
      /\ frames \in [Link -> Seq(Frames)]
  BY <1>0 DEF Types, Frames
<1>3. /\ log' \in [Member -> Seq(Nat)] /\ log'[m] = Append(log[m], term'[m])
      /\ \A p \in Member : p # m => log'[p] = log[p]
  <2>1. PICK u : u = Append(log[m], term[m])
    OBVIOUS
  <2>2. u \in Seq(Nat)
    BY <1>2, <2>1, Extended
  <2>3. log' = [log EXCEPT ![m] = u]
    BY <1>1, <2>1
  <2> QED
    BY <1>1, <1>2, <2>1, <2>2, <2>3
<1>4. /\ frames' \in [Link -> Seq(Frames)] /\ sequence' \in [Member -> Nat]
      /\ \A p \in Member : sequence'[p] >= sequence[p]
      /\ \A k \in Link : FlightMove(k)
  <2>1. PICK L : L = log'[m]
    OBVIOUS
  <2>2. L \in Seq(Nat) /\ commit[m] = commit'[m] /\ term[m] = term'[m] /\ Lead(m)'
    BY <1>1, <1>3, <2>1 DEF Lead
  <2>3. /\ sequence' = [sequence EXCEPT ![m] = @ + 1]
        /\ frames' = ReplicateOn(frames, m, L, commit[m], term[m])
    BY <1>1, <2>1 DEF Replicate
  <2>4. \A k \in Link : On(frames, k) \subseteq Flight(k)
    BY DEF On, Flight
  <2>5. /\ frames' \in [Link -> Seq(Frames)] /\ sequence' \in [Member -> Nat]
        /\ \A p \in Member : sequence'[p] >= sequence[p]
        /\ \A k \in Link : \A g \in Flight(k)' :
              g \in Flight(k) \/ (k[1] = m /\ FreshAppend(k, g))
    BY <1>0, <1>2, <2>1, <2>2, <2>3, <2>4, Sends
  <2> QED
    BY <2>5 DEF FlightMove
<1>5. Types'
  BY <1>0, <1>1, <1>3, <1>4 DEF Types, Frames
<1>6. \A p \in Member : term'[p] >= term[p] /\ commit'[p] >= commit[p] /\ term'[p] <= term[p]
  BY <1>0, <1>1 DEF Types
<1>7. \A p \in Member : LogMove(p)
  BY <1>1, <1>3 DEF LogMove, Lead
<1>8. Moves
  BY <1>1, <1>4, <1>6, <1>7 DEF Moves, CreditMove, HeardMove
<1>9. Calm
  BY <1>1, <1>6 DEF Calm, Lead
<1>10. Commits
  BY <1>0, <1>1 DEF Commits, CommitMove, CommitsHeld
<1>11. ReadsOK'
  <2>1. PICK rs : rs = reads
    OBVIOUS
  <2>2. \A r \in Read : rs[r].phase = "held" =>
           Lead(rs[r].server)' /\ term'[rs[r].server] = term[rs[r].server]
    BY <1>0, <1>1, <2>1 DEF ReadOK, Lead
  <2> QED
    BY <1>0, <1>1, <1>5, <1>8, <1>9, <2>1, <2>2, ReadsFollow DEF Turn
<1> QED
  BY <1>0, <1>1, <1>5, <1>8, <1>9, <1>10, <1>11 DEF Stepped, Turn, StoresKept, Unasked

LEMMA ApplyOK ==
    ASSUME ReadAssumption, Inv, NEW m \in Member, Apply(m)
    PROVE  Stepped /\ Unasked /\ committed' = committed
<1>0. /\ Types /\ Raft /\ CommitsHeld /\ StoresKept
      /\ reads \in [Read -> Barriers] /\ \A r \in Read : ReadOK(reads[r])
  BY DEF Inv, Types, ReadsOK
<1>1. /\ UNCHANGED <<term, role, leader, log, commit, sequence, heard, match, retired,
                     frames, reads, committed>>
      /\ applied' = [applied EXCEPT ![m] = commit[m]]
  BY DEF Apply, core
<1>2. \A p \in Member : /\ term'[p] >= term[p] /\ commit'[p] >= commit[p]
                        /\ term'[p] <= term[p] /\ sequence'[p] >= sequence[p]
                        /\ commit[p] \in Nat /\ commit[p] <= commit[p]
  BY <1>0, <1>1 DEF Types
<1>3. applied \in [Member -> Nat] /\ applied' \in [Member -> Nat]
      /\ \A p \in Member : applied'[p] <= commit'[p]
  <2>1. applied \in [Member -> Nat] /\ \A p \in Member : applied[p] <= commit[p]
    BY <1>0 DEF Types, CommitsHeld
  <2> QED
    BY <1>1, <1>2, <2>1
<1>4. Types'
  BY <1>0, <1>1, <1>3 DEF Types
<1>5. \A k \in Link : FlightMove(k)
  BY <1>1 DEF FlightMove, Flight
<1>6. Moves
  BY <1>1, <1>2, <1>5 DEF Moves, LogMove, CreditMove, HeardMove
<1>7. Calm
  BY <1>1, <1>2 DEF Calm, Lead
<1>8. Commits
  BY <1>1, <1>3 DEF Commits, CommitMove
<1>9. ReadsOK'
  <2>1. PICK rs : rs = reads
    OBVIOUS
  <2>2. \A r \in Read : rs[r].phase = "held" =>
           Lead(rs[r].server)' /\ term'[rs[r].server] = term[rs[r].server]
    BY <1>0, <1>1, <2>1 DEF ReadOK, Lead
  <2> QED
    BY <1>0, <1>1, <1>4, <1>6, <1>7, <2>1, <2>2, ReadsFollow DEF Turn
<1> QED
  BY <1>0, <1>1, <1>4, <1>6, <1>7, <1>8, <1>9 DEF Stepped, Turn, StoresKept, Unasked

LEMMA OnStaleReplyOK ==
    ASSUME ReadAssumption, Inv, NEW l \in Link, OnStaleReply(l)
    PROVE  Stepped /\ Unasked /\ committed' = committed
<1>0. /\ Types /\ Raft /\ CommitsHeld /\ StoresKept
      /\ reads \in [Read -> Barriers] /\ \A r \in Read : ReadOK(reads[r])
  BY DEF Inv, Types, ReadsOK
<1>1. /\ UNCHANGED <<term, role, leader, log, commit, sequence, heard, match, applied,
                     retired, reads, committed>>
      /\ frames[l] # <<>> /\ frames' = [frames EXCEPT ![l] = Tail(@)]
  BY DEF OnStaleReply, core
<1>2. \A p \in Member : /\ term'[p] >= term[p] /\ commit'[p] >= commit[p]
                        /\ term'[p] <= term[p] /\ sequence'[p] >= sequence[p]
  BY <1>0, <1>1 DEF Types
<1>3. frames' \in [Link -> Seq(Frames)] /\ \A k \in Link : FlightMove(k)
  <2>1. PICK net : net = frames'
    OBVIOUS
  <2>2. /\ net \in [Link -> Seq(Frames)]
        /\ \A k \in Link : On(net, k) \subseteq Flight(k)
    BY <1>0, <1>1, <2>1, TakenOff
  <2>3. \A k \in Link : Flight(k)' \subseteq Flight(k)
    BY <2>1, <2>2 DEF On, Flight
  <2> QED
    BY <2>1, <2>2, <2>3 DEF FlightMove
<1>4. Types'
  BY <1>0, <1>1, <1>3 DEF Types, Frames
<1>5. Moves
  BY <1>1, <1>2, <1>3 DEF Moves, LogMove, CreditMove, HeardMove
<1>6. Calm
  BY <1>1, <1>2 DEF Calm, Lead
<1>7. Commits
  BY <1>0, <1>1 DEF Commits, CommitMove, CommitsHeld
<1>8. ReadsOK'
  <2>1. PICK rs : rs = reads
    OBVIOUS
  <2>2. \A r \in Read : rs[r].phase = "held" =>
           Lead(rs[r].server)' /\ term'[rs[r].server] = term[rs[r].server]
    BY <1>0, <1>1, <2>1 DEF ReadOK, Lead
  <2> QED
    BY <1>0, <1>1, <1>4, <1>5, <1>6, <2>1, <2>2, ReadsFollow DEF Turn
<1> QED
  BY <1>0, <1>1, <1>4, <1>5, <1>6, <1>7, <1>8 DEF Stepped, Turn, StoresKept, Unasked

LEMMA OnReplyOfLaterTermOK ==
    ASSUME ReadAssumption, Inv, NEW l \in Link, OnReplyOfLaterTerm(l)
    PROVE  Stepped /\ Unasked /\ committed' = committed
<1>0. /\ Types /\ Raft /\ CommitsHeld /\ StoresKept /\ ReadsOK
      /\ term \in [Member -> Nat] /\ role \in [Member -> {"leader", "follower"}]
      /\ leader \in [Member -> Member \cup {None}]
  BY DEF Inv, Types
<1>1. PICK f, m : f = Head(frames[l]) /\ m = l[2]
  OBVIOUS
<1>2. /\ UNCHANGED <<log, commit, sequence, heard, match, applied, retired, committed>>
      /\ frames[l] # <<>> /\ f.kind = "reply" /\ f.term > term[m]
      /\ frames' = [frames EXCEPT ![l] = Tail(@)]
      /\ term' = [term EXCEPT ![m] = f.term]
      /\ role' = [role EXCEPT ![m] = "follower"]
      /\ leader' = [leader EXCEPT ![m] = None]
      /\ reads' = FailReads(m, reads)
  BY <1>1 DEF OnReplyOfLaterTerm
<1>3. /\ m \in Member /\ l[1] \in Member /\ f.term \in Nat /\ f.term <= term[l[1]]
  <2>1. f \in Answers(l) /\ l[1] \in Member /\ l[2] \in Member
    BY <1>0, <1>1, <1>2, HeadInFlight, Links
  <2> QED
    BY <1>0, <1>1, <2>1, AnswerTyped DEF Raft, FlightBehind
<1>4. /\ term' \in [Member -> Nat] /\ role' \in [Member -> {"leader", "follower"}]
      /\ leader' \in [Member -> Member \cup {None}]
      /\ ~Lead(m)' /\ \A p \in Member : p # m => term'[p] = term[p] /\ (Lead(p)' <=> Lead(p))
      /\ term'[m] = f.term
  BY <1>0, <1>2, <1>3 DEF Lead
<1>5. \A p \in Member : /\ term'[p] >= term[p] /\ commit'[p] >= commit[p]
                        /\ sequence'[p] >= sequence[p]
                        /\ \E y \in Member : term'[p] <= term[y]
  <2>1. \A p \in Member : commit'[p] >= commit[p] /\ sequence'[p] >= sequence[p]
    BY <1>0, <1>2 DEF Types
  <2>2. \A p \in Member : term'[p] >= term[p] /\ \E y \in Member : term'[p] <= term[y]
    BY <1>0, <1>2, <1>3, <1>4
  <2> QED
    BY <2>1, <2>2
<1>6. frames' \in [Link -> Seq(Frames)] /\ \A k \in Link : FlightMove(k)
  <2>1. PICK net : net = frames'
    OBVIOUS
  <2>2. /\ net \in [Link -> Seq(Frames)]
        /\ \A k \in Link : On(net, k) \subseteq Flight(k)
    BY <1>0, <1>2, <2>1, TakenOff
  <2>3. \A k \in Link : Flight(k)' \subseteq Flight(k)
    BY <2>1, <2>2 DEF On, Flight
  <2> QED
    BY <2>1, <2>2, <2>3 DEF FlightMove
<1>7. PICK rs : rs = FailReads(m, reads)
  OBVIOUS
<1>8. /\ rs \in [Read -> Barriers]
      /\ \A r \in Read : /\ ReadOK(rs[r]) /\ rs[r].must = reads[r].must
                         /\ rs[r].got = reads[r].got
                         /\ rs[r].phase = "held" => rs[r].server # m
  BY <1>0, <1>3, <1>7, FailReadsOK
<1>9. Types'
  BY <1>0, <1>2, <1>4, <1>6, <1>7, <1>8 DEF Types, Frames
<1>10. Moves
  BY <1>2, <1>5, <1>6 DEF Moves, LogMove, CreditMove, HeardMove
<1>11. Calm
  BY <1>4, <1>5 DEF Calm
<1>12. Commits
  BY <1>0, <1>2 DEF Commits, CommitMove, CommitsHeld
<1>13. ReadsOK'
  <2>1. \A r \in Read : rs[r].phase = "held" =>
           Lead(rs[r].server)' /\ term'[rs[r].server] = term[rs[r].server]
    BY <1>4, <1>8 DEF ReadOK
  <2> QED
    BY <1>0, <1>2, <1>7, <1>8, <1>9, <1>10, <1>11, <2>1, ReadsFollow DEF Turn
<1>14. Unasked
  BY <1>2, <1>7, <1>8 DEF Unasked
<1> QED
  BY <1>0, <1>2, <1>9, <1>10, <1>11, <1>12, <1>13, <1>14 DEF Stepped, Turn, StoresKept

\* A table of tables with the row of m replaced.
LEMMA RowReplaced ==
    ASSUME NEW h, DOMAIN h = Member, h = [x \in Member |-> h[x]],
           \A x \in Member : h[x] \in [Peers(x) -> Nat],
           NEW m \in Member, NEW row \in [Peers(m) -> Nat], NEW g,
           g = [h EXCEPT ![m] = row]
    PROVE  /\ DOMAIN g = Member /\ g = [x \in Member |-> g[x]]
           /\ \A x \in Member : g[x] \in [Peers(x) -> Nat]
           /\ g[m] = row /\ \A x \in Member : x # m => g[x] = h[x]
<1>1. g = [x \in Member |-> IF x = m THEN row ELSE h[x]]
  OBVIOUS
<1> QED
  BY <1>1

LEMMA ElectOK ==
    ASSUME ReadAssumption, Inv, NEW m \in Member, NEW q \in SUBSET Member,
           NEW t \in Nat, Elect(m, q, t)
    PROVE  Stepped /\ Unasked /\ committed' = committed
<1>0. /\ Types /\ Raft /\ CommitsHeld /\ StoresKept
      /\ reads \in [Read -> Barriers] /\ \A r \in Read : ReadOK(reads[r])
  BY DEF Inv, Types, ReadsOK
<1>1. /\ UNCHANGED <<commit, applied, retired, committed>>
      /\ m \in q /\ Cardinality(q) >= Quorum
      /\ \A p \in q : term[p] < t /\ UpToDate(log[p], log[m])
      /\ term' = [p \in Member |-> IF p \in q THEN t ELSE term[p]]
      /\ role' = [p \in Member |->
                    IF p = m THEN "leader"
                    ELSE IF p \in q THEN "follower" ELSE role[p]]
      /\ leader' = [p \in Member |->
                      IF p = m THEN m ELSE IF p \in q THEN None ELSE leader[p]]
      /\ log' = [log EXCEPT ![m] = Append(@, t)]
      /\ heard' = [heard EXCEPT ![m] = [p \in Peers(m) |-> 0]]
      /\ match' = [match EXCEPT ![m] = [p \in Peers(m) |-> 0]]
      /\ Replicate(m, log'[m], commit[m], t)
      /\ reads' = [r \in Read |->
            IF \E p \in q : r \in Held(p, reads)
            THEN [reads[r] EXCEPT !.phase = "refused"] ELSE reads[r]]
  BY DEF Elect
<1>2. /\ log \in [Member -> Seq(Nat)] /\ commit[m] \in Nat
      /\ frames \in [Link -> Seq(Frames)]
      /\ role \in [Member -> {"leader", "follower"}] /\ term \in [Member -> Nat]
      /\ leader \in [Member -> Member \cup {None}]
  BY <1>0 DEF Types, Frames
<1>3. /\ log' \in [Member -> Seq(Nat)] /\ log'[m] = Append(log[m], t)
      /\ \A p \in Member : p # m => log'[p] = log[p]
  <2>1. PICK u : u = Append(log[m], t)
    OBVIOUS
  <2>2. u \in Seq(Nat)
    BY <1>2, <2>1, Extended
  <2>3. log' = [log EXCEPT ![m] = u]
    BY <1>1, <2>1
  <2> QED
    BY <1>2, <2>1, <2>2, <2>3
<1>4. /\ term' \in [Member -> Nat] /\ role' \in [Member -> {"leader", "follower"}]
      /\ leader' \in [Member -> Member \cup {None}]
      /\ \A p \in q : term'[p] = t
      /\ \A p \in Member : p \notin q => term'[p] = term[p] /\ (Lead(p)' <=> Lead(p))
      /\ Lead(m)' /\ \A p \in q : p # m => ~Lead(p)'
  BY <1>1, <1>2 DEF Lead
<1>5. /\ DOMAIN heard' = Member /\ heard' = [x \in Member |-> heard'[x]]
      /\ \A x \in Member : heard'[x] \in [Peers(x) -> Nat]
      /\ heard'[m] = [p \in Peers(m) |-> 0]
      /\ \A x \in Member : x # m => heard'[x] = heard[x]
  <2>1. [p \in Peers(m) |-> 0] \in [Peers(m) -> Nat]
    OBVIOUS
  <2>2. PICK g : g = heard'
    OBVIOUS
  <2> QED
    BY <1>0, <1>1, <2>1, <2>2, RowReplaced DEF Types
<1>6. /\ DOMAIN match' = Member /\ match' = [x \in Member |-> match'[x]]
      /\ \A x \in Member : match'[x] \in [Peers(x) -> Nat]
      /\ match'[m] = [p \in Peers(m) |-> 0]
      /\ \A x \in Member : x # m => match'[x] = match[x]
  <2>1. [p \in Peers(m) |-> 0] \in [Peers(m) -> Nat]
    OBVIOUS
  <2>2. PICK g : g = match'
    OBVIOUS
  <2> QED
    BY <1>0, <1>1, <2>1, <2>2, RowReplaced DEF Types
<1>7. /\ frames' \in [Link -> Seq(Frames)] /\ sequence' \in [Member -> Nat]
      /\ \A p \in Member : sequence'[p] >= sequence[p]
      /\ \A k \in Link : \A g \in Flight(k)' :
            g \in Flight(k) \/ (k[1] = m /\ FreshAppend(k, g))
  <2>1. PICK L : L = log'[m]
    OBVIOUS
  <2>2. L \in Seq(Nat) /\ commit[m] = commit'[m] /\ t = term'[m]
    BY <1>1, <1>3, <1>4, <2>1
  <2>3. /\ sequence' = [sequence EXCEPT ![m] = @ + 1]
        /\ frames' = ReplicateOn(frames, m, L, commit[m], t)
    BY <1>1, <2>1 DEF Replicate
  <2>4. \A k \in Link : On(frames, k) \subseteq Flight(k)
    BY DEF On, Flight
  <2> QED
    BY <1>0, <1>2, <1>4, <2>1, <2>2, <2>3, <2>4, Sends
<1>8. \A k \in Link : FlightMove(k)
  BY <1>7 DEF FlightMove
<1>9. PICK rs : rs = reads'
  OBVIOUS
<1>10. \A r \in Read : /\ rs[r] \in Barriers /\ ReadOK(rs[r])
                       /\ rs[r].must = reads[r].must /\ rs[r].got = reads[r].got
                       /\ rs[r].phase = "held" => rs[r].server \notin q
  <2>1. ASSUME NEW r \in Read, NEW S,
               S = IF \E p \in q : r \in Held(p, reads)
                   THEN [reads[r] EXCEPT !.phase = "refused"] ELSE reads[r]
        PROVE  /\ S \in Barriers /\ ReadOK(S) /\ S.must = reads[r].must
               /\ S.got = reads[r].got /\ (S.phase = "held" => S.server \notin q)
    <3>0. reads[r] \in Barriers /\ ReadOK(reads[r])
      BY <1>0
    <3>1. CASE \E p \in q : r \in Held(p, reads)
      <4>1. reads[r].phase = "held" /\ S = [reads[r] EXCEPT !.phase = "refused"]
        BY <2>1, <3>1 DEF Held
      <4> QED
        BY <3>0, <4>1, ReadRefused
    <3>2. CASE ~ \E p \in q : r \in Held(p, reads)
      <4>1. S = reads[r]
        BY <2>1, <3>2
      <4>2. reads[r].phase = "held" => reads[r].server \notin q
        BY <3>2 DEF Held
      <4> QED
        BY <3>0, <4>1, <4>2
    <3> QED
      BY <3>1, <3>2
  <2> QED
    BY <1>1, <1>9, <2>1
<1>11. rs \in [Read -> Barriers]
  BY <1>1, <1>9, <1>10
<1>12. Types'
  BY <1>0, <1>1, <1>3, <1>4, <1>5, <1>6, <1>7, <1>9, <1>11 DEF Types, Frames
<1>13. \A p \in Member : term'[p] >= term[p]
  BY <1>1, <1>2, <1>4
<1>14. \A p \in Member : LogMove(p)
  BY <1>1, <1>3, <1>4 DEF LogMove
<1>15. \A x \in Member : \A p \in Peers(x) : CreditMove(x, p) /\ HeardMove(x, p)
  BY <1>5, <1>6 DEF CreditMove, HeardMove
<1>16. Moves
  BY <1>7, <1>8, <1>13, <1>14, <1>15 DEF Moves
<1>17. ElectedBy(m, q, t) /\ q \in Quorums
  <2>1. q \in Quorums
    BY <1>1 DEF Quorums
  <2>2. \A p \in Peers(m) : match'[m][p] = 0
    BY <1>6
  <2>3. \A p \in Member : log'[p] = IF p = m THEN Append(log[m], t) ELSE log[p]
    BY <1>3
  <2>4. \A x \in Member : x # m /\ Lead(x)' => Lead(x) /\ x \notin q
    BY <1>4
  <2> QED
    BY <1>1, <1>4, <1>7, <2>1, <2>2, <2>3, <2>4 DEF ElectedBy
<1>18. Turn
  BY <1>17 DEF Turn
<1>19. Commits
  BY <1>0, <1>1 DEF Commits, CommitMove, CommitsHeld
<1>20. ReadsOK'
  <2>1. \A r \in Read : rs[r].phase = "held" =>
           Lead(rs[r].server)' /\ term'[rs[r].server] = term[rs[r].server]
    BY <1>4, <1>10 DEF ReadOK
  <2>2. \A r \in Read : ReadOK(rs[r])
    BY <1>10
  <2> QED
    BY <1>0, <1>9, <1>11, <1>12, <1>16, <1>18, <2>1, <2>2, ReadsFollow
<1>21. Unasked
  BY <1>9, <1>10 DEF Unasked
<1> QED
  BY <1>0, <1>1, <1>12, <1>16, <1>18, <1>19, <1>20, <1>21 DEF Stepped, StoresKept

\* The greater and the lesser of two.
LEMMA MaxMin ==
    ASSUME NEW a \in Nat, NEW b \in Nat
    PROVE  /\ Max({a, b}) \in Nat /\ Max({a, b}) >= a
           /\ Max({a, b}) = a \/ Max({a, b}) = b
           /\ Min({a, b}) \in Nat /\ Min({a, b}) <= a /\ Min({a, b}) <= b
<1>1. \E x \in {a, b} : \A y \in {a, b} : x >= y
  OBVIOUS
<1>2. Max({a, b}) \in {a, b} /\ \A y \in {a, b} : Max({a, b}) >= y
  BY <1>1 DEF Max
<1>3. \E x \in {a, b} : \A y \in {a, b} : x <= y
  OBVIOUS
<1>4. Min({a, b}) \in {a, b} /\ \A y \in {a, b} : Min({a, b}) <= y
  BY <1>3 DEF Min
<1> QED
  BY <1>2, <1>4

\* A frame is taken off the link l and another put on k.
Answering(l, k, e) == [frames EXCEPT ![l] = Tail(@), ![k] = Append(@, e)]

LEMMA PutOn ==
    ASSUME Types, NEW l \in Link, frames[l] # <<>>, NEW k \in Link, k # l,
           NEW e \in Frames, NEW net, net = Answering(l, k, e)
    PROVE  /\ net \in [Link -> Seq(Frames)]
           /\ \A j \in Link : \A g \in On(net, j) : g \in Flight(j) \/ (j = k /\ g = e)
<1>1. frames \in [Link -> Seq(Frames)]
  BY DEF Types, Frames
<1>2. /\ Tail(frames[l]) \in Seq(Frames)
      /\ \A i \in 1 .. Len(Tail(frames[l])) :
            \E j \in 1 .. Len(frames[l]) : Tail(frames[l])[i] = frames[l][j]
  BY <1>1, TailItems
<1>3. frames[k] \in Seq(Frames)
  BY <1>1
<1>4. PICK s : s = Append(frames[k], e)
  OBVIOUS
<1>5. /\ s \in Seq(Frames)
      /\ \A i \in 1 .. Len(s) : s[i] = e \/ \E j \in 1 .. Len(frames[k]) : s[i] = frames[k][j]
  BY <1>3, <1>4, AppendItems
<1>6. net \in [Link -> Seq(Frames)] /\ net[l] = Tail(frames[l]) /\ net[k] = s
      /\ \A j \in Link : j # l /\ j # k => net[j] = frames[j]
  BY <1>1, <1>2, <1>4, <1>5 DEF Answering
<1>7. \A g \in On(net, k) : g \in Flight(k) \/ g = e
  BY <1>5, <1>6 DEF On, Flight
<1>8. ASSUME NEW g \in On(net, l) PROVE g \in Flight(l)
  <2>1. PICK i \in 1 .. Len(net[l]) : g = net[l][i]
    BY DEF On
  <2>2. PICK j \in 1 .. Len(frames[l]) : g = frames[l][j]
    BY <1>2, <1>6, <2>1
  <2> QED
    BY <2>2 DEF Flight
<1>9. \A j \in Link : j # l /\ j # k => \A g \in On(net, j) : g \in Flight(j)
  BY <1>6 DEF On, Flight
<1> QED
  BY <1>6, <1>7, <1>8, <1>9

\* An append of an ended term is rejected (_append_reject).
LEMMA OnAppendStale ==
    ASSUME ReadAssumption, Inv, NEW l \in Link, frames[l] # <<>>,
           UNCHANGED <<term, role, leader, log, commit, sequence, heard, match, applied,
                       retired, reads, committed>>,
           NEW e \in Frames, e.kind = "reply", e.id = 0, e.match = 0,
           e.term = term[l[2]],
           frames' = Answering(l, <<l[2], l[1]>>, e)
    PROVE  Stepped /\ Unasked
<1>0. /\ Types /\ Raft /\ CommitsHeld /\ StoresKept
      /\ reads \in [Read -> Barriers] /\ \A r \in Read : ReadOK(reads[r])
  BY DEF Inv, Types, ReadsOK
<1>1. /\ l[1] \in Member /\ l[2] \in Member /\ l[1] # l[2] /\ l = <<l[1], l[2]>>
      /\ <<l[2], l[1]>> \in Link /\ <<l[2], l[1]>> # l
  BY Links
<1>2. term[l[2]] \in Nat
  BY <1>0, <1>1 DEF Types
<1>3. e \in Frames /\ e.kind = "reply" /\ e.id = 0 /\ e.match = 0 /\ e.term = term'[l[2]]
  OBVIOUS
<1>4. \A p \in Member : /\ term'[p] >= term[p] /\ commit'[p] >= commit[p]
                        /\ term'[p] <= term[p] /\ sequence'[p] >= sequence[p]
  BY <1>0 DEF Types
<1>5. frames' \in [Link -> Seq(Frames)] /\ \A k \in Link : FlightMove(k)
  <2>1. PICK net : net = frames'
    OBVIOUS
  <2>2. PICK k \in Link : k = <<l[2], l[1]>> /\ k # l
    BY <1>1
  <2>3. net = Answering(l, k, e)
    BY <2>1, <2>2
  <2>4. /\ net \in [Link -> Seq(Frames)]
        /\ \A j \in Link : \A g \in On(net, j) : g \in Flight(j) \/ (j = k /\ g = e)
    <3>1. Types
      BY <1>0
    <3>2. k # l
      BY <2>2
    <3> QED
      BY <3>1, <3>2, <2>3, PutOn, Zenon
  <2>5. FreshAnswer(k, e)
    BY <1>3, <2>2 DEF FreshAnswer
  <2>6. \A j \in Link : Flight(j)' = On(net, j)
    BY <2>1 DEF On, Flight
  <2> QED
    BY <2>1, <2>4, <2>5, <2>6 DEF FlightMove
<1>6. Types'
  BY <1>0, <1>5 DEF Types, Frames
<1>7. Moves
  BY <1>4, <1>5 DEF Moves, LogMove, CreditMove, HeardMove
<1>8. Calm
  BY <1>4 DEF Calm, Lead
<1>9. Commits
  BY <1>0 DEF Commits, CommitMove, CommitsHeld
<1>10. ReadsOK'
  <2>1. PICK rs : rs = reads
    OBVIOUS
  <2>2. \A r \in Read : rs[r].phase = "held" =>
           Lead(rs[r].server)' /\ term'[rs[r].server] = term[rs[r].server]
    BY <1>0, <2>1 DEF ReadOK, Lead
  <2> QED
    BY <1>0, <1>6, <1>7, <1>8, <2>1, <2>2, ReadsFollow DEF Turn
<1> QED
  BY <1>0, <1>6, <1>7, <1>8, <1>9, <1>10 DEF Stepped, Turn, StoresKept, Unasked

\* An append of this term or a later one is taken.
LEMMA OnAppendTaken ==
    ASSUME ReadAssumption, Inv, NEW l \in Link, frames[l] # <<>>,
           NEW f, f = Head(frames[l]), f.kind = "append",
           NEW m, m = l[2], f.term >= term[m],
           UNCHANGED <<sequence, heard, match, applied, retired, committed>>,
           NEW e \in Frames, e.kind = "reply", e.id = f.id, e.match = Len(f.log),
           e.term = f.term,
           frames' = Answering(l, <<l[2], l[1]>>, e),
           term' = [term EXCEPT ![m] = f.term],
           role' = [role EXCEPT ![m] = "follower"],
           leader' = [leader EXCEPT ![m] = l[1]],
           log' = [log EXCEPT ![m] = IF IsPrefixOf(f.log, @) THEN @ ELSE f.log],
           commit' = [commit EXCEPT ![m] = Max({@, Min({f.commit, Len(f.log)})})],
           reads' = FailReads(m, reads)
    PROVE  Stepped /\ Unasked
<1>0. /\ Types /\ Raft /\ CommitsHeld /\ StoresKept /\ ReadsOK
      /\ term \in [Member -> Nat] /\ role \in [Member -> {"leader", "follower"}]
      /\ leader \in [Member -> Member \cup {None}] /\ log \in [Member -> Seq(Nat)]
      /\ commit \in [Member -> Nat]
  BY DEF Inv, Types
<1>1. /\ l[1] \in Member /\ m \in Member /\ l[1] # m /\ l = <<l[1], m>>
      /\ <<m, l[1]>> \in Link /\ <<m, l[1]>> # l /\ l[1] \in Peers(m)
  BY Links DEF Peers
<1>2. /\ f \in Sent(l) /\ f.id \in Nat /\ f.term \in Nat /\ f.log \in Seq(Nat)
      /\ f.commit \in Nat /\ f.term <= term[l[1]]
  <2>1. f \in Sent(l)
    BY <1>0, HeadInFlight
  <2> QED
    BY <1>0, <2>1, SentTyped DEF Raft, FlightBehind
<1>3. /\ term' \in [Member -> Nat] /\ role' \in [Member -> {"leader", "follower"}]
      /\ leader' \in [Member -> Member \cup {None}]
      /\ ~Lead(m)' /\ \A p \in Member : p # m => term'[p] = term[p] /\ (Lead(p)' <=> Lead(p))
      /\ term'[m] = f.term
  BY <1>0, <1>1, <1>2 DEF Lead
<1>4. /\ log' \in [Member -> Seq(Nat)] /\ \A p \in Member : p # m => log'[p] = log[p]
      /\ \/ log'[m] = log[m] /\ Begins(f.log, log[m])
         \/ log'[m] = f.log /\ ~Begins(f.log, log[m])
  <2>1. IsPrefixOf(f.log, log[m]) <=> Begins(f.log, log[m])
    BY <1>0, <1>1, <1>2, PrefixIsBegins
  <2>2. PICK u : u = IF IsPrefixOf(f.log, log[m]) THEN log[m] ELSE f.log
    OBVIOUS
  <2>3. log' = [log EXCEPT ![m] = u]
    BY <2>2
  <2>4. u \in Seq(Nat)
    BY <1>0, <1>1, <1>2, <2>2
  <2> QED
    BY <1>0, <1>1, <2>1, <2>2, <2>3, <2>4
<1>5. Begins(f.log, log'[m])
  BY <1>2, <1>4, BeginsSelf
<1>6. /\ commit' \in [Member -> Nat] /\ \A p \in Member : commit'[p] >= commit[p]
      /\ \A p \in Member : p # m => commit'[p] = commit[p]
      /\ \/ commit'[m] = commit[m]
         \/ commit'[m] <= f.commit /\ commit'[m] <= Len(f.log)
  <2>1. Len(f.log) \in Nat
    BY <1>2
  <2>2. PICK n : n = Min({f.commit, Len(f.log)})
    OBVIOUS
  <2>3. n \in Nat /\ n <= f.commit /\ n <= Len(f.log)
    BY <1>2, <2>1, <2>2, MaxMin
  <2>4. PICK c : c = Max({commit[m], n})
    OBVIOUS
  <2>5. commit \in [Member -> Nat] /\ commit[m] \in Nat
    BY <1>0, <1>1
  <2>6. c \in Nat /\ c >= commit[m] /\ (c = commit[m] \/ c = n)
    BY <2>3, <2>4, <2>5, MaxMin
  <2>7. commit' = [commit EXCEPT ![m] = c]
    BY <2>2, <2>4
  <2>8. commit' \in [Member -> Nat] /\ commit'[m] = c
        /\ \A p \in Member : p # m => commit'[p] = commit[p]
    BY <1>1, <2>5, <2>6, <2>7
  <2>9. ASSUME NEW p \in Member PROVE commit'[p] >= commit[p]
    <3>1. CASE p = m
      BY <2>6, <2>8, <3>1
    <3>2. CASE p # m
      <4>1. commit[p] \in Nat /\ commit'[p] = commit[p]
        BY <2>5, <2>8, <3>2
      <4> QED
        BY <4>1
    <3> QED
      BY <3>1, <3>2
  <2> QED
    BY <2>3, <2>6, <2>8, <2>9
<1>7. \A p \in Member : /\ term'[p] >= term[p] /\ sequence'[p] >= sequence[p]
                        /\ \E y \in Member : term'[p] <= term[y]
  <2>1. \A p \in Member : sequence'[p] >= sequence[p]
    BY <1>0 DEF Types
  <2>2. \A p \in Member : term'[p] >= term[p] /\ \E y \in Member : term'[p] <= term[y]
    BY <1>0, <1>1, <1>2, <1>3
  <2> QED
    BY <2>1, <2>2
<1>8. frames' \in [Link -> Seq(Frames)] /\ \A k \in Link : FlightMove(k)
  <2>1. PICK net : net = frames'
    OBVIOUS
  <2>2. PICK k \in Link : k = <<m, l[1]>> /\ k # l
    BY <1>1
  <2>3. net = Answering(l, k, e)
    BY <2>1, <2>2
  <2>4. /\ net \in [Link -> Seq(Frames)]
        /\ \A j \in Link : \A g \in On(net, j) : g \in Flight(j) \/ (j = k /\ g = e)
    <3>1. Types
      BY <1>0
    <3>2. k # l
      BY <2>2
    <3> QED
      BY <3>1, <3>2, <2>3, PutOn, Zenon
  <2>5. FreshAnswer(k, e)
    <3>1. k[1] = m /\ <<k[2], k[1]>> = l
      BY <1>1, <2>2
    <3> QED
      BY <1>2, <1>3, <1>5, <3>1 DEF FreshAnswer
  <2>6. \A j \in Link : Flight(j)' = On(net, j)
    BY <2>1 DEF On, Flight
  <2> QED
    BY <2>1, <2>4, <2>5, <2>6 DEF FlightMove
<1>9. PICK rs : rs = FailReads(m, reads)
  OBVIOUS
<1>10. /\ rs \in [Read -> Barriers]
       /\ \A r \in Read : /\ ReadOK(rs[r]) /\ rs[r].must = reads[r].must
                          /\ rs[r].got = reads[r].got
                          /\ rs[r].phase = "held" => rs[r].server # m
  BY <1>0, <1>1, <1>9, FailReadsOK
<1>11. Types'
  BY <1>0, <1>3, <1>4, <1>6, <1>8, <1>9, <1>10 DEF Types, Frames
<1>12. \A p \in Member : LogMove(p)
  <2>1. PICK x \in Peers(m) : l = <<x, m>>
    BY <1>1
  <2>2. f \in Sent(<<x, m>>) /\ f.term = term'[m] /\ ~Lead(m)'
    BY <1>2, <1>3, <2>1
  <2>3. LogMove(m)
    BY <1>4, <2>2 DEF LogMove
  <2> QED
    BY <1>4, <2>3 DEF LogMove
<1>13. Moves
  BY <1>7, <1>8, <1>12 DEF Moves, CreditMove, HeardMove
<1>14. Calm
  BY <1>3, <1>6, <1>7 DEF Calm
<1>15. Commits
  <2>1. \A p \in Member : CommitMove(p)
    <3>1. PICK x \in Peers(m) : l = <<x, m>>
      BY <1>1
    <3>2. f \in Sent(<<x, m>>) /\ f.term = term'[m]
      BY <1>2, <1>3, <3>1
    <3>3. CommitMove(m)
      BY <1>5, <1>6, <3>2 DEF CommitMove
    <3>4. \A p \in Member : p # m => CommitMove(p)
      BY <1>6 DEF CommitMove
    <3> QED
      BY <3>3, <3>4
  <2>2. ASSUME NEW p \in Member PROVE applied'[p] <= commit'[p]
    <3>1. applied[p] \in Nat /\ applied[p] <= commit[p] /\ applied'[p] = applied[p]
      BY <1>0 DEF Types, CommitsHeld
    <3>2. commit[p] \in Nat /\ commit'[p] \in Nat /\ commit'[p] >= commit[p]
      BY <1>0, <1>6
    <3> QED
      BY <3>1, <3>2
  <2> QED
    BY <2>1, <2>2 DEF Commits
<1>16. ReadsOK'
  <2>1. \A r \in Read : rs[r].phase = "held" =>
           Lead(rs[r].server)' /\ term'[rs[r].server] = term[rs[r].server]
    BY <1>3, <1>10 DEF ReadOK
  <2> QED
    BY <1>0, <1>9, <1>10, <1>11, <1>13, <1>14, <2>1, ReadsFollow DEF Turn
<1>17. Unasked
  BY <1>9, <1>10 DEF Unasked
<1> QED
  BY <1>0, <1>11, <1>13, <1>14, <1>15, <1>16, <1>17 DEF Stepped, Turn, StoresKept

LEMMA OnAppendOK ==
    ASSUME ReadAssumption, Inv, NEW l \in Link, OnAppend(l)
    PROVE  Stepped /\ Unasked /\ committed' = committed
<1>0. Types
  BY DEF Inv
<1>1. PICK f, m : f = Head(frames[l]) /\ m = l[2]
  OBVIOUS
<1>2. frames[l] # <<>> /\ f.kind = "append" /\ UNCHANGED <<applied, retired, committed>>
  BY <1>1 DEF OnAppend
<1>3. /\ m \in Member /\ term[m] \in Nat /\ f.id \in Nat /\ f.term \in Nat
      /\ f.log \in Seq(Nat)
  <2>1. f \in Sent(l) /\ m \in Member
    BY <1>0, <1>1, <1>2, HeadInFlight, Links
  <2> QED
    BY <1>0, <2>1, SentTyped DEF Types
<1>4. \/ /\ f.term < term[m]
         /\ frames' = Answering(l, <<m, l[1]>>,
               [kind |-> "reply", id |-> 0, term |-> term[m], match |-> 0])
         /\ UNCHANGED <<core, reads>>
      \/ /\ f.term >= term[m]
         /\ frames' = Answering(l, <<m, l[1]>>,
               [kind |-> "reply", id |-> f.id, term |-> f.term, match |-> Len(f.log)])
         /\ term' = [term EXCEPT ![m] = f.term]
         /\ role' = [role EXCEPT ![m] = "follower"]
         /\ leader' = [leader EXCEPT ![m] = l[1]]
         /\ log' = [log EXCEPT ![m] = IF IsPrefixOf(f.log, @) THEN @ ELSE f.log]
         /\ commit' = [commit EXCEPT ![m] = Max({@, Min({f.commit, Len(f.log)})})]
         /\ reads' = FailReads(m, reads)
         /\ UNCHANGED <<sequence, heard, match>>
  BY <1>1 DEF OnAppend, Answering
<1>5. f.term < term[m] <=> ~(f.term >= term[m])
  BY <1>3
<1>6. CASE f.term < term[m]
  <2>1. PICK e : e = [kind |-> "reply", id |-> 0, term |-> term[m], match |-> 0]
    OBVIOUS
  <2>2. e \in Frames /\ e.kind = "reply" /\ e.id = 0 /\ e.match = 0 /\ e.term = term[l[2]]
    BY <1>1, <1>3, <2>1 DEF Frames, Replies
  <2>3. frames' = Answering(l, <<l[2], l[1]>>, e) /\ UNCHANGED <<core, reads>>
    BY <1>1, <1>6, <1>4, <1>5, <2>1, Zenon
  <2>4. UNCHANGED <<term, role, leader, log, commit, sequence, heard, match, applied,
                    retired, reads, committed>>
    BY <1>2, <2>3 DEF core
  <2> QED
    BY <1>2, <2>2, <2>3, <2>4, OnAppendStale
<1>7. CASE f.term >= term[m]
  <2>1. PICK e : e = [kind |-> "reply", id |-> f.id, term |-> f.term,
                      match |-> Len(f.log)]
    OBVIOUS
  <2>2. Len(f.log) \in Nat
    BY <1>3
  <2>3. /\ e \in Frames /\ e.kind = "reply" /\ e.id = f.id /\ e.match = Len(f.log)
        /\ e.term = f.term
    BY <1>3, <2>1, <2>2 DEF Frames, Replies
  <2>4. /\ frames' = Answering(l, <<l[2], l[1]>>, e)
        /\ term' = [term EXCEPT ![m] = f.term]
        /\ role' = [role EXCEPT ![m] = "follower"]
        /\ leader' = [leader EXCEPT ![m] = l[1]]
        /\ log' = [log EXCEPT ![m] = IF IsPrefixOf(f.log, @) THEN @ ELSE f.log]
        /\ commit' = [commit EXCEPT ![m] = Max({@, Min({f.commit, Len(f.log)})})]
        /\ reads' = FailReads(m, reads)
        /\ UNCHANGED <<sequence, heard, match>>
    BY <1>1, <1>7, <1>4, <1>5, <2>1, Zenon
  <2> QED
    BY <1>1, <1>2, <1>7, <2>3, <2>4, OnAppendTaken
<1> QED
  BY <1>3, <1>6, <1>7

\* One entry of a row is raised by an answer.
Raised(h, p, v) == [h EXCEPT ![p] = Max({@, v})]

LEMMA RowRaised ==
    ASSUME NEW m \in Member, NEW h \in [Peers(m) -> Nat], NEW p \in Peers(m), NEW v \in Nat,
           NEW row, row = Raised(h, p, v)
    PROVE  /\ row \in [Peers(m) -> Nat]
           /\ row[p] = h[p] \/ row[p] = v
           /\ \A y \in Peers(m) : y # p => row[y] = h[y]
<1>1. PICK c : c = Max({h[p], v})
  OBVIOUS
<1>2. c \in Nat /\ (c = h[p] \/ c = v)
  BY <1>1, MaxMin
<1>3. row = [h EXCEPT ![p] = c]
  BY <1>1 DEF Raised
<1> QED
  BY <1>2, <1>3

\* What m knows of its peers then.
LEMMA RowsMove ==
    ASSUME Types, NEW m \in Member,
           NEW theHeard \in [Peers(m) -> Nat], NEW theMatch \in [Peers(m) -> Nat],
           \A p \in Peers(m) :
              /\ \/ theHeard[p] = heard[m][p]
                 \/ \E a \in Answers(<<p, m>>) : a.term = term[m] /\ theHeard[p] = a.id
              /\ \/ theMatch[p] = match[m][p]
                 \/ \E a \in Answers(<<p, m>>) : a.term = term[m] /\ theMatch[p] = a.match,
           heard' = [heard EXCEPT ![m] = theHeard],
           match' = [match EXCEPT ![m] = theMatch]
    PROVE  /\ DOMAIN heard' = Member /\ heard' = [x \in Member |-> heard'[x]]
           /\ DOMAIN match' = Member /\ match' = [x \in Member |-> match'[x]]
           /\ \A x \in Member : /\ heard'[x] \in [Peers(x) -> Nat]
                                /\ match'[x] \in [Peers(x) -> Nat]
           /\ match'[m] = theMatch
           /\ \A x \in Member : \A p \in Peers(x) : CreditMove(x, p) /\ HeardMove(x, p)
<1>0. /\ DOMAIN heard = Member /\ heard = [x \in Member |-> heard[x]]
      /\ DOMAIN match = Member /\ match = [x \in Member |-> match[x]]
      /\ \A x \in Member : heard[x] \in [Peers(x) -> Nat] /\ match[x] \in [Peers(x) -> Nat]
  BY DEF Types
<1>1. /\ DOMAIN heard' = Member /\ heard' = [x \in Member |-> heard'[x]]
      /\ \A x \in Member : heard'[x] \in [Peers(x) -> Nat]
      /\ heard'[m] = theHeard /\ \A x \in Member : x # m => heard'[x] = heard[x]
  <2>1. PICK g : g = heard'
    OBVIOUS
  <2> QED
    BY <1>0, <2>1, RowReplaced
<1>2. /\ DOMAIN match' = Member /\ match' = [x \in Member |-> match'[x]]
      /\ \A x \in Member : match'[x] \in [Peers(x) -> Nat]
      /\ match'[m] = theMatch /\ \A x \in Member : x # m => match'[x] = match[x]
  <2>1. PICK g : g = match'
    OBVIOUS
  <2> QED
    BY <1>0, <2>1, RowReplaced
<1>3. ASSUME NEW x \in Member, NEW p \in Peers(x) PROVE HeardMove(x, p)
  <2>1. CASE x = m
    BY <1>1, <2>1 DEF HeardMove
  <2>2. CASE x # m
    BY <1>1, <2>2 DEF HeardMove
  <2> QED
    BY <2>1, <2>2
<1>4. ASSUME NEW x \in Member, NEW p \in Peers(x) PROVE CreditMove(x, p)
  <2>1. CASE x = m
    BY <1>2, <2>1 DEF CreditMove
  <2>2. CASE x # m
    BY <1>2, <2>2 DEF CreditMove
  <2> QED
    BY <2>1, <2>2
<1> QED
  BY <1>1, <1>2, <1>3, <1>4

\* An answer of this leadership raises what m has heard and been told.
LEMMA RowsOfReply ==
    ASSUME Types, NEW m \in Member, NEW p0 \in Peers(m),
           NEW f \in Answers(<<p0, m>>), f.term = term[m],
           NEW theHeard, theHeard = Raised(heard[m], p0, f.id),
           NEW theMatch, theMatch = Raised(match[m], p0, f.match)
    PROVE  /\ theHeard \in [Peers(m) -> Nat] /\ theMatch \in [Peers(m) -> Nat]
           /\ \A p \in Peers(m) :
                 /\ \/ theHeard[p] = heard[m][p]
                    \/ \E a \in Answers(<<p, m>>) : a.term = term[m] /\ theHeard[p] = a.id
                 /\ \/ theMatch[p] = match[m][p]
                    \/ \E a \in Answers(<<p, m>>) : a.term = term[m] /\ theMatch[p] = a.match
<1>0. heard[m] \in [Peers(m) -> Nat] /\ match[m] \in [Peers(m) -> Nat]
  BY DEF Types
<1>1. f.id \in Nat /\ f.match \in Nat
  BY AnswerTyped, Links DEF Peers
<1>2. PICK h, id : h = heard[m] /\ id = f.id
  OBVIOUS
<1>3. /\ theHeard \in [Peers(m) -> Nat]
      /\ theHeard[p0] = heard[m][p0] \/ theHeard[p0] = f.id
      /\ \A y \in Peers(m) : y # p0 => theHeard[y] = heard[m][y]
  <2>1. theHeard = Raised(h, p0, id)
    BY <1>2
  <2>2. h \in [Peers(m) -> Nat] /\ id \in Nat
    BY <1>0, <1>1, <1>2
  <2>3. /\ theHeard \in [Peers(m) -> Nat]
        /\ theHeard[p0] = h[p0] \/ theHeard[p0] = id
        /\ \A y \in Peers(m) : y # p0 => theHeard[y] = h[y]
    BY <2>1, <2>2, RowRaised
  <2> QED
    BY <1>2, <2>3
<1>4. PICK g, k : g = match[m] /\ k = f.match
  OBVIOUS
<1>5. /\ theMatch \in [Peers(m) -> Nat]
      /\ theMatch[p0] = match[m][p0] \/ theMatch[p0] = f.match
      /\ \A y \in Peers(m) : y # p0 => theMatch[y] = match[m][y]
  <2>1. theMatch = Raised(g, p0, k)
    BY <1>4
  <2>2. g \in [Peers(m) -> Nat] /\ k \in Nat
    BY <1>0, <1>1, <1>4
  <2>3. /\ theMatch \in [Peers(m) -> Nat]
        /\ theMatch[p0] = g[p0] \/ theMatch[p0] = k
        /\ \A y \in Peers(m) : y # p0 => theMatch[y] = g[y]
    BY <2>1, <2>2, RowRaised
  <2> QED
    BY <1>4, <2>3
<1> QED
  BY <1>1, <1>3, <1>5

\* What a quorum holds is gathered (_advance_commit).
LEMMA CommittableGathers ==
    ASSUME ReadAssumption, Types, NEW m \in Member, Lead(m)', log' = log, term' = term,
           NEW g \in [Peers(m) -> Nat], match'[m] = g,
           NEW k \in Committable(m, g), commit' = [commit EXCEPT ![m] = k]
    PROVE  Gathers(m, k) /\ k \in 1 .. Len(log[m]) /\ k > commit[m]
<1>1. /\ k \in 1 .. Len(log[m]) /\ k > commit[m] /\ log[m][k] = term[m]
      /\ 1 + Cardinality({p \in Peers(m) : g[p] >= k}) >= Quorum
  BY DEF Committable
<1>2. commit'[m] = k
  BY DEF Types
<1>3. PICK C : C = {p \in Peers(m) : g[p] >= k}
  OBVIOUS
<1>4. C \cup {m} \in Quorums
  <2>1. IsFiniteSet(Member) /\ C \in SUBSET Member /\ m \notin C
    BY <1>3 DEF ReadAssumption, Peers
  <2>2. IsFiniteSet(C)
    BY <2>1, FS_Subset
  <2>3. Cardinality(C \cup {m}) = Cardinality(C) + 1 /\ Cardinality(C) \in Nat
    BY <2>1, <2>2, FS_AddElement, FS_CardinalityType
  <2>4. IsFiniteSet(Member) /\ Cardinality(Member) \in Nat
    BY <2>1, FS_CardinalityType
  <2> QED
    BY <1>1, <1>3, <2>1, <2>3, <2>4 DEF Quorums, Quorum
<1>5. ASSUME NEW p \in C PROVE p \in Peers(m) /\ k <= match'[m][p]
  <2>1. p \in Peers(m) /\ g[p] >= k /\ g[p] \in Nat
    BY <1>3
  <2> QED
    BY <1>1, <2>1
<1>6. C \cup {m} \subseteq Counted(m, k)'
  BY <1>5 DEF Counted
<1> QED
  BY <1>1, <1>2, <1>4, <1>6 DEF Gathers

LEMMA OnReplyOK ==
    ASSUME ReadAssumption, Inv, NEW l \in Link, OnReply(l)
    PROVE  /\ Stepped /\ Unasked
           /\ committed' = committed \/ (committed' \in Nat /\ committed' > committed)
<1>0. /\ Types /\ Raft /\ CommitsHeld /\ StoresKept /\ HeardBehind
      /\ reads \in [Read -> Barriers] /\ \A r \in Read : ReadOK(reads[r])
  BY DEF Inv, Types, ReadsOK
<1>1. PICK f, m, h, g : /\ f = Head(frames[l]) /\ m = l[2]
                        /\ h = Raised(heard[m], l[1], f.id)
                        /\ g = Raised(match[m], l[1], f.match)
  OBVIOUS
<1>2. PICK tail, confirmed : /\ tail = [frames EXCEPT ![l] = Tail(@)]
                             /\ confirmed = ConfirmReads(m, reads, h)
  OBVIOUS
<1>3. /\ frames[l] # <<>> /\ f.kind = "reply" /\ f.term = term[m] /\ Lead(m)
      /\ heard' = [heard EXCEPT ![m] = h] /\ match' = [match EXCEPT ![m] = g]
      /\ UNCHANGED <<term, role, leader, log, applied, retired>>
      /\ \/ /\ frames' = tail /\ reads' = confirmed
            /\ UNCHANGED <<commit, sequence, committed>>
         \/ \E k \in Committable(m, g) :
               /\ commit' = [commit EXCEPT ![m] = k]
               /\ committed' = IF k > committed THEN k ELSE committed
               /\ sequence' = [sequence EXCEPT ![m] = @ + 1]
               /\ frames' = ReplicateOn(tail, m, log[m], k, term[m])
               /\ reads' = IF Arms(m, confirmed, k)
                           THEN ArmReads(m, confirmed, k) ELSE confirmed
  BY <1>1, <1>2 DEF OnReply, Raised
<1>4. m \in Member /\ Lead(m)' /\ \A x \in Member : Lead(x)' <=> Lead(x)
  BY <1>1, <1>3, Links DEF Lead
<1>5. /\ h \in [Peers(m) -> Nat] /\ g \in [Peers(m) -> Nat]
      /\ \A p \in Peers(m) :
            /\ \/ h[p] = heard[m][p]
               \/ \E a \in Answers(<<p, m>>) : a.term = term[m] /\ h[p] = a.id
            /\ \/ g[p] = match[m][p]
               \/ \E a \in Answers(<<p, m>>) : a.term = term[m] /\ g[p] = a.match
  <2>1. Types /\ f \in Answers(l)
    BY <1>0, <1>1, <1>3, HeadInFlight
  <2>2. PICK p0 \in Peers(m) : p0 = l[1] /\ l = <<p0, m>>
    BY <1>1, Links DEF Peers
  <2>3. /\ f \in Answers(<<p0, m>>) /\ f.term = term[m]
        /\ h = Raised(heard[m], p0, f.id) /\ g = Raised(match[m], p0, f.match)
    BY <1>1, <1>3, <2>1, <2>2
  <2> QED
    BY <1>4, <2>1, <2>3, RowsOfReply
<1>6. /\ DOMAIN heard' = Member /\ heard' = [x \in Member |-> heard'[x]]
      /\ DOMAIN match' = Member /\ match' = [x \in Member |-> match'[x]]
      /\ \A x \in Member : /\ heard'[x] \in [Peers(x) -> Nat]
                           /\ match'[x] \in [Peers(x) -> Nat]
      /\ match'[m] = g
      /\ \A x \in Member : \A p \in Peers(x) : CreditMove(x, p) /\ HeardMove(x, p)
  <2>1. /\ Types /\ m \in Member /\ heard' = [heard EXCEPT ![m] = h]
        /\ match' = [match EXCEPT ![m] = g]
    BY <1>0, <1>3, <1>4
  <2> QED
    BY <1>5, <2>1, RowsMove, Zenon
<1>7. /\ confirmed \in [Read -> Barriers]
      /\ \A r \in Read : /\ ReadOK(confirmed[r]) /\ confirmed[r].must = reads[r].must
                         /\ confirmed[r].got = reads[r].got
  BY <1>0, <1>2, <1>4, <1>5, ConfirmReadsOK
<1>8. tail \in [Link -> Seq(Frames)] /\ \A k \in Link : On(tail, k) \subseteq Flight(k)
  BY <1>0, <1>2, <1>3, TakenOff
<1>9. \A p \in Member : /\ term'[p] >= term[p] /\ term'[p] <= term[p]
                        /\ commit[p] \in Nat /\ commit[p] <= commit[p]
                        /\ applied[p] \in Nat /\ applied[p] <= commit[p]
                        /\ sequence[p] \in Nat /\ sequence[p] <= sequence[p]
  BY <1>0, <1>3 DEF Types, CommitsHeld
<1>10. ASSUME NEW rs \in [Read -> Barriers], reads' = rs,
              \A r \in Read : /\ ReadOK(rs[r]) /\ rs[r].must = reads[r].must
                              /\ rs[r].got = reads[r].got,
              frames' \in [Link -> Seq(Frames)], \A k \in Link : FlightMove(k),
              sequence' \in [Member -> Nat], \A p \in Member : sequence'[p] >= sequence[p],
              commit' \in [Member -> Nat], \A p \in Member : commit'[p] >= commit[p],
              committed' \in Nat, Commits
       PROVE  Stepped /\ Unasked
  <2>1. Types'
    BY <1>0, <1>3, <1>6, <1>10 DEF Types, Frames
  <2>2. Moves
    BY <1>3, <1>6, <1>9, <1>10 DEF Moves, LogMove
  <2>3. Calm
    BY <1>3, <1>4, <1>9, <1>10 DEF Calm
  <2>4. ReadsOK'
    <3>1. \A r \in Read : rs[r].phase = "held" =>
             Lead(rs[r].server)' /\ term'[rs[r].server] = term[rs[r].server]
      BY <1>3, <1>4, <1>10 DEF ReadOK
    <3> QED
      BY <1>0, <1>10, <2>1, <2>2, <2>3, <3>1, ReadsFollow DEF Turn
  <2>5. Unasked
    BY <1>10 DEF Unasked
  <2> QED
    BY <1>0, <1>3, <1>10, <2>1, <2>2, <2>3, <2>4, <2>5 DEF Stepped, Turn, StoresKept
<1>11. CASE /\ frames' = tail /\ reads' = confirmed
            /\ UNCHANGED <<commit, sequence, committed>>
  <2>1. \A k \in Link : FlightMove(k)
    BY <1>8, <1>11 DEF FlightMove, On, Flight
  <2>2. Commits
    BY <1>3, <1>9, <1>11 DEF Commits, CommitMove
  <2>3. /\ sequence' \in [Member -> Nat] /\ commit' \in [Member -> Nat] /\ committed' \in Nat
    BY <1>0, <1>11 DEF Types
  <2>4. Stepped /\ Unasked
    BY <1>7, <1>8, <1>9, <1>10, <1>11, <2>1, <2>2, <2>3
  <2> QED
    BY <1>11, <2>4
<1>12. ASSUME NEW k \in Committable(m, g),
              commit' = [commit EXCEPT ![m] = k],
              committed' = IF k > committed THEN k ELSE committed,
              sequence' = [sequence EXCEPT ![m] = @ + 1],
              frames' = ReplicateOn(tail, m, log[m], k, term[m]),
              reads' = IF Arms(m, confirmed, k)
                       THEN ArmReads(m, confirmed, k) ELSE confirmed
       PROVE  /\ Stepped /\ Unasked
              /\ committed' = committed \/ (committed' \in Nat /\ committed' > committed)
  <2>1. Gathers(m, k) /\ k \in 1 .. Len(log[m]) /\ k > commit[m]
    BY <1>0, <1>3, <1>4, <1>5, <1>6, <1>12, CommittableGathers
  <2>2. k \in Nat /\ commit[m] <= k /\ k <= Len(log[m]) /\ log[m] \in Seq(Nat)
        /\ term[m] \in Nat
    <3>1. log[m] \in Seq(Nat) /\ term[m] \in Nat
      BY <1>0, <1>4 DEF Types
    <3>2. Len(log[m]) \in Nat
      BY <3>1
    <3> QED
      BY <1>4, <1>9, <2>1, <3>1, <3>2
  <2>3. /\ commit' \in [Member -> Nat] /\ commit'[m] = k
        /\ \A p \in Member : p # m => commit'[p] = commit[p]
    <3>1. commit \in [Member -> Nat]
      BY <1>0 DEF Types
    <3> QED
      BY <1>4, <1>12, <2>2, <3>1
  <2>4. ASSUME NEW p \in Member PROVE commit'[p] >= commit[p] /\ applied'[p] <= commit'[p]
    <3>1. /\ commit[p] \in Nat /\ applied[p] \in Nat /\ applied[p] <= commit[p]
          /\ applied'[p] = applied[p]
      BY <1>3, <1>9
    <3>2. CASE p = m
      BY <2>2, <2>3, <3>1, <3>2
    <3>3. CASE p # m
      BY <2>3, <3>1, <3>3
    <3> QED
      BY <3>2, <3>3
  <2>5. committed \in Nat /\ (committed' = committed \/ (committed' = k /\ k > committed))
    BY <1>0, <1>12 DEF Types
  <2>6. Commits
    <3>1. \A p \in Member : CommitMove(p)
      <4>1. CommitMove(m)
        BY <2>1, <2>2 DEF CommitMove
      <4>2. \A p \in Member : p # m => CommitMove(p)
        BY <2>3 DEF CommitMove
      <4> QED
        BY <4>1, <4>2
    <3> QED
      BY <1>4, <2>1, <2>2, <2>4, <2>5, <3>1 DEF Commits
  <2>7. /\ frames' \in [Link -> Seq(Frames)] /\ sequence' \in [Member -> Nat]
        /\ \A p \in Member : sequence'[p] >= sequence[p]
        /\ \A j \in Link : FlightMove(j)
    <3>1. PICK L, t : L = log[m] /\ t = term[m]
      OBVIOUS
    <3>2. /\ L \in Seq(Nat) /\ t \in Nat /\ L = log'[m] /\ k = commit'[m] /\ t = term'[m]
      BY <1>3, <2>2, <2>3, <3>1
    <3>3. frames' = ReplicateOn(tail, m, L, k, t)
      BY <1>12, <3>1
    <3>4. /\ frames' \in [Link -> Seq(Frames)] /\ sequence' \in [Member -> Nat]
          /\ \A p \in Member : sequence'[p] >= sequence[p]
          /\ \A j \in Link : \A e \in Flight(j)' :
                e \in Flight(j) \/ (j[1] = m /\ FreshAppend(j, e))
      BY <1>0, <1>4, <1>8, <1>12, <2>2, <3>2, <3>3, Sends
    <3> QED
      BY <3>4 DEF FlightMove
  <2>8. PICK rs : rs = ArmReads(m, confirmed, k)
    OBVIOUS
  <2>9. /\ rs \in [Read -> Barriers]
        /\ \A r \in Read : /\ ReadOK(rs[r]) /\ rs[r].must = confirmed[r].must
                           /\ rs[r].got = confirmed[r].got
    BY <1>0, <1>4, <1>7, <2>2, <2>8, ArmReadsOK
  <2>10. reads' = rs
    BY <1>12, <2>8 DEF ArmReads
  <2>11. \A r \in Read : /\ ReadOK(rs[r]) /\ rs[r].must = reads[r].must
                         /\ rs[r].got = reads[r].got
    BY <1>7, <2>9
  <2>12. committed' \in Nat
    BY <2>2, <2>5
  <2>13. Stepped /\ Unasked
    BY <1>10, <2>3, <2>4, <2>6, <2>7, <2>9, <2>10, <2>11, <2>12
  <2> QED
    BY <2>5, <2>12, <2>13
<1> QED
  BY <1>3, <1>11, <1>12

LEMMA InstallOK ==
    ASSUME ReadAssumption, PromiseApplies, Inv, NEW m \in Member, NEW l \in Member,
           Install(m, l)
    PROVE  Stepped /\ Unasked /\ committed' = committed
<1>0. /\ Types /\ Raft /\ CommitsHeld
      /\ reads \in [Read -> Barriers] /\ \A r \in Read : ReadOK(reads[r])
  BY DEF Inv, Types, ReadsOK
<1>1. PICK k, s : k = applied[l] /\ s = SubSeq(log[l], 1, k)
  OBVIOUS
<1>2. /\ Installs /\ Lead(l) /\ term[l] = term[m] /\ l # m /\ k > commit[m]
      /\ ~IsPrefixOf(s, log[m])
      /\ retired' = [retired EXCEPT ![m] = Append(@, applied[m])]
      /\ applied' = [applied EXCEPT ![m] = k]
      /\ commit' = [commit EXCEPT ![m] = k]
      /\ log' = [log EXCEPT ![m] = s]
      /\ UNCHANGED <<term, role, leader, sequence, heard, match, frames, reads,
                     committed>>
  BY <1>1 DEF Install, PromiseApplies
<1>3. log \in [Member -> Seq(Nat)]
  BY <1>0 DEF Types
<1>4. /\ commit \in [Member -> Nat] /\ applied \in [Member -> Nat]
      /\ \A p \in Member : applied[p] <= commit[p] /\ commit[p] <= Len(log[p])
  BY <1>0 DEF Types, CommitsHeld, Vouched
<1>5. k \in Nat /\ k \in 0 .. commit[l] /\ k \in 0 .. Len(log[l])
  <2>1. k \in Nat /\ k <= commit[l] /\ commit[l] <= Len(log[l]) /\ commit[l] \in Nat
    BY <1>1, <1>4
  <2>2. Len(log[l]) \in Nat
    BY <1>3
  <2> QED
    BY <2>1, <2>2
<1>6. s \in Seq(Nat)
  BY <1>1, <1>3, <1>5, Cut
<1>7. /\ log' \in [Member -> Seq(Nat)] /\ log'[m] = s
      /\ \A p \in Member : p # m => log'[p] = log[p]
  BY <1>2, <1>3, <1>6
<1>8. ~Begins(s, log[m])
  BY <1>2, <1>3, <1>6, PrefixIsBegins
<1>9. ~Lead(m)' /\ \A p \in Member : Lead(p)' <=> Lead(p)
  <2>1. ~Lead(m)
    BY <1>0, <1>2 DEF Raft, OneLeader
  <2> QED
    BY <1>2, <2>1 DEF Lead
<1>10. /\ commit' \in [Member -> Nat] /\ commit'[m] = k
       /\ \A p \in Member : p # m => commit'[p] = commit[p]
       /\ applied' \in [Member -> Nat] /\ applied'[m] = k
       /\ \A p \in Member : p # m => applied'[p] = applied[p]
  BY <1>2, <1>4, <1>5
<1>11. ASSUME NEW p \in Member
       PROVE  /\ commit'[p] >= commit[p] /\ applied'[p] <= commit'[p]
              /\ term'[p] >= term[p] /\ term'[p] <= term[p] /\ sequence'[p] >= sequence[p]
  <2>1. term'[p] >= term[p] /\ term'[p] <= term[p] /\ sequence'[p] >= sequence[p]
    <3>1. term[p] \in Nat /\ sequence[p] \in Nat
      BY <1>0 DEF Types
    <3>2. term' = term /\ sequence' = sequence
      BY <1>2
    <3> QED
      BY <3>1, <3>2
  <2>2. CASE p = m
    BY <1>2, <1>4, <1>5, <1>10, <2>1, <2>2
  <2>3. CASE p # m
    BY <1>4, <1>10, <2>1, <2>3
  <2> QED
    BY <2>2, <2>3
<1>12. retired' \in [Member -> Seq(Nat)]
  <2>1. retired \in [Member -> Seq(Nat)] /\ applied[m] \in Nat
    BY <1>0, <1>4 DEF Types
  <2>2. PICK u : u = Append(retired[m], applied[m])
    OBVIOUS
  <2>3. u \in Seq(Nat)
    BY <2>1, <2>2, Extended
  <2>4. retired' = [retired EXCEPT ![m] = u]
    BY <1>2, <2>2
  <2> QED
    BY <2>1, <2>3, <2>4
<1>13. Types'
  BY <1>0, <1>2, <1>7, <1>10, <1>12 DEF Types
<1>14. \A p \in Member : LogMove(p)
  <2>1. LogMove(m)
    BY <1>1, <1>2, <1>5, <1>7, <1>8, <1>9 DEF LogMove
  <2>2. \A p \in Member : p # m => LogMove(p)
    BY <1>7 DEF LogMove
  <2> QED
    BY <2>1, <2>2
<1>15. Moves
  <2>1. \A j \in Link : FlightMove(j)
    BY <1>2 DEF FlightMove, Flight
  <2> QED
    BY <1>2, <1>11, <1>14, <2>1 DEF Moves, CreditMove, HeardMove
<1>16. Calm
  BY <1>2, <1>9, <1>11 DEF Calm
<1>17. Commits
  <2>1. CommitMove(m)
    BY <1>1, <1>2, <1>5, <1>7, <1>10 DEF CommitMove
  <2>2. \A p \in Member : p # m => CommitMove(p)
    BY <1>10 DEF CommitMove
  <2> QED
    BY <1>2, <1>11, <2>1, <2>2 DEF Commits
<1>18. ReadsOK'
  <2>1. PICK rs : rs = reads
    OBVIOUS
  <2>2. \A r \in Read : rs[r].phase = "held" =>
           Lead(rs[r].server)' /\ term'[rs[r].server] = term[rs[r].server]
    BY <1>0, <1>2, <1>9, <2>1 DEF ReadOK
  <2> QED
    BY <1>0, <1>2, <1>13, <1>15, <1>16, <2>1, <2>2, ReadsFollow DEF Turn
<1> QED
  BY <1>2, <1>13, <1>15, <1>16, <1>17, <1>18 DEF Stepped, Turn, StoresKept, Unasked

-----------------------------------------------------------------------------
(* The invariant.                                                          *)

\* At the start everybody has the first entry.
LEMMA StartGood ==
    ASSUME ReadAssumption, Init, NEW F \in Seq(Nat), F = << 1 >>
    PROVE  /\ Good(F, Member) /\ Member \in Quorums /\ Len(F) = 1 /\ F[1] = 1
           /\ TermOf(F) = 1 /\ Told(F) /\ Logs = {F} /\ \A l \in Link : Flight(l) = {}
<1>0. /\ term = [m \in Member |-> 1] /\ log = [m \in Member |-> F]
      /\ \A m \in Member : Lead(m) => m = First
      /\ commit = [m \in Member |-> IF m = First THEN 1 ELSE 0]
      /\ frames = [l \in Link |-> <<>>] /\ First \in Member
  BY DEF Init, Lead, ReadAssumption
<1>1. Len(F) = 1 /\ F[1] = 1 /\ F[Len(F)] = 1
  OBVIOUS
<1>2. TermOf(F) = 1
  BY <1>1 DEF TermOf
<1>3. \A l \in Link : Flight(l) = {}
  BY <1>0 DEF Flight
<1>4. \A l \in Link : Sent(l) = {} /\ Answers(l) = {}
  BY <1>3 DEF Sent, Answers
<1>5. Logs = {F}
  <2>1. F \in Logs
    BY <1>0 DEF Logs
  <2>2. \A X \in Logs : X = F
    BY <1>0, <1>4 DEF Logs
  <2> QED
    BY <2>1, <2>2
<1>6. Begins(F, F)
  BY BeginsSelf
<1>7. Core(F, Member)
  <2>1. \A x \in Member : log[x] = F
    BY <1>0
  <2> QED
    BY <1>4, <1>5, <1>6, <2>1 DEF Core
<1>8. F \in Heads
  <2>1. Rising(F, 1)
    BY <1>1 DEF Rising
  <2> QED
    BY <1>1, <1>2, <2>1 DEF Heads
<1>9. Good(F, Member)
  <2>1. \A p \in Member : term[p] >= TermOf(F)
    BY <1>0, <1>2
  <2> QED
    BY <1>0, <1>7, <1>8, <2>1 DEF Good
<1>10. Told(F)
  BY <1>0, <1>1 DEF Told
<1> QED
  BY <1>1, <1>2, <1>3, <1>5, <1>9, <1>10, AllAreQuorum

LEMMA StartTyped ==
    ASSUME ReadAssumption, Init
    PROVE  Types
<1>1. First \in Member
  BY DEF ReadAssumption
<1>2. /\ term \in [Member -> Nat] /\ role \in [Member -> {"leader", "follower"}]
      /\ leader \in [Member -> Member \cup {None}] /\ log \in [Member -> Seq(Nat)]
      /\ commit \in [Member -> Nat] /\ sequence \in [Member -> Nat]
      /\ applied \in [Member -> Nat] /\ committed \in Nat
  BY <1>1 DEF Init
<1>3. /\ DOMAIN heard = Member /\ heard = [m \in Member |-> heard[m]]
      /\ \A m \in Member : heard[m] \in [Peers(m) -> Nat]
  BY DEF Init
<1>4. /\ DOMAIN match = Member /\ match = [m \in Member |-> match[m]]
      /\ \A m \in Member : match[m] \in [Peers(m) -> Nat]
  <2>1. match = heard
    BY DEF Init
  <2> QED
    BY <1>3, <2>1
<1>5. retired \in [Member -> Seq(Nat)]
  <2>1. <<>> \in Seq(Nat)
    OBVIOUS
  <2> QED
    BY <2>1 DEF Init
<1>6. frames \in [Link -> Seq(Appends \cup Replies)]
  <2>1. <<>> \in Seq(Appends \cup Replies)
    OBVIOUS
  <2> QED
    BY <2>1 DEF Init
<1>7. reads \in [Read -> Barriers]
  <2>1. NoRead \in Barriers
    BY DEF NoRead, Barriers, Phase
  <2> QED
    BY <2>1 DEF Init
<1> QED
  BY <1>2, <1>3, <1>4, <1>5, <1>6, <1>7 DEF Types

LEMMA StartOK ==
    ASSUME ReadAssumption, Init
    PROVE  Inv
<1>1. PICK F \in Seq(Nat) : F = << 1 >>
  <2>1. << 1 >> \in Seq(Nat)
    OBVIOUS
  <2> QED
    BY <2>1
<1>2. /\ Good(F, Member) /\ Member \in Quorums /\ Len(F) = 1 /\ F[1] = 1
      /\ TermOf(F) = 1 /\ Told(F) /\ Logs = {F} /\ \A l \in Link : Flight(l) = {}
  BY <1>1, StartGood
<1>3. /\ \A m \in Member : term[m] = 1 /\ log[m] = F /\ (Lead(m) => m = First)
      /\ \A m \in Member : commit[m] = IF m = First THEN 1 ELSE 0
      /\ \A m \in Member : sequence[m] = IF m = First THEN 1 ELSE 0
      /\ \A m \in Member : \A p \in Peers(m) :
            /\ heard[m][p] = IF m = First THEN 1 ELSE 0
            /\ match[m][p] = IF m = First THEN 1 ELSE 0
      /\ applied = commit /\ committed = 1
      /\ \A m \in Member : retired[m] = <<>>
      /\ \A r \in Read : reads[r] = NoRead
  BY <1>1 DEF Init, Lead
<1>4. \A l \in Link : Sent(l) = {} /\ Answers(l) = {}
  BY <1>2 DEF Sent, Answers
<1>5. Types
  BY StartTyped
<1>6. Rising(F, 1) /\ Begins(F, F) /\ Match(F, F)
  BY <1>2, BeginsSelf DEF Rising, Match
<1>7. Raft
  <2>1. TermsBacked
    <3>1. \A m, p \in Member : term[p] >= term[m]
      BY <1>3
    <3> QED
      BY <1>2, <3>1 DEF TermsBacked
  <2>2. LogsRise
    BY <1>3, <1>4, <1>6 DEF LogsRise
  <2>3. FlightBehind
    BY <1>4 DEF FlightBehind
  <2>4. OneLeader
    BY <1>3, <1>4 DEF OneLeader
  <2>5. LeaderHolds
    BY <1>2, <1>3 DEF LeaderHolds
  <2>6. Matching
    BY <1>2, <1>6 DEF Matching
  <2>7. CreditBounded
    <3>1. ASSUME NEW x \in Member, NEW p \in Peers(x) PROVE match[x][p] <= Len(log[x])
      BY <1>2, <1>3
    <3>2. \A x \in Member : \A p \in Peers(x) : Answers(<<p, x>>) = {}
      BY <1>4, Links DEF Peers
    <3> QED
      BY <3>1, <3>2 DEF CreditBounded
  <2> QED
    BY <2>1, <2>2, <2>3, <2>4, <2>5, <2>6, <2>7 DEF Raft
<1>8. LeadersGood
  <2>1. ASSUME NEW x \in Member, NEW n \in 1 .. Len(log[x])
        PROVE  Counted(x, n) \subseteq Member /\ SubSeq(log[x], 1, n) = F
    <3>1. n = Len(F) /\ log[x] = F
      <4>1. log[x] = F /\ Len(F) = 1
        BY <1>2, <1>3
      <4>2. n \in 1 .. 1
        BY <4>1
      <4> QED
        BY <4>1, <4>2
    <3>2. SubSeq(F, 1, Len(F)) = F
      BY CutWhole
    <3>3. SubSeq(log[x], 1, n) = F
      BY <3>1, <3>2
    <3> QED
      BY <3>3 DEF Counted, Peers
  <2> QED
    BY <1>2, <2>1 DEF LeadersGood
<1>9. CommitsHeld
  <2>1. ASSUME NEW m \in Member PROVE Vouched(log[m], commit[m], term[m])
    <3>1. /\ TermOf(F) <= term[m] /\ commit[m] <= Len(F) /\ log[m] = F
          /\ commit[m] <= Len(log[m])
      BY <1>2, <1>3
    <3> QED
      BY <1>2, <3>1 DEF Vouched
  <2>2. ASSUME NEW m \in Member PROVE applied[m] <= commit[m]
    BY <1>3
  <2> QED
    BY <1>4, <2>1, <2>2 DEF CommitsHeld
<1>10. Firm(committed)
  BY <1>2, <1>3 DEF Firm
<1>11. HeardBehind
  BY <1>3 DEF HeardBehind
<1>12. ReadsOK
  <2>1. ReadOK(NoRead)
    BY DEF ReadOK, NoRead
  <2> QED
    BY <1>3, <2>1 DEF ReadsOK
<1>13. StoresKept
  BY <1>3 DEF StoresKept
<1> QED
  BY <1>5, <1>7, <1>8, <1>9, <1>10, <1>11, <1>12, <1>13 DEF Inv

LEMMA InvKept ==
    ASSUME ReadAssumption, Inv, Stepped
    PROVE  Inv'
<1>1. /\ Types /\ Types' /\ Raft /\ LeadersGood /\ CommitsHeld /\ Firm(committed)
      /\ HeardBehind /\ Moves /\ Turn /\ Commits /\ ReadsOK' /\ StoresKept'
  BY DEF Inv, Stepped
<1>2. Raft'
  BY <1>1, RaftKept
<1>3. LeadersGood'
  BY <1>1, LeadersGoodKept
<1>4. CommitsHeld'
  BY <1>1, <1>2, <1>3, CommitsHeldKept
<1>5. Firm(committed)'
  BY <1>1, <1>2, <1>3, FirmCommitted
<1>6. HeardBehind'
  BY <1>1, HeardBehindKept DEF Raft
<1> QED
  BY <1>1, <1>2, <1>3, <1>4, <1>5, <1>6 DEF Inv

-----------------------------------------------------------------------------
(* Every step.                                                             *)

\* A request that began is owed what was committed then.
Asked(r) ==
    /\ committed' = committed /\ reads[r].must = -1 /\ reads'[r].must = committed
    /\ \A s \in Read : s # r => reads'[s].must = reads[s].must
    /\ \A s \in Read : reads'[s].got = reads[s].got

\* An answer holds what the request is owed.
Served(r) ==
    /\ committed' = committed
    /\ reads[r].must # -1 /\ reads[r].got = -1 /\ reads'[r].got >= reads[r].must
    /\ \A s \in Read : s # r => reads'[s].got = reads[s].got
    /\ \A s \in Read : reads'[s].must = reads[s].must

\* What a client can tell of a step.
Seen ==
    \/ Unasked /\ committed' = committed
    \/ Unasked /\ committed' \in Nat /\ committed' > committed
    \/ \E r \in Read : Asked(r) \/ Served(r)

LEMMA RequestStep ==
    ASSUME ReadAssumption, PromiseApplies, Inv, NEW r \in Read,
           \/ \E m \in Reader, path \in Path : Begin(r, m, path)
           \/ OnReadIndex(r) \/ OnReadIndexReply(r) \/ Answer(r) \/ Timeout(r)
    PROVE  Stepped /\ Seen
<1>1. ASSUME NEW m \in Reader, NEW path \in Path, Begin(r, m, path)
      PROVE  Stepped /\ Seen
  <2>1. m \in Member
    BY DEF ReadAssumption
  <2>2. Stepped /\ Asked(r)
    BY <1>1, <2>1, BeginOK DEF Asked
  <2> QED
    BY <2>2 DEF Seen
<1>2. CASE Answer(r)
  <2>1. Stepped /\ Served(r)
    BY <1>2, AnswerOK DEF Served
  <2> QED
    BY <2>1 DEF Seen
<1>3. CASE OnReadIndex(r)
  BY <1>3, OnReadIndexOK DEF Seen
<1>4. CASE OnReadIndexReply(r)
  BY <1>4, OnReadIndexReplyOK DEF Seen
<1>5. CASE Timeout(r)
  BY <1>5, TimeoutOK DEF Seen
<1> QED
  BY <1>1, <1>2, <1>3, <1>4, <1>5

LEMMA ClusterStep ==
    ASSUME ReadAssumption, PromiseApplies, Inv,
           \/ \E m \in Member, q \in SUBSET Member, t \in 1..MaxTerm : Elect(m, q, t)
           \/ \E m \in Member : Propose(m) \/ Heartbeat(m)
           \/ \E m \in Reader : Apply(m)
           \/ \E l \in Link : OnAppend(l) \/ OnReply(l)
           \/ \E l \in Link : OnReplyOfLaterTerm(l) \/ OnStaleReply(l)
           \/ \E m \in Reader, l \in Member : Install(m, l)
    PROVE  Stepped /\ Seen
<1>0. Reader \subseteq Member /\ \A t \in 1 .. MaxTerm : t \in Nat
  BY DEF ReadAssumption
<1>1. ASSUME NEW m \in Member, NEW q \in SUBSET Member, NEW t \in 1 .. MaxTerm,
             Elect(m, q, t)
      PROVE  Stepped /\ Seen
  <2>1. t \in Nat
    BY <1>0
  <2> QED
    BY <1>1, <2>1, ElectOK DEF Seen
<1>2. ASSUME NEW m \in Member, Propose(m) PROVE Stepped /\ Seen
  BY <1>2, ProposeOK DEF Seen
<1>3. ASSUME NEW m \in Member, Heartbeat(m) PROVE Stepped /\ Seen
  BY <1>3, HeartbeatOK DEF Seen
<1>4. ASSUME NEW m \in Member, Apply(m) PROVE Stepped /\ Seen
  BY <1>4, ApplyOK DEF Seen
<1>5. ASSUME NEW l \in Link, OnAppend(l) PROVE Stepped /\ Seen
  BY <1>5, OnAppendOK DEF Seen
<1>6. ASSUME NEW l \in Link, OnReply(l) PROVE Stepped /\ Seen
  BY <1>6, OnReplyOK DEF Seen
<1>7. ASSUME NEW l \in Link, OnReplyOfLaterTerm(l) PROVE Stepped /\ Seen
  BY <1>7, OnReplyOfLaterTermOK DEF Seen
<1>8. ASSUME NEW l \in Link, OnStaleReply(l) PROVE Stepped /\ Seen
  BY <1>8, OnStaleReplyOK DEF Seen
<1>9. ASSUME NEW m \in Member, NEW l \in Member, Install(m, l) PROVE Stepped /\ Seen
  BY <1>9, InstallOK DEF Seen
<1> QED
  BY <1>0, <1>1, <1>2, <1>3, <1>4, <1>5, <1>6, <1>7, <1>8, <1>9

LEMMA NextOK ==
    ASSUME ReadAssumption, PromiseApplies, Inv, [Next]_vars
    PROVE  Stepped /\ Seen
<1>1. CASE UNCHANGED vars
  <2>1. /\ UNCHANGED <<term, role, leader, log, commit, heard, match, applied, retired,
                       committed>>
        /\ UNCHANGED <<sequence, frames>> /\ reads' = reads
    BY <1>1 DEF vars, core
  <2>2. reads \in [Read -> Barriers] /\ \A r \in Read : ReadOK(reads[r])
    BY DEF Inv, Types, ReadsOK
  <2>3. Stepped
    BY <2>1, <2>2, Idle
  <2> QED
    BY <2>1, <2>3 DEF Seen, Unasked
<1>2. CASE Next
  BY <1>2, RequestStep, ClusterStep, Zenon DEF Next
<1> QED
  BY <1>1, <1>2

-----------------------------------------------------------------------------
(* What clients are promised.                                              *)

LEMMA PromiseStarts ==
    ASSUME Init
    PROVE  LinearizableRead!Init
<1>1. committed = 1 /\ \A r \in Read : reads[r].must = -1 /\ reads[r].got = -1
  BY DEF Init, NoRead
<1> QED
  BY <1>1 DEF LinearizableRead!Init, LinearizableRead!None

LEMMA PromiseKept ==
    ASSUME Seen
    PROVE  [LinearizableRead!Next]_<<committed, [r \in Read |-> reads[r].must],
                                     [r \in Read |-> reads[r].got]>>
<1> DEFINE begun == [r \in Read |-> reads[r].must]
           answer == [r \in Read |-> reads[r].got]
<1>1. Unasked => UNCHANGED <<begun, answer>>
  BY DEF Unasked
<1>2. CASE Unasked /\ committed' = committed
  BY <1>1, <1>2
<1>3. CASE Unasked /\ committed' \in Nat /\ committed' > committed
  <2>1. LinearizableRead!Write
    BY <1>1, <1>3 DEF LinearizableRead!Write
  <2> QED
    BY <2>1 DEF LinearizableRead!Next
<1>4. ASSUME NEW r \in Read, Asked(r)
      PROVE  LinearizableRead!Begin(r)
  <2>1. begun[r] = -1 /\ begun' = [begun EXCEPT ![r] = committed]
    BY <1>4 DEF Asked
  <2>2. UNCHANGED <<committed, answer>>
    BY <1>4 DEF Asked
  <2> QED
    BY <2>1, <2>2 DEF LinearizableRead!Begin, LinearizableRead!None
<1>5. ASSUME NEW r \in Read, Served(r)
      PROVE  LinearizableRead!Answer(r)
  <2>1. begun[r] # -1 /\ answer[r] = -1 /\ answer'[r] >= begun[r]
    BY <1>5 DEF Served
  <2>2. answer' = [answer EXCEPT ![r] = answer'[r]]
    BY <1>5 DEF Served
  <2>3. UNCHANGED <<committed, begun>>
    BY <1>5 DEF Served
  <2> QED
    BY <2>1, <2>2, <2>3 DEF LinearizableRead!Answer, LinearizableRead!None
<1> QED
  BY <1>2, <1>3, <1>4, <1>5 DEF Seen, LinearizableRead!Next

\* A request is answered from a store that holds every write committed before
\* it began, whatever leaders came and went while it was asked for, confirmed
\* and waited for (_read_barrier, RaftNode.read_index, _arm_reads and
\* _confirm_reads).  If members are caught up by snapshots meanwhile, this
\* assumes that the request asks for its store again, which
\* _register_as_owner does not, and that no snapshot drops what its member has
\* acknowledged, which max_log_entries may bring about: PromiseApplies.
THEOREM ReadsLinearizable ==
    ASSUME ReadAssumption, PromiseApplies
    PROVE  Spec => ImplementsLinearizableRead
<1>1. Init => Inv /\ LinearizableRead!Init
  BY StartOK, PromiseStarts
<1>2. Inv /\ [Next]_vars =>
        /\ Inv'
        /\ [LinearizableRead!Next]_<<committed, [r \in Read |-> reads[r].must],
                                     [r \in Read |-> reads[r].got]>>
  BY NextOK, InvKept, PromiseKept
<1> QED
  BY <1>1, <1>2, PTL DEF Spec, ImplementsLinearizableRead, LinearizableRead!Spec
=============================================================================
