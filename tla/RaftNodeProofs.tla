--------------------------- MODULE RaftNodeProofs ---------------------------
(***************************************************************************)
(* Proofs about RaftNode, for every cluster and every value of the bounds: *)
(* type correctness and the bounds of its indices; votes and elections,    *)
(* which implement Ballot; and the logs, which match.  RaftSafetyProofs    *)
(* goes on to what is committed.                                           *)
(***************************************************************************)
EXTENDS RaftNode, FiniteSetTheorems, SequenceTheorems, TLAPS

-----------------------------------------------------------------------------
(* What the log operations return and preserve.  RaftNode never compacts, *)
(* so its logs have no snapshot.                                           *)

\* The logs of members that have never compacted.
FullLog == {l \in LogType : l.snapshot_index = 0 /\ l.snapshot_term = 0}

\* A set of naturals that is not empty has its least element (Min in
\* append_replicated and find_conflict).
LEMMA MinOfNats ==
  ASSUME NEW S \in SUBSET Nat, S # {}
  PROVE  Min(S) \in S /\ \A y \in S : Min(S) <= y
<1>1. \E x \in S : \A y \in S : ~(<<y, x>> \in OpToRel(<, Nat))
  BY WFMin, NatLessThanWellFounded
<1>2. PICK x \in S : \A y \in S : ~(<<y, x>> \in OpToRel(<, Nat))
  BY <1>1
<1>3. \A y \in S : x <= y
  <2>1. TAKE y \in S
  <2>2. <<y, x>> \in OpToRel(<, Nat) <=> y < x
    BY DEF OpToRel
  <2>3. ~(y < x)
    BY <1>2, <2>2, Zenon
  <2>4. x \in Nat /\ y \in Nat
    OBVIOUS
  <2>5. QED
    BY <2>3, <2>4, SMT
<1>4. QED
  BY <1>3 DEF Min

\* And its greatest, when it is bounded (the quorum index of _advance_commit).
LEMMA MaxOfNats ==
  ASSUME NEW S \in SUBSET Nat, S # {}, NEW b \in Nat, \A y \in S : y <= b
  PROVE  Max(S) \in S /\ \A y \in S : Max(S) >= y
<1> DEFINE D == {b - y : y \in S}
<1>1. D \in SUBSET Nat /\ D # {}
  <2>1. \A y \in S : b - y \in Nat
    OBVIOUS
  <2>2. QED
    BY <2>1, Zenon
<1>2. Min(D) \in D /\ \A d \in D : Min(D) <= d
  BY <1>1, MinOfNats
<1>3. PICK x \in S : Min(D) = b - x
  BY <1>2
<1>4. \A y \in S : x >= y
  <2>1. TAKE y \in S
  <2>2. b - y \in D
    OBVIOUS
  <2>3. b - x <= b - y
    BY <1>2, <1>3, <2>2
  <2>4. QED
    BY <2>3
<1>5. QED
  BY <1>4 DEF Max

\* The term at an index the log holds, or at 0, is a term (term_at).
LEMMA TermAtType ==
  ASSUME NEW l \in FullLog, NEW n \in Nat, n <= LastIndex(l)
  PROVE  TermAt(l, n) \in Nat
<1>1. l.entries \in Seq(Nat) /\ l.snapshot_index = 0 /\ l.snapshot_term = 0
  BY DEF FullLog, LogType
<1>2. CASE n = 0
  BY <1>1, <1>2 DEF TermAt
<1>3. CASE n # 0
  <2>1. n \in 1 .. Len(l.entries)
    BY <1>1, <1>3 DEF LastIndex
  <2>2. l.entries[n] \in Nat
    BY <1>1, <2>1, ElementOfSeq
  <2>3. QED
    BY <1>1, <1>3, <2>2 DEF TermAt, Get
<1>4. QED
  BY <1>2, <1>3

\* The last index and term of a log are naturals.
LEMMA LastType ==
  ASSUME NEW l \in FullLog
  PROVE  LastIndex(l) \in Nat /\ LastTerm(l) \in Nat /\ LastIndex(l) = Len(l.entries)
<1>1. l.entries \in Seq(Nat) /\ l.snapshot_index = 0 /\ l.snapshot_term = 0
  BY DEF FullLog, LogType
<1>2. Len(l.entries) \in Nat
  BY <1>1, LenProperties
<1>3. LastIndex(l) = Len(l.entries)
  BY <1>1, <1>2 DEF LastIndex
<1>4. LastTerm(l) \in Nat
  <2>1. CASE l.entries = <<>>
    BY <1>1, <2>1 DEF LastTerm
  <2>2. CASE l.entries # <<>>
    <3>1. Len(l.entries) \in 1 .. Len(l.entries)
      BY <1>1, <1>2, <2>2, EmptySeq
    <3>2. QED
      BY <1>1, <2>2, <3>1, ElementOfSeq DEF LastTerm
  <2>3. QED
    BY <2>1, <2>2
<1>5. QED
  BY <1>2, <1>3, <1>4

\* A log with other entries is a log, as long as they are.
LEMMA WithEntries ==
  ASSUME NEW l \in FullLog, NEW es \in Seq(Nat)
  PROVE  /\ [l EXCEPT !.entries = es] \in FullLog
         /\ LastIndex([l EXCEPT !.entries = es]) = Len(es)
<1>1. Len(es) \in Nat
  BY LenProperties
<1>2. l \in [snapshot_index : Nat, snapshot_term : Nat, entries : Seq(Nat)]
  BY DEF FullLog, LogType
<1>3. l.snapshot_index = 0 /\ l.snapshot_term = 0
  BY DEF FullLog
<1> DEFINE m == [l EXCEPT !.entries = es]
<1>4. /\ m \in [snapshot_index : Nat, snapshot_term : Nat, entries : Seq(Nat)]
      /\ m.snapshot_index = 0 /\ m.snapshot_term = 0 /\ m.entries = es
  BY <1>2, <1>3
<1> HIDE DEF m
<1>5. m \in FullLog /\ LastIndex(m) = Len(es)
  BY <1>1, <1>4 DEF FullLog, LogType, LastIndex
<1>6. QED
  BY <1>5 DEF m

\* truncate_suffix keeps exactly what precedes the index, when it is all held.
LEMMA TruncateSuffixIs ==
  ASSUME NEW l \in FullLog, NEW from \in Nat \ {0}, from - 1 <= LastIndex(l)
  PROVE  TruncateSuffix(l, from) = [l EXCEPT !.entries = SubSeq(l.entries, 1, from - 1)]
<1>1. l.snapshot_index = 0
  BY DEF FullLog
<1>2. LastIndex(l) = Len(l.entries) /\ Len(l.entries) \in Nat
  BY LastType
<1>3. Least(from - 1 - l.snapshot_index, Len(l.entries)) = from - 1
  BY <1>1, <1>2 DEF Least
<1>4. QED
  BY <1>3 DEF TruncateSuffix

\* An entry appended by a leader is one more (append).
LEMMA AppendLocalType ==
  ASSUME NEW l \in FullLog, NEW t \in Nat
  PROVE  /\ AppendLocal(l, t) \in FullLog
         /\ LastIndex(AppendLocal(l, t)) = LastIndex(l) + 1
<1>1. l.entries \in Seq(Nat) /\ l.snapshot_index = 0 /\ l.snapshot_term = 0
  BY DEF FullLog, LogType
<1>2. Append(l.entries, t) \in Seq(Nat) /\ Len(Append(l.entries, t)) = Len(l.entries) + 1
  BY <1>1, AppendProperties
<1>3. QED
  BY <1>1, <1>2, LenProperties DEF AppendLocal, FullLog, LogType, LastIndex

\* What slice returns are entries, as many as it says.
LEMMA SliceType ==
  ASSUME NEW l \in FullLog, NEW start \in Nat \ {0}, NEW limit \in Nat
  PROVE  Slice(l, start, limit) \in Seq(Nat)
<1> DEFINE n == Least(start - l.snapshot_index + limit - 1, Len(l.entries))
<1>1. l.entries \in Seq(Nat) /\ l.snapshot_index = 0
  BY DEF FullLog, LogType
<1>2. n \in Int /\ n <= Len(l.entries)
  BY <1>1, LenProperties DEF Least
<1>3. \A i \in start .. n : l.entries[i] \in Nat
  BY <1>1, <1>2, ElementOfSeq, LenProperties
<1>4. SubSeq(l.entries, start, n) \in Seq(Nat)
  BY <1>2, <1>3, SubSeqProperties
<1>5. QED
  BY <1>1, <1>4 DEF Slice

\* Without a boundary, an entry's index is its position.
LEMMA GetIs ==
  ASSUME NEW l, l.snapshot_index = 0, NEW i \in Nat
  PROVE  Get(l, i) = l.entries[i]
BY DEF Get

\* The k-th entry given is not held and all before it are: append_replicated
\* keeps the log up to them and takes the entries given from there on.
Splices(l, first, es, k) ==
    LET kept == SubSeq(l.entries, 1, first + k - 2)
        more == SubSeq(es, k, Len(es))
    IN /\ k \in 1 .. Len(es) /\ Len(es) \in Nat /\ first + k - 2 <= Len(l.entries)
       /\ \A n \in 1 .. k - 1 : l.entries[first + n - 1] = es[n]
       /\ kept \in Seq(Nat) /\ Len(kept) = first + k - 2
       /\ more \in Seq(Nat) /\ Len(more) = Len(es) - k + 1
       /\ AppendReplicated(l, first, es) = [l EXCEPT !.entries = kept \o more]

\* Where append_replicated finds an entry it does not hold, it keeps what
\* precedes the first such one and takes the entries given from there on.
LEMMA AppendReplicatedIs ==
  ASSUME NEW l \in FullLog, NEW first \in Nat \ {0}, NEW es \in Seq(Nat),
         first - 1 <= LastIndex(l), Unheld(l, first, es) # {}
  PROVE  Splices(l, first, es, Min(Unheld(l, first, es)))
<1> DEFINE U == Unheld(l, first, es)
           k == Min(U)
           kept == SubSeq(l.entries, 1, first + k - 2)
           more == SubSeq(es, k, Len(es))
           after == AppendReplicated(l, first, es)
           from == first + k - 1
<1>1. l.entries \in Seq(Nat) /\ l.snapshot_index = 0
  BY DEF FullLog, LogType
<1>2. LastIndex(l) = Len(l.entries) /\ Len(l.entries) \in Nat
  BY LastType
<1>3. Len(es) \in Nat /\ DOMAIN es = 1 .. Len(es)
  BY LenProperties
<1>4. k \in U /\ \A y \in U : k <= y
  <2>1. U \in SUBSET Nat
    BY <1>3 DEF Unheld
  <2>2. QED
    BY <2>1, MinOfNats
<1> HIDE DEF k
<1>5. k \in 1 .. Len(es)
  BY <1>3, <1>4 DEF Unheld
<1>6. ASSUME NEW n \in 1 .. k - 1
      PROVE  first + n - 1 <= Len(l.entries) /\ l.entries[first + n - 1] = es[n]
  <2>1. n \in 1 .. Len(es) /\ n \notin U
    <3>1. n \in 1 .. Len(es) /\ ~(k <= n)
      BY <1>3, <1>5
    <3> HIDE DEF U
    <3>2. QED
      BY <1>4, <3>1
  <2>2. first + n - 1 <= LastIndex(l) /\ Get(l, first + n - 1) = es[n]
    <3>1. n \in DOMAIN es /\ first + n - 1 > l.snapshot_index
      BY <1>1, <1>3, <2>1
    <3>2. ~(first + n - 1 > LastIndex(l)) /\ Get(l, first + n - 1) = es[n]
      BY <2>1, <3>1 DEF Unheld
    <3>3. first + n - 1 \in Nat /\ LastIndex(l) \in Nat
      BY <1>2, <2>1
    <3>4. QED
      BY <3>2, <3>3
  <2>3. first + n - 1 \in Nat
    BY <1>5
  <2>4. Get(l, first + n - 1) = l.entries[first + n - 1]
    BY <1>1, <2>3, GetIs
  <2>5. QED
    BY <1>2, <2>2, <2>4
<1>7. first + k - 2 <= Len(l.entries)
  <2>1. CASE k = 1
    BY <1>2, <2>1
  <2>2. CASE k # 1
    <3>1. k - 1 \in 1 .. k - 1
      BY <1>5, <2>2
    <3>2. first + (k - 1) - 1 <= Len(l.entries)
      BY <1>6, <3>1
    <3>3. k \in Nat /\ Len(l.entries) \in Nat
      BY <1>2, <1>3, <1>5
    <3>4. QED
      BY <3>2, <3>3
  <2>3. QED
    BY <2>1, <2>2
<1>8. from \in Nat \ {0} /\ from - 1 <= Len(l.entries) /\ from - 1 = first + k - 2
  BY <1>3, <1>5, <1>7
<1>9. kept \in Seq(Nat) /\ Len(kept) = from - 1
  <2>1. \A i \in 1 .. from - 1 : l.entries[i] \in Nat
    <3>1. TAKE i \in 1 .. from - 1
    <3> HIDE DEF from
    <3>2. i \in 1 .. Len(l.entries)
      BY <1>2, <1>8
    <3>3. QED
      BY <1>1, <3>2, ElementOfSeq
  <2>2. kept = SubSeq(l.entries, 1, from - 1)
    BY <1>8
  <2> HIDE DEF from, kept
  <2>3. QED
    BY <1>8, <2>1, <2>2, SubSeqProperties
<1>10. more \in Seq(Nat) /\ Len(more) = Len(es) - k + 1
  <2>1. \A i \in k .. Len(es) : es[i] \in Nat
    BY <1>3, <1>5, ElementOfSeq
  <2>2. QED
    BY <1>3, <1>5, <2>1, SubSeqProperties
<1>11. TruncateSuffix(l, from) = [l EXCEPT !.entries = kept]
  <2>1. kept = SubSeq(l.entries, 1, from - 1)
    BY <1>8
  <2> HIDE DEF from, kept
  <2>2. QED
    BY <1>2, <1>8, <2>1, TruncateSuffixIs
<1>12. after = [l EXCEPT !.entries = kept \o more]
  <2>1. after = [TruncateSuffix(l, from) EXCEPT !.entries = @ \o more]
    BY DEF AppendReplicated, k
  <2> HIDE DEF after, from, kept, more
  <2>2. l \in [snapshot_index : Nat, snapshot_term : Nat, entries : Seq(Nat)]
    BY DEF FullLog, LogType
  <2>3. QED
    BY <1>11, <2>1, <2>2
<1>13. Len(kept) = first + k - 2
  BY <1>8, <1>9
<1> HIDE DEF kept, more, from, after, U
<1>14. QED
  <2>1. Splices(l, first, es, k)
    BY <1>3, <1>5, <1>6, <1>7, <1>9, <1>10, <1>12, <1>13, Zenon
       DEF Splices, kept, more, after
  <2>2. QED
    BY <2>1 DEF k, U

\* append_replicated keeps a log a log, and holds all it is given afterwards.
LEMMA AppendReplicatedType ==
  ASSUME NEW l \in FullLog, NEW first \in Nat \ {0}, NEW es \in Seq(Nat),
         first - 1 <= LastIndex(l)
  PROVE  /\ AppendReplicated(l, first, es) \in FullLog
         /\ LastIndex(AppendReplicated(l, first, es)) >= first - 1 + Len(es)
<1> DEFINE U == Unheld(l, first, es)
           after == AppendReplicated(l, first, es)
<1>1. l.entries \in Seq(Nat) /\ l.snapshot_index = 0 /\ l.snapshot_term = 0
  BY DEF FullLog, LogType
<1>2. LastIndex(l) = Len(l.entries) /\ Len(l.entries) \in Nat
  BY LastType
<1>3. Len(es) \in Nat /\ DOMAIN es = 1 .. Len(es)
  BY LenProperties
<1>4. CASE U = {}
  <2>1. after = l
    BY <1>4 DEF AppendReplicated
  <2>2. Len(es) = 0 \/ Len(es) \notin U
    BY <1>4
  <2>3. LastIndex(l) >= first - 1 + Len(es)
    BY <1>1, <1>2, <1>3, <2>2 DEF Unheld
  <2>4. QED
    BY <2>1, <2>3
<1>5. CASE U # {}
  <2> DEFINE k == Min(U)
             kept == SubSeq(l.entries, 1, first + k - 2)
             more == SubSeq(es, k, Len(es))
  <2>1. /\ k \in 1 .. Len(es) /\ first + k - 2 <= Len(l.entries)
        /\ kept \in Seq(Nat) /\ Len(kept) = first + k - 2
        /\ more \in Seq(Nat) /\ Len(more) = Len(es) - k + 1
        /\ after = [l EXCEPT !.entries = kept \o more]
    <3>1. Splices(l, first, es, k)
      BY <1>5, AppendReplicatedIs
    <3> HIDE DEF k, U
    <3>2. QED
      BY <3>1, Zenon DEF Splices
  <2> HIDE DEF after, kept, more, k
  <2>2. kept \o more \in Seq(Nat) /\ Len(kept \o more) = Len(kept) + Len(more)
    BY <2>1, ConcatProperties
  <2>3. after \in FullLog /\ LastIndex(after) = Len(kept \o more)
    BY <2>1, <2>2, WithEntries
  <2>4. LastIndex(after) = first - 1 + Len(es)
    BY <1>3, <2>1, <2>2, <2>3
  <2>5. QED
    BY <1>3, <2>3, <2>4 DEF after
<1>6. QED
  BY <1>4, <1>5

\* This log lacks none of the entries es, the first of which has index first.
HoldsAll(l, first, es) == Unheld(l, first, es) = {}

\* append_replicated leaves what is before the entries given; at them it holds
\* what it held, because they were all there, or them and nothing after them.
LEMMA AppendReplicatedEntries ==
  ASSUME NEW l \in FullLog, NEW p \in Nat, NEW es \in Seq(Nat), p <= LastIndex(l),
         NEW a, a = AppendReplicated(l, p + 1, es)
  PROVE  /\ a \in FullLog /\ LastIndex(a) >= p
         /\ \A n \in 1 .. p : a.entries[n] = l.entries[n]
         /\ \/ a = l /\ HoldsAll(l, p + 1, es)
            \/ /\ LastIndex(a) = p + Len(es)
               /\ \A n \in 1 .. Len(es) : a.entries[p + n] = es[n]
<1> DEFINE first == p + 1
           U == Unheld(l, first, es)
<1>1. /\ LastIndex(l) = Len(l.entries) /\ Len(l.entries) \in Nat /\ l.entries \in Seq(Nat)
      /\ Len(es) \in Nat
  BY LastType, LenProperties DEF FullLog, LogType
<1>2. first \in Nat \ {0} /\ first - 1 = p /\ first - 1 <= LastIndex(l)
  BY <1>1
<1> HIDE DEF first
<1>3. a = AppendReplicated(l, first, es)
  BY DEF first
<1>4. a \in FullLog /\ LastIndex(a) >= p
  <2>1. a \in FullLog /\ LastIndex(a) >= p + Len(es)
    BY <1>2, <1>3, AppendReplicatedType
  <2>2. LastIndex(a) \in Nat
    BY <2>1, LastType
  <2>3. QED
    BY <1>1, <2>1, <2>2
<1>5. CASE U = {}
  <2>1. a = l
    BY <1>3, <1>5 DEF AppendReplicated
  <2>2. HoldsAll(l, p + 1, es)
    BY <1>5 DEF first, HoldsAll
  <2>3. QED
    BY <1>4, <2>1, <2>2
<1>6. CASE U # {}
  <2> DEFINE k == Min(U)
             kept == SubSeq(l.entries, 1, first + k - 2)
             more == SubSeq(es, k, Len(es))
             long == kept \o more
  <2>1. /\ k \in 1 .. Len(es) /\ first + k - 2 <= Len(l.entries)
        /\ \A n \in 1 .. k - 1 : l.entries[first + n - 1] = es[n]
        /\ kept \in Seq(Nat) /\ Len(kept) = first + k - 2
        /\ more \in Seq(Nat) /\ Len(more) = Len(es) - k + 1
        /\ AppendReplicated(l, first, es) = [l EXCEPT !.entries = kept \o more]
    <3>1. Unheld(l, first, es) # {} /\ first \in Nat \ {0} /\ first - 1 <= LastIndex(l)
      BY <1>2, <1>6
    <3>2. Splices(l, first, es, k)
      BY <3>1, AppendReplicatedIs
    <3> HIDE DEF k, U
    <3>3. QED
      BY <3>2, Zenon DEF Splices
  <2> HIDE DEF k, U, kept, more, long
  <2>2. /\ k \in Nat \ {0} /\ k <= Len(es) /\ first + k - 2 = p + k - 1
        /\ p + k - 1 \in Nat /\ p + k - 1 <= Len(l.entries)
    <3>1. k \in 1 .. Len(es) /\ first + k - 2 <= Len(l.entries) /\ Len(es) \in Nat
      BY <1>1, <2>1
    <3>2. k \in Nat \ {0} /\ k <= Len(es)
      BY <3>1
    <3>3. first + k - 2 = p + k - 1
      BY <3>2 DEF first
    <3>4. QED
      BY <3>1, <3>2, <3>3
  <2>3. \A n \in 1 .. p + k - 1 : kept[n] = l.entries[n]
    <3>1. kept = SubSeq(l.entries, 1, p + k - 1)
      BY <2>2 DEF kept
    <3>2. \A i \in 1 .. p + k - 1 : l.entries[i] \in Nat
      <4>1. 1 .. p + k - 1 \subseteq 1 .. Len(l.entries)
        BY <1>1, <2>2
      <4>2. QED
        BY <1>1, <4>1, ElementOfSeq
    <3>3. QED
      BY <2>2, <3>1, <3>2, SubSeqProperties
  <2>4. \A n \in 1 .. Len(es) - k + 1 : more[n] = es[k + n - 1]
    <3>1. \A i \in k .. Len(es) : es[i] \in Nat
      <4>1. TAKE i \in k .. Len(es)
      <4>2. i \in 1 .. Len(es)
        BY <1>1, <2>2
      <4>3. QED
        BY <4>2, ElementOfSeq
    <3>2. QED
      BY <1>1, <2>2, <3>1, SubSeqProperties DEF more
  <2>12. kept \in Seq(Nat) /\ more \in Seq(Nat)
    BY <2>1
  <2>5. /\ long \in Seq(Nat) /\ Len(long) = Len(kept) + Len(more)
        /\ \A n \in 1 .. Len(kept) + Len(more) :
              long[n] = IF n <= Len(kept) THEN kept[n] ELSE more[n - Len(kept)]
    BY <2>12, ConcatProperties DEF long
  <2>6. Len(kept) = p + k - 1 /\ Len(more) = Len(es) - k + 1 /\ Len(long) = p + Len(es)
    <3>1. Len(kept) = p + k - 1 /\ Len(more) = Len(es) - k + 1
      BY <2>1, <2>2
    <3>2. Len(long) = Len(kept) + Len(more) /\ k \in Nat /\ Len(es) \in Nat
      BY <1>1, <2>2, <2>5
    <3>3. QED
      BY <3>1, <3>2
  <2>7. a = [l EXCEPT !.entries = long]
    BY <1>3, <2>1 DEF long
  <2>8. LastIndex(a) = p + Len(es) /\ a.entries = long
    <3>1. l \in [snapshot_index : Nat, snapshot_term : Nat, entries : Seq(Nat)]
      BY DEF FullLog, LogType
    <3>2. a.entries = long
      BY <2>7, <3>1
    <3>3. LastIndex(a) = Len(long)
      BY <2>5, <2>7, WithEntries
    <3>4. QED
      BY <2>6, <3>2, <3>3
  <2>9. ASSUME NEW n \in 1 .. p
        PROVE  a.entries[n] = l.entries[n]
    <3>1. n \in 1 .. p + k - 1 /\ n \in 1 .. Len(kept) + Len(more) /\ n <= Len(kept)
      BY <1>1, <2>2, <2>6
    <3>2. QED
      BY <2>3, <2>5, <2>8, <3>1
  <2>10. ASSUME NEW n \in 1 .. Len(es)
         PROVE  a.entries[p + n] = es[n]
    <3>1. p + n \in 1 .. Len(kept) + Len(more)
      BY <1>1, <2>2, <2>6
    <3>2. CASE n < k
      <4>1. p + n \in 1 .. p + k - 1 /\ p + n <= Len(kept) /\ n \in 1 .. k - 1
            /\ first + n - 1 = p + n
        BY <1>2, <2>2, <2>6, <3>2
      <4>2. a.entries[p + n] = l.entries[p + n]
        BY <2>3, <2>5, <2>8, <3>1, <4>1
      <4>3. l.entries[p + n] = es[n]
        BY <2>1, <4>1
      <4>4. QED
        BY <4>2, <4>3
    <3>3. CASE ~(n < k)
      <4> DEFINE d == p + n - Len(kept)
      <4>1. ~(p + n <= Len(kept)) /\ d \in 1 .. Len(es) - k + 1 /\ k + d - 1 = n
        BY <1>1, <2>2, <2>6, <3>3
      <4> HIDE DEF d
      <4>2. long[p + n] = more[d]
        <5> DEFINE x == p + n
        <5>1. x \in 1 .. Len(kept) + Len(more) /\ ~(x <= Len(kept)) /\ d = x - Len(kept)
          BY <3>1, <4>1 DEF d
        <5> HIDE DEF x
        <5>2. long[x] = more[d]
          BY <2>5, <5>1
        <5>3. QED
          BY <5>2 DEF x
      <4>3. more[d] = es[k + d - 1]
        BY <2>4, <4>1
      <4>4. QED
        BY <2>8, <4>1, <4>2, <4>3
    <3>4. QED
      BY <3>2, <3>3
  <2>11. QED
    BY <1>4, <2>8, <2>9, <2>10
<1>7. QED
  BY <1>5, <1>6

\* find_conflict returns an index, never one past the end of what it has.
LEMMA FindConflictType ==
  ASSUME NEW l \in FullLog, NEW i \in Nat, NEW t \in Nat
  PROVE  FindConflict(l, i, t) \in Nat
<1>1. l.entries \in Seq(Nat) /\ l.snapshot_index = 0
  BY DEF FullLog, LogType
<1>2. LastIndex(l) \in Nat
  BY LastType
<1> DEFINE F == {f \in FirstIndex(l) .. i : \A k \in f .. i : Get(l, k) = Get(l, i)}
<1>3. FirstIndex(l) = 1
  BY <1>1 DEF FirstIndex
<1>4. CASE i > LastIndex(l)
  <2>1. ~(i <= l.snapshot_index) /\ i \notin FirstIndex(l) .. LastIndex(l)
    BY <1>1, <1>2, <1>3, <1>4
  <2>2. FindConflict(l, i, t) = LastIndex(l) + 1
    BY <1>4, <2>1, Zenon DEF FindConflict
  <2>3. QED
    BY <1>2, <2>2
<1>5. CASE i <= LastIndex(l) /\ i <= l.snapshot_index
  BY <1>1, <1>2, <1>3, <1>5 DEF FindConflict
<1>6. CASE i <= LastIndex(l) /\ i > l.snapshot_index
  <2>1. i \in FirstIndex(l) .. LastIndex(l)
    BY <1>1, <1>2, <1>3, <1>6
  <2>2. CASE Get(l, i) = t
    BY <1>1, <1>2, <1>6, <2>1, <2>2 DEF FindConflict
  <2>3. CASE Get(l, i) # t
    <3>1. FindConflict(l, i, t) = Min(F)
      BY <1>1, <1>2, <1>6, <2>1, <2>3 DEF FindConflict
    <3>2. i \in F /\ F \in SUBSET Nat
      BY <1>3, <2>1
    <3>3. Min(F) \in F
      BY <3>2, MinOfNats
    <3>4. QED
      BY <3>1, <3>2, <3>3
  <2>4. QED
    BY <2>2, <2>3
<1>7. QED
  BY <1>1, <1>2, <1>4, <1>5, <1>6

-----------------------------------------------------------------------------
(* The inductive invariant of RaftNode *)

\* No member of this model compacts its log.
Uncompacted == \A i \in Member : log[i] \in FullLog

\* The inductive invariant, by the parts of the state an action works on.  The
\* types alone are not inductive: the term an append is anchored at is a term
\* only because the anchor is in the log, so the bounds of the indices go with
\* them.
ElectionOK ==
    /\ disk \in [Member -> PersistentState]
    /\ incarnation \in [Member -> Nat]
    /\ term \in [Member -> Nat]
    /\ voted_for \in [Member -> Member \cup {None}]
    /\ role \in [Member -> Role]
    /\ leader \in [Member -> Member \cup {None}]
    /\ voting \in [Member -> BOOLEAN]
    /\ round \in [Member -> Round]
    /\ stopped \in SUBSET Member

ReplicationOK ==
    /\ log \in [Member -> FullLog]
    /\ commit_index \in [Member -> Nat]
    /\ peers \in [Member -> [Member -> PeerState]]
    /\ IndexBounds

NetworkOK ==
    /\ link \in [Member -> [Member -> {"down", "up", "broken"}]]
    /\ req \in [Member -> [Member -> Seq(Request)]]
    /\ rep \in [Member -> [Member -> Seq(Answer)]]
    /\ orphan \in [Member -> [Member -> Seq(Request)]]

LedgerOK ==
    /\ resends \in Nat /\ drops \in Nat /\ saveFailures \in Nat
    /\ elected \in SUBSET (Nat \X Member)
    /\ cast \in SUBSET (Nat \X Member \X Member)
    /\ committed \in SUBSET (Nat \X Nat)

Inv == ElectionOK /\ ReplicationOK /\ NetworkOK /\ LedgerOK

\* What a leader with log l knows of its peers, in range.
RowOK(l, row) ==
    /\ row \in [Member -> PeerState]
    /\ \A j \in Member : /\ row[j].match_index < row[j].next_index
                         /\ row[j].next_index <= LastIndex(l) + 1

-----------------------------------------------------------------------------
(* Messages *)

\* The request of a candidate or pre-candidate is a request.
LEMMA VoteRequestType ==
  ASSUME NEW i \in Member, Uncompacted, NEW t \in Nat, NEW pre \in BOOLEAN
  PROVE  VoteRequest(i, t, pre) \in Request
<1>1. LastIndex(log[i]) \in Nat /\ LastTerm(log[i]) \in Nat
  BY LastType DEF Uncompacted
<1>2. VoteRequest(i, t, pre) \in RequestVote
  BY <1>1 DEF VoteRequest, RequestVote
<1>3. QED
  BY <1>2 DEF Request

\* The answer to one is an answer.
LEMMA VoteReplyType ==
  ASSUME NEW t \in Nat, NEW g \in BOOLEAN, NEW v \in BOOLEAN, NEW pre \in BOOLEAN
  PROVE  VoteReply(t, g, v, pre) \in Answer
BY DEF VoteReply, Answer, RequestVoteReply

\* So is the answer to an append.
LEMMA AppendReplyType ==
  ASSUME NEW i \in Member, TypeOK, NEW t \in Nat, NEW success \in BOOLEAN,
         NEW match \in Nat, NEW conflict \in Nat,
         NEW request \in {"carrying", "empty", "none"}
  PROVE  AppendReply(i, t, success, match, conflict, request) \in Answer
<1>1. voting[i] \in BOOLEAN
  BY DEF TypeOK
<1>2. AppendReply(i, t, success, match, conflict, request) \in AppendEntriesReply
  BY <1>1 DEF AppendReply, AppendEntriesReply
<1>3. QED
  BY <1>2 DEF Answer

\* The entries an append carries are terms.
LEMMA CarriedType ==
  ASSUME NEW l \in FullLog, NEW s \in PeerState, s.next_index # 0, NEW late \in BOOLEAN
  PROVE  Carried(l, s, late) \in Seq(Nat) /\ Len(Carried(l, s, late)) \in Nat
<1>1. s.next_index \in Nat \ {0} /\ MaxEntries \in Nat
  BY BoundAssumption DEF PeerState
<1>2. Slice(l, s.next_index, MaxEntries) \in Seq(Nat)
  BY <1>1, SliceType
<1>3. <<>> \in Seq(Nat)
  BY EmptySeq
<1>4. Carried(l, s, late) \in Seq(Nat)
  BY <1>2, <1>3 DEF Carried
<1>5. QED
  BY <1>4, LenProperties

\* An append anchored inside the leader's log is a request.
LEMMA AppendForType ==
  ASSUME NEW t \in Nat, NEW l \in FullLog, NEW c \in Nat, NEW s \in PeerState,
         s.match_index < s.next_index, s.next_index <= LastIndex(l) + 1,
         NEW late \in BOOLEAN
  PROVE  AppendFor(t, l, c, s, late) \in Request
<1>1. s.next_index \in Nat /\ s.match_index \in Nat
  BY DEF PeerState
<1>2. LastIndex(l) \in Nat
  BY LastType
<1>3. s.next_index - 1 \in Nat /\ s.next_index # 0 /\ s.next_index - 1 <= LastIndex(l)
  BY <1>1, <1>2
<1>4. TermAt(l, s.next_index - 1) \in Nat
  BY <1>3, TermAtType
<1>5. Carried(l, s, late) \in Seq(Nat)
  BY <1>3, CarriedType
<1>6. AppendFor(t, l, c, s, late) \in AppendEntries
  BY <1>3, <1>4, <1>5 DEF AppendFor, AppendEntries
<1>7. QED
  BY <1>6 DEF Request

\* And it leaves what the leader knows of the peer in range.
LEMMA AfterAppendType ==
  ASSUME NEW l \in FullLog, NEW c \in Nat, NEW s \in PeerState,
         s.match_index < s.next_index, NEW late \in BOOLEAN, NEW n \in Nat
  PROVE  /\ AfterAppend(l, c, s, late, n) \in PeerState
         /\ AfterAppend(l, c, s, late, n).match_index = s.match_index
         /\ AfterAppend(l, c, s, late, n).next_index = s.next_index
<1>1. s.next_index \in Nat /\ s.match_index \in Nat /\ s.pending \in Nat
  BY DEF PeerState
<1>2. s.next_index # 0
  BY <1>1
<1>3. Len(Carried(l, s, late)) \in Nat
  BY <1>2, CarriedType
<1> DEFINE sent == Least(c, s.next_index - 1 + Len(Carried(l, s, late)))
           pend == IF Carried(l, s, late) # <<>> THEN n + 1
                   ELSE IF Paused(s, late) THEN s.pending ELSE 0
<1>4. sent \in Nat /\ pend \in Nat
  BY <1>1, <1>2, <1>3 DEF Least
<1>5. AfterAppend(l, c, s, late, n) = [s EXCEPT !.pending = pend, !.sent_commit = sent]
  BY DEF AfterAppend
<1> HIDE DEF sent, pend
<1>6. QED
  BY <1>4, <1>5 DEF PeerState

\* The positions of a sequence are finitely many.
LEMMA PositionsFinite ==
  ASSUME NEW n \in Nat
  PROVE  IsFiniteSet(1 .. n)
<1>1. 1 \in Int /\ n \in Int
  OBVIOUS
<1>2. QED
  BY <1>1, FS_Interval

\* Counting what is in flight gives a natural.
LEMMA OutstandingType ==
  ASSUME NEW i \in Member, NEW j \in Member, NEW t, NEW taken, TypeOK
  PROVE  Outstanding(i, j, t, taken) \in Nat
<1> DEFINE R == {k \in DOMAIN req[i][j] :
                    /\ req[i][j][k].type = "AppendEntries"
                    /\ req[i][j][k].term = t
                    /\ req[i][j][k].entries # <<>>}
           A == {k \in DOMAIN rep[i][j] :
                    /\ rep[i][j][k].type = "AppendEntriesReply"
                    /\ rep[i][j][k].term = t
                    /\ rep[i][j][k].request = "carrying"
                    /\ ~(taken /\ k = 1)}
<1>1. req[i][j] \in Seq(Request) /\ rep[i][j] \in Seq(Answer)
  BY DEF TypeOK
<1>2. /\ Len(req[i][j]) \in Nat /\ DOMAIN req[i][j] = 1 .. Len(req[i][j])
      /\ Len(rep[i][j]) \in Nat /\ DOMAIN rep[i][j] = 1 .. Len(rep[i][j])
  BY <1>1, LenProperties
<1>3. IsFiniteSet(1 .. Len(req[i][j])) /\ IsFiniteSet(1 .. Len(rep[i][j]))
  BY <1>2, PositionsFinite
<1>4. R \in SUBSET (1 .. Len(req[i][j])) /\ A \in SUBSET (1 .. Len(rep[i][j]))
  BY <1>2
<1>5. IsFiniteSet(R) /\ IsFiniteSet(A)
  BY <1>3, <1>4, FS_Subset
<1>6. Cardinality(R) \in Nat /\ Cardinality(A) \in Nat
  BY <1>5, FS_CardinalityType
<1>7. Outstanding(i, j, t, taken) = Cardinality(R) + Cardinality(A)
  BY DEF Outstanding
<1> HIDE DEF R, A
<1>8. QED
  BY <1>6, <1>7

\* Replicating to some peers sends requests, and leaves the row in range.
LEMMA ReplicateType ==
  ASSUME TypeOK, NEW i \in Member, NEW t \in Nat, NEW l \in FullLog, NEW c \in Nat,
         NEW row, RowOK(l, row), NEW J, NEW late, NEW read
  PROVE  /\ Appends(i, t, l, c, row, J, late) \in [Member -> Seq(Request)]
         /\ RowOK(l, AppendedRow(i, t, l, c, row, J, late, read))
<1>1. ASSUME NEW j \in Member
      PROVE  /\ row[j] \in PeerState
             /\ row[j].match_index < row[j].next_index
             /\ row[j].next_index <= LastIndex(l) + 1
             /\ (j \in late) \in BOOLEAN
  BY <1>1 DEF RowOK
<1>2. ASSUME NEW j \in Member
      PROVE  <<AppendFor(t, l, c, row[j], j \in late)>> \in Seq(Request)
  <2>1. AppendFor(t, l, c, row[j], j \in late) \in Request
    BY <1>1, AppendForType
  <2>2. QED
    BY <2>1
<1>3. Appends(i, t, l, c, row, J, late) \in [Member -> Seq(Request)]
  <2>1. <<>> \in Seq(Request)
    OBVIOUS
  <2>2. QED
    BY <1>2, <2>1 DEF Appends
<1> DEFINE after(j) == AfterAppend(l, c, row[j], j \in late, Outstanding(i, j, t, j = read))
<1>4. ASSUME NEW j \in Member
      PROVE  /\ after(j) \in PeerState
             /\ after(j).match_index = row[j].match_index
             /\ after(j).next_index = row[j].next_index
  <2>1. Outstanding(i, j, t, j = read) \in Nat
    BY OutstandingType
  <2>2. \A b \in BOOLEAN, n \in Nat :
          /\ AfterAppend(l, c, row[j], b, n) \in PeerState
          /\ AfterAppend(l, c, row[j], b, n).match_index = row[j].match_index
          /\ AfterAppend(l, c, row[j], b, n).next_index = row[j].next_index
    BY <1>1, AfterAppendType
  <2>3. (j \in late) \in BOOLEAN
    OBVIOUS
  <2>4. QED
    BY <2>1, <2>2, <2>3, Zenon
<1>5. AppendedRow(i, t, l, c, row, J, late, read)
        = [j \in Member |-> IF j \in J THEN after(j) ELSE row[j]]
  BY DEF AppendedRow
<1> HIDE DEF after
<1>6. RowOK(l, AppendedRow(i, t, l, c, row, J, late, read))
  BY <1>1, <1>4, <1>5 DEF RowOK
<1>7. QED
  BY <1>3, <1>6

\* A request, by its type.
LEMMA RequestFields ==
  ASSUME NEW m \in Request
  PROVE  /\ m.term \in Nat
         /\ m.type = "RequestVote" => m \in RequestVote
         /\ m.type = "AppendEntries" => m \in AppendEntries
         /\ m.type = "Promote" => m \in Promote
BY DEF Request, RequestVote, AppendEntries, Promote

\* An answer, by its type.
LEMMA AnswerFields ==
  ASSUME NEW m \in Answer
  PROVE  /\ m.term \in Nat
         /\ m.type = "RequestVoteReply" => m \in RequestVoteReply
         /\ m.type # "RequestVoteReply" => m \in AppendEntriesReply
         /\ m.type \in {"RequestVoteReply", "AppendEntriesReply"}
BY DEF Answer, RequestVoteReply, AppendEntriesReply

-----------------------------------------------------------------------------
(* Connections *)

\* The invariant is the types, with logs that have no snapshot, and the bounds.
LEMMA InvFacts ==
  ASSUME Inv
  PROVE  TypeOK /\ Uncompacted /\ IndexBounds
<1>1. log \in [Member -> LogType]
  BY DEF Inv, ReplicationOK, FullLog
<1>2. QED
  BY <1>1 DEF Inv, ElectionOK, ReplicationOK, NetworkOK, LedgerOK, TypeOK, Uncompacted

\* What is sent joins the requests in flight (Transport.send).
LEMMA SendType ==
  ASSUME NetworkOK, NEW i \in Member, NEW out \in [Member -> Seq(Request)], Send(i, out)
  PROVE  req' \in [Member -> [Member -> Seq(Request)]]
<1>1. ASSUME NEW j \in Member
      PROVE  req[i][j] \in Seq(Request) /\ req[i][j] \o out[j] \in Seq(Request)
  <2>1. req[i][j] \in Seq(Request) /\ out[j] \in Seq(Request)
    BY DEF NetworkOK
  <2>2. QED
    BY <2>1, ConcatProperties
<1> DEFINE row == [j \in Member |-> IF link[i][j] = "up" THEN req[i][j] \o out[j]
                                                        ELSE req[i][j]]
<1>2. row \in [Member -> Seq(Request)]
  BY <1>1
<1>3. req' = [req EXCEPT ![i] = row]
  BY DEF Send
<1> HIDE DEF row
<1>4. QED
  BY <1>2, <1>3 DEF NetworkOK

\* A broadcast is a sequence of requests to each peer.
LEMMA ToAllType ==
  ASSUME NEW i \in Member, NEW m \in Request
  PROVE  ToAll(i, m) \in [Member -> Seq(Request)]
<1>1. <<m>> \in Seq(Request) /\ <<>> \in Seq(Request)
  OBVIOUS
<1>2. QED
  BY <1>1 DEF ToAll

\* One answer is a sequence of answers.
LEMMA OneAnswer ==
  ASSUME NEW m \in Answer
  PROVE  <<m>> \in Seq(Answer)
OBVIOUS

\* Handling a request takes it and adds its answers (_dispatch).
LEMMA RespondType ==
  ASSUME NetworkOK, NEW i \in Member, NEW j \in Member, NEW src,
         Inbound(i, j, src) # <<>>, NEW answers \in Seq(Answer),
         Respond(i, j, src, answers)
  PROVE  NetworkOK'
<1>1. CASE src = "connection"
  <2>1. req[j][i] \in Seq(Request) /\ req[j][i] # <<>> /\ rep[j][i] \in Seq(Answer)
    BY <1>1 DEF NetworkOK, Inbound
  <2>2. Tail(req[j][i]) \in Seq(Request)
    BY <2>1, HeadTailProperties
  <2>3. rep[j][i] \o answers \in Seq(Answer)
    BY <2>1, ConcatProperties
  <2>4. /\ req' = [req EXCEPT ![j][i] = Tail(req[j][i])]
        /\ rep' = [rep EXCEPT ![j][i] = rep[j][i] \o answers]
        /\ UNCHANGED <<link, orphan>>
    BY <1>1 DEF Respond
  <2>5. QED
    BY <2>2, <2>3, <2>4 DEF NetworkOK
<1>2. CASE src # "connection"
  <2>1. orphan[j][i] \in Seq(Request) /\ orphan[j][i] # <<>>
    BY <1>2 DEF NetworkOK, Inbound
  <2>2. Tail(orphan[j][i]) \in Seq(Request)
    BY <2>1, HeadTailProperties
  <2>3. /\ orphan' = [orphan EXCEPT ![j][i] = Tail(orphan[j][i])]
        /\ UNCHANGED <<link, req, rep>>
    BY <1>2 DEF Respond
  <2>4. QED
    BY <2>2, <2>3 DEF NetworkOK
<1>3. QED
  BY <1>1, <1>2

\* So does reading an answer.
LEMMA TakeAnswerType ==
  ASSUME NetworkOK, NEW i \in Member, NEW j \in Member, rep[i][j] # <<>>,
         TakeAnswer(i, j)
  PROVE  rep' \in [Member -> [Member -> Seq(Answer)]]
<1>1. rep[i][j] \in Seq(Answer)
  BY DEF NetworkOK
<1>2. Tail(rep[i][j]) \in Seq(Answer)
  BY <1>1, HeadTailProperties
<1>3. rep' = [rep EXCEPT ![i][j] = Tail(rep[i][j])]
  BY DEF TakeAnswer
<1>4. QED
  BY <1>2, <1>3 DEF NetworkOK

\* Closing a connection from the far end (_serve).
LEMMA EndInboundType ==
  ASSUME NetworkOK, NEW i \in Member, NEW j \in Member, NEW src, EndInbound(i, j, src)
  PROVE  NetworkOK'
<1>1. <<>> \in Seq(Request)
  OBVIOUS
<1>2. CASE src = "connection"
  <2>1. /\ link' = [link EXCEPT ![j][i] = "broken"]
        /\ req' = [req EXCEPT ![j][i] = <<>>]
        /\ UNCHANGED <<rep, orphan>>
    BY <1>2 DEF EndInbound
  <2>2. QED
    BY <1>1, <2>1 DEF NetworkOK
<1>3. CASE src # "connection"
  <2>1. /\ orphan' = [orphan EXCEPT ![j][i] = <<>>]
        /\ UNCHANGED <<link, req, rep>>
    BY <1>3 DEF EndInbound
  <2>2. QED
    BY <1>1, <2>1 DEF NetworkOK
<1>4. QED
  BY <1>2, <1>3

\* Giving one up (_drop).
LEMMA DropLinkType ==
  ASSUME NetworkOK, NEW i \in Member, NEW j \in Member, DropLink(i, j)
  PROVE  NetworkOK'
<1>1. <<>> \in Seq(Request) /\ <<>> \in Seq(Answer)
  OBVIOUS
<1>2. orphan[i][j] \in Seq(Request) /\ req[i][j] \in Seq(Request)
  BY DEF NetworkOK
<1>3. orphan[i][j] \o req[i][j] \in Seq(Request)
  BY <1>2, ConcatProperties
<1>4. QED
  BY <1>1, <1>3 DEF DropLink, NetworkOK

\* The end of a process.
LEMMA ProcessEndsType ==
  ASSUME NetworkOK, NEW i \in Member, ProcessEnds(i)
  PROVE  NetworkOK'
<1>1. <<>> \in Seq(Request) /\ <<>> \in Seq(Answer)
  OBVIOUS
<1>2. ASSUME NEW a \in Member, NEW b \in Member
      PROVE  /\ orphan[a][b] \in Seq(Request)
             /\ req[a][b] \in Seq(Request)
             /\ orphan[a][b] \o req[a][b] \in Seq(Request)
             /\ link[a][b] \in {"down", "up", "broken"}
  <2>1. orphan[a][b] \in Seq(Request) /\ req[a][b] \in Seq(Request)
    BY DEF NetworkOK
  <2>2. QED
    BY <2>1, ConcatProperties DEF NetworkOK
<1>3. link' \in [Member -> [Member -> {"down", "up", "broken"}]]
  BY <1>2 DEF ProcessEnds
<1>4. req' \in [Member -> [Member -> Seq(Request)]]
  BY <1>1, <1>2 DEF ProcessEnds
<1>5. rep' \in [Member -> [Member -> Seq(Answer)]]
  BY <1>1 DEF ProcessEnds, NetworkOK
<1>6. orphan' \in [Member -> [Member -> Seq(Request)]]
  BY <1>1, <1>2 DEF ProcessEnds
<1>7. QED
  BY <1>3, <1>4, <1>5, <1>6 DEF NetworkOK

-----------------------------------------------------------------------------
(* Roles, terms and logs *)

\* A later term is adopted in memory (_step_down).
LEMMA AdoptType ==
  ASSUME ElectionOK, NEW i \in Member, NEW t \in Nat, Adopt(i, t)
  PROVE  /\ term' \in [Member -> Nat]
         /\ voted_for' \in [Member -> Member \cup {None}]
         /\ role' \in [Member -> Role]
         /\ leader' \in [Member -> Member \cup {None}]
         /\ round' \in [Member -> Round]
         /\ role'[i] = "FOLLOWER"
         /\ \A k \in Member : role'[k] = "LEADER" => role[k] = "LEADER"
<1>1. EmptyRound \in Round
  BY DEF EmptyRound, Round
<1>2. "FOLLOWER" \in Role
  BY DEF Role
<1>3. QED
  BY <1>1, <1>2 DEF Adopt, ElectionOK

\* The term file is saved (_persist).
LEMMA SavedType ==
  ASSUME ElectionOK, NEW i \in Member, NEW t \in Nat, NEW v \in Member \cup {None},
         disk' = [disk EXCEPT ![i] = [term |-> t, voted_for |-> v]]
  PROVE  disk' \in [Member -> PersistentState]
BY DEF ElectionOK, PersistentState

\* A leader is followed (on_append_entries).
LEMMA FollowType ==
  ASSUME ElectionOK, NEW i \in Member, NEW j \in Member, NEW t \in Nat, Follow(i, j, t)
  PROVE  /\ disk' \in [Member -> PersistentState]
         /\ term' \in [Member -> Nat]
         /\ voted_for' \in [Member -> Member \cup {None}]
         /\ role' \in [Member -> Role]
         /\ leader' \in [Member -> Member \cup {None}]
         /\ round' \in [Member -> Round]
         /\ role'[i] = "FOLLOWER"
         /\ \A k \in Member : role'[k] = "LEADER" => role[k] = "LEADER"
<1>1. EmptyRound \in Round
  BY DEF EmptyRound, Round
<1>2. "FOLLOWER" \in Role
  BY DEF Role
<1>3. /\ leader' \in [Member -> Member \cup {None}]
      /\ role' \in [Member -> Role]
      /\ role'[i] = "FOLLOWER"
      /\ \A k \in Member : role'[k] = "LEADER" => role[k] = "LEADER"
  BY <1>2 DEF Follow, ElectionOK
<1>4. CASE t > term[i]
  <2>1. disk' = [disk EXCEPT ![i] = [term |-> t, voted_for |-> None]]
    BY <1>4 DEF Follow
  <2>2. disk' \in [Member -> PersistentState]
    BY <2>1, SavedType
  <2>3. QED
    BY <1>1, <1>3, <1>4, <2>2 DEF Follow, ElectionOK
<1>5. CASE ~(t > term[i])
  BY <1>3, <1>5 DEF Follow, ElectionOK
<1>6. QED
  BY <1>4, <1>5

\* Nothing replicated changes, and nobody starts to lead.
LEMMA ReplicationKept ==
  ASSUME ReplicationOK, UNCHANGED replication,
         \A k \in Member : role'[k] = "LEADER" => role[k] = "LEADER"
  PROVE  ReplicationOK'
BY DEF ReplicationOK, IndexBounds, replication

\* One member's log, commit index and peer states change.
LEMMA ReplicationStep ==
  ASSUME ReplicationOK, NEW i \in Member, NEW l \in FullLog, NEW c \in Nat,
         c <= LastIndex(l), NEW row \in [Member -> PeerState],
         role'[i] = "LEADER" => RowOK(l, row),
         \A k \in Member \ {i} : role'[k] = "LEADER" => role[k] = "LEADER",
         log' = [log EXCEPT ![i] = l],
         commit_index' = [commit_index EXCEPT ![i] = c],
         peers' = [peers EXCEPT ![i] = row]
  PROVE  ReplicationOK'
<1>1. /\ log' \in [Member -> FullLog]
      /\ commit_index' \in [Member -> Nat]
      /\ peers' \in [Member -> [Member -> PeerState]]
  BY DEF ReplicationOK
<1>2. /\ log'[i] = l /\ commit_index'[i] = c /\ peers'[i] = row
      /\ \A k \in Member \ {i} : /\ log'[k] = log[k] /\ commit_index'[k] = commit_index[k]
                                 /\ peers'[k] = peers[k]
  BY DEF ReplicationOK
<1>3. \A k \in Member : commit_index'[k] <= LastIndex(log'[k])
  <2>1. TAKE k \in Member
  <2>2. CASE k = i
    BY <1>2, <2>2
  <2>3. CASE k # i
    BY <1>2, <2>3 DEF ReplicationOK, IndexBounds
  <2>4. QED
    BY <2>2, <2>3
<1>4. ASSUME NEW k \in Member, NEW j \in Member, role'[k] = "LEADER"
      PROVE  /\ peers'[k][j].match_index < peers'[k][j].next_index
             /\ peers'[k][j].next_index <= LastIndex(log'[k]) + 1
  <2>1. CASE k = i
    BY <1>2, <1>4, <2>1 DEF RowOK
  <2>2. CASE k # i
    BY <1>2, <1>4, <2>2 DEF ReplicationOK, IndexBounds
  <2>3. QED
    BY <2>1, <2>2
<1>5. IndexBounds'
  BY <1>3, <1>4 DEF IndexBounds
<1>6. QED
  BY <1>1, <1>5 DEF ReplicationOK

\* The row of a leader is in range.
LEMMA LeaderRow ==
  ASSUME ReplicationOK, NEW i \in Member, role[i] = "LEADER"
  PROVE  RowOK(log[i], peers[i])
BY DEF ReplicationOK, IndexBounds, RowOK

\* The facts every step starts from.
LEMMA MemberFacts ==
  ASSUME Inv, NEW i \in Member
  PROVE  /\ TypeOK /\ Uncompacted
         /\ term[i] \in Nat /\ voting[i] \in BOOLEAN /\ round[i] \in Round
         /\ log[i] \in FullLog /\ LastIndex(log[i]) \in Nat /\ LastTerm(log[i]) \in Nat
         /\ commit_index[i] \in Nat /\ commit_index[i] <= LastIndex(log[i])
         /\ peers[i] \in [Member -> PeerState]
<1>1. log[i] \in FullLog
  BY DEF Inv, ReplicationOK
<1>2. LastIndex(log[i]) \in Nat /\ LastTerm(log[i]) \in Nat
  BY <1>1, LastType
<1>3. /\ term[i] \in Nat /\ voting[i] \in BOOLEAN /\ round[i] \in Round
  BY DEF Inv, ElectionOK
<1>4. /\ commit_index[i] \in Nat /\ commit_index[i] <= LastIndex(log[i])
      /\ peers[i] \in [Member -> PeerState]
  BY DEF Inv, ReplicationOK, IndexBounds
<1>5. QED
  BY <1>1, <1>2, <1>3, <1>4, InvFacts

-----------------------------------------------------------------------------
(* Every action keeps the invariant *)

\* _pre_campaign
LEMMA PreCampaignStep ==
  ASSUME Inv, NEW i \in Member, PreCampaign(i)
  PROVE  Inv'
<1>1. ElectionOK'
  <2>1. "PRE_CANDIDATE" \in Role
    BY DEF Role
  <2>2. round' \in [Member -> Round]
    <3> DEFINE r == [round[i] EXCEPT !.pre_votes = {i}, !.pre_refusals = {},
                                     !.pre_forgotten = {}]
    <3>1. r \in Round
      <4>1. round[i] \in Round
        BY MemberFacts
      <4>2. QED
        BY <4>1 DEF Round
    <3>2. round' = [round EXCEPT ![i] = r]
      BY DEF PreCampaign
    <3> HIDE DEF r
    <3>3. QED
      BY <3>1, <3>2 DEF Inv, ElectionOK
  <2>3. QED
    BY <2>1, <2>2 DEF PreCampaign, Inv, ElectionOK, durable
<1>2. ReplicationOK'
  <2>1. \A k \in Member : role'[k] = "LEADER" => role[k] = "LEADER"
    BY DEF PreCampaign, Inv, ElectionOK
  <2>2. QED
    BY <2>1, ReplicationKept DEF PreCampaign, Inv
<1>3. NetworkOK'
  <2>1. VoteRequest(i, term[i] + 1, TRUE) \in Request
    <3>1. term[i] + 1 \in Nat /\ Uncompacted
      BY MemberFacts
    <3>2. QED
      BY <3>1, VoteRequestType
  <2>2. ToAll(i, VoteRequest(i, term[i] + 1, TRUE)) \in [Member -> Seq(Request)]
    BY <2>1, ToAllType
  <2>3. NetworkOK /\ Send(i, ToAll(i, VoteRequest(i, term[i] + 1, TRUE)))
    BY DEF PreCampaign, Inv
  <2>4. req' \in [Member -> [Member -> Seq(Request)]]
    BY <2>2, <2>3, SendType
  <2>5. QED
    BY <2>3, <2>4 DEF NetworkOK, PreCampaign
<1>4. LedgerOK'
  BY DEF PreCampaign, Inv, LedgerOK, history, faults
<1>5. QED
  BY <1>1, <1>2, <1>3, <1>4 DEF Inv

\* A request handled that changes no more than the connection.
LEMMA RefuseUnderLeaseStep ==
  ASSUME Inv, NEW i \in Member, NEW j \in Member, NEW src, NEW m \in Request,
         Inbound(i, j, src) # <<>>, RefuseUnderLease(i, j, src, m)
  PROVE  Inv'
<1>1. <<VoteReply(term[i], FALSE, voting[i], m.pre_vote)>> \in Seq(Answer)
  <2>1. m \in RequestVote
    BY RequestFields DEF RefuseUnderLease
  <2>2. m.pre_vote \in BOOLEAN
    BY <2>1 DEF RequestVote
  <2>3. VoteReply(term[i], FALSE, voting[i], m.pre_vote) \in Answer
    BY <2>2, MemberFacts, VoteReplyType
  <2>4. QED
    BY <2>3, OneAnswer
<1>2. NetworkOK'
  BY <1>1, RespondType DEF RefuseUnderLease, Inv
<1>3. UNCHANGED <<durable, election, replication, history, stopped, faults>>
  BY DEF RefuseUnderLease
<1>4. ElectionOK' /\ LedgerOK'
  BY <1>3 DEF Inv, ElectionOK, LedgerOK, durable, election, history, faults
<1>5. ReplicationOK'
  BY <1>3, ReplicationKept DEF Inv, election
<1>6. QED
  BY <1>2, <1>4, <1>5 DEF Inv

\* _answer_pre_vote
LEMMA AnswerPreVoteStep ==
  ASSUME Inv, NEW i \in Member, NEW j \in Member, NEW src, NEW m \in Request,
         Inbound(i, j, src) # <<>>, AnswerPreVote(i, j, src, m)
  PROVE  Inv'
<1> DEFINE granted == /\ m.term > term[i]
                      /\ IsAtLeastAsCurrentAs(log[i], m.last_log_index, m.last_log_term)
           t == IF granted THEN m.term ELSE term[i]
<1>1. <<VoteReply(t, granted, voting[i], TRUE)>> \in Seq(Answer)
  <2>1. m.term \in Nat /\ term[i] \in Nat /\ voting[i] \in BOOLEAN
    BY RequestFields, MemberFacts
  <2>2. t \in Nat /\ granted \in BOOLEAN
    BY <2>1
  <2> HIDE DEF t, granted
  <2>3. VoteReply(t, granted, voting[i], TRUE) \in Answer
    BY <2>1, <2>2, VoteReplyType
  <2>4. QED
    BY <2>3, OneAnswer
<1>2. NetworkOK'
  <2>1. NetworkOK /\ Respond(i, j, src, <<VoteReply(t, granted, voting[i], TRUE)>>)
    BY DEF AnswerPreVote, Inv
  <2> HIDE DEF t, granted
  <2>2. QED
    BY <1>1, <2>1, RespondType
<1>3. UNCHANGED <<durable, election, replication, history, stopped, faults>>
  BY DEF AnswerPreVote
<1>4. ElectionOK' /\ LedgerOK'
  BY <1>3 DEF Inv, ElectionOK, LedgerOK, durable, election, history, faults
<1>5. ReplicationOK'
  BY <1>3, ReplicationKept DEF Inv, election
<1>6. QED
  BY <1>2, <1>4, <1>5 DEF Inv

\* A granted vote, before anything is saved or answered.
LEMMA GrantedType ==
  ASSUME ElectionOK, NEW i \in Member, NEW j \in Member, NEW t \in Nat,
         term' = [term EXCEPT ![i] = t],
         voted_for' = [voted_for EXCEPT ![i] = j],
         \/ /\ role' = [role EXCEPT ![i] = "FOLLOWER"]
            /\ leader' = [leader EXCEPT ![i] = None]
            /\ round' = [round EXCEPT ![i] = EmptyRound]
         \/ UNCHANGED <<role, leader, round>>
  PROVE  /\ term' \in [Member -> Nat]
         /\ voted_for' \in [Member -> Member \cup {None}]
         /\ role' \in [Member -> Role]
         /\ leader' \in [Member -> Member \cup {None}]
         /\ round' \in [Member -> Round]
         /\ \A k \in Member : role'[k] = "LEADER" => role[k] = "LEADER"
<1>1. EmptyRound \in Round /\ "FOLLOWER" \in Role
  BY DEF EmptyRound, Round, Role
<1>2. term' \in [Member -> Nat] /\ voted_for' \in [Member -> Member \cup {None}]
  BY DEF ElectionOK
<1>3. CASE UNCHANGED <<role, leader, round>>
  BY <1>2, <1>3 DEF ElectionOK
<1>4. CASE /\ role' = [role EXCEPT ![i] = "FOLLOWER"]
           /\ leader' = [leader EXCEPT ![i] = None]
           /\ round' = [round EXCEPT ![i] = EmptyRound]
  BY <1>1, <1>2, <1>4 DEF ElectionOK
<1>5. QED
  BY <1>3, <1>4

\* on_request_vote, granted.
LEMMA GrantVoteStep ==
  ASSUME Inv, NEW i \in Member, NEW j \in Member, NEW src, NEW m \in Request,
         Inbound(i, j, src) # <<>>, GrantVote(i, j, src, m)
  PROVE  Inv'
<1>1. m.term \in Nat /\ voting[i] \in BOOLEAN
  BY RequestFields, MemberFacts
<1>2. /\ term' \in [Member -> Nat]
      /\ voted_for' \in [Member -> Member \cup {None}]
      /\ role' \in [Member -> Role]
      /\ leader' \in [Member -> Member \cup {None}]
      /\ round' \in [Member -> Round]
      /\ \A k \in Member : role'[k] = "LEADER" => role[k] = "LEADER"
  <2>1. /\ ElectionOK
        /\ term' = [term EXCEPT ![i] = m.term]
        /\ voted_for' = [voted_for EXCEPT ![i] = j]
        /\ \/ /\ role' = [role EXCEPT ![i] = "FOLLOWER"]
              /\ leader' = [leader EXCEPT ![i] = None]
              /\ round' = [round EXCEPT ![i] = EmptyRound]
           \/ UNCHANGED <<role, leader, round>>
    BY DEF GrantVote, Inv
  <2>2. QED
    BY <1>1, <2>1, GrantedType
<1>3. disk' \in [Member -> PersistentState]
  BY <1>1, SavedType DEF GrantVote, Inv
<1>4. ElectionOK'
  BY <1>2, <1>3 DEF GrantVote, Inv, ElectionOK
<1>5. ReplicationOK'
  BY <1>2, ReplicationKept DEF GrantVote, Inv
<1>6. NetworkOK'
  <2>1. VoteReply(m.term, TRUE, voting[i], FALSE) \in Answer
    BY <1>1, VoteReplyType
  <2>2. <<VoteReply(m.term, TRUE, voting[i], FALSE)>> \in Seq(Answer)
    BY <2>1, OneAnswer
  <2>3. QED
    BY <2>2, RespondType DEF GrantVote, Inv
<1>7. LedgerOK'
  BY <1>1 DEF GrantVote, Inv, LedgerOK, faults
<1>8. QED
  BY <1>4, <1>5, <1>6, <1>7 DEF Inv

\* A later term is adopted and saved (_step_down).
LEMMA StepDownType ==
  ASSUME ElectionOK, NEW i \in Member, NEW t \in Nat, StepDown(i, t),
         UNCHANGED <<incarnation, voting, stopped>>
  PROVE  /\ ElectionOK'
         /\ role'[i] = "FOLLOWER"
         /\ \A k \in Member : role'[k] = "LEADER" => role[k] = "LEADER"
<1>1. Adopt(i, t) /\ disk' = [disk EXCEPT ![i] = [term |-> t, voted_for |-> None]]
  BY DEF StepDown
<1>2. disk' \in [Member -> PersistentState]
  BY <1>1, SavedType
<1>3. QED
  BY <1>1, <1>2, AdoptType DEF ElectionOK

\* on_request_vote, refused.
LEMMA DenyVoteStep ==
  ASSUME Inv, NEW i \in Member, NEW j \in Member, NEW src, NEW m \in Request,
         Inbound(i, j, src) # <<>>, DenyVote(i, j, src, m)
  PROVE  Inv'
<1>1. m.term \in Nat /\ term[i] \in Nat /\ voting[i] \in BOOLEAN
  BY RequestFields, MemberFacts
<1>2. /\ ElectionOK'
      /\ \A k \in Member : role'[k] = "LEADER" => role[k] = "LEADER"
  <2>1. CASE m.term > term[i]
    <3>1. ElectionOK /\ StepDown(i, m.term) /\ UNCHANGED <<incarnation, voting, stopped>>
      BY <2>1 DEF DenyVote, Inv
    <3>2. QED
      BY <1>1, <3>1, StepDownType
  <2>2. CASE ~(m.term > term[i])
    BY <2>2 DEF DenyVote, Inv, ElectionOK
  <2>3. QED
    BY <2>1, <2>2
<1>3. ReplicationOK'
  BY <1>2, ReplicationKept DEF DenyVote, Inv
<1>4. NetworkOK'
  <2>1. Greatest(m.term, term[i]) \in Nat
    BY <1>1 DEF Greatest
  <2>2. VoteReply(Greatest(m.term, term[i]), FALSE, voting[i], FALSE) \in Answer
    BY <1>1, <2>1, VoteReplyType
  <2>3. <<VoteReply(Greatest(m.term, term[i]), FALSE, voting[i], FALSE)>> \in Seq(Answer)
    BY <2>2, OneAnswer
  <2>4. QED
    BY <2>3, RespondType DEF DenyVote, Inv
<1>5. LedgerOK'
  BY DEF DenyVote, Inv, LedgerOK, history, faults
<1>6. QED
  BY <1>2, <1>3, <1>4, <1>5 DEF Inv

\* _append_reject
LEMMA RejectAppendStep ==
  ASSUME Inv, NEW i \in Member, NEW j \in Member, NEW src, NEW m \in Request,
         Inbound(i, j, src) # <<>>, RejectAppend(i, j, src, m)
  PROVE  Inv'
<1>1. <<AppendReply(i, term[i], FALSE, 0, 0, "none")>> \in Seq(Answer)
  <2>1. TypeOK /\ term[i] \in Nat
    BY MemberFacts
  <2>2. AppendReply(i, term[i], FALSE, 0, 0, "none") \in Answer
    BY <2>1, AppendReplyType
  <2>3. QED
    BY <2>2, OneAnswer
<1>2. NetworkOK'
  BY <1>1, RespondType DEF RejectAppend, Inv
<1>3. UNCHANGED <<durable, election, replication, history, stopped, faults>>
  BY DEF RejectAppend
<1>4. ElectionOK' /\ LedgerOK'
  BY <1>3 DEF Inv, ElectionOK, LedgerOK, durable, election, history, faults
<1>5. ReplicationOK'
  BY <1>3, ReplicationKept DEF Inv, election
<1>6. QED
  BY <1>2, <1>4, <1>5 DEF Inv

\* _fail, on a contradiction with what is committed.
LEMMA StopOnContradictionStep ==
  ASSUME Inv, NEW i \in Member, NEW j \in Member, NEW src, NEW m \in Request,
         StopOnContradiction(i, j, src, m)
  PROVE  Inv'
<1>1. m.term \in Nat
  BY RequestFields
<1>2. /\ ElectionOK /\ Follow(i, j, m.term) /\ ProcessEnds(i) /\ NetworkOK
      /\ stopped' = stopped \cup {i}
      /\ UNCHANGED <<incarnation, voting, replication, history, faults>>
  BY DEF StopOnContradiction, Fail, Inv
<1>3. ElectionOK' /\ \A k \in Member : role'[k] = "LEADER" => role[k] = "LEADER"
  BY <1>1, <1>2, FollowType DEF ElectionOK
<1>4. ReplicationOK'
  BY <1>2, <1>3, ReplicationKept DEF Inv
<1>5. NetworkOK'
  BY <1>2, ProcessEndsType
<1>6. LedgerOK'
  BY <1>2 DEF Inv, LedgerOK, history, faults
<1>7. QED
  BY <1>3, <1>4, <1>5, <1>6 DEF Inv

\* An append names one of its three kinds.
LEMMA EchoType ==
  ASSUME NEW m
  PROVE  Echo(m) \in {"carrying", "empty", "none"}
BY DEF Echo

\* on_append_entries, refused with the index to resume from.
LEMMA ConflictingAppendStep ==
  ASSUME Inv, NEW i \in Member, NEW j \in Member, NEW src, NEW m \in Request,
         Inbound(i, j, src) # <<>>, ConflictingAppend(i, j, src, m)
  PROVE  Inv'
<1> DEFINE resume == FindConflict(log[i], m.prev_log_index, m.prev_log_term)
<1>1. m \in AppendEntries /\ m.term \in Nat
  BY RequestFields DEF ConflictingAppend
<1>2. <<AppendReply(i, m.term, FALSE, 0, resume, Echo(m))>> \in Seq(Answer)
  <2>1. TypeOK /\ log[i] \in FullLog
    BY MemberFacts
  <2>2. m.prev_log_index \in Nat /\ m.prev_log_term \in Nat
    BY <1>1 DEF AppendEntries
  <2>3. resume \in Nat
    BY <2>1, <2>2, FindConflictType
  <2> HIDE DEF resume
  <2>4. AppendReply(i, m.term, FALSE, 0, resume, Echo(m)) \in Answer
    BY <1>1, <2>1, <2>3, EchoType, AppendReplyType
  <2>5. QED
    BY <2>4, OneAnswer
<1>3. /\ ElectionOK /\ Follow(i, j, m.term) /\ NetworkOK
      /\ Respond(i, j, src, <<AppendReply(i, m.term, FALSE, 0, resume, Echo(m))>>)
      /\ UNCHANGED <<incarnation, voting, replication, history, stopped, faults>>
  BY DEF ConflictingAppend, Inv
<1> HIDE DEF resume
<1>4. ElectionOK' /\ \A k \in Member : role'[k] = "LEADER" => role[k] = "LEADER"
  BY <1>1, <1>3, FollowType DEF ElectionOK
<1>5. ReplicationOK'
  BY <1>3, <1>4, ReplicationKept DEF Inv
<1>6. NetworkOK'
  BY <1>2, <1>3, RespondType
<1>7. LedgerOK'
  BY <1>3 DEF Inv, LedgerOK, history, faults
<1>8. QED
  BY <1>4, <1>5, <1>6, <1>7 DEF Inv

\* What an accepted append leaves: a log that holds all that is committed.
LEMMA AcceptedType ==
  ASSUME NEW i \in Member, NEW m \in AppendEntries, log[i] \in FullLog,
         commit_index[i] \in Nat, commit_index[i] <= LastIndex(log[i]),
         \/ m.prev_log_index < commit_index[i]
         \/ Matches(log[i], m.prev_log_index, m.prev_log_term)
  PROVE  /\ Accepted(i, m).log \in FullLog
         /\ Accepted(i, m).commit \in Nat
         /\ Accepted(i, m).commit <= LastIndex(Accepted(i, m).log)
         /\ Accepted(i, m).match \in Nat
<1>1. /\ m.prev_log_index \in Nat /\ m.prev_log_term \in Nat
      /\ m.entries \in Seq(Nat) /\ m.leader_commit \in Nat
  BY DEF AppendEntries
<1>2. Len(m.entries) \in Nat
  BY <1>1, LenProperties
<1>3. CASE m.prev_log_index < commit_index[i]
  BY <1>3 DEF Accepted
<1>4. CASE ~(m.prev_log_index < commit_index[i])
  <2> DEFINE after == AppendReplicated(log[i], m.prev_log_index + 1, m.entries)
             vouched == m.prev_log_index + Len(m.entries)
             commit == Greatest(commit_index[i], Least(m.leader_commit, vouched))
  <2>1. m.prev_log_index <= LastIndex(log[i])
    <3>1. LastIndex(log[i]) \in Nat
      BY LastType
    <3>2. QED
      BY <1>1, <1>4, <3>1 DEF Matches
  <2>2. after \in FullLog /\ LastIndex(after) >= vouched
    <3> DEFINE first == m.prev_log_index + 1
    <3>1. first \in Nat \ {0} /\ first - 1 = m.prev_log_index
      BY <1>1
    <3> HIDE DEF first
    <3>2. /\ AppendReplicated(log[i], first, m.entries) \in FullLog
          /\ LastIndex(AppendReplicated(log[i], first, m.entries)) >= first - 1 + Len(m.entries)
      BY <1>1, <2>1, <3>1, AppendReplicatedType
    <3>3. QED
      BY <3>1, <3>2 DEF first
  <2>3. Accepted(i, m) = [log |-> after, commit |-> commit, match |-> vouched]
    BY <1>4 DEF Accepted
  <2>4. vouched \in Nat /\ commit_index[i] <= vouched
    BY <1>1, <1>2, <1>4
  <2> HIDE DEF after, vouched
  <2>5. commit \in Nat /\ commit <= vouched
    BY <1>1, <2>4 DEF Least, Greatest
  <2>6. LastIndex(after) \in Nat
    BY <2>2, LastType
  <2> HIDE DEF commit
  <2>7. QED
    BY <2>2, <2>3, <2>4, <2>5, <2>6
<1>5. QED
  BY <1>3, <1>4

\* on_append_entries, accepted.
LEMMA AcceptAppendStep ==
  ASSUME Inv, NEW i \in Member, NEW j \in Member, NEW src, NEW m \in Request,
         Inbound(i, j, src) # <<>>, AcceptAppend(i, j, src, m)
  PROVE  Inv'
<1> DEFINE after == Accepted(i, m)
<1>1. m \in AppendEntries /\ m.term \in Nat
  BY RequestFields DEF AcceptAppend
<1>2. /\ TypeOK /\ log[i] \in FullLog /\ peers[i] \in [Member -> PeerState]
      /\ commit_index[i] \in Nat /\ commit_index[i] <= LastIndex(log[i])
  BY MemberFacts
<1>3. /\ after.log \in FullLog /\ after.commit \in Nat
      /\ after.commit <= LastIndex(after.log) /\ after.match \in Nat
  <2>1. \/ m.prev_log_index < commit_index[i]
        \/ Matches(log[i], m.prev_log_index, m.prev_log_term)
    BY DEF AcceptAppend
  <2>2. QED
    BY <1>1, <1>2, <2>1, AcceptedType
<1>4. /\ ElectionOK /\ Follow(i, j, m.term) /\ NetworkOK /\ ReplicationOK
      /\ log' = [log EXCEPT ![i] = after.log]
      /\ commit_index' = [commit_index EXCEPT ![i] = after.commit]
      /\ Respond(i, j, src, <<AppendReply(i, m.term, TRUE, after.match, 0, Echo(m))>>)
      /\ UNCHANGED <<incarnation, voting, peers, history, stopped, faults>>
  BY DEF AcceptAppend, Inv
<1> HIDE DEF after
<1>5. /\ ElectionOK' /\ role'[i] = "FOLLOWER"
      /\ \A k \in Member : role'[k] = "LEADER" => role[k] = "LEADER"
  BY <1>1, <1>4, FollowType DEF ElectionOK
<1>6. ReplicationOK'
  <2>1. peers' = [peers EXCEPT ![i] = peers[i]]
    BY <1>4 DEF ReplicationOK
  <2>2. role'[i] # "LEADER"
    BY <1>5
  <2>3. QED
    BY <1>2, <1>3, <1>4, <1>5, <2>1, <2>2, ReplicationStep
<1>7. NetworkOK'
  <2>1. AppendReply(i, m.term, TRUE, after.match, 0, Echo(m)) \in Answer
    BY <1>1, <1>2, <1>3, EchoType, AppendReplyType
  <2>2. <<AppendReply(i, m.term, TRUE, after.match, 0, Echo(m))>> \in Seq(Answer)
    BY <2>1, OneAnswer
  <2>3. QED
    BY <1>4, <2>2, RespondType
<1>8. LedgerOK'
  BY <1>4 DEF Inv, LedgerOK, history, faults
<1>9. QED
  BY <1>5, <1>6, <1>7, <1>8 DEF Inv

\* on_promote
LEMMA OnPromoteStep ==
  ASSUME Inv, NEW i \in Member, NEW j \in Member, NEW src, NEW m \in Request,
         Inbound(i, j, src) # <<>>, OnPromote(i, j, src, m)
  PROVE  Inv'
<1>1. /\ NetworkOK /\ Respond(i, j, src, <<>>)
      /\ UNCHANGED <<durable, term, voted_for, role, leader, round, replication,
                     history, stopped, faults>>
  BY DEF OnPromote, Inv
<1>2. voting' \in [Member -> BOOLEAN]
  <2> DEFINE v == voting[i] \/ m.term >= term[i]
  <2>1. voting' = [voting EXCEPT ![i] = v]
    BY DEF OnPromote
  <2>2. v \in BOOLEAN
    OBVIOUS
  <2> HIDE DEF v
  <2>3. QED
    BY <2>1, <2>2 DEF Inv, ElectionOK
<1>3. ElectionOK' /\ LedgerOK'
  BY <1>1, <1>2 DEF Inv, ElectionOK, LedgerOK, durable, history, faults
<1>4. ReplicationOK'
  BY <1>1, ReplicationKept DEF Inv
<1>5. NetworkOK'
  <2>1. <<>> \in Seq(Answer)
    OBVIOUS
  <2>2. QED
    BY <1>1, <2>1, RespondType
<1>6. QED
  BY <1>3, <1>4, <1>5 DEF Inv

\* A save that fails leaves the old file or the new one.
LEMMA SavedOrNotType ==
  ASSUME ElectionOK, NEW i \in Member, NEW t \in Nat, NEW v \in Member \cup {None},
         SavedOrNot(i, [term |-> t, voted_for |-> v])
  PROVE  disk' \in [Member -> PersistentState]
<1>1. CASE UNCHANGED disk
  BY <1>1 DEF ElectionOK
<1>2. CASE disk' = [disk EXCEPT ![i] = [term |-> t, voted_for |-> v]]
  BY <1>2, SavedType
<1>3. QED
  BY <1>1, <1>2 DEF SavedOrNot

\* A request whose handler could not save a later term.
LEMMA StepDownSaveFailsOnRequestStep ==
  ASSUME Inv, NEW i \in Member, NEW j \in Member, NEW src, NEW m \in Request,
         StepDownSaveFailsOnRequest(i, j, src, m)
  PROVE  Inv'
<1>1. m.term \in Nat
  BY RequestFields
<1>2. /\ ElectionOK /\ Adopt(i, m.term) /\ NetworkOK /\ EndInbound(i, j, src)
      /\ saveFailures' = saveFailures + 1
      /\ UNCHANGED <<incarnation, voting, history, stopped, resends, drops>>
      /\ UNCHANGED replication
      /\ SavedOrNot(i, [term |-> m.term, voted_for |-> None])
  BY DEF StepDownSaveFailsOnRequest, SaveFails, Inv
<1>3. ElectionOK' /\ \A k \in Member : role'[k] = "LEADER" => role[k] = "LEADER"
  <2>1. disk' \in [Member -> PersistentState]
    BY <1>1, <1>2, SavedOrNotType
  <2>2. QED
    BY <1>1, <1>2, <2>1, AdoptType DEF ElectionOK
<1>4. ReplicationOK'
  BY <1>2, <1>3, ReplicationKept DEF Inv
<1>5. NetworkOK'
  BY <1>2, EndInboundType
<1>6. LedgerOK'
  BY <1>2 DEF Inv, LedgerOK, history
<1>7. QED
  BY <1>3, <1>4, <1>5, <1>6 DEF Inv

\* One whose handler could not save the vote.
LEMMA GrantSaveFailsStep ==
  ASSUME Inv, NEW i \in Member, NEW j \in Member, NEW src, NEW m \in Request,
         GrantSaveFails(i, j, src, m)
  PROVE  Inv'
<1>1. m.term \in Nat
  BY RequestFields
<1>2. /\ ElectionOK /\ NetworkOK /\ EndInbound(i, j, src)
      /\ saveFailures' = saveFailures + 1
      /\ UNCHANGED <<incarnation, voting, history, stopped, resends, drops>>
      /\ UNCHANGED replication
      /\ term' = [term EXCEPT ![i] = m.term]
      /\ voted_for' = [voted_for EXCEPT ![i] = j]
      /\ \/ /\ role' = [role EXCEPT ![i] = "FOLLOWER"]
            /\ leader' = [leader EXCEPT ![i] = None]
            /\ round' = [round EXCEPT ![i] = EmptyRound]
         \/ UNCHANGED <<role, leader, round>>
      /\ \/ SavedOrNot(i, [term |-> m.term, voted_for |-> None])
         \/ SavedOrNot(i, [term |-> m.term, voted_for |-> j])
  BY DEF GrantSaveFails, SaveFails, SavedOrNot, Inv
<1>3. disk' \in [Member -> PersistentState]
  BY <1>1, <1>2, SavedOrNotType
<1>4. /\ term' \in [Member -> Nat]
      /\ voted_for' \in [Member -> Member \cup {None}]
      /\ role' \in [Member -> Role]
      /\ leader' \in [Member -> Member \cup {None}]
      /\ round' \in [Member -> Round]
      /\ \A k \in Member : role'[k] = "LEADER" => role[k] = "LEADER"
  BY <1>1, <1>2, GrantedType
<1>5. ElectionOK'
  BY <1>2, <1>3, <1>4 DEF ElectionOK
<1>6. ReplicationOK'
  BY <1>2, <1>4, ReplicationKept DEF Inv
<1>7. NetworkOK'
  BY <1>2, EndInboundType
<1>8. LedgerOK'
  BY <1>2 DEF Inv, LedgerOK, history
<1>9. QED
  BY <1>5, <1>6, <1>7, <1>8 DEF Inv

\* A later term in an answer.
LEMMA OnLaterTermStep ==
  ASSUME Inv, NEW i \in Member, NEW j \in Member, rep[i][j] # <<>>, NEW m \in Answer,
         OnLaterTerm(i, j, m)
  PROVE  Inv'
<1>1. m.term \in Nat
  BY AnswerFields
<1>2. /\ ElectionOK /\ NetworkOK /\ TakeAnswer(i, j) /\ StepDown(i, m.term)
      /\ UNCHANGED <<voting, replication, req, history, resends>>
      /\ UNCHANGED <<link, orphan, incarnation, stopped, drops, saveFailures>>
  BY DEF OnLaterTerm, TakeAnswer, Inv
<1>3. ElectionOK' /\ \A k \in Member : role'[k] = "LEADER" => role[k] = "LEADER"
  BY <1>1, <1>2, StepDownType
<1>4. ReplicationOK'
  BY <1>2, <1>3, ReplicationKept DEF Inv
<1>5. NetworkOK'
  BY <1>2, TakeAnswerType DEF NetworkOK
<1>6. LedgerOK'
  BY <1>2 DEF Inv, LedgerOK, history
<1>7. QED
  BY <1>3, <1>4, <1>5, <1>6 DEF Inv

\* An answer nobody waits for.
LEMMA OnStaleAnswerStep ==
  ASSUME Inv, NEW i \in Member, NEW j \in Member, rep[i][j] # <<>>, NEW m \in Answer,
         OnStaleAnswer(i, j, m)
  PROVE  Inv'
<1>1. /\ NetworkOK /\ TakeAnswer(i, j)
      /\ UNCHANGED <<disk, election, replication, req, history, resends>>
      /\ UNCHANGED <<link, orphan, incarnation, stopped, drops, saveFailures>>
  BY DEF OnStaleAnswer, TakeAnswer, Inv
<1>2. ElectionOK' /\ LedgerOK'
  BY <1>1 DEF Inv, ElectionOK, LedgerOK, election, history
<1>3. ReplicationOK'
  BY <1>1, ReplicationKept DEF Inv, election
<1>4. NetworkOK'
  BY <1>1, TakeAnswerType DEF NetworkOK
<1>5. QED
  BY <1>2, <1>3, <1>4 DEF Inv

\* The rounds an answer leaves are rounds.
LEMMA CountedType ==
  ASSUME Inv, NEW i \in Member, NEW j \in Member, NEW m
  PROVE  PreVoteCounted(i, j, m) \in Round /\ VoteCounted(i, j, m) \in Round
<1>1. round[i] \in Round
  BY MemberFacts
<1>2. QED
  BY <1>1 DEF PreVoteCounted, VoteCounted, Round

\* What _campaign assigns before it saves.
LEMMA CandidacyType ==
  ASSUME ElectionOK, NEW i \in Member, Candidacy(i)
  PROVE  /\ role' \in [Member -> Role]
         /\ term' \in [Member -> Nat]
         /\ voted_for' \in [Member -> Member \cup {None}]
         /\ \A k \in Member : role'[k] = "LEADER" => role[k] = "LEADER"
<1>1. "CANDIDATE" \in Role
  BY DEF Role
<1>2. term[i] + 1 \in Nat
  BY DEF ElectionOK
<1>3. QED
  BY <1>1, <1>2 DEF Candidacy, ElectionOK

\* _on_pre_vote_reply, granted.
LEMMA OnPreVoteGrantedStep ==
  ASSUME Inv, NEW i \in Member, NEW j \in Member, rep[i][j] # <<>>, NEW m \in Answer,
         OnPreVoteGranted(i, j, m)
  PROVE  Inv'
<1> DEFINE counted == PreVoteCounted(i, j, m)
<1>1. counted \in Round
  BY CountedType
<1>2. term[i] + 1 \in Nat /\ Uncompacted
  BY MemberFacts
<1>3. /\ ElectionOK /\ NetworkOK /\ LedgerOK /\ ReplicationOK /\ TakeAnswer(i, j)
      /\ UNCHANGED <<voting, replication, elected, committed, resends>>
      /\ UNCHANGED <<link, orphan, incarnation, stopped, drops, saveFailures>>
  BY DEF OnPreVoteGranted, TakeAnswer, Inv
<1>4. rep' \in [Member -> [Member -> Seq(Answer)]]
  BY <1>3, TakeAnswerType
<1>5. CASE Won(i, counted.pre_votes, counted.pre_forgotten)
  <2> DEFINE r == [counted EXCEPT !.votes = {i}, !.forgotten = {}]
             out == ToAll(i, VoteRequest(i, term[i] + 1, FALSE))
  <2>1. /\ Candidacy(i)
        /\ disk' = [disk EXCEPT ![i] = [term |-> term[i] + 1, voted_for |-> i]]
        /\ cast' = cast \cup {<<term[i] + 1, i, i>>}
        /\ leader' = [leader EXCEPT ![i] = None]
        /\ Send(i, out)
        /\ round' = [round EXCEPT ![i] = r]
    BY <1>5 DEF OnPreVoteGranted, Campaign
  <2>2. r \in Round
    <3> HIDE DEF counted
    <3>1. QED
      BY <1>1 DEF Round
  <2>3. out \in [Member -> Seq(Request)]
    BY <1>2, VoteRequestType, ToAllType
  <2> HIDE DEF r, out, counted
  <2>4. disk' \in [Member -> PersistentState]
    BY <1>2, <1>3, <2>1, SavedType
  <2>5. round' \in [Member -> Round] /\ leader' \in [Member -> Member \cup {None}]
    BY <1>3, <2>1, <2>2 DEF ElectionOK
  <2>6. ElectionOK' /\ \A k \in Member : role'[k] = "LEADER" => role[k] = "LEADER"
    BY <1>3, <2>1, <2>4, <2>5, CandidacyType DEF ElectionOK
  <2>7. req' \in [Member -> [Member -> Seq(Request)]]
    BY <1>3, <2>1, <2>3, SendType
  <2>8. LedgerOK'
    BY <1>2, <1>3, <2>1 DEF LedgerOK
  <2>9. ReplicationOK'
    BY <1>3, <2>6, ReplicationKept
  <2>10. NetworkOK'
    BY <1>3, <1>4, <2>7 DEF NetworkOK
  <2>11. QED
    BY <2>6, <2>8, <2>9, <2>10 DEF Inv
<1>6. CASE ~Won(i, counted.pre_votes, counted.pre_forgotten)
  <2>1. /\ round' = [round EXCEPT ![i] = counted]
        /\ UNCHANGED <<disk, term, voted_for, role, leader, req, cast>>
    BY <1>6 DEF OnPreVoteGranted
  <2> HIDE DEF counted
  <2>2. ElectionOK' /\ LedgerOK' /\ NetworkOK'
    BY <1>1, <1>3, <1>4, <2>1 DEF ElectionOK, LedgerOK, NetworkOK
  <2>3. ReplicationOK'
    BY <1>3, <2>1, ReplicationKept
  <2>4. QED
    BY <2>2, <2>3 DEF Inv
<1>7. QED
  BY <1>5, <1>6

\* _on_pre_vote_reply, refused.
LEMMA OnPreVoteRefusedStep ==
  ASSUME Inv, NEW i \in Member, NEW j \in Member, rep[i][j] # <<>>, NEW m \in Answer,
         OnPreVoteRefused(i, j, m)
  PROVE  Inv'
<1> DEFINE refusals == round[i].pre_refusals \cup {j}
           lost == [round[i] EXCEPT !.pre_votes = {}, !.pre_refusals = {}]
           more == [round[i] EXCEPT !.pre_refusals = refusals]
<1>1. lost \in Round /\ more \in Round
  <2>1. round[i] \in Round
    BY MemberFacts
  <2>2. QED
    BY <2>1 DEF Round
<1>2. /\ ElectionOK /\ NetworkOK /\ LedgerOK /\ ReplicationOK /\ TakeAnswer(i, j)
      /\ UNCHANGED <<disk, term, voted_for, leader, voting, replication, req,
                     history, resends>>
      /\ UNCHANGED <<link, orphan, incarnation, stopped, drops, saveFailures>>
      /\ \/ /\ role' = [role EXCEPT ![i] = "FOLLOWER"]
            /\ round' = [round EXCEPT ![i] = lost]
         \/ /\ round' = [round EXCEPT ![i] = more]
            /\ UNCHANGED role
  BY DEF OnPreVoteRefused, TakeAnswer, Inv
<1> HIDE DEF lost, more
<1>3. /\ round' \in [Member -> Round] /\ role' \in [Member -> Role]
      /\ \A k \in Member : role'[k] = "LEADER" => role[k] = "LEADER"
  <2>1. "FOLLOWER" \in Role
    BY DEF Role
  <2>2. QED
    BY <1>1, <1>2, <2>1 DEF ElectionOK
<1>4. ElectionOK' /\ LedgerOK'
  BY <1>2, <1>3 DEF ElectionOK, LedgerOK, history
<1>5. ReplicationOK'
  BY <1>2, <1>3, ReplicationKept
<1>6. NetworkOK'
  BY <1>2, TakeAnswerType DEF NetworkOK
<1>7. QED
  BY <1>4, <1>5, <1>6 DEF Inv

\* A new leader knows nothing of its peers: its row is in range.
LEMMA FreshRow ==
  ASSUME NEW l \in FullLog, NEW k \in FullLog, LastIndex(k) = LastIndex(l) + 1
  PROVE  RowOK(k, [j \in Member |-> [FreshPeer EXCEPT !.next_index = LastIndex(l) + 1]])
<1> DEFINE n == LastIndex(l) + 1
           s == [FreshPeer EXCEPT !.next_index = n]
<1>1. n \in Nat /\ n > 0
  BY LastType
<1>2. LastIndex(k) = n
  OBVIOUS
<1> HIDE DEF n
<1>3. s \in PeerState /\ s.match_index = 0 /\ s.next_index = n
  BY <1>1 DEF FreshPeer, PeerState
<1> HIDE DEF s
<1>4. RowOK(k, [j \in Member |-> s])
  BY <1>1, <1>2, <1>3 DEF RowOK
<1>5. QED
  BY <1>4 DEF s, n

\* on_request_vote_reply, and _become_leader when it wins the round.
LEMMA OnRequestVoteReplyStep ==
  ASSUME Inv, NEW i \in Member, NEW j \in Member, rep[i][j] # <<>>, NEW m \in Answer,
         OnRequestVoteReply(i, j, m)
  PROVE  Inv'
<1> DEFINE counted == VoteCounted(i, j, m)
<1>1. counted \in Round
  BY CountedType
<1>2. /\ TypeOK /\ term[i] \in Nat /\ log[i] \in FullLog /\ LastIndex(log[i]) \in Nat
      /\ commit_index[i] \in Nat /\ commit_index[i] <= LastIndex(log[i])
  BY MemberFacts
<1>3. /\ ElectionOK /\ NetworkOK /\ LedgerOK /\ ReplicationOK /\ TakeAnswer(i, j)
      /\ round' = [round EXCEPT ![i] = counted]
      /\ UNCHANGED <<disk, term, voted_for, commit_index, cast, committed, resends>>
      /\ UNCHANGED <<link, orphan, incarnation, stopped, drops, saveFailures>>
  BY DEF OnRequestVoteReply, TakeAnswer, Inv
<1>4. rep' \in [Member -> [Member -> Seq(Answer)]]
  BY <1>3, TakeAnswerType
<1>5. CASE BecomeLeader(i)
  <2> DEFINE l == AppendLocal(log[i], term[i])
             row == [k \in Member |->
                        [FreshPeer EXCEPT !.next_index = LastIndex(log[i]) + 1]]
             c == commit_index[i]
             sent == AppendedRow(i, term[i], l, c, row, Targets(i), {}, None)
             out == Appends(i, term[i], l, c, row, Targets(i), {})
  <2>1. l \in FullLog /\ LastIndex(l) = LastIndex(log[i]) + 1
    BY <1>2, AppendLocalType
  <2>2. RowOK(l, row)
    <3> HIDE DEF l
    <3>1. QED
      BY <1>2, <2>1, FreshRow
  <2>3. out \in [Member -> Seq(Request)] /\ RowOK(l, sent)
    <3> HIDE DEF l, row
    <3>1. QED
      BY <1>2, <2>1, <2>2, ReplicateType
  <2>4. /\ role' = [role EXCEPT ![i] = "LEADER"]
        /\ leader' = [leader EXCEPT ![i] = i]
        /\ voting' = [voting EXCEPT ![i] = TRUE]
        /\ log' = [log EXCEPT ![i] = l]
        /\ peers' = [peers EXCEPT ![i] = sent]
        /\ Send(i, out)
        /\ elected' = elected \cup {<<term[i], i>>}
    BY <1>5 DEF BecomeLeader
  <2> HIDE DEF l, row, sent, out, counted
  <2>5. ElectionOK' /\ LedgerOK'
    <3>1. "LEADER" \in Role
      BY DEF Role
    <3>2. QED
      BY <1>1, <1>2, <1>3, <2>4, <3>1 DEF ElectionOK, LedgerOK
  <2>6. ReplicationOK'
    <3>1. sent \in [Member -> PeerState]
      BY <2>3 DEF RowOK
    <3>2. \A k \in Member \ {i} : role'[k] = "LEADER" => role[k] = "LEADER"
      BY <1>3, <2>4 DEF ElectionOK
    <3>3. commit_index' = [commit_index EXCEPT ![i] = c] /\ c \in Nat /\ c <= LastIndex(l)
      BY <1>2, <1>3, <2>1 DEF ReplicationOK
    <3> HIDE DEF c
    <3>4. QED
      BY <1>3, <2>1, <2>3, <2>4, <3>1, <3>2, <3>3, ReplicationStep
  <2>7. NetworkOK'
    BY <1>3, <1>4, <2>3, <2>4, SendType DEF NetworkOK
  <2>8. QED
    BY <2>5, <2>6, <2>7 DEF Inv
<1>6. CASE UNCHANGED <<role, leader, voting, log, peers, req, elected>>
  <2> HIDE DEF counted
  <2>1. ElectionOK' /\ LedgerOK' /\ NetworkOK'
    BY <1>1, <1>3, <1>4, <1>6 DEF ElectionOK, LedgerOK, NetworkOK
  <2>2. ReplicationOK'
    BY <1>3, <1>6, ReplicationKept DEF replication
  <2>3. QED
    BY <2>1, <2>2 DEF Inv
<1>7. QED
  BY <1>5, <1>6 DEF OnRequestVoteReply

\* However many appends are overdue, they are a number.
LEMMA OverdueType ==
  ASSUME NEW i \in Member, NEW J \in SUBSET Member, NEW late \in Overdue(i, J)
  PROVE  Cardinality(late) \in Nat
<1>1. late \in SUBSET Member /\ IsFiniteSet(Member)
  BY MemberAssumption DEF Overdue
<1>2. IsFiniteSet(late)
  BY <1>1, FS_Subset
<1>3. QED
  BY <1>2, FS_CardinalityType

\* The peers an append goes to are members.
LEMMA TargetsType ==
  ASSUME NEW i \in Member
  PROVE  Targets(i) \in SUBSET Member
BY DEF Targets, Peers

\* What any answer tells about a peer.
LEMMA HeardType ==
  ASSUME Inv, NEW i \in Member, NEW j \in Member, NEW m \in AppendEntriesReply
  PROVE  /\ Heard(i, j, m) \in PeerState
         /\ Heard(i, j, m).match_index = peers[i][j].match_index
         /\ Heard(i, j, m).next_index = peers[i][j].next_index
<1>1. peers[i][j] \in PeerState /\ LastIndex(log[i]) \in Nat
  BY MemberFacts
<1>2. peers[i][j].pending \in Nat /\ peers[i][j].promote_through \in Nat
  BY <1>1 DEF PeerState
<1> DEFINE p == IF m.request = "carrying" /\ peers[i][j].pending > 0
                THEN peers[i][j].pending - 1 ELSE peers[i][j].pending
           q == IF m.catching_up /\ ~peers[i][j].catching_up
                THEN LastIndex(log[i]) ELSE peers[i][j].promote_through
<1>3. p \in Nat /\ q \in Nat
  BY <1>1, <1>2
<1>4. m.catching_up \in BOOLEAN
  BY DEF AppendEntriesReply
<1>5. Heard(i, j, m) = [peers[i][j] EXCEPT !.pending = p, !.catching_up = m.catching_up,
                                           !.promote_through = q]
  BY DEF Heard
<1> HIDE DEF p, q
<1>6. QED
  BY <1>1, <1>3, <1>4, <1>5 DEF PeerState

\* A row that is in range stays so when one peer's state is replaced.
LEMMA RowWith ==
  ASSUME NEW l, NEW row, RowOK(l, row), NEW j \in Member, NEW s \in PeerState,
         s.match_index < s.next_index, s.next_index <= LastIndex(l) + 1
  PROVE  RowOK(l, [row EXCEPT ![j] = s])
BY DEF RowOK

\* An answer to an append that this leader still waits for.
LEMMA AppendAnswerFacts ==
  ASSUME Inv, NEW i \in Member, NEW m \in Answer, IsAppendAnswer(i, m)
  PROVE  m \in AppendEntriesReply /\ role[i] = "LEADER"
<1>1. m.type = "AppendEntriesReply"
  BY DEF IsAppendAnswer
<1>2. m.type # "RequestVoteReply"
  BY <1>1
<1>3. role[i] = "LEADER"
  BY <1>2 DEF IsAppendAnswer, IsStale
<1>4. QED
  BY <1>2, <1>3, AnswerFields

\* What a refusal leaves of what the leader knows: in range.
LEMMA MovedRow ==
  ASSUME Inv, NEW i \in Member, NEW j \in Member, NEW m \in AppendEntriesReply,
         role[i] = "LEADER", NEW s, s = Heard(i, j, m),
         NEW resume, resume = Greatest(1, m.conflict_index),
         m.conflict_index > s.match_index, resume < s.next_index
  PROVE  RowOK(log[i], [peers[i] EXCEPT ![j] =
             [s EXCEPT !.next_index = resume, !.sent_commit = Least(s.sent_commit, resume - 1)]])
<1> DEFINE l == log[i]
           moved == [s EXCEPT !.next_index = resume,
                              !.sent_commit = Least(s.sent_commit, resume - 1)]
<1>1. RowOK(l, peers[i]) /\ LastIndex(l) \in Nat
  BY LeaderRow, MemberFacts DEF Inv
<1>2. /\ s \in PeerState
      /\ s.match_index < s.next_index /\ s.next_index <= LastIndex(l) + 1
  BY <1>1, HeardType DEF RowOK
<1>3. m.conflict_index \in Nat
  BY DEF AppendEntriesReply
<1>4. s.match_index \in Nat /\ s.next_index \in Nat /\ s.sent_commit \in Nat
  BY <1>2 DEF PeerState
<1>5. /\ resume \in Nat /\ resume >= 1 /\ s.match_index < resume
      /\ resume <= LastIndex(l) + 1
  BY <1>1, <1>2, <1>3, <1>4 DEF Greatest
<1>6. Least(s.sent_commit, resume - 1) \in Nat
  BY <1>4, <1>5 DEF Least
<1>7. moved \in PeerState /\ moved.match_index = s.match_index /\ moved.next_index = resume
  BY <1>2, <1>5, <1>6 DEF PeerState
<1> HIDE DEF moved, l
<1>8. RowOK(l, [peers[i] EXCEPT ![j] = moved])
  BY <1>1, <1>5, <1>7, RowWith
<1>9. QED
  BY <1>8 DEF moved, l

\* on_append_entries_reply, refused.
LEMMA OnAppendRefusedStep ==
  ASSUME Inv, NEW i \in Member, NEW j \in Member, rep[i][j] # <<>>, NEW m \in Answer,
         OnAppendRefused(i, j, m)
  PROVE  Inv'
<1> DEFINE s == Heard(i, j, m)
           resume == Greatest(1, m.conflict_index)
           moved == [s EXCEPT !.next_index = resume,
                              !.sent_commit = Least(s.sent_commit, resume - 1)]
           row == [peers[i] EXCEPT ![j] = moved]
           l == log[i]
           c == commit_index[i]
<1>1. m \in AppendEntriesReply /\ role[i] = "LEADER"
  BY AppendAnswerFacts DEF OnAppendRefused
<1>2. /\ TypeOK /\ term[i] \in Nat /\ l \in FullLog /\ LastIndex(l) \in Nat
      /\ c \in Nat /\ c <= LastIndex(l) /\ peers[i] \in [Member -> PeerState]
  BY MemberFacts
<1>3. RowOK(l, peers[i])
  BY <1>1, LeaderRow DEF Inv
<1>4. /\ ElectionOK /\ NetworkOK /\ LedgerOK /\ ReplicationOK /\ TakeAnswer(i, j)
      /\ UNCHANGED <<disk, election, log, commit_index, history>>
      /\ UNCHANGED <<link, orphan, incarnation, stopped, drops, saveFailures>>
  BY DEF OnAppendRefused, TakeAnswer, Inv
<1>5. rep' \in [Member -> [Member -> Seq(Answer)]]
  BY <1>4, TakeAnswerType
<1>6. /\ s \in PeerState
      /\ s.match_index = peers[i][j].match_index
      /\ s.next_index = peers[i][j].next_index
      /\ s.match_index < s.next_index /\ s.next_index <= LastIndex(l) + 1
  BY <1>1, <1>3, HeardType DEF RowOK
<1>7. ElectionOK'
  BY <1>4 DEF ElectionOK, election
<1>8. ASSUME NEW new \in [Member -> PeerState], RowOK(l, new),
             peers' = [peers EXCEPT ![i] = new]
      PROVE  ReplicationOK'
  <2>1. /\ log' = [log EXCEPT ![i] = l]
        /\ commit_index' = [commit_index EXCEPT ![i] = c]
    BY <1>4 DEF ReplicationOK
  <2>2. \A k \in Member \ {i} : role'[k] = "LEADER" => role[k] = "LEADER"
    BY <1>4 DEF election
  <2>3. QED
    BY <1>2, <1>4, <1>8, <2>1, <2>2, ReplicationStep
<1>9. CASE m.conflict_index > s.match_index /\ resume < s.next_index
  <2>1. PICK late \in Overdue(i, {j}) :
          /\ resends' = resends + Cardinality(late)
          /\ peers' = [peers EXCEPT ![i] =
                AppendedRow(i, term[i], l, c, row, {j}, late, j)]
          /\ Send(i, Appends(i, term[i], l, c, row, {j}, late))
    BY <1>9 DEF OnAppendRefused
  <2>2. RowOK(l, row)
    <3>1. m.conflict_index > s.match_index /\ resume < s.next_index
      BY <1>9
    <3>2. QED
      BY <1>1, <3>1, MovedRow
  <2> DEFINE sent == AppendedRow(i, term[i], l, c, row, {j}, late, j)
             out == Appends(i, term[i], l, c, row, {j}, late)
  <2>3. out \in [Member -> Seq(Request)] /\ RowOK(l, sent)
    <3> HIDE DEF l, row, c
    <3>1. QED
      BY <1>2, <2>2, ReplicateType
  <2>4. peers' = [peers EXCEPT ![i] = sent] /\ Send(i, out)
    BY <2>1
  <2>5. Cardinality(late) \in Nat
    BY <2>1, OverdueType
  <2> HIDE DEF sent, out, l, c, row, s, resume, moved
  <2>6. ReplicationOK'
    BY <1>8, <2>3, <2>4 DEF RowOK
  <2>7. NetworkOK'
    BY <1>4, <1>5, <2>3, <2>4, SendType DEF NetworkOK
  <2>8. LedgerOK'
    BY <1>4, <2>1, <2>5 DEF LedgerOK, history
  <2>9. QED
    BY <1>7, <2>6, <2>7, <2>8 DEF Inv
<1>10. CASE ~(m.conflict_index > s.match_index /\ resume < s.next_index)
  <2>1. peers' = [peers EXCEPT ![i][j] = s] /\ UNCHANGED <<req, resends>>
    BY <1>10 DEF OnAppendRefused
  <2> DEFINE new == [peers[i] EXCEPT ![j] = s]
  <2> HIDE DEF s, l, c
  <2>2. RowOK(l, new)
    BY <1>3, <1>6, RowWith
  <2>3. peers' = [peers EXCEPT ![i] = new]
    BY <2>1
  <2> HIDE DEF new
  <2>4. ReplicationOK'
    BY <1>8, <2>2, <2>3 DEF RowOK
  <2>5. NetworkOK' /\ LedgerOK'
    BY <1>4, <1>5, <2>1 DEF NetworkOK, LedgerOK, history
  <2>6. QED
    BY <1>7, <2>4, <2>5 DEF Inv
<1>11. QED
  BY <1>9, <1>10

\* What a quorum holds is in the leader's log.
LEMMA CommitAfterType ==
  ASSUME Inv, NEW i \in Member, NEW row, RowOK(log[i], row)
  PROVE  /\ CommitAfter(i, row) \in Nat
         /\ CommitAfter(i, row) <= LastIndex(log[i])
<1> DEFINE held(n) == {j \in Counted(i, row) : row[j].match_index >= n}
           reached == {n \in {row[j].match_index : j \in Counted(i, row)} :
                           Cardinality(held(n)) >= Quorum - 1}
<1>1. /\ LastIndex(log[i]) \in Nat
      /\ commit_index[i] \in Nat /\ commit_index[i] <= LastIndex(log[i])
  BY MemberFacts
<1>2. \A j \in Counted(i, row) : /\ row[j].match_index \in Nat
                                 /\ row[j].match_index <= LastIndex(log[i])
  <2>1. TAKE j \in Counted(i, row)
  <2>2. j \in Member
    BY DEF Counted, Peers
  <2>3. row[j] \in PeerState /\ row[j].match_index < row[j].next_index
        /\ row[j].next_index <= LastIndex(log[i]) + 1
    BY <2>2 DEF RowOK
  <2>4. QED
    BY <1>1, <2>3 DEF PeerState
<1>3. \A n \in reached : n \in Nat /\ n <= LastIndex(log[i])
  BY <1>2
<1>4. QuorumIndex(i, row) = IF reached = {} THEN 0 ELSE Max(reached)
  BY DEF QuorumIndex
<1> HIDE DEF reached
<1>5. QuorumIndex(i, row) \in Nat /\ QuorumIndex(i, row) <= LastIndex(log[i])
  <2>1. CASE reached = {}
    BY <1>1, <1>4, <2>1
  <2>2. CASE reached # {}
    <3>1. Max(reached) \in reached
      BY <1>1, <1>3, <2>2, MaxOfNats
    <3>2. QED
      BY <1>3, <1>4, <2>2, <3>1
  <2>3. QED
    BY <2>1, <2>2
<1>6. QED
  BY <1>1, <1>5 DEF CommitAfter

\* The state of a peer whose append succeeded stays in range.
LEMMA AcknowledgedType ==
  ASSUME Inv, NEW i \in Member, NEW j \in Member, NEW m \in AppendEntriesReply,
         role[i] = "LEADER"
  PROVE  /\ Acknowledged(i, j, m) \in PeerState
         /\ Acknowledged(i, j, m).match_index < Acknowledged(i, j, m).next_index
         /\ Acknowledged(i, j, m).next_index <= LastIndex(log[i]) + 1
<1> DEFINE s == Heard(i, j, m)
           last == LastIndex(log[i])
           match == Greatest(s.match_index, Least(m.match_index, last))
           next == Greatest(s.next_index, match + 1)
           up == s.catching_up /\ match < s.promote_through
<1>1. RowOK(log[i], peers[i])
  BY LeaderRow DEF Inv
<1>2. last \in Nat
  BY MemberFacts
<1>3. /\ s \in PeerState /\ s.match_index < s.next_index /\ s.next_index <= last + 1
  BY <1>1, HeardType DEF RowOK
<1>4. m.match_index \in Nat
  BY DEF AppendEntriesReply
<1>5. Acknowledged(i, j, m) = [s EXCEPT !.match_index = match, !.next_index = next,
                                        !.catching_up = up]
  BY DEF Acknowledged
<1> HIDE DEF s, last
<1>6. s.match_index \in Nat /\ s.next_index \in Nat
  BY <1>3 DEF PeerState
<1>7. match \in Nat /\ match <= last
  BY <1>2, <1>3, <1>4, <1>6 DEF Greatest, Least
<1> HIDE DEF match
<1>8. next \in Nat /\ match < next /\ next <= last + 1
  BY <1>2, <1>3, <1>6, <1>7 DEF Greatest
<1>9. up \in BOOLEAN
  OBVIOUS
<1> HIDE DEF next, up
<1>10. /\ Acknowledged(i, j, m) \in PeerState
       /\ Acknowledged(i, j, m).match_index = match
       /\ Acknowledged(i, j, m).next_index = next
  BY <1>3, <1>5, <1>7, <1>8, <1>9 DEF PeerState
<1>11. QED
  BY <1>8, <1>10 DEF last

\* The entries a leader commits are indices and terms.
LEMMA NewlyCommittedType ==
  ASSUME Inv, NEW i \in Member, NEW c \in Nat, c <= LastIndex(log[i])
  PROVE  {<<n, TermAt(log[i], n)>> : n \in commit_index[i] + 1 .. c} \in SUBSET (Nat \X Nat)
<1>1. /\ log[i] \in FullLog /\ LastIndex(log[i]) \in Nat /\ commit_index[i] \in Nat
  BY MemberFacts
<1>2. \A n \in commit_index[i] + 1 .. c : n \in Nat /\ TermAt(log[i], n) \in Nat
  <2>1. TAKE n \in commit_index[i] + 1 .. c
  <2>2. n \in Nat /\ n <= LastIndex(log[i])
    BY <1>1
  <2>3. QED
    BY <1>1, <2>2, TermAtType
<1>3. QED
  BY <1>2

\* on_append_entries_reply, a success.
LEMMA OnAppendAcceptedStep ==
  ASSUME Inv, NEW i \in Member, NEW j \in Member, rep[i][j] # <<>>, NEW m \in Answer,
         OnAppendAccepted(i, j, m)
  PROVE  Inv'
<1> DEFINE s == Acknowledged(i, j, m)
           row == [peers[i] EXCEPT ![j] = s]
           news == \/ s.match_index > peers[i][j].match_index
                   \/ m.request = "carrying" /\ peers[i][j].pending = 1
           c == IF news THEN CommitAfter(i, row) ELSE commit_index[i]
           J == IF c > commit_index[i] THEN Targets(i)
                ELSE IF news /\ ShouldSendNow(i, s) THEN {j}
                ELSE {}
           promote == IF Promoted(i, j, m)
                      THEN <<[type |-> "Promote", term |-> term[i]]>> ELSE <<>>
           l == log[i]
<1>1. m \in AppendEntriesReply /\ role[i] = "LEADER"
  BY AppendAnswerFacts DEF OnAppendAccepted
<1>2. /\ TypeOK /\ term[i] \in Nat /\ l \in FullLog /\ LastIndex(l) \in Nat
      /\ commit_index[i] \in Nat /\ commit_index[i] <= LastIndex(l)
  BY MemberFacts
<1>3. RowOK(l, peers[i])
  BY <1>1, LeaderRow DEF Inv
<1>4. RowOK(l, row)
  <2>1. /\ s \in PeerState /\ s.match_index < s.next_index
        /\ s.next_index <= LastIndex(l) + 1
    BY <1>1, AcknowledgedType
  <2> HIDE DEF s, l
  <2>2. QED
    BY <1>3, <2>1, RowWith
<1>5. c \in Nat /\ c <= LastIndex(l)
  <2>1. CommitAfter(i, row) \in Nat /\ CommitAfter(i, row) <= LastIndex(l)
    <3> HIDE DEF row
    <3>1. QED
      BY <1>4, CommitAfterType
  <2> HIDE DEF row, news
  <2>2. QED
    BY <1>2, <2>1
<1>6. J \in SUBSET Member
  BY TargetsType
<1>7. /\ ElectionOK /\ NetworkOK /\ LedgerOK /\ ReplicationOK /\ TakeAnswer(i, j)
      /\ commit_index' = [commit_index EXCEPT ![i] = c]
      /\ committed' = committed \cup {<<n, TermAt(l, n)>> : n \in commit_index[i] + 1 .. c}
      /\ \E late \in Overdue(i, J) :
            /\ resends' = resends + Cardinality(late)
            /\ peers' = [peers EXCEPT ![i] =
                  AppendedRow(i, term[i], l, c, row, J, late, j)]
            /\ Send(i, [Appends(i, term[i], l, c, row, J, late) EXCEPT ![j] = promote \o @])
      /\ UNCHANGED <<disk, election, log, elected, cast>>
      /\ UNCHANGED <<link, orphan, incarnation, stopped, drops, saveFailures>>
  BY DEF OnAppendAccepted, TakeAnswer, Inv
<1>8. promote \in Seq(Request)
  <2>1. [type |-> "Promote", term |-> term[i]] \in Request
    BY <1>2 DEF Request, Promote
  <2>2. <<[type |-> "Promote", term |-> term[i]]>> \in Seq(Request) /\ <<>> \in Seq(Request)
    BY <2>1
  <2>3. QED
    BY <2>2
<1>9. {<<n, TermAt(l, n)>> : n \in commit_index[i] + 1 .. c} \in SUBSET (Nat \X Nat)
  <2> HIDE DEF c
  <2>1. QED
    BY <1>5, NewlyCommittedType
<1> HIDE DEF s, row, news, c, J, promote, l
<1>10. PICK late \in Overdue(i, J) :
          /\ resends' = resends + Cardinality(late)
          /\ peers' = [peers EXCEPT ![i] =
                AppendedRow(i, term[i], l, c, row, J, late, j)]
          /\ Send(i, [Appends(i, term[i], l, c, row, J, late) EXCEPT ![j] = promote \o @])
  BY <1>7
<1> DEFINE sent == AppendedRow(i, term[i], l, c, row, J, late, j)
           out == Appends(i, term[i], l, c, row, J, late)
           all == [out EXCEPT ![j] = promote \o @]
<1>11. out \in [Member -> Seq(Request)] /\ RowOK(l, sent)
  BY <1>2, <1>4, <1>5, ReplicateType
<1>12. all \in [Member -> Seq(Request)]
  <2> HIDE DEF out
  <2>1. out[j] \in Seq(Request)
    BY <1>11
  <2>2. promote \o out[j] \in Seq(Request)
    BY <1>8, <2>1, ConcatProperties
  <2>3. QED
    BY <1>11, <2>2
<1>13. peers' = [peers EXCEPT ![i] = sent] /\ Send(i, all)
  BY <1>10
<1>14. Cardinality(late) \in Nat
  BY <1>6, <1>10, OverdueType
<1> HIDE DEF sent, out, all
<1>15. ElectionOK'
  BY <1>7 DEF ElectionOK, election
<1>16. ReplicationOK'
  <2>1. log' = [log EXCEPT ![i] = l]
    BY <1>7 DEF ReplicationOK, l
  <2>2. \A k \in Member \ {i} : role'[k] = "LEADER" => role[k] = "LEADER"
    BY <1>7 DEF election
  <2>3. sent \in [Member -> PeerState]
    BY <1>11 DEF RowOK
  <2>4. QED
    BY <1>2, <1>5, <1>7, <1>11, <1>13, <2>1, <2>2, <2>3, ReplicationStep
<1>17. NetworkOK'
  BY <1>7, <1>12, <1>13, SendType, TakeAnswerType DEF NetworkOK
<1>18. LedgerOK'
  BY <1>7, <1>9, <1>10, <1>14 DEF LedgerOK
<1>19. QED
  BY <1>15, <1>16, <1>17, <1>18 DEF Inv

\* A connection is lost: no index moves (_drop, on_peer_state).
LEMMA DisconnectType ==
  ASSUME Inv, NEW i \in Member, NEW j \in Member, Disconnect(i, j),
         UNCHANGED <<log, commit_index>>,
         \A k \in Member : role'[k] = "LEADER" => role[k] = "LEADER"
  PROVE  NetworkOK' /\ ReplicationOK'
<1>1. NetworkOK'
  BY DropLinkType DEF Disconnect, Inv
<1> DEFINE s == [peers[i][j] EXCEPT !.catching_up = FALSE]
           row == [peers[i] EXCEPT ![j] = s]
<1>2. peers[i] \in [Member -> PeerState] /\ peers[i][j] \in PeerState
  BY MemberFacts
<1>3. /\ s \in PeerState /\ s.match_index = peers[i][j].match_index
      /\ s.next_index = peers[i][j].next_index
  BY <1>2 DEF PeerState
<1>4. peers' = [peers EXCEPT ![i] = row]
  <2>1. peers' = [peers EXCEPT ![i][j] = s]
    BY DEF Disconnect
  <2> HIDE DEF s
  <2>2. QED
    BY <2>1
<1> HIDE DEF s
<1>5. row \in [Member -> PeerState]
  BY <1>2, <1>3
<1>6. role'[i] = "LEADER" => RowOK(log[i], row)
  <2>1. HAVE role'[i] = "LEADER"
  <2>2. RowOK(log[i], peers[i])
    BY <2>1, LeaderRow DEF Inv
  <2>3. s.match_index < s.next_index /\ s.next_index <= LastIndex(log[i]) + 1
    BY <1>3, <2>2 DEF RowOK
  <2>4. QED
    BY <1>3, <2>2, <2>3, RowWith
<1> HIDE DEF row
<1>7. ReplicationOK'
  <2>1. /\ log[i] \in FullLog /\ commit_index[i] \in Nat
        /\ commit_index[i] <= LastIndex(log[i]) /\ ReplicationOK
    BY MemberFacts DEF Inv
  <2>2. /\ log' = [log EXCEPT ![i] = log[i]]
        /\ commit_index' = [commit_index EXCEPT ![i] = commit_index[i]]
    BY <2>1 DEF ReplicationOK
  <2>3. QED
    BY <1>4, <1>5, <1>6, <2>1, <2>2, ReplicationStep
<1>8. QED
  BY <1>1, <1>7

\* A pre-vote won, and the term that could not be saved.
LEMMA CampaignSaveFailsStep ==
  ASSUME Inv, NEW i \in Member, NEW j \in Member, NEW m \in Answer,
         CampaignSaveFails(i, j, m)
  PROVE  Inv'
<1> DEFINE counted == PreVoteCounted(i, j, m)
<1>1. counted \in Round
  BY CountedType
<1>2. /\ ElectionOK /\ LedgerOK /\ Candidacy(i) /\ Disconnect(i, j)
      /\ round' = [round EXCEPT ![i] = counted]
      /\ saveFailures' = saveFailures + 1
      /\ UNCHANGED <<incarnation, voting, history, stopped, resends, drops>>
      /\ UNCHANGED <<leader, log, commit_index>>
      /\ SavedOrNot(i, [term |-> term[i] + 1, voted_for |-> i])
  BY DEF CampaignSaveFails, SaveFails, Inv
<1> HIDE DEF counted
<1>3. ElectionOK' /\ \A k \in Member : role'[k] = "LEADER" => role[k] = "LEADER"
  <2>1. disk' \in [Member -> PersistentState]
    <3>1. term[i] \in Nat
      BY <1>2 DEF ElectionOK
    <3>2. term[i] + 1 \in Nat
      BY <3>1
    <3>3. QED
      BY <1>2, <3>2, SavedOrNotType
  <2>2. QED
    BY <1>1, <1>2, <2>1, CandidacyType DEF ElectionOK
<1>4. NetworkOK' /\ ReplicationOK'
  BY <1>2, <1>3, DisconnectType
<1>5. LedgerOK'
  BY <1>2 DEF LedgerOK, history
<1>6. QED
  BY <1>3, <1>4, <1>5 DEF Inv

\* A later term in an answer, that could not be saved.
LEMMA StepDownSaveFailsOnAnswerStep ==
  ASSUME Inv, NEW i \in Member, NEW j \in Member, NEW m \in Answer,
         StepDownSaveFailsOnAnswer(i, j, m)
  PROVE  Inv'
<1>1. m.term \in Nat
  BY AnswerFields
<1>2. /\ ElectionOK /\ LedgerOK /\ Adopt(i, m.term) /\ Disconnect(i, j)
      /\ saveFailures' = saveFailures + 1
      /\ UNCHANGED <<incarnation, voting, history, stopped, resends, drops>>
      /\ UNCHANGED <<log, commit_index>>
      /\ SavedOrNot(i, [term |-> m.term, voted_for |-> None])
  BY DEF StepDownSaveFailsOnAnswer, SaveFails, Inv
<1>3. ElectionOK' /\ \A k \in Member : role'[k] = "LEADER" => role[k] = "LEADER"
  <2>1. disk' \in [Member -> PersistentState]
    BY <1>1, <1>2, SavedOrNotType
  <2>2. QED
    BY <1>1, <1>2, <2>1, AdoptType DEF ElectionOK
<1>4. NetworkOK' /\ ReplicationOK'
  BY <1>2, <1>3, DisconnectType
<1>5. LedgerOK'
  BY <1>2 DEF LedgerOK, history
<1>6. QED
  BY <1>3, <1>4, <1>5 DEF Inv

\* A dropped connection, noticed or lost.
LEMMA PeerDownStep ==
  ASSUME Inv, NEW i \in Member, NEW j \in Member, PeerGone(i, j) \/ PeerLost(i, j)
  PROVE  Inv'
<1>1. /\ ElectionOK /\ LedgerOK /\ Disconnect(i, j)
      /\ UNCHANGED <<durable, election, log, commit_index, history, stopped>>
      /\ UNCHANGED <<resends, saveFailures>> /\ drops' \in {drops, drops + 1}
  BY DEF PeerGone, PeerLost, Inv, faults
<1>2. ElectionOK' /\ LedgerOK'
  BY <1>1 DEF ElectionOK, LedgerOK, durable, election, history
<1>3. NetworkOK' /\ ReplicationOK'
  BY <1>1, DisconnectType DEF election
<1>4. QED
  BY <1>2, <1>3 DEF Inv

\* The heartbeat of a leader.
LEMMA LeaderTickStep ==
  ASSUME Inv, NEW i \in Member, LeaderTick(i)
  PROVE  Inv'
<1> DEFINE l == log[i]
           c == commit_index[i]
           J == Targets(i)
<1>1. /\ TypeOK /\ term[i] \in Nat /\ l \in FullLog /\ LastIndex(l) \in Nat
      /\ c \in Nat /\ c <= LastIndex(l)
  BY MemberFacts
<1>2. RowOK(l, peers[i])
  BY LeaderRow DEF Inv, LeaderTick
<1>3. /\ ElectionOK /\ NetworkOK /\ LedgerOK /\ ReplicationOK
      /\ UNCHANGED <<durable, election, log, commit_index, link, rep, orphan,
                     history, stopped, drops, saveFailures>>
  BY DEF LeaderTick, Inv
<1>4. PICK late \in Overdue(i, J) :
          /\ resends' = resends + Cardinality(late)
          /\ peers' = [peers EXCEPT ![i] =
                AppendedRow(i, term[i], l, c, peers[i], J, late, None)]
          /\ Send(i, Appends(i, term[i], l, c, peers[i], J, late))
  BY DEF LeaderTick
<1>5. Cardinality(late) \in Nat
  BY <1>4, TargetsType, OverdueType
<1> DEFINE sent == AppendedRow(i, term[i], l, c, peers[i], J, late, None)
           out == Appends(i, term[i], l, c, peers[i], J, late)
<1> HIDE DEF J
<1>6. out \in [Member -> Seq(Request)] /\ RowOK(l, sent)
  BY <1>1, <1>2, ReplicateType
<1>7. peers' = [peers EXCEPT ![i] = sent] /\ Send(i, out)
  BY <1>4
<1> HIDE DEF sent, out
<1>8. ElectionOK' /\ LedgerOK'
  BY <1>3, <1>4, <1>5 DEF ElectionOK, LedgerOK, durable, election, history
<1>9. ReplicationOK'
  <2>1. /\ log' = [log EXCEPT ![i] = l]
        /\ commit_index' = [commit_index EXCEPT ![i] = c]
    BY <1>3 DEF ReplicationOK
  <2>2. \A k \in Member \ {i} : role'[k] = "LEADER" => role[k] = "LEADER"
    BY <1>3 DEF election
  <2>3. sent \in [Member -> PeerState]
    BY <1>6 DEF RowOK
  <2>4. QED
    BY <1>1, <1>3, <1>6, <1>7, <2>1, <2>2, <2>3, ReplicationStep
<1>10. NetworkOK'
  BY <1>3, <1>6, <1>7, SendType DEF NetworkOK
<1>11. QED
  BY <1>8, <1>9, <1>10 DEF Inv

\* A leader gives up (_relinquish).
LEMMA RelinquishStep ==
  ASSUME Inv, NEW i \in Member, Relinquish(i)
  PROVE  Inv'
<1>1. EmptyRound \in Round /\ "FOLLOWER" \in Role
  BY DEF EmptyRound, Round, Role
<1>2. ElectionOK' /\ \A k \in Member : role'[k] = "LEADER" => role[k] = "LEADER"
  BY <1>1 DEF Relinquish, Inv, ElectionOK, durable
<1>3. ReplicationOK'
  BY <1>2, ReplicationKept DEF Relinquish, Inv
<1>4. NetworkOK' /\ LedgerOK'
  BY DEF Relinquish, Inv, NetworkOK, LedgerOK, network, history, faults
<1>5. QED
  BY <1>2, <1>3, <1>4 DEF Inv

\* An entry is appended and replicated (_drain, on_propose).
LEMMA ProposeStep ==
  ASSUME Inv, NEW i \in Member, Propose(i)
  PROVE  Inv'
<1> DEFINE l == AppendLocal(log[i], term[i])
           c == commit_index[i]
           J == Targets(i)
<1>1. /\ TypeOK /\ term[i] \in Nat /\ log[i] \in FullLog /\ LastIndex(log[i]) \in Nat
      /\ c \in Nat /\ c <= LastIndex(log[i])
  BY MemberFacts
<1>2. l \in FullLog /\ LastIndex(l) = LastIndex(log[i]) + 1
  BY <1>1, AppendLocalType
<1>3. /\ ElectionOK /\ NetworkOK /\ LedgerOK /\ ReplicationOK /\ role[i] = "LEADER"
      /\ UNCHANGED <<durable, election, commit_index, link, rep, orphan,
                     history, stopped, drops, saveFailures>>
  BY DEF Propose, Inv
<1>4. PICK late \in Overdue(i, J) :
          /\ resends' = resends + Cardinality(late)
          /\ log' = [log EXCEPT ![i] = l]
          /\ peers' = [peers EXCEPT ![i] =
                AppendedRow(i, term[i], l, c, peers[i], J, late, None)]
          /\ Send(i, Appends(i, term[i], l, c, peers[i], J, late))
  BY DEF Propose
<1>5. Cardinality(late) \in Nat
  BY <1>4, TargetsType, OverdueType
<1>6. c <= LastIndex(l)
  <2> HIDE DEF l
  <2>1. QED
    BY <1>1, <1>2
<1>7. RowOK(l, peers[i])
  <2>1. RowOK(log[i], peers[i])
    BY <1>3, LeaderRow
  <2> HIDE DEF l
  <2>2. ASSUME NEW j \in Member
        PROVE  peers[i][j].next_index <= LastIndex(l) + 1
    <3>1. peers[i][j].next_index \in Nat /\ peers[i][j].next_index <= LastIndex(log[i]) + 1
      BY <2>1 DEF RowOK, PeerState
    <3>2. QED
      BY <1>1, <1>2, <3>1
  <2>3. QED
    BY <2>1, <2>2 DEF RowOK
<1> DEFINE sent == AppendedRow(i, term[i], l, c, peers[i], J, late, None)
           out == Appends(i, term[i], l, c, peers[i], J, late)
<1>8. peers' = [peers EXCEPT ![i] = sent] /\ Send(i, out) /\ log' = [log EXCEPT ![i] = l]
  BY <1>4
<1> HIDE DEF l, J
<1>9. out \in [Member -> Seq(Request)] /\ RowOK(l, sent)
  BY <1>1, <1>2, <1>7, ReplicateType
<1> HIDE DEF sent, out
<1>10. ElectionOK' /\ LedgerOK'
  BY <1>3, <1>4, <1>5 DEF ElectionOK, LedgerOK, durable, election, history
<1>11. ReplicationOK'
  <2>1. commit_index' = [commit_index EXCEPT ![i] = c]
    BY <1>3 DEF ReplicationOK
  <2>2. \A k \in Member \ {i} : role'[k] = "LEADER" => role[k] = "LEADER"
    BY <1>3 DEF election
  <2>3. sent \in [Member -> PeerState]
    BY <1>9 DEF RowOK
  <2>4. QED
    BY <1>1, <1>2, <1>3, <1>6, <1>8, <1>9, <2>1, <2>2, <2>3, ReplicationStep
<1>12. NetworkOK'
  BY <1>3, <1>8, <1>9, SendType DEF NetworkOK
<1>13. QED
  BY <1>10, <1>11, <1>12 DEF Inv

\* A leader knows nothing of a peer that has just come up: its state is in range.
LEMMA ReconnectedType ==
  ASSUME Inv, NEW i \in Member, NEW j \in Member
  PROVE  /\ Reconnected(i, j) \in PeerState
         /\ Reconnected(i, j).match_index < Reconnected(i, j).next_index
         /\ Reconnected(i, j).next_index <= LastIndex(log[i]) + 1
<1> DEFINE n == LastIndex(log[i]) + 1
           s == Reconnected(i, j)
<1>1. n \in Nat /\ 0 < n /\ peers[i][j] \in PeerState
  BY MemberFacts
<1>2. s = [peers[i][j] EXCEPT !.match_index = 0, !.next_index = n,
                              !.pending = 0, !.sent_commit = 0]
  BY DEF Reconnected
<1> HIDE DEF n, s
<1>3. s \in PeerState /\ s.match_index = 0 /\ s.next_index = n
  BY <1>1, <1>2 DEF PeerState
<1>4. QED
  BY <1>1, <1>3 DEF n, s

\* A connection comes up (on_peer_state).
LEMMA PeerUpStep ==
  ASSUME Inv, NEW i \in Member, NEW j \in Member, PeerUp(i, j)
  PROVE  Inv'
<1> DEFINE s == Reconnected(i, j)
           l == log[i]
           c == commit_index[i]
<1>1. /\ TypeOK /\ term[i] \in Nat /\ l \in FullLog /\ LastIndex(l) \in Nat
      /\ c \in Nat /\ c <= LastIndex(l) /\ peers[i] \in [Member -> PeerState]
  BY MemberFacts
<1>2. /\ ElectionOK /\ NetworkOK /\ LedgerOK /\ ReplicationOK
      /\ link' = [link EXCEPT ![i][j] = "up"]
      /\ UNCHANGED <<durable, election, log, commit_index, rep, orphan, history,
                     stopped, faults>>
  BY DEF PeerUp, Inv
<1>3. ElectionOK' /\ LedgerOK'
  BY <1>2 DEF ElectionOK, LedgerOK, durable, election, history, faults
<1>4. link' \in [Member -> [Member -> {"down", "up", "broken"}]]
  BY <1>2 DEF NetworkOK
<1>5. CASE role[i] = "LEADER"
  <2> DEFINE after == AfterAppend(l, c, s, FALSE, 0)
             m == AppendFor(term[i], l, c, s, FALSE)
             row == [peers[i] EXCEPT ![j] = after]
  <2>1. peers' = [peers EXCEPT ![i][j] = after] /\ req' = [req EXCEPT ![i][j] = <<m>>]
    BY <1>5 DEF PeerUp
  <2>2. /\ s \in PeerState /\ s.match_index < s.next_index
        /\ s.next_index <= LastIndex(l) + 1
    BY ReconnectedType
  <2> HIDE DEF s, l, c
  <2>3. after \in PeerState /\ after.match_index = s.match_index
        /\ after.next_index = s.next_index
    <3>1. \A b \in BOOLEAN, n \in Nat :
            /\ AfterAppend(l, c, s, b, n) \in PeerState
            /\ AfterAppend(l, c, s, b, n).match_index = s.match_index
            /\ AfterAppend(l, c, s, b, n).next_index = s.next_index
      BY <1>1, <2>2, AfterAppendType
    <3>2. QED
      BY <3>1
  <2>4. m \in Request
    BY <1>1, <2>2, AppendForType
  <2> HIDE DEF after, m
  <2>5. <<m>> \in Seq(Request)
    BY <2>4
  <2>6. req' \in [Member -> [Member -> Seq(Request)]]
    BY <1>2, <2>1, <2>5 DEF NetworkOK
  <2>7. NetworkOK'
    BY <1>2, <1>4, <2>6 DEF NetworkOK
  <2>8. RowOK(l, row)
    <3>1. RowOK(l, peers[i])
      BY <1>2, <1>5, LeaderRow DEF l
    <3>2. after.match_index < after.next_index /\ after.next_index <= LastIndex(l) + 1
      BY <2>2, <2>3
    <3>3. QED
      BY <2>3, <3>1, <3>2, RowWith
  <2>9. peers' = [peers EXCEPT ![i] = row]
    BY <2>1
  <2> HIDE DEF row
  <2>10. ReplicationOK'
    <3>1. /\ log' = [log EXCEPT ![i] = l]
          /\ commit_index' = [commit_index EXCEPT ![i] = c]
      BY <1>2 DEF ReplicationOK, l, c
    <3>2. \A k \in Member \ {i} : role'[k] = "LEADER" => role[k] = "LEADER"
      BY <1>2 DEF election
    <3>3. row \in [Member -> PeerState]
      BY <2>8 DEF RowOK
    <3>4. QED
      BY <1>1, <1>2, <2>8, <2>9, <3>1, <3>2, <3>3, ReplicationStep
  <2>11. QED
    BY <1>3, <2>7, <2>10 DEF Inv
<1>6. CASE role[i] # "LEADER"
  <2>1. UNCHANGED <<peers, req>>
    BY <1>6 DEF PeerUp
  <2>2. NetworkOK'
    BY <1>2, <1>4, <2>1 DEF NetworkOK
  <2>3. ReplicationOK'
    BY <1>2, <2>1, ReplicationKept DEF replication, election
  <2>4. QED
    BY <1>3, <2>2, <2>3 DEF Inv
<1>7. QED
  BY <1>5, <1>6

\* The rest of a given-up connection is dropped.
LEMMA OrphanEndsStep ==
  ASSUME Inv, NEW i \in Member, NEW j \in Member, OrphanEnds(i, j)
  PROVE  Inv'
<1>1. /\ orphan' = [orphan EXCEPT ![i][j] = <<>>]
      /\ UNCHANGED <<durable, election, replication, link, req, rep, history,
                     stopped, faults>>
  BY DEF OrphanEnds
<1>2. <<>> \in Seq(Request)
  OBVIOUS
<1>3. NetworkOK'
  BY <1>1, <1>2 DEF Inv, NetworkOK
<1>4. ElectionOK' /\ LedgerOK'
  BY <1>1 DEF Inv, ElectionOK, LedgerOK, durable, election, history, faults
<1>5. ReplicationOK'
  BY <1>1, ReplicationKept DEF Inv, election
<1>6. QED
  BY <1>3, <1>4, <1>5 DEF Inv

\* The states a member starts with have their types.
LEMMA FreshTypes ==
  /\ EmptyRound \in Round
  /\ EmptyLog \in FullLog /\ LastIndex(EmptyLog) = 0
  /\ [j \in Member |-> FreshPeer] \in [Member -> PeerState]
  /\ \A n : VotesOnStart(n) \in BOOLEAN
<1>1. EmptyLog \in FullLog
  BY EmptySeq DEF EmptyLog, FullLog, LogType
<1>2. LastIndex(EmptyLog) = 0
  BY EmptySeq DEF EmptyLog, LastIndex
<1>3. FreshPeer \in PeerState
  BY DEF FreshPeer, PeerState
<1>4. \A n : VotesOnStart(n) \in BOOLEAN
  BY DEF VotesOnStart
<1>5. EmptyRound \in Round
  BY DEF EmptyRound, Round
<1>6. QED
  BY <1>1, <1>2, <1>3, <1>4, <1>5

\* A process starts again from its term file (TermStore.load, __init__).
LEMMA RestartStep ==
  ASSUME Inv, NEW i \in Member, Restart(i)
  PROVE  Inv'
<1> DEFINE fresh == [j \in Member |-> FreshPeer]
           v == VotesOnStart(incarnation[i] + 1)
<1>1. /\ ElectionOK /\ NetworkOK /\ LedgerOK /\ ReplicationOK
      /\ incarnation' = [incarnation EXCEPT ![i] = incarnation[i] + 1]
      /\ term' = [term EXCEPT ![i] = disk[i].term]
      /\ voted_for' = [voted_for EXCEPT ![i] = disk[i].voted_for]
      /\ role' = [role EXCEPT ![i] = "FOLLOWER"]
      /\ leader' = [leader EXCEPT ![i] = None]
      /\ voting' = [voting EXCEPT ![i] = v]
      /\ round' = [round EXCEPT ![i] = EmptyRound]
      /\ log' = [log EXCEPT ![i] = EmptyLog]
      /\ commit_index' = [commit_index EXCEPT ![i] = 0]
      /\ peers' = [peers EXCEPT ![i] = fresh]
      /\ stopped' = stopped \ {i}
      /\ ProcessEnds(i)
      /\ UNCHANGED <<disk, history, faults>>
  BY DEF Restart, Inv
<1>2. /\ fresh \in [Member -> PeerState] /\ v \in BOOLEAN /\ EmptyRound \in Round
      /\ EmptyLog \in FullLog /\ LastIndex(EmptyLog) = 0 /\ "FOLLOWER" \in Role
  BY FreshTypes DEF Role
<1> HIDE DEF fresh, v
<1>3. disk[i].term \in Nat /\ disk[i].voted_for \in Member \cup {None}
  BY <1>1 DEF ElectionOK, PersistentState
<1>4. ElectionOK'
  BY <1>1, <1>2, <1>3 DEF ElectionOK
<1>5. ReplicationOK'
  <2>1. role'[i] # "LEADER" /\ \A k \in Member \ {i} : role'[k] = "LEADER" => role[k] = "LEADER"
    BY <1>1 DEF ElectionOK
  <2>2. 0 \in Nat /\ 0 <= LastIndex(EmptyLog)
    BY <1>2
  <2>3. QED
    BY <1>1, <1>2, <2>1, <2>2, ReplicationStep
<1>6. NetworkOK'
  BY <1>1, ProcessEndsType
<1>7. LedgerOK'
  BY <1>1 DEF LedgerOK, history, faults
<1>8. QED
  BY <1>4, <1>5, <1>6, <1>7 DEF Inv

-----------------------------------------------------------------------------
(* The theorem *)

\* A fresh boot.
LEMMA InitInv == Init => Inv
<1> SUFFICES ASSUME Init PROVE Inv
  OBVIOUS
<1>1. /\ EmptyRound \in Round /\ EmptyLog \in FullLog /\ LastIndex(EmptyLog) = 0
      /\ [j \in Member |-> FreshPeer] \in [Member -> PeerState]
      /\ \A n : VotesOnStart(n) \in BOOLEAN
  BY FreshTypes
<1>2. ElectionOK
  <2>1. "FOLLOWER" \in Role /\ [term |-> 0, voted_for |-> None] \in PersistentState
    BY DEF Role, PersistentState
  <2>2. QED
    BY <1>1, <2>1 DEF Init, ElectionOK
<1>3. ReplicationOK
  <2>1. \A i \in Member : commit_index[i] <= LastIndex(log[i]) /\ role[i] # "LEADER"
    <3>1. TAKE i \in Member
    <3>2. commit_index[i] = 0 /\ log[i] = EmptyLog /\ role[i] = "FOLLOWER"
      BY DEF Init
    <3>3. QED
      BY <1>1, <3>2
  <2>2. IndexBounds
    BY <2>1 DEF IndexBounds
  <2>3. QED
    BY <1>1, <2>2 DEF Init, ReplicationOK
<1>4. NetworkOK
  <2>1. <<>> \in Seq(Request) /\ <<>> \in Seq(Answer)
    OBVIOUS
  <2>2. QED
    BY <2>1 DEF Init, NetworkOK
<1>5. LedgerOK
  BY DEF Init, LedgerOK
<1>6. QED
  BY <1>2, <1>3, <1>4, <1>5 DEF Inv

\* The request a handler is given is a request, the answer an answer.
LEMMA HeadTypes ==
  ASSUME Inv, NEW i \in Member, NEW j \in Member
  PROVE  /\ \A src \in Source : Inbound(i, j, src) # <<>> => Head(Inbound(i, j, src)) \in Request
         /\ rep[i][j] # <<>> => Head(rep[i][j]) \in Answer
<1>1. /\ req[j][i] \in Seq(Request) /\ orphan[j][i] \in Seq(Request)
      /\ rep[i][j] \in Seq(Answer)
  BY DEF Inv, NetworkOK
<1>2. \A src \in Source : Inbound(i, j, src) \in Seq(Request)
  BY <1>1 DEF Inbound
<1>3. QED
  BY <1>1, <1>2, HeadTailProperties

\* _dispatch of a request.
LEMMA HandleRequestStep ==
  ASSUME Inv, NEW i \in Member, NEW j \in Member, NEW src \in Source,
         HandleRequest(i, j, src)
  PROVE  Inv'
<1> DEFINE m == Head(Inbound(i, j, src))
<1>1. Inbound(i, j, src) # <<>> /\ m \in Request
  BY HeadTypes DEF HandleRequest
<1>2. \/ RefuseUnderLease(i, j, src, m)
      \/ AnswerPreVote(i, j, src, m)
      \/ GrantVote(i, j, src, m)
      \/ DenyVote(i, j, src, m)
      \/ RejectAppend(i, j, src, m)
      \/ StopOnContradiction(i, j, src, m)
      \/ ConflictingAppend(i, j, src, m)
      \/ AcceptAppend(i, j, src, m)
      \/ OnPromote(i, j, src, m)
      \/ StepDownSaveFailsOnRequest(i, j, src, m)
      \/ GrantSaveFails(i, j, src, m)
  BY DEF HandleRequest
<1> HIDE DEF m
<1>3. QED
  BY <1>1, <1>2, RefuseUnderLeaseStep, AnswerPreVoteStep, GrantVoteStep, DenyVoteStep,
     RejectAppendStep, StopOnContradictionStep, ConflictingAppendStep, AcceptAppendStep,
     OnPromoteStep, StepDownSaveFailsOnRequestStep, GrantSaveFailsStep

\* _dispatch of an answer.
LEMMA HandleAnswerStep ==
  ASSUME Inv, NEW i \in Member, NEW j \in Member, HandleAnswer(i, j)
  PROVE  Inv'
<1> DEFINE m == Head(rep[i][j])
<1>1. rep[i][j] # <<>> /\ m \in Answer
  BY HeadTypes DEF HandleAnswer
<1>2. \/ OnLaterTerm(i, j, m)
      \/ OnStaleAnswer(i, j, m)
      \/ OnPreVoteGranted(i, j, m)
      \/ OnPreVoteRefused(i, j, m)
      \/ OnRequestVoteReply(i, j, m)
      \/ OnAppendRefused(i, j, m)
      \/ OnAppendAccepted(i, j, m)
      \/ CampaignSaveFails(i, j, m)
      \/ StepDownSaveFailsOnAnswer(i, j, m)
  BY DEF HandleAnswer
<1> HIDE DEF m
<1>3. QED
  BY <1>1, <1>2, OnLaterTermStep, OnStaleAnswerStep, OnPreVoteGrantedStep,
     OnPreVoteRefusedStep, OnRequestVoteReplyStep, OnAppendRefusedStep,
     OnAppendAcceptedStep, CampaignSaveFailsStep, StepDownSaveFailsOnAnswerStep

\* Every step keeps the invariant, a stutter too.
LEMMA NextInv == Inv /\ [Next]_vars => Inv'
<1> SUFFICES ASSUME Inv, [Next]_vars PROVE Inv'
  OBVIOUS
<1>1. CASE Next
  <2>1. PICK i \in Member :
          \/ PreCampaign(i)
          \/ LeaderTick(i)
          \/ Relinquish(i)
          \/ Propose(i)
          \/ Restart(i)
          \/ \E j \in Member :
                \/ \E src \in Source : HandleRequest(i, j, src)
                \/ HandleAnswer(i, j)
                \/ PeerUp(i, j)
                \/ PeerGone(i, j)
                \/ PeerLost(i, j)
                \/ OrphanEnds(i, j)
    BY <1>1 DEF Next
  <2>2. QED
    BY <2>1, PreCampaignStep, LeaderTickStep, RelinquishStep, ProposeStep, RestartStep,
       HandleRequestStep, HandleAnswerStep, PeerUpStep, PeerDownStep, OrphanEndsStep
<1>2. CASE UNCHANGED vars
  <2>1. /\ ElectionOK' /\ NetworkOK' /\ LedgerOK'
    BY <1>2 DEF Inv, ElectionOK, NetworkOK, LedgerOK, vars, durable, election, network,
                history, faults
  <2>2. ReplicationOK'
    BY <1>2, ReplicationKept DEF Inv, vars, election, replication
  <2>3. QED
    BY <2>1, <2>2 DEF Inv
<1>3. QED
  BY <1>1, <1>2

\* The invariant holds in every run.
THEOREM InvHolds == Spec => []Inv
BY InitInv, NextInv, PTL DEF Spec

\* In a cluster of any size, under any bounds, every variable always has its
\* type, so that no handler ever reads a field a message does not have.
THEOREM TypeCorrect == Spec => []TypeOK
<1>1. Inv => TypeOK
  BY InvFacts
<1>2. QED
  BY <1>1, InvHolds, PTL

\* In a cluster of any size, whatever is lost, delayed or restarted, no member
\* commits past its log, and a leader anchors every append inside its own log
\* and above what the peer has acknowledged (node.py _send_append,
\* on_append_entries_reply).
THEOREM IndicesInRange == Spec => []IndexBounds
<1>1. Inv => IndexBounds
  BY InvFacts
<1>2. QED
  BY <1>1, InvHolds, PTL

-----------------------------------------------------------------------------
(***************************************************************************)
(* Votes and leaders of RaftNode, for every cluster and every value of the *)
(* bounds: what is on disk, and that the elections implement Ballot.       *)
(*                                                                         *)
(* Every step is first reduced to what it does to the term file, to the    *)
(* answers in flight and to the votes counted; the invariants are then     *)
(* proved over those few moves.                                            *)
(***************************************************************************)

-----------------------------------------------------------------------------
(* What a step may do to a term file and the vote in it *)

Keeps == UNCHANGED <<disk, term, voted_for, cast>>

\* A later term is entered; the file may or may not have been saved.
Rises(i) ==
    \E t \in Nat, v \in Member \cup {None} :
        /\ t > term[i]
        /\ term' = [term EXCEPT ![i] = t]
        /\ voted_for' = [voted_for EXCEPT ![i] = v]
        /\ \/ UNCHANGED disk
           \/ \E w \in {None, v} :
                 disk' = [disk EXCEPT ![i] = [term |-> t, voted_for |-> w]]
        /\ UNCHANGED cast

\* A vote is given and saved.
Votes(i) ==
    \E t \in Nat, v \in Member :
        /\ t >= term[i]
        /\ t = term[i] => voted_for[i] \in {None, v}
        /\ term' = [term EXCEPT ![i] = t]
        /\ voted_for' = [voted_for EXCEPT ![i] = v]
        /\ disk' = [disk EXCEPT ![i] = [term |-> t, voted_for |-> v]]
        /\ cast' = cast \cup {<<t, i, v>>}

\* A vote is decided and its save fails, before or after the file is replaced.
VotesInMemory(i) ==
    \E v \in Member :
        /\ voted_for[i] \in {None, v}
        /\ voted_for' = [voted_for EXCEPT ![i] = v]
        /\ \/ UNCHANGED disk
           \/ disk' = [disk EXCEPT ![i] = [term |-> term[i], voted_for |-> v]]
        /\ UNCHANGED <<term, cast>>

\* A process starts from its file.
Reloads(i) ==
    /\ term' = [term EXCEPT ![i] = disk[i].term]
    /\ voted_for' = [voted_for EXCEPT ![i] = disk[i].voted_for]
    /\ UNCHANGED <<disk, cast>>

DiskMove ==
    \/ Keeps
    \/ \E i \in Member : Rises(i) \/ Votes(i) \/ VotesInMemory(i) \/ Reloads(i)

-----------------------------------------------------------------------------
(* The term file *)

\* Memory is never behind the file, and in the file's term it remembers the
\* file's vote.
FileFollowed ==
    \A i \in Member :
        /\ disk[i].term <= term[i]
        /\ (disk[i].term = term[i] /\ disk[i].voted_for # None)
              => voted_for[i] = disk[i].voted_for

VoteInv == FileFollowed /\ VoteIsDurable

\* What VoteOnce says of one step.
VoteKept ==
    \A i \in Member :
        /\ disk'[i].term >= disk[i].term
        /\ (disk'[i].term = disk[i].term /\ disk[i].voted_for # None)
              => disk'[i] = disk[i]

\* What a file says.
LEMMA FileFacts ==
  ASSUME ElectionOK, NEW i \in Member
  PROVE  /\ disk[i] \in PersistentState /\ disk[i].term \in Nat
         /\ disk[i].voted_for \in Member \cup {None}
         /\ term[i] \in Nat /\ voted_for[i] \in Member \cup {None}
         /\ disk[i] = [term |-> disk[i].term, voted_for |-> disk[i].voted_for]
BY DEF ElectionOK, PersistentState

\* Every move keeps the file moving forward.
LEMMA MoveKeepsVote ==
  ASSUME ElectionOK, FileFollowed, DiskMove
  PROVE  VoteKept
<1>1. CASE UNCHANGED disk
  <2>1. \A i \in Member : disk[i].term \in Nat
    BY FileFacts
  <2>2. QED
    BY <1>1, <2>1 DEF VoteKept
<1>2. ASSUME NEW i \in Member, NEW t \in Nat, NEW v \in Member \cup {None},
             disk' = [disk EXCEPT ![i] = [term |-> t, voted_for |-> v]],
             t >= term[i],
             t = term[i] => v # None /\ voted_for[i] \in {None, v}
      PROVE  VoteKept
  <2>1. ASSUME NEW k \in Member
        PROVE  /\ disk'[k].term >= disk[k].term
               /\ (disk'[k].term = disk[k].term /\ disk[k].voted_for # None)
                     => disk'[k] = disk[k]
    <3>1. /\ disk[k].term \in Nat /\ term[k] \in Nat
          /\ disk[k] = [term |-> disk[k].term, voted_for |-> disk[k].voted_for]
          /\ disk[k].voted_for \in Member \cup {None}
      BY FileFacts
    <3>2. /\ disk[k].term <= term[k]
          /\ (disk[k].term = term[k] /\ disk[k].voted_for # None)
                => voted_for[k] = disk[k].voted_for
      BY DEF FileFollowed
    <3>3. CASE k # i
      <4>1. disk'[k] = disk[k]
        BY <1>2, <3>3 DEF ElectionOK
      <4>2. QED
        BY <3>1, <4>1
    <3>4. CASE k = i
      <4>1. disk'[k] = [term |-> t, voted_for |-> v]
        BY <1>2, <3>4 DEF ElectionOK
      <4>2. disk'[k].term = t /\ disk'[k].voted_for = v
        BY <4>1
      <4>3. t >= disk[k].term
        BY <1>2, <3>1, <3>2, <3>4
      <4>4. ASSUME t = disk[k].term, disk[k].voted_for # None
            PROVE  v = disk[k].voted_for
        <5>1. t = term[k]
          BY <1>2, <3>1, <3>2, <3>4, <4>4
        <5>2. QED
          BY <1>2, <3>2, <3>4, <4>4, <5>1
      <4>5. QED
        BY <3>1, <4>1, <4>2, <4>3, <4>4
    <3>5. QED
      BY <3>3, <3>4
  <2>2. QED
    BY <2>1 DEF VoteKept
<1>3. ASSUME NEW i \in Member, Rises(i)
      PROVE  VoteKept
  <2>1. PICK t \in Nat, v \in Member \cup {None} :
            /\ t > term[i]
            /\ \/ UNCHANGED disk
               \/ disk' = [disk EXCEPT ![i] = [term |-> t, voted_for |-> v]]
    BY <1>3 DEF Rises
  <2>2. t >= term[i] /\ t # term[i]
    <3>1. term[i] \in Nat
      BY FileFacts
    <3>2. QED
      BY <2>1, <3>1
  <2>3. QED
    BY <1>1, <1>2, <2>1, <2>2
<1>4. ASSUME NEW i \in Member, Votes(i)
      PROVE  VoteKept
  <2>1. PICK t \in Nat, v \in Member :
            /\ t >= term[i]
            /\ t = term[i] => voted_for[i] \in {None, v}
            /\ disk' = [disk EXCEPT ![i] = [term |-> t, voted_for |-> v]]
    BY <1>4 DEF Votes
  <2>2. v # None
    BY NoneAssumption
  <2>3. QED
    BY <1>2, <2>1, <2>2
<1>5. ASSUME NEW i \in Member, VotesInMemory(i)
      PROVE  VoteKept
  <2>1. PICK v \in Member :
            /\ voted_for[i] \in {None, v}
            /\ \/ UNCHANGED disk
               \/ disk' = [disk EXCEPT ![i] = [term |-> term[i], voted_for |-> v]]
    BY <1>5 DEF VotesInMemory
  <2>2. v # None
    BY NoneAssumption
  <2>3. term[i] \in Nat /\ term[i] >= term[i]
    <3>1. term[i] \in Nat
      BY FileFacts
    <3>2. QED
      BY <3>1
  <2>4. QED
    BY <1>1, <1>2, <2>1, <2>2, <2>3
<1>6. QED
  BY <1>1, <1>3, <1>4, <1>5 DEF DiskMove, Keeps, Reloads

\* A vote that was on file stays there until a later term.
LEMMA MoveKeepsDurable ==
  ASSUME ElectionOK, ElectionOK', LedgerOK, VoteInv, DiskMove
  PROVE  VoteIsDurable'
<1>1. VoteKept
  BY MoveKeepsVote DEF VoteInv
<1>2. ASSUME NEW w \in cast
      PROVE  \/ disk'[w[2]].term > w[1]
             \/ disk'[w[2]] = [term |-> w[1], voted_for |-> w[3]]
  <2>1. w[1] \in Nat /\ w[2] \in Member /\ w[3] \in Member /\ w[3] # None
    BY NoneAssumption DEF LedgerOK
  <2>2. disk[w[2]].term \in Nat /\ disk'[w[2]].term \in Nat
    BY <2>1 DEF ElectionOK, PersistentState
  <2>3. CASE disk[w[2]].term > w[1]
    BY <1>1, <2>1, <2>2, <2>3 DEF VoteKept
  <2>4. CASE disk[w[2]] = [term |-> w[1], voted_for |-> w[3]]
    <3>1. disk[w[2]].term = w[1] /\ disk[w[2]].voted_for # None
      BY <2>1, <2>4
    <3>2. \/ disk'[w[2]].term > w[1] \/ disk'[w[2]] = disk[w[2]]
      BY <1>1, <2>1, <2>2, <3>1 DEF VoteKept
    <3>3. QED
      BY <2>4, <3>2
  <2>5. QED
    BY <2>3, <2>4 DEF VoteInv, VoteIsDurable
<1>3. CASE UNCHANGED cast
  BY <1>2, <1>3 DEF VoteIsDurable
<1>4. ASSUME NEW i \in Member, Votes(i)
      PROVE  VoteIsDurable'
  <2>1. PICK t \in Nat, v \in Member :
            /\ disk' = [disk EXCEPT ![i] = [term |-> t, voted_for |-> v]]
            /\ cast' = cast \cup {<<t, i, v>>}
    BY <1>4 DEF Votes
  <2>2. disk'[i] = [term |-> t, voted_for |-> v]
    BY <2>1 DEF ElectionOK
  <2>3. ASSUME NEW w \in cast'
        PROVE  \/ disk'[w[2]].term > w[1]
               \/ disk'[w[2]] = [term |-> w[1], voted_for |-> w[3]]
    <3>1. CASE w \in cast
      BY <1>2, <3>1
    <3>2. CASE w = <<t, i, v>>
      BY <2>2, <3>2
    <3>3. QED
      BY <2>1, <3>1, <3>2
  <2>4. QED
    BY <2>3 DEF VoteIsDurable
<1>5. QED
  BY <1>3, <1>4 DEF DiskMove, Keeps, Rises, VotesInMemory, Reloads

\* Memory stays with the file.
LEMMA MoveKeepsFile ==
  ASSUME ElectionOK, FileFollowed, DiskMove
  PROVE  FileFollowed'
<1> USE DEF FileFollowed
<1>1. ASSUME NEW i \in Member, NEW t \in Nat, NEW v, NEW d,
             term' = [term EXCEPT ![i] = t],
             voted_for' = [voted_for EXCEPT ![i] = v],
             disk' = [disk EXCEPT ![i] = d],
             d.term <= t, (d.term = t /\ d.voted_for # None) => v = d.voted_for
      PROVE  FileFollowed'
  BY <1>1 DEF ElectionOK
<1>2. CASE Keeps
  BY <1>2 DEF Keeps
<1>3. ASSUME NEW i \in Member, Rises(i)
      PROVE  FileFollowed'
  <2>1. PICK t \in Nat, v \in Member \cup {None} :
            /\ t > term[i]
            /\ term' = [term EXCEPT ![i] = t]
            /\ voted_for' = [voted_for EXCEPT ![i] = v]
            /\ \/ UNCHANGED disk
               \/ \E w \in {None, v} :
                     disk' = [disk EXCEPT ![i] = [term |-> t, voted_for |-> w]]
    BY <1>3 DEF Rises
  <2>2. disk[i].term < t /\ disk[i].term \in Nat
    <3>1. term[i] \in Nat /\ disk[i].term \in Nat
      BY FileFacts
    <3>2. QED
      BY <2>1, <3>1
  <2>3. CASE UNCHANGED disk
    <3>1. disk' = [disk EXCEPT ![i] = disk[i]]
      BY <2>3 DEF ElectionOK
    <3>2. disk[i].term <= t /\ disk[i].term # t
      BY <2>2
    <3>3. QED
      BY <1>1, <2>1, <3>1, <3>2
  <2>4. ASSUME NEW w \in {None, v},
               disk' = [disk EXCEPT ![i] = [term |-> t, voted_for |-> w]]
        PROVE  FileFollowed'
    <3> DEFINE d == [term |-> t, voted_for |-> w]
    <3>1. d.term = t /\ d.voted_for = w /\ d.term <= t
      OBVIOUS
    <3> HIDE DEF d
    <3>2. disk' = [disk EXCEPT ![i] = d]
      BY <2>4 DEF d
    <3>3. QED
      BY <1>1, <2>1, <3>1, <3>2
  <2>5. QED
    BY <2>1, <2>3, <2>4
<1>4. ASSUME NEW i \in Member, Votes(i)
      PROVE  FileFollowed'
  <2>1. PICK t \in Nat, v \in Member :
            /\ term' = [term EXCEPT ![i] = t]
            /\ voted_for' = [voted_for EXCEPT ![i] = v]
            /\ disk' = [disk EXCEPT ![i] = [term |-> t, voted_for |-> v]]
    BY <1>4 DEF Votes
  <2> DEFINE d == [term |-> t, voted_for |-> v]
  <2>2. d.term = t /\ d.voted_for = v /\ d.term <= t
    OBVIOUS
  <2> HIDE DEF d
  <2>3. disk' = [disk EXCEPT ![i] = d]
    BY <2>1 DEF d
  <2>4. QED
    BY <1>1, <2>1, <2>2, <2>3
<1>5. ASSUME NEW i \in Member, VotesInMemory(i)
      PROVE  FileFollowed'
  <2>1. PICK v \in Member : /\ voted_for[i] \in {None, v}
                            /\ voted_for' = [voted_for EXCEPT ![i] = v]
                            /\ \/ UNCHANGED disk
                               \/ disk' = [disk EXCEPT ![i] = [term |-> term[i], voted_for |-> v]]
                            /\ UNCHANGED term
    BY <1>5 DEF VotesInMemory
  <2>2. term' = [term EXCEPT ![i] = term[i]] /\ term[i] \in Nat
    BY <2>1, FileFacts DEF ElectionOK
  <2>3. CASE UNCHANGED disk
    <3>1. disk' = [disk EXCEPT ![i] = disk[i]]
      BY <2>3 DEF ElectionOK
    <3>2. disk[i].term <= term[i]
      BY FileFacts
    <3>3. (disk[i].term = term[i] /\ disk[i].voted_for # None) => v = disk[i].voted_for
      BY <2>1
    <3>4. QED
      BY <1>1, <2>1, <2>2, <3>1, <3>2, <3>3
  <2>4. CASE disk' = [disk EXCEPT ![i] = [term |-> term[i], voted_for |-> v]]
    <3> DEFINE d == [term |-> term[i], voted_for |-> v]
    <3>1. d.term = term[i] /\ d.voted_for = v
      OBVIOUS
    <3>2. d.term <= term[i]
      BY <2>2, <3>1
    <3> HIDE DEF d
    <3>3. disk' = [disk EXCEPT ![i] = d]
      BY <2>4 DEF d
    <3>4. QED
      BY <1>1, <2>1, <2>2, <3>1, <3>2, <3>3
  <2>5. QED
    BY <2>1, <2>3, <2>4
<1>6. ASSUME NEW i \in Member, Reloads(i)
      PROVE  FileFollowed'
  <2>1. disk' = [disk EXCEPT ![i] = disk[i]]
    BY <1>6 DEF Reloads, ElectionOK
  <2>2. disk[i].term \in Nat /\ disk[i].term <= disk[i].term
    <3>1. disk[i].term \in Nat
      BY FileFacts
    <3>2. QED
      BY <3>1
  <2>3. QED
    BY <1>1, <1>6, <2>1, <2>2 DEF Reloads
<1>7. QED
  BY <1>2, <1>3, <1>4, <1>5, <1>6 DEF DiskMove

-----------------------------------------------------------------------------
(* What a step may do to the answers in flight and to the votes counted *)

\* The answer to a real vote request that was granted.
IsGrant(m) == m.type = "RequestVoteReply" /\ ~m.pre_vote /\ m.granted

\* Every answer in flight was in flight before, or its vote is cast.
ReplyMove ==
    \A i, j \in Member : \A k \in DOMAIN rep'[i][j] :
        \/ \E n \in DOMAIN rep[i][j] : rep'[i][j][k] = rep[i][j][n]
        \/ IsGrant(rep'[i][j][k]) => <<rep'[i][j][k].term, j, i>> \in cast'

\* Every candidate goes on with the votes of its round, or all are cast.
CountMove ==
    \A k \in Member : role'[k] = "CANDIDATE" =>
        \/ role[k] = "CANDIDATE" /\ term'[k] = term[k] /\ round'[k].votes = round[k].votes
        \/ \A v \in round'[k].votes : <<term'[k], v, k>> \in cast'

Moves ==
    /\ DiskMove
    /\ ReplyMove
    /\ saveFailures' = 0 => CountMove
    /\ saveFailures' >= saveFailures

\* Nothing arrives.
LEMMA RepliesUnchanged ==
  ASSUME UNCHANGED rep
  PROVE  ReplyMove
BY DEF ReplyMove

\* One connection's answers are replaced by ones that were there.
LEMMA RepliesReplaced ==
  ASSUME NetworkOK, NEW i \in Member, NEW j \in Member, NEW s,
         rep' = [rep EXCEPT ![i][j] = s],
         \A k \in DOMAIN s :
             \/ \E n \in DOMAIN rep[i][j] : s[k] = rep[i][j][n]
             \/ IsGrant(s[k]) => <<s[k].term, j, i>> \in cast'
  PROVE  ReplyMove
<1> SUFFICES ASSUME NEW a \in Member, NEW b \in Member, NEW k \in DOMAIN rep'[a][b]
             PROVE  \/ \E n \in DOMAIN rep[a][b] : rep'[a][b][k] = rep[a][b][n]
                    \/ IsGrant(rep'[a][b][k]) => <<rep'[a][b][k].term, b, a>> \in cast'
  BY DEF ReplyMove
<1>1. CASE a = i /\ b = j
  <2>1. rep'[a][b] = s
    BY <1>1 DEF NetworkOK
  <2>2. QED
    BY <1>1, <2>1
<1>2. CASE ~(a = i /\ b = j)
  <2>1. rep'[a][b] = rep[a][b]
    BY <1>2 DEF NetworkOK
  <2>2. QED
    BY <2>1
<1>3. QED
  BY <1>1, <1>2

\* A request is answered.
LEMMA RespondMove ==
  ASSUME NetworkOK, NEW i \in Member, NEW j \in Member, NEW src,
         NEW a \in Answer, Respond(i, j, src, <<a>>),
         IsGrant(a) => <<a.term, i, j>> \in cast'
  PROVE  ReplyMove
<1>1. CASE src = "connection"
  <2> DEFINE s == rep[j][i] \o <<a>>
  <2>1. rep' = [rep EXCEPT ![j][i] = s]
    BY <1>1 DEF Respond
  <2>2. rep[j][i] \in Seq(Answer) /\ <<a>> \in Seq(Answer)
    BY DEF NetworkOK
  <2>3. ASSUME NEW k \in DOMAIN s
        PROVE  \/ \E n \in DOMAIN rep[j][i] : s[k] = rep[j][i][n]
               \/ s[k] = a
    BY <2>2, <2>3
  <2> HIDE DEF s
  <2>4. \A k \in DOMAIN s : \/ \E n \in DOMAIN rep[j][i] : s[k] = rep[j][i][n]
                            \/ IsGrant(s[k]) => <<s[k].term, i, j>> \in cast'
    BY <2>3
  <2>5. QED
    BY <2>1, <2>4, RepliesReplaced
<1>2. CASE src # "connection"
  BY <1>2, RepliesUnchanged DEF Respond
<1>3. QED
  BY <1>1, <1>2

\* An answer is read.
LEMMA TakeMove ==
  ASSUME NetworkOK, NEW i \in Member, NEW j \in Member, rep[i][j] # <<>>, TakeAnswer(i, j)
  PROVE  ReplyMove
<1> DEFINE s == Tail(rep[i][j])
<1>1. rep' = [rep EXCEPT ![i][j] = s]
  BY DEF TakeAnswer
<1>2. rep[i][j] \in Seq(Answer)
  BY DEF NetworkOK
<1>3. ASSUME NEW k \in DOMAIN s
      PROVE  \E n \in DOMAIN rep[i][j] : s[k] = rep[i][j][n]
  <2>1. /\ s \in Seq(Answer) /\ Len(s) = Len(rep[i][j]) - 1
        /\ \A n \in 1 .. Len(s) : s[n] = rep[i][j][n + 1]
    BY <1>2, HeadTailProperties
  <2> HIDE DEF s
  <2>2. k \in 1 .. Len(s) /\ Len(s) \in Nat
    BY <1>3, <2>1, LenProperties
  <2>3. /\ DOMAIN rep[i][j] = 1 .. Len(rep[i][j]) /\ Len(rep[i][j]) \in Nat
    BY <1>2, LenProperties
  <2>4. k + 1 \in DOMAIN rep[i][j]
    BY <2>1, <2>2, <2>3
  <2>5. s[k] = rep[i][j][k + 1]
    BY <2>1, <2>2
  <2>6. QED
    BY <2>4, <2>5
<1> HIDE DEF s
<1>4. \A k \in DOMAIN s : \/ \E n \in DOMAIN rep[i][j] : s[k] = rep[i][j][n]
                          \/ IsGrant(s[k]) => <<s[k].term, j, i>> \in cast'
  BY <1>3
<1>5. QED
  BY <1>1, <1>4, RepliesReplaced

\* A connection is given up, or its process ends.
LEMMA EndMove ==
  ASSUME NetworkOK, NEW i \in Member, NEW j \in Member,
         DropLink(i, j) \/ ProcessEnds(i) \/ \E src : EndInbound(i, j, src)
  PROVE  ReplyMove
<1>1. CASE DropLink(i, j)
  <2>1. rep' = [rep EXCEPT ![i][j] = <<>>]
    BY <1>1 DEF DropLink
  <2>2. DOMAIN <<>> = {}
    BY EmptySeq
  <2> DEFINE s == <<>>
  <2>3. DOMAIN s = {} /\ rep' = [rep EXCEPT ![i][j] = s]
    BY <2>1, <2>2
  <2> HIDE DEF s
  <2>4. QED
    BY <2>3, RepliesReplaced
<1>2. CASE ProcessEnds(i)
  <2>1. rep' = [rep EXCEPT ![i] = [b \in Member |-> <<>>]]
    BY <1>2 DEF ProcessEnds
  <2>2. ASSUME NEW a \in Member, NEW b \in Member
        PROVE  rep'[a][b] = rep[a][b] \/ rep'[a][b] = <<>>
    BY <2>1 DEF NetworkOK
  <2>3. QED
    BY <2>2 DEF ReplyMove
<1>3. CASE \E src : EndInbound(i, j, src)
  BY <1>3, RepliesUnchanged DEF EndInbound
<1>4. QED
  BY <1>1, <1>2, <1>3

\* Nobody's votes change, and nobody starts to be a candidate.
LEMMA CountUnchanged ==
  ASSUME \A k \in Member : role'[k] = "CANDIDATE" =>
            role[k] = "CANDIDATE" /\ term'[k] = term[k] /\ round'[k].votes = round[k].votes
  PROVE  CountMove
BY DEF CountMove

\* Only one member changes, and it is no candidate.
LEMMA CountFollower ==
  ASSUME ElectionOK, NEW i \in Member, role'[i] # "CANDIDATE",
         \A k \in Member \ {i} : role'[k] = role[k] /\ term'[k] = term[k] /\ round'[k] = round[k]
  PROVE  CountMove
BY DEF CountMove

-----------------------------------------------------------------------------
(* Every step is such a move *)

\* No failed save is forgotten.
LEMMA FailuresKept ==
  ASSUME Inv, UNCHANGED saveFailures \/ saveFailures' = saveFailures + 1
  PROVE  saveFailures' >= saveFailures
<1>1. saveFailures \in Nat
  BY DEF Inv, LedgerOK
<1>2. QED
  BY <1>1

\* A step that touches neither terms nor votes.
LEMMA QuietMove ==
  ASSUME Inv, UNCHANGED <<disk, term, voted_for, cast, role, round, saveFailures>>, ReplyMove
  PROVE  Moves
<1>1. CountMove
  BY CountUnchanged
<1>2. QED
  BY <1>1, FailuresKept DEF Moves, DiskMove, Keeps

\* The vote requests and appends that are answered without a vote.
LEMMA QuietRequest ==
  ASSUME Inv, NEW i \in Member, NEW j \in Member, NEW src, NEW m \in Request,
         Inbound(i, j, src) # <<>>,
         \/ RefuseUnderLease(i, j, src, m)
         \/ AnswerPreVote(i, j, src, m)
         \/ RejectAppend(i, j, src, m)
         \/ OnPromote(i, j, src, m)
  PROVE  Moves
<1>1. NetworkOK /\ TypeOK /\ term[i] \in Nat /\ voting[i] \in BOOLEAN /\ m.term \in Nat
  BY MemberFacts, RequestFields DEF Inv
<1>2. CASE RefuseUnderLease(i, j, src, m)
  <2> DEFINE a == VoteReply(term[i], FALSE, voting[i], m.pre_vote)
  <2>1. m \in RequestVote
    BY <1>2, RequestFields DEF RefuseUnderLease
  <2>2. m.pre_vote \in BOOLEAN
    BY <2>1 DEF RequestVote
  <2>3. a \in Answer /\ ~IsGrant(a)
    BY <1>1, <2>2, VoteReplyType DEF IsGrant, VoteReply
  <2>4. Respond(i, j, src, <<a>>)
    BY <1>2 DEF RefuseUnderLease
  <2> HIDE DEF a
  <2>5. ReplyMove
    BY <1>1, <2>3, <2>4, RespondMove
  <2>6. QED
    BY <1>2, <2>5, QuietMove DEF RefuseUnderLease, durable, election, history, faults
<1>3. CASE AnswerPreVote(i, j, src, m)
  <2> DEFINE granted == /\ m.term > term[i]
                        /\ IsAtLeastAsCurrentAs(log[i], m.last_log_index, m.last_log_term)
             t == IF granted THEN m.term ELSE term[i]
             a == VoteReply(t, granted, voting[i], TRUE)
  <2>1. t \in Nat /\ granted \in BOOLEAN
    BY <1>1
  <2>2. Respond(i, j, src, <<a>>)
    BY <1>3 DEF AnswerPreVote
  <2> HIDE DEF t, granted
  <2>3. a \in Answer /\ ~IsGrant(a)
    BY <1>1, <2>1, VoteReplyType DEF IsGrant, VoteReply
  <2> HIDE DEF a
  <2>4. ReplyMove
    BY <1>1, <2>2, <2>3, RespondMove
  <2>5. QED
    BY <1>3, <2>4, QuietMove DEF AnswerPreVote, durable, election, history, faults
<1>4. CASE RejectAppend(i, j, src, m)
  <2> DEFINE a == AppendReply(i, term[i], FALSE, 0, 0, "none")
  <2>1. a \in Answer
    BY <1>1, AppendReplyType
  <2>2. ~IsGrant(a)
    BY DEF IsGrant, AppendReply
  <2>3. Respond(i, j, src, <<a>>)
    BY <1>4 DEF RejectAppend
  <2> HIDE DEF a
  <2>4. ReplyMove
    BY <1>1, <2>1, <2>2, <2>3, RespondMove
  <2>5. QED
    BY <1>4, <2>4, QuietMove DEF RejectAppend, durable, election, history, faults
<1>5. CASE OnPromote(i, j, src, m)
  <2>1. Respond(i, j, src, <<>>)
    BY <1>5 DEF OnPromote
  <2>2. UNCHANGED rep
    <3>1. CASE src = "connection"
      <4>1. rep' = [rep EXCEPT ![j][i] = rep[j][i] \o <<>>]
        BY <2>1, <3>1 DEF Respond
      <4>2. rep[j][i] \in Seq(Answer)
        BY <1>1 DEF NetworkOK
      <4>3. rep[j][i] \o <<>> = rep[j][i]
        BY <4>2, ConcatEmptySeq
      <4>4. QED
        BY <1>1, <4>1, <4>3 DEF NetworkOK
    <3>2. CASE src # "connection"
      BY <2>1, <3>2 DEF Respond
    <3>3. QED
      BY <3>1, <3>2
  <2>3. ReplyMove
    BY <2>2, RepliesUnchanged
  <2>4. QED
    BY <1>5, <2>3, QuietMove DEF OnPromote, durable, history, faults
<1>6. QED
  BY <1>2, <1>3, <1>4, <1>5

\* A later term is entered, saved or not, and nobody becomes a candidate by it.
LEMMA RiseMove ==
  ASSUME Inv, NEW i \in Member, NEW t \in Nat, t > term[i],
         term' = [term EXCEPT ![i] = t],
         voted_for' = [voted_for EXCEPT ![i] = None],
         role' = [role EXCEPT ![i] = "FOLLOWER"],
         round' = [round EXCEPT ![i] = EmptyRound],
         \/ UNCHANGED disk
         \/ disk' = [disk EXCEPT ![i] = [term |-> t, voted_for |-> None]],
         UNCHANGED cast, ReplyMove,
         UNCHANGED saveFailures \/ saveFailures' = saveFailures + 1
  PROVE  Moves
<1>1. Rises(i)
  BY DEF Rises
<1>2. CountMove
  <2>1. /\ role'[i] # "CANDIDATE" /\ ElectionOK
        /\ \A k \in Member \ {i} : role'[k] = role[k] /\ term'[k] = term[k] /\ round'[k] = round[k]
    BY DEF Inv, ElectionOK
  <2>2. QED
    BY <2>1, CountFollower
<1>3. QED
  BY <1>1, <1>2, FailuresKept DEF Moves, DiskMove

\* A leader is followed, in this term or a later one.
LEMMA FollowMove ==
  ASSUME Inv, NEW i \in Member, NEW j \in Member, NEW t \in Nat, t >= term[i],
         Follow(i, j, t), UNCHANGED cast, ReplyMove, UNCHANGED saveFailures
  PROVE  Moves
<1>1. term[i] \in Nat /\ ElectionOK
  BY MemberFacts DEF Inv
<1>2. CASE t > term[i]
  <2>1. /\ term' = [term EXCEPT ![i] = t]
        /\ voted_for' = [voted_for EXCEPT ![i] = None]
        /\ role' = [role EXCEPT ![i] = "FOLLOWER"]
        /\ round' = [round EXCEPT ![i] = EmptyRound]
        /\ disk' = [disk EXCEPT ![i] = [term |-> t, voted_for |-> None]]
    BY <1>2 DEF Follow
  <2>2. QED
    BY <1>2, <2>1, RiseMove
<1>3. CASE ~(t > term[i])
  <2>1. UNCHANGED <<term, voted_for, disk, round>> /\ role' = [role EXCEPT ![i] = "FOLLOWER"]
    BY <1>3 DEF Follow
  <2>2. CountMove
    <3>1. /\ role'[i] # "CANDIDATE"
          /\ \A k \in Member \ {i} : role'[k] = role[k] /\ term'[k] = term[k] /\ round'[k] = round[k]
      BY <1>1, <2>1 DEF ElectionOK
    <3>2. QED
      BY <1>1, <3>1, CountFollower
  <2>3. QED
    BY <2>1, <2>2, FailuresKept DEF Moves, DiskMove, Keeps
<1>4. QED
  BY <1>2, <1>3

\* The appends of this term or a later one.
LEMMA FollowingRequest ==
  ASSUME Inv, NEW i \in Member, NEW j \in Member, NEW src, NEW m \in Request,
         \/ StopOnContradiction(i, j, src, m)
         \/ ConflictingAppend(i, j, src, m)
         \/ AcceptAppend(i, j, src, m)
  PROVE  Moves
<1>1. NetworkOK /\ TypeOK /\ m.term \in Nat
  BY MemberFacts, RequestFields DEF Inv
<1>2. CASE StopOnContradiction(i, j, src, m)
  <2>1. ReplyMove
    BY <1>1, <1>2, EndMove DEF StopOnContradiction, Fail
  <2>2. QED
    BY <1>1, <1>2, <2>1, FollowMove DEF StopOnContradiction, history, faults
<1>3. ASSUME NEW success \in BOOLEAN, NEW match \in Nat, NEW conflict \in Nat,
             Respond(i, j, src, <<AppendReply(i, m.term, success, match, conflict, Echo(m))>>)
      PROVE  ReplyMove
  <2> DEFINE a == AppendReply(i, m.term, success, match, conflict, Echo(m))
  <2>1. a \in Answer
    BY <1>1, EchoType, AppendReplyType
  <2>2. ~IsGrant(a)
    BY DEF IsGrant, AppendReply
  <2>3. Respond(i, j, src, <<a>>)
    BY <1>3
  <2> HIDE DEF a
  <2>4. QED
    BY <1>1, <2>1, <2>2, <2>3, RespondMove
<1>4. CASE ConflictingAppend(i, j, src, m)
  <2> DEFINE resume == FindConflict(log[i], m.prev_log_index, m.prev_log_term)
  <2>1. resume \in Nat
    <3>1. m \in AppendEntries /\ log[i] \in FullLog
      BY <1>4, RequestFields, MemberFacts DEF ConflictingAppend
    <3>2. m.prev_log_index \in Nat /\ m.prev_log_term \in Nat
      BY <3>1 DEF AppendEntries
    <3>3. QED
      BY <3>1, <3>2, FindConflictType
  <2>2. Respond(i, j, src, <<AppendReply(i, m.term, FALSE, 0, resume, Echo(m))>>)
    BY <1>4 DEF ConflictingAppend
  <2> HIDE DEF resume
  <2>3. ReplyMove
    BY <1>3, <2>1, <2>2
  <2>4. QED
    BY <1>1, <1>4, <2>3, FollowMove DEF ConflictingAppend, history, faults
<1>5. CASE AcceptAppend(i, j, src, m)
  <2> DEFINE match == Accepted(i, m).match
  <2>1. match \in Nat
    <3>1. /\ m \in AppendEntries /\ log[i] \in FullLog
          /\ commit_index[i] \in Nat /\ commit_index[i] <= LastIndex(log[i])
      BY <1>5, RequestFields, MemberFacts DEF AcceptAppend
    <3>2. \/ m.prev_log_index < commit_index[i]
          \/ Matches(log[i], m.prev_log_index, m.prev_log_term)
      BY <1>5 DEF AcceptAppend
    <3>3. QED
      BY <3>1, <3>2, AcceptedType
  <2>2. Respond(i, j, src, <<AppendReply(i, m.term, TRUE, match, 0, Echo(m))>>)
    BY <1>5 DEF AcceptAppend
  <2> HIDE DEF match
  <2>3. ReplyMove
    BY <1>3, <2>1, <2>2
  <2>4. QED
    BY <1>1, <1>5, <2>3, FollowMove DEF AcceptAppend, history, faults
<1>6. QED
  BY <1>2, <1>4, <1>5

\* on_request_vote, granted, and saved or not.
LEMMA GrantMove ==
  ASSUME Inv, NEW i \in Member, NEW j \in Member, NEW src, NEW m \in Request,
         GrantVote(i, j, src, m) \/ GrantSaveFails(i, j, src, m)
  PROVE  Moves
<1>1. /\ NetworkOK /\ ElectionOK /\ term[i] \in Nat /\ voting[i] \in BOOLEAN
      /\ m.term \in Nat
  BY MemberFacts, RequestFields DEF Inv
<1>2. /\ m.term >= term[i]
      /\ m.term > term[i] \/ voted_for[i] \in {None, j}
      /\ term' = [term EXCEPT ![i] = m.term]
      /\ voted_for' = [voted_for EXCEPT ![i] = j]
      /\ IF m.term > term[i]
         THEN /\ role' = [role EXCEPT ![i] = "FOLLOWER"]
              /\ round' = [round EXCEPT ![i] = EmptyRound]
         ELSE UNCHANGED <<role, round>>
  BY DEF GrantVote, GrantSaveFails, Grants
<1>3. CountMove
  <2>1. CASE m.term > term[i]
    <3>1. /\ role'[i] # "CANDIDATE"
          /\ \A k \in Member \ {i} : role'[k] = role[k] /\ term'[k] = term[k] /\ round'[k] = round[k]
      BY <1>1, <1>2, <2>1 DEF ElectionOK
    <3>2. QED
      BY <1>1, <3>1, CountFollower
  <2>2. CASE ~(m.term > term[i])
    <3>1. m.term = term[i]
      BY <1>1, <1>2, <2>2
    <3>2. UNCHANGED <<role, round>> /\ \A k \in Member : term'[k] = term[k]
      BY <1>1, <1>2, <2>2, <3>1 DEF ElectionOK
    <3>3. QED
      BY <3>2, CountUnchanged
  <2>3. QED
    BY <2>1, <2>2
<1>4. CASE GrantVote(i, j, src, m)
  <2> DEFINE a == VoteReply(m.term, TRUE, voting[i], FALSE)
  <2>1. a \in Answer /\ a.term = m.term
    BY <1>1, VoteReplyType DEF VoteReply
  <2>2. Respond(i, j, src, <<a>>) /\ cast' = cast \cup {<<m.term, i, j>>}
    BY <1>4 DEF GrantVote
  <2> HIDE DEF a
  <2>3. ReplyMove
    BY <1>1, <2>1, <2>2, RespondMove
  <2>4. Votes(i)
    <3>1. disk' = [disk EXCEPT ![i] = [term |-> m.term, voted_for |-> j]]
      BY <1>4 DEF GrantVote
    <3>2. m.term = term[i] => voted_for[i] \in {None, j}
      BY <1>1, <1>2
    <3>3. QED
      BY <1>1, <1>2, <2>2, <3>1, <3>2 DEF Votes
  <2>5. UNCHANGED saveFailures
    BY <1>4 DEF GrantVote, faults
  <2>6. QED
    BY <1>3, <2>3, <2>4, <2>5, FailuresKept DEF Moves, DiskMove
<1>5. CASE GrantSaveFails(i, j, src, m)
  <2>1. /\ saveFailures' = saveFailures + 1 /\ UNCHANGED cast /\ EndInbound(i, j, src)
        /\ IF m.term > term[i]
           THEN \E v \in {None, j} :
                   disk' = [disk EXCEPT ![i] = [term |-> m.term, voted_for |-> v]]
           ELSE \/ UNCHANGED disk
                \/ disk' = [disk EXCEPT ![i] = [term |-> m.term, voted_for |-> j]]
    BY <1>5 DEF GrantSaveFails, SaveFails, SavedOrNot, history
  <2>2. ReplyMove
    BY <1>1, <2>1, EndMove
  <2>3. Rises(i) \/ VotesInMemory(i)
    <3>1. CASE m.term > term[i]
      BY <1>1, <1>2, <2>1, <3>1 DEF Rises
    <3>2. CASE ~(m.term > term[i])
      <4>1. m.term = term[i]
        BY <1>1, <1>2, <3>2
      <4>2. term' = term
        BY <1>1, <1>2, <4>1 DEF ElectionOK
      <4>3. QED
        BY <1>2, <2>1, <3>2, <4>1, <4>2 DEF VotesInMemory
    <3>3. QED
      BY <3>1, <3>2
  <2>4. QED
    BY <1>3, <2>1, <2>2, <2>3, FailuresKept DEF Moves, DiskMove
<1>6. QED
  BY <1>4, <1>5

\* on_request_vote, refused; and a later term that could not be saved.
LEMMA DenyMove ==
  ASSUME Inv, NEW i \in Member, NEW j \in Member, NEW src, NEW m \in Request,
         DenyVote(i, j, src, m) \/ StepDownSaveFailsOnRequest(i, j, src, m)
  PROVE  Moves
<1>1. /\ NetworkOK /\ ElectionOK /\ term[i] \in Nat /\ voting[i] \in BOOLEAN
      /\ m.term \in Nat
  BY MemberFacts, RequestFields DEF Inv
<1>2. CASE DenyVote(i, j, src, m)
  <2> DEFINE t == Greatest(m.term, term[i])
             a == VoteReply(t, FALSE, voting[i], FALSE)
  <2>1. t \in Nat
    BY <1>1 DEF Greatest
  <2>2. Respond(i, j, src, <<a>>) /\ UNCHANGED <<cast, saveFailures>>
    BY <1>2 DEF DenyVote, history, faults
  <2> HIDE DEF t
  <2>3. a \in Answer /\ ~IsGrant(a)
    BY <1>1, <2>1, VoteReplyType DEF VoteReply, IsGrant
  <2> HIDE DEF a
  <2>4. ReplyMove
    BY <1>1, <2>2, <2>3, RespondMove
  <2>5. CASE m.term > term[i]
    <3>1. StepDown(i, m.term)
      BY <1>2, <2>5 DEF DenyVote
    <3>2. QED
      BY <1>1, <2>2, <2>4, <2>5, <3>1, RiseMove DEF StepDown, Adopt
  <2>6. CASE ~(m.term > term[i])
    BY <1>2, <2>2, <2>4, <2>6, QuietMove DEF DenyVote
  <2>7. QED
    BY <2>5, <2>6
<1>3. CASE StepDownSaveFailsOnRequest(i, j, src, m)
  <2>1. /\ m.term > term[i] /\ Adopt(i, m.term) /\ EndInbound(i, j, src)
        /\ UNCHANGED cast /\ saveFailures' = saveFailures + 1
        /\ \/ UNCHANGED disk
           \/ disk' = [disk EXCEPT ![i] = [term |-> m.term, voted_for |-> None]]
    BY <1>3 DEF StepDownSaveFailsOnRequest, SaveFails, SavedOrNot, history
  <2>2. ReplyMove
    BY <1>1, <2>1, EndMove
  <2>3. QED
    BY <1>1, <2>1, <2>2, RiseMove DEF Adopt
<1>4. QED
  BY <1>2, <1>3

\* Timers, clients, connections: nothing here touches a vote.
LEMMA QuietStep ==
  ASSUME Inv, NEW i \in Member, NEW j \in Member,
         \/ LeaderTick(i) \/ Propose(i) \/ PeerUp(i, j) \/ PeerGone(i, j)
         \/ PeerLost(i, j) \/ OrphanEnds(i, j)
  PROVE  Moves
<1>1. NetworkOK
  BY DEF Inv
<1>2. CASE PeerGone(i, j) \/ PeerLost(i, j)
  <2>1. ReplyMove
    BY <1>1, <1>2, EndMove DEF PeerGone, PeerLost, Disconnect
  <2>2. QED
    BY <1>2, <2>1, QuietMove DEF PeerGone, PeerLost, durable, election, history, faults
<1>3. CASE LeaderTick(i) \/ Propose(i) \/ PeerUp(i, j) \/ OrphanEnds(i, j)
  <2>1. UNCHANGED <<rep, disk, term, voted_for, cast, role, round, saveFailures>>
    BY <1>3 DEF LeaderTick, Propose, PeerUp, OrphanEnds, durable, election, history, faults
  <2>2. QED
    BY <2>1, RepliesUnchanged, QuietMove
<1>4. QED
  BY <1>2, <1>3

\* A member stops campaigning or leading, or asks for pre-votes.
LEMMA RoleMove ==
  ASSUME Inv, NEW i \in Member, PreCampaign(i) \/ Relinquish(i)
  PROVE  Moves
<1>1. /\ ElectionOK
      /\ UNCHANGED <<disk, term, voted_for, cast, rep, saveFailures>>
      /\ role'[i] # "CANDIDATE"
      /\ \A k \in Member \ {i} : role'[k] = role[k] /\ term'[k] = term[k] /\ round'[k] = round[k]
  BY DEF PreCampaign, Relinquish, Inv, ElectionOK, durable, history, faults, network
<1>2. CountMove
  BY <1>1, CountFollower
<1>3. QED
  BY <1>1, <1>2, RepliesUnchanged, FailuresKept DEF Moves, DiskMove, Keeps

\* A process starts again.
LEMMA RestartMove ==
  ASSUME Inv, NEW i \in Member, Restart(i)
  PROVE  Moves
<1>1. /\ ElectionOK /\ NetworkOK /\ ProcessEnds(i)
      /\ UNCHANGED <<disk, cast, saveFailures>>
      /\ term' = [term EXCEPT ![i] = disk[i].term]
      /\ voted_for' = [voted_for EXCEPT ![i] = disk[i].voted_for]
      /\ role' = [role EXCEPT ![i] = "FOLLOWER"]
      /\ round' = [round EXCEPT ![i] = EmptyRound]
  BY DEF Restart, Inv, history, faults
<1>2. ReplyMove
  BY <1>1, EndMove
<1>3. CountMove
  <2>1. /\ role'[i] # "CANDIDATE"
        /\ \A k \in Member \ {i} : role'[k] = role[k] /\ term'[k] = term[k] /\ round'[k] = round[k]
    BY <1>1 DEF ElectionOK
  <2>2. QED
    BY <1>1, <2>1, CountFollower
<1>4. QED
  BY <1>1, <1>2, <1>3, FailuresKept DEF Moves, DiskMove, Reloads

-----------------------------------------------------------------------------
(* What is in flight and counted is cast *)

\* Every vote on its way back is cast.
RepliesOK ==
    \A i, j \in Member : \A k \in DOMAIN rep[i][j] :
        IsGrant(rep[i][j][k]) => <<rep[i][j][k].term, j, i>> \in cast

\* As long as every save succeeded, every vote a candidate counts is cast.
VotesOK ==
    saveFailures = 0 =>
        \A i \in Member : role[i] = "CANDIDATE" =>
            \A v \in round[i].votes : <<term[i], v, i>> \in cast

\* The answers that change no term: an old one, one to an append, a pre-vote
\* refused.
LEMMA QuietAnswer ==
  ASSUME Inv, NEW i \in Member, NEW j \in Member, rep[i][j] # <<>>, NEW m \in Answer,
         \/ OnStaleAnswer(i, j, m)
         \/ OnAppendRefused(i, j, m)
         \/ OnAppendAccepted(i, j, m)
         \/ OnPreVoteRefused(i, j, m)
  PROVE  Moves
<1>1. NetworkOK /\ ElectionOK /\ TakeAnswer(i, j) /\ UNCHANGED saveFailures
  BY DEF Inv, OnStaleAnswer, OnAppendRefused, OnAppendAccepted, OnPreVoteRefused, TakeAnswer
<1>2. ReplyMove
  BY <1>1, TakeMove
<1>3. CASE \/ OnStaleAnswer(i, j, m) \/ OnAppendRefused(i, j, m) \/ OnAppendAccepted(i, j, m)
  <2>1. UNCHANGED <<disk, term, voted_for, cast, role, round>>
    BY <1>3 DEF OnStaleAnswer, OnAppendRefused, OnAppendAccepted, election, history
  <2>2. QED
    BY <1>1, <1>2, <2>1, QuietMove
<1>4. CASE OnPreVoteRefused(i, j, m)
  <2>1. /\ UNCHANGED <<disk, term, voted_for, cast>>
        /\ m.type = "RequestVoteReply" /\ m.pre_vote /\ ~IsStale(i, m)
        /\ role' = [role EXCEPT ![i] = "FOLLOWER"] \/ UNCHANGED role
        /\ \E r : round' = [round EXCEPT ![i] = r]
    BY <1>4 DEF OnPreVoteRefused, history
  <2>2. role[i] = "PRE_CANDIDATE"
    BY <2>1 DEF IsStale
  <2>3. /\ role'[i] # "CANDIDATE"
        /\ \A k \in Member \ {i} : role'[k] = role[k] /\ term'[k] = term[k] /\ round'[k] = round[k]
    BY <1>1, <2>1, <2>2 DEF ElectionOK
  <2>4. CountMove
    BY <1>1, <2>3, CountFollower
  <2>5. QED
    BY <1>1, <1>2, <2>1, <2>4, FailuresKept DEF Moves, DiskMove, Keeps
<1>5. QED
  BY <1>3, <1>4

\* A later term in an answer, saved or not.
LEMMA LaterAnswer ==
  ASSUME Inv, NEW i \in Member, NEW j \in Member, rep[i][j] # <<>>, NEW m \in Answer,
         OnLaterTerm(i, j, m) \/ StepDownSaveFailsOnAnswer(i, j, m)
  PROVE  Moves
<1>1. NetworkOK /\ m.term \in Nat
  BY AnswerFields DEF Inv
<1>2. CASE OnLaterTerm(i, j, m)
  <2>1. /\ m.term > term[i] /\ StepDown(i, m.term) /\ TakeAnswer(i, j)
        /\ UNCHANGED <<cast, saveFailures>>
    BY <1>2 DEF OnLaterTerm, TellsOfLaterTerm, TakeAnswer, history
  <2>2. ReplyMove
    BY <1>1, <2>1, TakeMove
  <2>3. QED
    BY <1>1, <2>1, <2>2, RiseMove DEF StepDown, Adopt
<1>3. CASE StepDownSaveFailsOnAnswer(i, j, m)
  <2>1. /\ m.term > term[i] /\ Adopt(i, m.term) /\ DropLink(i, j)
        /\ UNCHANGED cast /\ saveFailures' = saveFailures + 1
        /\ \/ UNCHANGED disk
           \/ disk' = [disk EXCEPT ![i] = [term |-> m.term, voted_for |-> None]]
    BY <1>3 DEF StepDownSaveFailsOnAnswer, SaveFails, SavedOrNot, TellsOfLaterTerm,
                Disconnect, history
  <2>2. ReplyMove
    BY <1>1, <2>1, EndMove
  <2>3. QED
    BY <1>1, <2>1, <2>2, RiseMove DEF Adopt
<1>4. QED
  BY <1>2, <1>3

\* A pre-vote granted: counted, or the campaign it starts.
LEMMA PreVoteMove ==
  ASSUME Inv, NEW i \in Member, NEW j \in Member, rep[i][j] # <<>>, NEW m \in Answer,
         OnPreVoteGranted(i, j, m)
  PROVE  Moves
<1> DEFINE counted == PreVoteCounted(i, j, m)
<1>1. /\ NetworkOK /\ ElectionOK /\ TakeAnswer(i, j) /\ UNCHANGED saveFailures
      /\ term[i] \in Nat /\ round[i] \in Round
  BY MemberFacts DEF Inv, OnPreVoteGranted, TakeAnswer
<1>2. ReplyMove
  BY <1>1, TakeMove
<1>3. CASE Won(i, counted.pre_votes, counted.pre_forgotten)
  <2> DEFINE r == [counted EXCEPT !.votes = {i}, !.forgotten = {}]
  <2>1. /\ role' = [role EXCEPT ![i] = "CANDIDATE"]
        /\ term' = [term EXCEPT ![i] = term[i] + 1]
        /\ voted_for' = [voted_for EXCEPT ![i] = i]
        /\ disk' = [disk EXCEPT ![i] = [term |-> term[i] + 1, voted_for |-> i]]
        /\ cast' = cast \cup {<<term[i] + 1, i, i>>}
        /\ round' = [round EXCEPT ![i] = r]
    BY <1>3 DEF OnPreVoteGranted, Campaign, Candidacy
  <2>2. counted \in Round
    BY CountedType
  <2> HIDE DEF counted
  <2>3. r.votes = {i}
    BY <2>2 DEF Round
  <2> HIDE DEF r
  <2>4. Votes(i)
    <3> DEFINE t == term[i] + 1
    <3>1. t \in Nat /\ t >= term[i] /\ t # term[i]
      BY <1>1
    <3>2. /\ term' = [term EXCEPT ![i] = t]
          /\ voted_for' = [voted_for EXCEPT ![i] = i]
          /\ disk' = [disk EXCEPT ![i] = [term |-> t, voted_for |-> i]]
          /\ cast' = cast \cup {<<t, i, i>>}
      BY <2>1
    <3> HIDE DEF t
    <3>3. QED
      BY <3>1, <3>2 DEF Votes
  <2>5. CountMove
    <3>1. \A v \in round'[i].votes : <<term'[i], v, i>> \in cast'
      BY <1>1, <2>1, <2>3 DEF ElectionOK
    <3>2. \A k \in Member \ {i} : role'[k] = role[k] /\ term'[k] = term[k] /\ round'[k] = round[k]
      BY <1>1, <2>1 DEF ElectionOK
    <3>3. QED
      BY <3>1, <3>2 DEF CountMove
  <2>6. QED
    BY <1>1, <1>2, <2>4, <2>5, FailuresKept DEF Moves, DiskMove
<1>4. CASE ~Won(i, counted.pre_votes, counted.pre_forgotten)
  <2>1. /\ round' = [round EXCEPT ![i] = counted]
        /\ UNCHANGED <<disk, term, voted_for, role, cast>>
    BY <1>4 DEF OnPreVoteGranted
  <2>2. counted.votes = round[i].votes
    BY <1>1 DEF PreVoteCounted, Round
  <2> HIDE DEF counted
  <2>3. \A k \in Member : round'[k].votes = round[k].votes
    BY <1>1, <2>1, <2>2 DEF ElectionOK
  <2>4. CountMove
    BY <2>1, <2>3, CountUnchanged
  <2>5. QED
    BY <1>1, <1>2, <2>1, <2>4, FailuresKept DEF Moves, DiskMove, Keeps
<1>5. QED
  BY <1>3, <1>4

\* The campaign whose term could not be saved.
LEMMA CampaignFailsMove ==
  ASSUME Inv, NEW i \in Member, NEW j \in Member, NEW m \in Answer, CampaignSaveFails(i, j, m)
  PROVE  Moves
<1>1. /\ NetworkOK /\ term[i] \in Nat /\ saveFailures \in Nat
      /\ term' = [term EXCEPT ![i] = term[i] + 1]
      /\ voted_for' = [voted_for EXCEPT ![i] = i]
      /\ DropLink(i, j) /\ UNCHANGED cast /\ saveFailures' = saveFailures + 1
      /\ \/ UNCHANGED disk
         \/ disk' = [disk EXCEPT ![i] = [term |-> term[i] + 1, voted_for |-> i]]
  BY MemberFacts DEF Inv, LedgerOK, CampaignSaveFails, Candidacy, SaveFails, SavedOrNot,
                     Disconnect, history
<1>2. ReplyMove
  BY <1>1, EndMove
<1>3. Rises(i)
  <2> DEFINE t == term[i] + 1
  <2>1. /\ t \in Nat /\ t > term[i] /\ term' = [term EXCEPT ![i] = t]
        /\ \/ UNCHANGED disk
           \/ disk' = [disk EXCEPT ![i] = [term |-> t, voted_for |-> i]]
    BY <1>1
  <2> HIDE DEF t
  <2>2. QED
    BY <1>1, <2>1 DEF Rises
<1>4. saveFailures' # 0
  BY <1>1
<1>5. QED
  BY <1>1, <1>2, <1>3, <1>4, FailuresKept DEF Moves, DiskMove

\* A vote is counted: it is cast, because the answer that brings it was in flight.
LEMMA VoteReplyMove ==
  ASSUME Inv, RepliesOK, VotesOK, NEW i \in Member, NEW j \in Member, rep[i][j] # <<>>,
         NEW m \in Answer, m = Head(rep[i][j]), OnRequestVoteReply(i, j, m)
  PROVE  /\ Moves
         /\ UNCHANGED <<cast, saveFailures>>
         /\ saveFailures = 0 =>
               \A v \in VoteCounted(i, j, m).votes : <<term[i], v, i>> \in cast
<1> DEFINE counted == VoteCounted(i, j, m)
<1>1. /\ NetworkOK /\ ElectionOK /\ TakeAnswer(i, j)
      /\ UNCHANGED <<disk, term, voted_for, cast, saveFailures>>
      /\ round' = [round EXCEPT ![i] = counted]
      /\ round[i] \in Round
      /\ m.type = "RequestVoteReply" /\ ~m.pre_vote /\ ~IsStale(i, m)
      /\ role' = [role EXCEPT ![i] = "LEADER"] \/ UNCHANGED role
  BY MemberFacts DEF Inv, OnRequestVoteReply, TakeAnswer, BecomeLeader
<1>2. ReplyMove
  BY <1>1, TakeMove
<1>3. role[i] = "CANDIDATE" /\ m.term = term[i]
  BY <1>1 DEF IsStale
<1>4. m.granted => <<term[i], j, i>> \in cast
  <2>1. rep[i][j] \in Seq(Answer)
    BY <1>1 DEF NetworkOK
  <2>2. 1 \in DOMAIN rep[i][j] /\ m = rep[i][j][1]
    <3>1. Len(rep[i][j]) \in Nat /\ DOMAIN rep[i][j] = 1 .. Len(rep[i][j])
          /\ Len(rep[i][j]) # 0
      BY <2>1, LenProperties, EmptySeq
    <3>2. QED
      BY <3>1
  <2>3. IsGrant(m) => <<m.term, j, i>> \in cast
    BY <2>2 DEF RepliesOK
  <2>4. QED
    BY <1>1, <1>3, <2>3 DEF IsGrant
<1>5. counted.votes = IF m.granted THEN round[i].votes \cup {j} ELSE round[i].votes
  BY <1>1 DEF VoteCounted, Round
<1>6. ASSUME saveFailures = 0, NEW v \in counted.votes
      PROVE  <<term[i], v, i>> \in cast
  <2>1. CASE v \in round[i].votes
    BY <1>3, <1>6, <2>1 DEF VotesOK
  <2>2. CASE v \notin round[i].votes
    BY <1>4, <1>5, <1>6, <2>2
  <2>3. QED
    BY <2>1, <2>2
<1> HIDE DEF counted
<1>7. saveFailures' = 0 => CountMove
  <2>1. HAVE saveFailures' = 0
  <2>2. \A v \in round'[i].votes : <<term'[i], v, i>> \in cast'
    BY <1>1, <1>6, <2>1 DEF ElectionOK
  <2>3. \A k \in Member \ {i} : role'[k] = role[k] /\ term'[k] = term[k] /\ round'[k] = round[k]
    BY <1>1 DEF ElectionOK
  <2>4. QED
    BY <2>2, <2>3 DEF CountMove
<1>8. Moves
  BY <1>1, <1>2, <1>7, FailuresKept DEF Moves, DiskMove, Keeps
<1>9. QED
  BY <1>1, <1>6, <1>8 DEF counted

-----------------------------------------------------------------------------
(* The invariants *)

BallotLink == RepliesOK /\ VotesOK

\* Which step it was, with the answer or the request it handled.
LEMMA StepCases ==
  ASSUME Inv, Next
  PROVE  \E i, j \in Member :
            \/ PreCampaign(i) \/ Relinquish(i) \/ Restart(i)
            \/ LeaderTick(i) \/ Propose(i) \/ PeerUp(i, j) \/ PeerGone(i, j)
            \/ PeerLost(i, j) \/ OrphanEnds(i, j)
            \/ \E src \in Source, m \in Request :
                  /\ Inbound(i, j, src) # <<>> /\ m = Head(Inbound(i, j, src))
                  /\ \/ RefuseUnderLease(i, j, src, m)
                     \/ AnswerPreVote(i, j, src, m)
                     \/ RejectAppend(i, j, src, m)
                     \/ OnPromote(i, j, src, m)
                     \/ GrantVote(i, j, src, m)
                     \/ GrantSaveFails(i, j, src, m)
                     \/ DenyVote(i, j, src, m)
                     \/ StepDownSaveFailsOnRequest(i, j, src, m)
                     \/ StopOnContradiction(i, j, src, m)
                     \/ ConflictingAppend(i, j, src, m)
                     \/ AcceptAppend(i, j, src, m)
            \/ \E m \in Answer :
                  /\ rep[i][j] # <<>> /\ m = Head(rep[i][j])
                  /\ \/ OnStaleAnswer(i, j, m)
                     \/ OnAppendRefused(i, j, m)
                     \/ OnAppendAccepted(i, j, m)
                     \/ OnPreVoteRefused(i, j, m)
                     \/ OnLaterTerm(i, j, m)
                     \/ StepDownSaveFailsOnAnswer(i, j, m)
                     \/ OnPreVoteGranted(i, j, m)
                     \/ CampaignSaveFails(i, j, m)
                     \/ OnRequestVoteReply(i, j, m)
<1>1. PICK i \in Member :
        \/ PreCampaign(i)
        \/ LeaderTick(i)
        \/ Relinquish(i)
        \/ Propose(i)
        \/ Restart(i)
        \/ \E j \in Member :
              \/ \E src \in Source : HandleRequest(i, j, src)
              \/ HandleAnswer(i, j)
              \/ PeerUp(i, j)
              \/ PeerGone(i, j)
              \/ PeerLost(i, j)
              \/ OrphanEnds(i, j)
  BY DEF Next
<1>2. ASSUME NEW j \in Member, NEW src \in Source, HandleRequest(i, j, src)
      PROVE  \E m \in Request :
                  /\ Inbound(i, j, src) # <<>> /\ m = Head(Inbound(i, j, src))
                  /\ \/ RefuseUnderLease(i, j, src, m)
                     \/ AnswerPreVote(i, j, src, m)
                     \/ RejectAppend(i, j, src, m)
                     \/ OnPromote(i, j, src, m)
                     \/ GrantVote(i, j, src, m)
                     \/ GrantSaveFails(i, j, src, m)
                     \/ DenyVote(i, j, src, m)
                     \/ StepDownSaveFailsOnRequest(i, j, src, m)
                     \/ StopOnContradiction(i, j, src, m)
                     \/ ConflictingAppend(i, j, src, m)
                     \/ AcceptAppend(i, j, src, m)
  <2>1. Inbound(i, j, src) # <<>> /\ Head(Inbound(i, j, src)) \in Request
    BY <1>2, HeadTypes DEF HandleRequest
  <2>2. \/ RefuseUnderLease(i, j, src, Head(Inbound(i, j, src)))
        \/ AnswerPreVote(i, j, src, Head(Inbound(i, j, src)))
        \/ RejectAppend(i, j, src, Head(Inbound(i, j, src)))
        \/ OnPromote(i, j, src, Head(Inbound(i, j, src)))
        \/ GrantVote(i, j, src, Head(Inbound(i, j, src)))
        \/ GrantSaveFails(i, j, src, Head(Inbound(i, j, src)))
        \/ DenyVote(i, j, src, Head(Inbound(i, j, src)))
        \/ StepDownSaveFailsOnRequest(i, j, src, Head(Inbound(i, j, src)))
        \/ StopOnContradiction(i, j, src, Head(Inbound(i, j, src)))
        \/ ConflictingAppend(i, j, src, Head(Inbound(i, j, src)))
        \/ AcceptAppend(i, j, src, Head(Inbound(i, j, src)))
    BY <1>2 DEF HandleRequest
  <2>3. QED
    BY <2>1, <2>2
<1>3. ASSUME NEW j \in Member, HandleAnswer(i, j)
      PROVE  \E m \in Answer :
                  /\ rep[i][j] # <<>> /\ m = Head(rep[i][j])
                  /\ \/ OnStaleAnswer(i, j, m)
                     \/ OnAppendRefused(i, j, m)
                     \/ OnAppendAccepted(i, j, m)
                     \/ OnPreVoteRefused(i, j, m)
                     \/ OnLaterTerm(i, j, m)
                     \/ StepDownSaveFailsOnAnswer(i, j, m)
                     \/ OnPreVoteGranted(i, j, m)
                     \/ CampaignSaveFails(i, j, m)
                     \/ OnRequestVoteReply(i, j, m)
  <2>1. rep[i][j] # <<>> /\ Head(rep[i][j]) \in Answer
    BY <1>3, HeadTypes DEF HandleAnswer
  <2>2. \/ OnStaleAnswer(i, j, Head(rep[i][j]))
        \/ OnAppendRefused(i, j, Head(rep[i][j]))
        \/ OnAppendAccepted(i, j, Head(rep[i][j]))
        \/ OnPreVoteRefused(i, j, Head(rep[i][j]))
        \/ OnLaterTerm(i, j, Head(rep[i][j]))
        \/ StepDownSaveFailsOnAnswer(i, j, Head(rep[i][j]))
        \/ OnPreVoteGranted(i, j, Head(rep[i][j]))
        \/ CampaignSaveFails(i, j, Head(rep[i][j]))
        \/ OnRequestVoteReply(i, j, Head(rep[i][j]))
    BY <1>3 DEF HandleAnswer
  <2>3. QED
    BY <2>1, <2>2
<1>4. QED
  BY <1>1, <1>2, <1>3

\* Every step is one of the moves.
LEMMA StepMoves ==
  ASSUME Inv, BallotLink, Next
  PROVE  Moves
BY StepCases, RoleMove, RestartMove, QuietStep, QuietRequest, GrantMove, DenyMove,
   FollowingRequest, QuietAnswer, LaterAnswer, PreVoteMove, CampaignFailsMove,
   VoteReplyMove DEF BallotLink

\* Votes are never taken back from the ledger.
LEMMA CastGrows ==
  ASSUME DiskMove
  PROVE  cast \subseteq cast'
BY DEF DiskMove, Keeps, Rises, Votes, VotesInMemory, Reloads

\* The moves keep every vote in flight and every vote counted on the ledger.
LEMMA MovesKeepLink ==
  ASSUME Inv, BallotLink, Moves
  PROVE  BallotLink'
<1>1. cast \subseteq cast'
  BY CastGrows DEF Moves
<1>2. RepliesOK'
  <2> SUFFICES ASSUME NEW i \in Member, NEW j \in Member, NEW k \in DOMAIN rep'[i][j],
                      IsGrant(rep'[i][j][k])
               PROVE  <<rep'[i][j][k].term, j, i>> \in cast'
    BY DEF RepliesOK, IsGrant
  <2>1. CASE \E n \in DOMAIN rep[i][j] : rep'[i][j][k] = rep[i][j][n]
    BY <1>1, <2>1 DEF BallotLink, RepliesOK
  <2>2. CASE ~\E n \in DOMAIN rep[i][j] : rep'[i][j][k] = rep[i][j][n]
    BY <2>2 DEF Moves, ReplyMove
  <2>3. QED
    BY <2>1, <2>2
<1>3. VotesOK'
  <2> SUFFICES ASSUME saveFailures' = 0, NEW i \in Member, role'[i] = "CANDIDATE",
                      NEW v \in round'[i].votes
               PROVE  <<term'[i], v, i>> \in cast'
    BY DEF VotesOK
  <2>1. saveFailures = 0
    <3>1. saveFailures \in Nat
      BY DEF Inv, LedgerOK
    <3>2. saveFailures' >= saveFailures
      BY DEF Moves
    <3>3. QED
      BY <3>1, <3>2
  <2>2. CountMove
    BY DEF Moves
  <2>3. QED
    BY <1>1, <2>1, <2>2 DEF CountMove, BallotLink, VotesOK
<1>4. QED
  BY <1>2, <1>3 DEF BallotLink

\* And they keep the term file.
LEMMA MovesKeepFile ==
  ASSUME Inv, Inv', VoteInv, Moves
  PROVE  VoteInv' /\ VoteKept
<1>1. ElectionOK /\ ElectionOK' /\ LedgerOK /\ DiskMove /\ FileFollowed
  BY DEF Inv, Moves, VoteInv
<1>2. QED
  BY <1>1, MoveKeepsVote, MoveKeepsDurable, MoveKeepsFile DEF VoteInv

\* A fresh boot.
LEMMA InitBallot == Init => VoteInv /\ BallotLink
<1> SUFFICES ASSUME Init PROVE VoteInv /\ BallotLink
  OBVIOUS
<1>1. FileFollowed
  BY DEF Init, FileFollowed
<1>2. VoteIsDurable
  BY DEF Init, VoteIsDurable
<1>3. RepliesOK
  <2>1. \A i, j \in Member : rep[i][j] = <<>>
    BY DEF Init
  <2>2. \A i, j \in Member : DOMAIN rep[i][j] = {}
    BY <2>1, EmptySeq
  <2>3. QED
    BY <2>2 DEF RepliesOK
<1>4. VotesOK
  BY DEF Init, VotesOK
<1>5. QED
  BY <1>1, <1>2, <1>3, <1>4 DEF VoteInv, BallotLink

\* A stutter changes nothing.
LEMMA StutterMove ==
  ASSUME Inv, UNCHANGED vars
  PROVE  Moves
<1>1. UNCHANGED <<disk, term, voted_for, cast, role, round, saveFailures, rep>>
  BY DEF vars, durable, election, network, history, faults
<1>2. QED
  BY <1>1, RepliesUnchanged, QuietMove

\* One step of everything.
LEMMA VoteStep ==
  ASSUME Inv, Inv', VoteInv, BallotLink, [Next]_vars
  PROVE  VoteInv' /\ BallotLink' /\ VoteKept
<1>1. Moves
  BY StepMoves, StutterMove
<1>2. QED
  BY <1>1, MovesKeepLink, MovesKeepFile

\* The invariants hold in every run.
THEOREM VoteInvHolds == Spec => [](VoteInv /\ BallotLink)
<1>1. Inv /\ Inv' /\ (VoteInv /\ BallotLink) /\ [Next]_vars => (VoteInv /\ BallotLink)'
  BY VoteStep
<1>2. QED
  BY <1>1, InitBallot, InvHolds, PTL DEF Spec

\* In a cluster of any size, across any number of restarts and failed saves, a
\* vote once given is in the voter's term file until the voter enters a later
\* term (on_request_vote and _campaign, over TermStore).
THEOREM VotesAreDurable == Spec => []VoteIsDurable
<1>1. VoteInv => VoteIsDurable
  BY DEF VoteInv
<1>2. QED
  BY <1>1, VoteInvHolds, PTL

\* In a cluster of any size, across any number of restarts and failed saves,
\* the term file never goes back and the vote of a term in it never changes.
THEOREM VotesAreOnce == Spec => VoteOnce
<1>1. Inv /\ Inv' /\ VoteInv /\ BallotLink /\ [Next]_vars =>
        [\A i \in Member :
            /\ disk'[i].term >= disk[i].term
            /\ (disk'[i].term = disk[i].term /\ disk[i].voted_for # None)
                  => disk'[i] = disk[i]]_vars
  BY VoteStep DEF VoteKept
<1>2. QED
  BY <1>1, InvHolds, VoteInvHolds, PTL DEF Spec, VoteOnce

-----------------------------------------------------------------------------
(* The elections of RaftNode implement Ballot, so no term ever has two     *)
(* leaders, as long as no save of a term file has failed.  The condition   *)
(* is needed: a campaign whose save fails keeps the votes of the round     *)
(* before it (_campaign), and counts them in the next term.                *)

\* A vote that is given is a Give: whatever the voter gave before is in its
\* file, of an earlier term or the same vote.
LEMMA VoteIsGive ==
  ASSUME Inv, VoteInv, NEW i \in Member, Votes(i), UNCHANGED elected
  PROVE  \E v \in cast' : Ballots!Give(v)
<1>1. PICK t \in Nat, c \in Member :
        /\ t >= term[i]
        /\ t = term[i] => voted_for[i] \in {None, c}
        /\ cast' = cast \cup {<<t, i, c>>}
  BY DEF Votes
<1>2. ASSUME NEW w \in cast, w[2] = i
      PROVE  w[1] < t \/ w = <<t, i, c>>
  <2>1. w \in Nat \X Member \X Member
    BY DEF Inv, LedgerOK
  <2>2. /\ w[1] \in Nat /\ w[3] \in Member /\ w = <<w[1], w[2], w[3]>>
    BY <2>1
  <2>3. /\ disk[i].term \in Nat /\ term[i] \in Nat
        /\ disk[i].voted_for \in Member \cup {None}
    BY FileFacts DEF Inv
  <2>4. /\ disk[i].term <= term[i]
        /\ (disk[i].term = term[i] /\ disk[i].voted_for # None)
              => voted_for[i] = disk[i].voted_for
    BY DEF VoteInv, FileFollowed
  <2>5. \/ disk[i].term > w[1]
        \/ disk[i] = [term |-> w[1], voted_for |-> w[3]]
    BY <1>2 DEF VoteInv, VoteIsDurable
  <2>6. CASE disk[i].term > w[1]
    BY <1>1, <2>2, <2>3, <2>4, <2>6
  <2>7. CASE disk[i] = [term |-> w[1], voted_for |-> w[3]]
    <3>1. disk[i].term = w[1] /\ disk[i].voted_for = w[3]
      BY <2>7
    <3>2. CASE w[1] < t
      BY <3>2
    <3>3. CASE ~(w[1] < t)
      <4>1. w[1] = t /\ t = term[i]
        BY <1>1, <2>2, <2>3, <2>4, <3>1, <3>3
      <4>2. w[3] # None
        BY <2>2, NoneAssumption
      <4>3. w[3] = c
        BY <1>1, <2>4, <3>1, <4>1, <4>2
      <4>4. QED
        BY <1>2, <2>2, <4>1, <4>3
    <3>4. QED
      BY <3>2, <3>3
  <2>8. QED
    BY <2>5, <2>6, <2>7
<1>3. Ballots!Give(<<t, i, c>>)
  BY <1>1, <1>2 DEF Ballots!Give
<1>4. QED
  BY <1>1, <1>3

\* The votes a candidate has won by are a majority, by either clause of _won.
LEMMA WonIsMajority ==
  ASSUME NEW i \in Member, NEW votes \in SUBSET Member, NEW forgotten,
         Won(i, votes, forgotten)
  PROVE  Cardinality(votes) >= Quorum
<1>1. IsFiniteSet(votes)
  BY MemberAssumption, FS_Subset
<1>2. PICK proven : \/ Cardinality(votes \ proven) >= Quorum
                    \/ Cardinality(votes) >= Quorum
  BY DEF Won
<1>3. /\ Cardinality(votes \ proven) <= Cardinality(votes)
      /\ IsFiniteSet(votes \ proven)
  BY <1>1, FS_Subset
<1>4. /\ Cardinality(votes) \in Nat /\ Cardinality(votes \ proven) \in Nat
      /\ Cardinality(Member) \in Nat
  BY <1>1, <1>3, FS_CardinalityType, MemberAssumption
<1>5. QED
  BY <1>2, <1>3, <1>4 DEF Quorum

\* A candidate that wins is a Lead.
LEMMA WinIsLead ==
  ASSUME Inv, BallotLink, saveFailures = 0, NEW i \in Member, NEW j \in Member,
         rep[i][j] # <<>>, NEW m \in Answer, m = Head(rep[i][j]),
         OnRequestVoteReply(i, j, m)
  PROVE  UNCHANGED elected \/ \E e \in elected' : Ballots!Lead(e)
<1> DEFINE counted == VoteCounted(i, j, m)
<1>1. /\ UNCHANGED cast
      /\ \A v \in counted.votes : <<term[i], v, i>> \in cast
  BY VoteReplyMove DEF BallotLink
<1>2. counted.votes \in SUBSET Member /\ term[i] \in Nat
  <2>1. round[i] \in Round /\ term[i] \in Nat
    BY MemberFacts DEF Inv
  <2>2. counted.votes = IF m.granted THEN round[i].votes \cup {j} ELSE round[i].votes
    BY <2>1 DEF VoteCounted, Round
  <2>3. QED
    BY <2>1, <2>2 DEF Round
<1>3. CASE ~Won(i, counted.votes, counted.forgotten)
  BY <1>3 DEF OnRequestVoteReply
<1>4. CASE Won(i, counted.votes, counted.forgotten)
  <2>1. elected' = elected \cup {<<term[i], i>>}
    BY <1>4 DEF OnRequestVoteReply, BecomeLeader
  <2>2. Cardinality(counted.votes) >= Quorum
    BY <1>2, <1>4, WonIsMajority
  <2> HIDE DEF counted
  <2> DEFINE S == {v \in Member : <<term[i], v, i>> \in cast}
  <2>3. S \in SUBSET Member /\ counted.votes \in SUBSET S
    BY <1>1, <1>2
  <2> HIDE DEF S
  <2>4. IsFiniteSet(S)
    BY <2>3, MemberAssumption, FS_Subset
  <2>5. Cardinality(counted.votes) <= Cardinality(S) /\ IsFiniteSet(counted.votes)
    BY <2>3, <2>4, FS_Subset
  <2>6. /\ Cardinality(counted.votes) \in Nat /\ Cardinality(S) \in Nat
        /\ Cardinality(Member) \in Nat
    BY <2>4, <2>5, FS_CardinalityType, MemberAssumption
  <2>7. Cardinality(S) >= Ballots!Majority
    <3>1. Quorum = Ballots!Majority
      BY DEF Quorum, Ballots!Majority, Cardinality, Ballots!Cardinality
    <3>2. Quorum \in Nat
      BY <2>6 DEF Quorum
    <3>3. Cardinality(S) >= Quorum
      BY <2>2, <2>5, <2>6, <3>2
    <3>4. QED
      BY <3>1, <3>3
  <2>8. Ballots!Supporters(<<term[i], i>>) = S
    BY DEF S, Ballots!Supporters
  <2>9. Ballots!Lead(<<term[i], i>>)
    <3>1. Cardinality(Ballots!Supporters(<<term[i], i>>)) >= Ballots!Majority
      BY <2>7, <2>8
    <3>2. <<term[i], i>> \in Nat \X Member
      BY <1>2
    <3>3. QED
      BY <1>1, <2>1, <3>1, <3>2 DEF Ballots!Lead, Cardinality, Ballots!Cardinality
  <2>10. QED
    BY <2>1, <2>9
<1>5. QED
  BY <1>3, <1>4

\* Only a counted vote makes a leader.
LEMMA OnlyCountingElects ==
  ASSUME Inv, BallotLink, saveFailures = 0, Next
  PROVE  UNCHANGED elected \/ \E e \in elected' : Ballots!Lead(e)
<1>1. ASSUME NEW i \in Member,
             \/ PreCampaign(i) \/ LeaderTick(i) \/ Relinquish(i) \/ Propose(i)
             \/ Restart(i)
      PROVE  UNCHANGED elected
  BY <1>1 DEF PreCampaign, LeaderTick, Relinquish, Propose, Restart, history
<1>2. ASSUME NEW i \in Member, NEW j \in Member,
             PeerUp(i, j) \/ PeerGone(i, j) \/ PeerLost(i, j) \/ OrphanEnds(i, j)
      PROVE  UNCHANGED elected
  BY <1>2 DEF PeerUp, PeerGone, PeerLost, OrphanEnds, history
<1>3. ASSUME NEW i \in Member, NEW j \in Member, NEW src \in Source, NEW m \in Request,
             \/ RefuseUnderLease(i, j, src, m)
             \/ AnswerPreVote(i, j, src, m)
             \/ RejectAppend(i, j, src, m)
             \/ OnPromote(i, j, src, m)
             \/ GrantVote(i, j, src, m)
             \/ GrantSaveFails(i, j, src, m)
             \/ DenyVote(i, j, src, m)
             \/ StepDownSaveFailsOnRequest(i, j, src, m)
             \/ StopOnContradiction(i, j, src, m)
             \/ ConflictingAppend(i, j, src, m)
             \/ AcceptAppend(i, j, src, m)
      PROVE  UNCHANGED elected
  BY <1>3 DEF RefuseUnderLease, AnswerPreVote, RejectAppend, OnPromote, GrantVote,
              GrantSaveFails, DenyVote, StepDownSaveFailsOnRequest,
              StopOnContradiction, ConflictingAppend, AcceptAppend, SaveFails, history
<1>4. ASSUME NEW i \in Member, NEW j \in Member, NEW m \in Answer,
             \/ OnStaleAnswer(i, j, m)
             \/ OnAppendRefused(i, j, m)
             \/ OnAppendAccepted(i, j, m)
             \/ OnPreVoteRefused(i, j, m)
             \/ OnLaterTerm(i, j, m)
             \/ StepDownSaveFailsOnAnswer(i, j, m)
             \/ OnPreVoteGranted(i, j, m)
             \/ CampaignSaveFails(i, j, m)
      PROVE  UNCHANGED elected
  BY <1>4 DEF OnStaleAnswer, OnAppendRefused, OnAppendAccepted, OnPreVoteRefused,
              OnLaterTerm, StepDownSaveFailsOnAnswer, OnPreVoteGranted,
              CampaignSaveFails, SaveFails, history
<1>5. QED
  BY <1>1, <1>2, <1>3, <1>4, WinIsLead, StepCases

\* Every step is a step of Ballot, or leaves the ledger alone.
LEMMA StepIsBallot ==
  ASSUME Inv, VoteInv, BallotLink, saveFailures = 0, [Next]_vars
  PROVE  [Ballots!Next]_<<cast, elected>>
<1>1. CASE UNCHANGED vars
  BY <1>1 DEF vars, history
<1>2. CASE Next
  <2>1. CASE \E e \in elected' : Ballots!Lead(e)
    BY <2>1 DEF Ballots!Next
  <2>2. CASE UNCHANGED elected
    <3>1. UNCHANGED cast \/ \E i \in Member : Votes(i)
      BY <1>2, StepMoves DEF Moves, DiskMove, Keeps, Rises, VotesInMemory, Reloads
    <3>2. QED
      BY <2>2, <3>1, VoteIsGive DEF Ballots!Next
  <2>3. QED
    BY <1>2, <2>1, <2>2, OnlyCountingElects
<1>3. QED
  BY <1>1, <1>2

\* In a cluster of any size, whatever is lost, delayed or restarted, the votes
\* given and the leaderships won are a run of Ballot as long as no save of a
\* term file has failed (on_request_vote, _campaign and _won).
THEOREM ElectionsAreBallots ==
  Spec /\ [](saveFailures = 0) => ImplementsBallot
<1>1. Init => Ballots!Init
  BY DEF Init, Ballots!Init
<1>2. Inv /\ VoteInv /\ BallotLink /\ saveFailures = 0 /\ [Next]_vars
        => [Ballots!Next]_<<cast, elected>>
  BY StepIsBallot
<1>3. QED
  BY <1>1, <1>2, InvHolds, VoteInvHolds, PTL DEF Spec, ImplementsBallot, Ballots!Spec

-----------------------------------------------------------------------------
(* What a ledger of ballots gives: two majorities share a voter, and that  *)
(* voter has one vote in the term.                                         *)

\* The inductive invariant of Ballot.
LedgerInv ==
  /\ cast \in SUBSET (Nat \X Member \X Member)
  /\ elected \in SUBSET (Nat \X Member)
  /\ Ballots!OneVotePerTerm
  /\ ElectedByQuorum

\* Two quorums have a member in common.
LEMMA QuorumsMeet ==
  ASSUME NEW V \in SUBSET Member, NEW W \in SUBSET Member,
         Cardinality(V) >= Quorum, Cardinality(W) >= Quorum
  PROVE  \E v \in Member : v \in V /\ v \in W
<1>1. IsFiniteSet(V) /\ IsFiniteSet(W)
  BY MemberAssumption, FS_Subset
<1>2. /\ Cardinality(Member) \in Nat /\ Cardinality(V) \in Nat /\ Cardinality(W) \in Nat
  BY <1>1, FS_CardinalityType, MemberAssumption
<1>3. Cardinality(V) + Cardinality(W) > Cardinality(Member)
  BY <1>2 DEF Quorum
<1>4. V \cap W # {}
  BY <1>1, <1>2, <1>3, MemberAssumption, FS_MajoritiesIntersect
<1>5. QED
  BY <1>4

\* A vote more leaves every supporter a supporter.
LEMMA SupportersGrow ==
  ASSUME NEW e, cast \subseteq cast', Cardinality(Ballots!Supporters(e)) >= Quorum
  PROVE  Cardinality(Ballots!Supporters(e)') >= Quorum
<1> DEFINE S == Ballots!Supporters(e)
           T == Ballots!Supporters(e)'
<1>1. S \in SUBSET T /\ T \in SUBSET Member
  BY DEF Ballots!Supporters
<1> HIDE DEF S, T
<1>2. IsFiniteSet(T)
  BY <1>1, MemberAssumption, FS_Subset
<1>3. Cardinality(S) <= Cardinality(T) /\ IsFiniteSet(S)
  BY <1>1, <1>2, FS_Subset
<1>4. /\ Cardinality(S) \in Nat /\ Cardinality(T) \in Nat
      /\ Cardinality(Member) \in Nat
  BY <1>2, <1>3, MemberAssumption, FS_CardinalityType
<1>5. Quorum \in Nat
  BY <1>4 DEF Quorum
<1>6. Cardinality(S) >= Quorum
  BY DEF S
<1>7. Cardinality(T) >= Quorum
  BY <1>3, <1>4, <1>5, <1>6
<1>8. QED
  BY <1>7 DEF T

\* Every vote and every leadership keeps the invariant.
LEMMA LedgerStep ==
  ASSUME LedgerInv, [Ballots!Next]_<<cast, elected>>
  PROVE  LedgerInv'
<1>1. ASSUME NEW v \in cast', Ballots!Give(v)
      PROVE  LedgerInv'
  <2>1. /\ v \in Nat \X Member \X Member
        /\ cast' = cast \cup {v} /\ elected' = elected
    BY <1>1 DEF Ballots!Give
  <2>2. Ballots!OneVotePerTerm'
    <3>1. ASSUME NEW w \in cast, w[1] = v[1], w[2] = v[2]
          PROVE  w = v
      <4>1. v[1] \in Nat
        BY <2>1
      <4>2. w[1] < v[1] \/ w = v
        BY <1>1, <3>1 DEF Ballots!Give
      <4>3. QED
        BY <3>1, <4>1, <4>2
    <3>2. QED
      BY <2>1, <3>1 DEF Ballots!OneVotePerTerm, LedgerInv
  <2>3. ElectedByQuorum'
    <3>1. ASSUME NEW e \in elected'
          PROVE  Cardinality(Ballots!Supporters(e)') >= Quorum
      <4>1. Cardinality(Ballots!Supporters(e)) >= Quorum
        BY <2>1, <3>1 DEF LedgerInv, ElectedByQuorum, Ballots!Supporters
      <4>2. cast \subseteq cast'
        BY <2>1
      <4>3. QED
        BY <4>1, <4>2, SupportersGrow
    <3>2. QED
      BY <3>1 DEF ElectedByQuorum, Ballots!Supporters, Quorum
  <2>4. QED
    BY <2>1, <2>2, <2>3 DEF LedgerInv
<1>2. ASSUME NEW e \in elected', Ballots!Lead(e)
      PROVE  LedgerInv'
  <2>1. /\ e \in Nat \X Member
        /\ Ballots!Cardinality(Ballots!Supporters(e)) >= Ballots!Majority
        /\ cast' = cast /\ elected' = elected \cup {e}
    BY <1>2 DEF Ballots!Lead
  <2>2. Cardinality(Ballots!Supporters(e)) >= Quorum
    BY <2>1 DEF Ballots!Majority, Ballots!Cardinality, Cardinality, Quorum
  <2>3. ElectedByQuorum'
    BY <2>1, <2>2 DEF LedgerInv, ElectedByQuorum, Ballots!Supporters, Quorum
  <2>4. Ballots!OneVotePerTerm'
    BY <2>1 DEF LedgerInv, Ballots!OneVotePerTerm
  <2>5. QED
    BY <2>1, <2>3, <2>4 DEF LedgerInv
<1>3. CASE UNCHANGED <<cast, elected>>
  BY <1>3 DEF LedgerInv, Ballots!OneVotePerTerm, ElectedByQuorum, Quorum
<1>4. QED
  BY <1>1, <1>2, <1>3 DEF Ballots!Next

\* The invariant gives what it is for.
LEMMA LedgerSafe ==
  ASSUME LedgerInv
  PROVE  Ballots!OneLeaderPerTerm
<1> SUFFICES ASSUME NEW e \in elected, NEW f \in elected, e[1] = f[1]
             PROVE  e = f
  BY DEF Ballots!OneLeaderPerTerm
<1>1. e \in Nat \X Member /\ f \in Nat \X Member
  BY DEF LedgerInv
<1>2. /\ Cardinality(Ballots!Supporters(e)) >= Quorum
      /\ Cardinality(Ballots!Supporters(f)) >= Quorum
      /\ Ballots!Supporters(e) \in SUBSET Member
      /\ Ballots!Supporters(f) \in SUBSET Member
  BY DEF LedgerInv, ElectedByQuorum, Ballots!Supporters
<1>3. PICK v \in Member : v \in Ballots!Supporters(e) /\ v \in Ballots!Supporters(f)
  BY <1>2, QuorumsMeet
<1>4. <<e[1], v, e[2]>> \in cast /\ <<f[1], v, f[2]>> \in cast
  BY <1>3 DEF Ballots!Supporters
<1>5. e[2] = f[2]
  BY <1>4 DEF LedgerInv, Ballots!OneVotePerTerm
<1>6. QED
  BY <1>1, <1>5

LEMMA LedgerHolds ==
  Ballots!Spec => []LedgerInv
<1>1. Ballots!Init => LedgerInv
  BY DEF Ballots!Init, LedgerInv, Ballots!OneVotePerTerm, ElectedByQuorum
<1>2. LedgerInv /\ [Ballots!Next]_<<cast, elected>> => LedgerInv'
  BY LedgerStep
<1>3. QED
  BY <1>1, <1>2, PTL DEF Ballots!Spec

\* In any ledger that follows the rules of Give and Lead, a term has at most
\* one leader.
THEOREM BallotIsSafe ==
  Ballots!Spec => []Ballots!OneLeaderPerTerm
<1>1. LedgerInv => Ballots!OneLeaderPerTerm
  BY LedgerSafe
<1>2. QED
  BY <1>1, LedgerHolds, PTL

\* At most one member ever leads a term, in a cluster of any size, whatever is
\* lost, delayed or restarted, as long as no save of a term file has failed
\* (_become_leader).
THEOREM OneLeaderATerm ==
  Spec /\ [](saveFailures = 0) => []ElectionSafety
<1>1. Ballots!OneLeaderPerTerm => ElectionSafety
  BY DEF Ballots!OneLeaderPerTerm, ElectionSafety
<1>2. QED
  BY <1>1, ElectionsAreBallots, BallotIsSafe, PTL DEF ImplementsBallot

\* And every leadership rests on a quorum of the votes of its own term, under
\* the same condition (_won).
THEOREM LeadersHaveQuorums ==
  Spec /\ [](saveFailures = 0) => []ElectedByQuorum
<1>1. LedgerInv => ElectedByQuorum
  BY DEF LedgerInv
<1>2. QED
  BY <1>1, ElectionsAreBallots, LedgerHolds, PTL DEF ImplementsBallot

-----------------------------------------------------------------------------
(***************************************************************************)
(* The logs of RaftNode, for every cluster and every value of the bounds:  *)
(* what is committed stays, and two logs with the same term at an index    *)
(* agree on everything before it.                                          *)
(*                                                                         *)
(* A log and an append are both spans: a term at each index of an interval *)
(* of indices.  Every step is first reduced to what it does to the spans   *)
(* and to who leads; the invariants are then proved over those few moves.  *)
(***************************************************************************)

-----------------------------------------------------------------------------
(* Spans *)

\* What a log says: index 0 is the boundary of a log that was never compacted.
LogSpan(l) == [n \in 0 .. LastIndex(l) |-> TermAt(l, n)]

\* What an append says: its anchor, and its entries behind it.
AppendSpan(m) ==
    [n \in m.prev_log_index .. m.prev_log_index + Len(m.entries) |->
        IF n = m.prev_log_index THEN m.prev_log_term
                                ELSE m.entries[n - m.prev_log_index]]

\* The requests in flight, on a connection or left over from one, and the
\* appends among them.
Sent ==
    {m \in Request : \E a, b \in Member :
        m \in Range(req[a][b]) \/ m \in Range(orphan[a][b])}

Appended == {m \in Sent : m.type = "AppendEntries"}

Spans == {LogSpan(log[i]) : i \in Member} \cup {AppendSpan(m) : m \in Appended}

\* An interval of indices with a term at each.
IsSpan(f) ==
    /\ \E a, b \in Nat : DOMAIN f = a .. b
    /\ \A n \in DOMAIN f : f[n] \in Nat

\* g says nothing that f does not say.
Part(g, f) == DOMAIN g \subseteq DOMAIN f /\ \A n \in DOMAIN g : g[n] = f[n]

\* Where two spans have the same term they agree on all that is before.
Agree(f, g) ==
    \A n \in DOMAIN f \cap DOMAIN g :
        f[n] = g[n] => \A k \in DOMAIN f \cap DOMAIN g : k <= n => f[k] = g[k]

\* A log is a span from 0 on.
LEMMA LogSpanIs ==
  ASSUME NEW l \in FullLog
  PROVE  /\ IsSpan(LogSpan(l))
         /\ DOMAIN LogSpan(l) = 0 .. LastIndex(l) /\ LastIndex(l) \in Nat
         /\ \A n \in 0 .. LastIndex(l) : LogSpan(l)[n] = TermAt(l, n)
         /\ LogSpan(l)[0] = 0
<1>1. LastIndex(l) \in Nat
  BY LastType
<1>2. DOMAIN LogSpan(l) = 0 .. LastIndex(l)
  BY DEF LogSpan
<1>3. \A n \in 0 .. LastIndex(l) : LogSpan(l)[n] = TermAt(l, n) /\ TermAt(l, n) \in Nat
  BY <1>1, TermAtType DEF LogSpan
<1>4. TermAt(l, 0) = 0
  BY DEF TermAt, FullLog
<1>5. 0 \in 0 .. LastIndex(l)
  BY <1>1
<1>6. IsSpan(LogSpan(l))
  BY <1>1, <1>2, <1>3 DEF IsSpan
<1>7. QED
  BY <1>1, <1>2, <1>3, <1>4, <1>5, <1>6

\* The term of an entry of a log that was never compacted.
LEMMA TermAtIs ==
  ASSUME NEW l \in FullLog, NEW n \in Nat
  PROVE  TermAt(l, n) = IF n = 0 THEN 0 ELSE l.entries[n]
BY DEF TermAt, Get, FullLog

\* An append is a span from its anchor on.
LEMMA AppendSpanIs ==
  ASSUME NEW m \in AppendEntries
  PROVE  /\ IsSpan(AppendSpan(m))
         /\ DOMAIN AppendSpan(m) = m.prev_log_index .. m.prev_log_index + Len(m.entries)
         /\ AppendSpan(m)[m.prev_log_index] = m.prev_log_term
         /\ \A k \in 1 .. Len(m.entries) :
               AppendSpan(m)[m.prev_log_index + k] = m.entries[k]
<1> DEFINE p == m.prev_log_index
<1>1. /\ p \in Nat /\ m.prev_log_term \in Nat /\ m.entries \in Seq(Nat)
      /\ Len(m.entries) \in Nat
  BY LenProperties DEF AppendEntries
<1>2. DOMAIN AppendSpan(m) = p .. p + Len(m.entries)
  BY DEF AppendSpan
<1>3. p \in p .. p + Len(m.entries)
  BY <1>1
<1>4. AppendSpan(m)[p] = m.prev_log_term
  BY <1>3 DEF AppendSpan
<1>5. ASSUME NEW k \in 1 .. Len(m.entries)
      PROVE  AppendSpan(m)[p + k] = m.entries[k] /\ m.entries[k] \in Nat
  <2>1. p + k \in p .. p + Len(m.entries) /\ p + k # p /\ (p + k) - p = k
    BY <1>1
  <2>2. m.entries[k] \in Nat
    BY <1>1, ElementOfSeq
  <2>3. QED
    BY <2>1, <2>2 DEF AppendSpan
<1>6. ASSUME NEW n \in DOMAIN AppendSpan(m)
      PROVE  AppendSpan(m)[n] \in Nat
  <2>1. n = p \/ n - p \in 1 .. Len(m.entries)
    BY <1>1, <1>2
  <2>2. n = p + (n - p)
    BY <1>1, <1>2
  <2>3. QED
    BY <1>1, <1>4, <1>5, <2>1, <2>2
<1>7. p \in Nat /\ p + Len(m.entries) \in Nat
  BY <1>1
<1>8. IsSpan(AppendSpan(m))
  BY <1>2, <1>6, <1>7 DEF IsSpan
<1>9. QED
  BY <1>2, <1>4, <1>5, <1>8

\* The entries slice returns are the log's, from start on.
LEMMA SliceIs ==
  ASSUME NEW l \in FullLog, NEW start \in Nat \ {0}, NEW limit \in Nat
  PROVE  \A k \in 1 .. Len(Slice(l, start, limit)) :
            /\ start + k - 1 <= LastIndex(l)
            /\ Slice(l, start, limit)[k] = l.entries[start + k - 1]
<1> DEFINE n == Least(start - l.snapshot_index + limit - 1, Len(l.entries))
           s == SubSeq(l.entries, start, n)
<1>1. l.entries \in Seq(Nat) /\ l.snapshot_index = 0
  BY DEF FullLog, LogType
<1>2. LastIndex(l) = Len(l.entries) /\ Len(l.entries) \in Nat
  BY LastType
<1>3. n \in Int /\ n <= Len(l.entries)
  BY <1>1, <1>2 DEF Least
<1>4. Slice(l, start, limit) = s
  <2>1. start - l.snapshot_index = start
    BY <1>1
  <2>2. QED
    BY <2>1, Zenon DEF Slice
<1> HIDE DEF n
<1>5. \A i \in start .. n : l.entries[i] \in Nat
  BY <1>1, <1>2, <1>3, ElementOfSeq
<1>6. /\ Len(s) = IF start <= n THEN n - start + 1 ELSE 0
      /\ \A i \in 1 .. n - start + 1 : s[i] = l.entries[start + i - 1]
  BY <1>3, <1>5, SubSeqProperties
<1> HIDE DEF s
<1>7. ASSUME NEW k \in 1 .. Len(s)
      PROVE  start + k - 1 <= LastIndex(l) /\ s[k] = l.entries[start + k - 1]
  <2>1. start <= n /\ k \in 1 .. n - start + 1
    BY <1>3, <1>6
  <2>2. QED
    BY <1>2, <1>3, <1>6, <2>1
<1>8. QED
  BY <1>4, <1>7

\* An append anchored inside the leader's log is part of it (_send_append).
LEMMA AppendForPart ==
  ASSUME NEW t \in Nat, NEW l \in FullLog, NEW c \in Nat, NEW s \in PeerState,
         s.match_index < s.next_index, s.next_index <= LastIndex(l) + 1,
         NEW late \in BOOLEAN
  PROVE  /\ AppendFor(t, l, c, s, late) \in AppendEntries
         /\ Part(AppendSpan(AppendFor(t, l, c, s, late)), LogSpan(l))
<1> DEFINE m == AppendFor(t, l, c, s, late)
           p == s.next_index - 1
           es == Carried(l, s, late)
<1>1. m \in Request /\ m.type = "AppendEntries"
  BY AppendForType DEF AppendFor
<1>2. m \in AppendEntries
  BY <1>1 DEF Request, RequestVote, Promote
<1>3. m.prev_log_index = p /\ m.prev_log_term = TermAt(l, p) /\ m.entries = es
  BY DEF AppendFor
<1> HIDE DEF m
<1>4. s.next_index \in Nat \ {0} /\ p \in Nat /\ LastIndex(l) \in Nat /\ p <= LastIndex(l)
  BY LastType DEF PeerState
<1>5. /\ DOMAIN AppendSpan(m) = p .. p + Len(es)
      /\ AppendSpan(m)[p] = TermAt(l, p)
      /\ \A k \in 1 .. Len(es) : AppendSpan(m)[p + k] = es[k]
  BY <1>2, <1>3, AppendSpanIs
<1>6. Len(es) \in Nat
  BY <1>4, CarriedType
<1>7. ASSUME NEW k \in 1 .. Len(es)
      PROVE  p + k <= LastIndex(l) /\ es[k] = TermAt(l, p + k)
  <2>1. CASE Paused(s, late)
    <3>1. es = <<>>
      BY <2>1 DEF Carried
    <3>2. Len(es) = 0
      BY <3>1, EmptySeq
    <3>3. QED
      BY <3>2
  <2>2. CASE ~Paused(s, late)
    <3>1. es = Slice(l, s.next_index, MaxEntries)
      BY <2>2 DEF Carried
    <3>2. /\ s.next_index + k - 1 <= LastIndex(l)
          /\ es[k] = l.entries[s.next_index + k - 1]
      BY <1>4, <3>1, SliceIs, BoundAssumption
    <3>3. s.next_index + k - 1 = p + k /\ p + k \in Nat /\ p + k # 0
      BY <1>4
    <3>4. TermAt(l, p + k) = l.entries[p + k]
      BY <3>3, TermAtIs
    <3>5. QED
      BY <3>2, <3>3, <3>4
  <2>3. QED
    BY <2>1, <2>2
<1> HIDE DEF es, p
<1>8. ASSUME NEW n \in p .. p + Len(es)
      PROVE  n \in 0 .. LastIndex(l) /\ AppendSpan(m)[n] = TermAt(l, n)
  <2>1. CASE n = p
    BY <1>4, <1>5, <2>1
  <2>2. CASE n # p
    <3>1. n - p \in 1 .. Len(es) /\ n = p + (n - p)
      BY <1>4, <1>6, <2>2
    <3>2. n <= LastIndex(l) /\ AppendSpan(m)[n] = TermAt(l, n)
      BY <1>5, <1>7, <3>1
    <3>3. QED
      BY <1>4, <3>2
  <2>3. QED
    BY <2>1, <2>2
<1>9. Part(AppendSpan(m), LogSpan(l))
  BY <1>5, <1>8, LogSpanIs DEF Part
<1>10. QED
  BY <1>2, <1>9 DEF m

\* A leader's entry is said after all its log said (append).
LEMMA AppendLocalSpan ==
  ASSUME NEW l \in FullLog, NEW t \in Nat
  PROVE  /\ DOMAIN LogSpan(AppendLocal(l, t)) = 0 .. LastIndex(l) + 1
         /\ \A n \in 0 .. LastIndex(l) : LogSpan(AppendLocal(l, t))[n] = LogSpan(l)[n]
         /\ LogSpan(AppendLocal(l, t))[LastIndex(l) + 1] = t
<1> DEFINE a == AppendLocal(l, t)
<1>1. a \in FullLog /\ LastIndex(a) = LastIndex(l) + 1 /\ LastIndex(l) \in Nat
      /\ LastIndex(l) = Len(l.entries)
  BY AppendLocalType, LastType
<1>2. l.entries \in Seq(Nat) /\ a.entries = Append(l.entries, t)
  BY DEF AppendLocal, FullLog, LogType
<1>3. /\ \A n \in 1 .. Len(l.entries) : a.entries[n] = l.entries[n]
      /\ a.entries[Len(l.entries) + 1] = t
  BY <1>2, AppendProperties
<1> HIDE DEF a
<1>4. \A n \in 0 .. LastIndex(a) : LogSpan(a)[n] = IF n = 0 THEN 0 ELSE a.entries[n]
  BY <1>1, LogSpanIs, TermAtIs
<1>5. \A n \in 0 .. LastIndex(l) : LogSpan(l)[n] = IF n = 0 THEN 0 ELSE l.entries[n]
  BY <1>1, LogSpanIs, TermAtIs
<1>6. DOMAIN LogSpan(a) = 0 .. LastIndex(l) + 1
  BY <1>1, LogSpanIs
<1>7. ASSUME NEW n \in 0 .. LastIndex(l)
      PROVE  LogSpan(a)[n] = LogSpan(l)[n]
  <2>1. n \in 0 .. LastIndex(a)
    BY <1>1
  <2>2. CASE n = 0
    BY <1>4, <1>5, <2>1, <2>2
  <2>3. CASE n # 0
    <3>1. n \in 1 .. Len(l.entries)
      BY <1>1, <2>3
    <3>2. QED
      BY <1>3, <1>4, <1>5, <2>1, <2>3, <3>1
  <2>4. QED
    BY <2>2, <2>3
<1>8. LogSpan(a)[LastIndex(l) + 1] = t
  <2>1. LastIndex(l) + 1 \in 0 .. LastIndex(a) /\ LastIndex(l) + 1 # 0
    BY <1>1
  <2>2. QED
    BY <1>1, <1>3, <1>4, <2>1
<1>9. QED
  BY <1>6, <1>7, <1>8 DEF a

\* What a follower's log says once it has taken an append anchored in it: what
\* it said up to the anchor; beyond it either what it said, because the append
\* held nothing new, or what the append says and no more (append_replicated).
LEMMA AppendReplicatedSpan ==
  ASSUME NEW l \in FullLog, NEW m \in AppendEntries, NEW p \in Nat,
         p = m.prev_log_index, p <= LastIndex(l),
         NEW a, a = AppendReplicated(l, p + 1, m.entries)
  PROVE  /\ a \in FullLog /\ p <= LastIndex(a)
         /\ \A n \in 0 .. p : LogSpan(a)[n] = LogSpan(l)[n]
         /\ \/ a = l /\ HoldsAll(l, p + 1, m.entries)
            \/ /\ LastIndex(a) = p + Len(m.entries)
               /\ \A n \in p + 1 .. p + Len(m.entries) : LogSpan(a)[n] = AppendSpan(m)[n]
<1> DEFINE es == m.entries
<1>1. es \in Seq(Nat) /\ Len(es) \in Nat
  BY LenProperties DEF AppendEntries
<1>8. a = AppendReplicated(l, p + 1, es)
  OBVIOUS
<1> HIDE DEF es
<1>2. LastIndex(l) = Len(l.entries) /\ Len(l.entries) \in Nat
  BY LastType
<1>3. /\ a \in FullLog /\ LastIndex(a) >= p
      /\ \A n \in 1 .. p : a.entries[n] = l.entries[n]
      /\ \/ a = l /\ HoldsAll(l, p + 1, es)
         \/ /\ LastIndex(a) = p + Len(es)
            /\ \A n \in 1 .. Len(es) : a.entries[p + n] = es[n]
  BY <1>1, <1>8, AppendReplicatedEntries, SMTT(40)
<1>4. LastIndex(a) \in Nat
  BY <1>3, LastType
<1>5. ASSUME NEW n \in 0 .. p
      PROVE  LogSpan(a)[n] = LogSpan(l)[n]
  <2>1. n \in 0 .. LastIndex(a) /\ n \in 0 .. LastIndex(l) /\ n \in Nat
    BY <1>2, <1>3, <1>4
  <2>2. /\ LogSpan(a)[n] = IF n = 0 THEN 0 ELSE a.entries[n]
        /\ LogSpan(l)[n] = IF n = 0 THEN 0 ELSE l.entries[n]
    BY <1>3, <2>1, LogSpanIs, TermAtIs
  <2>3. n = 0 \/ n \in 1 .. p
    OBVIOUS
  <2>4. QED
    BY <1>3, <2>2, <2>3
<1> DEFINE Same == a = l /\ HoldsAll(l, p + 1, es)
<1>6. ASSUME ~Same, NEW n \in p + 1 .. p + Len(es)
      PROVE  LogSpan(a)[n] = AppendSpan(m)[n]
  <2>6. LastIndex(a) = p + Len(es)
    BY <1>3, <1>6
  <2> HIDE DEF Same
  <2> DEFINE d == n - p
  <2>1. /\ n \in 0 .. LastIndex(a) /\ n \in Nat /\ n # 0
        /\ d \in 1 .. Len(es) /\ p + d = n
    BY <1>1, <2>6
  <2> HIDE DEF d
  <2>2. LogSpan(a)[n] = a.entries[n]
    BY <1>3, <2>1, LogSpanIs, TermAtIs
  <2>3. AppendSpan(m)[p + d] = es[d]
    BY <2>1, AppendSpanIs DEF es
  <2>4. a.entries[p + d] = es[d]
    BY <1>3, <1>6, <2>1 DEF Same
  <2>5. QED
    BY <2>1, <2>2, <2>3, <2>4
<1>7. CASE Same
  BY <1>3, <1>5, <1>7 DEF es, Same
<1>9. CASE ~Same
  <2>1. LastIndex(a) = p + Len(m.entries)
    BY <1>3, <1>9 DEF es, Same
  <2>2. \A n \in p + 1 .. p + Len(m.entries) : LogSpan(a)[n] = AppendSpan(m)[n]
    BY <1>6, <1>9 DEF es
  <2>3. QED
    BY <1>3, <1>5, <2>1, <2>2
<1>10. QED
  BY <1>7, <1>9

\* What agrees with itself.
LEMMA AgreeSelf ==
  ASSUME NEW f
  PROVE  Agree(f, f) /\ Part(f, f)
BY DEF Agree, Part

LEMMA AgreeBothWays ==
  ASSUME NEW f, NEW g, Agree(f, g)
  PROVE  Agree(g, f)
BY DEF Agree

\* Spans that agree still do where less of them is said.
LEMMA AgreeParts ==
  ASSUME NEW f1, NEW f2, NEW g1, NEW g2, Part(g1, f1), Part(g2, f2), Agree(f1, f2)
  PROVE  Agree(g1, g2)
<1> SUFFICES ASSUME NEW n \in DOMAIN g1 \cap DOMAIN g2, g1[n] = g2[n],
                    NEW k \in DOMAIN g1 \cap DOMAIN g2, k <= n
             PROVE  g1[k] = g2[k]
  BY DEF Agree
<1>1. /\ n \in DOMAIN f1 \cap DOMAIN f2 /\ k \in DOMAIN f1 \cap DOMAIN f2
      /\ g1[n] = f1[n] /\ g2[n] = f2[n] /\ g1[k] = f1[k] /\ g2[k] = f2[k]
  BY DEF Part
<1>2. QED
  BY <1>1 DEF Agree

\* A span made longer by a term no other span has there agrees with all it
\* agreed with.
LEMMA LongerAgrees ==
  ASSUME NEW f, NEW g, NEW h, NEW n \in Nat, DOMAIN f = 0 .. n, DOMAIN h = 0 .. n + 1,
         \A k \in 0 .. n : h[k] = f[k],
         Agree(f, g), IsSpan(g), n + 1 \in DOMAIN g => g[n + 1] # h[n + 1]
  PROVE  Agree(h, g)
<1> SUFFICES ASSUME NEW x \in DOMAIN h \cap DOMAIN g, h[x] = g[x],
                    NEW k \in DOMAIN h \cap DOMAIN g, k <= x
             PROVE  h[k] = g[k]
  BY DEF Agree
<1>1. x \in 0 .. n /\ k \in 0 .. n
  <2>1. x # n + 1
    OBVIOUS
  <2>2. QED
    BY <2>1
<1>2. f[x] = g[x] /\ x \in DOMAIN f \cap DOMAIN g /\ k \in DOMAIN f \cap DOMAIN g
  BY <1>1
<1>3. f[k] = g[k]
  BY <1>2 DEF Agree
<1>4. QED
  BY <1>1, <1>3

\* A span that goes on as one does up to where it meets another, and as that
\* one beyond, agrees with all that both agreed with.
LEMMA SplicedAgrees ==
  ASSUME NEW f, NEW b, NEW g, NEW h, NEW p \in Nat, NEW q \in Nat, p <= q,
         DOMAIN h = 0 .. q, 0 .. p \subseteq DOMAIN f, DOMAIN b = p .. q,
         \A n \in 0 .. p : h[n] = f[n], \A n \in p .. q : h[n] = b[n],
         Agree(f, g), Agree(b, g), IsSpan(g)
  PROVE  Agree(h, g)
<1> SUFFICES ASSUME NEW n \in DOMAIN h \cap DOMAIN g, h[n] = g[n],
                    NEW k \in DOMAIN h \cap DOMAIN g, k <= n
             PROVE  h[k] = g[k]
  BY DEF Agree
<1>1. n \in 0 .. q /\ k \in 0 .. q
  OBVIOUS
<1>2. ASSUME NEW x \in 0 .. p, x \in DOMAIN g, h[x] = g[x], NEW y \in 0 .. x, y \in DOMAIN g
      PROVE  h[y] = g[y]
  <2>1. x \in DOMAIN f \cap DOMAIN g /\ y \in 0 .. p /\ y \in DOMAIN f \cap DOMAIN g
    BY <1>2
  <2>2. f[x] = g[x] /\ y <= x
    BY <1>2
  <2>3. f[y] = g[y]
    BY <2>1, <2>2 DEF Agree
  <2>4. QED
    BY <2>1, <2>3
<1>3. ASSUME n > p, NEW y \in p .. n, y \in DOMAIN g
      PROVE  h[y] = g[y]
  <2>1. n \in p .. q /\ y \in p .. q /\ y <= n
    BY <1>1, <1>3
  <2>2. b[n] = g[n]
    BY <2>1
  <2>3. b[y] = g[y]
    BY <1>3, <2>1, <2>2 DEF Agree
  <2>4. QED
    BY <2>1, <2>3
<1>4. CASE n <= p
  BY <1>1, <1>2, <1>4
<1>5. CASE n > p /\ k >= p
  BY <1>1, <1>3, <1>5
<1>6. CASE n > p /\ k < p
  <2>1. p \in DOMAIN g
    <3>1. PICK lo \in Nat, hi \in Nat : DOMAIN g = lo .. hi
      BY DEF IsSpan
    <3>2. QED
      BY <1>1, <1>6, <3>1
  <2>2. h[p] = g[p]
    BY <1>1, <1>3, <1>6, <2>1
  <2>3. QED
    BY <1>1, <1>2, <1>6, <2>1, <2>2
<1>7. QED
  BY <1>1, <1>4, <1>5, <1>6

-----------------------------------------------------------------------------
(* What a step does to the requests in flight *)

\* What is in flight after a step was before, or the step has sent it.
LEMMA SentBy ==
  ASSUME NEW S,
         \A a, b \in Member : Range(req'[a][b]) \cup Range(orphan'[a][b])
                                \subseteq Range(req[a][b]) \cup Range(orphan[a][b]) \cup S
  PROVE  Sent' \subseteq Sent \cup S
BY DEF Sent

LEMMA TailRange ==
  ASSUME NEW S, NEW s \in Seq(S), s # <<>>
  PROVE  Range(Tail(s)) \subseteq Range(s)
<1>1. /\ Tail(s) \in Seq(S) /\ Len(Tail(s)) = Len(s) - 1
      /\ \A k \in 1 .. Len(Tail(s)) : Tail(s)[k] = s[k + 1]
  BY HeadTailProperties
<1>2. /\ Len(s) \in Nat /\ DOMAIN s = 1 .. Len(s)
      /\ DOMAIN Tail(s) = 1 .. Len(Tail(s)) /\ Len(Tail(s)) \in Nat
  BY <1>1, LenProperties
<1>3. ASSUME NEW k \in DOMAIN Tail(s)
      PROVE  k + 1 \in DOMAIN s /\ Tail(s)[k] = s[k + 1]
  BY <1>1, <1>2
<1>4. QED
  BY <1>3 DEF Range

LEMMA EmptyRange == Range(<<>>) = {}
BY EmptySeq DEF Range

\* Both kinds of requests in flight are sequences of requests.
LEMMA InFlight ==
  ASSUME NetworkOK, NEW a \in Member, NEW b \in Member
  PROVE  /\ req[a][b] \in Seq(Request) /\ orphan[a][b] \in Seq(Request)
         /\ Range(req[a][b]) \subseteq Request /\ Range(orphan[a][b]) \subseteq Request
<1>1. req[a][b] \in Seq(Request) /\ orphan[a][b] \in Seq(Request)
  BY DEF NetworkOK
<1>2. QED
  BY <1>1, RangeOfSeq

\* The request a handler is given was sent.
LEMMA HeadSent ==
  ASSUME NetworkOK, NEW i \in Member, NEW j \in Member, NEW src,
         Inbound(i, j, src) # <<>>, NEW m \in Request, m = Head(Inbound(i, j, src))
  PROVE  m \in Sent
<1> DEFINE s == Inbound(i, j, src)
<1>1. req[j][i] \in Seq(Request) /\ orphan[j][i] \in Seq(Request)
  BY InFlight
<1>2. s \in Seq(Request)
  BY <1>1 DEF Inbound
<1>3. Range(s) \subseteq Range(req[j][i]) \cup Range(orphan[j][i])
  BY DEF Inbound
<1>4. s # <<>> /\ m = Head(s)
  OBVIOUS
<1> HIDE DEF s
<1>5. m = s[1] /\ 1 \in DOMAIN s
  <2>1. Len(s) \in Nat /\ DOMAIN s = 1 .. Len(s) /\ Len(s) # 0
    BY <1>2, <1>4, LenProperties, EmptySeq
  <2>2. QED
    BY <1>2, <1>4, <2>1
<1>6. m \in Range(s)
  BY <1>5 DEF Range
<1>7. QED
  BY <1>3, <1>6 DEF Sent

\* Answering a request sends none.
LEMMA RespondSent ==
  ASSUME NetworkOK, NEW i \in Member, NEW j \in Member, NEW src,
         Inbound(i, j, src) # <<>>, NEW answers, Respond(i, j, src, answers)
  PROVE  Sent' \subseteq Sent
<1>1. req[j][i] \in Seq(Request) /\ orphan[j][i] \in Seq(Request)
  BY InFlight
<1>2. CASE src = "connection"
  <2>1. Range(Tail(req[j][i])) \subseteq Range(req[j][i])
    BY <1>1, <1>2, TailRange DEF Inbound
  <2>2. req' = [req EXCEPT ![j][i] = Tail(req[j][i])] /\ UNCHANGED orphan
    BY <1>2 DEF Respond
  <2>3. \A a, b \in Member : req'[a][b] = req[a][b] \/ (a = j /\ b = i /\ req'[a][b] = Tail(req[j][i]))
    BY <2>2 DEF NetworkOK
  <2>4. QED
    BY <2>1, <2>2, <2>3, SentBy
<1>3. CASE src # "connection"
  <2>1. Range(Tail(orphan[j][i])) \subseteq Range(orphan[j][i])
    BY <1>1, <1>3, TailRange DEF Inbound
  <2>2. orphan' = [orphan EXCEPT ![j][i] = Tail(orphan[j][i])] /\ UNCHANGED req
    BY <1>3 DEF Respond
  <2>3. \A a, b \in Member :
          orphan'[a][b] = orphan[a][b] \/ (a = j /\ b = i /\ orphan'[a][b] = Tail(orphan[j][i]))
    BY <2>2 DEF NetworkOK
  <2>4. QED
    BY <2>1, <2>2, <2>3, SentBy
<1>4. QED
  BY <1>2, <1>3

\* Nor does the end of a connection or of a process.
LEMMA EndSent ==
  ASSUME NetworkOK, NEW i \in Member, NEW j \in Member,
         \/ \E src : EndInbound(i, j, src)
         \/ DropLink(i, j)
         \/ ProcessEnds(i)
         \/ orphan' = [orphan EXCEPT ![i][j] = <<>>] /\ UNCHANGED req
         \/ UNCHANGED <<req, orphan>>
  PROVE  Sent' \subseteq Sent
<1>1. ASSUME NEW a \in Member, NEW b \in Member
      PROVE  /\ req'[a][b] \in {req[a][b], <<>>}
             /\ orphan'[a][b] \in {orphan[a][b], <<>>, orphan[a][b] \o req[a][b]}
  <2>1. CASE \E src : EndInbound(i, j, src)
    <3>1. \/ req' = [req EXCEPT ![j][i] = <<>>] /\ UNCHANGED orphan
          \/ orphan' = [orphan EXCEPT ![j][i] = <<>>] /\ UNCHANGED req
      BY <2>1 DEF EndInbound
    <3>2. CASE req' = [req EXCEPT ![j][i] = <<>>] /\ UNCHANGED orphan
      BY <3>2 DEF NetworkOK
    <3>3. CASE orphan' = [orphan EXCEPT ![j][i] = <<>>] /\ UNCHANGED req
      BY <3>3 DEF NetworkOK
    <3>4. QED
      BY <3>1, <3>2, <3>3
  <2>2. CASE DropLink(i, j)
    BY <2>2 DEF DropLink, NetworkOK
  <2>3. CASE ProcessEnds(i)
    BY <2>3 DEF ProcessEnds, NetworkOK
  <2>4. CASE orphan' = [orphan EXCEPT ![i][j] = <<>>] /\ UNCHANGED req
    BY <2>4 DEF NetworkOK
  <2>5. CASE UNCHANGED <<req, orphan>>
    BY <2>5
  <2>6. QED
    BY <2>1, <2>2, <2>3, <2>4, <2>5
<1>2. ASSUME NEW a \in Member, NEW b \in Member
      PROVE  Range(orphan[a][b] \o req[a][b]) = Range(orphan[a][b]) \cup Range(req[a][b])
  <2>1. req[a][b] \in Seq(Request) /\ orphan[a][b] \in Seq(Request)
    BY InFlight
  <2>2. QED
    BY <2>1, RangeConcatenation
<1>3. Sent' \subseteq Sent \cup {}
  <2>1. ASSUME NEW a \in Member, NEW b \in Member
        PROVE  Range(req'[a][b]) \cup Range(orphan'[a][b])
                 \subseteq Range(req[a][b]) \cup Range(orphan[a][b]) \cup {}
    BY <1>1, <1>2, EmptyRange
  <2>2. QED
    BY <2>1, SentBy
<1>4. QED
  BY <1>3

\* What is sent is in flight.
LEMMA SendSent ==
  ASSUME NetworkOK, NEW i \in Member, NEW out \in [Member -> Seq(Request)], Send(i, out),
         UNCHANGED orphan
  PROVE  Sent' \subseteq Sent \cup UNION {Range(out[j]) : j \in Member}
<1> DEFINE S == UNION {Range(out[j]) : j \in Member}
<1>1. ASSUME NEW a \in Member, NEW b \in Member
      PROVE  req'[a][b] = req[a][b] \/ (a = i /\ req'[a][b] = req[a][b] \o out[b])
  BY DEF Send, NetworkOK
<1>2. ASSUME NEW b \in Member
      PROVE  Range(req[i][b] \o out[b]) = Range(req[i][b]) \cup Range(out[b])
  <2>1. req[i][b] \in Seq(Request) /\ out[b] \in Seq(Request)
    BY InFlight
  <2>2. QED
    BY <2>1, RangeConcatenation
<1>3. \A b \in Member : Range(out[b]) \subseteq S
  OBVIOUS
<1> HIDE DEF S
<1>4. ASSUME NEW a \in Member, NEW b \in Member
      PROVE  Range(req'[a][b]) \cup Range(orphan'[a][b])
               \subseteq Range(req[a][b]) \cup Range(orphan[a][b]) \cup S
  <2>1. CASE req'[a][b] = req[a][b]
    BY <2>1
  <2>2. CASE a = i /\ req'[a][b] = req[a][b] \o out[b]
    <3>1. Range(req'[a][b]) = Range(req[a][b]) \cup Range(out[b])
      BY <1>2, <2>2
    <3>2. QED
      BY <1>3, <3>1
  <2>3. QED
    BY <1>1, <2>1, <2>2
<1>5. Sent' \subseteq Sent \cup S
  BY <1>4, SentBy
<1>6. QED
  BY <1>5 DEF S

\* The appends of a round of replication say what the leader's log says.
LEMMA AppendsAreParts ==
  ASSUME TypeOK, NEW i \in Member, NEW t \in Nat, NEW l \in FullLog, NEW c \in Nat,
         NEW row, RowOK(l, row), NEW J, NEW late,
         NEW j \in Member, NEW m \in Range(Appends(i, t, l, c, row, J, late)[j])
  PROVE  Part(AppendSpan(m), LogSpan(l))
<1> DEFINE a(b) == AppendFor(t, l, c, row[j], b)
<1>1. \A b \in BOOLEAN : Part(AppendSpan(a(b)), LogSpan(l))
  BY AppendForPart DEF RowOK
<1>2. Appends(i, t, l, c, row, J, late)[j] \in {<<a(j \in late)>>, <<>>}
  BY DEF Appends
<1> HIDE DEF a
<1>3. m = a(j \in late)
  <2>1. Range(<<a(j \in late)>>) = {a(j \in late)}
    BY DEF Range
  <2>2. QED
    BY <1>2, <2>1, EmptyRange
<1>4. (j \in late) \in BOOLEAN
  OBVIOUS
<1>5. QED
  BY <1>1, <1>3, <1>4

-----------------------------------------------------------------------------
(* What a step may do to the spans, to who leads, and to what is committed *)

\* Nothing is said after a step that a span of S does not say.
Covered(S) == \A g \in Spans' : \E f \in S : Part(g, f)

\* The members of J that lead after a step led the same term before it, with
\* the same log.
LeadersStay(J) ==
    \A k \in J : role'[k] = "LEADER" =>
        role[k] = "LEADER" /\ term'[k] = term[k] /\ log'[k] = log[k]

\* Nothing new is said.
Idles == Covered(Spans) /\ UNCHANGED elected /\ LeadersStay(Member)

\* Member i takes an append that is anchored in its log.
Takes(i) ==
    \E m \in Appended :
        /\ m.prev_log_index <= LastIndex(log[i])
        /\ m.prev_log_index = 0 \/ TermAt(log[i], m.prev_log_index) = m.prev_log_term
        /\ log'[i] = AppendReplicated(log[i], m.prev_log_index + 1, m.entries)
        /\ Covered(Spans \cup {LogSpan(log'[i])})
        /\ UNCHANGED elected
        /\ LeadersStay(Member)

\* Member i, a leader or one that has just won, appends an entry of its term.
Extends(i) ==
    /\ role'[i] = "LEADER" /\ term'[i] = term[i]
    /\ log'[i] = AppendLocal(log[i], term[i])
    /\ Covered(Spans \cup {LogSpan(log'[i])})
    /\ LeadersStay(Member \ {i})
    /\ \/ role[i] = "LEADER" /\ UNCHANGED elected
       \/ role[i] = "CANDIDATE" /\ elected' = elected \cup {<<term[i], i>>}

SpanMove == Idles \/ \E i \in Member : Takes(i) \/ Extends(i)

\* A candidate was one in the same term, or has just entered the next one and
\* voted for itself.
CandidateMove ==
    \A k \in Member : role'[k] = "CANDIDATE" =>
        \/ role[k] = "CANDIDATE" /\ term'[k] = term[k]
        \/ /\ term'[k] = term[k] + 1
           /\ saveFailures' = 0 => <<term'[k], k, k>> \in cast'

\* What CommittedStays says of one step.
CommitMove ==
    \A i \in Member :
        incarnation'[i] = incarnation[i] =>
            /\ commit_index'[i] >= commit_index[i]
            /\ \A n \in 1 .. commit_index[i] :
                  /\ n <= LastIndex(log'[i])
                  /\ TermAt(log'[i], n) = TermAt(log[i], n)

LogMoves == SpanMove /\ CandidateMove /\ CommitMove

\* The spans of logs and appends after a step are covered one by one.
LEMMA CoverIs ==
  ASSUME NEW S,
         \A k \in Member : \E f \in S : Part(LogSpan(log'[k]), f),
         \A m \in Appended' : \E f \in S : Part(AppendSpan(m), f)
  PROVE  Covered(S)
BY DEF Covered, Spans

\* Every append sent was in flight, or says what some log of S says.
LEMMA AppendedBy ==
  ASSUME NEW S, NEW P, Sent' \subseteq Sent \cup P,
         Spans \subseteq S,
         \A m \in P : m.type = "AppendEntries" => \E f \in S : Part(AppendSpan(m), f)
  PROVE  \A m \in Appended' : \E f \in S : Part(AppendSpan(m), f)
<1> SUFFICES ASSUME NEW m \in Appended'
             PROVE  \E f \in S : Part(AppendSpan(m), f)
  OBVIOUS
<1>1. m \in Sent' /\ m.type = "AppendEntries"
  BY DEF Appended
<1>2. CASE m \in Sent
  <2>1. AppendSpan(m) \in S
    BY <1>1, <1>2 DEF Appended, Spans
  <2>2. QED
    BY <2>1, AgreeSelf
<1>3. CASE m \in P
  BY <1>1, <1>3
<1>4. QED
  BY <1>1, <1>2, <1>3

\* A step that leaves the logs alone, and sends no append but parts of them.
Steady ==
    \A k \in Member :
        \/ role'[k] = role[k] /\ term'[k] = term[k]
        \/ role'[k] \notin {"LEADER", "CANDIDATE"}
        \/ /\ role'[k] = "CANDIDATE" /\ term'[k] = term[k] + 1
           /\ saveFailures' = 0 => <<term'[k], k, k>> \in cast'

LEMMA SteadyMove ==
  ASSUME Inv, UNCHANGED <<log, elected>>,
         \A k \in Member : commit_index'[k] >= commit_index[k], Steady,
         NEW P, Sent' \subseteq Sent \cup P,
         \A m \in P : m.type = "AppendEntries" =>
             \E k \in Member : Part(AppendSpan(m), LogSpan(log[k]))
  PROVE  LogMoves
<1>1. \A k \in Member : LogSpan(log[k]) \in Spans
  BY DEF Spans
<1>2. Covered(Spans)
  <2>1. \A k \in Member : log'[k] = log[k]
    OBVIOUS
  <2>2. \A k \in Member : \E f \in Spans : Part(LogSpan(log'[k]), f)
    BY <1>1, <2>1, AgreeSelf
  <2>3. \A m \in P : m.type = "AppendEntries" => \E f \in Spans : Part(AppendSpan(m), f)
    BY <1>1
  <2>4. \A m \in Appended' : \E f \in Spans : Part(AppendSpan(m), f)
    BY <2>3, AppendedBy
  <2>5. QED
    BY <2>2, <2>4, CoverIs
<1>3. LeadersStay(Member) /\ CandidateMove
  BY DEF LeadersStay, CandidateMove, Steady
<1>4. CommitMove
  <2>1. ASSUME NEW k \in Member, NEW n \in 1 .. commit_index[k]
        PROVE  n <= LastIndex(log[k])
    <3>1. /\ commit_index[k] \in Nat /\ commit_index[k] <= LastIndex(log[k])
          /\ LastIndex(log[k]) \in Nat
      BY MemberFacts
    <3>2. QED
      BY <3>1
  <2>2. QED
    BY <2>1 DEF CommitMove
<1>5. QED
  BY <1>2, <1>3, <1>4 DEF LogMoves, SpanMove, Idles

\* Nothing is sent at all.
LEMMA UnsentMove ==
  ASSUME Inv, UNCHANGED <<log, commit_index, elected>>, Steady, Sent' \subseteq Sent
  PROVE  LogMoves
<1> DEFINE P == {}
<1>1. Sent' \subseteq Sent \cup P
  OBVIOUS
<1>2. \A m \in P : m.type = "AppendEntries" =>
          \E k \in Member : Part(AppendSpan(m), LogSpan(log[k]))
  OBVIOUS
<1>3. \A k \in Member : commit_index'[k] >= commit_index[k]
  <2>1. \A k \in Member : commit_index[k] \in Nat
    BY MemberFacts
  <2>2. QED
    BY <2>1
<1> HIDE DEF P
<1>4. QED
  BY <1>1, <1>2, <1>3, SteadyMove

-----------------------------------------------------------------------------
(* Every step is such a move *)

\* Nothing is sent, and no log changes: the requests that are answered only.
LEMMA AnsweredMove ==
  ASSUME Inv, NEW i \in Member, NEW j \in Member, NEW src \in Source, NEW m \in Request,
         Inbound(i, j, src) # <<>>,
         \/ RefuseUnderLease(i, j, src, m)
         \/ AnswerPreVote(i, j, src, m)
         \/ RejectAppend(i, j, src, m)
         \/ OnPromote(i, j, src, m)
         \/ GrantVote(i, j, src, m)
         \/ GrantSaveFails(i, j, src, m)
         \/ DenyVote(i, j, src, m)
         \/ StepDownSaveFailsOnRequest(i, j, src, m)
         \/ StopOnContradiction(i, j, src, m)
         \/ ConflictingAppend(i, j, src, m)
  PROVE  LogMoves
<1>1. NetworkOK /\ ElectionOK /\ term[i] \in Nat /\ m.term \in Nat
  BY MemberFacts, RequestFields DEF Inv
<1>2. Sent' \subseteq Sent
  <2>1. \/ \E answers : Respond(i, j, src, answers)
        \/ EndInbound(i, j, src)
        \/ ProcessEnds(i)
    BY DEF RefuseUnderLease, AnswerPreVote, RejectAppend, OnPromote, GrantVote,
           GrantSaveFails, DenyVote, StepDownSaveFailsOnRequest, StopOnContradiction,
           ConflictingAppend, Fail
  <2>2. QED
    BY <1>1, <2>1, RespondSent, EndSent
<1>3. UNCHANGED <<log, commit_index, elected>>
  BY DEF RefuseUnderLease, AnswerPreVote, RejectAppend, OnPromote, GrantVote,
         GrantSaveFails, DenyVote, StepDownSaveFailsOnRequest, StopOnContradiction,
         ConflictingAppend, SaveFails, replication, history
<1>4. \/ UNCHANGED <<role, term>>
      \/ /\ role' = [role EXCEPT ![i] = "FOLLOWER"]
         /\ \A k \in Member \ {i} : term'[k] = term[k]
  <2>1. CASE \/ RefuseUnderLease(i, j, src, m) \/ AnswerPreVote(i, j, src, m)
             \/ RejectAppend(i, j, src, m) \/ OnPromote(i, j, src, m)
    BY <2>1 DEF RefuseUnderLease, AnswerPreVote, RejectAppend, OnPromote, election
  <2>2. CASE GrantVote(i, j, src, m) \/ GrantSaveFails(i, j, src, m)
    <3>1. /\ m.term >= term[i] /\ term' = [term EXCEPT ![i] = m.term]
          /\ IF m.term > term[i] THEN role' = [role EXCEPT ![i] = "FOLLOWER"]
                                 ELSE UNCHANGED role
      BY <2>2 DEF GrantVote, GrantSaveFails, Grants
    <3>2. CASE m.term > term[i]
      BY <1>1, <3>1, <3>2 DEF ElectionOK
    <3>3. CASE ~(m.term > term[i])
      <4>1. m.term = term[i]
        BY <1>1, <3>1, <3>3
      <4>2. UNCHANGED term
        BY <1>1, <3>1, <4>1 DEF ElectionOK
      <4>3. QED
        BY <3>1, <3>3, <4>2
    <3>4. QED
      BY <3>2, <3>3
  <2>3. CASE DenyVote(i, j, src, m) \/ StepDownSaveFailsOnRequest(i, j, src, m)
    BY <1>1, <2>3 DEF DenyVote, StepDownSaveFailsOnRequest, StepDown, Adopt, ElectionOK
  <2>4. CASE StopOnContradiction(i, j, src, m) \/ ConflictingAppend(i, j, src, m)
    BY <1>1, <2>4 DEF StopOnContradiction, ConflictingAppend, Follow, ElectionOK
  <2>5. QED
    BY <2>1, <2>2, <2>3, <2>4
<1>5. Steady
  BY <1>1, <1>4 DEF Steady, ElectionOK
<1>6. QED
  BY <1>2, <1>3, <1>5, UnsentMove

\* The same of the answers that are only read.
LEMMA ReadMove ==
  ASSUME Inv, NEW i \in Member, NEW j \in Member, rep[i][j] # <<>>, NEW m \in Answer,
         \/ OnStaleAnswer(i, j, m)
         \/ OnPreVoteRefused(i, j, m)
         \/ OnLaterTerm(i, j, m)
         \/ StepDownSaveFailsOnAnswer(i, j, m)
         \/ CampaignSaveFails(i, j, m)
  PROVE  LogMoves
<1>1. NetworkOK /\ ElectionOK /\ LedgerOK
  BY DEF Inv
<1>2. Sent' \subseteq Sent
  <2>1. UNCHANGED <<req, orphan>> \/ DropLink(i, j)
    BY DEF OnStaleAnswer, OnPreVoteRefused, OnLaterTerm, StepDownSaveFailsOnAnswer,
           CampaignSaveFails, TakeAnswer, Disconnect
  <2>2. QED
    BY <1>1, <2>1, EndSent
<1>3. UNCHANGED <<log, commit_index, elected>>
  BY DEF OnStaleAnswer, OnPreVoteRefused, OnLaterTerm, StepDownSaveFailsOnAnswer,
         CampaignSaveFails, SaveFails, replication, history
<1>4. Steady
  <2>1. CASE \/ OnStaleAnswer(i, j, m) \/ OnPreVoteRefused(i, j, m)
             \/ OnLaterTerm(i, j, m) \/ StepDownSaveFailsOnAnswer(i, j, m)
    <3>1. \/ UNCHANGED <<role, term>>
          \/ /\ role' = [role EXCEPT ![i] = "FOLLOWER"]
             /\ \A k \in Member \ {i} : term'[k] = term[k]
      BY <1>1, <2>1 DEF OnStaleAnswer, OnPreVoteRefused, OnLaterTerm,
                        StepDownSaveFailsOnAnswer, StepDown, Adopt, election, ElectionOK
    <3>2. QED
      BY <1>1, <3>1 DEF Steady, ElectionOK
  <2>2. CASE CampaignSaveFails(i, j, m)
    <3>1. /\ role' = [role EXCEPT ![i] = "CANDIDATE"]
          /\ term' = [term EXCEPT ![i] = term[i] + 1]
          /\ saveFailures' = saveFailures + 1
      BY <2>2 DEF CampaignSaveFails, Candidacy, SaveFails
    <3>2. saveFailures' # 0
      BY <1>1, <3>1 DEF LedgerOK
    <3>3. QED
      BY <1>1, <3>1, <3>2 DEF Steady, ElectionOK
  <2>3. QED
    BY <2>1, <2>2
<1>5. QED
  BY <1>2, <1>3, <1>4, UnsentMove

\* And of timers and connections, as long as nothing is sent.
LEMMA SilentMove ==
  ASSUME Inv, NEW i \in Member, NEW j \in Member,
         \/ Relinquish(i) \/ PeerGone(i, j) \/ PeerLost(i, j) \/ OrphanEnds(i, j)
         \/ PeerUp(i, j) /\ role[i] # "LEADER"
         \/ UNCHANGED vars
  PROVE  LogMoves
<1>1. NetworkOK /\ ElectionOK
  BY DEF Inv
<1>2. Sent' \subseteq Sent
  <2>1. \/ UNCHANGED <<req, orphan>>
        \/ DropLink(i, j)
        \/ orphan' = [orphan EXCEPT ![i][j] = <<>>] /\ UNCHANGED req
    BY DEF Relinquish, PeerGone, PeerLost, OrphanEnds, PeerUp, Disconnect, network, vars
  <2>2. QED
    BY <1>1, <2>1, EndSent
<1>3. UNCHANGED <<log, commit_index, elected>>
  BY DEF Relinquish, PeerGone, PeerLost, OrphanEnds, PeerUp, replication, history, vars
<1>4. UNCHANGED term /\ (UNCHANGED role \/ role' = [role EXCEPT ![i] = "FOLLOWER"])
  BY DEF Relinquish, PeerGone, PeerLost, OrphanEnds, PeerUp, election, vars
<1>5. Steady
  BY <1>1, <1>4 DEF Steady, ElectionOK
<1>6. QED
  BY <1>2, <1>3, <1>5, UnsentMove

\* A round of votes is asked for: no append is sent.
LEMMA AskMove ==
  ASSUME Inv, NEW i \in Member, NEW j \in Member, NEW m \in Answer,
         PreCampaign(i) \/ OnPreVoteGranted(i, j, m)
  PROVE  LogMoves
<1>1. NetworkOK /\ ElectionOK /\ term[i] \in Nat /\ Uncompacted
  BY MemberFacts DEF Inv
<1>2. UNCHANGED <<log, commit_index, elected, orphan>>
  BY DEF PreCampaign, OnPreVoteGranted, TakeAnswer, replication, history
<1>3. Steady
  <2>1. \/ UNCHANGED <<role, term>>
        \/ role' = [role EXCEPT ![i] = "PRE_CANDIDATE"] /\ UNCHANGED term
        \/ /\ role' = [role EXCEPT ![i] = "CANDIDATE"]
           /\ term' = [term EXCEPT ![i] = term[i] + 1]
           /\ cast' = cast \cup {<<term[i] + 1, i, i>>}
    BY DEF PreCampaign, OnPreVoteGranted, Campaign, Candidacy
  <2>2. QED
    BY <1>1, <2>1 DEF Steady, ElectionOK
<1>4. CASE UNCHANGED req
  BY <1>1, <1>2, <1>3, <1>4, EndSent, UnsentMove
<1>5. CASE ~UNCHANGED req
  <2>1. PICK pre \in BOOLEAN : Send(i, ToAll(i, VoteRequest(i, term[i] + 1, pre)))
    BY <1>5 DEF PreCampaign, OnPreVoteGranted, Campaign
  <2> DEFINE v == VoteRequest(i, term[i] + 1, pre)
             out == ToAll(i, v)
             P == UNION {Range(out[k]) : k \in Member}
  <2>2. v \in Request /\ v.type = "RequestVote"
    BY <1>1, VoteRequestType DEF VoteRequest
  <2> HIDE DEF v
  <2>3. out \in [Member -> Seq(Request)]
    BY <2>2, ToAllType
  <2>4. \A k \in Member : Range(out[k]) \subseteq {v}
    <3>1. \A k \in Member : out[k] \in {<<>>, <<v>>}
      BY DEF ToAll
    <3>2. Range(<<v>>) = {v}
      BY DEF Range
    <3> HIDE DEF out
    <3>3. QED
      BY <3>1, <3>2, EmptyRange
  <2>5. Send(i, out)
    BY <2>1 DEF v
  <2> HIDE DEF out
  <2>6. Sent' \subseteq Sent \cup P
    BY <1>1, <1>2, <2>3, <2>5, SendSent
  <2>7. \A r \in P : r.type = "AppendEntries" =>
            \E k \in Member : Part(AppendSpan(r), LogSpan(log[k]))
    BY <2>2, <2>4
  <2>8. \A k \in Member : commit_index'[k] >= commit_index[k]
    <3>1. \A k \in Member : commit_index[k] \in Nat
      BY MemberFacts
    <3>2. QED
      BY <1>2, <3>1
  <2> HIDE DEF P
  <2>9. QED
    BY <1>2, <1>3, <2>6, <2>7, <2>8, SteadyMove
<1>6. QED
  BY <1>4, <1>5

\* A round of replication sends parts of the leader's log.
LEMMA ReplicateSends ==
  ASSUME Inv, NEW i \in Member, NEW l \in FullLog, NEW c \in Nat,
         NEW row, RowOK(l, row), NEW J, NEW late,
         Send(i, Appends(i, term[i], l, c, row, J, late)), UNCHANGED orphan
  PROVE  \E P : /\ Sent' \subseteq Sent \cup P
                /\ \A m \in P : Part(AppendSpan(m), LogSpan(l))
<1> DEFINE out == Appends(i, term[i], l, c, row, J, late)
           P == UNION {Range(out[k]) : k \in Member}
<1>1. NetworkOK /\ TypeOK /\ term[i] \in Nat
  BY MemberFacts DEF Inv
<1>2. out \in [Member -> Seq(Request)]
  BY <1>1, ReplicateType
<1>3. \A k \in Member : \A m \in Range(out[k]) : Part(AppendSpan(m), LogSpan(l))
  BY <1>1, AppendsAreParts
<1> HIDE DEF out
<1>4. Send(i, out)
  BY DEF out
<1>5. Sent' \subseteq Sent \cup P
  BY <1>1, <1>2, <1>4, SendSent
<1>6. \A m \in P : Part(AppendSpan(m), LogSpan(l))
  BY <1>3
<1> HIDE DEF P
<1>7. QED
  BY <1>5, <1>6

\* A leader sends parts of its log, which stays.
LEMMA SendsMove ==
  ASSUME Inv, NEW i \in Member, UNCHANGED <<log, elected, role, term>>,
         \A k \in Member : commit_index'[k] >= commit_index[k],
         NEW P, Sent' \subseteq Sent \cup P,
         \A m \in P : m.type = "AppendEntries" => Part(AppendSpan(m), LogSpan(log[i]))
  PROVE  LogMoves
<1>1. Steady
  BY DEF Steady
<1>2. QED
  BY <1>1, SteadyMove

\* _tick of a leader.
LEMMA TickMove ==
  ASSUME Inv, NEW i \in Member, LeaderTick(i)
  PROVE  LogMoves
<1>1. /\ log[i] \in FullLog /\ \A k \in Member : commit_index[k] \in Nat
      /\ RowOK(log[i], peers[i])
  BY MemberFacts, LeaderRow DEF Inv, LeaderTick
<1>2. UNCHANGED <<log, elected, role, term, commit_index, orphan>>
  BY DEF LeaderTick, election, history
<1>3. PICK late :
        Send(i, Appends(i, term[i], log[i], commit_index[i], peers[i], Targets(i), late))
  BY DEF LeaderTick
<1>4. PICK P : /\ Sent' \subseteq Sent \cup P
               /\ \A m \in P : Part(AppendSpan(m), LogSpan(log[i]))
  BY <1>1, <1>2, <1>3, ReplicateSends
<1>5. \A k \in Member : commit_index'[k] >= commit_index[k]
  BY <1>1, <1>2
<1>6. QED
  BY <1>2, <1>4, <1>5, SendsMove

\* on_append_entries_reply, refused: the append is sent again from further back.
LEMMA RefusedMove ==
  ASSUME Inv, NEW i \in Member, NEW j \in Member, rep[i][j] # <<>>, NEW m \in Answer,
         OnAppendRefused(i, j, m)
  PROVE  LogMoves
<1>1. m \in AppendEntriesReply /\ role[i] = "LEADER"
  BY AppendAnswerFacts DEF OnAppendRefused
<1>2. /\ log[i] \in FullLog /\ \A k \in Member : commit_index[k] \in Nat
      /\ NetworkOK
  BY MemberFacts DEF Inv
<1>3. UNCHANGED <<log, elected, role, term, commit_index, orphan>>
  BY DEF OnAppendRefused, TakeAnswer, election, history
<1>4. \A k \in Member : commit_index'[k] >= commit_index[k]
  BY <1>2, <1>3
<1>5. CASE UNCHANGED req
  <2>1. Sent' \subseteq Sent
    BY <1>2, <1>3, <1>5, EndSent
  <2>2. Steady
    BY <1>3 DEF Steady
  <2>3. QED
    BY <1>3, <2>1, <2>2, UnsentMove
<1>6. CASE ~UNCHANGED req
  <2> DEFINE s == Heard(i, j, m)
             resume == Greatest(1, m.conflict_index)
             row == [peers[i] EXCEPT ![j] =
                        [s EXCEPT !.next_index = resume,
                                  !.sent_commit = Least(s.sent_commit, resume - 1)]]
  <2>1. /\ m.conflict_index > s.match_index /\ resume < s.next_index
        /\ \E late : Send(i, Appends(i, term[i], log[i], commit_index[i], row, {j}, late))
    BY <1>6 DEF OnAppendRefused
  <2>2. RowOK(log[i], row)
    BY <1>1, <2>1, MovedRow
  <2> HIDE DEF row
  <2>3. PICK P : /\ Sent' \subseteq Sent \cup P
                 /\ \A r \in P : Part(AppendSpan(r), LogSpan(log[i]))
    BY <1>2, <1>3, <2>1, <2>2, ReplicateSends
  <2>4. QED
    BY <1>3, <1>4, <2>3, SendsMove
<1>7. QED
  BY <1>5, <1>6

\* on_append_entries_reply, a success: a promotion may go before the appends.
LEMMA AcceptedMove ==
  ASSUME Inv, NEW i \in Member, NEW j \in Member, rep[i][j] # <<>>, NEW m \in Answer,
         OnAppendAccepted(i, j, m)
  PROVE  LogMoves
<1> DEFINE s == Acknowledged(i, j, m)
           row == [peers[i] EXCEPT ![j] = s]
           news == \/ s.match_index > peers[i][j].match_index
                   \/ m.request = "carrying" /\ peers[i][j].pending = 1
           c == IF news THEN CommitAfter(i, row) ELSE commit_index[i]
           J == IF c > commit_index[i] THEN Targets(i)
                ELSE IF news /\ ShouldSendNow(i, s) THEN {j}
                ELSE {}
           promote == IF Promoted(i, j, m)
                      THEN <<[type |-> "Promote", term |-> term[i]]>> ELSE <<>>
<1>1. m \in AppendEntriesReply /\ role[i] = "LEADER"
  BY AppendAnswerFacts DEF OnAppendAccepted
<1>2. /\ TypeOK /\ term[i] \in Nat /\ log[i] \in FullLog
      /\ \A k \in Member : commit_index[k] \in Nat
      /\ NetworkOK /\ RowOK(log[i], peers[i]) /\ commit_index \in [Member -> Nat]
  BY <1>1, MemberFacts, LeaderRow DEF Inv, ReplicationOK
<1>3. RowOK(log[i], row)
  <2>1. /\ s \in PeerState /\ s.match_index < s.next_index
        /\ s.next_index <= LastIndex(log[i]) + 1
    BY <1>1, AcknowledgedType
  <2> HIDE DEF s
  <2>2. QED
    BY <1>2, <2>1, RowWith
<1>4. /\ UNCHANGED <<log, elected, role, term, orphan>>
      /\ commit_index' = [commit_index EXCEPT ![i] = c]
      /\ \E late : Send(i, [Appends(i, term[i], log[i], c, row, J, late)
                               EXCEPT ![j] = promote \o @])
  BY DEF OnAppendAccepted, TakeAnswer, election
<1>5. c \in Nat /\ c >= commit_index[i]
  <2> HIDE DEF news, row
  <2>1. CommitAfter(i, row) \in Nat
    BY <1>3, CommitAfterType
  <2>2. CommitAfter(i, row) >= commit_index[i]
    <3> HIDE DEF c
    <3>1. commit_index[i] \in Nat
      BY <1>2
    <3>2. CommitAfter(i, row) = commit_index[i] \/ CommitAfter(i, row) > commit_index[i]
      BY DEF CommitAfter
    <3>3. QED
      BY <2>1, <3>1, <3>2
  <2>3. QED
    BY <1>2, <2>1, <2>2
<1>6. promote \in Seq(Request) /\ \A r \in Range(promote) : r.type = "Promote"
  <2> DEFINE p == [type |-> "Promote", term |-> term[i]]
  <2>1. p \in Request /\ p.type = "Promote"
    BY <1>2 DEF Request, Promote
  <2> HIDE DEF p
  <2>2. <<p>> \in Seq(Request) /\ <<>> \in Seq(Request) /\ Range(<<p>>) = {p}
    BY <2>1 DEF Range
  <2>3. promote \in {<<p>>, <<>>}
    BY DEF p
  <2>4. QED
    BY <2>1, <2>2, <2>3, EmptyRange
<1> HIDE DEF s, row, news, c, J, promote
<1>7. PICK late : Send(i, [Appends(i, term[i], log[i], c, row, J, late)
                             EXCEPT ![j] = promote \o @])
  BY <1>4
<1> DEFINE out == Appends(i, term[i], log[i], c, row, J, late)
           all == [out EXCEPT ![j] = promote \o @]
           P == UNION {Range(all[k]) : k \in Member}
<1>8. /\ out \in [Member -> Seq(Request)]
      /\ \A k \in Member : \A r \in Range(out[k]) : Part(AppendSpan(r), LogSpan(log[i]))
  BY <1>2, <1>3, <1>5, ReplicateType, AppendsAreParts
<1>9. Send(i, all)
  BY <1>7
<1> HIDE DEF out
<1>10. out[j] \in Seq(Request)
  BY <1>8
<1>11. /\ promote \o out[j] \in Seq(Request)
       /\ Range(promote \o out[j]) = Range(promote) \cup Range(out[j])
  BY <1>6, <1>10, ConcatProperties, RangeConcatenation
<1>12. all \in [Member -> Seq(Request)]
  BY <1>8, <1>11
<1>13. \A k \in Member : \A r \in Range(all[k]) :
          r \in Range(promote) \/ r \in Range(out[k])
  <2>1. \A k \in Member : all[k] = IF k = j THEN promote \o out[j] ELSE out[k]
    BY <1>8
  <2> HIDE DEF all
  <2>2. QED
    BY <1>11, <2>1
<1> HIDE DEF all
<1>14. Sent' \subseteq Sent \cup P
  BY <1>2, <1>4, <1>9, <1>12, SendSent
<1>15. \A r \in P : r.type = "AppendEntries" => Part(AppendSpan(r), LogSpan(log[i]))
  <2>1. TAKE r \in P
  <2>2. r.type = "Promote" \/ Part(AppendSpan(r), LogSpan(log[i]))
    BY <1>6, <1>8, <1>13
  <2>3. QED
    BY <2>2
<1> HIDE DEF P
<1>16. \A k \in Member : commit_index'[k] >= commit_index[k]
  <2>1. TAKE k \in Member
  <2>2. commit_index'[k] = IF k = i THEN c ELSE commit_index[k]
    BY <1>2, <1>4
  <2>3. QED
    BY <1>2, <1>5, <2>2
<1>17. QED
  BY <1>4, <1>14, <1>15, <1>16, SendsMove

\* A peer that has just come up is probed with a part of the leader's log.
LEMMA ProbeMove ==
  ASSUME Inv, NEW i \in Member, NEW j \in Member, PeerUp(i, j), role[i] = "LEADER"
  PROVE  LogMoves
<1> DEFINE a == AppendFor(term[i], log[i], commit_index[i], Reconnected(i, j), FALSE)
           P == {a}
<1>1. /\ term[i] \in Nat /\ log[i] \in FullLog /\ NetworkOK
      /\ \A k \in Member : commit_index[k] \in Nat
  BY MemberFacts DEF Inv
<1>2. /\ UNCHANGED <<log, elected, role, term, commit_index, orphan>>
      /\ req' = [req EXCEPT ![i][j] = <<a>>]
  BY DEF PeerUp, election, history
<1>3. Part(AppendSpan(a), LogSpan(log[i]))
  <2>1. \A b \in BOOLEAN :
          Part(AppendSpan(AppendFor(term[i], log[i], commit_index[i], Reconnected(i, j), b)),
               LogSpan(log[i]))
    BY <1>1, ReconnectedType, AppendForPart
  <2>2. QED
    BY <2>1
<1> HIDE DEF a
<1>4. Sent' \subseteq Sent \cup P
  <2>1. Range(<<a>>) = {a}
    BY DEF Range
  <2>2. \A x, y \in Member : req'[x][y] \in {req[x][y], <<a>>}
    BY <1>1, <1>2 DEF NetworkOK
  <2>3. ASSUME NEW x \in Member, NEW y \in Member
        PROVE  Range(req'[x][y]) \cup Range(orphan'[x][y])
                 \subseteq Range(req[x][y]) \cup Range(orphan[x][y]) \cup P
    BY <1>2, <2>1, <2>2
  <2>4. QED
    BY <2>3, SentBy
<1>5. \A m \in P : m.type = "AppendEntries" => Part(AppendSpan(m), LogSpan(log[i]))
  BY <1>3
<1> HIDE DEF P
<1>6. \A k \in Member : commit_index'[k] >= commit_index[k]
  BY <1>1, <1>2
<1>7. QED
  BY <1>2, <1>4, <1>5, <1>6, SendsMove

\* A leader, or a candidate that becomes one, appends and replicates.
LEMMA ExtendMove ==
  ASSUME Inv, NEW i \in Member, NEW l, l = AppendLocal(log[i], term[i]),
         log' = [log EXCEPT ![i] = l], role' = [role EXCEPT ![i] = "LEADER"],
         UNCHANGED <<term, commit_index, orphan>>,
         NEW row, RowOK(l, row), NEW J, NEW late,
         Send(i, Appends(i, term[i], l, commit_index[i], row, J, late)),
         \/ role[i] = "LEADER" /\ UNCHANGED elected
         \/ role[i] = "CANDIDATE" /\ elected' = elected \cup {<<term[i], i>>}
  PROVE  LogMoves
<1> DEFINE S == Spans \cup {LogSpan(l)}
<1>1. /\ term[i] \in Nat /\ log[i] \in FullLog /\ ElectionOK /\ ReplicationOK
      /\ \A k \in Member : /\ commit_index[k] \in Nat /\ LastIndex(log[k]) \in Nat
                            /\ commit_index[k] <= LastIndex(log[k])
  BY MemberFacts DEF Inv
<1>2. l \in FullLog
  BY <1>1, AppendLocalType
<1>3. /\ log'[i] = l /\ role'[i] = "LEADER"
      /\ \A k \in Member \ {i} : log'[k] = log[k] /\ role'[k] = role[k]
  BY <1>1 DEF ElectionOK, ReplicationOK
<1>4. PICK P : /\ Sent' \subseteq Sent \cup P
               /\ \A m \in P : Part(AppendSpan(m), LogSpan(l))
  BY <1>1, <1>2, ReplicateSends
<1>5. Covered(S)
  <2>1. \A k \in Member : \E f \in S : Part(LogSpan(log'[k]), f)
    <3>1. TAKE k \in Member
    <3>2. LogSpan(log[k]) \in S /\ LogSpan(l) \in S
      BY DEF Spans
    <3>3. QED
      BY <1>3, <3>2, AgreeSelf
  <2>2. Spans \subseteq S /\ LogSpan(l) \in S
    OBVIOUS
  <2> HIDE DEF S
  <2>3. \A m \in P : m.type = "AppendEntries" => \E f \in S : Part(AppendSpan(m), f)
    BY <1>4, <2>2
  <2>4. \A m \in Appended' : \E f \in S : Part(AppendSpan(m), f)
    BY <1>4, <2>2, <2>3, AppendedBy
  <2>5. QED
    BY <2>1, <2>4, CoverIs
<1>6. Extends(i)
  <2>1. LeadersStay(Member \ {i})
    BY <1>3 DEF LeadersStay
  <2>2. QED
    BY <1>3, <1>5, <2>1 DEF Extends
<1>7. CandidateMove
  BY <1>3 DEF CandidateMove
<1>8. CommitMove
  <2>1. ASSUME NEW k \in Member, NEW n \in 1 .. commit_index[k]
        PROVE  /\ n <= LastIndex(log'[k])
               /\ TermAt(log'[k], n) = TermAt(log[k], n)
    <3>1. n \in 0 .. LastIndex(log[k]) /\ n <= LastIndex(log[k])
      BY <1>1
    <3>2. CASE k # i
      BY <1>3, <3>1, <3>2
    <3>3. CASE k = i
      <4>1. LastIndex(l) = LastIndex(log[i]) + 1
        BY <1>1, AppendLocalType
      <4>2. n <= LastIndex(l) /\ n \in 0 .. LastIndex(l)
        BY <1>1, <3>1, <3>3, <4>1
      <4>3. LogSpan(l)[n] = LogSpan(log[i])[n]
        BY <1>1, <3>1, <3>3, AppendLocalSpan
      <4>4. LogSpan(l)[n] = TermAt(l, n) /\ LogSpan(log[i])[n] = TermAt(log[i], n)
        BY <1>1, <1>2, <3>1, <3>3, <4>2, LogSpanIs
      <4>5. QED
        BY <1>3, <3>3, <4>2, <4>3, <4>4
    <3>4. QED
      BY <3>2, <3>3
  <2>2. QED
    BY <1>1, <2>1 DEF CommitMove
<1>9. QED
  BY <1>6, <1>7, <1>8 DEF LogMoves, SpanMove

\* _drain and on_propose.
LEMMA ProposeMove ==
  ASSUME Inv, NEW i \in Member, Propose(i)
  PROVE  LogMoves
<1> DEFINE l == AppendLocal(log[i], term[i])
<1>1. /\ role[i] = "LEADER" /\ log' = [log EXCEPT ![i] = l]
      /\ UNCHANGED <<role, term, elected, commit_index, orphan>>
      /\ \E late : Send(i, Appends(i, term[i], l, commit_index[i], peers[i], Targets(i), late))
  BY DEF Propose, election, history
<1>2. /\ term[i] \in Nat /\ log[i] \in FullLog /\ LastIndex(log[i]) \in Nat
      /\ RowOK(log[i], peers[i])
  BY <1>1, MemberFacts, LeaderRow DEF Inv
<1>3. LastIndex(l) = LastIndex(log[i]) + 1
  BY <1>2, AppendLocalType
<1>4. role' = [role EXCEPT ![i] = "LEADER"]
  BY <1>1 DEF Inv, ElectionOK
<1> DEFINE a == l
<1>5. a = AppendLocal(log[i], term[i]) /\ LastIndex(a) = LastIndex(log[i]) + 1
  BY <1>3
<1>6. /\ log' = [log EXCEPT ![i] = a]
      /\ \E late : Send(i, Appends(i, term[i], a, commit_index[i], peers[i], Targets(i), late))
  BY <1>1
<1> HIDE DEF a
<1>7. RowOK(a, peers[i])
  <2>1. ASSUME NEW j \in Member
        PROVE  peers[i][j].next_index <= LastIndex(a) + 1
    <3>1. peers[i][j].next_index \in Nat /\ peers[i][j].next_index <= LastIndex(log[i]) + 1
      BY <1>2 DEF RowOK, PeerState
    <3>2. QED
      BY <1>2, <1>5, <3>1
  <2>2. QED
    BY <1>2, <2>1 DEF RowOK
<1>8. QED
  BY <1>1, <1>4, <1>5, <1>6, <1>7, ExtendMove

\* on_request_vote_reply: counted only, or the round is won (_become_leader).
LEMMA CountedMove ==
  ASSUME Inv, NEW i \in Member, NEW j \in Member, rep[i][j] # <<>>, NEW m \in Answer,
         OnRequestVoteReply(i, j, m)
  PROVE  LogMoves
<1>1. /\ NetworkOK /\ ElectionOK /\ log[i] \in FullLog /\ term[i] \in Nat
      /\ UNCHANGED <<term, commit_index, orphan>>
      /\ role[i] = "CANDIDATE"
  <2>1. ~IsStale(i, m) /\ m.type = "RequestVoteReply" /\ ~m.pre_vote
    BY DEF OnRequestVoteReply
  <2>2. QED
    BY <2>1, MemberFacts DEF OnRequestVoteReply, TakeAnswer, IsStale, Inv
<1>2. CASE UNCHANGED <<role, log, req, elected>>
  <2>1. Sent' \subseteq Sent
    BY <1>1, <1>2, EndSent
  <2>2. Steady
    BY <1>1, <1>2 DEF Steady
  <2>3. QED
    BY <1>1, <1>2, <2>1, <2>2, UnsentMove
<1>3. CASE BecomeLeader(i)
  <2> DEFINE l == AppendLocal(log[i], term[i])
             row == [k \in Member |->
                        [FreshPeer EXCEPT !.next_index = LastIndex(log[i]) + 1]]
  <2>1. /\ role' = [role EXCEPT ![i] = "LEADER"]
        /\ log' = [log EXCEPT ![i] = l]
        /\ Send(i, Appends(i, term[i], l, commit_index[i], row, Targets(i), {}))
        /\ elected' = elected \cup {<<term[i], i>>}
    BY <1>3 DEF BecomeLeader
  <2>2. l \in FullLog /\ LastIndex(l) = LastIndex(log[i]) + 1
    BY <1>1, AppendLocalType
  <2> DEFINE a == l
  <2>3. /\ a = AppendLocal(log[i], term[i]) /\ log' = [log EXCEPT ![i] = a]
        /\ Send(i, Appends(i, term[i], a, commit_index[i], row, Targets(i), {}))
        /\ a \in FullLog /\ LastIndex(a) = LastIndex(log[i]) + 1
    BY <2>1, <2>2
  <2> HIDE DEF a
  <2>4. RowOK(a, row)
    BY <1>1, <2>3, FreshRow
  <2> HIDE DEF row
  <2>5. QED
    BY <1>1, <2>1, <2>3, <2>4, ExtendMove
<1>4. QED
  BY <1>2, <1>3 DEF OnRequestVoteReply

\* on_append_entries, accepted: what is committed lies below the anchor.
LEMMA TakeAppendMove ==
  ASSUME Inv, NEW i \in Member, NEW j \in Member, NEW src \in Source, NEW m \in Request,
         Inbound(i, j, src) # <<>>, m = Head(Inbound(i, j, src)),
         AcceptAppend(i, j, src, m)
  PROVE  LogMoves
<1> DEFINE p == m.prev_log_index
           a == AppendReplicated(log[i], p + 1, m.entries)
           after == Accepted(i, m)
<1>1. /\ ElectionOK /\ ReplicationOK /\ NetworkOK /\ log[i] \in FullLog
      /\ \A k \in Member : /\ commit_index[k] \in Nat /\ LastIndex(log[k]) \in Nat
                            /\ commit_index[k] <= LastIndex(log[k])
  BY MemberFacts DEF Inv
<1>2. m \in AppendEntries /\ m.type = "AppendEntries"
  BY RequestFields DEF AcceptAppend
<1>3. /\ log' = [log EXCEPT ![i] = after.log]
      /\ commit_index' = [commit_index EXCEPT ![i] = after.commit]
      /\ role' = [role EXCEPT ![i] = "FOLLOWER"]
      /\ \A k \in Member \ {i} : term'[k] = term[k]
      /\ \E answers : Respond(i, j, src, answers)
      /\ UNCHANGED elected
      /\ p < commit_index[i] \/ Matches(log[i], p, m.prev_log_term)
  BY <1>1 DEF AcceptAppend, Follow, history, ElectionOK
<1>4. m \in Appended /\ Sent' \subseteq Sent
  BY <1>1, <1>2, <1>3, HeadSent, RespondSent DEF Appended
<1>5. p \in Nat /\ m.prev_log_term \in Nat /\ m.entries \in Seq(Nat)
  BY <1>2 DEF AppendEntries
<1>6. CASE p < commit_index[i]
  <2>1. after = [log |-> log[i], commit |-> commit_index[i], match |-> commit_index[i]]
    BY <1>6 DEF Accepted
  <2>2. after.log = log[i] /\ after.commit = commit_index[i]
    BY <2>1
  <2> HIDE DEF after
  <2>3. UNCHANGED <<log, commit_index>>
    BY <1>1, <1>3, <2>2 DEF ReplicationOK
  <2>4. Steady
    BY <1>1, <1>3 DEF Steady, ElectionOK
  <2>5. QED
    BY <1>3, <1>4, <2>3, <2>4, UnsentMove
<1>7. CASE ~(p < commit_index[i])
  <2> DEFINE vouched == p + Len(m.entries)
             c == Greatest(commit_index[i], Least(m.leader_commit, vouched))
  <2>1. after = [log |-> a, commit |-> c, match |-> vouched]
    BY <1>7 DEF Accepted
  <2>2. after.log = a /\ after.commit = c
    BY <2>1
  <2> HIDE DEF after
  <2>3. /\ p <= LastIndex(log[i])
        /\ p = 0 \/ TermAt(log[i], p) = m.prev_log_term
    BY <1>1, <1>3, <1>5, <1>7 DEF Matches, FullLog
  <2>4. c >= commit_index[i]
    <3>1. commit_index[i] \in Nat /\ Len(m.entries) \in Nat
      BY <1>1, <1>5, LenProperties
    <3>2. m.leader_commit \in Nat
      BY <1>2 DEF AppendEntries
    <3>3. Least(m.leader_commit, vouched) \in Nat
      BY <1>5, <3>1, <3>2 DEF Least
    <3>4. QED
      BY <3>1, <3>3 DEF Greatest
  <2> HIDE DEF c, vouched
  <2>5. /\ a \in FullLog /\ p <= LastIndex(a)
        /\ \A n \in 0 .. p : LogSpan(a)[n] = LogSpan(log[i])[n]
    <3> DEFINE b == a
    <3>1. b = AppendReplicated(log[i], p + 1, m.entries)
      OBVIOUS
    <3> DEFINE q == p
    <3>2. q = m.prev_log_index /\ q \in Nat /\ q <= LastIndex(log[i])
          /\ b = AppendReplicated(log[i], q + 1, m.entries)
      BY <1>5, <2>3, <3>1
    <3> HIDE DEF b, q
    <3>3. /\ b \in FullLog /\ q <= LastIndex(b)
          /\ \A n \in 0 .. q : LogSpan(b)[n] = LogSpan(log[i])[n]
      BY <1>1, <1>2, <3>2, AppendReplicatedSpan
    <3>4. QED
      BY <3>3 DEF b, q
  <2>6. /\ log'[i] = a /\ role'[i] = "FOLLOWER"
        /\ \A k \in Member \ {i} : log'[k] = log[k] /\ role'[k] = role[k]
        /\ \A k \in Member : commit_index'[k] >= commit_index[k]
    <3>1. \A k \in Member : commit_index'[k] = IF k = i THEN c ELSE commit_index[k]
      BY <1>1, <1>3, <2>2 DEF ReplicationOK
    <3>2. \A k \in Member : commit_index'[k] >= commit_index[k]
      BY <1>1, <2>4, <3>1
    <3> HIDE DEF a
    <3>3. QED
      BY <1>1, <1>3, <2>2, <3>2 DEF ElectionOK, ReplicationOK
  <2> DEFINE S == Spans \cup {LogSpan(log'[i])}
  <2>7. Covered(S)
    <3>1. \A k \in Member : \E f \in S : Part(LogSpan(log'[k]), f)
      <4>1. TAKE k \in Member
      <4>2. LogSpan(log[k]) \in S /\ LogSpan(log'[i]) \in S
        BY DEF Spans
      <4> HIDE DEF a, S
      <4>3. QED
        BY <2>6, <4>2, AgreeSelf
    <3> DEFINE P == {}
    <3>2. /\ Sent' \subseteq Sent \cup P /\ Spans \subseteq S
          /\ \A r \in P : r.type = "AppendEntries" => \E f \in S : Part(AppendSpan(r), f)
      BY <1>4
    <3> HIDE DEF S, P
    <3>3. \A r \in Appended' : \E f \in S : Part(AppendSpan(r), f)
      BY <3>2, AppendedBy
    <3>4. QED
      BY <3>1, <3>3, CoverIs
  <2>8. LeadersStay(Member)
    <3>1. /\ \A k \in Member \ {i} : term'[k] = term[k]
          /\ \A k \in Member \ {i} : log'[k] = log[k] /\ role'[k] = role[k]
          /\ role'[i] # "LEADER"
      BY <1>3, <2>6
    <3>2. QED
      BY <3>1 DEF LeadersStay
  <2>9. Takes(i)
    BY <1>3, <1>4, <2>3, <2>6, <2>7, <2>8 DEF Takes
  <2> HIDE DEF a, S
  <2>10. CandidateMove
    <3>1. \A k \in Member \ {i} : role'[k] = role[k] /\ term'[k] = term[k]
      BY <1>3, <2>6
    <3>2. QED
      BY <2>6, <3>1 DEF CandidateMove
  <2>11. CommitMove
    <3>1. ASSUME NEW k \in Member, NEW n \in 1 .. commit_index[k]
          PROVE  /\ n <= LastIndex(log'[k])
                 /\ TermAt(log'[k], n) = TermAt(log[k], n)
      <4>1. n \in 0 .. LastIndex(log[k]) /\ n <= LastIndex(log[k])
        BY <1>1
      <4>2. CASE k # i
        BY <2>6, <4>1, <4>2
      <4>3. CASE k = i
        <5>1. n \in 0 .. p
          BY <1>1, <1>5, <1>7, <4>3
        <5>2. LastIndex(a) \in Nat
          BY <2>5, LastType
        <5>3. n <= LastIndex(a) /\ n \in 0 .. LastIndex(a)
          BY <1>5, <2>5, <5>1, <5>2
        <5>4. LogSpan(a)[n] = LogSpan(log[i])[n]
          BY <2>5, <5>1
        <5>5. LogSpan(a)[n] = TermAt(a, n) /\ LogSpan(log[i])[n] = TermAt(log[i], n)
          BY <1>1, <2>5, <4>1, <4>3, <5>3, LogSpanIs
        <5>6. QED
          BY <2>6, <4>3, <5>3, <5>4, <5>5
      <4>4. QED
        BY <4>2, <4>3
    <3>2. QED
      BY <2>6, <3>1 DEF CommitMove
  <2>12. QED
    BY <2>9, <2>10, <2>11 DEF LogMoves, SpanMove
<1>8. QED
  BY <1>6, <1>7

\* A process starts again with an empty log, which says only what every log says.
LEMMA ForgetMove ==
  ASSUME Inv, NEW i \in Member, Restart(i)
  PROVE  LogMoves
<1>1. /\ ElectionOK /\ ReplicationOK /\ NetworkOK /\ log[i] \in FullLog
      /\ incarnation[i] \in Nat
      /\ \A k \in Member : /\ commit_index[k] \in Nat /\ LastIndex(log[k]) \in Nat
                            /\ commit_index[k] <= LastIndex(log[k])
  BY MemberFacts DEF Inv, ElectionOK
<1>2. /\ log'[i] = EmptyLog /\ role'[i] = "FOLLOWER"
      /\ incarnation'[i] = incarnation[i] + 1
      /\ \A k \in Member \ {i} : /\ log'[k] = log[k] /\ role'[k] = role[k]
                                  /\ term'[k] = term[k] /\ commit_index'[k] = commit_index[k]
      /\ UNCHANGED elected /\ ProcessEnds(i)
  BY <1>1 DEF Restart, history, ElectionOK, ReplicationOK
<1>3. Sent' \subseteq Sent
  BY <1>1, <1>2, EndSent
<1>4. Part(LogSpan(EmptyLog), LogSpan(log[i]))
  <2>1. EmptyLog \in FullLog /\ LastIndex(EmptyLog) = 0
    BY FreshTypes
  <2>2. DOMAIN LogSpan(EmptyLog) = 0 .. 0 /\ LogSpan(EmptyLog)[0] = 0
    BY <2>1, LogSpanIs
  <2>3. /\ DOMAIN LogSpan(log[i]) = 0 .. LastIndex(log[i]) /\ LastIndex(log[i]) \in Nat
        /\ LogSpan(log[i])[0] = 0
    BY <1>1, LogSpanIs
  <2>4. QED
    BY <2>2, <2>3 DEF Part
<1>5. Covered(Spans)
  <2>1. \A k \in Member : \E f \in Spans : Part(LogSpan(log'[k]), f)
    <3>1. TAKE k \in Member
    <3>2. LogSpan(log[k]) \in Spans
      BY DEF Spans
    <3>3. QED
      BY <1>2, <1>4, <3>2, AgreeSelf
  <2> DEFINE P == {}
             S == Spans
  <2>2. /\ Sent' \subseteq Sent \cup P /\ Spans \subseteq S
        /\ \A r \in P : r.type = "AppendEntries" => \E f \in S : Part(AppendSpan(r), f)
    BY <1>3
  <2> HIDE DEF P, S
  <2>3. \A m \in Appended' : \E f \in S : Part(AppendSpan(m), f)
    BY <2>2, AppendedBy
  <2>4. QED
    BY <2>1, <2>3, CoverIs DEF S
<1>6. LeadersStay(Member) /\ CandidateMove
  BY <1>2 DEF LeadersStay, CandidateMove
<1>7. CommitMove
  <2>1. ASSUME NEW k \in Member, incarnation'[k] = incarnation[k]
        PROVE  /\ commit_index'[k] >= commit_index[k]
               /\ \A n \in 1 .. commit_index[k] :
                     /\ n <= LastIndex(log'[k])
                     /\ TermAt(log'[k], n) = TermAt(log[k], n)
    <3>1. k # i
      BY <1>1, <1>2, <2>1
    <3>2. log'[k] = log[k] /\ commit_index'[k] = commit_index[k]
      BY <1>2, <3>1
    <3>3. QED
      BY <1>1, <3>2
  <2>2. QED
    BY <2>1 DEF CommitMove
<1>8. QED
  BY <1>2, <1>5, <1>6, <1>7 DEF LogMoves, SpanMove, Idles

\* Every step is one of the moves.
LEMMA StepLogMoves ==
  ASSUME Inv, [Next]_vars
  PROVE  LogMoves
<1>1. CASE UNCHANGED vars
  <2>1. PICK i \in Member : TRUE
    <3>1. Member # {}
      BY MemberAssumption, FS_EmptySet
    <3>2. QED
      BY <3>1
  <2>2. QED
    BY <1>1, <2>1, SilentMove
<1>2. ASSUME NEW i \in Member, NEW j \in Member, NEW src \in Source, NEW m \in Request,
             Inbound(i, j, src) # <<>>, m = Head(Inbound(i, j, src)),
             \/ RefuseUnderLease(i, j, src, m)
             \/ AnswerPreVote(i, j, src, m)
             \/ RejectAppend(i, j, src, m)
             \/ OnPromote(i, j, src, m)
             \/ GrantVote(i, j, src, m)
             \/ GrantSaveFails(i, j, src, m)
             \/ DenyVote(i, j, src, m)
             \/ StepDownSaveFailsOnRequest(i, j, src, m)
             \/ StopOnContradiction(i, j, src, m)
             \/ ConflictingAppend(i, j, src, m)
             \/ AcceptAppend(i, j, src, m)
      PROVE  LogMoves
  <2>1. CASE AcceptAppend(i, j, src, m)
    BY <1>2, <2>1, TakeAppendMove
  <2>2. CASE ~AcceptAppend(i, j, src, m)
    BY <1>2, <2>2, AnsweredMove
  <2>3. QED
    BY <2>1, <2>2
<1>3. ASSUME NEW i \in Member, NEW j \in Member, NEW m \in Answer,
             rep[i][j] # <<>>, m = Head(rep[i][j]),
             \/ OnStaleAnswer(i, j, m)
             \/ OnAppendRefused(i, j, m)
             \/ OnAppendAccepted(i, j, m)
             \/ OnPreVoteRefused(i, j, m)
             \/ OnLaterTerm(i, j, m)
             \/ StepDownSaveFailsOnAnswer(i, j, m)
             \/ OnPreVoteGranted(i, j, m)
             \/ CampaignSaveFails(i, j, m)
             \/ OnRequestVoteReply(i, j, m)
      PROVE  LogMoves
  <2>1. CASE OnAppendRefused(i, j, m)
    BY <1>3, <2>1, RefusedMove
  <2>2. CASE OnAppendAccepted(i, j, m)
    BY <1>3, <2>2, AcceptedMove
  <2>3. CASE OnPreVoteGranted(i, j, m)
    BY <1>3, <2>3, AskMove
  <2>4. CASE OnRequestVoteReply(i, j, m)
    BY <1>3, <2>4, CountedMove
  <2>5. CASE \/ OnStaleAnswer(i, j, m)
             \/ OnPreVoteRefused(i, j, m)
             \/ OnLaterTerm(i, j, m)
             \/ StepDownSaveFailsOnAnswer(i, j, m)
             \/ CampaignSaveFails(i, j, m)
    BY <1>3, <2>5, ReadMove
  <2>6. QED
    BY <1>3, <2>1, <2>2, <2>3, <2>4, <2>5
<1>4. ASSUME NEW i \in Member, NEW j \in Member,
             \/ PreCampaign(i) \/ Relinquish(i) \/ Restart(i)
             \/ LeaderTick(i) \/ Propose(i) \/ PeerUp(i, j) \/ PeerGone(i, j)
             \/ PeerLost(i, j) \/ OrphanEnds(i, j)
      PROVE  LogMoves
  <2>1. CASE PreCampaign(i)
    <3> DEFINE m == [type |-> "AppendEntriesReply", term |-> 0, success |-> TRUE,
                     match_index |-> 0, conflict_index |-> 0, catching_up |-> FALSE,
                     request |-> "none"]
    <3>1. m \in Answer
      BY DEF Answer, AppendEntriesReply
    <3> HIDE DEF m
    <3>2. QED
      BY <2>1, <3>1, AskMove
  <2>2. CASE Restart(i)
    BY <2>2, ForgetMove
  <2>3. CASE LeaderTick(i)
    BY <2>3, TickMove
  <2>4. CASE Propose(i)
    BY <2>4, ProposeMove
  <2>5. CASE PeerUp(i, j) /\ role[i] = "LEADER"
    BY <2>5, ProbeMove
  <2>6. CASE PeerUp(i, j) /\ role[i] # "LEADER"
    BY <2>6, SilentMove
  <2>7. CASE Relinquish(i) \/ PeerGone(i, j) \/ PeerLost(i, j) \/ OrphanEnds(i, j)
    BY <2>7, SilentMove
  <2>8. QED
    BY <1>4, <2>1, <2>2, <2>3, <2>4, <2>5, <2>6, <2>7
<1>5. CASE Next
  <2>1. PICK i, j \in Member :
            \/ PreCampaign(i) \/ Relinquish(i) \/ Restart(i)
            \/ LeaderTick(i) \/ Propose(i) \/ PeerUp(i, j) \/ PeerGone(i, j)
            \/ PeerLost(i, j) \/ OrphanEnds(i, j)
            \/ \E src \in Source, m \in Request :
                  /\ Inbound(i, j, src) # <<>> /\ m = Head(Inbound(i, j, src))
                  /\ \/ RefuseUnderLease(i, j, src, m)
                     \/ AnswerPreVote(i, j, src, m)
                     \/ RejectAppend(i, j, src, m)
                     \/ OnPromote(i, j, src, m)
                     \/ GrantVote(i, j, src, m)
                     \/ GrantSaveFails(i, j, src, m)
                     \/ DenyVote(i, j, src, m)
                     \/ StepDownSaveFailsOnRequest(i, j, src, m)
                     \/ StopOnContradiction(i, j, src, m)
                     \/ ConflictingAppend(i, j, src, m)
                     \/ AcceptAppend(i, j, src, m)
            \/ \E m \in Answer :
                  /\ rep[i][j] # <<>> /\ m = Head(rep[i][j])
                  /\ \/ OnStaleAnswer(i, j, m)
                     \/ OnAppendRefused(i, j, m)
                     \/ OnAppendAccepted(i, j, m)
                     \/ OnPreVoteRefused(i, j, m)
                     \/ OnLaterTerm(i, j, m)
                     \/ StepDownSaveFailsOnAnswer(i, j, m)
                     \/ OnPreVoteGranted(i, j, m)
                     \/ CampaignSaveFails(i, j, m)
                     \/ OnRequestVoteReply(i, j, m)
    BY <1>5, StepCases
  <2>2. QED
    BY <2>1, <1>2, <1>3, <1>4
<1>6. QED
  BY <1>1, <1>5

\* In a cluster of any size, whatever is lost, delayed or restarted, what a
\* member has committed stays committed and in its log while its process lives
\* (append_replicated, and the max in on_append_entries).
THEOREM CommittedForGood == Spec => CommittedStays
<1>1. Inv /\ [Next]_vars =>
        [\A i \in Member :
            incarnation'[i] = incarnation[i] =>
                /\ commit_index'[i] >= commit_index[i]
                /\ \A n \in 1 .. commit_index[i] :
                      /\ n <= LastIndex(log'[i])
                      /\ TermAt(log'[i], n) = TermAt(log[i], n)]_vars
  BY StepLogMoves DEF LogMoves, CommitMove
<1>2. QED
  BY <1>1, InvHolds, PTL DEF Spec, CommittedStays


-----------------------------------------------------------------------------
(* The logs match *)

\* Where two spans have the same term they agree on all that is before.
Matched == \A f, g \in Spans : Agree(f, g)

\* Index 0, the boundary of an empty log, has term 0 in every log and anchor.
ZeroAtZero == \A g \in Spans : 0 \in DOMAIN g => g[0] = 0

\* Every term in a log or an append has had a leader.
TermsLed ==
    \A g \in Spans : \A n \in DOMAIN g : n = 0 \/ \E e \in elected : e[1] = g[n]

\* Nothing of term t lies beyond index x.
Within(t, x) ==
    \A g \in Spans : \A n \in DOMAIN g : (n > 0 /\ g[n] = t) => n <= x

\* All that was ever said in a leader's term, the leader's log says.
LeaderHolds ==
    \A k \in Member : role[k] = "LEADER" => Within(term[k], LastIndex(log[k]))

\* A leader was elected in its term; a candidate was not, and has its own vote.
LeadersElected == \A k \in Member : role[k] = "LEADER" => <<term[k], k>> \in elected

CandidatesNew == \A k \in Member : role[k] = "CANDIDATE" => <<term[k], k>> \notin elected

OwnVote == \A k \in Member : role[k] = "CANDIDATE" => <<term[k], k, k>> \in cast

\* No member was elected in a term that its file has not reached.
ElectedBehind == \A e \in elected : e[1] <= disk[e[2]].term

SpansInv == Matched /\ ZeroAtZero /\ TermsLed /\ LeaderHolds
LedInv == LeadersElected /\ CandidatesNew /\ OwnVote /\ ElectedBehind
MatchInv == SpansInv /\ LedInv

\* Member i says term t at index n for the first time.
New(n, t) ==
    \E i \in Member : Extends(i) /\ n = LastIndex(log[i]) + 1 /\ t = term[i]

Grows(S) ==
    /\ Covered(S)
    /\ \A f, g \in S : Agree(f, g)
    /\ \A f \in S : \A n \in DOMAIN f :
          New(n, f[n]) \/ \E g \in Spans : n \in DOMAIN g /\ g[n] = f[n]

\* A leader was one before the step, with the same log, or extends its log.
LEMMA LeaderStaysOrExtends ==
  ASSUME SpanMove, NEW k \in Member, role'[k] = "LEADER"
  PROVE  \/ role[k] = "LEADER" /\ term'[k] = term[k] /\ log'[k] = log[k]
         \/ Extends(k)
BY DEF SpanMove, Idles, Takes, LeadersStay, Extends

\* A leadership of a step is an old one or the one its candidate has won.
LEMMA ElectedGrows ==
  ASSUME SpanMove
  PROVE  /\ elected \subseteq elected'
         /\ \A e \in elected' :
               \/ e \in elected
               \/ \E i \in Member : /\ Extends(i) /\ role[i] = "CANDIDATE"
                                    /\ e = <<term[i], i>>
BY DEF SpanMove, Idles, Takes, Extends

\* Who extends its log is elected in its term.
LEMMA ExtenderElected ==
  ASSUME LeadersElected, NEW i \in Member, Extends(i)
  PROVE  <<term[i], i>> \in elected'
BY DEF LeadersElected, Extends

\* What member i appends nobody has said: its index is new to its term.
LEMMA TermIsFresh ==
  ASSUME Inv, SpansInv, LedInv, ElectionSafety', SpanMove, NEW i \in Member, Extends(i)
  PROVE  Within(term[i], LastIndex(log[i]))
<1>1. CASE role[i] = "LEADER"
  BY <1>1 DEF SpansInv, LeaderHolds
<1>2. CASE role[i] = "CANDIDATE"
  <2>1. SUFFICES ASSUME NEW g \in Spans, NEW n \in DOMAIN g, n > 0, g[n] = term[i]
                 PROVE  FALSE
    BY DEF Within
  <2>2. n # 0
    BY <2>1
  <2>3. PICK e \in elected : e[1] = g[n]
    BY <2>2 DEF SpansInv, TermsLed
  <2>4. e \in elected' /\ <<term[i], i>> \in elected'
    BY ElectedGrows, ExtenderElected DEF LedInv
  <2>5. e = <<term[i], i>>
    BY <2>1, <2>3, <2>4 DEF ElectionSafety
  <2>6. QED
    BY <1>2, <2>5 DEF LedInv, CandidatesNew
<1>3. QED
  BY <1>1, <1>2 DEF Extends

\* A step that says nothing new.
LEMMA IdleGrows ==
  ASSUME SpansInv, Idles
  PROVE  Grows(Spans)
BY DEF SpansInv, Matched, Idles, Grows

\* Spans that agree still do with one more that agrees with each of them.
LEMMA AgreeOneMore ==
  ASSUME NEW h, \A f, g \in Spans : Agree(f, g), \A g \in Spans : Agree(h, g)
  PROVE  \A f, g \in Spans \cup {h} : Agree(f, g)
<1> TAKE f, g \in Spans \cup {h}
<1>1. CASE f \in Spans /\ g \in Spans
  BY <1>1
<1>2. CASE f = h /\ g \in Spans
  BY <1>2
<1>3. CASE f \in Spans /\ g = h
  BY <1>3, AgreeBothWays
<1>4. CASE f = h /\ g = h
  BY <1>4, AgreeSelf
<1>5. QED
  BY <1>1, <1>2, <1>3, <1>4

\* Logs and appends are spans.
LEMMA SpansAre ==
  ASSUME Inv
  PROVE  \A g \in Spans : IsSpan(g)
<1>1. \A k \in Member : log[k] \in FullLog
  BY DEF Inv, ReplicationOK
<1>2. \A m \in Appended : m \in AppendEntries
  BY DEF Appended, Sent, Request, RequestVote, Promote, AppendEntries
<1>3. QED
  BY <1>1, <1>2, LogSpanIs, AppendSpanIs DEF Spans

\* A log that takes an append agrees with everything said.
LEMMA TakeGrows ==
  ASSUME Inv, SpansInv, NEW i \in Member, Takes(i)
  PROVE  Grows(Spans \cup {LogSpan(log'[i])})
<1>1. PICK m \in Appended :
          /\ m.prev_log_index <= LastIndex(log[i])
          /\ m.prev_log_index = 0 \/ TermAt(log[i], m.prev_log_index) = m.prev_log_term
          /\ log'[i] = AppendReplicated(log[i], m.prev_log_index + 1, m.entries)
          /\ Covered(Spans \cup {LogSpan(log'[i])})
  BY DEF Takes
<1> DEFINE p == m.prev_log_index
           q == p + Len(m.entries)
           f == LogSpan(log[i])
           b == AppendSpan(m)
           a == log'[i]
           h == LogSpan(a)
<1>2. m \in AppendEntries /\ log[i] \in FullLog
  BY DEF Inv, ReplicationOK, Appended, Sent, Request, RequestVote, Promote, AppendEntries
<1>3. p \in Nat /\ Len(m.entries) \in Nat /\ q \in Nat /\ p <= q
  <2>1. p \in Nat /\ m.entries \in Seq(Nat)
    BY <1>2 DEF AppendEntries
  <2>2. QED
    BY <2>1, LenProperties
<1>4. f \in Spans /\ b \in Spans
  BY DEF Spans
<1>5. /\ DOMAIN f = 0 .. LastIndex(log[i]) /\ LastIndex(log[i]) \in Nat /\ f[0] = 0
      /\ \A n \in 0 .. LastIndex(log[i]) : f[n] = TermAt(log[i], n)
      /\ DOMAIN b = p .. q /\ b[p] = m.prev_log_term
  BY <1>2, LogSpanIs, AppendSpanIs
<1>6. f[p] = b[p]
  <2>1. CASE p = 0
    <3>1. 0 \in DOMAIN b
      BY <1>3, <1>5, <2>1
    <3>2. b[0] = 0
      BY <1>4, <3>1 DEF SpansInv, ZeroAtZero
    <3>3. QED
      BY <1>5, <2>1, <3>2
  <2>2. CASE p # 0
    <3>1. p \in 0 .. LastIndex(log[i])
      BY <1>1, <1>3
    <3>2. QED
      BY <1>1, <1>5, <2>2, <3>1
  <2>3. QED
    BY <2>1, <2>2
<1>7. /\ a \in FullLog /\ p <= LastIndex(a)
      /\ \A n \in 0 .. p : h[n] = f[n]
      /\ \/ a = log[i]
         \/ /\ LastIndex(a) = q
            /\ \A n \in p + 1 .. q : h[n] = b[n]
  <2> DEFINE x == p
             c == a
  <2>1. x \in Nat /\ x = m.prev_log_index /\ x <= LastIndex(log[i])
        /\ c = AppendReplicated(log[i], x + 1, m.entries)
    BY <1>1, <1>3
  <2> HIDE DEF x, c
  <2>2. /\ c \in FullLog /\ x <= LastIndex(c)
        /\ \A n \in 0 .. x : LogSpan(c)[n] = LogSpan(log[i])[n]
        /\ \/ c = log[i]
           \/ /\ LastIndex(c) = x + Len(m.entries)
              /\ \A n \in x + 1 .. x + Len(m.entries) : LogSpan(c)[n] = AppendSpan(m)[n]
    BY <1>2, <2>1, AppendReplicatedSpan
  <2>3. QED
    BY <2>2 DEF x, c
<1>8. DOMAIN h = 0 .. LastIndex(a)
  BY <1>7, LogSpanIs
<1>9. CASE a = log[i]
  <2>1. h \in Spans
    BY <1>4, <1>9
  <2>2. Spans \cup {h} = Spans
    BY <2>1
  <2>3. Covered(Spans)
    BY <1>1, <2>2
  <2>4. QED
    BY <2>2, <2>3 DEF SpansInv, Matched, Grows
<1>10. CASE LastIndex(a) = q /\ \A n \in p + 1 .. q : h[n] = b[n]
  <2>1. Covered(Spans \cup {h})
    BY <1>1
  <2> HIDE DEF f, b, a, h, q, p
  <2>2. \A n \in p .. q : h[n] = b[n]
    <3>1. TAKE n \in p .. q
    <3>2. CASE n = p
      <4>1. p \in 0 .. p
        BY <1>3
      <4>2. h[p] = f[p]
        BY <1>7, <4>1
      <4>3. QED
        BY <1>6, <3>2, <4>2
    <3>3. CASE n # p
      <4>1. n \in p + 1 .. q
        BY <1>3, <3>1, <3>3
      <4>2. QED
        BY <1>10, <4>1
    <3>4. QED
      BY <3>2, <3>3
  <2>3. 0 .. p \subseteq DOMAIN f
    <3>1. p <= LastIndex(log[i])
      BY <1>1 DEF p
    <3>2. QED
      BY <1>3, <1>5, <3>1
  <2>4. ASSUME NEW g \in Spans
        PROVE  Agree(h, g)
    <3>1. Agree(f, g) /\ Agree(b, g)
      BY <1>4 DEF SpansInv, Matched
    <3>2. IsSpan(g)
      BY SpansAre
    <3>3. DOMAIN h = 0 .. q
      BY <1>8, <1>10
    <3>4. QED
      BY <1>3, <1>5, <1>7, <2>2, <2>3, <3>1, <3>2, <3>3, SplicedAgrees
  <2>5. \A g1, g2 \in Spans \cup {h} : Agree(g1, g2)
    BY <2>4, AgreeOneMore DEF SpansInv, Matched
  <2>6. ASSUME NEW n \in DOMAIN h
        PROVE  \E g \in Spans : n \in DOMAIN g /\ g[n] = h[n]
    <3>1. n \in 0 .. q
      BY <1>8, <1>10
    <3>2. CASE n <= p
      <4>1. n \in 0 .. p
        BY <1>3, <3>1, <3>2
      <4>2. QED
        BY <1>4, <1>7, <2>3, <4>1
    <3>3. CASE ~(n <= p)
      <4>1. n \in p .. q
        BY <1>3, <3>1, <3>3
      <4>2. QED
        BY <1>4, <1>5, <2>2, <4>1
    <3>4. QED
      BY <3>2, <3>3
  <2>7. Grows(Spans \cup {h})
    BY <2>1, <2>5, <2>6 DEF Grows
  <2>8. QED
    BY <2>7 DEF h, a
<1>11. QED
  BY <1>7, <1>9, <1>10

\* A leader's new entry agrees with everything said: its term is new there.
LEMMA ExtendGrows ==
  ASSUME Inv, SpansInv, LedInv, ElectionSafety', SpanMove, NEW i \in Member, Extends(i)
  PROVE  Grows(Spans \cup {LogSpan(log'[i])})
<1> DEFINE f == LogSpan(log[i])
           x == LastIndex(log[i])
           a == log'[i]
           h == LogSpan(a)
<1>1. log[i] \in FullLog /\ term[i] \in Nat
  BY MemberFacts
<1>2. a = AppendLocal(log[i], term[i]) /\ Covered(Spans \cup {h})
  BY DEF Extends
<1>3. f \in Spans
  BY DEF Spans
<1>4. DOMAIN f = 0 .. x /\ x \in Nat
  BY <1>1, LogSpanIs
<1>5. DOMAIN h = 0 .. x + 1 /\ (\A n \in 0 .. x : h[n] = f[n]) /\ h[x + 1] = term[i]
  BY <1>1, <1>2, AppendLocalSpan
<1>6. Within(term[i], x)
  BY TermIsFresh
<1>7. New(x + 1, term[i])
  BY DEF New
<1> HIDE DEF f, x, a, h
<1>8. ASSUME NEW g \in Spans
      PROVE  Agree(h, g)
  <2>1. Agree(f, g)
    BY <1>3 DEF SpansInv, Matched
  <2>2. IsSpan(g)
    BY SpansAre
  <2>3. x + 1 \in DOMAIN g => g[x + 1] # h[x + 1]
    BY <1>4, <1>5, <1>6 DEF Within
  <2>4. QED
    BY <1>4, <1>5, <2>1, <2>2, <2>3, LongerAgrees
<1>9. \A g1, g2 \in Spans \cup {h} : Agree(g1, g2)
  BY <1>8, AgreeOneMore DEF SpansInv, Matched
<1>10. ASSUME NEW n \in DOMAIN h
       PROVE  New(n, h[n]) \/ \E g \in Spans : n \in DOMAIN g /\ g[n] = h[n]
  <2>1. CASE n = x + 1
    BY <1>5, <1>7, <2>1
  <2>2. CASE n # x + 1
    <3>1. n \in 0 .. x
      BY <1>4, <1>5, <2>2
    <3>2. QED
      BY <1>3, <1>4, <1>5, <3>1
  <2>3. QED
    BY <2>1, <2>2
<1>11. \A g \in Spans \cup {h} : \A n \in DOMAIN g :
          New(n, g[n]) \/ \E e \in Spans : n \in DOMAIN e /\ e[n] = g[n]
  BY <1>10
<1>12. Grows(Spans \cup {h})
  BY <1>2, <1>9, <1>11 DEF Grows
<1>13. QED
  BY <1>12 DEF h, a

LEMMA SpanMoveGrows ==
  ASSUME Inv, SpansInv, LedInv, ElectionSafety', SpanMove
  PROVE  \E S : Grows(S)
<1>1. CASE Idles
  BY <1>1, IdleGrows
<1>2. CASE \E i \in Member : Takes(i)
  BY <1>2, TakeGrows
<1>3. CASE \E i \in Member : Extends(i)
  BY <1>3, ExtendGrows
<1>4. QED
  BY <1>1, <1>2, <1>3 DEF SpanMove

\* What is said after a step was said before it, or is new.
LEMMA SaidBefore ==
  ASSUME NEW S, Grows(S), NEW g \in Spans', NEW n \in DOMAIN g
  PROVE  New(n, g[n]) \/ \E f \in Spans : n \in DOMAIN f /\ f[n] = g[n]
<1>1. PICK f \in S : Part(g, f)
  BY DEF Grows, Covered
<1>2. n \in DOMAIN f /\ f[n] = g[n]
  BY <1>1 DEF Part
<1>3. QED
  BY <1>2 DEF Grows

LEMMA MatchedKept ==
  ASSUME NEW S, Grows(S)
  PROVE  Matched'
<1> SUFFICES ASSUME NEW g1 \in Spans', NEW g2 \in Spans'
             PROVE  Agree(g1, g2)
  BY DEF Matched
<1>1. PICK f1 \in S : Part(g1, f1)
  BY DEF Grows, Covered
<1>2. PICK f2 \in S : Part(g2, f2)
  BY DEF Grows, Covered
<1>3. Agree(f1, f2)
  BY DEF Grows
<1>4. QED
  BY <1>1, <1>2, <1>3, AgreeParts

LEMMA ZeroKept ==
  ASSUME Inv, SpansInv, NEW S, Grows(S)
  PROVE  ZeroAtZero'
<1> SUFFICES ASSUME NEW g \in Spans', 0 \in DOMAIN g
             PROVE  g[0] = 0
  BY DEF ZeroAtZero
<1>1. ~New(0, g[0])
  <2>1. \A i \in Member : LastIndex(log[i]) \in Nat
    BY MemberFacts
  <2>2. \A i \in Member : 0 # LastIndex(log[i]) + 1
    BY <2>1
  <2>3. QED
    BY <2>2 DEF New
<1>2. PICK f \in Spans : 0 \in DOMAIN f /\ f[0] = g[0]
  BY <1>1, SaidBefore
<1>3. QED
  BY <1>2 DEF SpansInv, ZeroAtZero

LEMMA TermsKept ==
  ASSUME SpansInv, LedInv, SpanMove, NEW S, Grows(S)
  PROVE  TermsLed'
<1> SUFFICES ASSUME NEW g \in Spans', NEW n \in DOMAIN g, n # 0
             PROVE  \E e \in elected' : e[1] = g[n]
  BY DEF TermsLed
<1>1. CASE New(n, g[n])
  <2>1. PICK i \in Member : Extends(i) /\ g[n] = term[i]
    BY <1>1 DEF New
  <2>2. <<term[i], i>> \in elected'
    BY <2>1, ExtenderElected DEF LedInv
  <2>3. QED
    BY <2>1, <2>2
<1>2. CASE \E f \in Spans : n \in DOMAIN f /\ f[n] = g[n]
  <2>1. PICK f \in Spans : n \in DOMAIN f /\ f[n] = g[n]
    BY <1>2
  <2>2. PICK e \in elected : e[1] = f[n]
    BY <2>1 DEF SpansInv, TermsLed
  <2>3. QED
    BY <2>1, <2>2, ElectedGrows
<1>3. QED
  BY <1>1, <1>2, SaidBefore

LEMMA HoldsKept ==
  ASSUME Inv, SpansInv, LedInv, ElectionSafety', SpanMove, NEW S, Grows(S)
  PROVE  LeaderHolds'
<1> SUFFICES ASSUME NEW k \in Member, role'[k] = "LEADER",
                    NEW g \in Spans', NEW n \in DOMAIN g, n > 0, g[n] = term'[k]
             PROVE  n <= LastIndex(log'[k])
  BY DEF LeaderHolds, Within
<1>1. CASE Extends(k)
  <2>1. term'[k] = term[k] /\ LastIndex(log'[k]) = LastIndex(log[k]) + 1
        /\ LastIndex(log[k]) \in Nat
    BY <1>1, MemberFacts, AppendLocalType DEF Extends
  <2>2. CASE \E f \in Spans : n \in DOMAIN f /\ f[n] = g[n]
    <3>1. PICK f \in Spans : n \in DOMAIN f /\ f[n] = g[n]
      BY <2>2
    <3>2. Within(term[k], LastIndex(log[k]))
      BY <1>1, TermIsFresh
    <3>3. f[n] = term[k]
      BY <2>1, <3>1
    <3>4. n <= LastIndex(log[k])
      BY <3>1, <3>2, <3>3 DEF Within
    <3>5. f = f /\ IsSpan(f)
      BY SpansAre
    <3>6. n \in Nat
      BY <3>1, <3>5 DEF IsSpan
    <3>7. QED
      BY <2>1, <3>4, <3>6
  <2>3. CASE New(n, g[n])
    <3>1. PICK i \in Member : Extends(i) /\ n = LastIndex(log[i]) + 1 /\ g[n] = term[i]
      BY <2>3 DEF New
    <3>2. <<term[i], i>> \in elected' /\ <<term[k], k>> \in elected'
      BY <1>1, <3>1, ExtenderElected DEF LedInv
    <3>3. i = k
      BY <2>1, <3>1, <3>2 DEF ElectionSafety
    <3>4. QED
      BY <2>1, <3>1, <3>3
  <2>4. QED
    BY <2>2, <2>3, SaidBefore
<1>2. CASE role[k] = "LEADER" /\ term'[k] = term[k] /\ log'[k] = log[k] /\ ~Extends(k)
  <2>1. CASE \E f \in Spans : n \in DOMAIN f /\ f[n] = g[n]
    <3>1. PICK f \in Spans : n \in DOMAIN f /\ f[n] = g[n]
      BY <2>1
    <3>2. Within(term[k], LastIndex(log[k]))
      BY <1>2 DEF SpansInv, LeaderHolds
    <3>3. f[n] = term[k]
      BY <1>2, <3>1
    <3>4. QED
      BY <1>2, <3>1, <3>2, <3>3 DEF Within
  <2>2. CASE New(n, g[n])
    <3>1. PICK i \in Member : Extends(i) /\ g[n] = term[i]
      BY <2>2 DEF New
    <3>2. <<term[i], i>> \in elected' /\ <<term[k], k>> \in elected'
      BY <1>2, <3>1, ExtenderElected, ElectedGrows DEF LedInv, LeadersElected
    <3>3. i = k
      BY <1>2, <3>1, <3>2 DEF ElectionSafety
    <3>4. QED
      BY <1>2, <3>1, <3>3
  <2>3. QED
    BY <2>1, <2>2, SaidBefore
<1>3. QED
  BY <1>1, <1>2, LeaderStaysOrExtends

\* A leader after a step is on the ledger after it.
LEMMA LeadersElectedKept ==
  ASSUME LedInv, SpanMove
  PROVE  LeadersElected'
<1> SUFFICES ASSUME NEW k \in Member, role'[k] = "LEADER"
             PROVE  <<term'[k], k>> \in elected'
  BY DEF LeadersElected
<1>1. CASE Extends(k)
  BY <1>1, ExtenderElected DEF LedInv, Extends
<1>2. CASE role[k] = "LEADER" /\ term'[k] = term[k]
  BY <1>2, ElectedGrows DEF LedInv, LeadersElected
<1>3. QED
  BY <1>1, <1>2, LeaderStaysOrExtends

\* A new candidate is in a term beyond what its file ever said.
LEMMA CandidatesKept ==
  ASSUME Inv, LedInv, SpanMove, CandidateMove, FileFollowed
  PROVE  CandidatesNew'
<1> SUFFICES ASSUME NEW k \in Member, role'[k] = "CANDIDATE", <<term'[k], k>> \in elected'
             PROVE  FALSE
  BY DEF CandidatesNew
<1>1. <<term'[k], k>> \in elected
  <2>1. ASSUME NEW i \in Member, Extends(i), <<term'[k], k>> = <<term[i], i>>
        PROVE  FALSE
    <3>1. i = k
      BY <2>1
    <3>2. QED
      BY <2>1, <3>1 DEF Extends
  <2>2. QED
    BY <2>1, ElectedGrows
<1>2. CASE role[k] = "CANDIDATE" /\ term'[k] = term[k]
  BY <1>1, <1>2 DEF LedInv, CandidatesNew
<1>3. CASE term'[k] = term[k] + 1
  <2>1. term'[k] <= disk[k].term
    BY <1>1 DEF LedInv, ElectedBehind
  <2>2. disk[k].term \in Nat /\ term[k] \in Nat /\ disk[k].term <= term[k]
    BY FileFacts DEF Inv, FileFollowed
  <2>3. QED
    BY <1>3, <2>1, <2>2
<1>4. QED
  BY <1>2, <1>3 DEF CandidateMove

LEMMA OwnVoteKept ==
  ASSUME LedInv, CandidateMove, cast \subseteq cast', saveFailures' = 0
  PROVE  OwnVote'
BY DEF LedInv, OwnVote, CandidateMove

\* A candidate's vote for itself was saved before any answer could elect it.
LEMMA BehindKept ==
  ASSUME Inv, Inv', LedInv, SpanMove, VoteIsDurable, VoteKept
  PROVE  ElectedBehind'
<1> SUFFICES ASSUME NEW e \in elected'
             PROVE  e[1] <= disk'[e[2]].term
  BY DEF ElectedBehind
<1>1. e \in Nat \X Member
  BY DEF Inv, LedgerOK
<1>2. e[1] \in Nat /\ e[2] \in Member
  BY <1>1
<1>3. /\ disk[e[2]].term \in Nat /\ disk'[e[2]].term \in Nat
      /\ disk'[e[2]].term >= disk[e[2]].term
  BY <1>2 DEF Inv, ElectionOK, PersistentState, VoteKept
<1>4. e[1] <= disk[e[2]].term
  <2>1. CASE e \in elected
    BY <2>1 DEF LedInv, ElectedBehind
  <2>2. CASE \E i \in Member : role[i] = "CANDIDATE" /\ e = <<term[i], i>>
    <3>1. PICK i \in Member : role[i] = "CANDIDATE" /\ e = <<term[i], i>>
      BY <2>2
    <3>2. <<term[i], i, i>> \in cast
      BY <3>1 DEF LedInv, OwnVote
    <3>3. \/ disk[i].term > term[i]
          \/ disk[i] = [term |-> term[i], voted_for |-> i]
      BY <3>2 DEF VoteIsDurable
    <3>4. e[1] = term[i] /\ e[2] = i
      BY <3>1
    <3>5. term[i] \in Nat /\ disk[i].term \in Nat
      BY <1>2, <1>3, <3>4
    <3>6. CASE disk[i].term > term[i]
      BY <3>4, <3>5, <3>6
    <3>7. CASE disk[i] = [term |-> term[i], voted_for |-> i]
      <4>1. disk[i].term = term[i]
        BY <3>7
      <4>2. QED
        BY <3>4, <3>5, <4>1
    <3>8. QED
      BY <3>3, <3>6, <3>7
  <2>3. QED
    BY <2>1, <2>2, ElectedGrows
<1>5. QED
  BY <1>2, <1>3, <1>4

\* Every step keeps the invariant, as long as no save has failed.
LEMMA MatchStep ==
  ASSUME Inv, Inv', VoteInv, BallotLink, MatchInv, saveFailures' = 0,
         ElectionSafety', [Next]_vars
  PROVE  MatchInv'
<1>1. SpanMove /\ CandidateMove
  BY StepLogMoves DEF LogMoves
<1>2. SpansInv /\ LedInv /\ FileFollowed /\ VoteIsDurable
  BY DEF MatchInv, VoteInv
<1>3. PICK S : Grows(S)
  BY <1>1, <1>2, SpanMoveGrows
<1>4. VoteKept
  BY VoteStep
<1>5. cast \subseteq cast'
  BY StepMoves, StutterMove, CastGrows DEF Moves
<1>6. SpansInv'
  BY <1>1, <1>2, <1>3, MatchedKept, ZeroKept, TermsKept, HoldsKept DEF SpansInv
<1>7. LedInv'
  BY <1>1, <1>2, <1>4, <1>5, LeadersElectedKept, CandidatesKept, OwnVoteKept, BehindKept
     DEF LedInv
<1>8. QED
  BY <1>6, <1>7 DEF MatchInv

\* At the start the logs are empty, nothing is in flight and nobody was elected.
LEMMA MatchInit ==
  ASSUME Init
  PROVE  MatchInv
<1>1. Appended = {}
  BY DEF Init, Appended, Sent, Range
<1>2. EmptyLog \in FullLog /\ LastIndex(EmptyLog) = 0
  BY FreshTypes
<1>3. Spans = {LogSpan(log[i]) : i \in Member}
  BY <1>1 DEF Spans
<1>4. \A g \in Spans : g = LogSpan(EmptyLog)
  BY <1>3 DEF Init
<1>5. DOMAIN LogSpan(EmptyLog) = 0 .. 0 /\ LogSpan(EmptyLog)[0] = 0
  BY <1>2, LogSpanIs
<1>6. /\ elected = {} /\ \A k \in Member : role[k] = "FOLLOWER"
  BY DEF Init
<1>7. SpansInv
  <2>1. Matched
    BY <1>4, AgreeSelf DEF Matched
  <2>2. ZeroAtZero
    BY <1>4, <1>5 DEF ZeroAtZero
  <2>3. TermsLed
    <3>1. \A n \in DOMAIN LogSpan(EmptyLog) : n = 0
      BY <1>5
    <3>2. QED
      BY <1>4, <3>1 DEF TermsLed
  <2>4. LeaderHolds
    BY <1>6 DEF LeaderHolds
  <2>5. QED
    BY <2>1, <2>2, <2>3, <2>4 DEF SpansInv
<1>8. LedInv
  BY <1>6 DEF LedInv, LeadersElected, CandidatesNew, OwnVote, ElectedBehind
<1>9. QED
  BY <1>7, <1>8 DEF MatchInv

\* Where two logs have the same term at an index, so have they before it.
LEMMA MatchedLogs ==
  ASSUME Inv, Matched
  PROVE  LogMatching
<1> SUFFICES ASSUME NEW i \in Member, NEW j \in Member,
                    NEW n \in 1 .. Least(LastIndex(log[i]), LastIndex(log[j])),
                    TermAt(log[i], n) = TermAt(log[j], n), NEW k \in 1 .. n
             PROVE  TermAt(log[i], k) = TermAt(log[j], k)
  BY DEF LogMatching
<1> DEFINE f == LogSpan(log[i])
           g == LogSpan(log[j])
<1>1. /\ DOMAIN f = 0 .. LastIndex(log[i]) /\ LastIndex(log[i]) \in Nat
      /\ DOMAIN g = 0 .. LastIndex(log[j]) /\ LastIndex(log[j]) \in Nat
      /\ \A x \in 0 .. LastIndex(log[i]) : f[x] = TermAt(log[i], x)
      /\ \A x \in 0 .. LastIndex(log[j]) : g[x] = TermAt(log[j], x)
  BY MemberFacts, LogSpanIs
<1>2. Agree(f, g)
  BY DEF Matched, Spans
<1>3. /\ n \in 0 .. LastIndex(log[i]) /\ n \in 0 .. LastIndex(log[j])
      /\ k \in 0 .. LastIndex(log[i]) /\ k \in 0 .. LastIndex(log[j]) /\ k <= n
  BY <1>1 DEF Least
<1> HIDE DEF f, g
<1>4. f[n] = g[n]
  BY <1>1, <1>3
<1>5. f[k] = g[k]
  BY <1>1, <1>2, <1>3, <1>4 DEF Agree
<1>6. QED
  BY <1>1, <1>3, <1>5

\* The invariant holds as long as no save has failed.
THEOREM MatchInvHolds == Spec /\ [](saveFailures = 0) => []MatchInv
<1>1. Init => MatchInv
  BY MatchInit
<1>2. Inv /\ Inv' /\ VoteInv /\ BallotLink /\ MatchInv /\ (saveFailures = 0)'
        /\ ElectionSafety' /\ [Next]_vars => MatchInv'
  BY MatchStep
<1>3. QED
  BY <1>1, <1>2, InvHolds, VoteInvHolds, OneLeaderATerm, PTL DEF Spec

\* In a cluster of any size, whatever is lost, delayed or restarted, two logs
\* with the same term at an index agree on everything before it, as long as no
\* save of a term file has failed (the anchor check of on_append_entries, and
\* append_replicated).
THEOREM LogsMatch == Spec /\ [](saveFailures = 0) => []LogMatching
<1>1. Inv /\ MatchInv => LogMatching
  BY MatchedLogs DEF MatchInv, SpansInv
<1>2. QED
  BY <1>1, InvHolds, MatchInvHolds, PTL
=============================================================================
