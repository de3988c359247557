----------------------- MODULE SnapshotTransferProofs -----------------------
(***************************************************************************)
(* Proofs about SnapshotTransfer, for any number of leaders that depose    *)
(* one another, of chunks, drops and restarts: what is installed is one    *)
(* snapshot, it covers what was discarded, and nothing that an earlier     *)
(* incarnation of the follower held is credited to the one there is.       *)
(*                                                                         *)
(* The follower, what is in flight and what each leader knows each have an *)
(* invariant of their own.  Every step changes one of them, and keeps or   *)
(* raises what the others refer to.                                        *)
(***************************************************************************)
EXTENDS SnapshotTransfer, TLAPS

-----------------------------------------------------------------------------
(* The follower.                                                           *)

Walks == [index : Nat, discard : Nat, open : BOOLEAN]

Identities == Nat \X Leader \X Nat

Assemblies == [identity : Identities \cup {<<>>}, data : Seq(Nat \X Nat)]

Followers == [term : Nat, commit : Nat, applied : Nat, boundary : Nat,
              snapshot : Nat, walk : Walks, whole : BOOLEAN, last : Nat,
              held : Nat, assembly : [Leader -> Assemblies], incarnation : Nat]

\* What is assembled is the beginning of the snapshot that its identity names.
Aligned(a) ==
    /\ Len(a.data) < Chunks
    /\ \A i \in 1 .. Len(a.data) : a.data[i] = <<a.identity[3], i - 1>>

\* A compaction that is not abandoned walks what is at or beyond the boundary.
FollowerOK(g) ==
    /\ g \in Followers
    /\ g.applied <= g.commit /\ g.commit <= g.last /\ g.last <= g.held
    /\ g.held <= MaxIndex
    /\ g.boundary <= g.snapshot
    /\ g.walk.open => g.walk.discard = g.walk.index /\ g.boundary <= g.walk.index
    /\ g.whole
    /\ \A l \in Leader : Aligned(g.assembly[l])

-----------------------------------------------------------------------------
(* What is in flight.                                                      *)

Chunked == [id : Nat, carrier : Leader \X Nat, identity : Identities,
            offset : Nat, of : Nat, done : BOOLEAN]

\* A chunk is labelled with the snapshot that its identity names.
FrameOK(c) ==
    /\ c \in Chunked
    /\ c.offset < Chunks /\ c.of <= MaxIndex
    /\ c.of = c.identity[3]
    /\ c.done <=> c.offset + 1 = Chunks

Replies == [id : Nat, to : Leader, term : Nat, received : Nat, done : BOOLEAN,
            commit : Nat]

ReplyOK(a) == a \in Replies /\ (a.done \/ a.received < Chunks)

\* It was sent with a number the leader has reached.
FlightOK ==
    /\ \A c \in frames : FrameOK(c) /\ c.id <= sequence[c.identity[2]]
    /\ \A a \in answers : ReplyOK(a) /\ a.id <= sequence[a.to]

-----------------------------------------------------------------------------
(* The leaders.                                                            *)

Appends == [term : Nat, prev : Nat, last : 0 .. MaxIndex, commit : Nat]

Peers == [match : Nat, next : Nat, offset : Nat, request : Nat, carrier : Nat,
          sending : Nat, floor : Nat]

PeerOK(p, n) ==
    /\ p \in Peers /\ p.match <= n /\ p.match < p.next
    /\ p.offset < Chunks /\ p.sending <= MaxIndex

Numbers ==
    /\ lead \in [Leader -> 0 .. MaxTerm]
    /\ applied \in [Leader -> 0 .. MaxIndex] /\ last \in [Leader -> 0 .. MaxIndex]
    /\ flight \in [Leader -> Appends]
    /\ snapshot \in [Leader -> Nat] /\ boundary \in [Leader -> Nat]
    /\ sequence \in [Leader -> Nat]
    /\ up \in [Leader -> 0 .. f.incarnation]
    /\ bulk \in [Leader -> Nat] /\ dialled \in [Leader -> Nat]

\* What is discarded is in the snapshot, and what a compaction walks is all
\* that is applied.
CompactionOK(l) ==
    /\ boundary[l] <= snapshot[l] /\ snapshot[l] <= applied[l] /\ applied[l] <= last[l]
    /\ walk[l] \in Walks
    /\ walk[l] # NoWalk => walk[l].index = applied[l] /\ walk[l].discard <= applied[l]

LeadersOK ==
    /\ walk \in [Leader -> Walks] /\ peer \in [Leader -> Peers]
    /\ \A l \in Leader : CompactionOK(l) /\ PeerOK(peer[l], last[l])

\* Somebody is the last leader elected: nobody has applied more, and no term
\* is beyond its own.
Last(k) ==
    /\ lead[k] > 0
    /\ \A l \in Leader :
          applied[l] <= applied[k] /\ lead[l] <= lead[k] /\ (lead[l] = lead[k] => l = k)
    /\ f.term <= lead[k]
    /\ \A l \in Leader : flight[l].term <= lead[k]
    /\ \A c \in frames : c.identity[1] <= lead[k]
    /\ \A a \in answers : a.term <= lead[k]

OneIsLast == \E k \in Leader : Last(k)

\* An answer that a leader takes says what this incarnation has committed.
AnswersHeld ==
    \A a \in answers :
        /\ lead[a.to] > 0 /\ up[a.to] = f.incarnation
        /\ a.term = lead[a.to] /\ a.id > peer[a.to].floor
        => a.commit <= f.commit

Types == FollowerOK(f) /\ FlightOK /\ Numbers /\ LeadersOK
Inv == Types /\ OneIsLast /\ AnswersHeld /\ CreditWasHeld

-----------------------------------------------------------------------------
(* A follower.                                                             *)

LEMMA Bounds ==
    ASSUME TransferAssumption
    PROVE  /\ Chunks \in Nat /\ Chunks # 0 /\ MaxIndex \in Nat /\ MaxTerm \in Nat
           /\ MaxTerm # 0 /\ First \in Leader
BY DEF TransferAssumption

LEMMA NothingAssembled ==
    ASSUME TransferAssumption
    PROVE  NoAssembly \in Assemblies /\ Aligned(NoAssembly)
<1>1. NoAssembly.identity = <<>> /\ NoAssembly.data = <<>>
  BY DEF NoAssembly
<1>2. NoAssembly \in Assemblies
  BY DEF NoAssembly, Assemblies
<1>3. Aligned(NoAssembly)
  BY <1>1, Bounds DEF Aligned
<1>4. QED
  BY <1>2, <1>3

LEMMA HigherOf ==
    ASSUME NEW a \in Nat, NEW b \in Nat
    PROVE  Higher(a, b) \in Nat /\ a <= Higher(a, b) /\ b <= Higher(a, b)
           /\ Higher(a, b) \in {a, b}
BY DEF Higher

LEMMA LowerOf ==
    ASSUME NEW a \in Nat, NEW b \in Nat
    PROVE  Lower(a, b) \in Nat /\ Lower(a, b) <= a /\ Lower(a, b) <= b
BY DEF Lower

\* What the others refer to of a follower.
Kin(g, h) ==
    /\ h.incarnation = g.incarnation
    /\ g.commit <= h.commit /\ g.applied <= h.applied /\ g.held <= h.held

\* It enters a term.
LEMMA TermEntered ==
    ASSUME TransferAssumption, FollowerOK(f), NEW t \in Nat
    PROVE  /\ FollowerOK(InTerm(t)) /\ InTerm(t).term = t /\ Kin(f, InTerm(t))
           /\ InTerm(t).commit = f.commit /\ InTerm(t).last = f.last
<1>1. CASE t = f.term
  BY <1>1 DEF InTerm, FollowerOK, Followers, Kin
<1>2. CASE t # f.term
  <2>1. PICK none : none = [l \in Leader |-> NoAssembly]
    OBVIOUS
  <2>2. none \in [Leader -> Assemblies] /\ \A l \in Leader : Aligned(none[l])
    BY <2>1, NothingAssembled
  <2>3. PICK g : g = [f EXCEPT !.term = t, !.assembly = none]
    OBVIOUS
  <2>4. /\ g \in Followers /\ g.term = t /\ g.assembly = none
        /\ g.commit = f.commit /\ g.applied = f.applied /\ g.boundary = f.boundary
        /\ g.snapshot = f.snapshot /\ g.walk = f.walk /\ g.whole = f.whole
        /\ g.incarnation = f.incarnation /\ g.last = f.last /\ g.held = f.held
    BY <2>2, <2>3 DEF FollowerOK, Followers
  <2>5. InTerm(t) = g
    BY <1>2, <2>1, <2>3 DEF InTerm
  <2>6. FollowerOK(g)
    BY <2>2, <2>4 DEF FollowerOK
  <2>7. Kin(f, g)
    BY <2>4 DEF Kin, FollowerOK, Followers
  <2> QED
    BY <2>4, <2>5, <2>6, <2>7
<1>3. QED
  BY <1>1, <1>2

\* It takes what an append carries: its log and its commit index only rise.
LEMMA EntriesTaken ==
    ASSUME TransferAssumption, NEW g, FollowerOK(g), NEW a \in Appends
    PROVE  /\ FollowerOK(Taken(g, a)) /\ Kin(g, Taken(g, a)) /\ Taken(g, a).term = g.term
           /\ ~Refused(g, a) => Vouched(g, a) <= Taken(g, a).held
<1>1. /\ g \in Followers /\ g.commit \in Nat /\ g.last \in Nat /\ g.held \in Nat
      /\ a.prev \in Nat /\ a.last \in Nat /\ a.last <= MaxIndex /\ a.commit \in Nat
      /\ g.commit <= g.last /\ g.last <= g.held /\ g.held <= MaxIndex /\ MaxIndex \in Nat
  BY Bounds DEF FollowerOK, Followers, Appends
<1>2. CASE a.prev < g.commit \/ Refused(g, a)
  <2>1. Taken(g, a) = g
    BY <1>2 DEF Taken
  <2>2. Kin(g, g)
    BY <1>1 DEF Kin, Followers
  <2>3. ~Refused(g, a) => Vouched(g, a) = g.commit
    BY <1>2 DEF Vouched
  <2> QED
    BY <1>1, <2>1, <2>2, <2>3
<1>3. CASE ~(a.prev < g.commit \/ Refused(g, a))
  <2>1. PICK n : n = Higher(g.last, a.last)
    OBVIOUS
  <2>2. PICK x : x = Lower(a.commit, a.last)
    OBVIOUS
  <2>3. PICK c : c = Higher(g.commit, x)
    OBVIOUS
  <2>4. PICK m : m = Higher(g.held, a.last)
    OBVIOUS
  <2>5. x \in Nat /\ x <= a.last
    BY <1>1, <2>2, LowerOf
  <2>6. /\ n \in Nat /\ c \in Nat /\ m \in Nat /\ g.commit <= c /\ c <= n /\ n <= m
        /\ g.held <= m /\ m <= MaxIndex /\ a.last <= m
    BY <1>1, <2>1, <2>3, <2>4, <2>5 DEF Higher
  <2>7. PICK h : h = [g EXCEPT !.last = n, !.held = m, !.commit = c]
    OBVIOUS
  <2>8. Taken(g, a) = h
    BY <1>3, <2>1, <2>2, <2>3, <2>4, <2>7 DEF Taken
  <2>9. /\ h \in Followers /\ h.term = g.term /\ h.assembly = g.assembly
        /\ h.commit = c /\ h.applied = g.applied /\ h.boundary = g.boundary
        /\ h.snapshot = g.snapshot /\ h.walk = g.walk /\ h.whole = g.whole
        /\ h.incarnation = g.incarnation /\ h.last = n /\ h.held = m
    BY <1>1, <2>6, <2>7 DEF Followers
  <2>10. FollowerOK(h)
    BY <1>1, <2>6, <2>9 DEF FollowerOK, Followers
  <2>11. Kin(g, h)
    BY <1>1, <2>6, <2>9 DEF Kin, Followers
  <2>12. Vouched(g, a) = a.last
    BY <1>3 DEF Vouched
  <2> QED
    BY <2>6, <2>8, <2>9, <2>10, <2>11, <2>12
<1>4. QED
  BY <1>2, <1>3

\* What it assembles for leader l changes.
LEMMA Reassembled ==
    ASSUME NEW g, FollowerOK(g), NEW l \in Leader, NEW a \in Assemblies, Aligned(a)
    PROVE  /\ FollowerOK([g EXCEPT !.assembly[l] = a])
           /\ Kin(g, [g EXCEPT !.assembly[l] = a])
           /\ [g EXCEPT !.assembly[l] = a].commit = g.commit
           /\ [g EXCEPT !.assembly[l] = a].term = g.term
<1>1. PICK all : all = [g.assembly EXCEPT ![l] = a]
  OBVIOUS
<1>2. all \in [Leader -> Assemblies] /\ \A k \in Leader : Aligned(all[k])
  BY <1>1 DEF FollowerOK, Followers
<1>3. PICK h : h = [g EXCEPT !.assembly = all]
  OBVIOUS
<1>4. /\ h \in Followers /\ h.term = g.term /\ h.assembly = all
      /\ h.commit = g.commit /\ h.applied = g.applied /\ h.boundary = g.boundary
      /\ h.snapshot = g.snapshot /\ h.walk = g.walk /\ h.whole = g.whole
      /\ h.incarnation = g.incarnation /\ h.last = g.last /\ h.held = g.held
  BY <1>2, <1>3 DEF FollowerOK, Followers
<1>5. FollowerOK(h) /\ Kin(g, h)
  BY <1>2, <1>4 DEF FollowerOK, Kin, Followers
<1>6. [g EXCEPT !.assembly[l] = a] = h
  BY <1>1, <1>3
<1>7. QED
  BY <1>4, <1>5, <1>6

\* A snapshot beyond what is committed is installed.
LEMMA InstalledOK ==
    ASSUME TransferAssumption, NEW g, FollowerOK(g), NEW c, FrameOK(c), g.commit < c.of,
           NEW data, Whole(data)
    PROVE  /\ FollowerOK(Installed(g, c, data)) /\ Kin(g, Installed(g, c, data))
           /\ Installed(g, c, data).term = g.term
           /\ Installed(g, c, data).commit \in Nat
<1>1. /\ c.of \in Nat /\ c.of <= MaxIndex /\ c.identity[2] \in Leader /\ MaxIndex \in Nat
      /\ g.commit \in Nat /\ g.held \in Nat /\ g.held <= MaxIndex
  BY Bounds DEF FrameOK, Chunked, Identities, FollowerOK, Followers
<1>2. PICK all : all = [g.assembly EXCEPT ![c.identity[2]] = NoAssembly]
  OBVIOUS
<1>3. all \in [Leader -> Assemblies] /\ \A k \in Leader : Aligned(all[k])
  BY <1>1, <1>2, NothingAssembled DEF FollowerOK, Followers
<1>4. PICK w : w = [g.walk EXCEPT !.open = FALSE]
  OBVIOUS
<1>5. w \in Walks /\ w.open = FALSE
  BY <1>4 DEF FollowerOK, Followers, Walks
<1>6. PICK n : n = Higher(g.commit, c.of)
  OBVIOUS
<1>7. n \in Nat /\ n = c.of
  BY <1>1, <1>6 DEF Higher
<1>15. PICK m : m = Higher(g.held, c.of)
  OBVIOUS
<1>16. m \in Nat /\ c.of <= m /\ g.held <= m /\ m <= MaxIndex
  BY <1>1, <1>15 DEF Higher
<1>8. PICK h : h = [g EXCEPT !.applied = c.of, !.commit = n, !.last = c.of, !.held = m,
                             !.boundary = c.of, !.snapshot = c.of, !.walk = w,
                             !.whole = Whole(data), !.assembly = all]
  OBVIOUS
<1>9. Installed(g, c, data) = h
  BY <1>2, <1>4, <1>6, <1>15, <1>8 DEF Installed
<1>10. Whole(data) = TRUE
  OBVIOUS
<1>11. /\ h \in Followers /\ h.term = g.term /\ h.assembly = all
       /\ h.commit = n /\ h.applied = c.of /\ h.boundary = c.of
       /\ h.snapshot = c.of /\ h.walk = w /\ h.whole = TRUE
       /\ h.incarnation = g.incarnation /\ h.last = c.of /\ h.held = m
  BY <1>1, <1>3, <1>5, <1>7, <1>8, <1>10, <1>16 DEF FollowerOK, Followers
<1>12. FollowerOK(h)
  BY <1>1, <1>3, <1>5, <1>7, <1>11, <1>16 DEF FollowerOK
<1>13. Kin(g, h)
  BY <1>1, <1>7, <1>11, <1>16 DEF Kin, FollowerOK, Followers
<1>14. QED
  BY <1>7, <1>9, <1>11, <1>12, <1>13

\* The chunk that goes on where the assembly ends.
LEMMA ChunkGoesOn ==
    ASSUME TransferAssumption, NEW a \in Assemblies, Aligned(a), NEW c, FrameOK(c),
           a.identity = c.identity, c.offset = Len(a.data),
           NEW data, data = Append(a.data, <<c.of, c.offset>>)
    PROVE  /\ data \in Seq(Nat \X Nat) /\ Len(data) = c.offset + 1 /\ Whole(data)
           /\ ~c.done => Aligned([a EXCEPT !.data = data])
           /\ [a EXCEPT !.data = data] \in Assemblies
<1>1. /\ a.data \in Seq(Nat \X Nat) /\ c.of = c.identity[3]
      /\ c.of \in Nat /\ c.offset \in Nat /\ c.offset < Chunks
      /\ \A i \in 1 .. Len(a.data) : a.data[i] = <<c.of, i - 1>>
  BY DEF Assemblies, FrameOK, Chunked, Aligned
<1>2. /\ data \in Seq(Nat \X Nat) /\ Len(data) = c.offset + 1
      /\ data[c.offset + 1] = <<c.of, c.offset>>
      /\ \A i \in 1 .. c.offset : data[i] = a.data[i]
  BY <1>1
<1>3. \A i \in 1 .. Len(data) : data[i] = <<c.of, i - 1>>
  <2> SUFFICES ASSUME NEW i \in 1 .. Len(data)
               PROVE  data[i] = <<c.of, i - 1>>
    OBVIOUS
  <2>1. CASE i = c.offset + 1
    BY <1>1, <1>2, <2>1
  <2>2. CASE i # c.offset + 1
    <3>1. i \in 1 .. c.offset /\ i \in 1 .. Len(a.data)
      BY <1>1, <1>2, <2>2
    <3> QED
      BY <1>1, <1>2, <3>1
  <2> QED
    BY <2>1, <2>2
<1>4. Whole(data)
  <2>1. 1 \in 1 .. Len(data)
    BY <1>1, <1>2
  <2>2. data[1] = <<c.of, 1 - 1>>
    BY <1>3, <2>1
  <2>3. data[1][1] = c.of
    BY <2>2
  <2> QED
    BY <1>3, <2>3 DEF Whole
<1>5. PICK b : b = [a EXCEPT !.data = data]
  OBVIOUS
<1>6. b \in Assemblies /\ b.identity = a.identity /\ b.data = data
  BY <1>2, <1>5 DEF Assemblies
<1>7. ~c.done => Aligned(b)
  <2>1. ~c.done => c.offset + 1 # Chunks
    BY DEF FrameOK
  <2>2. ~c.done => Len(data) < Chunks
    BY <1>1, <1>2, <2>1, Bounds
  <2> QED
    BY <1>1, <1>3, <1>6, <2>2 DEF Aligned
<1>8. QED
  BY <1>2, <1>4, <1>5, <1>6, <1>7

\* An answer to chunk c.
AnswersTo(a, c, g) ==
    /\ ReplyOK(a) /\ a.id = c.id /\ a.to = c.identity[2]
    /\ a.term = g.term /\ a.commit = g.commit

LEMMA AnswerGoesOn ==
    ASSUME NEW c, FrameOK(c), NEW g, FollowerOK(g), NEW n \in Nat, n < Chunks
    PROVE  AnswersTo(AnswerTo(c, n, FALSE, g), c, g)
BY DEF AnswersTo, AnswerTo, ReplyOK, Replies, FrameOK, Chunked, Identities, FollowerOK, Followers

LEMMA AnswerIsDone ==
    ASSUME NEW c, FrameOK(c), NEW g, FollowerOK(g), NEW n \in Nat
    PROVE  AnswersTo(AnswerTo(c, n, TRUE, g), c, g)
BY DEF AnswersTo, AnswerTo, ReplyOK, Replies, FrameOK, Chunked, Identities, FollowerOK, Followers

\* What r is of a follower g that receives chunk c.
Answers(r, g, c) ==
    \E h, a :
        /\ r = <<h, a>> /\ FollowerOK(h) /\ Kin(g, h) /\ h.term = g.term
        /\ AnswersTo(a, c, h)

LEMMA Received ==
    ASSUME TransferAssumption, NEW g, FollowerOK(g), NEW c, FrameOK(c)
    PROVE  Answers(Receive(g, c), g, c)
<1>1. PICK l : l = c.identity[2]
  OBVIOUS
<1>2. /\ l \in Leader /\ c.offset \in Nat /\ c.of \in Nat /\ c.offset < Chunks
      /\ c.done \in BOOLEAN /\ g.commit \in Nat /\ c.identity \in Identities
      /\ Chunks \in Nat /\ 0 < Chunks
  BY <1>1, Bounds DEF FrameOK, Chunked, Identities, FollowerOK, Followers
<1>3. PICK held : held = IF c.offset = 0 THEN [identity |-> c.identity, data |-> <<>>]
                         ELSE g.assembly[l]
  OBVIOUS
<1>4. held \in Assemblies /\ Aligned(held)
  <2>1. CASE c.offset = 0
    <3>1. held.identity = c.identity /\ held.data = <<>> /\ Len(held.data) = 0
      BY <1>3, <2>1
    <3>2. held \in Assemblies
      BY <1>2, <1>3, <2>1 DEF Assemblies
    <3> QED
      BY <1>2, <3>1, <3>2 DEF Aligned
  <2>2. CASE c.offset # 0
    BY <1>2, <1>3, <2>2 DEF FollowerOK, Followers
  <2> QED
    BY <2>1, <2>2
<1>5. PICK data : data = Append(held.data, <<c.of, c.offset>>)
  OBVIOUS
<1>6. PICK dropped : dropped = [g EXCEPT !.assembly[l] = NoAssembly]
  OBVIOUS
<1>7. /\ FollowerOK(dropped) /\ Kin(g, dropped) /\ dropped.commit = g.commit
      /\ dropped.term = g.term
  BY <1>2, <1>6, NothingAssembled, Reassembled
<1>8. CASE AlreadyHeld(g, c)
  <2>1. PICK a : a = AnswerTo(c, 0, FALSE, g)
    OBVIOUS
  <2>2. AnswersTo(a, c, g)
    BY <1>2, <2>1, AnswerGoesOn
  <2>3. Receive(g, c) = <<dropped, a>>
    BY <1>1, <1>6, <1>8, <2>1 DEF Receive
  <2> QED
    BY <1>7, <2>2, <2>3 DEF Answers, AnswersTo
<1>9. CASE ~AlreadyHeld(g, c) /\ Holds(held, c)
  <2>1. PICK a : a = AnswerTo(c, Len(held.data), FALSE, g)
    OBVIOUS
  <2>2. Len(held.data) \in Nat /\ Len(held.data) < Chunks
    BY <1>4 DEF Aligned, Assemblies
  <2>3. AnswersTo(a, c, g)
    BY <2>1, <2>2, AnswerGoesOn
  <2>4. Receive(g, c) = <<g, a>>
    BY <1>1, <1>3, <1>9, <2>1 DEF Receive
  <2>5. Kin(g, g)
    BY DEF Kin, FollowerOK, Followers
  <2> QED
    BY <2>3, <2>4, <2>5 DEF Answers, AnswersTo
<1>10. CASE ~AlreadyHeld(g, c) /\ ~Holds(held, c)
              /\ ~(Matches(held, c) /\ c.offset = Len(held.data))
  <2>1. PICK a : a = AnswerTo(c, 0, FALSE, g)
    OBVIOUS
  <2>2. AnswersTo(a, c, g)
    BY <1>2, <2>1, AnswerGoesOn
  <2>3. Receive(g, c) = <<dropped, a>>
    BY <1>1, <1>3, <1>6, <1>10, <2>1 DEF Receive
  <2> QED
    BY <1>7, <2>2, <2>3 DEF Answers, AnswersTo
<1>11. CASE /\ ~AlreadyHeld(g, c) /\ ~Holds(held, c)
            /\ Matches(held, c) /\ c.offset = Len(held.data)
  <2>1. /\ data \in Seq(Nat \X Nat) /\ Len(data) = c.offset + 1 /\ Whole(data)
        /\ ~c.done => Aligned([held EXCEPT !.data = data])
        /\ [held EXCEPT !.data = data] \in Assemblies
    BY <1>4, <1>5, <1>11, ChunkGoesOn DEF Matches
  <2>2. CASE ~c.done
    <3>1. PICK b : b = [held EXCEPT !.data = data]
      OBVIOUS
    <3>2. PICK h : h = [g EXCEPT !.assembly[l] = b]
      OBVIOUS
    <3>3. FollowerOK(h) /\ Kin(g, h) /\ h.commit = g.commit /\ h.term = g.term
      <4>1. b \in Assemblies /\ Aligned(b)
        BY <2>1, <2>2, <3>1
      <4> QED
        BY <1>2, <3>2, <4>1, Reassembled
    <3>4. PICK a : a = AnswerTo(c, Len(data), FALSE, g)
      OBVIOUS
    <3>5. Len(data) \in Nat /\ Len(data) < Chunks
      BY <1>2, <2>1, <2>2 DEF FrameOK
    <3>6. AnswersTo(a, c, g)
      BY <3>4, <3>5, AnswerGoesOn
    <3>7. Receive(g, c) = <<h, a>>
      BY <1>1, <1>3, <1>5, <1>11, <2>2, <3>1, <3>2, <3>4 DEF Receive
    <3> QED
      BY <3>3, <3>6, <3>7 DEF Answers, AnswersTo
  <2>3. CASE c.done
    <3>1. PICK h : h = Installed(g, c, data)
      OBVIOUS
    <3>2. FollowerOK(h) /\ Kin(g, h) /\ h.term = g.term
      <4>1. g.commit < c.of
        BY <1>2, <1>11 DEF AlreadyHeld
      <4> QED
        BY <2>1, <3>1, <4>1, InstalledOK
    <3>3. PICK a : a = AnswerTo(c, Len(data), TRUE, h)
      OBVIOUS
    <3>4. AnswersTo(a, c, h)
      <4>1. Len(data) \in Nat
        BY <1>2, <2>1
      <4> QED
        BY <3>2, <3>3, <4>1, AnswerIsDone
    <3>5. Receive(g, c) = <<h, a>>
      BY <1>1, <1>3, <1>5, <1>11, <2>3, <3>1, <3>3 DEF Receive
    <3> QED
      BY <3>2, <3>4, <3>5 DEF Answers
  <2> QED
    BY <1>2, <2>2, <2>3
<1>12. QED
  BY <1>8, <1>9, <1>10, <1>11

-----------------------------------------------------------------------------
(* The steps that leave leaders and connections alone.                     *)

\* A frame or an answer that was there, or is new and fits.
Framed(c) ==
    \/ c \in frames
    \/ /\ FrameOK(c) /\ c.id <= sequence'[c.identity[2]]
       /\ c.identity[1] = lead[c.identity[2]]

Replied(a) ==
    \/ a \in answers
    \/ /\ ReplyOK(a) /\ a.id <= sequence[a.to]
       /\ a.term = f'.term /\ a.commit = f'.commit

\* The log of a leader grows, and what it commits, no further than the last one
\* elected has committed.
Grows ==
    /\ UNCHANGED <<lead, snapshot, boundary, walk>>
    /\ applied' \in [Leader -> 0 .. MaxIndex] /\ last' \in [Leader -> 0 .. MaxIndex]
    /\ \A x \in Leader : last[x] <= last'[x] /\ CompactionOK(x)'
    /\ \A k \in Leader : Last(k) => \A x \in Leader : applied'[x] <= applied'[k]

\* An append in flight stays, is sent or is over.
Flown(x) ==
    /\ flight'[x] \in Appends
    /\ flight'[x].term \in {flight[x].term, lead[x], 0}

\* Where the follower's term comes from.
Termed ==
    \/ f'.term = f.term
    \/ \E x \in Leader : f'.term = flight[x].term
    \/ \E c \in frames : f'.term = c.identity[1]

\* Leader l may know p of the follower, who keeps what it has, and send to it.
Sends(l, p) ==
    /\ Grows /\ UNCHANGED links
    /\ PeerOK(p, last'[l]) /\ p.floor = peer[l].floor
    /\ lead[l] > 0 /\ up[l] = f.incarnation => p.match <= f'.held
    /\ FollowerOK(f') /\ Kin(f, f') /\ Termed
    /\ \A a \in answers' : Replied(a)

\* It does, and knows q.
Progress(l, q) ==
    /\ Sends(l, q)
    /\ peer' = [peer EXCEPT ![l] = q]
    /\ sequence' \in [Leader -> Nat] /\ \A x \in Leader : sequence[x] <= sequence'[x]
    /\ flight' \in [Leader -> Appends] /\ \A x \in Leader : Flown(x)
    /\ \A c \in frames' : Framed(c)

\* Nothing of a leader changes.
LEMMA Same ==
    ASSUME TransferAssumption, Inv
    PROVE  /\ UNCHANGED leaders => Grows
           /\ UNCHANGED flight => flight' \in [Leader -> Appends] /\ \A x \in Leader : Flown(x)
<1>1. /\ applied \in [Leader -> 0 .. MaxIndex] /\ last \in [Leader -> 0 .. MaxIndex]
      /\ flight \in [Leader -> Appends] /\ MaxIndex \in Nat
      /\ \A x \in Leader : CompactionOK(x)
  BY Bounds DEF Inv, Types, Numbers, LeadersOK
<1>2. UNCHANGED leaders => Grows
  <2> SUFFICES ASSUME UNCHANGED leaders
               PROVE  Grows
    OBVIOUS
  <2>1. UNCHANGED <<lead, applied, last, snapshot, boundary, walk>>
    BY DEF leaders
  <2>2. \A x \in Leader : CompactionOK(x)'
    BY <1>1, <2>1 DEF CompactionOK
  <2>3. \A x \in Leader : last[x] <= last'[x]
    BY <1>1, <2>1
  <2>4. \A k \in Leader : Last(k) => \A x \in Leader : applied'[x] <= applied'[k]
    BY <2>1 DEF Last
  <2> QED
    BY <1>1, <2>1, <2>2, <2>3, <2>4 DEF Grows
<1>3. UNCHANGED flight => flight' \in [Leader -> Appends] /\ \A x \in Leader : Flown(x)
  BY <1>1 DEF Flown
<1>4. QED
  BY <1>2, <1>3

LEMMA ProgressTypes ==
    ASSUME TransferAssumption, Inv, NEW l \in Leader, NEW q, Progress(l, q)
    PROVE  Types'
<1>1. /\ FollowerOK(f) /\ FlightOK /\ Numbers /\ LeadersOK
      /\ sequence' \in [Leader -> Nat] /\ \A x \in Leader : sequence[x] <= sequence'[x]
      /\ sequence \in [Leader -> Nat]
  BY DEF Inv, Types, Progress, Numbers
<1>2. FollowerOK(f)'
  BY DEF Progress, Sends, FollowerOK, Aligned
<1>3. ASSUME NEW c \in frames'
      PROVE  FrameOK(c) /\ c.id <= sequence'[c.identity[2]]
  <2>1. CASE c \in frames
    <3>1. FrameOK(c) /\ c.id <= sequence[c.identity[2]]
      BY <1>1, <2>1 DEF FlightOK
    <3>2. c.id \in Nat /\ c.identity[2] \in Leader
      BY <3>1 DEF FrameOK, Chunked, Identities
    <3> QED
      BY <1>1, <3>1, <3>2
  <2> QED
    BY <1>3, <2>1 DEF Progress, Framed
<1>4. ASSUME NEW a \in answers'
      PROVE  ReplyOK(a) /\ a.id <= sequence'[a.to]
  <2>1. ReplyOK(a) /\ a.id <= sequence[a.to]
    BY <1>1, <1>4 DEF FlightOK, Progress, Sends, Replied
  <2>2. a.id \in Nat /\ a.to \in Leader
    BY <2>1 DEF ReplyOK, Replies
  <2> QED
    BY <1>1, <2>1, <2>2
<1>5. FlightOK'
  BY <1>3, <1>4 DEF FlightOK
<1>6. Numbers'
  BY <1>1 DEF Numbers, Progress, Sends, Grows, Kin, links
<1>7. LeadersOK'
  <2>1. /\ walk' = walk /\ \A x \in Leader : last[x] <= last'[x] /\ CompactionOK(x)'
        /\ last \in [Leader -> 0 .. MaxIndex] /\ last' \in [Leader -> 0 .. MaxIndex]
        /\ peer' = [peer EXCEPT ![l] = q] /\ PeerOK(q, last'[l]) /\ MaxIndex \in Nat
    BY <1>1, Bounds DEF Progress, Sends, Grows, Numbers
  <2>2. peer' \in [Leader -> Peers]
    BY <1>1, <2>1 DEF LeadersOK, PeerOK
  <2>3. ASSUME NEW k \in Leader
        PROVE  PeerOK(peer'[k], last'[k])
    <3>1. CASE k = l
      BY <1>1, <2>1, <3>1 DEF LeadersOK
    <3>2. CASE k # l
      <4>1. peer'[k] = peer[k] /\ PeerOK(peer[k], last[k])
        BY <1>1, <2>1, <3>2 DEF LeadersOK
      <4>2. last[k] \in Nat /\ last'[k] \in Nat /\ last[k] <= last'[k]
        BY <2>1
      <4> QED
        BY <4>1, <4>2 DEF PeerOK, Peers
    <3> QED
      BY <3>1, <3>2
  <2> QED
    BY <1>1, <2>1, <2>2, <2>3 DEF LeadersOK
<1>8. QED
  BY <1>2, <1>5, <1>6, <1>7 DEF Types

LEMMA ProgressLast ==
    ASSUME TransferAssumption, Inv, NEW l \in Leader, NEW q, Progress(l, q)
    PROVE  OneIsLast'
<1>1. PICK k \in Leader : Last(k)
  BY DEF Inv, OneIsLast
<1>2. /\ lead \in [Leader -> 0 .. MaxTerm] /\ lead' = lead /\ lead[k] \in Nat /\ Termed
      /\ \A x \in Leader : applied'[x] <= applied'[k]
      /\ \A c \in frames' : Framed(c)
      /\ \A a \in answers' : Replied(a)
      /\ \A x \in Leader : Flown(x)
  BY <1>1, Bounds DEF Inv, Types, Numbers, Progress, Sends, Grows
<1>3. f'.term <= lead[k]
  BY <1>1, <1>2 DEF Last, Termed
<1>4. ASSUME NEW c \in frames'
      PROVE  c.identity[1] <= lead[k]
  BY <1>1, <1>2, <1>4 DEF Last, Framed, FrameOK, Chunked, Identities
<1>5. ASSUME NEW a \in answers'
      PROVE  a.term <= lead[k]
  BY <1>1, <1>2, <1>3, <1>5 DEF Last, Replied
<1>6. ASSUME NEW x \in Leader
      PROVE  flight'[x].term <= lead[k]
  BY <1>1, <1>2, <1>6 DEF Last, Flown
<1>7. Last(k)'
  BY <1>1, <1>2, <1>3, <1>4, <1>5, <1>6 DEF Last
<1>8. QED
  BY <1>7 DEF OneIsLast

LEMMA ProgressHeld ==
    ASSUME TransferAssumption, Inv, NEW l \in Leader, NEW q, Progress(l, q)
    PROVE  AnswersHeld' /\ CreditWasHeld'
<1>1. /\ FollowerOK(f) /\ FollowerOK(f') /\ Kin(f, f') /\ peer \in [Leader -> Peers]
      /\ lead' = lead /\ up' = up /\ peer' = [peer EXCEPT ![l] = q]
      /\ q.floor = peer[l].floor
      /\ lead[l] > 0 /\ up[l] = f.incarnation => q.match <= f'.held
  BY DEF Inv, Types, Progress, Sends, Grows, links, LeadersOK
<1>2. f.commit \in Nat /\ f'.commit \in Nat /\ f.commit <= f'.commit
      /\ f.held \in Nat /\ f'.held \in Nat /\ f.held <= f'.held
      /\ f'.incarnation = f.incarnation
  BY <1>1 DEF FollowerOK, Followers, Kin
<1>3. ASSUME NEW a \in answers',
             lead[a.to] > 0, up[a.to] = f.incarnation, a.term = lead[a.to],
             a.id > peer'[a.to].floor
      PROVE  a.commit <= f'.commit
  <2>1. CASE a \in answers
    <3>1. a.to \in Leader /\ a.commit \in Nat
      BY <2>1 DEF Inv, Types, FlightOK, ReplyOK, Replies
    <3>2. peer'[a.to].floor = peer[a.to].floor
      BY <1>1, <3>1
    <3>3. a.commit <= f.commit
      BY <1>3, <2>1, <3>2 DEF Inv, AnswersHeld
    <3> QED
      BY <1>2, <3>1, <3>3
  <2>2. CASE a \notin answers
    BY <1>2, <2>2 DEF Progress, Sends, Replied
  <2> QED
    BY <2>1, <2>2
<1>4. AnswersHeld'
  BY <1>1, <1>2, <1>3 DEF AnswersHeld
<1>5. ASSUME NEW k \in Leader, lead[k] > 0, up[k] = f.incarnation
      PROVE  peer'[k].match <= f'.held
  <2>1. CASE k = l
    BY <1>1, <1>5, <2>1
  <2>2. CASE k # l
    <3>1. peer'[k] = peer[k] /\ peer[k].match \in Nat
      BY <1>1, <2>2 DEF Peers
    <3>2. peer[k].match <= f.held
      BY <1>5 DEF Inv, CreditWasHeld
    <3> QED
      BY <1>2, <3>1, <3>2
  <2> QED
    BY <2>1, <2>2
<1>6. CreditWasHeld'
  BY <1>1, <1>2, <1>5 DEF CreditWasHeld
<1>7. QED
  BY <1>4, <1>6

LEMMA Progresses ==
    ASSUME TransferAssumption, Inv, NEW l \in Leader, NEW q, Progress(l, q)
    PROVE  Inv' /\ Kin(f, f')
BY ProgressTypes, ProgressLast, ProgressHeld DEF Inv, Progress, Sends

-----------------------------------------------------------------------------
(* The follower takes a step.                                              *)

LEMMA Known ==
    ASSUME TransferAssumption, Inv, NEW l \in Leader
    PROVE  /\ FollowerOK(f) /\ f \in Followers /\ f.commit \in Nat /\ f.applied \in Nat
           /\ f.boundary \in Nat /\ f.snapshot \in Nat /\ f.term \in Nat /\ f.held \in Nat
           /\ f.commit <= f.held
           /\ peer[l] \in Peers /\ PeerOK(peer[l], last[l])
           /\ lead[l] \in Nat /\ lead[l] <= MaxTerm
           /\ applied[l] \in Nat /\ applied[l] <= last[l]
           /\ last[l] \in Nat /\ last[l] <= MaxIndex
           /\ flight[l] \in Appends /\ flight \in [Leader -> Appends]
           /\ snapshot[l] \in Nat /\ snapshot[l] <= applied[l]
           /\ boundary[l] \in Nat /\ boundary[l] <= snapshot[l]
           /\ sequence \in [Leader -> Nat] /\ peer \in [Leader -> Peers]
           /\ lead[l] > 0 /\ up[l] = f.incarnation => peer[l].match <= f.held
BY Bounds DEF Inv, Types, FollowerOK, Followers, LeadersOK, PeerOK, CompactionOK, Numbers,
   CreditWasHeld

\* Nothing but the follower changes.
LEMMA FollowerAlone ==
    ASSUME TransferAssumption, Inv, FollowerOK(f'), Kin(f, f'), Termed,
           UNCHANGED <<leaders, sender, links>>, frames' \subseteq frames,
           \A a \in answers' : Replied(a)
    PROVE  Inv' /\ Kin(f, f')
<1>1. First \in Leader
  BY Bounds
<1>2. PICK q : q = peer[First]
  OBVIOUS
<1>3. UNCHANGED <<peer, sequence, flight>> /\ sequence \in [Leader -> Nat]
  BY <1>1, Known DEF sender
<1>4. PeerOK(q, last'[First]) /\ peer' = [peer EXCEPT ![First] = q]
  <2>1. last' = last
    BY DEF leaders
  <2> QED
    BY <1>1, <1>2, <1>3, <2>1, Known
<1>5. lead[First] > 0 /\ up[First] = f.incarnation => q.match <= f'.held
  <2>1. q.match \in Nat /\ f.held \in Nat /\ f'.held \in Nat /\ f.held <= f'.held
    BY <1>1, <1>2, Known DEF Peers, Kin, FollowerOK, Followers
  <2> QED
    BY <1>1, <1>2, <2>1, Known
<1>6. sequence' \in [Leader -> Nat] /\ \A x \in Leader : sequence[x] <= sequence'[x]
  BY <1>3
<1>7. Grows /\ flight' \in [Leader -> Appends] /\ \A x \in Leader : Flown(x)
  BY <1>3, Same
<1>8. Sends(First, q)
  BY <1>2, <1>4, <1>5, <1>7 DEF Sends
<1>9. Progress(First, q)
  BY <1>4, <1>6, <1>7, <1>8 DEF Progress, Framed
<1>10. QED
  BY <1>1, <1>9, Progresses

LEMMA FollowerCompactionStarts ==
    ASSUME TransferAssumption, Inv, FollowerBeginsCompaction
    PROVE  Inv' /\ Kin(f, f')
<1>1. FollowerOK(f) /\ f \in Followers /\ f.applied \in Nat /\ f.boundary \in Nat
  BY Bounds, Known
<1>2. PICK w : w = [index |-> f.applied, discard |-> f.applied, open |-> TRUE]
  OBVIOUS
<1>3. w \in Walks /\ w.index = f.applied /\ w.discard = f.applied
  BY <1>1, <1>2 DEF Walks
<1>4. PICK h : h = [f EXCEPT !.walk = w]
  OBVIOUS
<1>5. f' = h /\ f.applied > f.boundary
  BY <1>2, <1>4 DEF FollowerBeginsCompaction
<1>6. /\ h \in Followers /\ h.term = f.term /\ h.assembly = f.assembly
      /\ h.commit = f.commit /\ h.applied = f.applied /\ h.boundary = f.boundary
      /\ h.snapshot = f.snapshot /\ h.walk = w /\ h.whole = f.whole
      /\ h.incarnation = f.incarnation /\ h.last = f.last /\ h.held = f.held
  BY <1>1, <1>3, <1>4 DEF Followers
<1>7. FollowerOK(h)
  BY <1>1, <1>3, <1>5, <1>6 DEF FollowerOK
<1>8. Kin(f, h)
  BY <1>1, <1>6 DEF Kin, Followers
<1>9. QED
  BY <1>5, <1>6, <1>7, <1>8, FollowerAlone DEF FollowerBeginsCompaction, Termed, Replied

LEMMA FollowerCompactionEnds ==
    ASSUME TransferAssumption, Inv, FollowerFinishesCompaction
    PROVE  Inv' /\ Kin(f, f')
<1>1. /\ FollowerOK(f) /\ f \in Followers /\ f.applied \in Nat /\ f.boundary \in Nat
      /\ f.snapshot \in Nat /\ f.walk \in Walks
  BY Bounds, Known DEF Followers
<1>2. NoWalk \in Walks /\ NoWalk.open = FALSE
  BY DEF NoWalk, Walks
<1>3. CASE f.walk.open
  <2>1. PICK n, b : n = f.walk.index /\ b = Higher(f.boundary, f.walk.discard)
    OBVIOUS
  <2>2. n \in Nat /\ b = n
    BY <1>1, <1>3, <2>1 DEF FollowerOK, Higher, Walks
  <2>3. PICK h : h = [f EXCEPT !.snapshot = n, !.boundary = b, !.walk = NoWalk]
    OBVIOUS
  <2>4. f' = h
    BY <1>3, <2>1, <2>3 DEF FollowerFinishesCompaction
  <2>5. /\ h \in Followers /\ h.term = f.term /\ h.assembly = f.assembly
        /\ h.commit = f.commit /\ h.applied = f.applied /\ h.boundary = b
        /\ h.snapshot = n /\ h.walk = NoWalk /\ h.whole = f.whole
        /\ h.incarnation = f.incarnation /\ h.last = f.last /\ h.held = f.held
    BY <1>1, <1>2, <2>2, <2>3 DEF Followers
  <2>6. FollowerOK(h) /\ Kin(f, h)
    BY <1>1, <1>2, <2>2, <2>5 DEF FollowerOK, Kin, Followers
  <2> QED
    BY <2>4, <2>5, <2>6, FollowerAlone
    DEF FollowerFinishesCompaction, Termed, Replied
<1>4. CASE ~f.walk.open
  <2>1. PICK h : h = [f EXCEPT !.walk = NoWalk]
    OBVIOUS
  <2>2. f' = h
    BY <1>4, <2>1 DEF FollowerFinishesCompaction
  <2>3. /\ h \in Followers /\ h.term = f.term /\ h.assembly = f.assembly
        /\ h.commit = f.commit /\ h.applied = f.applied /\ h.boundary = f.boundary
        /\ h.snapshot = f.snapshot /\ h.walk = NoWalk /\ h.whole = f.whole
        /\ h.incarnation = f.incarnation /\ h.last = f.last /\ h.held = f.held
    BY <1>1, <1>2, <2>1 DEF Followers
  <2>4. FollowerOK(h) /\ Kin(f, h)
    BY <1>1, <1>2, <2>3 DEF FollowerOK, Kin, Followers
  <2> QED
    BY <2>2, <2>3, <2>4, FollowerAlone
    DEF FollowerFinishesCompaction, Termed, Replied
<1>5. QED
  BY <1>3, <1>4

LEMMA FollowerApply ==
    ASSUME TransferAssumption, Inv, FollowerApplies
    PROVE  Inv' /\ Kin(f, f')
<1>1. /\ FollowerOK(f) /\ f \in Followers /\ f.applied \in Nat /\ f.commit \in Nat
  BY Bounds, Known
<1>2. PICK h : h = [f EXCEPT !.applied = f.commit]
  OBVIOUS
<1>3. /\ h \in Followers /\ h.term = f.term /\ h.assembly = f.assembly
      /\ h.commit = f.commit /\ h.applied = f.commit /\ h.boundary = f.boundary
      /\ h.snapshot = f.snapshot /\ h.walk = f.walk /\ h.whole = f.whole
      /\ h.incarnation = f.incarnation /\ h.last = f.last /\ h.held = f.held
  BY <1>1, <1>2 DEF Followers
<1>4. FollowerOK(h) /\ Kin(f, h)
  BY <1>1, <1>3 DEF FollowerOK, Kin, Followers
<1>5. QED
  BY <1>2, <1>3, <1>4, FollowerAlone DEF FollowerApplies, Termed, Replied

LEMMA AssemblyDrops ==
    ASSUME TransferAssumption, Inv, NEW l \in Leader, DropAssembly(l)
    PROVE  Inv' /\ Kin(f, f')
<1>1. PICK h : h = [f EXCEPT !.assembly[l] = NoAssembly]
  OBVIOUS
<1>2. FollowerOK(h) /\ Kin(f, h) /\ h.term = f.term
  BY <1>1, Known, NothingAssembled, Reassembled
<1>3. QED
  BY <1>1, <1>2, FollowerAlone DEF DropAssembly, Termed, Replied

\* A chunk arrives and is answered.
LEMMA ChunkArrives ==
    ASSUME TransferAssumption, Inv, NEW c \in frames, OnInstallSnapshot(c)
    PROVE  Inv' /\ Kin(f, f')
<1>1. /\ FrameOK(c) /\ c.id <= sequence[c.identity[2]] /\ FollowerOK(f)
      /\ c.identity[1] \in Nat /\ c.identity[2] \in Leader
  BY DEF Inv, Types, FlightOK, FrameOK, Chunked, Identities
<1>4. ASSUME NEW a, answers' = answers \cup {a}, AnswersTo(a, c, f'), FollowerOK(f'),
             Kin(f, f'), f'.term = f.term \/ f'.term = c.identity[1]
      PROVE  Inv' /\ Kin(f, f')
  <2>1. \A x \in answers' : Replied(x)
    BY <1>1, <1>4 DEF Replied, AnswersTo
  <2>2. Termed
    BY <1>4 DEF Termed
  <2>3. UNCHANGED <<leaders, sender, links>> /\ frames' \subseteq frames
    BY DEF OnInstallSnapshot
  <2> QED
    BY <1>4, <2>1, <2>2, <2>3, FollowerAlone
<1>5. CASE c.identity[1] < f.term
  <2>1. PICK a : a = AnswerTo(c, 0, FALSE, f)
    OBVIOUS
  <2>2. AnswersTo(a, c, f)
    <3>1. 0 \in Nat /\ 0 < Chunks
      BY Bounds
    <3> QED
      BY <1>1, <2>1, <3>1, AnswerGoesOn
  <2>3. f' = f /\ answers' = answers \cup {a}
    BY <1>5, <2>1 DEF OnInstallSnapshot
  <2>4. Kin(f, f)
    BY <1>1 DEF Kin, FollowerOK, Followers
  <2> QED
    BY <1>1, <1>4, <2>2, <2>3, <2>4
<1>6. CASE ~(c.identity[1] < f.term)
  <2>1. PICK g : g = InTerm(c.identity[1])
    OBVIOUS
  <2>2. FollowerOK(g) /\ g.term = c.identity[1] /\ Kin(f, g)
    BY <1>1, <2>1, TermEntered
  <2>3. PICK r : r = Receive(g, c)
    OBVIOUS
  <2>4. Answers(r, g, c)
    BY <1>1, <2>2, <2>3, Received
  <2>5. PICK h, a : /\ r = <<h, a>> /\ FollowerOK(h) /\ Kin(g, h) /\ h.term = g.term
                    /\ AnswersTo(a, c, h)
    BY <2>4 DEF Answers
  <2>6. f' = h /\ answers' = answers \cup {a}
    BY <1>6, <2>1, <2>3, <2>5 DEF OnInstallSnapshot
  <2>7. Kin(f, h)
    BY <1>1, <2>2, <2>5 DEF Kin, FollowerOK, Followers
  <2> QED
    BY <1>4, <2>2, <2>5, <2>6, <2>7
<1>7. QED
  BY <1>5, <1>6

-----------------------------------------------------------------------------
(* A leader sends, and reads what is answered.                             *)

\* What may be put in flight by leader l.
Flies(l, v) == v \in Appends /\ v.term \in {flight[l].term, lead[l], 0}

LEMMA InFlight ==
    ASSUME TransferAssumption, Inv, NEW l \in Leader, NEW v, Flies(l, v),
           flight' = [flight EXCEPT ![l] = v]
    PROVE  flight' \in [Leader -> Appends] /\ \A x \in Leader : Flown(x)
BY Known DEF Flies, Flown

LEMMA Flying ==
    ASSUME TransferAssumption, Inv, NEW l \in Leader
    PROVE  Flies(l, flight[l]) /\ Flies(l, NoAppend) /\ Flies(l, Keepalive(l))
<1>1. 0 \in 0 .. MaxIndex /\ 0 \in Nat /\ lead[l] \in Nat
  BY Known, Bounds
<1>2. Flies(l, flight[l])
  BY Known DEF Flies
<1>3. Flies(l, NoAppend)
  BY <1>1 DEF Flies, NoAppend, Appends
<1>4. Flies(l, Keepalive(l))
  BY <1>1 DEF Flies, Keepalive, Appends
<1>5. QED
  BY <1>2, <1>3, <1>4

LEMMA WindowFlies ==
    ASSUME TransferAssumption, Inv, NEW l \in Leader, NEW p, Sends(l, p)
    PROVE  Flies(l, Window(l, p))
<1>1. PICK n : n = p.next - 1
  OBVIOUS
<1>2. n \in Nat
  BY <1>1 DEF Sends, PeerOK, Peers
<1>3. last'[l] \in 0 .. MaxIndex /\ applied'[l] \in Nat /\ lead[l] \in Nat
  BY Known, Bounds DEF Sends, Grows
<1>4. PICK w : w = [term |-> lead[l], prev |-> n, last |-> last'[l], commit |-> applied'[l]]
  OBVIOUS
<1>5. w \in Appends /\ w.term = lead[l]
  BY <1>2, <1>3, <1>4 DEF Appends
<1>6. Window(l, p) = w
  BY <1>1, <1>4 DEF Window
<1>7. QED
  BY <1>5, <1>6 DEF Flies

\* Whatever it sends, what it knows but for the transfer is p.
LEMMA Sending ==
    ASSUME TransferAssumption, Inv, NEW l \in Leader, NEW p, NEW q, Sends(l, p),
           PeerOK(q, last'[l]), q.floor = p.floor, q.match = p.match,
           peer' = [peer EXCEPT ![l] = q],
           sequence' \in [Leader -> Nat], \A x \in Leader : sequence[x] <= sequence'[x],
           NEW v, Flies(l, v), flight' = [flight EXCEPT ![l] = v],
           \A c \in frames' : Framed(c)
    PROVE  Inv' /\ Kin(f, f')
<1>1. Sends(l, q)
  BY DEF Sends
<1>2. flight' \in [Leader -> Appends] /\ \A x \in Leader : Flown(x)
  BY InFlight
<1>3. Progress(l, q)
  BY <1>1, <1>2 DEF Progress
<1>4. QED
  BY <1>3, Progresses

\* It keeps p, and sends no chunk.
LEMMA NothingSent ==
    ASSUME TransferAssumption, Inv, NEW l \in Leader, NEW p, Sends(l, p),
           peer' = [peer EXCEPT ![l] = p], UNCHANGED sequence,
           NEW v, Flies(l, v), flight' = [flight EXCEPT ![l] = v],
           \A c \in frames' : c \in frames
    PROVE  Inv' /\ Kin(f, f')
<1>1. PeerOK(p, last'[l]) /\ sequence' \in [Leader -> Nat]
      /\ \A x \in Leader : sequence[x] <= sequence'[x]
  BY Known DEF Sends
<1>2. \A c \in frames' : Framed(c)
  BY DEF Framed
<1>3. QED
  BY <1>1, <1>2, Sending

LEMMA SnapshotSent ==
    ASSUME TransferAssumption, Inv, NEW l \in Leader, NEW p, Sends(l, p),
           NEW v, Flies(l, v), SendSnapshot(l, p, v)
    PROVE  Inv' /\ Kin(f, f')
<1>1. /\ p \in Peers /\ PeerOK(p, last'[l]) /\ snapshot[l] \in Nat
      /\ snapshot[l] <= applied[l] /\ applied[l] \in Nat /\ applied[l] <= MaxIndex
      /\ sequence \in [Leader -> Nat] /\ bulk[l] \in Nat /\ lead[l] \in Nat
      /\ Chunks \in Nat /\ 0 < Chunks /\ MaxIndex \in Nat
  <2>1. bulk[l] \in Nat /\ applied[l] <= MaxIndex
    BY Bounds DEF Inv, Types, Numbers
  <2> QED
    BY <2>1, Known, Bounds DEF Sends, PeerOK
<1>2. CASE SendsChunk(l, p)
  <2>1. PICK pin : pin = Pinned(l, p)
    OBVIOUS
  <2>2. PICK id : id = sequence[l] + 1
    OBVIOUS
  <2>3. PICK offset : offset = IF p.sending = 0 THEN 0 ELSE p.offset
    OBVIOUS
  <2>4. PICK done : done = (offset + 1 = Chunks)
    OBVIOUS
  <2>5. pin \in Nat /\ pin <= MaxIndex
    BY <1>1, <2>1 DEF Pinned, PeerOK, Peers
  <2>6. offset \in Nat /\ offset < Chunks /\ id \in Nat
    BY <1>1, <2>2, <2>3 DEF PeerOK, Peers
  <2>7. PICK q : q = [p EXCEPT !.sending = pin, !.offset = offset,
                               !.request = id, !.carrier = bulk[l]]
    OBVIOUS
  <2>8. q \in Peers /\ q.floor = p.floor /\ q.match = p.match /\ q.offset = offset
        /\ q.sending = pin /\ q.next = p.next
    BY <1>1, <2>5, <2>6, <2>7 DEF Peers
  <2>9. PeerOK(q, last'[l])
    BY <1>1, <2>5, <2>6, <2>8 DEF PeerOK
  <2>10. PICK c : c = [id |-> id, carrier |-> <<l, bulk[l]>>,
                       identity |-> <<lead[l], l, pin>>, offset |-> offset,
                       of |-> pin, done |-> done]
    OBVIOUS
  <2>11. /\ peer' = [peer EXCEPT ![l] = q] /\ sequence' = [sequence EXCEPT ![l] = id]
         /\ frames' = frames \cup {c} /\ flight' = [flight EXCEPT ![l] = v]
    BY <1>2, <2>1, <2>2, <2>3, <2>4, <2>7, <2>10 DEF SendSnapshot
  <2>12. /\ c.id = id /\ c.identity = <<lead[l], l, pin>> /\ c.offset = offset /\ c.of = pin
         /\ c.done = done
    BY <2>10
  <2>13. c \in Chunked
    <3>1. <<l, bulk[l]>> \in Leader \X Nat /\ <<lead[l], l, pin>> \in Nat \X Leader \X Nat
          /\ done \in BOOLEAN
      BY <1>1, <2>4, <2>5
    <3> QED
      BY <2>5, <2>6, <2>10, <3>1 DEF Chunked, Identities
  <2>14. FrameOK(c)
    <3>1. c.done <=> c.offset + 1 = Chunks
      BY <2>4, <2>12
    <3>2. c.of = c.identity[3] /\ c.offset < Chunks /\ c.of <= MaxIndex
      BY <2>5, <2>6, <2>12
    <3> QED
      BY <2>13, <3>1, <3>2 DEF FrameOK
  <2>15. sequence'[l] = id /\ sequence' \in [Leader -> Nat]
         /\ \A x \in Leader : sequence[x] <= sequence'[x]
    BY <1>1, <2>2, <2>6, <2>11
  <2>16. Framed(c)
    <3>1. c.identity[1] = lead[l] /\ c.identity[2] = l
      BY <2>12
    <3>2. c.id <= sequence'[c.identity[2]]
      BY <2>6, <2>12, <2>15, <3>1
    <3> QED
      BY <2>14, <3>1, <3>2 DEF Framed
  <2>17. \A x \in frames' : Framed(x)
    BY <2>11, <2>16 DEF Framed
  <2> QED
    BY <2>8, <2>9, <2>11, <2>15, <2>17, Sending
<1>3. CASE ~SendsChunk(l, p)
  <2>1. PICK w : w = Sent(l, v, Keepalive(l))
    OBVIOUS
  <2>2. Flies(l, w)
    BY <2>1, Flying DEF Sent
  <2>3. /\ peer' = [peer EXCEPT ![l] = p] /\ sequence' = sequence /\ frames' = frames
        /\ flight' = [flight EXCEPT ![l] = w]
    BY <1>3, <2>1 DEF SendSnapshot
  <2> QED
    BY <2>2, <2>3, NothingSent
<1>4. QED
  BY <1>2, <1>3

LEMMA AppendSent ==
    ASSUME TransferAssumption, Inv, NEW l \in Leader, NEW p, Sends(l, p),
           NEW v, Flies(l, v), SendAppend(l, p, v)
    PROVE  Inv' /\ Kin(f, f')
<1>1. CASE Stranded(l, p) /\ SendSnapshot(l, p, v)
  BY <1>1, SnapshotSent
<1>2. CASE ~Stranded(l, p)
  <2>1. PICK w : w = Sent(l, v, Window(l, p))
    OBVIOUS
  <2>2. Flies(l, w)
    BY <2>1, WindowFlies DEF Sent
  <2>3. /\ peer' = [peer EXCEPT ![l] = p] /\ sequence' = sequence /\ frames' = frames
        /\ flight' = [flight EXCEPT ![l] = w]
    BY <1>2, <2>1 DEF SendAppend
  <2> QED
    BY <2>2, <2>3, NothingSent
<1>3. QED
  BY <1>1, <1>2 DEF SendAppend

LEMMA Heartbeats ==
    ASSUME TransferAssumption, Inv, NEW l \in Leader, Heartbeat(l)
    PROVE  Inv'
<1>1. UNCHANGED <<leaders, links, answers, f>>
  BY DEF Heartbeat
<1>2. FollowerOK(f) /\ FollowerOK(f') /\ Kin(f, f') /\ last' = last /\ f' = f
  BY <1>1, Known DEF Kin, leaders
<1>3. Sends(l, peer[l])
  BY <1>1, <1>2, Same, Known DEF Sends, Termed, Replied
<1>4. SendAppend(l, peer[l], flight[l])
  BY DEF Heartbeat
<1>5. QED
  BY <1>3, <1>4, Flying, AppendSent

\* What an answer to an append credits the follower with, it holds.
LEMMA Acknowledged ==
    ASSUME TransferAssumption, Inv, NEW l \in Leader, NEW a, a = flight[l],
           NEW h, h \in Followers, f.held <= h.held,
           ~Refused(f, a) => Vouched(f, a) <= h.held,
           NEW p, p = Answered(l, peer[l], f, a)
    PROVE  /\ PeerOK(p, last[l]) /\ p.floor = peer[l].floor
           /\ lead[l] > 0 /\ up[l] = f.incarnation => p.match <= h.held
<1>1. /\ peer[l] \in Peers /\ PeerOK(peer[l], last[l]) /\ a \in Appends
      /\ last[l] \in Nat /\ f.commit \in Nat /\ f.last \in Nat /\ f.held \in Nat
      /\ h.held \in Nat /\ a.last \in Nat
      /\ lead[l] > 0 /\ up[l] = f.incarnation => peer[l].match <= f.held
  BY Known, Bounds DEF Followers, Appends
<1>2. CASE Refused(f, a)
  <2>1. PICK n : n = f.last + 1
    OBVIOUS
  <2>2. n \in Nat
    BY <1>1, <2>1
  <2>3. CASE n > peer[l].match /\ n < peer[l].next
    <3>1. p = [peer[l] EXCEPT !.next = n]
      BY <1>2, <2>1, <2>3 DEF Answered
    <3>2. p \in Peers /\ p.match = peer[l].match /\ p.next = n /\ p.floor = peer[l].floor
          /\ p.offset = peer[l].offset /\ p.sending = peer[l].sending
      BY <1>1, <2>2, <3>1 DEF Peers
    <3>3. peer[l].match < n
      BY <1>1, <2>2, <2>3 DEF Peers
    <3>4. PeerOK(p, last[l])
      BY <1>1, <3>2, <3>3 DEF PeerOK
    <3> QED
      BY <1>1, <3>2, <3>4 DEF Peers
  <2>4. CASE ~(n > peer[l].match /\ n < peer[l].next)
    <3>1. p = peer[l]
      BY <1>2, <2>1, <2>4 DEF Answered
    <3> QED
      BY <1>1, <3>1 DEF Peers
  <2> QED
    BY <2>3, <2>4
<1>3. CASE ~Refused(f, a)
  <2>1. PICK v : v = Vouched(f, a)
    OBVIOUS
  <2>2. v \in Nat /\ v <= h.held
    BY <1>1, <1>3, <2>1 DEF Vouched
  <2>3. PICK x : x = Lower(v, last[l])
    OBVIOUS
  <2>4. x \in Nat /\ x <= v /\ x <= last[l]
    BY <1>1, <2>2, <2>3, LowerOf
  <2>5. PICK m : m = Higher(peer[l].match, x)
    OBVIOUS
  <2>6. m \in Nat /\ m <= last[l]
        /\ (lead[l] > 0 /\ up[l] = f.incarnation => m <= h.held)
    BY <1>1, <2>2, <2>4, <2>5 DEF Higher, PeerOK, Peers
  <2>7. PICK n : n = Higher(peer[l].next, m + 1)
    OBVIOUS
  <2>8. n \in Nat /\ m < n
    BY <1>1, <2>6, <2>7 DEF Higher, Peers
  <2>9. p = [peer[l] EXCEPT !.match = m, !.next = n]
    BY <1>3, <2>1, <2>3, <2>5, <2>7 DEF Answered
  <2>10. p \in Peers /\ p.match = m /\ p.next = n /\ p.floor = peer[l].floor
         /\ p.offset = peer[l].offset /\ p.sending = peer[l].sending
    BY <1>1, <2>6, <2>8, <2>9 DEF Peers
  <2>11. PeerOK(p, last[l])
    BY <1>1, <2>6, <2>8, <2>10 DEF PeerOK
  <2> QED
    BY <2>6, <2>10, <2>11
<1>4. QED
  BY <1>2, <1>3

\* An append arrives and is answered.
LEMMA AppendAnswered ==
    ASSUME TransferAssumption, Inv, NEW l \in Leader, AppendArrives(l)
    PROVE  Inv' /\ Kin(f, f')
<1>1. PICK a : a = flight[l]
  OBVIOUS
<1>2. PICK g : g = InTerm(a.term)
  OBVIOUS
<1>3. PICK p : p = Answered(l, peer[l], f, a)
  OBVIOUS
<1>4. /\ f' = Taken(g, a) /\ UNCHANGED <<leaders, links, answers>>
      /\ \/ SendAppend(l, p, NoAppend)
         \/ /\ peer' = [peer EXCEPT ![l] = p]
            /\ flight' = [flight EXCEPT ![l] = NoAppend]
            /\ UNCHANGED <<sequence, frames>>
         \/ /\ flight' = [flight EXCEPT ![l] = NoAppend]
            /\ UNCHANGED <<peer, sequence, frames>>
  BY <1>1, <1>2, <1>3 DEF AppendArrives
<1>5. /\ FollowerOK(f) /\ f \in Followers /\ a \in Appends /\ a.term \in Nat
      /\ peer[l] \in Peers /\ PeerOK(peer[l], last[l]) /\ peer \in [Leader -> Peers]
      /\ lead[l] > 0 /\ up[l] = f.incarnation => peer[l].match <= f.held
  BY <1>1, Known DEF Appends
<1>6. /\ FollowerOK(g) /\ g.term = a.term /\ Kin(f, g) /\ g.commit = f.commit
      /\ g.last = f.last
  BY <1>2, <1>5, TermEntered
<1>7. /\ FollowerOK(f') /\ Kin(g, f') /\ f'.term = a.term
      /\ ~Refused(g, a) => Vouched(g, a) <= f'.held
  BY <1>4, <1>5, <1>6, EntriesTaken
<1>8. f' \in Followers /\ g \in Followers
  BY <1>6, <1>7 DEF FollowerOK
<1>9. Kin(f, f') /\ f.held <= f'.held /\ f.held \in Nat /\ f'.held \in Nat
  BY <1>5, <1>6, <1>7, <1>8 DEF Kin, Followers
<1>10. ~Refused(f, a) => Vouched(f, a) <= f'.held
  BY <1>6, <1>7 DEF Refused, Vouched
<1>11. Termed
  BY <1>1, <1>7 DEF Termed
<1>12. /\ PeerOK(p, last[l]) /\ p.floor = peer[l].floor
       /\ lead[l] > 0 /\ up[l] = f.incarnation => p.match <= f'.held
  BY <1>1, <1>3, <1>8, <1>9, <1>10, Acknowledged
<1>13. lead[l] > 0 /\ up[l] = f.incarnation => peer[l].match <= f'.held
  BY <1>5, <1>9 DEF Peers
<1>14. Grows /\ last' = last
  BY <1>4, Same DEF leaders
<1>15. Sends(l, p) /\ Sends(l, peer[l])
  BY <1>4, <1>5, <1>7, <1>9, <1>11, <1>12, <1>13, <1>14 DEF Sends, Replied
<1>16. Flies(l, NoAppend)
  BY Flying
<1>17. CASE SendAppend(l, p, NoAppend)
  BY <1>15, <1>16, <1>17, AppendSent
<1>18. CASE /\ peer' = [peer EXCEPT ![l] = p]
            /\ flight' = [flight EXCEPT ![l] = NoAppend]
            /\ UNCHANGED <<sequence, frames>>
  BY <1>15, <1>16, <1>18, NothingSent
<1>19. CASE /\ flight' = [flight EXCEPT ![l] = NoAppend]
            /\ UNCHANGED <<peer, sequence, frames>>
  <2>1. peer' = [peer EXCEPT ![l] = peer[l]]
    BY <1>5, <1>19
  <2> QED
    BY <1>15, <1>16, <1>19, <2>1, NothingSent
<1>20. QED
  BY <1>4, <1>17, <1>18, <1>19

LEMMA IgnoredReply ==
    ASSUME TransferAssumption, Inv, NEW a \in answers, OnIgnoredReply(a)
    PROVE  Inv'
<1>1. /\ UNCHANGED <<leaders, sender, links, f>> /\ frames' \subseteq frames
      /\ answers' \subseteq answers
  BY DEF OnIgnoredReply
<1>2. FollowerOK(f') /\ Kin(f, f') /\ Termed
  BY <1>1, Known, Bounds DEF Kin, Termed
<1>3. QED
  BY <1>1, <1>2, FollowerAlone DEF Replied

\* What an answer credits its sender with.
LEMMA Credited ==
    ASSUME TransferAssumption, Inv, NEW a \in answers, a.term = lead[a.to], ~Ignored(a),
           NEW p,
           p = IF Lower(a.commit, last[a.to]) > peer[a.to].match
               THEN [peer[a.to] EXCEPT !.match = Lower(a.commit, last[a.to]),
                                       !.next = Higher(@, Lower(a.commit, last[a.to]) + 1)]
               ELSE peer[a.to]
    PROVE  /\ PeerOK(p, last[a.to]) /\ p.floor = peer[a.to].floor
           /\ lead[a.to] > 0 /\ up[a.to] = f.incarnation => p.match <= f.held
<1>1. a.to \in Leader /\ a.commit \in Nat /\ a.id \in Nat /\ a.term \in Nat
  BY DEF Inv, Types, FlightOK, ReplyOK, Replies
<1>2. PICK l : l = a.to
  OBVIOUS
<1>3. PICK n : n = Lower(a.commit, last[l])
  OBVIOUS
<1>4. /\ peer[l] \in Peers /\ PeerOK(peer[l], last[l]) /\ last[l] \in Nat
      /\ f.commit \in Nat /\ f.held \in Nat /\ f.commit <= f.held
      /\ lead[l] > 0 /\ up[l] = f.incarnation => peer[l].match <= f.held
  BY <1>1, <1>2, Known
<1>5. n \in Nat /\ n <= a.commit /\ n <= last[l]
  BY <1>1, <1>3, <1>4, LowerOf
<1>6. lead[l] > 0 /\ up[l] = f.incarnation => n <= f.held
  <2>1. peer[l].floor \in Nat
    BY <1>4 DEF Peers
  <2>2. a.id > peer[l].floor
    BY <1>1, <1>2, <2>1 DEF Ignored
  <2>3. lead[l] > 0 /\ up[l] = f.incarnation => a.commit <= f.commit
    BY <1>2, <2>2 DEF Inv, AnswersHeld
  <2> QED
    BY <1>1, <1>4, <1>5, <2>3
<1>7. CASE n > peer[l].match
  <2>1. PICK x : x = Higher(peer[l].next, n + 1)
    OBVIOUS
  <2>2. x \in Nat /\ n < x
    BY <1>4, <1>5, <2>1 DEF Higher, Peers
  <2>3. p = [peer[l] EXCEPT !.match = n, !.next = x]
    BY <1>2, <1>3, <1>7, <2>1
  <2>4. p \in Peers /\ p.match = n /\ p.floor = peer[l].floor /\ p.offset = peer[l].offset
        /\ p.sending = peer[l].sending /\ p.next = x
    BY <1>4, <1>5, <2>2, <2>3 DEF Peers
  <2>5. PeerOK(p, last[l])
    BY <1>4, <1>5, <2>2, <2>4 DEF PeerOK
  <2> QED
    BY <1>2, <1>6, <2>4, <2>5
<1>8. CASE ~(n > peer[l].match)
  BY <1>2, <1>3, <1>4, <1>8
<1>9. QED
  BY <1>7, <1>8

LEMMA Reply ==
    ASSUME TransferAssumption, Inv, NEW a \in answers, OnReply(a)
    PROVE  Inv'
<1>1. PICK l : l = a.to
  OBVIOUS
<1>2. l \in Leader /\ a.received \in Nat /\ (a.done \/ a.received < Chunks)
  BY <1>1 DEF Inv, Types, FlightOK, ReplyOK, Replies
<1>3. PICK p : p = IF Lower(a.commit, last[l]) > peer[l].match
                   THEN [peer[l] EXCEPT !.match = Lower(a.commit, last[l]),
                                        !.next = Higher(@, Lower(a.commit, last[l]) + 1)]
                   ELSE peer[l]
  OBVIOUS
<1>4. /\ PeerOK(p, last[l]) /\ p.floor = peer[l].floor
      /\ lead[l] > 0 /\ up[l] = f.incarnation => p.match <= f.held
  BY <1>1, <1>3, Credited DEF OnReply
<1>5. p \in Peers /\ Chunks \in Nat /\ 0 < Chunks /\ p.match \in Nat
  BY <1>4, Bounds DEF PeerOK, Peers
<1>6. PICK covers : covers = (a.done \/ (p.sending > 0 /\ a.commit >= p.sending))
  OBVIOUS
<1>7. PICK over : over = [p EXCEPT !.request = 0, !.sending = 0, !.offset = 0]
  OBVIOUS
<1>8. /\ UNCHANGED <<leaders, links, f>> /\ answers' = answers \ {a}
      /\ \/ /\ peer' = [peer EXCEPT ![l] = p]
            /\ UNCHANGED <<sequence, flight, frames>>
         \/ SendAppend(l, [over EXCEPT !.next = p.match + 1], flight[l])
         \/ /\ peer' = [peer EXCEPT ![l] = over]
            /\ UNCHANGED <<sequence, flight, frames>>
         \/ /\ ~covers
            /\ SendSnapshot(l, [p EXCEPT !.request = 0, !.offset = a.received],
                            flight[l])
  BY <1>1, <1>3, <1>6, <1>7 DEF OnReply
<1>9. over \in Peers /\ over.match = p.match /\ over.floor = p.floor /\ over.offset = 0
      /\ over.sending = 0 /\ over.next = p.next
  BY <1>5, <1>7 DEF Peers
<1>10. PeerOK(over, last[l])
  BY <1>4, <1>5, <1>9, Bounds DEF PeerOK
<1>11. ASSUME NEW q, PeerOK(q, last[l]), q.floor = p.floor, q.match = p.match
       PROVE  Sends(l, q)
  <2>1. FollowerOK(f) /\ FollowerOK(f') /\ Kin(f, f') /\ f' = f /\ last' = last
    BY <1>2, <1>8, Known DEF Kin, leaders
  <2> QED
    BY <1>4, <1>8, <1>11, <2>1, Same DEF Sends, Termed, Replied
<1>12. Flies(l, flight[l]) /\ flight \in [Leader -> Appends]
  BY <1>2, Flying, Known
<1>13. UNCHANGED flight => flight' = [flight EXCEPT ![l] = flight[l]]
  BY <1>12
<1>14. Sends(l, p) /\ Sends(l, over)
  BY <1>4, <1>9, <1>10, <1>11
<1>15. CASE peer' = [peer EXCEPT ![l] = p] /\ UNCHANGED <<sequence, flight, frames>>
  BY <1>2, <1>12, <1>13, <1>14, <1>15, NothingSent
<1>16. CASE SendAppend(l, [over EXCEPT !.next = p.match + 1], flight[l])
  <2>1. PICK q : q = [over EXCEPT !.next = p.match + 1]
    OBVIOUS
  <2>2. q \in Peers /\ q.match = over.match /\ q.floor = over.floor
        /\ q.offset = over.offset /\ q.sending = over.sending /\ q.match < q.next
    <3>1. p.match + 1 \in Nat
      BY <1>5
    <3> QED
      BY <1>5, <1>9, <2>1, <3>1 DEF Peers
  <2>3. PeerOK(q, last[l])
    BY <1>10, <2>2 DEF PeerOK
  <2>4. Sends(l, q)
    BY <1>9, <1>11, <2>2, <2>3
  <2> QED
    BY <1>2, <1>12, <1>16, <2>1, <2>4, AppendSent
<1>17. CASE peer' = [peer EXCEPT ![l] = over] /\ UNCHANGED <<sequence, flight, frames>>
  BY <1>2, <1>12, <1>13, <1>14, <1>17, NothingSent
<1>18. CASE /\ ~covers
            /\ SendSnapshot(l, [p EXCEPT !.request = 0, !.offset = a.received],
                            flight[l])
  <2>1. PICK q : q = [p EXCEPT !.request = 0, !.offset = a.received]
    OBVIOUS
  <2>2. a.received < Chunks
    BY <1>2, <1>6, <1>18
  <2>3. q \in Peers /\ q.match = p.match /\ q.floor = p.floor
        /\ q.offset = a.received /\ q.sending = p.sending /\ q.next = p.next
    BY <1>2, <1>5, <2>1 DEF Peers
  <2>4. PeerOK(q, last[l])
    BY <1>4, <2>2, <2>3 DEF PeerOK
  <2>5. Sends(l, q)
    BY <1>11, <2>3, <2>4
  <2> QED
    BY <1>2, <1>12, <1>18, <2>1, <2>5, SnapshotSent
<1>19. QED
  BY <1>8, <1>15, <1>16, <1>17, <1>18

-----------------------------------------------------------------------------
(* Compaction and connections of a leader.                                 *)

\* What the leaders know stays as it is, and no chunk is added.
LEMMA Housekeeping ==
    ASSUME TransferAssumption, Inv,
           UNCHANGED <<lead, applied, last, peer, sequence, flight, up, answers, f>>,
           frames' \subseteq frames, walk' \in [Leader -> Walks],
           snapshot' \in [Leader -> Nat], boundary' \in [Leader -> Nat],
           bulk' \in [Leader -> Nat], dialled' \in [Leader -> Nat],
           \A l \in Leader : CompactionOK(l)'
    PROVE  Inv'
<1>1. Types /\ OneIsLast /\ AnswersHeld /\ CreditWasHeld
  BY DEF Inv
<1>2. FollowerOK(f)'
  BY <1>1 DEF Types, FollowerOK, Aligned
<1>3. FlightOK'
  BY <1>1 DEF Types, FlightOK
<1>4. Numbers'
  BY <1>1 DEF Types, Numbers
<1>5. LeadersOK'
  BY <1>1 DEF Types, LeadersOK, PeerOK
<1>6. OneIsLast'
  BY <1>1 DEF OneIsLast, Last
<1>7. AnswersHeld' /\ CreditWasHeld'
  BY <1>1 DEF AnswersHeld, CreditWasHeld
<1>8. QED
  BY <1>2, <1>3, <1>4, <1>5, <1>6, <1>7 DEF Inv, Types

LEMMA StateOfLeaders ==
    ASSUME Inv
    PROVE  /\ walk \in [Leader -> Walks] /\ snapshot \in [Leader -> Nat]
           /\ boundary \in [Leader -> Nat] /\ bulk \in [Leader -> Nat]
           /\ dialled \in [Leader -> Nat] /\ lead \in [Leader -> 0 .. MaxTerm]
           /\ applied \in [Leader -> 0 .. MaxIndex] /\ up \in [Leader -> 0 .. f.incarnation]
           /\ last \in [Leader -> 0 .. MaxIndex] /\ flight \in [Leader -> Appends]
           /\ \A l \in Leader : CompactionOK(l)
BY DEF Inv, Types, LeadersOK, Numbers

LEMMA CompactionStarts ==
    ASSUME TransferAssumption, Inv, NEW l \in Leader, BeginCompaction(l)
    PROVE  Inv'
<1>1. /\ applied[l] \in Nat /\ peer[l].match \in Nat
  BY Known DEF Peers
<1>2. PICK d \in DiscardTo(l) :
         walk' = [walk EXCEPT ![l] = [index |-> applied[l], discard |-> d, open |-> TRUE]]
  BY DEF BeginCompaction
<1>3. d \in Nat /\ d <= applied[l]
  <2>1. Lower(applied[l], peer[l].match) \in Nat /\ Lower(applied[l], peer[l].match) <= applied[l]
    BY <1>1, LowerOf
  <2> QED
    BY <1>1, <2>1 DEF DiscardTo
<1>4. PICK w : w = [index |-> applied[l], discard |-> d, open |-> TRUE]
  OBVIOUS
<1>5. w \in Walks /\ w.index = applied[l] /\ w.discard = d
  BY <1>1, <1>3, <1>4 DEF Walks
<1>6. walk' = [walk EXCEPT ![l] = w] /\ walk' \in [Leader -> Walks]
  BY <1>2, <1>4, <1>5, StateOfLeaders
<1>7. UNCHANGED <<lead, applied, last, peer, sequence, flight, up, answers, f, frames,
                  snapshot, boundary, bulk, dialled>>
  BY DEF BeginCompaction, links, sender
<1>8. \A k \in Leader : CompactionOK(k)'
  BY <1>3, <1>5, <1>6, <1>7, StateOfLeaders DEF CompactionOK
<1>9. QED
  BY <1>6, <1>7, <1>8, StateOfLeaders, Housekeeping

LEMMA CompactionEnds ==
    ASSUME TransferAssumption, Inv, NEW l \in Leader, FinishCompaction(l)
    PROVE  Inv'
<1>1. /\ walk[l] # NoWalk /\ walk[l].index = applied[l] /\ walk[l].discard <= applied[l]
      /\ walk[l].discard \in Nat /\ boundary[l] \in Nat /\ applied[l] \in Nat
      /\ boundary[l] <= snapshot[l] /\ snapshot[l] <= applied[l] /\ snapshot[l] \in Nat
  BY Known, StateOfLeaders DEF FinishCompaction, CompactionOK, Walks
<1>2. PICK b : b = Higher(boundary[l], walk[l].discard)
  OBVIOUS
<1>3. b \in Nat /\ b <= applied[l]
  BY <1>1, <1>2 DEF Higher
<1>4. NoWalk \in Walks
  BY DEF NoWalk, Walks
<1>5. /\ walk' = [walk EXCEPT ![l] = NoWalk] /\ boundary' = [boundary EXCEPT ![l] = b]
      /\ snapshot' = [snapshot EXCEPT ![l] = applied[l]]
  BY <1>1, <1>2, StateOfLeaders DEF FinishCompaction
<1>6. UNCHANGED <<lead, applied, last, peer, sequence, flight, up, answers, f, frames,
                  bulk, dialled>>
  BY DEF FinishCompaction, links, sender
<1>7. /\ walk' \in [Leader -> Walks] /\ boundary' \in [Leader -> Nat]
      /\ snapshot' \in [Leader -> Nat]
  BY <1>1, <1>3, <1>4, <1>5, StateOfLeaders
<1>8. ASSUME NEW k \in Leader
      PROVE  CompactionOK(k)'
  <2>1. CASE k = l
    BY <1>1, <1>3, <1>4, <1>5, <1>6, <2>1, StateOfLeaders DEF CompactionOK
  <2>2. CASE k # l
    <3>1. walk'[k] = walk[k] /\ boundary'[k] = boundary[k] /\ snapshot'[k] = snapshot[k]
      BY <1>5, <2>2, StateOfLeaders
    <3> QED
      BY <1>6, <3>1, StateOfLeaders DEF CompactionOK
  <2> QED
    BY <2>1, <2>2
<1>9. QED
  BY <1>6, <1>7, <1>8, StateOfLeaders, Housekeeping

LEMMA Untouched ==
    ASSUME Inv, UNCHANGED leaders
    PROVE  /\ walk' \in [Leader -> Walks] /\ snapshot' \in [Leader -> Nat]
           /\ boundary' \in [Leader -> Nat] /\ \A l \in Leader : CompactionOK(l)'
BY StateOfLeaders DEF leaders, CompactionOK

LEMMA BulkDialled ==
    ASSUME TransferAssumption, Inv, NEW l \in Leader, DialBulk(l)
    PROVE  Inv'
<1>1. dialled[l] + 1 \in Nat
  BY StateOfLeaders
<1>2. dialled' \in [Leader -> Nat] /\ bulk' \in [Leader -> Nat]
  BY <1>1, StateOfLeaders DEF DialBulk
<1>3. UNCHANGED <<leaders, lead, applied, last, peer, sequence, flight, up, answers, f, frames>>
  BY DEF DialBulk, leaders, sender
<1>4. QED
  BY <1>2, <1>3, Untouched, Housekeeping

LEMMA BulkDropped ==
    ASSUME TransferAssumption, Inv, NEW l \in Leader, DropBulk(l)
    PROVE  Inv'
<1>1. dialled' \in [Leader -> Nat] /\ bulk' \in [Leader -> Nat]
  BY StateOfLeaders DEF DropBulk
<1>2. UNCHANGED <<leaders, lead, applied, last, peer, sequence, flight, up, answers, f, frames>>
  BY DEF DropBulk, leaders, sender
<1>3. QED
  BY <1>1, <1>2, Untouched, Housekeeping

LEMMA FrameLost ==
    ASSUME TransferAssumption, Inv, NEW c \in frames, LoseFrame(c)
    PROVE  Inv'
<1>1. dialled' \in [Leader -> Nat] /\ bulk' \in [Leader -> Nat]
  BY StateOfLeaders DEF LoseFrame, links
<1>2. UNCHANGED <<leaders, lead, applied, last, peer, sequence, flight, up, answers, f>>
      /\ frames' \subseteq frames
  BY DEF LoseFrame, leaders, links, sender
<1>3. QED
  BY <1>1, <1>2, Untouched, Housekeeping

-----------------------------------------------------------------------------
(* A leader loses the follower or finds it again, leads, or stops leading. *)

\* Nobody leads anew.
LEMMA LastStays ==
    ASSUME TransferAssumption, Inv, UNCHANGED <<lead, applied>>, f'.term = f.term,
           frames' \subseteq frames, answers' \subseteq answers,
           \A x \in Leader : Flown(x)
    PROVE  OneIsLast'
<1>1. PICK k \in Leader : Last(k)
  BY DEF Inv, OneIsLast
<1>2. lead[k] \in Nat
  BY Known
<1>3. \A x \in Leader : flight'[x].term <= lead[k]
  BY <1>1, <1>2 DEF Last, Flown
<1>4. Last(k)'
  BY <1>1, <1>3 DEF Last
<1>5. QED
  BY <1>4 DEF OneIsLast

\* The follower and what is in flight stay, or there is less of it.
LEMMA Elsewhere ==
    ASSUME TransferAssumption, Inv, UNCHANGED <<sequence, f>>,
           frames' \subseteq frames, answers' \subseteq answers, Numbers', LeadersOK'
    PROVE  Types'
<1>1. FollowerOK(f)'
  BY DEF Inv, Types, FollowerOK, Aligned
<1>2. FlightOK'
  BY DEF Inv, Types, FlightOK
<1>3. QED
  BY <1>1, <1>2 DEF Types

LEMMA FollowerLost ==
    ASSUME TransferAssumption, Inv, NEW l \in Leader, PeerDown(l)
    PROVE  Inv'
<1>1. /\ UNCHANGED <<leaders, lead, applied, last, snapshot, boundary, walk, peer, sequence>>
      /\ UNCHANGED <<bulk, dialled, frames, answers, f>>
  BY DEF PeerDown, leaders
<1>2. /\ up' = [up EXCEPT ![l] = 0] /\ up[l] > 0 /\ up \in [Leader -> 0 .. f.incarnation]
      /\ f.incarnation \in Nat
  BY StateOfLeaders, Known DEF PeerDown, Followers
<1>3. up' \in [Leader -> 0 .. f.incarnation] /\ f.incarnation # 0
  BY <1>2
<1>12. flight' \in [Leader -> Appends] /\ \A x \in Leader : Flown(x)
  <2>1. flight' = [flight EXCEPT ![l] = NoAppend]
    BY DEF PeerDown
  <2> QED
    BY <2>1, Flying, InFlight
<1>4. Numbers' /\ LeadersOK'
  BY <1>1, <1>3, <1>12, Untouched DEF Inv, Types, Numbers, LeadersOK, PeerOK
<1>5. Types'
  BY <1>1, <1>4, Elsewhere
<1>6. OneIsLast'
  BY <1>1, <1>12, LastStays
<1>7. \A k \in Leader : up'[k] = f.incarnation => up[k] = f.incarnation
  BY <1>2, <1>3
<1>8. CreditWasHeld'
  BY <1>1, <1>7 DEF Inv, CreditWasHeld
<1>9. \A a \in answers : a.to \in Leader
  BY DEF Inv, Types, FlightOK, ReplyOK, Replies
<1>10. AnswersHeld'
  BY <1>1, <1>7, <1>9 DEF Inv, AnswersHeld
<1>11. QED
  BY <1>5, <1>6, <1>8, <1>10 DEF Inv

\* What a leader knows of a follower that it starts afresh with.
LEMMA Afresh ==
    ASSUME TransferAssumption, NEW n \in Nat, NEW s \in Nat
    PROVE  /\ [FreshPeer EXCEPT !.next = n + 1, !.floor = s] \in Peers
           /\ PeerOK([FreshPeer EXCEPT !.next = n + 1, !.floor = s], n)
           /\ [FreshPeer EXCEPT !.next = n + 1, !.floor = s].match = 0
           /\ [FreshPeer EXCEPT !.next = n + 1, !.floor = s].floor = s
           /\ [FreshPeer EXCEPT !.next = n + 1, !.floor = s].next = n + 1
<1>1. PICK m : m = n + 1
  OBVIOUS
<1>2. m \in Nat /\ 0 < m
  BY <1>1
<1>3. /\ FreshPeer \in Peers /\ FreshPeer.match = 0 /\ FreshPeer.offset = 0
      /\ FreshPeer.sending = 0
  BY DEF FreshPeer, Peers
<1>4. PICK p : p = [FreshPeer EXCEPT !.next = m, !.floor = s]
  OBVIOUS
<1>5. p \in Peers /\ p.match = 0 /\ p.offset = 0 /\ p.sending = 0 /\ p.floor = s
      /\ p.next = m /\ 0 < m
  BY <1>1, <1>2, <1>3, <1>4 DEF Peers
<1>6. PeerOK(p, n)
  BY <1>5, Bounds DEF PeerOK
<1>7. QED
  BY <1>1, <1>4, <1>5, <1>6

LEMMA FollowerFound ==
    ASSUME TransferAssumption, Inv, NEW l \in Leader, PeerUp(l)
    PROVE  Inv'
<1>1. /\ UNCHANGED <<leaders, lead, applied, last, snapshot, boundary, walk, sequence>>
      /\ UNCHANGED <<bulk, dialled, frames, answers, f>>
  BY DEF PeerUp, leaders
<1>2. /\ up' = [up EXCEPT ![l] = f.incarnation] /\ up \in [Leader -> 0 .. f.incarnation]
      /\ f.incarnation \in Nat /\ sequence[l] \in Nat /\ last[l] \in Nat
      /\ lead[l] \in Nat /\ f.held \in Nat /\ peer \in [Leader -> Peers]
      /\ PeerOK(peer[l], last[l]) /\ peer[l] \in Peers
  BY StateOfLeaders, Known DEF PeerUp, Followers
<1>17. PICK p : p = [FreshPeer EXCEPT !.next = last[l] + 1, !.floor = sequence[l]]
  OBVIOUS
<1>18. p \in Peers /\ PeerOK(p, last[l]) /\ p.match = 0 /\ p.floor = sequence[l]
       /\ p.next = last[l] + 1
  BY <1>2, <1>17, Afresh
<1>19. /\ lead[l] > 0 => /\ peer' = [peer EXCEPT ![l] = p]
                         /\ flight' = [flight EXCEPT ![l] = Window(l, p)]
       /\ ~(lead[l] > 0) => peer' = peer /\ flight' = flight
  BY <1>17 DEF PeerUp
<1>3. PICK q : q = IF lead[l] > 0 THEN p ELSE peer[l]
  OBVIOUS
<1>4. peer' = [peer EXCEPT ![l] = q]
  BY <1>2, <1>3, <1>19
<1>20. flight' \in [Leader -> Appends] /\ \A x \in Leader : Flown(x)
  <2>1. CASE lead[l] > 0
    <3>1. PICK n : n = p.next - 1
      OBVIOUS
    <3>2. n \in Nat
      BY <1>2, <1>18, <3>1
    <3>3. last'[l] \in 0 .. MaxIndex /\ applied'[l] \in Nat
      BY <1>1, Known, Bounds
    <3>4. PICK w : w = [term |-> lead[l], prev |-> n, last |-> last'[l],
                        commit |-> applied'[l]]
      OBVIOUS
    <3>5. w \in Appends /\ w.term = lead[l]
      BY <1>2, <3>2, <3>3, <3>4 DEF Appends
    <3>6. flight' = [flight EXCEPT ![l] = w]
      BY <1>19, <2>1, <3>1, <3>4 DEF Window
    <3>7. Flies(l, w)
      BY <3>5 DEF Flies
    <3> QED
      BY <3>6, <3>7, InFlight
  <2>2. CASE ~(lead[l] > 0)
    BY <1>19, <2>2, Same
  <2> QED
    BY <2>1, <2>2
<1>5. /\ q \in Peers /\ PeerOK(q, last[l])
      /\ lead[l] > 0 => q.match = 0 /\ q.floor = sequence[l]
  BY <1>2, <1>3, <1>18
<1>6. up' \in [Leader -> 0 .. f.incarnation]
  BY <1>2
<1>7. peer' \in [Leader -> Peers] /\ \A k \in Leader : PeerOK(peer'[k], last[k])
  BY <1>2, <1>4, <1>5 DEF Inv, Types, LeadersOK
<1>8. Numbers' /\ LeadersOK'
  BY <1>1, <1>6, <1>7, <1>20, Untouched DEF Inv, Types, Numbers, LeadersOK, PeerOK
<1>9. Types'
  BY <1>1, <1>8, Elsewhere
<1>10. OneIsLast'
  BY <1>1, <1>20, LastStays
<1>11. \A k \in Leader : k # l => up'[k] = up[k] /\ peer'[k] = peer[k]
  BY <1>2, <1>4
<1>12. peer'[l] = q
  BY <1>2, <1>4
<1>13. CreditWasHeld'
  BY <1>1, <1>2, <1>5, <1>11, <1>12 DEF Inv, CreditWasHeld
<1>14. ASSUME NEW a \in answers, lead[a.to] > 0, up'[a.to] = f.incarnation,
              a.term = lead[a.to], a.id > peer'[a.to].floor
       PROVE  a.commit <= f.commit
  <2>1. a.to \in Leader /\ a.id \in Nat /\ a.id <= sequence[a.to]
    BY DEF Inv, Types, FlightOK, ReplyOK, Replies
  <2>2. a.to # l
    BY <1>2, <1>5, <1>12, <1>14, <2>1
  <2> QED
    BY <1>11, <1>14, <2>1, <2>2 DEF Inv, AnswersHeld
<1>15. AnswersHeld'
  BY <1>1, <1>14 DEF AnswersHeld
<1>16. QED
  BY <1>9, <1>10, <1>13, <1>15 DEF Inv

LEMMA LeaderEnds ==
    ASSUME TransferAssumption, Inv, NEW l \in Leader, NEW k \in Leader, Last(k), k # l,
           UNCHANGED <<applied, last, snapshot, boundary, walk, peer, sequence, links,
                       frames, f>>,
           lead' = [lead EXCEPT ![l] = 0], answers' \subseteq answers,
           flight' \in [Leader -> Appends], \A x \in Leader : Flown(x)
    PROVE  Inv'
<1>1. UNCHANGED <<up, bulk, dialled>>
  BY DEF links
<1>2. lead \in [Leader -> 0 .. MaxTerm] /\ MaxTerm \in Nat
  BY StateOfLeaders, Bounds
<1>3. lead' \in [Leader -> 0 .. MaxTerm]
  BY <1>2
<1>4. Numbers' /\ LeadersOK'
  BY <1>1, <1>3 DEF Inv, Types, Numbers, LeadersOK, PeerOK, CompactionOK
<1>5. Types'
  BY <1>4, Elsewhere
<1>6. lead'[k] = lead[k] /\ lead[k] > 0 /\ lead[k] \in Nat
  BY <1>2 DEF Last
<1>7. \A x \in Leader : lead'[x] <= lead[k] /\ (lead'[x] = lead[k] => x = k)
  BY <1>2, <1>6 DEF Last
<1>8. \A x \in Leader : flight'[x].term <= lead[k]
  BY <1>6 DEF Last, Flown
<1>9. Last(k)'
  BY <1>6, <1>7, <1>8 DEF Last
<1>10. \A x \in Leader : lead'[x] > 0 => lead'[x] = lead[x]
  BY <1>2
<1>11. CreditWasHeld'
  BY <1>1, <1>10 DEF Inv, CreditWasHeld
<1>12. \A x \in answers : x.to \in Leader
  BY DEF Inv, Types, FlightOK, ReplyOK, Replies
<1>13. AnswersHeld'
  BY <1>1, <1>10, <1>12 DEF Inv, AnswersHeld
<1>14. QED
  BY <1>5, <1>9, <1>11, <1>13 DEF Inv, OneIsLast

LEMMA LeaderOfLaterTerm ==
    ASSUME TransferAssumption, Inv, NEW a \in answers, OnReplyOfLaterTerm(a)
    PROVE  Inv'
<1>1. a.to \in Leader /\ a.term \in Nat
  BY DEF Inv, Types, FlightOK, ReplyOK, Replies
<1>2. PICK l \in Leader : l = a.to
  BY <1>1
<1>3. PICK k \in Leader : Last(k)
  BY DEF Inv, OneIsLast
<1>4. /\ UNCHANGED <<applied, last, snapshot, boundary, walk, peer, sequence, links, frames,
                     f>>
      /\ flight' = flight /\ lead' = [lead EXCEPT ![l] = 0] /\ answers' \subseteq answers
      /\ a.term > lead[l]
  BY <1>2 DEF OnReplyOfLaterTerm, sender
<1>5. k # l
  BY <1>1, <1>3, <1>4, Known DEF Last
<1>6. QED
  BY <1>3, <1>4, <1>5, Same, LeaderEnds

\* An append of an earlier term is refused, and its sender learns the term.
LEMMA AppendRefused ==
    ASSUME TransferAssumption, Inv, NEW l \in Leader, AppendTooLate(l)
    PROVE  Inv'
<1>1. PICK k \in Leader : Last(k)
  BY DEF Inv, OneIsLast
<1>2. /\ UNCHANGED <<applied, last, snapshot, boundary, walk, peer, sequence, links, frames,
                     f, answers>>
      /\ flight' = [flight EXCEPT ![l] = NoAppend]
  BY DEF AppendTooLate
<1>3. flight' \in [Leader -> Appends] /\ \A x \in Leader : Flown(x)
  BY <1>2, Flying, InFlight
<1>4. CASE lead[l] < f.term
  <2>1. lead' = [lead EXCEPT ![l] = 0]
    BY <1>4 DEF AppendTooLate
  <2>2. k # l
    BY <1>1, <1>4, Known DEF Last
  <2> QED
    BY <1>1, <1>2, <1>3, <2>1, <2>2, LeaderEnds
<1>5. CASE ~(lead[l] < f.term)
  <2>1. lead' = lead
    BY <1>5, StateOfLeaders DEF AppendTooLate
  <2>2. UNCHANGED leaders /\ peer \in [Leader -> Peers] /\ sequence \in [Leader -> Nat]
    BY <1>2, <2>1, Known DEF leaders
  <2>3. FollowerOK(f) /\ FollowerOK(f') /\ Kin(f, f') /\ last' = last /\ f' = f
    BY <1>2, Known DEF Kin
  <2>4. Sends(l, peer[l])
    BY <1>2, <2>2, <2>3, Same, Known DEF Sends, Termed, Replied
  <2>5. peer' = [peer EXCEPT ![l] = peer[l]]
    BY <1>2, <2>2
  <2> QED
    BY <1>2, <2>4, <2>5, Flying, NothingSent
<1>6. QED
  BY <1>4, <1>5

\* The leader of the latest term is the last one elected.
LEMMA CurrentIsLast ==
    ASSUME TransferAssumption, Inv, NEW l \in Leader, Current(l)
    PROVE  Last(l)
<1>1. PICK k \in Leader : Last(k)
  BY DEF Inv, OneIsLast
<1>2. lead[k] <= lead[l] /\ lead[l] <= lead[k] /\ lead[k] \in Nat /\ lead[l] \in Nat
  BY <1>1, Known DEF Current, Last
<1>3. l = k
  BY <1>1, <1>2 DEF Last
<1>4. QED
  BY <1>1, <1>3

\* The log of that leader grows, or more of it is committed, and it says so.
LEMMA LogGrows ==
    ASSUME TransferAssumption, Inv, NEW l \in Leader, Last(l),
           UNCHANGED <<lead, snapshot, boundary, walk, links, answers, f>>,
           NEW m \in 0 .. MaxIndex, last' = [last EXCEPT ![l] = m], last[l] <= m,
           NEW n \in 0 .. m, applied' = [applied EXCEPT ![l] = n], applied[l] <= n,
           walk[l] = NoWalk \/ n = applied[l],
           Replicate(l)
    PROVE  Inv'
<1>1. /\ applied \in [Leader -> 0 .. MaxIndex] /\ last \in [Leader -> 0 .. MaxIndex]
      /\ MaxIndex \in Nat /\ m \in Nat /\ n \in Nat /\ n <= m /\ n <= MaxIndex
  BY StateOfLeaders, Bounds
<1>2. /\ applied' \in [Leader -> 0 .. MaxIndex] /\ applied'[l] = n
      /\ last' \in [Leader -> 0 .. MaxIndex] /\ last'[l] = m
      /\ \A k \in Leader : k # l => applied'[k] = applied[k] /\ last'[k] = last[k]
  BY <1>1
<1>3. ASSUME NEW k \in Leader
      PROVE  CompactionOK(k)' /\ last[k] <= last'[k]
  <2>1. CompactionOK(k) /\ snapshot[k] \in Nat /\ applied[k] \in Nat /\ last[k] \in Nat
    BY Known, StateOfLeaders
  <2>2. CASE k = l
    <3>1. snapshot[k] <= applied'[k] /\ applied'[k] <= last'[k]
      BY <1>1, <1>2, <2>1, <2>2 DEF CompactionOK
    <3>2. walk[k] # NoWalk => /\ walk[k].index = applied'[k]
                              /\ walk[k].discard <= applied'[k]
      BY <1>2, <2>1, <2>2 DEF CompactionOK
    <3> QED
      BY <1>2, <2>1, <2>2, <3>1, <3>2 DEF CompactionOK
  <2>3. CASE k # l
    BY <1>2, <2>1, <2>3 DEF CompactionOK
  <2> QED
    BY <2>2, <2>3
<1>4. ASSUME NEW k \in Leader, Last(k)
      PROVE  \A x \in Leader : applied'[x] <= applied'[k]
  <2>1. lead[k] <= lead[l] /\ lead[l] <= lead[k] /\ lead[k] \in Nat /\ lead[l] \in Nat
    BY <1>4, Known DEF Last
  <2>2. k = l
    BY <1>4, <2>1 DEF Last
  <2> QED
    BY <1>1, <1>2, <2>2 DEF Last
<1>5. Grows
  BY <1>2, <1>3, <1>4 DEF Grows
<1>6. FollowerOK(f) /\ FollowerOK(f') /\ Kin(f, f') /\ f' = f
  BY Known DEF Kin
<1>7. PeerOK(peer[l], last'[l])
  <2>1. PeerOK(peer[l], last[l]) /\ last[l] \in Nat /\ last[l] <= m
    BY Known
  <2> QED
    BY <1>1, <1>2, <2>1 DEF PeerOK, Peers
<1>8. Sends(l, peer[l])
  BY <1>5, <1>6, <1>7, Known DEF Sends, Termed, Replied
<1>9. CASE up[l] > 0
  <2>1. SendAppend(l, peer[l], flight[l])
    BY <1>9 DEF Replicate
  <2> QED
    BY <1>8, <2>1, Flying, AppendSent
<1>10. CASE ~(up[l] > 0)
  <2>1. UNCHANGED <<peer, sequence, flight, frames>>
    BY <1>10 DEF Replicate, sender
  <2>2. peer' = [peer EXCEPT ![l] = peer[l]] /\ flight' = [flight EXCEPT ![l] = flight[l]]
    BY <2>1, Known
  <2> QED
    BY <1>8, <2>1, <2>2, Flying, NothingSent
<1>11. QED
  BY <1>9, <1>10

LEMMA EntryProposed ==
    ASSUME TransferAssumption, Inv, NEW l \in Leader, Propose(l)
    PROVE  Inv'
<1>1. /\ UNCHANGED <<lead, snapshot, boundary, walk, links, answers, f, applied>>
      /\ last' = [last EXCEPT ![l] = last[l] + 1] /\ last[l] < MaxIndex
      /\ Current(l) /\ Replicate(l)
  BY DEF Propose
<1>2. /\ last[l] \in Nat /\ MaxIndex \in Nat /\ applied[l] \in Nat /\ applied[l] <= last[l]
  BY Known, Bounds
<1>3. PICK m : m = last[l] + 1
  OBVIOUS
<1>4. m \in 0 .. MaxIndex /\ last[l] <= m /\ applied[l] \in 0 .. m
  BY <1>1, <1>2, <1>3
<1>5. applied' = [applied EXCEPT ![l] = applied[l]]
  BY <1>1, StateOfLeaders
<1>6. last' = [last EXCEPT ![l] = m] /\ Last(l)
  BY <1>1, <1>3, CurrentIsLast
<1>7. UNCHANGED <<lead, snapshot, boundary, walk, links, answers, f>>
  BY <1>1
<1>8. PICK n : n = applied[l]
  OBVIOUS
<1>9. n \in 0 .. m /\ applied' = [applied EXCEPT ![l] = n] /\ applied[l] <= n
  BY <1>2, <1>4, <1>5, <1>8
<1>10. QED
  BY <1>1, <1>4, <1>6, <1>7, <1>8, <1>9, LogGrows

LEMMA EntryCommitted ==
    ASSUME TransferAssumption, Inv, NEW l \in Leader, Commit(l)
    PROVE  Inv'
<1>1. /\ UNCHANGED <<lead, snapshot, boundary, walk, links, answers, f, last>>
      /\ applied' = [applied EXCEPT ![l] = applied[l] + 1] /\ applied[l] < last[l]
      /\ walk[l] = NoWalk /\ Current(l) /\ Replicate(l)
  BY DEF Commit
<1>2. /\ last[l] \in Nat /\ MaxIndex \in Nat /\ applied[l] \in Nat /\ last[l] <= MaxIndex
  BY Known, Bounds
<1>3. PICK n : n = applied[l] + 1
  OBVIOUS
<1>4. n \in 0 .. last[l] /\ applied[l] <= n /\ last[l] \in 0 .. MaxIndex
  BY <1>1, <1>2, <1>3
<1>5. last' = [last EXCEPT ![l] = last[l]]
  BY <1>1, StateOfLeaders
<1>6. applied' = [applied EXCEPT ![l] = n] /\ Last(l)
  BY <1>1, <1>3, CurrentIsLast
<1>7. UNCHANGED <<lead, snapshot, boundary, walk, links, answers, f>>
  BY <1>1
<1>8. PICK m : m = last[l]
  OBVIOUS
<1>9. m \in 0 .. MaxIndex /\ last' = [last EXCEPT ![l] = m] /\ last[l] <= m /\ n \in 0 .. m
  BY <1>2, <1>4, <1>5, <1>8
<1>10. QED
  BY <1>1, <1>4, <1>6, <1>7, <1>9, LogGrows

LEMMA LeaderDeposed ==
    ASSUME TransferAssumption, Inv, NEW l \in Leader, NEW k \in Leader, Depose(l, k)
    PROVE  Inv'
<1>1. /\ UNCHANGED <<snapshot, boundary, walk, sequence, up, bulk, dialled, frames, answers, f>>
      /\ lead' = [lead EXCEPT ![l] = lead[k] + 1]
      /\ applied' = [applied EXCEPT ![l] = applied[k]]
      /\ last' = [last EXCEPT ![l] = last[k] + 1]
      /\ walk[l] = NoWalk /\ l # k /\ lead[k] < MaxTerm /\ last[k] < MaxIndex
      /\ last \in [Leader -> 0 .. MaxIndex] /\ flight \in [Leader -> Appends]
      /\ lead \in [Leader -> 0 .. MaxTerm] /\ applied \in [Leader -> 0 .. MaxIndex]
      /\ MaxIndex \in Nat /\ MaxTerm \in Nat
  BY StateOfLeaders, Bounds DEF Depose, links
<1>2. Last(k)
  BY CurrentIsLast DEF Depose
<1>3. PICK q : q = [FreshPeer EXCEPT !.next = last[k] + 1, !.floor = sequence[l]]
  OBVIOUS
<1>4. q \in Peers /\ PeerOK(q, last[k] + 1) /\ q.match = 0
  <2>1. last[k] \in Nat /\ sequence[l] \in Nat
    BY Known
  <2>2. q \in Peers /\ PeerOK(q, last[k]) /\ q.match = 0
    BY <1>3, <2>1, Afresh
  <2> QED
    BY <2>1, <2>2 DEF PeerOK
<1>5. peer' = [peer EXCEPT ![l] = q] /\ peer \in [Leader -> Peers]
  BY <1>3, Known DEF Depose
<1>6. /\ lead' \in [Leader -> 0 .. MaxTerm] /\ lead'[l] = lead[k] + 1
      /\ applied' \in [Leader -> 0 .. MaxIndex] /\ applied'[l] = applied[k]
      /\ peer' \in [Leader -> Peers] /\ peer'[l] = q
      /\ last' \in [Leader -> 0 .. MaxIndex] /\ last'[l] = last[k] + 1
      /\ \A x \in Leader : x # l => last'[x] = last[x]
      /\ \A x \in Leader : x # l => /\ applied'[x] = applied[x] /\ lead'[x] = lead[x]
                                    /\ peer'[x] = peer[x]
  <2>1. lead[k] + 1 \in 0 .. MaxTerm /\ last[k] + 1 \in 0 .. MaxIndex
    BY <1>1
  <2> QED
    BY <1>1, <1>4, <1>5, <2>1
<1>18. PICK v : v = IF up[l] # f.incarnation THEN NoAppend
                    ELSE [term |-> lead[k] + 1, prev |-> last[k], last |-> last[k] + 1,
                          commit |-> applied[k]]
  OBVIOUS
<1>19. v \in Appends /\ (v.term = 0 \/ v.term = lead[k] + 1)
  <2>1. lead[k] + 1 \in Nat /\ last[k] \in Nat /\ last[k] + 1 \in 0 .. MaxIndex
        /\ applied[k] \in Nat
    BY <1>1, Known
  <2>2. NoAppend \in Appends /\ NoAppend.term = 0
    BY <1>1 DEF NoAppend, Appends
  <2>3. CASE up[l] # f.incarnation
    BY <1>18, <2>2, <2>3
  <2>4. CASE ~(up[l] # f.incarnation)
    BY <1>18, <2>1, <2>4 DEF Appends
  <2> QED
    BY <2>3, <2>4
<1>20. flight' = [flight EXCEPT ![l] = v] /\ flight' \in [Leader -> Appends]
  BY <1>1, <1>18, <1>19 DEF Depose
<1>7. Numbers'
  BY <1>1, <1>6, <1>20 DEF Inv, Types, Numbers
<1>8. ASSUME NEW x \in Leader
      PROVE  CompactionOK(x)' /\ PeerOK(peer'[x], last'[x])
  <2>1. CompactionOK(x) /\ PeerOK(peer[x], last[x]) /\ snapshot[x] \in Nat
        /\ applied[x] \in Nat /\ applied[x] <= applied[k] /\ applied[k] \in Nat
        /\ applied[k] <= last[k] /\ last[k] \in Nat
    BY <1>2, Known, StateOfLeaders DEF Last
  <2>2. CASE x = l
    <3>1. snapshot[x] <= applied'[x] /\ applied'[x] <= last'[x]
      BY <1>6, <2>1, <2>2 DEF CompactionOK
    <3> QED
      BY <1>1, <1>4, <1>6, <2>1, <2>2, <3>1 DEF CompactionOK
  <2>3. CASE x # l
    BY <1>1, <1>6, <2>1, <2>3 DEF CompactionOK
  <2> QED
    BY <2>2, <2>3
<1>9. LeadersOK'
  BY <1>1, <1>6, <1>8, StateOfLeaders DEF LeadersOK
<1>10. Types'
  BY <1>1, <1>7, <1>9, Elsewhere
<1>11. lead[k] \in Nat /\ \A x \in Leader : lead[x] \in Nat /\ lead[x] <= lead[k]
                                            /\ applied[x] <= applied[k]
  BY <1>1, <1>2 DEF Last
<1>12. Last(l)'
  <2>1. lead'[l] > 0 /\ f.term <= lead'[l]
    <3>1. f.term \in Nat /\ f.term <= lead[k]
      BY <1>2, Known DEF Last
    <3> QED
      BY <1>6, <1>11, <3>1
  <2>2. \A x \in Leader : /\ applied'[x] <= applied'[l] /\ lead'[x] <= lead'[l]
                          /\ lead'[x] = lead'[l] => x = l
    BY <1>1, <1>6, <1>11
  <2>3. ASSUME NEW c \in frames
        PROVE  c.identity[1] <= lead'[l]
    <3>1. c.identity[1] \in Nat /\ c.identity[1] <= lead[k]
      BY <1>2 DEF Inv, Types, FlightOK, FrameOK, Chunked, Identities, Last
    <3> QED
      BY <1>6, <1>11, <3>1
  <2>4. ASSUME NEW a \in answers
        PROVE  a.term <= lead'[l]
    <3>1. a.term \in Nat /\ a.term <= lead[k]
      BY <1>2 DEF Inv, Types, FlightOK, ReplyOK, Replies, Last
    <3> QED
      BY <1>6, <1>11, <3>1
  <2>5. ASSUME NEW x \in Leader
        PROVE  flight'[x].term <= lead'[l]
    <3>1. flight[x].term \in Nat /\ flight[x].term <= lead[k]
      BY <1>2, Known DEF Last, Appends
    <3>2. flight'[x] = flight[x] \/ flight'[x] = v
      BY <1>1, <1>20
    <3> QED
      BY <1>6, <1>11, <1>19, <3>1, <3>2
  <2> QED
    BY <1>1, <2>1, <2>2, <2>3, <2>4, <2>5 DEF Last
<1>13. ASSUME NEW x \in Leader, lead'[x] > 0, up[x] = f.incarnation
       PROVE  peer'[x].match <= f.held
  <2>1. CASE x = l
    BY <1>4, <1>6, <2>1, Known
  <2>2. CASE x # l
    BY <1>6, <1>13, <2>2 DEF Inv, CreditWasHeld
  <2> QED
    BY <2>1, <2>2
<1>14. CreditWasHeld'
  BY <1>1, <1>13 DEF CreditWasHeld
<1>15. ASSUME NEW a \in answers, lead'[a.to] > 0, up[a.to] = f.incarnation,
              a.term = lead'[a.to], a.id > peer'[a.to].floor
       PROVE  a.commit <= f.commit
  <2>1. a.to \in Leader /\ a.term \in Nat /\ a.term <= lead[k]
    BY <1>2 DEF Inv, Types, FlightOK, ReplyOK, Replies, Last
  <2>2. a.to # l
    BY <1>6, <1>11, <1>15, <2>1
  <2> QED
    BY <1>6, <1>15, <2>1, <2>2 DEF Inv, AnswersHeld
<1>16. AnswersHeld'
  BY <1>1, <1>15 DEF AnswersHeld
<1>17. QED
  BY <1>10, <1>12, <1>14, <1>16 DEF Inv, OneIsLast

-----------------------------------------------------------------------------
(* The follower starts again, and the whole.                               *)

LEMMA Starting ==
    ASSUME TransferAssumption, NEW t \in Nat, NEW i \in Nat, NEW none,
           none = [l \in Leader |-> NoAssembly], NEW g,
           g = [term |-> t, commit |-> 0, applied |-> 0, last |-> 0, held |-> 0,
                boundary |-> 0, snapshot |-> 0, walk |-> NoWalk, whole |-> TRUE,
                assembly |-> none, incarnation |-> i]
    PROVE  FollowerOK(g) /\ g.term = t /\ g.incarnation = i
<1>1. none \in [Leader -> Assemblies] /\ \A l \in Leader : Aligned(none[l])
  BY NothingAssembled
<1>2. NoWalk \in Walks /\ NoWalk.open = FALSE
  BY DEF NoWalk, Walks
<1>3. g \in Followers
  BY <1>1, <1>2 DEF Followers
<1>4. /\ g.commit = 0 /\ g.applied = 0 /\ g.boundary = 0 /\ g.snapshot = 0
      /\ g.walk = NoWalk /\ g.whole = TRUE /\ g.assembly = none /\ g.term = t
      /\ g.last = 0 /\ g.held = 0 /\ g.incarnation = i
  OBVIOUS
<1>5. QED
  BY <1>1, <1>2, <1>3, <1>4, Bounds DEF FollowerOK

LEMMA Restarts ==
    ASSUME TransferAssumption, Inv, Restart
    PROVE  Inv' /\ f'.incarnation # f.incarnation
<1>1. /\ UNCHANGED <<leaders, lead, applied, last, snapshot, boundary, walk, peer>>
      /\ UNCHANGED <<sequence, up, dialled, answers>>
      /\ bulk' = [l \in Leader |-> 0] /\ frames' = {}
  BY DEF Restart, leaders
<1>2. f \in Followers /\ f.term \in Nat /\ f.incarnation \in Nat
  BY Bounds, Known DEF Followers
<1>3. PICK none : none = [l \in Leader |-> NoAssembly]
  OBVIOUS
<1>4. PICK i : i = f.incarnation + 1
  OBVIOUS
<1>5. i \in Nat
  BY <1>2, <1>4
<1>6. f' = [f EXCEPT !.commit = 0, !.applied = 0, !.last = 0, !.held = 0,
                     !.boundary = 0, !.snapshot = 0, !.walk = NoWalk, !.whole = TRUE,
                     !.assembly = none, !.incarnation = i]
  BY <1>3, <1>4 DEF Restart
<1>7. f' = [term |-> f.term, commit |-> 0, applied |-> 0, last |-> 0, held |-> 0,
            boundary |-> 0, snapshot |-> 0, walk |-> NoWalk, whole |-> TRUE,
            assembly |-> none, incarnation |-> i]
  BY <1>2, <1>6 DEF Followers
<1>8. FollowerOK(f') /\ f'.term = f.term /\ f'.incarnation = i
  BY <1>2, <1>3, <1>5, <1>7, Starting
<1>9. FollowerOK(f)'
  BY <1>8 DEF FollowerOK, Aligned
<1>10. FlightOK'
  BY <1>1 DEF Inv, Types, FlightOK
<1>11. /\ up \in [Leader -> 0 .. f'.incarnation]
       /\ \A l \in Leader : up[l] # f'.incarnation
  BY <1>2, <1>4, <1>8, StateOfLeaders
<1>19. flight' \in [Leader -> Appends] /\ \A x \in Leader : Flown(x)
  <2>1. \A x \in Leader : Flies(x, NoAppend)
    BY Flying
  <2>2. flight' = [x \in Leader |-> NoAppend]
    BY DEF Restart
  <2> QED
    BY <2>1, <2>2 DEF Flies, Flown
<1>12. Numbers' /\ LeadersOK'
  BY <1>1, <1>11, <1>19, Untouched DEF Inv, Types, Numbers, LeadersOK, PeerOK
<1>13. OneIsLast'
  BY <1>1, <1>8, <1>19, LastStays
<1>14. \A a \in answers : a.to \in Leader
  BY DEF Inv, Types, FlightOK, ReplyOK, Replies
<1>15. AnswersHeld' /\ CreditWasHeld'
  BY <1>1, <1>11, <1>14 DEF AnswersHeld, CreditWasHeld
<1>16. f'.incarnation # f.incarnation
  BY <1>2, <1>4, <1>8
<1>17. QED
  BY <1>9, <1>10, <1>12, <1>13, <1>15, <1>16 DEF Inv, Types

LEMMA Initially ==
    ASSUME TransferAssumption, Init
    PROVE  Inv
<1>1. PICK none : none = [l \in Leader |-> NoAssembly]
  OBVIOUS
<1>2. FollowerOK(f) /\ f.term = 1 /\ f.incarnation = 1
  BY <1>1, Starting DEF Init
<1>3. FlightOK
  BY DEF Init, FlightOK
<1>4. NoWalk \in Walks /\ FreshPeer \in Peers /\ FreshPeer.match = 0
      /\ FreshPeer.offset = 0 /\ FreshPeer.sending = 0
  BY DEF NoWalk, Walks, FreshPeer, Peers
<1>5. /\ 0 \in 0 .. MaxTerm /\ 1 \in 0 .. MaxTerm /\ 0 \in 0 .. MaxIndex
      /\ 1 \in 0 .. MaxIndex /\ NoAppend \in Appends /\ NoAppend.term = 0
  <2>1. /\ 0 \in 0 .. MaxTerm /\ 1 \in 0 .. MaxTerm /\ 0 \in 0 .. MaxIndex
        /\ 1 \in 0 .. MaxIndex
    <3>1. MaxIndex # 0
      BY DEF TransferAssumption
    <3> QED
      BY <3>1, Bounds
  <2>2. NoAppend \in Appends /\ NoAppend.term = 0
    BY <2>1 DEF NoAppend, Appends
  <2> QED
    BY <2>1, <2>2
<1>6. Numbers
  BY <1>2, <1>5 DEF Init, Numbers
<1>7. PeerOK(FreshPeer, 0) /\ PeerOK(FreshPeer, 1)
  <2>1. FreshPeer.next = 1
    BY DEF FreshPeer
  <2> QED
    BY <1>4, <2>1, Bounds DEF PeerOK
<1>8. LeadersOK
  BY <1>4, <1>7 DEF Init, LeadersOK, CompactionOK
<1>9. Last(First)
  BY <1>2, <1>5, Bounds DEF Init, Last
<1>10. AnswersHeld
  BY DEF Init, AnswersHeld
<1>11. CreditWasHeld
  BY <1>2, <1>4 DEF Init, CreditWasHeld, FollowerOK, Followers
<1>12. QED
  BY <1>2, <1>3, <1>6, <1>8, <1>9, <1>10, <1>11, Bounds DEF Inv, Types, OneIsLast

\* Every step keeps the invariant, and what the follower has.
LEMMA Stepped ==
    ASSUME TransferAssumption, Inv, [Next]_vars
    PROVE  Inv' /\ (f'.incarnation = f.incarnation => Kin(f, f'))
<1>1. Kin(f, f)
  BY Bounds, Known DEF Kin, Followers
<1>2. ASSUME NEW c \in frames, OnInstallSnapshot(c)
      PROVE  Inv' /\ Kin(f, f')
  BY <1>2, ChunkArrives
<1>3. ASSUME NEW a \in answers,
             OnReplyOfLaterTerm(a) \/ OnIgnoredReply(a) \/ OnReply(a)
      PROVE  Inv' /\ f' = f
  <2>1. f' = f
    BY <1>3 DEF OnReplyOfLaterTerm, OnIgnoredReply, OnReply
  <2> QED
    BY <1>3, <2>1, LeaderOfLaterTerm, IgnoredReply, Reply
<1>4. ASSUME NEW l \in Leader,
             \/ FinishCompaction(l) \/ Heartbeat(l) \/ DialBulk(l) \/ PeerUp(l)
             \/ AppendTooLate(l)
      PROVE  Inv' /\ f' = f
  <2>1. f' = f
    BY <1>4 DEF FinishCompaction, Heartbeat, DialBulk, PeerUp, AppendTooLate
  <2> QED
    BY <1>4, <2>1, CompactionEnds, Heartbeats, BulkDialled, FollowerFound,
       AppendRefused
<1>5. ASSUME NEW l \in Leader, AppendArrives(l) \/ DropAssembly(l)
      PROVE  Inv' /\ Kin(f, f')
  BY <1>5, AppendAnswered, AssemblyDrops
<1>6. ASSUME NEW l \in Leader,
             \/ BeginCompaction(l) \/ Propose(l) \/ Commit(l) \/ PeerDown(l)
             \/ DropBulk(l)
      PROVE  Inv' /\ f' = f
  <2>1. f' = f
    BY <1>6 DEF BeginCompaction, Propose, Commit, PeerDown, DropBulk
  <2> QED
    BY <1>6, <2>1, CompactionStarts, EntryProposed, EntryCommitted, FollowerLost,
       BulkDropped
<1>7. ASSUME NEW l \in Leader, NEW k \in Leader, Depose(l, k)
      PROVE  Inv' /\ f' = f
  BY <1>7, LeaderDeposed DEF Depose
<1>8. ASSUME NEW c \in frames, LoseFrame(c)
      PROVE  Inv' /\ f' = f
  BY <1>8, FrameLost DEF LoseFrame
<1>9. CASE FollowerBeginsCompaction \/ FollowerFinishesCompaction \/ FollowerApplies
  BY <1>9, FollowerCompactionStarts, FollowerCompactionEnds, FollowerApply
<1>10. CASE Restart
  BY <1>10, Restarts
<1>11. CASE UNCHANGED vars
  <2>1. /\ UNCHANGED <<leaders, lead, applied, last, peer, sequence, flight, up, answers, f, frames>>
        /\ bulk' = bulk /\ dialled' = dialled
    BY <1>11 DEF vars, leaders, links, sender
  <2> QED
    BY <1>1, <2>1, StateOfLeaders, Untouched, Housekeeping
<1>12. QED
  BY <1>1, <1>2, <1>3, <1>4, <1>5, <1>6, <1>7, <1>8, <1>9, <1>10, <1>11
  DEF Next, Deliver, Work

\* The invariant gives the properties.
LEMMA InvIsEnough ==
    ASSUME TransferAssumption, Inv
    PROVE  TypeOK /\ NeverSpliced /\ CoversBoundary /\ CreditWasHeld
<1>1. FollowerOK(f) /\ f \in Followers
  BY Bounds, Known
<1>2. ASSUME NEW l \in Leader
      PROVE  /\ lead[l] \in 0 .. MaxTerm
             /\ snapshot[l] <= applied[l] /\ applied[l] <= last[l] /\ last[l] <= MaxIndex
             /\ peer[l].offset \in 0 .. (Chunks - 1) /\ peer[l].match <= last[l]
             /\ peer[l].match < peer[l].next
             /\ Len(f.assembly[l].data) < Chunks /\ snapshot[l] >= boundary[l]
  <2>1. peer[l].offset \in Nat /\ peer[l].offset < Chunks /\ peer[l].match <= last[l]
        /\ peer[l].match < peer[l].next
    BY Known DEF PeerOK, Peers
  <2>2. Len(f.assembly[l].data) < Chunks
    BY <1>1 DEF FollowerOK, Aligned
  <2>3. peer[l].offset \in 0 .. (Chunks - 1)
    BY <2>1, Bounds
  <2>4. lead[l] \in 0 .. MaxTerm
    BY StateOfLeaders
  <2>5. /\ snapshot[l] <= applied[l] /\ applied[l] <= last[l] /\ snapshot[l] \in Nat
        /\ last[l] <= MaxIndex
        /\ boundary[l] \in Nat /\ boundary[l] <= snapshot[l]
    BY Known
  <2>6. snapshot[l] >= boundary[l]
    BY <2>5
  <2> QED
    BY <2>1, <2>2, <2>3, <2>4, <2>5, <2>6
<1>3. f.term \in 0 .. MaxTerm
  <2>1. PICK k \in Leader : Last(k)
    BY DEF Inv, OneIsLast
  <2> QED
    BY <2>1, Known, Bounds DEF Last
<1>4. TypeOK
  BY <1>1, <1>2, <1>3 DEF TypeOK, FollowerOK
<1>5. NeverSpliced
  BY <1>1 DEF NeverSpliced, FollowerOK
<1>6. CoversBoundary
  BY <1>1, <1>2 DEF CoversBoundary, FollowerOK, Followers
<1>7. QED
  BY <1>4, <1>5, <1>6 DEF Inv

-----------------------------------------------------------------------------
(* The theorems.                                                           *)

\* The invariant holds of every state of the specification.
THEOREM InvHolds == ASSUME TransferAssumption PROVE Spec => []Inv
<1>1. Init => Inv
  BY Initially
<1>2. Inv /\ [Next]_vars => Inv'
  BY Stepped
<1>3. QED
  BY <1>1, <1>2, PTL DEF Spec

\* A follower installs one whole snapshot, and a leader or a follower can hand
\* on all that its log has dropped; a leader credits the follower with no more
\* than its log has held in the incarnation it is connected to, whichever
\* answers are late (RaftNode.on_install_snapshot, SnapshotStore.abandon,
\* reply_floor).
THEOREM TransfersAreSound ==
    ASSUME TransferAssumption
    PROVE  Spec => [](TypeOK /\ NeverSpliced /\ CoversBoundary /\ CreditWasHeld)
<1>1. Inv => TypeOK /\ NeverSpliced /\ CoversBoundary /\ CreditWasHeld
  BY InvIsEnough
<1>2. QED
  BY <1>1, InvHolds, PTL

\* No snapshot takes a running follower behind what it has committed or
\* applied (RaftNode.on_install_snapshot's early answer).
THEOREM FollowersNeverGoBack == ASSUME TransferAssumption PROVE Spec => NeverGoesBack
<1>1. Inv /\ [Next]_vars
      => [f'.incarnation = f.incarnation =>
            f'.commit >= f.commit /\ f'.applied >= f.applied]_vars
  <2> SUFFICES ASSUME Inv, [Next]_vars, f'.incarnation = f.incarnation
               PROVE  f'.commit >= f.commit /\ f'.applied >= f.applied
    OBVIOUS
  <2>1. Inv' /\ Kin(f, f')
    BY Stepped
  <2>2. f \in Followers /\ f' \in Followers
    BY <2>1 DEF Inv, Types, FollowerOK
  <2> QED
    BY <2>1, <2>2 DEF Kin, Followers
<1>2. QED
  BY <1>1, InvHolds, PTL DEF Spec, NeverGoesBack
=============================================================================
