--------------------------- MODULE ProposalsProofs ---------------------------
(***************************************************************************)
(* Proofs about Proposals: every call is answered with the outcome of its  *)
(* own operation, and only once that is committed (CallsAreAnswered).      *)
(*                                                                         *)
(* An operation is at one place at a time: not submitted, in a batch, in a *)
(* message, in a log, or with an entry that a leader left behind           *)
(* (OnePlace).  An id names one entry wherever a copy of it is (IdsUnique),*)
(* as every incarnation mints its ids beyond those of the ones before.     *)
(***************************************************************************)
EXTENDS Proposals, SequenceTheorems, FiniteSetTheorems, TLAPS

Entries == [id : Member \X Nat, call : Call \cup {None}]

\* An entry some caller waits for.
CallEntries == [id : Member \X Nat, call : Call]

State == {"idle", "waiting", "unavailable", "timed out", "answered", "gone"}

Types ==
    /\ leader \in Member \cup {None}
    /\ believes \in [Member -> Member \cup {None}]
    /\ log \in Seq(Entries)
    /\ committed \in 0..Len(log)
    /\ floating \in SUBSET Entries /\ IsFiniteSet(floating)
    /\ incarnation \in [Member -> Nat]
    /\ sequence \in [Member -> Nat]
    /\ batch \in [Member -> Seq(Call)]
    /\ scheduled \in [Member -> BOOLEAN]
    /\ flushes \in [Member -> Nat]
    /\ waiters \in [Member -> SUBSET CallEntries]
    /\ releases \in [Member -> SUBSET Call]
    /\ inbox \in [Member \X Member -> Seq(Seq(CallEntries))]
    /\ call \in [Call -> [state : State, at : Member \cup {None},
                          answer : Call \cup {None}]]
    /\ commit \in [Member -> Nat]
    /\ applied \in [Member -> Nat]
    /\ store \in [Member -> Seq(Entries)]
    /\ elections \in Nat

\* A member applies what it knows to be committed.
Ordered ==
    \A m \in Member : applied[m] <= commit[m] /\ commit[m] <= committed

----------------------------------------------------------------------------
(* Where entries are.                                                      *)

InBox(box) == UNION {ToSet(box[i]) : i \in DOMAIN box}

Sent == UNION {InBox(inbox[l]) : l \in Member \X Member}

Awaited == UNION {waiters[m] : m \in Member}

Known == ToSet(log) \cup floating \cup Sent \cup Awaited

\* Ids are handed out in order, and one id names one entry.
IdsBehind == \A e \in Known : e.id[2] <= sequence[e.id[1]]

IdsUnique == \A d, e \in Known : d.id = e.id => d = e

\* No id of an incarnation is one of the next (PROPOSALS_PER_INCARNATION).
IdsSuffice == \A m \in Member : sequence[m] <= Seed(m)

Batched == UNION {ToSet(batch[m]) : m \in Member}

Drained == {c \in Call : call[c].state # "idle"} \ Batched

\* An incarnation has used an id for each call it drained and each election.
IdsCounted ==
    /\ elections <= MaxElections
    /\ \A m \in Member :
          sequence[m] <= incarnation[m] * PerIncarnation
                            + Cardinality(Drained) + elections

----------------------------------------------------------------------------
(* An operation is at one place.                                           *)

OnceInLog == ProposedOnce

OnceLeft ==
    \A d, e \in floating : d.call # None /\ d.call = e.call => d = e

LeftNotInLog ==
    \A e \in floating : \A i \in 1..Len(log) :
       e.call # None => e.call # log[i].call

OnceSent ==
    \A k, l \in Member \X Member :
       \A i \in DOMAIN inbox[k], j \in DOMAIN inbox[l] :
          \A x \in DOMAIN inbox[k][i], y \in DOMAIN inbox[l][j] :
             inbox[k][i][x].call = inbox[l][j][y].call
                => k = l /\ i = j /\ x = y

SentNotTaken ==
    \A e \in Sent : \A d \in ToSet(log) \cup floating : e.call # d.call

OnceBatched ==
    \A m, n \in Member :
       \A i \in DOMAIN batch[m], j \in DOMAIN batch[n] :
          batch[m][i] = batch[n][j] => m = n /\ i = j

BatchedUnknown == \A c \in Batched : \A e \in Known : e.call # c

IdleNowhere ==
    \A c \in Call : call[c].state = "idle" =>
       c \notin Batched /\ \A e \in Known : e.call # c

OnePlace ==
    /\ OnceInLog /\ OnceLeft /\ LeftNotInLog /\ OnceSent /\ SentNotTaken
    /\ OnceBatched /\ BatchedUnknown /\ IdleNowhere

----------------------------------------------------------------------------
(* Who waits.                                                              *)

OnceAwaited == \A v, w \in Awaited : v.call = w.call => v = w

AwaitedAt ==
    \A m \in Member :
       /\ \A w \in waiters[m] : call[w.call].at = m
       /\ \A i \in DOMAIN batch[m] : call[batch[m][i]].at = m

\* A batch that is not empty is scheduled, and that is a callback that is due.
Due ==
    \A m \in Member : /\ batch[m] # <<>> => scheduled[m]
                      /\ scheduled[m] => flushes[m] > 0

\* Entries, calls and ids are kept apart by every step.
Apart == IdsBehind /\ IdsUnique /\ OnePlace /\ OnceAwaited /\ AwaitedAt

Inv ==
    /\ Types /\ Ordered /\ Apart /\ WaitersAreWanted /\ Due
    /\ StoreIsCommitted /\ AnsweredTruly

(* What is assumed of the constants.                                        *)
LEMMA Bounds ==
    ASSUME ProposalsAssumption
    PROVE  /\ None \notin Member /\ None \notin Call
           /\ PerIncarnation \in Nat /\ MaxBatch \in Nat \ {0}
           /\ IsFiniteSet(Call) /\ MaxElections \in Nat
           /\ Cardinality(Call) + MaxElections <= PerIncarnation
BY DEF ProposalsAssumption

----------------------------------------------------------------------------
(* Sequences.                                                              *)

\* The elements of a sequence.
LEMMA Elements ==
    ASSUME NEW S, NEW s \in Seq(S)
    PROVE  /\ ToSet(s) \subseteq S
           /\ \A i \in 1..Len(s) : s[i] \in ToSet(s)
           /\ \A x \in ToSet(s) : \E i \in 1..Len(s) : x = s[i]
  BY DEF ToSet

LEMMA ElementsOfConcat ==
    ASSUME NEW S, NEW s \in Seq(S), NEW t \in Seq(S)
    PROVE  ToSet(s \o t) = ToSet(s) \cup ToSet(t)
<1>1. /\ s \o t \in Seq(S) /\ Len(s \o t) = Len(s) + Len(t)
      /\ \A i \in 1..Len(s) + Len(t) :
            (s \o t)[i] = IF i <= Len(s) THEN s[i] ELSE t[i - Len(s)]
  BY ConcatProperties
<1>2. ASSUME NEW x \in ToSet(s \o t) PROVE x \in ToSet(s) \cup ToSet(t)
  <2>1. PICK i \in 1..Len(s) + Len(t) : x = (s \o t)[i]
    BY <1>1, Elements
  <2>2. i > Len(s) => i - Len(s) \in 1..Len(t)
    OBVIOUS
  <2> QED
    BY <1>1, <2>1, <2>2, Elements
<1>3. ASSUME NEW x \in ToSet(s) PROVE x \in ToSet(s \o t)
  <2>1. PICK i \in 1..Len(s) : x = s[i]
    BY Elements
  <2>2. i \in 1..Len(s) + Len(t) /\ (s \o t)[i] = x
    BY <1>1, <2>1
  <2> QED
    BY <1>1, <2>2, Elements
<1>4. ASSUME NEW x \in ToSet(t) PROVE x \in ToSet(s \o t)
  <2>1. PICK i \in 1..Len(t) : x = t[i]
    BY Elements
  <2>2. Len(s) + i \in 1..Len(s) + Len(t) /\ (s \o t)[Len(s) + i] = x
    BY <1>1, <2>1
  <2> QED
    BY <1>1, <2>2, Elements
<1> QED
  BY <1>2, <1>3, <1>4

LEMMA ElementsOfPart ==
    ASSUME NEW S, NEW s \in Seq(S), NEW i \in Nat, NEW j \in 0..Len(s), i >= 1
    PROVE  /\ SubSeq(s, i, j) \in Seq(S)
           /\ ToSet(SubSeq(s, i, j)) \subseteq ToSet(s)
           /\ Len(SubSeq(s, i, j)) = IF i <= j THEN j - i + 1 ELSE 0
           /\ \A k \in 1..(j - i + 1) : SubSeq(s, i, j)[k] = s[i + k - 1]
<1>0. j \in Int /\ i \in Int
  OBVIOUS
<1>1. \A k \in i..j : s[k] \in S
  <2> TAKE k \in i..j
  <2>1. k \in 1..Len(s)
    OBVIOUS
  <2> QED
    BY <2>1, ElementOfSeq
<1>2. /\ SubSeq(s, i, j) \in Seq(S)
      /\ Len(SubSeq(s, i, j)) = IF i <= j THEN j - i + 1 ELSE 0
      /\ \A k \in 1..(j - i + 1) : SubSeq(s, i, j)[k] = s[i + k - 1]
  BY <1>0, <1>1, SubSeqProperties
<1>3. ASSUME NEW x \in ToSet(SubSeq(s, i, j)) PROVE x \in ToSet(s)
  <2>1. PICK k \in 1..Len(SubSeq(s, i, j)) : x = SubSeq(s, i, j)[k]
    BY <1>2, Elements
  <2>2. k \in 1..(j - i + 1) /\ i + k - 1 \in 1..Len(s)
    BY <1>2
  <2> QED
    BY <1>2, <2>1, <2>2, Elements
<1> QED
  BY <1>2, <1>3

----------------------------------------------------------------------------
(* What is known.                                                          *)

LEMMA KnownTyped ==
    ASSUME Types
    PROVE  /\ Known \subseteq Entries
           /\ Sent \subseteq CallEntries
           /\ Awaited \subseteq CallEntries
           /\ Batched \subseteq Call
<1>1. ToSet(log) \subseteq Entries
  BY Elements DEF Types
<1>2. ASSUME NEW l \in Member \X Member PROVE InBox(inbox[l]) \subseteq CallEntries
  <2>1. inbox[l] \in Seq(Seq(CallEntries))
    BY DEF Types
  <2>2. ASSUME NEW i \in DOMAIN inbox[l] PROVE ToSet(inbox[l][i]) \subseteq CallEntries
    <3>1. inbox[l][i] \in Seq(CallEntries)
      BY <2>1
    <3> QED
      BY <3>1, Elements
  <2> QED
    BY <2>2 DEF InBox
<1>3. Sent \subseteq CallEntries
  BY <1>2 DEF Sent
<1>4. Awaited \subseteq CallEntries
  BY DEF Types, Awaited
<1>5. CallEntries \subseteq Entries
  BY DEF CallEntries, Entries
<1>6. Batched \subseteq Call
  <2>1. ASSUME NEW m \in Member PROVE ToSet(batch[m]) \subseteq Call
    <3>1. batch[m] \in Seq(Call)
      BY DEF Types
    <3> QED
      BY <3>1, Elements
  <2> QED
    BY <2>1 DEF Batched
<1> QED
  BY <1>1, <1>3, <1>4, <1>5, <1>6 DEF Known, Types

\* An entry at a position of a message is a known entry, and the other way.
LEMMA SentIs ==
    ASSUME Types
    PROVE  /\ \A l \in Member \X Member : \A i \in DOMAIN inbox[l] :
                 \A x \in DOMAIN inbox[l][i] : inbox[l][i][x] \in Sent
           /\ \A e \in Sent : \E l \in Member \X Member :
                 \E i \in DOMAIN inbox[l] : \E x \in DOMAIN inbox[l][i] :
                    e = inbox[l][i][x]
  BY DEF Sent, InBox, ToSet

LEMMA BatchedIs ==
    ASSUME Types
    PROVE  /\ \A m \in Member : \A i \in DOMAIN batch[m] : batch[m][i] \in Batched
           /\ \A c \in Batched : \E m \in Member : \E i \in DOMAIN batch[m] :
                 c = batch[m][i]
  BY DEF Batched, ToSet

\* Ids stay one entry's if the entries that are new have new ids.
LEMMA IdsKept ==
    ASSUME Types, Types', IdsBehind, IdsUnique, NEW new,
           new \subseteq Entries, Known' \subseteq Known \cup new,
           \A e \in new : /\ e.id[2] > sequence[e.id[1]]
                          /\ e.id[2] <= sequence'[e.id[1]],
           \A d, e \in new : d.id = e.id => d = e,
           \A m \in Member : sequence[m] <= sequence'[m]
    PROVE  IdsBehind' /\ IdsUnique'
<1>1. \A e \in Entries : /\ e.id[1] \in Member /\ e.id[2] \in Nat
                         /\ sequence[e.id[1]] \in Nat /\ sequence'[e.id[1]] \in Nat
  BY DEF Types, Entries
<1>2. Known \subseteq Entries
  BY KnownTyped
<1>3. ASSUME NEW e \in Known' PROVE e.id[2] <= sequence'[e.id[1]]
  <2>1. CASE e \in Known
    <3>1. e.id[2] <= sequence[e.id[1]] /\ sequence[e.id[1]] <= sequence'[e.id[1]]
      BY <1>1, <1>2, <2>1 DEF IdsBehind
    <3> QED
      BY <1>1, <1>2, <2>1, <3>1
  <2> QED
    BY <1>3, <2>1
<1>4. ASSUME NEW d \in Known, NEW e \in new, d.id = e.id PROVE FALSE
  <2>1. d.id[2] <= sequence[d.id[1]]
    BY DEF IdsBehind
  <2>2. d.id[2] > sequence[d.id[1]]
    BY <1>4
  <2> QED
    BY <1>1, <1>2, <2>1, <2>2
<1>5. ASSUME NEW d \in Known', NEW e \in Known', d.id = e.id PROVE d = e
  BY <1>4, <1>5 DEF IdsUnique
<1> QED
  BY <1>3, <1>5 DEF IdsBehind, IdsUnique

----------------------------------------------------------------------------
(* Steps that bring nothing new.                                           *)

\* Batches, messages and waiters may go, entries stay where they are.
Shrinks ==
    /\ log' = log /\ floating' = floating
    /\ \A l \in Member \X Member : inbox'[l] = inbox[l] \/ inbox'[l] = <<>>
    /\ \A m \in Member : batch'[m] = batch[m] \/ batch'[m] = <<>>
    /\ \A m \in Member : waiters'[m] \subseteq waiters[m]
    /\ \A m \in Member : sequence[m] <= sequence'[m]
    /\ \A c \in Call : call'[c].state = "idle" => call[c].state = "idle"
    /\ \A c \in Call : call[c].state # "idle" => call'[c].at = call[c].at

LEMMA ShrinksKnown ==
    ASSUME Types, Types', Shrinks
    PROVE  /\ Known' \subseteq Known /\ Sent' \subseteq Sent
           /\ Awaited' \subseteq Awaited /\ Batched' \subseteq Batched
<1>1. Sent' \subseteq Sent
  <2>1. ASSUME NEW l \in Member \X Member PROVE InBox(inbox'[l]) \subseteq InBox(inbox[l])
    BY DEF Shrinks, InBox
  <2> QED
    BY <2>1 DEF Sent
<1>2. Awaited' \subseteq Awaited
  BY DEF Shrinks, Awaited
<1>3. Batched' \subseteq Batched
  <2>1. ASSUME NEW m \in Member PROVE ToSet(batch'[m]) \subseteq ToSet(batch[m])
    BY DEF Shrinks, ToSet
  <2> QED
    BY <2>1 DEF Batched
<1> QED
  BY <1>1, <1>2, <1>3 DEF Known, Shrinks

LEMMA ShrinksKeeps ==
    ASSUME Types, Types', Shrinks, IdsBehind, IdsUnique, OnePlace,
           OnceAwaited, AwaitedAt
    PROVE  /\ IdsBehind' /\ IdsUnique' /\ OnePlace' /\ OnceAwaited' /\ AwaitedAt'
<1>1. /\ Known' \subseteq Known /\ Sent' \subseteq Sent
      /\ Awaited' \subseteq Awaited /\ Batched' \subseteq Batched
  BY ShrinksKnown
<1>2. IdsBehind' /\ IdsUnique'
  <2>1. \A m \in Member : sequence[m] <= sequence'[m]
    BY DEF Shrinks
  <2>2. PICK new : new = {}
    OBVIOUS
  <2>3. /\ new \subseteq Entries /\ Known' \subseteq Known \cup new
        /\ \A e \in new : /\ e.id[2] > sequence[e.id[1]]
                          /\ e.id[2] <= sequence'[e.id[1]]
        /\ \A d, e \in new : d.id = e.id => d = e
    BY <1>1, <2>2
  <2> QED
    BY <2>1, <2>3, IdsKept
<1>3. OnceInLog' /\ OnceLeft' /\ LeftNotInLog'
  BY DEF Shrinks, OnePlace, OnceInLog, ProposedOnce, OnceLeft, LeftNotInLog
<1>4. OnceSent'
  BY DEF Shrinks, OnePlace, OnceSent
<1>5. SentNotTaken'
  BY <1>1 DEF Shrinks, OnePlace, SentNotTaken
<1>6. OnceBatched'
  BY DEF Shrinks, OnePlace, OnceBatched
<1>7. BatchedUnknown' /\ IdleNowhere'
  BY <1>1 DEF Shrinks, OnePlace, BatchedUnknown, IdleNowhere
<1>8. OnceAwaited'
  BY <1>1 DEF OnceAwaited
<1>9. AwaitedAt'
  <2> SUFFICES ASSUME NEW m \in Member
               PROVE  /\ \A w \in waiters'[m] : call'[w.call].at = m
                      /\ \A i \in DOMAIN batch'[m] : call'[batch'[m][i]].at = m
    BY DEF AwaitedAt
  <2>1. ASSUME NEW w \in waiters'[m] PROVE call'[w.call].at = m
    <3>1. w \in waiters[m] /\ w.call \in Call
      BY DEF Shrinks, Types, CallEntries
    <3>2. w \in Known
      BY <3>1 DEF Known, Awaited
    <3> QED
      BY <3>1, <3>2 DEF Shrinks, AwaitedAt, OnePlace, IdleNowhere
  <2>2. ASSUME NEW i \in DOMAIN batch'[m] PROVE call'[batch'[m][i]].at = m
    <3>1. batch'[m] = batch[m]
      BY DEF Shrinks
    <3>2. batch[m][i] \in Batched /\ batch[m][i] \in Call
      BY <3>1, KnownTyped, BatchedIs
    <3> QED
      BY <3>1, <3>2 DEF Shrinks, AwaitedAt, OnePlace, IdleNowhere
  <2> QED
    BY <2>1, <2>2
<1> QED
  BY <1>2, <1>3, <1>4, <1>5, <1>6, <1>7, <1>8, <1>9 DEF OnePlace

----------------------------------------------------------------------------
(* Steps that hand a batch over.                                           *)

\* The entries a drain makes of calls.
Minted(m, calls) ==
    [i \in 1..Len(calls) |-> Entry(m, sequence[m] + i, calls[i])]

\* Calls that have been nowhere but in the batch of m.
Fresh(m, calls) ==
    /\ calls \in Seq(Call)
    /\ \A i, j \in 1..Len(calls) : calls[i] = calls[j] => i = j
    /\ \A i \in 1..Len(calls) :
          /\ \A e \in Known : e.call # calls[i]
          /\ \A n \in Member \ {m} : \A j \in DOMAIN batch[n] : batch[n][j] # calls[i]

Puts(es) ==
    \/ log' = log \o es /\ floating' = floating /\ inbox' = inbox
    \/ log' = log /\ floating' = floating \cup ToSet(es) /\ inbox' = inbox
    \/ /\ log' = log /\ floating' = floating
       /\ \E l \in Member \X Member : inbox' = [inbox EXCEPT ![l] = Append(@, es)]

Hands(m, calls, es) ==
    /\ Fresh(m, calls)
    /\ es = Minted(m, calls)
    /\ Puts(es)
    /\ sequence' = [sequence EXCEPT ![m] = @ + Len(calls)]
    /\ waiters' = [waiters EXCEPT ![m] = @ \cup ToSet(es)]
    /\ batch' = [batch EXCEPT ![m] = <<>>]
    /\ \A c \in Call : call'[c].state = "idle" =>
          call[c].state = "idle" /\ c \notin ToSet(calls)
    /\ \A c \in ToSet(calls) : c \notin Drained
    /\ \A c \in Call : c \in ToSet(calls) => call'[c].at = m
    /\ \A c \in Call :
          call[c].state # "idle" /\ c \notin ToSet(calls) => call'[c].at = call[c].at

LEMMA MintedIs ==
    ASSUME Types, NEW m \in Member, NEW calls \in Seq(Call)
    PROVE  /\ Minted(m, calls) \in Seq(CallEntries)
           /\ Len(Minted(m, calls)) = Len(calls)
           /\ \A i \in 1..Len(calls) :
                 Minted(m, calls)[i] = [id |-> <<m, sequence[m] + i>>, call |-> calls[i]]
<1>1. sequence[m] \in Nat /\ Len(calls) \in Nat
  BY DEF Types
<1>2. \A i \in 1..Len(calls) : Entry(m, sequence[m] + i, calls[i]) \in CallEntries
  BY <1>1 DEF Entry, CallEntries
<1> QED
  BY <1>1, <1>2 DEF Minted, Entry

\* What the entries a step hands over are.
LEMMA HandedIs ==
    ASSUME Types, NEW m \in Member, NEW calls, NEW es, Hands(m, calls, es)
    PROVE  /\ es \in Seq(CallEntries) /\ Len(es) = Len(calls) /\ Len(es) \in Nat
           /\ es \in Seq(Entries)
           /\ ToSet(es) \subseteq CallEntries /\ ToSet(es) \subseteq Entries
           /\ \A i \in 1..Len(es) : es[i].id = <<m, sequence[m] + i>> /\ es[i].call = calls[i]
           /\ \A e \in ToSet(es) : e.call \in ToSet(calls)
           /\ \A i, j \in 1..Len(es) : es[i].call = es[j].call => i = j
           /\ \A d, e \in ToSet(es) : d.call = e.call => d = e
           /\ \A d, e \in ToSet(es) : d.id = e.id => d = e
           /\ \A e \in ToSet(es) : \A d \in Known : d.call # e.call
           /\ \A e \in ToSet(es) : /\ e.id[2] > sequence[e.id[1]]
                                   /\ e.id[2] <= sequence'[e.id[1]]
<1>1. calls \in Seq(Call) /\ es = Minted(m, calls)
  BY DEF Hands, Fresh
<1>2. /\ es \in Seq(CallEntries) /\ Len(es) = Len(calls) /\ Len(es) \in Nat
      /\ \A i \in 1..Len(es) : es[i] = [id |-> <<m, sequence[m] + i>>, call |-> calls[i]]
  BY <1>1, MintedIs
<1>3. es \in Seq(Entries) /\ CallEntries \subseteq Entries
  <2>1. CallEntries \subseteq Entries
    BY DEF CallEntries, Entries
  <2> QED
    BY <1>2, <2>1, SeqMonotonic
<1>4. ToSet(es) \subseteq CallEntries
  BY <1>2, Elements
<1>5. \A e \in ToSet(es) : \E i \in 1..Len(es) : e = es[i]
  BY <1>2, Elements
<1>6. ASSUME NEW i \in 1..Len(es)
      PROVE  es[i].id = <<m, sequence[m] + i>> /\ es[i].call = calls[i]
  <2>1. es[i] = [id |-> <<m, sequence[m] + i>>, call |-> calls[i]]
    BY <1>2
  <2> QED
    BY <2>1
<1>7. \A i \in 1..Len(calls) : calls[i] \in ToSet(calls)
  BY <1>1, Elements
<1>8. \A i, j \in 1..Len(es) : es[i].call = es[j].call => i = j
  BY <1>2, <1>6 DEF Hands, Fresh
<1>9. \A d, e \in ToSet(es) : d.call = e.call => d = e
  BY <1>5, <1>8
<1>10. \A d, e \in ToSet(es) : d.id = e.id => d = e
  <2> SUFFICES ASSUME NEW i \in 1..Len(es), NEW j \in 1..Len(es), es[i].id = es[j].id
               PROVE  i = j
    BY <1>5
  <2>1. sequence[m] + i = sequence[m] + j
    BY <1>6
  <2>2. sequence[m] \in Nat
    BY DEF Types
  <2> QED
    BY <2>1, <2>2
<1>11. \A e \in ToSet(es) : \A d \in Known : d.call # e.call
  BY <1>2, <1>5, <1>6 DEF Hands, Fresh
<1>12. ASSUME NEW e \in ToSet(es)
       PROVE  e.id[2] > sequence[e.id[1]] /\ e.id[2] <= sequence'[e.id[1]]
  <2>1. PICK i \in 1..Len(es) : e = es[i]
    BY <1>5
  <2>2. e.id[1] = m /\ e.id[2] = sequence[m] + i
    BY <1>6, <2>1
  <2>3. sequence[m] \in Nat /\ sequence'[m] = sequence[m] + Len(calls)
    BY DEF Types, Hands
  <2> QED
    BY <1>2, <2>2, <2>3
<1> QED
  BY <1>2, <1>3, <1>4, <1>5, <1>6, <1>7, <1>8, <1>9, <1>10, <1>11, <1>12

LEMMA HandsKnown ==
    ASSUME Types, Types', NEW m \in Member, NEW calls, NEW es, Hands(m, calls, es)
    PROVE  /\ ToSet(log') \cup floating' \subseteq ToSet(log) \cup floating \cup ToSet(es)
           /\ Sent' \subseteq Sent \cup ToSet(es)
           /\ Awaited' \subseteq Awaited \cup ToSet(es)
           /\ Known' \subseteq Known \cup ToSet(es)
           /\ Batched' \subseteq Batched
           /\ \A c \in Batched' : c \notin ToSet(calls)
<1>1. es \in Seq(Entries) /\ es \in Seq(CallEntries)
  BY HandedIs
<1>2. ToSet(log') \cup floating' \subseteq ToSet(log) \cup floating \cup ToSet(es)
  <2>1. log \in Seq(Entries)
    BY DEF Types
  <2>2. ToSet(log \o es) = ToSet(log) \cup ToSet(es)
    BY <1>1, <2>1, ElementsOfConcat
  <2> QED
    BY <2>2 DEF Hands, Puts
<1>3. Sent' \subseteq Sent \cup ToSet(es)
  <2>1. CASE inbox' = inbox
    BY <2>1 DEF Sent
  <2>2. ASSUME NEW l \in Member \X Member, inbox' = [inbox EXCEPT ![l] = Append(@, es)]
        PROVE  Sent' \subseteq Sent \cup ToSet(es)
    <3>1. inbox[l] \in Seq(Seq(CallEntries)) /\ inbox \in [Member \X Member -> Seq(Seq(CallEntries))]
      BY DEF Types
    <3>2. inbox'[l] = Append(inbox[l], es) /\ \A k \in Member \X Member : k # l => inbox'[k] = inbox[k]
      BY <2>2, <3>1
    <3>3. ASSUME NEW i \in DOMAIN inbox'[l]
          PROVE  ToSet(inbox'[l][i]) \subseteq InBox(inbox[l]) \cup ToSet(es)
      <4>1. /\ Len(inbox'[l]) = Len(inbox[l]) + 1 /\ i \in 1..Len(inbox[l]) + 1
            /\ \A j \in 1..Len(inbox[l]) : inbox'[l][j] = inbox[l][j]
            /\ inbox'[l][Len(inbox[l]) + 1] = es
        BY <1>1, <3>1, <3>2, <3>3, AppendProperties
      <4>2. CASE i = Len(inbox[l]) + 1
        BY <4>1, <4>2
      <4>3. CASE i \in 1..Len(inbox[l])
        <5>1. i \in DOMAIN inbox[l] /\ inbox'[l][i] = inbox[l][i]
          BY <3>1, <4>1, <4>3
        <5> QED
          BY <5>1 DEF InBox
      <4>4. i = Len(inbox[l]) + 1 \/ i \in 1..Len(inbox[l])
        BY <3>1, <4>1
      <4> QED
        BY <4>2, <4>3, <4>4
    <3>4. InBox(inbox'[l]) \subseteq InBox(inbox[l]) \cup ToSet(es)
      BY <3>3 DEF InBox
    <3>5. \A k \in Member \X Member : InBox(inbox'[k]) \subseteq InBox(inbox[k]) \cup ToSet(es)
      BY <3>2, <3>4
    <3> QED
      BY <3>5 DEF Sent
  <2> QED
    BY <2>1, <2>2 DEF Hands, Puts
<1>4. Awaited' \subseteq Awaited \cup ToSet(es)
  BY DEF Hands, Awaited, Types
<1>5. Known' \subseteq Known \cup ToSet(es)
  BY <1>2, <1>3, <1>4 DEF Known
<1>6. /\ batch'[m] = <<>>
      /\ \A n \in Member : n # m => batch'[n] = batch[n]
  BY DEF Hands, Types
<1>7. Batched' \subseteq Batched
  <2>1. ASSUME NEW n \in Member PROVE ToSet(batch'[n]) \subseteq ToSet(batch[n])
    BY <1>6 DEF ToSet
  <2> QED
    BY <2>1 DEF Batched
<1>8. ASSUME NEW c \in Batched', c \in ToSet(calls) PROVE FALSE
  <2>1. PICK n \in Member : \E i \in DOMAIN batch'[n] : c = batch'[n][i]
    BY <1>8 DEF Batched, ToSet
  <2>2. PICK i \in DOMAIN batch'[n] : c = batch'[n][i]
    BY <2>1
  <2>3. n # m /\ batch'[n] = batch[n]
    BY <1>6, <2>2
  <2>4. PICK j \in 1..Len(calls) : c = calls[j]
    BY <1>8, Elements DEF Hands, Fresh
  <2> QED
    BY <2>2, <2>3, <2>4 DEF Hands, Fresh
<1> QED
  BY <1>2, <1>3, <1>4, <1>5, <1>7, <1>8

\* An entry is at a position of a message it was at before, or it is one of es
\* in the message that es are.
LEMMA HandsSent ==
    ASSUME Types, Types', NEW m \in Member, NEW calls, NEW es, Hands(m, calls, es),
           NEW k \in Member \X Member, NEW i \in DOMAIN inbox'[k],
           NEW x \in DOMAIN inbox'[k][i]
    PROVE  \/ /\ i \in DOMAIN inbox[k] /\ x \in DOMAIN inbox[k][i]
              /\ inbox'[k][i][x] = inbox[k][i][x]
           \/ /\ inbox' = [inbox EXCEPT ![k] = Append(@, es)]
              /\ log' = log /\ floating' = floating
              /\ i = Len(inbox[k]) + 1 /\ x \in 1..Len(es)
              /\ inbox'[k][i][x] = es[x]
<1>0. es \in Seq(CallEntries) /\ inbox \in [Member \X Member -> Seq(Seq(CallEntries))]
  BY HandedIs DEF Types
<1>1. CASE inbox' = inbox
  BY <1>1
<1>2. ASSUME NEW l \in Member \X Member, inbox' = [inbox EXCEPT ![l] = Append(@, es)],
             log' = log, floating' = floating
      PROVE  \/ /\ i \in DOMAIN inbox[k] /\ x \in DOMAIN inbox[k][i]
                /\ inbox'[k][i][x] = inbox[k][i][x]
             \/ /\ inbox' = [inbox EXCEPT ![k] = Append(@, es)]
                /\ log' = log /\ floating' = floating
                /\ i = Len(inbox[k]) + 1 /\ x \in 1..Len(es)
                /\ inbox'[k][i][x] = es[x]
  <2>1. CASE k # l
    BY <1>0, <1>2, <2>1
  <2>2. CASE k = l
    <3>1. inbox'[k] = Append(inbox[k], es) /\ inbox[k] \in Seq(Seq(CallEntries))
      BY <1>0, <1>2, <2>2
    <3>2. /\ Len(inbox'[k]) = Len(inbox[k]) + 1 /\ i \in 1..Len(inbox[k]) + 1
          /\ \A j \in 1..Len(inbox[k]) : inbox'[k][j] = inbox[k][j]
          /\ inbox'[k][Len(inbox[k]) + 1] = es
          /\ Len(inbox[k]) \in Nat
      BY <1>0, <3>1, AppendProperties
    <3>3. i = Len(inbox[k]) + 1 \/ i \in 1..Len(inbox[k])
      BY <3>2
    <3>4. CASE i = Len(inbox[k]) + 1
      <4>1. inbox'[k][i] = es
        BY <3>2, <3>4
      <4>2. x \in 1..Len(es)
        BY <1>0, <4>1
      <4> QED
        BY <1>2, <2>2, <3>4, <4>1, <4>2
    <3>5. CASE i \in 1..Len(inbox[k])
      <4>1. i \in DOMAIN inbox[k] /\ inbox'[k][i] = inbox[k][i]
        BY <3>1, <3>2, <3>5
      <4> QED
        BY <4>1
    <3> QED
      BY <3>3, <3>4, <3>5
  <2> QED
    BY <2>1, <2>2
<1> QED
  BY <1>1, <1>2 DEF Hands, Puts

LEMMA HandsLog ==
    ASSUME Types, Types', OnePlace, NEW m \in Member, NEW calls, NEW es,
           Hands(m, calls, es)
    PROVE  OnceInLog' /\ OnceLeft' /\ LeftNotInLog' /\ SentNotTaken'
<1>0. /\ OnceInLog /\ OnceLeft /\ LeftNotInLog /\ SentNotTaken
  BY DEF OnePlace
<1>1. /\ es \in Seq(Entries) /\ ToSet(es) \subseteq CallEntries
      /\ \A i, j \in 1..Len(es) : es[i].call = es[j].call => i = j
      /\ \A d, e \in ToSet(es) : d.call = e.call => d = e
      /\ \A e \in ToSet(es) : \A d \in Known : d.call # e.call
      /\ \A i \in 1..Len(es) : es[i] \in ToSet(es)
  <2>1. es \in Seq(Entries)
    BY HandedIs
  <2>2. \A i \in 1..Len(es) : es[i] \in ToSet(es)
    BY <2>1, Elements
  <2> QED
    BY <2>1, <2>2, HandedIs
<1>2. log \in Seq(Entries) /\ \A i \in 1..Len(log) : log[i] \in Known
  <2>1. log \in Seq(Entries)
    BY DEF Types
  <2>2. \A i \in 1..Len(log) : log[i] \in ToSet(log)
    BY <2>1, Elements
  <2> QED
    BY <2>1, <2>2 DEF Known
<1>3. floating \subseteq Known /\ Sent \subseteq Known
  BY DEF Known
<1>4. CASE log' = log \o es /\ floating' = floating /\ inbox' = inbox
  <2>1. /\ Len(log') = Len(log) + Len(es) /\ Len(log) \in Nat /\ Len(es) \in Nat
        /\ \A i \in 1..Len(log) + Len(es) :
              log'[i] = IF i <= Len(log) THEN log[i] ELSE es[i - Len(log)]
    BY <1>1, <1>2, <1>4, ConcatProperties
  <2>2. ASSUME NEW i \in 1..Len(log')
        PROVE  \/ i \in 1..Len(log) /\ log'[i] = log[i]
               \/ i - Len(log) \in 1..Len(es) /\ log'[i] = es[i - Len(log)]
    BY <2>1
  <2>3. OnceInLog'
    <3> SUFFICES ASSUME NEW i \in 1..Len(log'), NEW j \in 1..Len(log'),
                        log'[i].call # None, log'[i].call = log'[j].call
                 PROVE  i = j
      BY DEF OnceInLog, ProposedOnce
    <3>1. CASE i \in 1..Len(log) /\ log'[i] = log[i] /\ j \in 1..Len(log) /\ log'[j] = log[j]
      BY <1>0, <3>1 DEF OnceInLog, ProposedOnce
    <3>2. CASE /\ i - Len(log) \in 1..Len(es) /\ log'[i] = es[i - Len(log)]
               /\ j - Len(log) \in 1..Len(es) /\ log'[j] = es[j - Len(log)]
      <4>1. i - Len(log) = j - Len(log)
        BY <1>1, <3>2
      <4> QED
        BY <2>1, <4>1
    <3>3. CASE /\ i \in 1..Len(log) /\ log'[i] = log[i]
               /\ j - Len(log) \in 1..Len(es) /\ log'[j] = es[j - Len(log)]
      BY <1>1, <1>2, <3>3
    <3>4. CASE /\ j \in 1..Len(log) /\ log'[j] = log[j]
               /\ i - Len(log) \in 1..Len(es) /\ log'[i] = es[i - Len(log)]
      BY <1>1, <1>2, <3>4
    <3> QED
      BY <2>2, <3>1, <3>2, <3>3, <3>4
  <2>4. OnceLeft'
    BY <1>0, <1>4 DEF OnceLeft
  <2>5. LeftNotInLog'
    <3> SUFFICES ASSUME NEW e \in floating, NEW i \in 1..Len(log'), e.call # None
                 PROVE  e.call # log'[i].call
      BY <1>4 DEF LeftNotInLog
    <3>1. CASE i \in 1..Len(log) /\ log'[i] = log[i]
      BY <1>0, <3>1 DEF LeftNotInLog
    <3>2. CASE i - Len(log) \in 1..Len(es) /\ log'[i] = es[i - Len(log)]
      BY <1>1, <1>3, <3>2
    <3> QED
      BY <2>2, <3>1, <3>2
  <2>6. SentNotTaken'
    <3>1. Sent' = Sent
      BY <1>4 DEF Sent
    <3>2. ToSet(log') \cup floating' \subseteq ToSet(log) \cup floating \cup ToSet(es)
      BY HandsKnown
    <3> QED
      BY <1>0, <1>1, <1>3, <3>1, <3>2 DEF SentNotTaken
  <2> QED
    BY <2>3, <2>4, <2>5, <2>6
<1>5. CASE log' = log /\ floating' = floating \cup ToSet(es) /\ inbox' = inbox
  <2>1. OnceInLog'
    BY <1>0, <1>5 DEF OnceInLog, ProposedOnce
  <2>2. OnceLeft'
    BY <1>0, <1>1, <1>3, <1>5 DEF OnceLeft
  <2>3. LeftNotInLog'
    BY <1>0, <1>1, <1>2, <1>5 DEF LeftNotInLog
  <2>4. SentNotTaken'
    <3>1. Sent' = Sent
      BY <1>5 DEF Sent
    <3> QED
      BY <1>0, <1>1, <1>3, <1>5, <3>1 DEF SentNotTaken
  <2> QED
    BY <2>1, <2>2, <2>3, <2>4
<1>6. CASE log' = log /\ floating' = floating
  <2>1. OnceInLog' /\ OnceLeft' /\ LeftNotInLog'
    BY <1>0, <1>6 DEF OnceInLog, ProposedOnce, OnceLeft, LeftNotInLog
  <2>2. SentNotTaken'
    <3>1. Sent' \subseteq Sent \cup ToSet(es)
      BY HandsKnown
    <3>2. ToSet(log) \cup floating \subseteq Known
      BY DEF Known
    <3> QED
      BY <1>0, <1>1, <1>6, <3>1, <3>2 DEF SentNotTaken
  <2> QED
    BY <2>1, <2>2
<1> QED
  BY <1>4, <1>5, <1>6 DEF Hands, Puts

LEMMA HandsKeeps ==
    ASSUME Types, Types', NEW m \in Member, NEW calls, NEW es, Hands(m, calls, es),
           IdsBehind, IdsUnique, OnePlace, OnceAwaited, AwaitedAt
    PROVE  IdsBehind' /\ IdsUnique' /\ OnePlace' /\ OnceAwaited' /\ AwaitedAt'
<1>1. IdsBehind' /\ IdsUnique'
  <2>1. PICK new : new = ToSet(es)
    OBVIOUS
  <2>2. /\ new \subseteq Entries /\ Known' \subseteq Known \cup new
        /\ \A e \in new : /\ e.id[2] > sequence[e.id[1]]
                          /\ e.id[2] <= sequence'[e.id[1]]
        /\ \A d, e \in new : d.id = e.id => d = e
    BY <2>1, HandedIs, HandsKnown
  <2>3. \A n \in Member : sequence[n] <= sequence'[n]
    <3>1. Len(calls) \in Nat /\ sequence[m] \in Nat /\ sequence'[m] = sequence[m] + Len(calls)
      BY DEF Hands, Fresh, Types
    <3>2. \A n \in Member : n # m => sequence'[n] = sequence[n]
      BY DEF Hands, Types
    <3>3. \A n \in Member : sequence[n] \in Nat
      BY DEF Types
    <3> QED
      BY <3>1, <3>2, <3>3
  <2> QED
    BY <2>2, <2>3, IdsKept
<1>2. OnceInLog' /\ OnceLeft' /\ LeftNotInLog' /\ SentNotTaken'
  BY HandsLog
<1>3. /\ \A e \in ToSet(es) : \A d \in Known : d.call # e.call
      /\ \A i, j \in 1..Len(es) : es[i].call = es[j].call => i = j
      /\ \A d, e \in ToSet(es) : d.call = e.call => d = e
      /\ \A e \in ToSet(es) : e.call \in ToSet(calls)
      /\ \A i \in 1..Len(es) : es[i] \in ToSet(es)
      /\ ToSet(es) \subseteq CallEntries
      /\ Len(es) = Len(calls)
  <2>1. es \in Seq(CallEntries)
    BY HandedIs
  <2>2. \A i \in 1..Len(es) : es[i] \in ToSet(es)
    BY <2>1, Elements
  <2> QED
    BY <2>2, HandedIs
<1>4. OnceSent'
  <2> SUFFICES ASSUME NEW k \in Member \X Member, NEW l \in Member \X Member,
                      NEW i \in DOMAIN inbox'[k], NEW j \in DOMAIN inbox'[l],
                      NEW x \in DOMAIN inbox'[k][i], NEW y \in DOMAIN inbox'[l][j],
                      inbox'[k][i][x].call = inbox'[l][j][y].call
               PROVE  k = l /\ i = j /\ x = y
    BY DEF OnceSent
  <2> DEFINE Old(o, p, q) == /\ p \in DOMAIN inbox[o] /\ q \in DOMAIN inbox[o][p]
                             /\ inbox'[o][p][q] = inbox[o][p][q]
             New(o, p, q) == /\ inbox' = [inbox EXCEPT ![o] = Append(@, es)]
                             /\ p = Len(inbox[o]) + 1 /\ q \in 1..Len(es)
                             /\ inbox'[o][p][q] = es[q]
  <2>1. (Old(k, i, x) \/ New(k, i, x)) /\ (Old(l, j, y) \/ New(l, j, y))
    BY HandsSent
  <2>2. CASE Old(k, i, x) /\ Old(l, j, y)
    BY <2>2 DEF OnePlace, OnceSent
  <2>3. CASE Old(k, i, x) /\ New(l, j, y)
    BY <1>3, <2>3, SentIs DEF Known
  <2>4. CASE New(k, i, x) /\ Old(l, j, y)
    BY <1>3, <2>4, SentIs DEF Known
  <2>5. CASE New(k, i, x) /\ New(l, j, y)
    <3>1. x = y
      BY <1>3, <2>5
    <3>2. k = l
      <4> SUFFICES ASSUME k # l PROVE FALSE
        OBVIOUS
      <4>1. inbox'[k] = inbox[k]
        BY <2>5 DEF Types
      <4>2. inbox'[k] \in Seq(Seq(CallEntries)) /\ i = Len(inbox'[k]) + 1
        BY <2>5, <4>1 DEF Types
      <4>3. i \in 1..Len(inbox'[k]) /\ Len(inbox'[k]) \in Nat
        BY <4>2
      <4> QED
        BY <4>2, <4>3
    <3> QED
      BY <2>5, <3>1, <3>2
  <2> QED
    BY <2>1, <2>2, <2>3, <2>4, <2>5
<1>5. /\ batch'[m] = <<>>
      /\ \A n \in Member : n # m => batch'[n] = batch[n]
  BY DEF Hands, Types
<1>6. OnceBatched'
  BY <1>5 DEF OnePlace, OnceBatched
<1>7. /\ Known' \subseteq Known \cup ToSet(es) /\ Awaited' \subseteq Awaited \cup ToSet(es)
      /\ Batched' \subseteq Batched /\ \A c \in Batched' : c \notin ToSet(calls)
  BY HandsKnown
<1>8. BatchedUnknown'
  BY <1>3, <1>7 DEF OnePlace, BatchedUnknown
<1>9. IdleNowhere'
  BY <1>3, <1>7 DEF OnePlace, IdleNowhere, Hands
<1>10. OnceAwaited'
  BY <1>3, <1>7 DEF OnceAwaited, Known
<1>11. AwaitedAt'
  <2> SUFFICES ASSUME NEW n \in Member
               PROVE  /\ \A w \in waiters'[n] : call'[w.call].at = n
                      /\ \A i \in DOMAIN batch'[n] : call'[batch'[n][i]].at = n
    BY DEF AwaitedAt
  <2>1. ASSUME NEW w \in waiters'[n] PROVE call'[w.call].at = n
    <3>1. w \in CallEntries /\ w.call \in Call
      BY DEF Types, CallEntries
    <3>2. CASE w \in waiters[n]
      <4>1. w \in Known
        BY <3>2 DEF Known, Awaited
      <4>2. w.call \notin ToSet(calls)
        <5>1. calls \in Seq(Call) /\ \A i \in 1..Len(calls) : w.call # calls[i]
          BY <4>1 DEF Hands, Fresh
        <5> QED
          BY <5>1, Elements
      <4>3. call[w.call].state # "idle"
        BY <3>1, <4>1 DEF OnePlace, IdleNowhere
      <4> QED
        BY <3>1, <3>2, <4>2, <4>3 DEF Hands, AwaitedAt
    <3>3. CASE w \notin waiters[n]
      <4>1. n = m /\ w \in ToSet(es)
        BY <3>3 DEF Hands, Types
      <4> QED
        BY <1>3, <3>1, <4>1 DEF Hands
    <3> QED
      BY <3>2, <3>3
  <2>2. ASSUME NEW i \in DOMAIN batch'[n] PROVE call'[batch'[n][i]].at = n
    <3>1. n # m /\ batch'[n] = batch[n] /\ i \in DOMAIN batch[n]
      BY <1>5
    <3>2. batch[n][i] \in Batched /\ batch[n][i] \in Call
      BY <3>1, BatchedIs, KnownTyped
    <3>3. batch[n][i] \notin ToSet(calls)
      <4>1. calls \in Seq(Call) /\ \A j \in 1..Len(calls) : batch[n][i] # calls[j]
        BY <3>1 DEF Hands, Fresh
      <4> QED
        BY <4>1, Elements
    <3>4. call[batch[n][i]].state # "idle"
      BY <3>2 DEF OnePlace, IdleNowhere
    <3> QED
      BY <3>1, <3>2, <3>3, <3>4 DEF Hands, AwaitedAt
  <2> QED
    BY <2>1, <2>2
<1> QED
  BY <1>1, <1>2, <1>4, <1>6, <1>8, <1>9, <1>10, <1>11 DEF OnePlace

----------------------------------------------------------------------------
(* Steps that take a message.                                              *)

\* The first message of l is appended, left behind, or refused.
Takes(l, es) ==
    /\ inbox[l] # <<>> /\ es = Head(inbox[l])
    /\ inbox' = [inbox EXCEPT ![l] = Tail(@)]
    /\ \/ log' = log \o es /\ floating' = floating
       \/ log' = log /\ floating' = floating \cup ToSet(es)
       \/ log' = log /\ floating' = floating
    /\ UNCHANGED <<sequence, waiters, batch, call>>

\* What is still in a message was at a position of its own, never the one of
\* the entries taken.
LEMMA TakesSent ==
    ASSUME Types, NEW l \in Member \X Member, NEW es, Takes(l, es),
           NEW k \in Member \X Member, NEW i \in DOMAIN inbox'[k],
           NEW x \in DOMAIN inbox'[k][i]
    PROVE  LET j == IF k = l THEN i + 1 ELSE i
           IN  /\ j \in DOMAIN inbox[k] /\ x \in DOMAIN inbox[k][j]
               /\ inbox'[k][i][x] = inbox[k][j][x]
               /\ k = l => j # 1
<1>0. inbox \in [Member \X Member -> Seq(Seq(CallEntries))]
  BY DEF Types
<1>1. CASE k # l
  <2>1. inbox'[k] = inbox[k]
    BY <1>0, <1>1 DEF Takes
  <2> QED
    BY <1>1, <2>1
<1>2. CASE k = l
  <2>1. inbox[k] \in Seq(Seq(CallEntries)) /\ inbox[k] # <<>> /\ inbox'[k] = Tail(inbox[k])
    BY <1>0, <1>2 DEF Takes
  <2>2. /\ Len(inbox'[k]) = Len(inbox[k]) - 1 /\ inbox'[k] \in Seq(Seq(CallEntries))
        /\ \A j \in 1..Len(inbox'[k]) : inbox'[k][j] = inbox[k][j + 1]
    BY <2>1, HeadTailProperties
  <2>3. i \in 1..Len(inbox'[k]) /\ Len(inbox[k]) \in Nat
    BY <2>1, <2>2
  <2>4. i + 1 \in 1..Len(inbox[k]) /\ i + 1 # 1 /\ inbox'[k][i] = inbox[k][i + 1]
    <3>1. inbox'[k][i] = inbox[k][i + 1]
      BY <2>2, <2>3
    <3>2. Len(inbox'[k]) = Len(inbox[k]) - 1
      BY <2>2
    <3> QED
      BY <2>3, <3>1, <3>2
  <2>5. i + 1 \in DOMAIN inbox[k] /\ x \in DOMAIN inbox[k][i + 1]
    BY <2>1, <2>4
  <2> QED
    BY <1>2, <2>4, <2>5
<1> QED
  BY <1>1, <1>2

LEMMA TakenIs ==
    ASSUME Types, OnePlace, NEW l \in Member \X Member, NEW es, Takes(l, es)
    PROVE  /\ es \in Seq(CallEntries) /\ es \in Seq(Entries)
           /\ 1 \in DOMAIN inbox[l] /\ inbox[l][1] = es
           /\ ToSet(es) \subseteq Sent
           /\ \A i \in 1..Len(es) : es[i] \in ToSet(es)
           /\ \A i, j \in 1..Len(es) : es[i].call = es[j].call => i = j
           /\ \A d, e \in ToSet(es) : d.call = e.call => d = e
           /\ \A e \in ToSet(es) : \A d \in ToSet(log) \cup floating : e.call # d.call
<1>1. inbox[l] \in Seq(Seq(CallEntries)) /\ inbox[l] # <<>>
  BY DEF Types, Takes
<1>2. Len(inbox[l]) \in Nat \ {0} /\ 1 \in DOMAIN inbox[l] /\ inbox[l][1] = es
  BY <1>1, EmptySeq DEF Takes
<1>3. es \in Seq(CallEntries)
  BY <1>1, <1>2
<1>4. es \in Seq(Entries)
  <2>1. CallEntries \subseteq Entries
    BY DEF CallEntries, Entries
  <2> QED
    BY <1>3, <2>1, SeqMonotonic
<1>5. ToSet(es) \subseteq Sent
  BY <1>2 DEF Sent, InBox
<1>6. /\ \A i \in 1..Len(es) : es[i] \in ToSet(es)
      /\ \A e \in ToSet(es) : \E i \in 1..Len(es) : e = es[i]
  BY <1>3, Elements
<1>7. \A i, j \in 1..Len(es) : es[i].call = es[j].call => i = j
  <2>1. DOMAIN inbox[l][1] = 1..Len(es)
    BY <1>2, <1>3
  <2> QED
    BY <1>2, <2>1 DEF OnePlace, OnceSent
<1>8. \A d, e \in ToSet(es) : d.call = e.call => d = e
  BY <1>6, <1>7
<1>9. \A e \in ToSet(es) : \A d \in ToSet(log) \cup floating : e.call # d.call
  BY <1>5 DEF OnePlace, SentNotTaken
<1> QED
  BY <1>2, <1>3, <1>4, <1>5, <1>6, <1>7, <1>8, <1>9

LEMMA TakesKnown ==
    ASSUME Types, Types', OnePlace, NEW l \in Member \X Member, NEW es, Takes(l, es)
    PROVE  /\ Sent' \subseteq Sent
           /\ \A e \in Sent' : \A d \in ToSet(es) : e.call # d.call
           /\ ToSet(log') \cup floating' \subseteq ToSet(log) \cup floating \cup ToSet(es)
           /\ Known' \subseteq Known
<1>1. ASSUME NEW e \in Sent'
      PROVE  e \in Sent /\ \A d \in ToSet(es) : e.call # d.call
  <2>1. PICK k \in Member \X Member : \E i \in DOMAIN inbox'[k] :
             \E x \in DOMAIN inbox'[k][i] : e = inbox'[k][i][x]
    BY <1>1 DEF Sent, InBox, ToSet
  <2>2. PICK i \in DOMAIN inbox'[k] : \E x \in DOMAIN inbox'[k][i] : e = inbox'[k][i][x]
    BY <2>1
  <2>3. PICK x \in DOMAIN inbox'[k][i] : e = inbox'[k][i][x]
    BY <2>2
  <2>4. PICK j \in DOMAIN inbox[k] : /\ x \in DOMAIN inbox[k][j] /\ e = inbox[k][j][x]
                                     /\ k = l => j # 1
    BY <2>3, TakesSent
  <2>5. e \in Sent
    BY <2>4, SentIs
  <2>6. ASSUME NEW d \in ToSet(es), e.call = d.call PROVE FALSE
    <3>1. PICK y \in 1..Len(es) : d = es[y]
      BY TakenIs, Elements
    <3>2. 1 \in DOMAIN inbox[l] /\ y \in DOMAIN inbox[l][1] /\ d = inbox[l][1][y]
      BY <3>1, TakenIs
    <3>3. k = l /\ j = 1
      BY <2>4, <2>6, <3>2 DEF OnePlace, OnceSent
    <3> QED
      BY <2>4, <3>3
  <2> QED
    BY <2>5, <2>6
<1>2. ToSet(log') \cup floating' \subseteq ToSet(log) \cup floating \cup ToSet(es)
  <2>1. log \in Seq(Entries) /\ es \in Seq(Entries)
    BY TakenIs DEF Types
  <2>2. ToSet(log \o es) = ToSet(log) \cup ToSet(es)
    BY <2>1, ElementsOfConcat
  <2> QED
    BY <2>2 DEF Takes
<1>3. Awaited' = Awaited
  BY DEF Takes, Awaited
<1>4. ToSet(es) \subseteq Sent
  BY TakenIs
<1> QED
  BY <1>1, <1>2, <1>3, <1>4 DEF Known

LEMMA TakesLog ==
    ASSUME Types, Types', OnePlace, NEW l \in Member \X Member, NEW es, Takes(l, es)
    PROVE  OnceInLog' /\ OnceLeft' /\ LeftNotInLog' /\ SentNotTaken'
<1>0. /\ OnceInLog /\ OnceLeft /\ LeftNotInLog /\ SentNotTaken
  BY DEF OnePlace
<1>1. /\ es \in Seq(Entries)
      /\ \A i, j \in 1..Len(es) : es[i].call = es[j].call => i = j
      /\ \A d, e \in ToSet(es) : d.call = e.call => d = e
      /\ \A e \in ToSet(es) : \A d \in ToSet(log) \cup floating : e.call # d.call
      /\ \A i \in 1..Len(es) : es[i] \in ToSet(es)
  BY TakenIs
<1>2. log \in Seq(Entries) /\ \A i \in 1..Len(log) : log[i] \in ToSet(log)
  <2>1. log \in Seq(Entries)
    BY DEF Types
  <2> QED
    BY <2>1, Elements
<1>3. SentNotTaken'
  BY <1>0, TakesKnown DEF SentNotTaken
<1>4. CASE log' = log \o es /\ floating' = floating
  <2>1. /\ Len(log') = Len(log) + Len(es) /\ Len(log) \in Nat /\ Len(es) \in Nat
        /\ \A i \in 1..Len(log) + Len(es) :
              log'[i] = IF i <= Len(log) THEN log[i] ELSE es[i - Len(log)]
    BY <1>1, <1>2, <1>4, ConcatProperties
  <2>2. ASSUME NEW i \in 1..Len(log')
        PROVE  \/ i \in 1..Len(log) /\ log'[i] = log[i]
               \/ i - Len(log) \in 1..Len(es) /\ log'[i] = es[i - Len(log)]
    BY <2>1
  <2>3. OnceInLog'
    <3> SUFFICES ASSUME NEW i \in 1..Len(log'), NEW j \in 1..Len(log'),
                        log'[i].call # None, log'[i].call = log'[j].call
                 PROVE  i = j
      BY DEF OnceInLog, ProposedOnce
    <3>1. CASE i \in 1..Len(log) /\ log'[i] = log[i] /\ j \in 1..Len(log) /\ log'[j] = log[j]
      BY <1>0, <3>1 DEF OnceInLog, ProposedOnce
    <3>2. CASE /\ i - Len(log) \in 1..Len(es) /\ log'[i] = es[i - Len(log)]
               /\ j - Len(log) \in 1..Len(es) /\ log'[j] = es[j - Len(log)]
      <4>1. i - Len(log) = j - Len(log)
        BY <1>1, <3>2
      <4> QED
        BY <2>1, <4>1
    <3>3. CASE /\ i \in 1..Len(log) /\ log'[i] = log[i]
               /\ j - Len(log) \in 1..Len(es) /\ log'[j] = es[j - Len(log)]
      BY <1>1, <1>2, <3>3
    <3>4. CASE /\ j \in 1..Len(log) /\ log'[j] = log[j]
               /\ i - Len(log) \in 1..Len(es) /\ log'[i] = es[i - Len(log)]
      BY <1>1, <1>2, <3>4
    <3> QED
      BY <2>2, <3>1, <3>2, <3>3, <3>4
  <2>4. OnceLeft'
    BY <1>0, <1>4 DEF OnceLeft
  <2>5. LeftNotInLog'
    <3> SUFFICES ASSUME NEW e \in floating, NEW i \in 1..Len(log'), e.call # None
                 PROVE  e.call # log'[i].call
      BY <1>4 DEF LeftNotInLog
    <3>1. CASE i \in 1..Len(log) /\ log'[i] = log[i]
      BY <1>0, <3>1 DEF LeftNotInLog
    <3>2. CASE i - Len(log) \in 1..Len(es) /\ log'[i] = es[i - Len(log)]
      BY <1>1, <3>2
    <3> QED
      BY <2>2, <3>1, <3>2
  <2> QED
    BY <1>3, <2>3, <2>4, <2>5
<1>5. CASE log' = log /\ floating' = floating \cup ToSet(es)
  <2>1. OnceInLog'
    BY <1>0, <1>5 DEF OnceInLog, ProposedOnce
  <2>2. OnceLeft'
    BY <1>0, <1>1, <1>5 DEF OnceLeft
  <2>3. LeftNotInLog'
    BY <1>0, <1>1, <1>2, <1>5 DEF LeftNotInLog
  <2> QED
    BY <1>3, <2>1, <2>2, <2>3
<1>6. CASE log' = log /\ floating' = floating
  BY <1>0, <1>3, <1>6 DEF OnceInLog, ProposedOnce, OnceLeft, LeftNotInLog
<1> QED
  BY <1>4, <1>5, <1>6 DEF Takes

LEMMA TakesKeeps ==
    ASSUME Types, Types', NEW l \in Member \X Member, NEW es, Takes(l, es),
           IdsBehind, IdsUnique, OnePlace, OnceAwaited, AwaitedAt
    PROVE  IdsBehind' /\ IdsUnique' /\ OnePlace' /\ OnceAwaited' /\ AwaitedAt'
<1>1. Sent' \subseteq Sent /\ Known' \subseteq Known
  BY TakesKnown
<1>2. IdsBehind' /\ IdsUnique'
  BY <1>1 DEF IdsBehind, IdsUnique, Takes
<1>3. OnceInLog' /\ OnceLeft' /\ LeftNotInLog' /\ SentNotTaken'
  BY TakesLog
<1>4. OnceSent'
  <2> SUFFICES ASSUME NEW k \in Member \X Member, NEW h \in Member \X Member,
                      NEW i \in DOMAIN inbox'[k], NEW j \in DOMAIN inbox'[h],
                      NEW x \in DOMAIN inbox'[k][i], NEW y \in DOMAIN inbox'[h][j],
                      inbox'[k][i][x].call = inbox'[h][j][y].call
               PROVE  k = h /\ i = j /\ x = y
    BY DEF OnceSent
  <2> DEFINE p == IF k = l THEN i + 1 ELSE i
             q == IF h = l THEN j + 1 ELSE j
  <2>1. /\ p \in DOMAIN inbox[k] /\ x \in DOMAIN inbox[k][p]
        /\ inbox'[k][i][x] = inbox[k][p][x]
    BY TakesSent
  <2>2. /\ q \in DOMAIN inbox[h] /\ y \in DOMAIN inbox[h][q]
        /\ inbox'[h][j][y] = inbox[h][q][y]
    BY TakesSent
  <2>3. k = h /\ p = q /\ x = y
    BY <2>1, <2>2 DEF OnePlace, OnceSent
  <2>4. i \in Nat /\ j \in Nat
    <3>1. inbox'[k] \in Seq(Seq(CallEntries)) /\ inbox'[h] \in Seq(Seq(CallEntries))
      BY DEF Types
    <3>2. DOMAIN inbox'[k] = 1..Len(inbox'[k]) /\ DOMAIN inbox'[h] = 1..Len(inbox'[h])
      BY <3>1
    <3> QED
      BY <3>2
  <2>5. CASE k = l
    <3>1. i + 1 = j + 1
      BY <2>3, <2>5
    <3> QED
      BY <2>3, <2>4, <3>1
  <2>6. CASE k # l
    BY <2>3, <2>6
  <2> QED
    BY <2>5, <2>6
<1>5. Batched' = Batched /\ Awaited' = Awaited
  BY DEF Takes, Batched, Awaited
<1>6. OnceBatched' /\ BatchedUnknown' /\ IdleNowhere'
  BY <1>1, <1>5 DEF OnePlace, OnceBatched, BatchedUnknown, IdleNowhere, Takes
<1>7. OnceAwaited' /\ AwaitedAt'
  BY <1>5 DEF OnceAwaited, AwaitedAt, Takes
<1> QED
  BY <1>2, <1>3, <1>4, <1>6, <1>7 DEF OnePlace

----------------------------------------------------------------------------
(* An election.                                                            *)

Rest == floating \cup ToSet(SubSeq(log, committed + 1, Len(log)))

\* The new leader's log: what is committed, those of the rest it kept, in some
\* order, and an entry of its own.
Elects(kept, t, own) ==
    /\ kept \subseteq Rest /\ t \in Seq(kept)
    /\ \A i, j \in 1..Len(t) : t[i] = t[j] => i = j
    /\ own \in Entries /\ own.call = None
    /\ own.id[2] = sequence[own.id[1]] + 1
    /\ sequence' = [sequence EXCEPT ![own.id[1]] = @ + 1]
    /\ log' = SubSeq(log, 1, committed) \o t \o <<own>>
    /\ floating' = Rest \ kept
    /\ UNCHANGED <<inbox, waiters, batch, call>>

\* The rest: entries known, each of an operation of its own, none committed.
LEMMA RestIs ==
    ASSUME Types, OnePlace
    PROVE  /\ Rest \subseteq ToSet(log) \cup floating
           /\ \A d, e \in Rest : d.call # None /\ d.call = e.call => d = e
           /\ \A e \in Rest : \A i \in 1..committed :
                 e.call # None => e.call # log[i].call
<1>0. log \in Seq(Entries) /\ committed \in Nat /\ committed <= Len(log) /\ Len(log) \in Nat
  BY DEF Types
<1>1. PICK tail : tail = SubSeq(log, committed + 1, Len(log))
  OBVIOUS
<1>2. ASSUME NEW e \in ToSet(tail)
      PROVE  \E i \in 1..Len(log) : i > committed /\ e = log[i]
  <2>1. /\ tail \in Seq(Entries)
        /\ Len(tail) = IF committed + 1 <= Len(log) THEN Len(log) - (committed + 1) + 1 ELSE 0
        /\ \A k \in 1..(Len(log) - (committed + 1) + 1) :
              tail[k] = log[committed + 1 + k - 1]
    <3>1. committed + 1 \in Nat /\ committed + 1 >= 1 /\ Len(log) \in 0..Len(log)
      BY <1>0
    <3>2. PICK n : n = committed + 1
      OBVIOUS
    <3> QED
      BY <1>0, <1>1, <3>1, <3>2, ElementsOfPart
  <2>2. PICK k \in 1..Len(tail) : e = tail[k]
    BY <2>1, Elements
  <2>3. k \in 1..(Len(log) - (committed + 1) + 1)
    BY <1>0, <2>1
  <2>4. /\ committed + 1 + k - 1 \in 1..Len(log) /\ committed + 1 + k - 1 > committed
    BY <1>0, <2>3
  <2> QED
    BY <2>1, <2>2, <2>3, <2>4
<1>3. \A i \in 1..Len(log) : log[i] \in ToSet(log)
  BY <1>0, Elements
<1>4. Rest = floating \cup ToSet(tail)
  BY <1>1 DEF Rest
<1>5. Rest \subseteq ToSet(log) \cup floating
  BY <1>2, <1>3, <1>4
<1>6. ASSUME NEW d \in Rest, NEW e \in Rest, d.call # None, d.call = e.call
      PROVE  d = e
  BY <1>2, <1>4, <1>6 DEF OnePlace, OnceInLog, ProposedOnce, OnceLeft, LeftNotInLog
<1>7. ASSUME NEW e \in Rest, NEW i \in 1..committed, e.call # None
      PROVE  e.call # log[i].call
  <2>1. i \in 1..Len(log)
    BY <1>0
  <2>2. CASE e \in floating
    BY <1>7, <2>1, <2>2 DEF OnePlace, LeftNotInLog
  <2>3. CASE e \in ToSet(tail)
    <3>1. PICK j \in 1..Len(log) : j > committed /\ e = log[j]
      BY <1>2, <2>3
    <3>2. i # j
      BY <1>0, <3>1
    <3> QED
      BY <1>7, <2>1, <3>1, <3>2 DEF OnePlace, OnceInLog, ProposedOnce
  <2> QED
    BY <1>4, <2>2, <2>3
<1> QED
  BY <1>5, <1>6, <1>7

\* An entry of the new log is committed, one that was kept, or the leader's.
LEMMA ElectsLog ==
    ASSUME Types, OnePlace, NEW kept, NEW t, NEW own, Elects(kept, t, own)
    PROVE  /\ log' \in Seq(Entries)
           /\ Len(log') = committed + Len(t) + 1 /\ Len(t) \in Nat
           /\ \A i \in 1..committed : log'[i] = log[i]
           /\ \A i \in 1..Len(t) : t[i] \in kept
           /\ \A i \in 1..Len(log') :
                 \/ i \in 1..committed /\ log'[i] = log[i]
                 \/ i - committed \in 1..Len(t) /\ log'[i] = t[i - committed]
                 \/ i = Len(log') /\ log'[i] = own
<1>0. log \in Seq(Entries) /\ committed \in Nat /\ committed <= Len(log) /\ Len(log) \in Nat
  BY DEF Types
<1>1. PICK head : head = SubSeq(log, 1, committed)
  OBVIOUS
<1>2. /\ head \in Seq(Entries) /\ Len(head) = committed
      /\ \A k \in 1..committed : head[k] = log[k]
  <2>1. PICK j : j = committed
    OBVIOUS
  <2>2. j \in 0..Len(log)
    BY <1>0, <2>1
  <2>3. /\ head \in Seq(Entries)
        /\ Len(head) = IF 1 <= j THEN j - 1 + 1 ELSE 0
        /\ \A k \in 1..(j - 1 + 1) : head[k] = log[1 + k - 1]
    BY <1>0, <1>1, <2>1, <2>2, ElementsOfPart
  <2>4. j - 1 + 1 = j /\ \A k \in 1..j : 1 + k - 1 = k
    BY <1>0, <2>1
  <2> QED
    BY <1>0, <2>1, <2>3, <2>4
<1>3. t \in Seq(Entries) /\ Len(t) \in Nat /\ \A i \in 1..Len(t) : t[i] \in kept
  <2>1. t \in Seq(kept) /\ kept \subseteq Rest
    BY DEF Elects
  <2>2. Rest \subseteq Entries
    BY RestIs, KnownTyped DEF Known
  <2>3. kept \subseteq Entries
    BY <2>1, <2>2
  <2>4. t \in Seq(Entries)
    BY <2>1, <2>3, SeqMonotonic
  <2> QED
    BY <2>1, <2>4, ElementOfSeq, LenProperties
<1>4. PICK mid : mid = head \o t
  OBVIOUS
<1>5. /\ mid \in Seq(Entries) /\ Len(mid) = committed + Len(t)
      /\ \A i \in 1..committed + Len(t) :
            mid[i] = IF i <= committed THEN head[i] ELSE t[i - committed]
  BY <1>2, <1>3, <1>4, ConcatProperties
<1>6. PICK one : one = <<own>>
  OBVIOUS
<1>7. one \in Seq(Entries) /\ Len(one) = 1 /\ one[1] = own
  BY <1>6 DEF Elects
<1>8. /\ log' \in Seq(Entries) /\ Len(log') = committed + Len(t) + 1
      /\ \A i \in 1..committed + Len(t) + 1 :
            log'[i] = IF i <= committed + Len(t) THEN mid[i]
                      ELSE one[i - (committed + Len(t))]
  <2>1. log' = mid \o one
    BY <1>1, <1>4, <1>6 DEF Elects
  <2>2. /\ log' \in Seq(Entries) /\ Len(log') = Len(mid) + Len(one)
        /\ \A i \in 1..Len(mid) + Len(one) :
              log'[i] = IF i <= Len(mid) THEN mid[i] ELSE one[i - Len(mid)]
    BY <1>5, <1>7, <2>1, ConcatProperties
  <2> QED
    BY <1>5, <1>7, <2>2
<1>9. \A i \in 1..committed : log'[i] = log[i]
  <2> TAKE i \in 1..committed
  <2>1. i \in 1..committed + Len(t) + 1 /\ i \in 1..committed + Len(t) /\ i <= committed
    BY <1>0, <1>3
  <2> QED
    BY <1>2, <1>5, <1>8, <2>1
<1>10. ASSUME NEW i \in 1..Len(log')
       PROVE  \/ i \in 1..committed /\ log'[i] = log[i]
              \/ i - committed \in 1..Len(t) /\ log'[i] = t[i - committed]
              \/ i = Len(log') /\ log'[i] = own
  <2>1. CASE i <= committed
    BY <1>0, <1>9, <2>1
  <2>2. CASE i > committed /\ i <= committed + Len(t)
    <3>1. i \in 1..committed + Len(t) /\ i - committed \in 1..Len(t)
          /\ i \in 1..committed + Len(t) + 1 /\ ~(i <= committed)
      BY <1>0, <1>3, <2>2
    <3> QED
      BY <1>5, <1>8, <2>2, <3>1
  <2>3. CASE i > committed + Len(t)
    <3>0. Len(log') = committed + Len(t) + 1 /\ i \in 1..Len(log')
      BY <1>8
    <3>1. i = committed + Len(t) + 1 /\ i - (committed + Len(t)) = 1
      BY <1>0, <1>3, <2>3, <3>0
    <3>2. ~(i <= committed + Len(t)) /\ i \in 1..committed + Len(t) + 1
      BY <1>0, <1>3, <3>1
    <3> QED
      BY <1>7, <1>8, <3>1, <3>2
  <2> QED
    BY <1>0, <1>3, <2>1, <2>2, <2>3
<1> QED
  BY <1>3, <1>8, <1>9, <1>10

LEMMA ElectsKeepsLog ==
    ASSUME ProposalsAssumption, Types, Types', OnePlace, NEW kept, NEW t, NEW own, Elects(kept, t, own)
    PROVE  /\ OnceInLog' /\ OnceLeft' /\ LeftNotInLog' /\ SentNotTaken'
           /\ ToSet(log') \cup floating' \subseteq ToSet(log) \cup floating \cup {own}
<1>1. /\ Rest \subseteq ToSet(log) \cup floating
      /\ \A d, e \in Rest : d.call # None /\ d.call = e.call => d = e
      /\ \A e \in Rest : \A i \in 1..committed :
            e.call # None => e.call # log[i].call
  BY RestIs
<1>2. /\ log' \in Seq(Entries) /\ Len(t) \in Nat
      /\ \A i \in 1..Len(t) : t[i] \in kept
      /\ \A i \in 1..Len(log') :
            \/ i \in 1..committed /\ log'[i] = log[i]
            \/ i - committed \in 1..Len(t) /\ log'[i] = t[i - committed]
            \/ i = Len(log') /\ log'[i] = own
  BY ElectsLog
<1>3. /\ kept \subseteq Rest /\ floating' = Rest \ kept /\ own.call = None
      /\ inbox' = inbox
      /\ \A i, j \in 1..Len(t) : t[i] = t[j] => i = j
  BY DEF Elects
<1>4. log \in Seq(Entries) /\ committed \in Nat /\ committed <= Len(log) /\ Len(log) \in Nat
  BY DEF Types
<1>5. \A i \in 1..committed : i \in 1..Len(log) /\ log[i] \in ToSet(log)
  BY <1>4, Elements
<1>6. OnceInLog'
  <2> SUFFICES ASSUME NEW i \in 1..Len(log'), NEW j \in 1..Len(log'),
                      log'[i].call # None, log'[i].call = log'[j].call
               PROVE  i = j
    BY DEF OnceInLog, ProposedOnce
  <2>1. CASE i \in 1..committed /\ log'[i] = log[i] /\ j \in 1..committed /\ log'[j] = log[j]
    BY <1>5, <2>1 DEF OnePlace, OnceInLog, ProposedOnce
  <2>2. CASE /\ i - committed \in 1..Len(t) /\ log'[i] = t[i - committed]
             /\ j - committed \in 1..Len(t) /\ log'[j] = t[j - committed]
    <3>1. t[i - committed] = t[j - committed]
      BY <1>1, <1>2, <1>3, <2>2
    <3>2. i - committed = j - committed
      BY <1>3, <2>2, <3>1
    <3> QED
      BY <1>4, <3>2
  <2>3. CASE /\ i \in 1..committed /\ log'[i] = log[i]
             /\ j - committed \in 1..Len(t) /\ log'[j] = t[j - committed]
    BY <1>1, <1>2, <1>3, <2>3
  <2>4. CASE /\ j \in 1..committed /\ log'[j] = log[j]
             /\ i - committed \in 1..Len(t) /\ log'[i] = t[i - committed]
    BY <1>1, <1>2, <1>3, <2>4
  <2> QED
    BY <1>2, <1>3, <2>1, <2>2, <2>3, <2>4
<1>7. OnceLeft'
  BY <1>1, <1>3 DEF OnceLeft
<1>8. LeftNotInLog'
  <2> SUFFICES ASSUME NEW e \in Rest \ kept, NEW i \in 1..Len(log'), e.call # None,
                      e.call = log'[i].call
               PROVE  FALSE
    BY <1>3 DEF LeftNotInLog
  <2>1. CASE i \in 1..committed /\ log'[i] = log[i]
    BY <1>1, <2>1
  <2>2. CASE i - committed \in 1..Len(t) /\ log'[i] = t[i - committed]
    BY <1>1, <1>2, <1>3, <2>2
  <2> QED
    BY <1>2, <1>3, <2>1, <2>2
<1>9. ToSet(log') \cup floating' \subseteq ToSet(log) \cup floating \cup {own}
  <2>1. ASSUME NEW e \in ToSet(log') PROVE e \in ToSet(log) \cup floating \cup {own}
    <3>1. PICK i \in 1..Len(log') : e = log'[i]
      BY <1>2, <2>1, Elements
    <3> QED
      BY <1>1, <1>2, <1>3, <1>5, <3>1
  <2> QED
    BY <1>1, <1>3, <2>1
<1>10. SentNotTaken'
  <2> SUFFICES ASSUME NEW e \in Sent, NEW d \in ToSet(log') \cup floating', e.call = d.call
               PROVE  FALSE
    BY <1>3 DEF SentNotTaken, Sent
  <2>1. e.call \in Call /\ None \notin Call
    BY KnownTyped, Bounds DEF CallEntries
  <2>2. d # own
    BY <1>3, <2>1
  <2> QED
    BY <1>9, <2>2 DEF OnePlace, SentNotTaken
<1> QED
  BY <1>6, <1>7, <1>8, <1>9, <1>10

LEMMA ElectsKeeps ==
    ASSUME ProposalsAssumption, Types, Types', NEW kept, NEW t, NEW own, Elects(kept, t, own),
           IdsBehind, IdsUnique, OnePlace, OnceAwaited, AwaitedAt
    PROVE  IdsBehind' /\ IdsUnique' /\ OnePlace' /\ OnceAwaited' /\ AwaitedAt'
<1>1. /\ OnceInLog' /\ OnceLeft' /\ LeftNotInLog' /\ SentNotTaken'
      /\ ToSet(log') \cup floating' \subseteq ToSet(log) \cup floating \cup {own}
  BY ElectsKeepsLog
<1>2. Sent' = Sent /\ Awaited' = Awaited /\ Batched' = Batched
  BY DEF Elects, Sent, Awaited, Batched
<1>3. Known' \subseteq Known \cup {own}
  BY <1>1, <1>2 DEF Known
<1>4. IdsBehind' /\ IdsUnique'
  <2>1. own \in Entries /\ own.id[1] \in Member /\ own.id[2] \in Nat
    BY DEF Elects, Entries
  <2>2. PICK new : new = {own}
    OBVIOUS
  <2>3. /\ sequence'[own.id[1]] = sequence[own.id[1]] + 1
        /\ \A n \in Member : n # own.id[1] => sequence'[n] = sequence[n]
        /\ \A n \in Member : sequence[n] \in Nat
        /\ own.id[2] = sequence[own.id[1]] + 1
    BY <2>1 DEF Elects, Types
  <2>4. \A n \in Member : sequence[n] <= sequence'[n]
    BY <2>1, <2>3
  <2>5. own.id[2] > sequence[own.id[1]] /\ own.id[2] <= sequence'[own.id[1]]
    BY <2>1, <2>3
  <2>6. /\ new \subseteq Entries /\ Known' \subseteq Known \cup new
        /\ \A e \in new : /\ e.id[2] > sequence[e.id[1]]
                          /\ e.id[2] <= sequence'[e.id[1]]
        /\ \A d, e \in new : d.id = e.id => d = e
    BY <1>3, <2>1, <2>2, <2>5
  <2> QED
    BY <2>4, <2>6, IdsKept
<1>5. own.call \notin Call
  BY Bounds DEF Elects
<1>6. OnceSent' /\ OnceBatched'
  BY DEF OnePlace, OnceSent, OnceBatched, Elects
<1>7. BatchedUnknown'
  BY <1>2, <1>3, <1>5, KnownTyped DEF OnePlace, BatchedUnknown
<1>8. IdleNowhere'
  BY <1>2, <1>3, <1>5 DEF OnePlace, IdleNowhere, Elects
<1>9. OnceAwaited' /\ AwaitedAt'
  BY <1>2 DEF OnceAwaited, AwaitedAt, Elects
<1> QED
  BY <1>1, <1>4, <1>6, <1>7, <1>8, <1>9 DEF OnePlace

----------------------------------------------------------------------------
(* Steps that queue a call.                                                *)

Queues(c, m) ==
    /\ call[c].state = "idle"
    /\ batch' = [batch EXCEPT ![m] = Append(@, c)]
    /\ call' = [call EXCEPT ![c] = After(c, m, "waiting")]
    /\ UNCHANGED <<log, floating, inbox, waiters, sequence>>

\* What is in a batch was there, or it is the call at the end of this one.
LEMMA QueuesBatch ==
    ASSUME Types, NEW c \in Call, NEW m \in Member, Queues(c, m),
           NEW n \in Member, NEW i \in DOMAIN batch'[n]
    PROVE  \/ i \in DOMAIN batch[n] /\ batch'[n][i] = batch[n][i]
           \/ n = m /\ i = Len(batch[m]) + 1 /\ batch'[n][i] = c
<1>1. batch \in [Member -> Seq(Call)] /\ batch[n] \in Seq(Call)
  BY DEF Types
<1>2. CASE n # m
  BY <1>1, <1>2 DEF Queues
<1>3. CASE n = m
  <2>1. batch'[n] = Append(batch[n], c)
    BY <1>1, <1>3 DEF Queues
  <2>2. /\ Len(batch'[n]) = Len(batch[n]) + 1 /\ Len(batch[n]) \in Nat
        /\ batch'[n] \in Seq(Call)
        /\ \A j \in 1..Len(batch[n]) : batch'[n][j] = batch[n][j]
        /\ batch'[n][Len(batch[n]) + 1] = c
    BY <1>1, <2>1, AppendProperties
  <2>3. i \in 1..Len(batch[n]) + 1
    BY <2>2
  <2>4. CASE i \in 1..Len(batch[n])
    BY <1>1, <2>2, <2>4
  <2>5. CASE i = Len(batch[n]) + 1
    BY <1>3, <2>2, <2>5
  <2> QED
    BY <2>2, <2>3, <2>4, <2>5
<1> QED
  BY <1>2, <1>3

LEMMA QueuesKeeps ==
    ASSUME Types, Types', NEW c \in Call, NEW m \in Member, Queues(c, m),
           IdsBehind, IdsUnique, OnePlace, OnceAwaited, AwaitedAt
    PROVE  IdsBehind' /\ IdsUnique' /\ OnePlace' /\ OnceAwaited' /\ AwaitedAt'
<1>1. Sent' = Sent /\ Awaited' = Awaited /\ Known' = Known
  BY DEF Queues, Known, Sent, Awaited
<1>2. IdsBehind' /\ IdsUnique'
  BY <1>1 DEF IdsBehind, IdsUnique, Queues
<1>3. OnceInLog' /\ OnceLeft' /\ LeftNotInLog' /\ OnceSent' /\ SentNotTaken'
  BY <1>1 DEF OnePlace, OnceInLog, ProposedOnce, OnceLeft, LeftNotInLog, OnceSent,
              SentNotTaken, Queues
<1>4. c \notin Batched /\ \A e \in Known : e.call # c
  BY DEF OnePlace, IdleNowhere, Queues
<1>5. OnceBatched'
  <2> SUFFICES ASSUME NEW n \in Member, NEW o \in Member,
                      NEW i \in DOMAIN batch'[n], NEW j \in DOMAIN batch'[o],
                      batch'[n][i] = batch'[o][j]
               PROVE  n = o /\ i = j
    BY DEF OnceBatched
  <2>1. \/ i \in DOMAIN batch[n] /\ batch'[n][i] = batch[n][i]
        \/ n = m /\ i = Len(batch[m]) + 1 /\ batch'[n][i] = c
    BY QueuesBatch
  <2>2. \/ j \in DOMAIN batch[o] /\ batch'[o][j] = batch[o][j]
        \/ o = m /\ j = Len(batch[m]) + 1 /\ batch'[o][j] = c
    BY QueuesBatch
  <2>3. i \in DOMAIN batch[n] => batch[n][i] # c
    BY <1>4, BatchedIs
  <2>4. j \in DOMAIN batch[o] => batch[o][j] # c
    BY <1>4, BatchedIs
  <2>5. CASE i \in DOMAIN batch[n] /\ batch'[n][i] = batch[n][i]
    BY <2>2, <2>3, <2>5 DEF OnePlace, OnceBatched
  <2>6. CASE n = m /\ i = Len(batch[m]) + 1 /\ batch'[n][i] = c
    BY <2>2, <2>4, <2>6
  <2> QED
    BY <2>1, <2>5, <2>6
<1>6. Batched' \subseteq Batched \cup {c}
  <2>1. ASSUME NEW d \in Batched' PROVE d \in Batched \cup {c}
    <3>1. PICK n \in Member : \E i \in DOMAIN batch'[n] : d = batch'[n][i]
      BY <2>1 DEF Batched, ToSet
    <3>2. PICK i \in DOMAIN batch'[n] : d = batch'[n][i]
      BY <3>1
    <3>3. \/ i \in DOMAIN batch[n] /\ batch'[n][i] = batch[n][i]
          \/ n = m /\ i = Len(batch[m]) + 1 /\ batch'[n][i] = c
      BY QueuesBatch
    <3> QED
      BY <3>2, <3>3, BatchedIs
  <2> QED
    BY <2>1
<1>7. BatchedUnknown'
  BY <1>1, <1>4, <1>6 DEF OnePlace, BatchedUnknown
<1>8. call'[c] = After(c, m, "waiting") /\ \A d \in Call : d # c => call'[d] = call[d]
  BY DEF Types, Queues
<1>9. call'[c].state # "idle" /\ call'[c].at = m
  BY <1>8 DEF After
<1>10. IdleNowhere'
  BY <1>1, <1>6, <1>8, <1>9 DEF OnePlace, IdleNowhere
<1>11. OnceAwaited'
  BY <1>1 DEF OnceAwaited
<1>12. AwaitedAt'
  <2> SUFFICES ASSUME NEW n \in Member
               PROVE  /\ \A w \in waiters'[n] : call'[w.call].at = n
                      /\ \A i \in DOMAIN batch'[n] : call'[batch'[n][i]].at = n
    BY DEF AwaitedAt
  <2>1. ASSUME NEW w \in waiters'[n] PROVE call'[w.call].at = n
    <3>1. w \in waiters[n] /\ w.call \in Call
      BY DEF Queues, Types, CallEntries
    <3>2. w \in Known
      BY <3>1 DEF Known, Awaited
    <3> QED
      BY <1>4, <1>8, <3>1, <3>2 DEF AwaitedAt
  <2>2. ASSUME NEW i \in DOMAIN batch'[n] PROVE call'[batch'[n][i]].at = n
    <3>1. \/ i \in DOMAIN batch[n] /\ batch'[n][i] = batch[n][i]
          \/ n = m /\ i = Len(batch[m]) + 1 /\ batch'[n][i] = c
      BY QueuesBatch
    <3>2. CASE i \in DOMAIN batch[n] /\ batch'[n][i] = batch[n][i]
      <4>1. batch[n][i] \in Batched /\ batch[n][i] \in Call
        BY <3>2, BatchedIs, KnownTyped
      <4> QED
        BY <1>4, <1>8, <3>2, <4>1 DEF AwaitedAt
    <3>3. CASE n = m /\ i = Len(batch[m]) + 1 /\ batch'[n][i] = c
      BY <1>9, <3>3
    <3> QED
      BY <3>1, <3>2, <3>3
  <2> QED
    BY <2>1, <2>2
<1> QED
  BY <1>2, <1>3, <1>5, <1>7, <1>10, <1>11, <1>12 DEF OnePlace

----------------------------------------------------------------------------
(* Which steps do which.                                                   *)

\* A drain that is not refused hands the calls over.
LEMMA DrainHands ==
    ASSUME Types, NEW m \in Member, NEW calls, calls \in Seq(Call),
           Drain(m, calls), believes[m] # None
    PROVE  \E es : /\ es = Minted(m, calls) /\ Puts(es)
                   /\ sequence' = [sequence EXCEPT ![m] = @ + Len(calls)]
                   /\ waiters' = [waiters EXCEPT ![m] = @ \cup ToSet(es)]
                   /\ releases' = [releases EXCEPT ![m] = @ \cup DueAtOnce(calls)]
<1>1. PICK es : es = Minted(m, calls)
  OBVIOUS
<1>2. es = [i \in 1..Len(calls) |-> Entry(m, sequence[m] + i, calls[i])]
  BY <1>1 DEF Minted
<1>3. CASE believes[m] = m
  <2>1. /\ sequence' = [sequence EXCEPT ![m] = @ + Len(calls)]
        /\ waiters' = [waiters EXCEPT ![m] = @ \cup ToSet(es)]
        /\ releases' = [releases EXCEPT ![m] = @ \cup DueAtOnce(calls)]
        /\ AppendLocal(m, es) /\ inbox' = inbox
    BY <1>2, <1>3 DEF Drain
  <2>2. Puts(es)
    BY <2>1 DEF Puts, AppendLocal
  <2> QED
    BY <1>1, <2>1, <2>2
<1>4. CASE believes[m] # m
  <2>0. believes[m] \in Member
    BY DEF Types
  <2>1. /\ sequence' = [sequence EXCEPT ![m] = @ + Len(calls)]
        /\ waiters' = [waiters EXCEPT ![m] = @ \cup ToSet(es)]
        /\ releases' = [releases EXCEPT ![m] = @ \cup DueAtOnce(calls)]
        /\ inbox' = [inbox EXCEPT ![<<m, believes[m]>>] = Append(@, es)]
        /\ log' = log /\ floating' = floating
    BY <1>2, <1>4, <2>0 DEF Drain
  <2>2. PICK l : l = <<m, believes[m]>>
    OBVIOUS
  <2>3. l \in Member \X Member /\ inbox' = [inbox EXCEPT ![l] = Append(@, es)]
    BY <2>0, <2>1, <2>2
  <2>4. Puts(es)
    BY <2>1, <2>3 DEF Puts
  <2> QED
    BY <1>1, <2>1, <2>4
<1> QED
  BY <1>3, <1>4

LEMMA DrainRefuses ==
    ASSUME ProposalsAssumption, Types, NEW m \in Member, NEW calls, Drain(m, calls), believes[m] = None
    PROVE  UNCHANGED <<sequence, waiters, releases, log, floating, inbox>>
<1>1. None \notin Member
  BY Bounds
<1> QED
  BY <1>1 DEF Drain

LEMMA BatchFresh ==
    ASSUME Types, OnePlace, NEW m \in Member, NEW calls, calls = batch[m]
    PROVE  /\ Fresh(m, calls)
           /\ \A d \in ToSet(calls) : \E i \in DOMAIN batch[m] : d = batch[m][i]
<1>1. calls \in Seq(Call) /\ DOMAIN batch[m] = 1..Len(calls)
  BY DEF Types
<1>2. \A i, j \in 1..Len(calls) : calls[i] = calls[j] => i = j
  BY <1>1 DEF OnePlace, OnceBatched
<1>3. ASSUME NEW i \in 1..Len(calls)
      PROVE  /\ \A e \in Known : e.call # calls[i]
             /\ \A n \in Member \ {m} : \A j \in DOMAIN batch[n] : batch[n][j] # calls[i]
  <2>1. i \in DOMAIN batch[m] /\ batch[m][i] = calls[i]
    BY <1>1
  <2>2. calls[i] \in Batched
    BY <2>1, BatchedIs
  <2> QED
    BY <2>1, <2>2 DEF OnePlace, OnceBatched, BatchedUnknown
<1>4. \A d \in ToSet(calls) : \E i \in DOMAIN batch[m] : d = batch[m][i]
  BY <1>1, Elements
<1> QED
  BY <1>1, <1>2, <1>3, <1>4 DEF Fresh

\* The batch of m with a call more.
Joined(c, m) == Append(batch[m], c)

LEMMA AppendFresh ==
    ASSUME Types, OnePlace, NEW c \in Call, call[c].state = "idle",
           NEW m \in Member, NEW calls, calls = Joined(c, m)
    PROVE  /\ Fresh(m, calls)
           /\ \A d \in ToSet(calls) :
                 d = c \/ \E i \in DOMAIN batch[m] : d = batch[m][i]
           /\ c \in ToSet(calls)
           /\ ToSet(batch[m]) \subseteq ToSet(calls)
<1>1. PICK old : old = batch[m]
  OBVIOUS
<1>2. /\ Fresh(m, old) /\ DOMAIN old = 1..Len(old) /\ Len(old) \in Nat
      /\ old \in Seq(Call)
  <2>1. Fresh(m, old)
    BY <1>1, BatchFresh
  <2>2. old \in Seq(Call)
    BY <2>1 DEF Fresh
  <2> QED
    BY <2>1, <2>2
<1>3. /\ calls \in Seq(Call) /\ Len(calls) = Len(old) + 1
      /\ \A i \in 1..Len(old) : calls[i] = old[i]
      /\ calls[Len(old) + 1] = c
  BY <1>1, <1>2, AppendProperties DEF Joined
<1>4. \A i \in 1..Len(calls) :
         \/ i \in 1..Len(old) /\ calls[i] = old[i]
         \/ i = Len(old) + 1 /\ calls[i] = c
  <2> SUFFICES ASSUME NEW i \in 1..Len(calls)
               PROVE  i \in 1..Len(old) \/ i = Len(old) + 1
    BY <1>3
  <2>1. Len(calls) = Len(old) + 1 /\ Len(old) \in Nat
    BY <1>2, <1>3
  <2> QED
    BY <2>1
<1>5. c \notin Batched /\ \A e \in Known : e.call # c
  BY DEF OnePlace, IdleNowhere
<1>6. \A n \in Member : \A i \in DOMAIN batch[n] : batch[n][i] # c
  BY <1>5, BatchedIs
<1>7. \A i, j \in 1..Len(calls) : calls[i] = calls[j] => i = j
  <2> SUFFICES ASSUME NEW i \in 1..Len(calls), NEW j \in 1..Len(calls),
                      calls[i] = calls[j]
               PROVE  i = j
    OBVIOUS
  <2>1. \A k \in 1..Len(old) : old[k] # c
    BY <1>1, <1>2, <1>6
  <2> QED
    BY <1>2, <1>4, <2>1 DEF Fresh
<1>8. ASSUME NEW i \in 1..Len(calls)
      PROVE  /\ \A e \in Known : e.call # calls[i]
             /\ \A n \in Member \ {m} : \A j \in DOMAIN batch[n] : batch[n][j] # calls[i]
  <2>1. CASE i \in 1..Len(old) /\ calls[i] = old[i]
    BY <1>2, <2>1 DEF Fresh
  <2>2. CASE calls[i] = c
    BY <1>5, <1>6, <2>2
  <2> QED
    BY <1>4, <2>1, <2>2
<1>9. Fresh(m, calls)
  BY <1>3, <1>7, <1>8 DEF Fresh
<1>10. \A d \in ToSet(calls) : \E i \in 1..Len(calls) : d = calls[i]
  BY <1>3, Elements
<1>11. \A i \in 1..Len(calls) : calls[i] \in ToSet(calls)
  BY <1>3, Elements
<1>12. c \in ToSet(calls)
  BY <1>2, <1>3, <1>11
<1>13. ToSet(batch[m]) \subseteq ToSet(calls)
  <2>1. \A i \in 1..Len(old) : i \in 1..Len(calls)
    BY <1>2, <1>3
  <2>2. \A d \in ToSet(old) : \E i \in 1..Len(old) : d = old[i]
    BY <1>2, Elements
  <2> QED
    BY <1>1, <1>3, <1>11, <2>1, <2>2
<1> QED
  BY <1>1, <1>2, <1>4, <1>9, <1>10, <1>12, <1>13

\* Submit queues the call, hands the batch over, or is refused.
LEMMA SubmitIs ==
    ASSUME ProposalsAssumption, Types, OnePlace, AwaitedAt, NEW c \in Call, NEW m \in Member, Submit(c, m)
    PROVE  \/ Queues(c, m)
           \/ Shrinks /\ sequence' = sequence
           \/ \E calls, es : Hands(m, calls, es)
<1>1. PICK calls : calls = Joined(c, m)
  OBVIOUS
<1>2. call[c].state = "idle"
  BY DEF Submit
<1>3. /\ Fresh(m, calls)
      /\ \A d \in ToSet(calls) : d = c \/ \E i \in DOMAIN batch[m] : d = batch[m][i]
      /\ c \in ToSet(calls)
  BY <1>1, <1>2, AppendFresh
<1>4. calls \in Seq(Call) /\ ToSet(calls) \subseteq Call
  BY <1>3, Elements DEF Fresh
<1>5. CASE Len(calls) >= MaxBatch
  <2>1. /\ batch' = [batch EXCEPT ![m] = <<>>]
        /\ Drain(m, calls)
        /\ call' = [d \in Call |->
              IF d \in Refused(m, calls) /\ (Waiting(d) \/ d = c)
              THEN After(d, m, "unavailable")
              ELSE IF d = c THEN After(c, m, "waiting") ELSE call[d]]
    BY <1>1, <1>5 DEF Submit, Handed, Joined
  <2>2. \A d \in Call :
           call'[d] = IF d \in Refused(m, calls) /\ (Waiting(d) \/ d = c)
                      THEN After(d, m, "unavailable")
                      ELSE IF d = c THEN After(c, m, "waiting") ELSE call[d]
    BY <2>1
  <2>3. \A d \in Call : \/ /\ d \in Refused(m, calls)
                           /\ call'[d].state = "unavailable" /\ call'[d].at = m
                        \/ d = c /\ call'[d].state = "waiting" /\ call'[d].at = m
                        \/ d # c /\ call'[d] = call[d]
    BY <2>2 DEF After
  <2>4. \A d \in ToSet(calls) : d # c => call[d].at = m
    BY <1>3 DEF AwaitedAt
  <2>5. Refused(m, calls) \subseteq ToSet(calls)
    BY DEF Refused
  <2>6. \A d \in Call : d \in ToSet(calls) => call'[d].at = m
    BY <2>3, <2>4
  <2>7. \A d \in Call : call[d].state # "idle" /\ d \notin ToSet(calls)
                           => call'[d].at = call[d].at
    BY <1>3, <2>3, <2>5
  <2>8. \A d \in Call : call'[d].state = "idle" => call[d].state = "idle" /\ d # c
    BY <2>3
  <2>9. CASE believes[m] = None
    <3>1. UNCHANGED <<sequence, waiters, releases, log, floating, inbox>>
      BY <2>1, <2>9, DrainRefuses
    <3>2. \A d \in Call : call[d].state # "idle" => call'[d].at = call[d].at
      BY <1>2, <2>4, <2>6, <2>7
    <3>3. \A n \in Member : batch'[n] = batch[n] \/ batch'[n] = <<>>
      BY <2>1 DEF Types
    <3>4. \A n \in Member : sequence[n] <= sequence'[n]
      BY <3>1 DEF Types
    <3> QED
      BY <2>8, <3>1, <3>2, <3>3, <3>4 DEF Shrinks
  <2>10. CASE believes[m] # None
    <3>1. PICK es : /\ es = Minted(m, calls) /\ Puts(es)
                    /\ sequence' = [sequence EXCEPT ![m] = @ + Len(calls)]
                    /\ waiters' = [waiters EXCEPT ![m] = @ \cup ToSet(es)]
      BY <1>4, <2>1, <2>10, DrainHands
    <3>2. Refused(m, calls) = {}
      BY <2>10 DEF Refused
    <3>3. \A d \in Call : call'[d].state = "idle" =>
             call[d].state = "idle" /\ d \notin ToSet(calls)
      <4> SUFFICES ASSUME NEW d \in Call, call'[d].state = "idle", d \in ToSet(calls)
                   PROVE  FALSE
        BY <2>8
      <4>1. d # c /\ call[d].state = "idle"
        BY <2>8
      <4>2. d \in Batched
        BY <1>3, <4>1, BatchedIs
      <4> QED
        BY <4>1, <4>2 DEF OnePlace, IdleNowhere
    <3>4. \A d \in ToSet(calls) : d \notin Drained
      BY <1>2, <1>3, BatchedIs DEF Drained
    <3>5. Hands(m, calls, es)
      BY <1>3, <2>1, <2>6, <2>7, <3>1, <3>3, <3>4 DEF Hands
    <3> QED
      BY <3>5
  <2> QED
    BY <2>9, <2>10
<1>6. CASE ~(Len(calls) >= MaxBatch)
  BY <1>1, <1>2, <1>6 DEF Submit, Queues, Joined
<1> QED
  BY <1>5, <1>6

\* A flush hands its batch over, or is refused, or finds it empty.
LEMMA FlushIs ==
    ASSUME ProposalsAssumption, Types, OnePlace, AwaitedAt, NEW m \in Member, Flush(m)
    PROVE  \/ Shrinks /\ sequence' = sequence
           \/ \E calls, es : Hands(m, calls, es)
<1>0. \A n \in Member : sequence[n] <= sequence[n]
  BY DEF Types
<1>1. PICK calls : calls = batch[m]
  OBVIOUS
<1>2. CASE calls = <<>>
  BY <1>0, <1>1, <1>2 DEF Flush, Shrinks
<1>3. CASE calls # <<>>
  <2>1. /\ batch' = [batch EXCEPT ![m] = <<>>]
        /\ Drain(m, calls)
        /\ call' = [d \in Call |->
              IF d \in Refused(m, calls) /\ Waiting(d)
              THEN After(d, m, "unavailable") ELSE call[d]]
    BY <1>1, <1>3 DEF Flush, Handed
  <2>2. /\ Fresh(m, calls)
        /\ \A d \in ToSet(calls) : \E i \in DOMAIN batch[m] : d = batch[m][i]
    BY <1>1, BatchFresh
  <2>3. calls \in Seq(Call) /\ ToSet(calls) \subseteq Call
    BY <2>2, Elements DEF Fresh
  <2>4. \A d \in Call : \/ /\ d \in Refused(m, calls)
                           /\ call'[d].state = "unavailable" /\ call'[d].at = m
                        \/ call'[d] = call[d]
    BY <2>1 DEF After
  <2>5. \A d \in ToSet(calls) : call[d].at = m /\ call[d].state # "idle"
    <3> TAKE d \in ToSet(calls)
    <3>1. call[d].at = m
      BY <2>2 DEF AwaitedAt
    <3>2. d \in Batched
      BY <2>2, BatchedIs
    <3> QED
      BY <2>3, <3>1, <3>2 DEF OnePlace, IdleNowhere
  <2>6. Refused(m, calls) \subseteq ToSet(calls)
    BY DEF Refused
  <2>7. \A d \in Call : call'[d].state = "idle" =>
             call[d].state = "idle" /\ d \notin ToSet(calls)
    BY <2>4, <2>5
  <2>8. \A d \in Call : d \in ToSet(calls) => call'[d].at = m
    BY <2>4, <2>5
  <2>9. \A d \in Call : call[d].state # "idle" => call'[d].at = call[d].at
    BY <2>4, <2>5, <2>6
  <2>10. CASE believes[m] = None
    <3>1. UNCHANGED <<sequence, waiters, releases, log, floating, inbox>>
      BY <2>1, <2>10, DrainRefuses
    <3>2. \A n \in Member : batch'[n] = batch[n] \/ batch'[n] = <<>>
      BY <2>1 DEF Types
    <3> QED
      BY <1>0, <2>7, <2>9, <3>1, <3>2 DEF Shrinks
  <2>11. CASE believes[m] # None
    <3>1. PICK es : /\ es = Minted(m, calls) /\ Puts(es)
                    /\ sequence' = [sequence EXCEPT ![m] = @ + Len(calls)]
                    /\ waiters' = [waiters EXCEPT ![m] = @ \cup ToSet(es)]
      BY <2>1, <2>3, <2>11, DrainHands
    <3>2. \A d \in ToSet(calls) : d \notin Drained
      BY <2>2, BatchedIs DEF Drained
    <3>3. Hands(m, calls, es)
      BY <2>1, <2>2, <2>7, <2>8, <2>9, <3>1, <3>2 DEF Hands
    <3> QED
      BY <3>3
  <2> QED
    BY <2>10, <2>11
<1> QED
  BY <1>2, <1>3

LEMMA FiniteElements ==
    ASSUME NEW S, NEW s \in Seq(S)
    PROVE  IsFiniteSet(ToSet(s))
<1>1. s \in Surjection(1..Len(s), ToSet(s))
  BY Elements DEF Surjection
<1>2. IsFiniteSet(1..Len(s))
  <2>1. Len(s) \in Nat /\ 1 \in Int /\ Len(s) \in Int
    OBVIOUS
  <2> QED
    BY <2>1, FS_Interval
<1> QED
  BY <1>1, <1>2, FS_Surjection

\* What an election keeps, and the log it makes.
LEMMA ElectIs ==
    ASSUME Types, NEW m \in Member, Elect(m)
    PROVE  \E kept, t, own : Elects(kept, t, own)
<1>1. PICK rest : rest = Rest
  OBVIOUS
<1>2. PICK kept \in SUBSET rest : \E t \in SetToSeqs(kept) :
         /\ log' = SubSeq(log, 1, committed) \o t
                      \o <<Entry(m, sequence[m] + 1, None)>>
         /\ floating' = rest \ kept
  BY <1>1 DEF Elect, Rest
<1>3. PICK t \in SetToSeqs(kept) :
         /\ log' = SubSeq(log, 1, committed) \o t
                      \o <<Entry(m, sequence[m] + 1, None)>>
         /\ floating' = rest \ kept
  BY <1>2
<1>4. IsFiniteSet(kept)
  <2>1. PICK tail : tail = SubSeq(log, committed + 1, Len(log))
    OBVIOUS
  <2>2. tail \in Seq(Entries)
    <3>1. /\ log \in Seq(Entries) /\ committed + 1 \in Nat /\ committed + 1 >= 1
          /\ Len(log) \in 0..Len(log)
      BY DEF Types
    <3> QED
      BY <2>1, <3>1, ElementsOfPart
  <2>3. rest = floating \cup ToSet(tail)
    BY <1>1, <2>1 DEF Rest
  <2>4. IsFiniteSet(floating) /\ IsFiniteSet(ToSet(tail))
    BY <2>2, FiniteElements DEF Types
  <2>5. IsFiniteSet(rest)
    BY <2>3, <2>4, FS_Union
  <2> QED
    BY <2>5, FS_Subset
<1>5. t \in Seq(kept) /\ \A i, j \in 1..Len(t) : t[i] = t[j] => i = j
  <2>1. Cardinality(kept) \in Nat
    BY <1>4, FS_CardinalityType
  <2>2. /\ t \in [1..Cardinality(kept) -> kept]
        /\ \A i, j \in 1..Cardinality(kept) : i # j => t[i] # t[j]
    BY DEF SetToSeqs
  <2>3. t \in Seq(kept) /\ Len(t) = Cardinality(kept)
    BY <2>1, <2>2
  <2> QED
    BY <2>2, <2>3
<1>6. PICK own : own = Entry(m, sequence[m] + 1, None)
  OBVIOUS
<1>7. /\ own \in Entries /\ own.call = None
      /\ own.id[1] = m /\ own.id[2] = sequence[m] + 1
  <2>1. sequence[m] + 1 \in Nat
    BY DEF Types
  <2>2. own = [id |-> <<m, sequence[m] + 1>>, call |-> None]
    BY <1>6 DEF Entry
  <2> QED
    BY <2>1, <2>2 DEF Entries
<1>8. /\ sequence' = [sequence EXCEPT ![own.id[1]] = @ + 1]
      /\ own.id[2] = sequence[own.id[1]] + 1
      /\ log' = SubSeq(log, 1, committed) \o t \o <<own>>
      /\ floating' = Rest \ kept /\ kept \subseteq Rest
      /\ UNCHANGED <<inbox, waiters, batch, call>>
  BY <1>1, <1>2, <1>3, <1>6, <1>7 DEF Elect, batcher
<1>9. Elects(kept, t, own)
  BY <1>5, <1>7, <1>8 DEF Elects
<1> QED
  BY <1>9

\* A run answers the calls that wait for its entries.
Woken(m, es) == {w \in Resolved(m, es) : Waiting(w.call)}

AnswerTo(m, es, c) ==
    (CHOOSE e \in ToSet(es) : \E w \in Woken(m, es) : w.call = c /\ e.id = w.id).call

Applies(m, n, es) ==
    /\ n \in Run(m) /\ es = SubSeq(log, applied[m] + 1, applied[m] + n)
    /\ applied' = [applied EXCEPT ![m] = @ + n]
    /\ store' = [store EXCEPT ![m] = @ \o es]
    /\ waiters' = [waiters EXCEPT ![m] = @ \ Resolved(m, es)]
    /\ call' = [c \in Call |->
          IF \E w \in Woken(m, es) : w.call = c
          THEN [call[c] EXCEPT !.state = "answered", !.answer = AnswerTo(m, es, c)]
          ELSE call[c]]
    /\ UNCHANGED <<leader, believes, log, committed, floating, incarnation,
                   sequence, batcher, releases, inbox, commit, bounds>>

LEMMA AppliedIs ==
    ASSUME NEW m \in Member, ApplyRun(m)
    PROVE  \E n, es : Applies(m, n, es)
  BY Zenon DEF ApplyRun, Applies, Woken, AnswerTo

\* A step queues, hands over, takes, elects, or brings nothing new.
LEMMA StepIs ==
    ASSUME ProposalsAssumption, Types, Apart, IdsSuffice, Next
    PROVE  \/ Shrinks
           \/ \E c \in Call, m \in Member : Queues(c, m)
           \/ \E m \in Member : \E calls, es : Hands(m, calls, es)
           \/ \E l \in Member \X Member : \E es : Takes(l, es)
           \/ \E kept, t, own : Elects(kept, t, own)
<1> USE DEF Apart
<1>0. /\ \A n \in Member : sequence[n] \in Nat /\ sequence[n] <= sequence[n]
      /\ batch \in [Member -> Seq(Call)] /\ waiters \in [Member -> SUBSET CallEntries]
      /\ inbox \in [Member \X Member -> Seq(Seq(CallEntries))]
      /\ sequence \in [Member -> Nat]
      /\ call \in [Call -> [state : State, at : Member \cup {None},
                            answer : Call \cup {None}]]
  <2>1. sequence \in [Member -> Nat]
    BY DEF Types
  <2>2. \A n \in Member : sequence[n] \in Nat /\ sequence[n] <= sequence[n]
    BY <2>1
  <2> QED
    BY <2>1, <2>2 DEF Types
<1>1. ASSUME NEW c \in Call, NEW m \in Member, Submit(c, m)
      PROVE  Shrinks \/ Queues(c, m) \/ \E calls, es : Hands(m, calls, es)
  BY <1>1, SubmitIs
<1>2. ASSUME NEW c \in Call, Deadline(c) PROVE Shrinks
  BY <1>0, <1>2 DEF Deadline, Shrinks, Waiting, batcher
<1>3. ASSUME NEW m \in Member, Flush(m)
      PROVE  Shrinks \/ \E calls, es : Hands(m, calls, es)
  BY <1>3, FlushIs
<1>4. ASSUME NEW m \in Member, Release(m) PROVE Shrinks
  BY <1>0, <1>4 DEF Release, Shrinks, batcher
<1>5. ASSUME NEW l \in Member \X Member, OnPropose(l)
      PROVE  \E es : Takes(l, es)
  <2>1. PICK es : es = Head(inbox[l])
    OBVIOUS
  <2>2. Takes(l, es)
    BY <1>5, <2>1 DEF OnPropose, Takes, AppendLocal, batcher
  <2> QED
    BY <2>2
<1>6. ASSUME NEW l \in Member \X Member, LoseConnection(l) PROVE Shrinks
  BY <1>0, <1>6 DEF LoseConnection, Shrinks, batcher
<1>7. CASE Commit
  BY <1>0, <1>7 DEF Commit, Shrinks, batcher
<1>8. ASSUME NEW m \in Member, LearnCommit(m) PROVE Shrinks
  BY <1>0, <1>8 DEF LearnCommit, Shrinks, batcher
<1>9. ASSUME NEW m \in Member, ApplyRun(m) PROVE Shrinks
  <2>0. PICK k, es : Applies(m, k, es)
    BY <1>9, AppliedIs
  <2>1. \A n \in Member : waiters'[n] \subseteq waiters[n]
    BY <1>0, <2>0 DEF Applies
  <2>2. \A c \in Call : \/ call'[c] = call[c]
                        \/ call'[c].state = "answered" /\ call'[c].at = call[c].at
    BY <1>0, <2>0 DEF Applies
  <2> QED
    BY <1>0, <2>0, <2>1, <2>2 DEF Shrinks, Applies, batcher
<1>10. ASSUME NEW m \in Member, Install(m) PROVE Shrinks
  BY <1>0, <1>10 DEF Install, Shrinks, batcher
<1>11. ASSUME NEW m \in Member, Elect(m) PROVE \E kept, t, own : Elects(kept, t, own)
  BY <1>11, ElectIs
<1>12. ASSUME NEW m \in Member, Believe(m) PROVE Shrinks
  BY <1>0, <1>12 DEF Believe, Shrinks, batcher
<1>13. ASSUME NEW m \in Member, Restart(m) PROVE Shrinks
  <2>1. /\ UNCHANGED <<log, floating, inbox>>
        /\ \A n \in Member : batch'[n] = batch[n] \/ batch'[n] = <<>>
        /\ \A n \in Member : waiters'[n] \subseteq waiters[n]
    BY <1>0, <1>13 DEF Restart
  <2>2. \A n \in Member : sequence[n] <= sequence'[n]
    BY <1>0, <1>13 DEF Restart, IdsSuffice
  <2>3. \A c \in Call : \/ call'[c] = call[c]
                        \/ call'[c].state = "gone" /\ call'[c].at = call[c].at
    BY <1>0, <1>13 DEF Restart
  <2> QED
    BY <1>0, <2>1, <2>2, <2>3 DEF Shrinks
<1> QED
  BY <1>1, <1>2, <1>3, <1>4, <1>5, <1>6, <1>7, <1>8, <1>9, <1>10, <1>11,
     <1>12, <1>13 DEF Next

LEMMA ApartStep ==
    ASSUME ProposalsAssumption, Types, Types', Apart, IdsSuffice, Next
    PROVE  Apart'
<1>1. CASE Shrinks
  BY <1>1, ShrinksKeeps DEF Apart
<1>2. ASSUME NEW c \in Call, NEW m \in Member, Queues(c, m) PROVE Apart'
  BY <1>2, QueuesKeeps DEF Apart
<1>3. ASSUME NEW m \in Member, NEW calls, NEW es, Hands(m, calls, es) PROVE Apart'
  BY <1>3, HandsKeeps DEF Apart
<1>4. ASSUME NEW l \in Member \X Member, NEW es, Takes(l, es) PROVE Apart'
  BY <1>4, TakesKeeps DEF Apart
<1>5. ASSUME NEW kept, NEW t, NEW own, Elects(kept, t, own) PROVE Apart'
  BY <1>5, ElectsKeeps DEF Apart
<1> QED
  BY StepIs, <1>1, <1>2, <1>3, <1>4, <1>5

----------------------------------------------------------------------------
(* Types, and what is committed.                                           *)

\* The committed part of the log stays, and grows.
Stays ==
    /\ committed' \in Nat /\ committed <= committed' /\ committed' <= Len(log')
    /\ \A i \in 1..committed : log'[i] = log[i]

LEMMA UnchangedStays ==
    ASSUME Types, UNCHANGED <<log, committed>>
    PROVE  Stays /\ log' \in Seq(Entries) /\ committed' \in 0..Len(log')
  BY DEF Stays, Types

LEMMA AppendStays ==
    ASSUME Types, NEW es \in Seq(Entries), log' = log \o es, committed' = committed
    PROVE  Stays /\ log' \in Seq(Entries) /\ committed' \in 0..Len(log')
<1>1. /\ log \in Seq(Entries) /\ committed \in Nat /\ committed <= Len(log)
      /\ Len(log) \in Nat /\ Len(es) \in Nat
  BY DEF Types
<1>2. /\ log' \in Seq(Entries) /\ Len(log') = Len(log) + Len(es)
      /\ \A i \in 1..Len(log) + Len(es) :
            log'[i] = IF i <= Len(log) THEN log[i] ELSE es[i - Len(log)]
  BY <1>1, ConcatProperties
<1>3. ASSUME NEW i \in 1..committed PROVE log'[i] = log[i]
  <2>1. i \in 1..Len(log) + Len(es) /\ i <= Len(log)
    BY <1>1
  <2> QED
    BY <1>2, <2>1
<1>4. committed' \in Nat /\ committed <= committed' /\ committed' <= Len(log')
  BY <1>1, <1>2
<1> QED
  BY <1>2, <1>3, <1>4 DEF Stays

LEMMA DrainTyped ==
    ASSUME ProposalsAssumption, Types, NEW m \in Member, NEW calls, calls \in Seq(Call), Drain(m, calls),
           committed' = committed
    PROVE  /\ log' \in Seq(Entries) /\ committed' \in 0..Len(log') /\ Stays
           /\ floating' \in SUBSET Entries /\ IsFiniteSet(floating')
           /\ sequence' \in [Member -> Nat]
           /\ waiters' \in [Member -> SUBSET CallEntries]
           /\ releases' \in [Member -> SUBSET Call]
           /\ inbox' \in [Member \X Member -> Seq(Seq(CallEntries))]
<1>0. /\ log \in Seq(Entries) /\ floating \in SUBSET Entries /\ IsFiniteSet(floating)
      /\ sequence \in [Member -> Nat]
      /\ waiters \in [Member -> SUBSET CallEntries]
      /\ releases \in [Member -> SUBSET Call]
      /\ inbox \in [Member \X Member -> Seq(Seq(CallEntries))]
  BY DEF Types
<1>1. CASE believes[m] = None
  <2>1. UNCHANGED <<sequence, waiters, releases, log, floating, inbox>>
    BY <1>1, DrainRefuses
  <2> QED
    BY <1>0, <2>1, UnchangedStays
<1>2. CASE believes[m] # None
  <2>1. PICK es : /\ es = Minted(m, calls) /\ Puts(es)
                  /\ sequence' = [sequence EXCEPT ![m] = @ + Len(calls)]
                  /\ waiters' = [waiters EXCEPT ![m] = @ \cup ToSet(es)]
                  /\ releases' = [releases EXCEPT ![m] = @ \cup DueAtOnce(calls)]
    BY <1>2, DrainHands
  <2>2. es \in Seq(CallEntries)
    BY <2>1, MintedIs
  <2>3. es \in Seq(Entries)
    <3>1. CallEntries \subseteq Entries
      BY DEF CallEntries, Entries
    <3> QED
      BY <2>2, <3>1, SeqMonotonic
  <2>4. ToSet(es) \subseteq CallEntries /\ ToSet(es) \subseteq Entries
    BY <2>2, <2>3, Elements
  <2>5. ToSet(calls) \subseteq Call /\ Len(calls) \in Nat
    BY Elements
  <2>6. sequence' \in [Member -> Nat]
    BY <1>0, <2>1, <2>5
  <2>7. waiters' \in [Member -> SUBSET CallEntries]
    BY <1>0, <2>1, <2>4
  <2>8. releases' \in [Member -> SUBSET Call]
    <3>1. DueAtOnce(calls) \subseteq Call
      BY <2>5 DEF DueAtOnce
    <3> QED
      BY <1>0, <2>1, <3>1
  <2>9. CASE log' = log \o es /\ floating' = floating /\ inbox' = inbox
    BY <1>0, <2>3, <2>6, <2>7, <2>8, <2>9, AppendStays
  <2>10. CASE log' = log /\ floating' = floating \cup ToSet(es) /\ inbox' = inbox
    <3>1. IsFiniteSet(ToSet(es))
      BY <2>3, FiniteElements
    <3>2. IsFiniteSet(floating')
      BY <1>0, <2>10, <3>1, FS_Union
    <3> QED
      BY <1>0, <2>4, <2>6, <2>7, <2>8, <2>10, <3>2, UnchangedStays
  <2>11. ASSUME log' = log, floating' = floating, NEW l \in Member \X Member,
                inbox' = [inbox EXCEPT ![l] = Append(@, es)]
         PROVE  /\ log' \in Seq(Entries) /\ committed' \in 0..Len(log') /\ Stays
                /\ floating' \in SUBSET Entries /\ IsFiniteSet(floating')
                /\ inbox' \in [Member \X Member -> Seq(Seq(CallEntries))]
    <3>1. inbox[l] \in Seq(Seq(CallEntries))
      BY <1>0
    <3>2. Append(inbox[l], es) \in Seq(Seq(CallEntries))
      BY <2>2, <3>1, AppendProperties
    <3>3. inbox' \in [Member \X Member -> Seq(Seq(CallEntries))]
      BY <1>0, <2>11, <3>2
    <3> QED
      BY <1>0, <2>11, <3>3, UnchangedStays
  <2> QED
    BY <2>1, <2>6, <2>7, <2>8, <2>9, <2>10, <2>11 DEF Puts
<1> QED
  BY <1>1, <1>2

LEMMA SubmitTyped ==
    ASSUME ProposalsAssumption, Types, Apart, NEW c \in Call, NEW m \in Member, Submit(c, m)
    PROVE  Types' /\ Stays
<1>1. PICK calls : calls = Append(batch[m], c)
  OBVIOUS
<1>2. calls \in Seq(Call)
  <2>1. batch[m] \in Seq(Call)
    BY DEF Types
  <2> QED
    BY <1>1, <2>1, AppendProperties
<1>3. UNCHANGED <<leader, believes, committed, incarnation, commit, applied, store,
                  elections>>
  BY DEF Submit, member, bounds
<1>4. /\ batch \in [Member -> Seq(Call)] /\ scheduled \in [Member -> BOOLEAN]
      /\ flushes \in [Member -> Nat]
      /\ call \in [Call -> [state : State, at : Member \cup {None},
                            answer : Call \cup {None}]]
  BY DEF Types
<1>5. \A d \in Call : /\ After(d, m, "unavailable") \in
                            [state : State, at : Member \cup {None}, answer : Call \cup {None}]
                      /\ After(d, m, "waiting") \in
                            [state : State, at : Member \cup {None}, answer : Call \cup {None}]
  BY DEF After, State
<1>6. CASE Len(calls) >= MaxBatch
  <2>1. /\ batch' = [batch EXCEPT ![m] = <<>>]
        /\ scheduled' = [scheduled EXCEPT ![m] = FALSE]
        /\ flushes' = flushes
        /\ Drain(m, calls)
        /\ call' = [d \in Call |->
              IF d \in Refused(m, calls) /\ (Waiting(d) \/ d = c)
              THEN After(d, m, "unavailable")
              ELSE IF d = c THEN After(c, m, "waiting") ELSE call[d]]
    BY <1>1, <1>6 DEF Submit, Handed, Flushed
  <2>2. batch' \in [Member -> Seq(Call)]
    BY <1>4, <2>1
  <2>3. scheduled' \in [Member -> BOOLEAN] /\ flushes' \in [Member -> Nat]
    BY <1>4, <2>1
  <2>4. call' \in [Call -> [state : State, at : Member \cup {None},
                            answer : Call \cup {None}]]
    BY <1>4, <1>5, <2>1
  <2>5. /\ log' \in Seq(Entries) /\ committed' \in 0..Len(log') /\ Stays
        /\ floating' \in SUBSET Entries /\ IsFiniteSet(floating')
        /\ sequence' \in [Member -> Nat]
        /\ waiters' \in [Member -> SUBSET CallEntries]
        /\ releases' \in [Member -> SUBSET Call]
        /\ inbox' \in [Member \X Member -> Seq(Seq(CallEntries))]
    BY <1>2, <1>3, <2>1, DrainTyped
  <2> QED
    BY <1>3, <2>2, <2>3, <2>4, <2>5 DEF Types
<1>7. CASE ~(Len(calls) >= MaxBatch)
  <2>1. /\ batch' = [batch EXCEPT ![m] = calls]
        /\ scheduled' = [scheduled EXCEPT ![m] = TRUE]
        /\ flushes' = [flushes EXCEPT ![m] = IF scheduled[m] THEN @ ELSE @ + 1]
        /\ call' = [call EXCEPT ![c] = After(c, m, "waiting")]
        /\ UNCHANGED <<sequence, waiters, releases, log, floating, inbox>>
    BY <1>1, <1>7 DEF Submit
  <2>2. batch' \in [Member -> Seq(Call)]
    BY <1>2, <1>4, <2>1
  <2>3. scheduled' \in [Member -> BOOLEAN]
    BY <1>4, <2>1
  <2>4. flushes' \in [Member -> Nat]
    BY <1>4, <2>1
  <2>5. call' \in [Call -> [state : State, at : Member \cup {None},
                            answer : Call \cup {None}]]
    BY <1>4, <1>5, <2>1
  <2>6. Stays
    BY <1>3, <2>1, UnchangedStays
  <2> QED
    BY <1>3, <2>1, <2>2, <2>3, <2>4, <2>5, <2>6 DEF Types
<1> QED
  BY <1>6, <1>7

LEMMA FlushTyped ==
    ASSUME ProposalsAssumption, Types, NEW m \in Member, Flush(m)
    PROVE  Types' /\ Stays
<1>1. PICK calls : calls = batch[m]
  OBVIOUS
<1>2. calls \in Seq(Call)
  BY <1>1 DEF Types
<1>3. UNCHANGED <<leader, believes, committed, incarnation, commit, applied, store,
                  elections>>
  BY DEF Flush, member, bounds
<1>4. /\ batch \in [Member -> Seq(Call)] /\ scheduled \in [Member -> BOOLEAN]
      /\ flushes \in [Member -> Nat]
      /\ call \in [Call -> [state : State, at : Member \cup {None},
                            answer : Call \cup {None}]]
  BY DEF Types
<1>5. \A d \in Call : After(d, m, "unavailable") \in
         [state : State, at : Member \cup {None}, answer : Call \cup {None}]
  BY DEF After, State
<1>6. scheduled' \in [Member -> BOOLEAN]
  BY <1>4 DEF Flush, Flushed
<1>7. flushes' \in [Member -> Nat]
  <2>1. flushes[m] > 0 /\ flushes' = [flushes EXCEPT ![m] = @ - 1] /\ flushes[m] \in Nat
    BY <1>4 DEF Flush
  <2>2. flushes[m] - 1 \in Nat
    BY <2>1
  <2> QED
    BY <1>4, <2>1, <2>2
<1>8. CASE calls = <<>>
  <2>1. UNCHANGED <<batch, sequence, waiters, releases, log, floating, inbox, call>>
    BY <1>1, <1>8 DEF Flush
  <2>2. Stays
    BY <1>3, <2>1, UnchangedStays
  <2> QED
    BY <1>3, <1>6, <1>7, <2>1, <2>2 DEF Types
<1>9. CASE calls # <<>>
  <2>1. /\ batch' = [batch EXCEPT ![m] = <<>>]
        /\ Drain(m, calls)
        /\ call' = [d \in Call |->
              IF d \in Refused(m, calls) /\ Waiting(d)
              THEN After(d, m, "unavailable") ELSE call[d]]
    BY <1>1, <1>9 DEF Flush, Handed
  <2>2. batch' \in [Member -> Seq(Call)]
    BY <1>4, <2>1
  <2>3. call' \in [Call -> [state : State, at : Member \cup {None},
                            answer : Call \cup {None}]]
    BY <1>4, <1>5, <2>1
  <2>4. /\ log' \in Seq(Entries) /\ committed' \in 0..Len(log') /\ Stays
        /\ floating' \in SUBSET Entries /\ IsFiniteSet(floating')
        /\ sequence' \in [Member -> Nat]
        /\ waiters' \in [Member -> SUBSET CallEntries]
        /\ releases' \in [Member -> SUBSET Call]
        /\ inbox' \in [Member \X Member -> Seq(Seq(CallEntries))]
    BY <1>2, <1>3, <2>1, DrainTyped
  <2> QED
    BY <1>3, <1>6, <1>7, <2>2, <2>3, <2>4 DEF Types
<1> QED
  BY <1>8, <1>9

\* The entries a run applies, and the answers it gives: an entry with a waiter's
\* id is the waiter's.
LEMMA AppliesWhat ==
    ASSUME Types, Ordered, Apart, NEW m \in Member, NEW n, NEW es, Applies(m, n, es)
    PROVE  /\ n \in Nat /\ applied[m] \in Nat /\ applied[m] + n <= commit[m]
           /\ es \in Seq(Entries) /\ Len(es) = n
           /\ \A i \in 1..n : es[i] = log[applied[m] + i]
           /\ \A c \in Call : (\E w \in Woken(m, es) : w.call = c) =>
                 /\ AnswerTo(m, es, c) = c
                 /\ \E i \in 1..committed : log[i].call = c
<1>0. /\ log \in Seq(Entries) /\ committed \in Nat /\ committed <= Len(log)
      /\ Len(log) \in Nat
      /\ applied[m] \in Nat /\ commit[m] \in Nat /\ commit[m] <= committed
      /\ applied[m] <= commit[m]
  BY DEF Types, Ordered
<1>1. /\ n \in 1..(commit[m] - applied[m])
      /\ es = SubSeq(log, applied[m] + 1, applied[m] + n)
  BY DEF Applies, Run
<1>2. n \in Nat /\ n >= 1 /\ applied[m] + n <= commit[m]
  <2>1. n \in 1..(commit[m] - applied[m])
    BY <1>1
  <2> QED
    BY <1>0, <2>1
<1>3. /\ es \in Seq(Entries) /\ Len(es) = n
      /\ \A i \in 1..n : es[i] = log[applied[m] + i]
  <2>1. PICK f : f = applied[m] + 1
    OBVIOUS
  <2>2. PICK t : t = applied[m] + n
    OBVIOUS
  <2>3. f \in Nat /\ f >= 1 /\ t \in 0..Len(log) /\ f <= t /\ t - f + 1 = n
    <3>1. f \in Nat /\ t \in Nat /\ f >= 1
      BY <1>0, <1>2, <2>1, <2>2
    <3>2. t <= commit[m] /\ commit[m] \in Nat
      BY <1>0, <1>2, <2>2
    <3>3. t <= Len(log)
      BY <1>0, <3>1, <3>2
    <3>4. f <= t /\ t - f + 1 = n
      BY <1>0, <1>2, <2>1, <2>2
    <3> QED
      BY <1>0, <3>1, <3>3, <3>4
  <2>4. es = SubSeq(log, f, t)
    BY <1>1, <2>1, <2>2
  <2>5. /\ es \in Seq(Entries) /\ Len(es) = t - f + 1
        /\ \A k \in 1..(t - f + 1) : es[k] = log[f + k - 1]
    BY <1>0, <2>3, <2>4, ElementsOfPart
  <2>6. \A k \in 1..n : f + k - 1 = applied[m] + k
    BY <1>0, <2>1
  <2> QED
    BY <2>3, <2>5, <2>6
<1>4. ASSUME NEW e \in ToSet(es)
      PROVE  e \in Known /\ \E i \in 1..committed : log[i] = e
  <2>1. PICK k \in 1..n : e = es[k]
    BY <1>3, Elements
  <2>2. applied[m] + k \in 1..committed /\ applied[m] + k \in 1..Len(log)
    BY <1>0, <1>2
  <2>3. e = log[applied[m] + k]
    BY <1>3, <2>1
  <2>4. e \in ToSet(log)
    BY <1>0, <2>2, <2>3, Elements
  <2> QED
    BY <2>2, <2>3, <2>4 DEF Known
<1>5. \A w \in waiters[m] : w \in Known
  BY DEF Known, Awaited
<1>6. ASSUME NEW c \in Call, \E w \in Woken(m, es) : w.call = c
      PROVE  /\ AnswerTo(m, es, c) = c
             /\ \E i \in 1..committed : log[i].call = c
  <2>1. \E e \in ToSet(es) : \E w \in Woken(m, es) : w.call = c /\ e.id = w.id
    BY <1>6 DEF Woken, Resolved
  <2>2. PICK e : e = CHOOSE d \in ToSet(es) :
             \E w \in Woken(m, es) : w.call = c /\ d.id = w.id
    OBVIOUS
  <2>3. e \in ToSet(es) /\ \E w \in Woken(m, es) : w.call = c /\ e.id = w.id
    BY <2>1, <2>2
  <2>4. AnswerTo(m, es, c) = e.call
    BY <2>2 DEF AnswerTo
  <2>5. PICK w \in Woken(m, es) : w.call = c /\ e.id = w.id
    BY <2>3
  <2>6. w \in Known /\ e \in Known
    BY <1>4, <1>5, <2>3 DEF Woken, Resolved
  <2>7. e = w
    BY <2>5, <2>6 DEF Apart, IdsUnique
  <2>8. PICK i \in 1..committed : log[i] = e
    BY <1>4, <2>3
  <2> QED
    BY <2>4, <2>5, <2>7, <2>8
<1> QED
  BY <1>0, <1>2, <1>3, <1>6

LEMMA ApplyTyped ==
    ASSUME Types, Ordered, Apart, NEW m \in Member, NEW n, NEW es, Applies(m, n, es)
    PROVE  Types' /\ Stays
<1>1. /\ n \in Nat /\ applied[m] \in Nat /\ es \in Seq(Entries)
      /\ \A c \in Call : (\E w \in Woken(m, es) : w.call = c) => AnswerTo(m, es, c) = c
  BY AppliesWhat
<1>2. UNCHANGED <<leader, believes, log, committed, floating, incarnation, sequence,
                  batch, scheduled, flushes, releases, inbox, commit, elections>>
  BY DEF Applies, batcher, bounds
<1>3. /\ applied \in [Member -> Nat] /\ store \in [Member -> Seq(Entries)]
      /\ waiters \in [Member -> SUBSET CallEntries]
      /\ call \in [Call -> [state : State, at : Member \cup {None},
                            answer : Call \cup {None}]]
  BY DEF Types
<1>4. applied' \in [Member -> Nat]
  <2>1. applied' = [applied EXCEPT ![m] = @ + n]
    BY DEF Applies
  <2> QED
    BY <1>1, <1>3, <2>1
<1>5. store' \in [Member -> Seq(Entries)]
  <2>1. store[m] \o es \in Seq(Entries)
    BY <1>1, <1>3, ConcatProperties
  <2> QED
    BY <1>3, <2>1 DEF Applies
<1>6. waiters' \in [Member -> SUBSET CallEntries]
  BY <1>3 DEF Applies
<1>7. call' \in [Call -> [state : State, at : Member \cup {None},
                          answer : Call \cup {None}]]
  <2>1. ASSUME NEW c \in Call
        PROVE  (IF \E w \in Woken(m, es) : w.call = c
                THEN [call[c] EXCEPT !.state = "answered", !.answer = AnswerTo(m, es, c)]
                ELSE call[c])
               \in [state : State, at : Member \cup {None}, answer : Call \cup {None}]
    BY <1>1, <1>3 DEF State
  <2> QED
    BY <2>1 DEF Applies
<1>8. Stays
  BY <1>2, UnchangedStays
<1> QED
  BY <1>2, <1>4, <1>5, <1>6, <1>7, <1>8 DEF Types

LEMMA ElectTyped ==
    ASSUME Types, Apart, NEW m \in Member, Elect(m)
    PROVE  Types' /\ Stays
<1>1. PICK kept, t, own : Elects(kept, t, own)
  BY ElectIs
<1>2. /\ log' \in Seq(Entries) /\ Len(log') = committed + Len(t) + 1 /\ Len(t) \in Nat
      /\ \A i \in 1..committed : log'[i] = log[i]
  BY <1>1, ElectsLog DEF Apart
<1>3. UNCHANGED <<committed, incarnation, batch, scheduled, flushes, waiters, releases,
                  inbox, call, commit, applied, store>>
  BY DEF Elect, batcher, member
<1>4. /\ leader' = m /\ believes' = [believes EXCEPT ![m] = m]
      /\ sequence' = [sequence EXCEPT ![m] = @ + 1] /\ elections' = elections + 1
  BY DEF Elect
<1>5. leader' \in Member \cup {None} /\ believes' \in [Member -> Member \cup {None}]
  BY <1>4 DEF Types
<1>6. sequence' \in [Member -> Nat] /\ elections' \in Nat
  BY <1>4 DEF Types
<1>7. committed \in Nat
  BY DEF Types
<1>8. committed' \in 0..Len(log') /\ committed' = committed
  BY <1>2, <1>3, <1>7
<1>9. floating' \in SUBSET Entries /\ IsFiniteSet(floating')
  <2>1. PICK rest : rest = Rest
    OBVIOUS
  <2>2. PICK tail : tail = SubSeq(log, committed + 1, Len(log))
    OBVIOUS
  <2>3. tail \in Seq(Entries)
    <3>1. /\ log \in Seq(Entries) /\ committed + 1 \in Nat /\ committed + 1 >= 1
          /\ Len(log) \in 0..Len(log)
      BY DEF Types
    <3> QED
      BY <2>2, <3>1, ElementsOfPart
  <2>4. rest = floating \cup ToSet(tail)
    BY <2>1, <2>2 DEF Rest
  <2>5. IsFiniteSet(floating) /\ IsFiniteSet(ToSet(tail))
    BY <2>3, FiniteElements DEF Types
  <2>6. IsFiniteSet(rest)
    BY <2>4, <2>5, FS_Union
  <2>7. rest \subseteq Entries
    BY <2>1, RestIs, KnownTyped DEF Apart, Known
  <2>8. floating' \subseteq rest
    BY <1>1, <2>1 DEF Elects
  <2> QED
    BY <2>6, <2>7, <2>8, FS_Subset
<1>10. Stays
  BY <1>2, <1>7, <1>8 DEF Stays
<1> QED
  BY <1>2, <1>3, <1>5, <1>6, <1>8, <1>9, <1>10 DEF Types

\* Every step keeps the types, and what is committed.
LEMMA StepTyped ==
    ASSUME ProposalsAssumption, Types, Ordered, Apart, Next
    PROVE  Types' /\ Stays
<1>0. /\ committed \in Nat /\ committed <= Len(log) /\ Len(log) \in Nat
      /\ commit \in [Member -> Nat] /\ applied \in [Member -> Nat]
      /\ waiters \in [Member -> SUBSET CallEntries] /\ releases \in [Member -> SUBSET Call]
      /\ inbox \in [Member \X Member -> Seq(Seq(CallEntries))]
      /\ call \in [Call -> [state : State, at : Member \cup {None},
                            answer : Call \cup {None}]]
  <2>1. committed \in 0..Len(log) /\ Len(log) \in Nat
    BY DEF Types
  <2>2. committed \in Nat /\ committed <= Len(log) /\ Len(log) \in Nat
    BY <2>1
  <2>3. /\ commit \in [Member -> Nat] /\ applied \in [Member -> Nat]
        /\ waiters \in [Member -> SUBSET CallEntries]
        /\ releases \in [Member -> SUBSET Call]
    BY ZenonT(30) DEF Types
  <2>4. /\ inbox \in [Member \X Member -> Seq(Seq(CallEntries))]
        /\ call \in [Call -> [state : State, at : Member \cup {None},
                              answer : Call \cup {None}]]
    BY ZenonT(30) DEF Types
  <2> QED
    BY <2>2, <2>3, <2>4
<1>1. ASSUME NEW c \in Call, NEW m \in Member, Submit(c, m) PROVE Types' /\ Stays
  BY <1>1, SubmitTyped
<1>2. ASSUME NEW c \in Call, Deadline(c) PROVE Types' /\ Stays
  <2>1. /\ UNCHANGED <<leader, believes, log, committed, floating, incarnation, sequence,
                       batch, scheduled, flushes, waiters, inbox, commit, applied, store,
                       elections>>
        /\ call[c].state = "waiting" /\ call' = [call EXCEPT ![c].state = "timed out"]
    BY <1>2 DEF Deadline, batcher, member, bounds, Waiting
  <2>2. Stays
    BY <2>1, UnchangedStays
  <2>3. call' \in [Call -> [state : State, at : Member \cup {None},
                            answer : Call \cup {None}]]
    BY <1>0, <2>1 DEF State
  <2>4. releases' \in [Member -> SUBSET Call]
    BY <1>0, <1>2 DEF Deadline
  <2> QED
    BY <2>1, <2>2, <2>3, <2>4 DEF Types
<1>3. ASSUME NEW m \in Member, Flush(m) PROVE Types' /\ Stays
  BY <1>3, FlushTyped
<1>4. ASSUME NEW m \in Member, Release(m) PROVE Types' /\ Stays
  <2>1. UNCHANGED <<leader, believes, log, committed, floating, incarnation, sequence,
                    batch, scheduled, flushes, inbox, call, commit, applied, store,
                    elections>>
    BY <1>4 DEF Release, batcher, member, bounds
  <2>2. Stays
    BY <2>1, UnchangedStays
  <2>3. waiters' \in [Member -> SUBSET CallEntries]
    BY <1>0, <1>4 DEF Release
  <2>4. releases' \in [Member -> SUBSET Call]
    BY <1>0, <1>4 DEF Release
  <2> QED
    BY <2>1, <2>2, <2>3, <2>4 DEF Types
<1>5. ASSUME NEW l \in Member \X Member, OnPropose(l) PROVE Types' /\ Stays
  <2>1. UNCHANGED <<leader, believes, committed, incarnation, sequence, batch, scheduled,
                    flushes, waiters, releases, call, commit, applied, store, elections>>
    BY <1>5 DEF OnPropose, batcher, member, bounds
  <2>2. PICK es : es = Head(inbox[l])
    OBVIOUS
  <2>3. Takes(l, es)
    BY <1>5, <2>2 DEF OnPropose, Takes, AppendLocal, batcher
  <2>4. es \in Seq(Entries) /\ ToSet(es) \subseteq Entries
    BY <2>3, TakenIs, Elements DEF Apart
  <2>5. IsFiniteSet(ToSet(es))
    BY <2>4, FiniteElements
  <2>6. inbox' \in [Member \X Member -> Seq(Seq(CallEntries))]
    <3>1. inbox[l] \in Seq(Seq(CallEntries)) /\ inbox[l] # <<>>
      BY <1>0, <2>3 DEF Takes
    <3>2. Tail(inbox[l]) \in Seq(Seq(CallEntries))
      BY <3>1, HeadTailProperties
    <3> QED
      BY <1>0, <2>3, <3>2 DEF Takes
  <2>7. floating \in SUBSET Entries /\ IsFiniteSet(floating) /\ log \in Seq(Entries)
    BY DEF Types
  <2>8. CASE log' = log \o es /\ floating' = floating
    BY <2>1, <2>4, <2>6, <2>7, <2>8, AppendStays DEF Types
  <2>9. CASE log' = log /\ floating' = floating \cup ToSet(es)
    <3>1. IsFiniteSet(floating') /\ floating' \in SUBSET Entries
      BY <2>4, <2>5, <2>7, <2>9, FS_Union
    <3> QED
      BY <2>1, <2>6, <2>7, <2>9, <3>1, UnchangedStays DEF Types
  <2>10. CASE log' = log /\ floating' = floating
    BY <2>1, <2>6, <2>7, <2>10, UnchangedStays DEF Types
  <2> QED
    BY <2>3, <2>8, <2>9, <2>10 DEF Takes
<1>6. ASSUME NEW l \in Member \X Member, LoseConnection(l) PROVE Types' /\ Stays
  <2>1. UNCHANGED <<leader, believes, log, committed, floating, incarnation, sequence,
                    batch, scheduled, flushes, waiters, releases, call, commit, applied,
                    store, elections>>
    BY <1>6 DEF LoseConnection, batcher, member
  <2>2. inbox' \in [Member \X Member -> Seq(Seq(CallEntries))]
    BY <1>0, <1>6 DEF LoseConnection
  <2> QED
    BY <2>1, <2>2, UnchangedStays DEF Types
<1>7. CASE Commit
  <2>1. UNCHANGED <<leader, believes, log, floating, incarnation, sequence, batch,
                    scheduled, flushes, waiters, releases, inbox, call, commit, applied,
                    store, elections>>
    BY <1>7 DEF Commit, batcher, member, bounds
  <2>2. committed' = committed + 1 /\ committed < Len(log)
    BY <1>7 DEF Commit
  <2>3. committed' \in 0..Len(log') /\ committed <= committed'
    BY <1>0, <2>1, <2>2
  <2>4. Stays
    BY <1>0, <2>1, <2>2 DEF Stays
  <2> QED
    BY <2>1, <2>3, <2>4 DEF Types
<1>8. ASSUME NEW m \in Member, LearnCommit(m) PROVE Types' /\ Stays
  <2>1. UNCHANGED <<leader, believes, log, committed, floating, incarnation, sequence,
                    batch, scheduled, flushes, waiters, releases, inbox, call, applied,
                    store, elections>>
    BY <1>8 DEF LearnCommit, batcher, bounds
  <2>2. commit' \in [Member -> Nat]
    BY <1>0, <1>8 DEF LearnCommit
  <2> QED
    BY <2>1, <2>2, UnchangedStays DEF Types
<1>9. ASSUME NEW m \in Member, ApplyRun(m) PROVE Types' /\ Stays
  BY <1>9, AppliedIs, ApplyTyped
<1>10. ASSUME NEW m \in Member, Install(m) PROVE Types' /\ Stays
  <2>1. UNCHANGED <<leader, believes, log, committed, floating, incarnation, sequence,
                    batch, scheduled, flushes, waiters, releases, inbox, call, elections>>
    BY <1>10 DEF Install, batcher, bounds
  <2>2. commit' \in [Member -> Nat] /\ applied' \in [Member -> Nat]
    BY <1>0, <1>10 DEF Install
  <2>3. PICK head : head = SubSeq(log, 1, committed)
    OBVIOUS
  <2>4. head \in Seq(Entries)
    <3>1. log \in Seq(Entries) /\ 1 \in Nat /\ committed \in 0..Len(log)
      BY DEF Types
    <3> QED
      BY <2>3, <3>1, ElementsOfPart
  <2>5. store' = [store EXCEPT ![m] = head] /\ store \in [Member -> Seq(Entries)]
    BY <1>10, <2>3 DEF Install, Types
  <2>6. store' \in [Member -> Seq(Entries)]
    BY <2>4, <2>5
  <2> QED
    BY <2>1, <2>2, <2>6, UnchangedStays DEF Types
<1>11. ASSUME NEW m \in Member, Elect(m) PROVE Types' /\ Stays
  BY <1>11, ElectTyped
<1>12. ASSUME NEW m \in Member, Believe(m) PROVE Types' /\ Stays
  <2>1. UNCHANGED <<log, committed, floating, incarnation, sequence, batch, scheduled,
                    flushes, waiters, releases, inbox, call, commit, applied, store,
                    elections>>
    BY <1>12 DEF Believe, batcher, member, bounds
  <2>2. leader' \in Member \cup {None}
    BY <1>12 DEF Believe, Types
  <2>3. believes' \in [Member -> Member \cup {None}]
    BY <1>12 DEF Believe, Types
  <2> QED
    BY <2>1, <2>2, <2>3, UnchangedStays DEF Types
<1>13. ASSUME NEW m \in Member, Restart(m) PROVE Types' /\ Stays
  <2>1. UNCHANGED <<log, committed, floating, inbox, elections>>
    BY <1>13 DEF Restart
  <2>2. incarnation' \in [Member -> Nat]
    <3>1. incarnation' = [incarnation EXCEPT ![m] = @ + 1]
      BY <1>13 DEF Restart
    <3> QED
      BY <3>1 DEF Types
  <2>3. sequence' \in [Member -> Nat]
    <3>1. incarnation[m] \in Nat /\ PerIncarnation \in Nat
      BY Bounds DEF Types
    <3>2. Seed(m) \in Nat
      BY <3>1 DEF Seed
    <3> QED
      BY <1>13, <3>2 DEF Restart, Types
  <2>4. leader' \in Member \cup {None} /\ believes' \in [Member -> Member \cup {None}]
    BY <1>13 DEF Restart, Types
  <2>5. batch' \in [Member -> Seq(Call)]
    BY <1>13 DEF Restart, Types
  <2>6. scheduled' \in [Member -> BOOLEAN] /\ flushes' \in [Member -> Nat]
    BY <1>13 DEF Restart, Types
  <2>7. waiters' \in [Member -> SUBSET CallEntries] /\ releases' \in [Member -> SUBSET Call]
    BY <1>0, <1>13 DEF Restart
  <2>8. call' \in [Call -> [state : State, at : Member \cup {None},
                            answer : Call \cup {None}]]
    BY <1>0, <1>13 DEF Restart, State
  <2>9. commit' \in [Member -> Nat] /\ applied' \in [Member -> Nat]
    BY <1>0, <1>13 DEF Restart
  <2>10. store' \in [Member -> Seq(Entries)]
    BY <1>13 DEF Restart, Types
  <2> QED
    BY <2>1, <2>2, <2>3, <2>4, <2>5, <2>6, <2>7, <2>8, <2>9, <2>10, UnchangedStays DEF Types
<1> QED
  BY <1>1, <1>2, <1>3, <1>4, <1>5, <1>6, <1>7, <1>8, <1>9, <1>10, <1>11,
     <1>12, <1>13 DEF Next

----------------------------------------------------------------------------
(* What members apply.                                                     *)

LEMMA StaysPrefix ==
    ASSUME Types, Types', Stays, NEW k \in Nat, k <= committed
    PROVE  SubSeq(log', 1, k) = SubSeq(log, 1, k)
<1>1. /\ committed \in Nat /\ committed <= Len(log) /\ Len(log) \in Nat
      /\ committed' \in Nat /\ committed' <= Len(log') /\ Len(log') \in Nat
  <2>1. /\ committed \in 0..Len(log) /\ log \in Seq(Entries)
        /\ committed' \in 0..Len(log') /\ log' \in Seq(Entries)
    BY DEF Types
  <2> QED
    BY <2>1
<1>2. k \in 0..Len(log) /\ k \in 0..Len(log')
  <2>1. committed <= committed'
    BY DEF Stays
  <2> QED
    BY <1>1, <2>1
<1>3. PICK old : old = log
  OBVIOUS
<1>4. PICK new : new = log'
  OBVIOUS
<1>5. old \in Seq(Entries) /\ new \in Seq(Entries)
  BY <1>3, <1>4 DEF Types
<1>6. PICK s : s = SubSeq(old, 1, k)
  OBVIOUS
<1>7. PICK t : t = SubSeq(new, 1, k)
  OBVIOUS
<1>8. /\ s \in Seq(Entries) /\ Len(s) = IF 1 <= k THEN k - 1 + 1 ELSE 0
      /\ \A i \in 1..(k - 1 + 1) : s[i] = old[1 + i - 1]
  BY <1>2, <1>3, <1>5, <1>6, ElementsOfPart
<1>9. /\ t \in Seq(Entries) /\ Len(t) = IF 1 <= k THEN k - 1 + 1 ELSE 0
      /\ \A i \in 1..(k - 1 + 1) : t[i] = new[1 + i - 1]
  BY <1>2, <1>4, <1>5, <1>7, ElementsOfPart
<1>10. Len(s) = k /\ Len(t) = k /\ k - 1 + 1 = k
  BY <1>8, <1>9
<1>11. ASSUME NEW i \in 1..k PROVE s[i] = t[i]
  <2>1. i \in 1..committed /\ 1 + i - 1 = i
    BY <1>1
  <2>2. old[i] = new[i]
    BY <1>3, <1>4, <2>1 DEF Stays
  <2>3. s[i] = old[1 + i - 1] /\ t[i] = new[1 + i - 1]
    BY <1>8, <1>9, <1>10
  <2> QED
    BY <2>1, <2>2, <2>3
<1>12. s = t
  BY <1>8, <1>9, <1>10, <1>11, SeqEqual
<1> QED
  BY <1>3, <1>4, <1>6, <1>7, <1>12

\* A run makes the store a longer part of what is committed.
LEMMA AppliesPrefix ==
    ASSUME Types, Ordered, Apart, StoreIsCommitted,
           NEW m \in Member, NEW n, NEW es, Applies(m, n, es)
    PROVE  store[m] \o es = SubSeq(log, 1, applied[m] + n)
<1>0. /\ n \in Nat /\ applied[m] \in Nat /\ applied[m] + n <= commit[m]
      /\ es \in Seq(Entries) /\ Len(es) = n
      /\ \A i \in 1..n : es[i] = log[applied[m] + i]
  BY AppliesWhat
<1>1. /\ committed \in Nat /\ committed <= Len(log) /\ Len(log) \in Nat
      /\ commit[m] \in Nat /\ commit[m] <= committed /\ log \in Seq(Entries)
  BY DEF Types, Ordered
<1>2. PICK a : a = applied[m]
  OBVIOUS
<1>3. PICK z : z = applied[m] + n
  OBVIOUS
<1>4. a \in Nat /\ z \in Nat /\ z = a + n /\ a \in 0..Len(log) /\ z \in 0..Len(log)
  <2>1. a \in Nat /\ z \in Nat /\ z = a + n /\ z <= commit[m]
    BY <1>0, <1>2, <1>3
  <2> QED
    BY <1>0, <1>1, <2>1
<1>5. PICK s : s = SubSeq(log, 1, a)
  OBVIOUS
<1>6. PICK t : t = SubSeq(log, 1, z)
  OBVIOUS
<1>7. /\ s \in Seq(Entries) /\ Len(s) = a
      /\ \A i \in 1..a : s[i] = log[i]
  <2>1. /\ s \in Seq(Entries) /\ Len(s) = IF 1 <= a THEN a - 1 + 1 ELSE 0
        /\ \A i \in 1..(a - 1 + 1) : s[i] = log[1 + i - 1]
    BY <1>1, <1>4, <1>5, ElementsOfPart
  <2>2. a - 1 + 1 = a /\ \A i \in 1..a : 1 + i - 1 = i
    BY <1>4
  <2> QED
    BY <1>4, <2>1, <2>2
<1>8. /\ t \in Seq(Entries) /\ Len(t) = z
      /\ \A i \in 1..z : t[i] = log[i]
  <2>1. /\ t \in Seq(Entries) /\ Len(t) = IF 1 <= z THEN z - 1 + 1 ELSE 0
        /\ \A i \in 1..(z - 1 + 1) : t[i] = log[1 + i - 1]
    BY <1>1, <1>4, <1>6, ElementsOfPart
  <2>2. z - 1 + 1 = z /\ \A i \in 1..z : 1 + i - 1 = i
    BY <1>4
  <2> QED
    BY <1>4, <2>1, <2>2
<1>9. PICK u : u = s \o es
  OBVIOUS
<1>10. /\ u \in Seq(Entries) /\ Len(u) = z
       /\ \A i \in 1..z : u[i] = IF i <= a THEN s[i] ELSE es[i - a]
  <2>1. /\ u \in Seq(Entries) /\ Len(u) = Len(s) + Len(es)
        /\ \A i \in 1..Len(s) + Len(es) :
              u[i] = IF i <= Len(s) THEN s[i] ELSE es[i - Len(s)]
    BY <1>0, <1>7, <1>9, ConcatProperties
  <2> QED
    BY <1>0, <1>4, <1>7, <2>1
<1>11. ASSUME NEW i \in 1..z PROVE u[i] = t[i]
  <2>1. CASE i <= a
    <3>1. i \in 1..a
      BY <1>4, <2>1
    <3> QED
      BY <1>7, <1>8, <1>10, <2>1, <3>1
  <2>2. CASE ~(i <= a)
    <3>1. i - a \in 1..n /\ a + (i - a) = i
      BY <1>0, <1>4, <2>2
    <3>2. es[i - a] = log[a + (i - a)]
      BY <1>0, <1>2, <3>1
    <3> QED
      BY <1>8, <1>10, <2>2, <3>1, <3>2
  <2> QED
    BY <2>1, <2>2
<1>12. u = t
  BY <1>8, <1>10, <1>11, SeqEqual
<1>13. store[m] = s
  BY <1>2, <1>5 DEF StoreIsCommitted
<1> QED
  BY <1>3, <1>6, <1>9, <1>12, <1>13

LEMMA AppliedStep ==
    ASSUME Types, Types', Ordered, Apart, StoreIsCommitted, Stays, Next
    PROVE  Ordered' /\ StoreIsCommitted'
<1>0. /\ commit \in [Member -> Nat] /\ applied \in [Member -> Nat]
      /\ committed \in Nat /\ committed' \in Nat /\ committed <= committed'
      /\ store \in [Member -> Seq(Entries)]
  <2>1. committed' \in Nat /\ committed <= committed'
    BY DEF Stays
  <2>2. committed \in 0..Len(log) /\ log \in Seq(Entries)
    BY DEF Types
  <2>3. committed \in Nat
    BY <2>2
  <2> QED
    BY <2>1, <2>3 DEF Types
<1>1. ASSUME NEW n \in Member,
             applied'[n] = applied[n] /\ commit'[n] = commit[n] /\ store'[n] = store[n]
      PROVE  /\ applied'[n] <= commit'[n] /\ commit'[n] <= committed'
             /\ store'[n] = SubSeq(log', 1, applied'[n])
  <2>1. /\ applied[n] <= commit[n] /\ commit[n] <= committed
        /\ applied[n] \in Nat /\ commit[n] \in Nat
    BY <1>0 DEF Ordered
  <2>2. applied[n] <= committed
    BY <1>0, <2>1
  <2>3. PICK k : k = applied[n]
    OBVIOUS
  <2>4. SubSeq(log', 1, k) = SubSeq(log, 1, k)
    BY <2>1, <2>2, <2>3, StaysPrefix
  <2> QED
    BY <1>0, <1>1, <2>1, <2>3, <2>4 DEF StoreIsCommitted
<1>2. CASE UNCHANGED member
  BY <1>1, <1>2 DEF Ordered, StoreIsCommitted, member
<1>3. ASSUME NEW m \in Member, LearnCommit(m) PROVE Ordered' /\ StoreIsCommitted'
  <2>1. /\ UNCHANGED <<log, committed, applied, store>>
        /\ commit' = [commit EXCEPT ![m] = committed]
    BY <1>3 DEF LearnCommit
  <2>2. StoreIsCommitted'
    BY <2>1 DEF StoreIsCommitted
  <2>3. \A n \in Member : commit'[n] = IF n = m THEN committed ELSE commit[n]
    BY <1>0, <2>1
  <2>4. \A n \in Member : /\ applied[n] <= commit[n] /\ commit[n] <= committed
                          /\ applied[n] \in Nat /\ commit[n] \in Nat
    BY <1>0 DEF Ordered
  <2>5. Ordered'
    BY <1>0, <2>1, <2>3, <2>4 DEF Ordered
  <2> QED
    BY <2>2, <2>5
<1>4. ASSUME NEW m \in Member, ApplyRun(m) PROVE Ordered' /\ StoreIsCommitted'
  <2>1. PICK n, es : Applies(m, n, es)
    BY <1>4, AppliedIs
  <2>2. store[m] \o es = SubSeq(log, 1, applied[m] + n)
    BY <2>1, AppliesPrefix
  <2>3. /\ applied' = [applied EXCEPT ![m] = @ + n]
        /\ store' = [store EXCEPT ![m] = @ \o es]
        /\ UNCHANGED <<log, committed, commit>>
    BY <2>1 DEF Applies
  <2>4. /\ applied'[m] = applied[m] + n /\ store'[m] = store[m] \o es
        /\ \A o \in Member : o # m => applied'[o] = applied[o] /\ store'[o] = store[o]
    BY <1>0, <2>3
  <2>5. applied[m] + n <= commit[m]
    BY <2>1, AppliesWhat
  <2>6. Ordered'
    BY <2>3, <2>4, <2>5 DEF Ordered
  <2>7. StoreIsCommitted'
    BY <2>2, <2>3, <2>4 DEF StoreIsCommitted
  <2> QED
    BY <2>6, <2>7
<1>5. ASSUME NEW m \in Member, Install(m) PROVE Ordered' /\ StoreIsCommitted'
  <2>1. /\ UNCHANGED <<log, committed>>
        /\ commit' = [commit EXCEPT ![m] = committed]
        /\ applied' = [applied EXCEPT ![m] = committed]
        /\ store' = [store EXCEPT ![m] = SubSeq(log, 1, committed)]
    BY <1>5 DEF Install
  <2>2. /\ commit'[m] = committed /\ applied'[m] = committed
        /\ store'[m] = SubSeq(log, 1, committed)
        /\ \A o \in Member : o # m => /\ applied'[o] = applied[o]
                                      /\ commit'[o] = commit[o] /\ store'[o] = store[o]
    BY <1>0, <2>1
  <2>3. committed <= committed
    BY <1>0
  <2>4. Ordered'
    BY <2>1, <2>2, <2>3 DEF Ordered
  <2>5. StoreIsCommitted'
    BY <2>1, <2>2 DEF StoreIsCommitted
  <2> QED
    BY <2>4, <2>5
<1>6. ASSUME NEW m \in Member, Restart(m) PROVE Ordered' /\ StoreIsCommitted'
  <2>1. /\ UNCHANGED <<log, committed>>
        /\ commit' = [commit EXCEPT ![m] = 0]
        /\ applied' = [applied EXCEPT ![m] = 0]
        /\ store' = [store EXCEPT ![m] = <<>>]
    BY <1>6 DEF Restart
  <2>2. /\ commit'[m] = 0 /\ applied'[m] = 0 /\ store'[m] = <<>>
        /\ \A o \in Member : o # m => /\ applied'[o] = applied[o]
                                      /\ commit'[o] = commit[o] /\ store'[o] = store[o]
    BY <1>0, <2>1
  <2>3. 0 <= 0 /\ 0 <= committed
    BY <1>0
  <2>4. Ordered'
    BY <2>1, <2>2, <2>3 DEF Ordered
  <2>5. SubSeq(log, 1, 0) = <<>>
    <3>1. log \in Seq(Entries)
      BY DEF Types
    <3>2. PICK none : none = SubSeq(log, 1, 0)
      OBVIOUS
    <3>3. none \in Seq(Entries) /\ Len(none) = 0
      <4>1. 0 \in 0..Len(log) /\ ~(1 <= 0)
        BY <3>1
      <4> QED
        BY <3>1, <3>2, <4>1, ElementsOfPart
    <3> QED
      BY <3>2, <3>3, EmptySeq
  <2>6. StoreIsCommitted'
    BY <2>1, <2>2, <2>5 DEF StoreIsCommitted
  <2> QED
    BY <2>4, <2>6
<1> QED
  BY <1>2, <1>3, <1>4, <1>5, <1>6 DEF Next, Submit, Deadline, Flush, Release, OnPropose,
     LoseConnection, Commit, Elect, Believe

----------------------------------------------------------------------------
(* Who is answered, and who waits.                                         *)

LEMMA AnswersStep ==
    ASSUME Types, Types', Ordered, Apart, AnsweredTruly, Stays, Next
    PROVE  AnsweredTruly'
<1>0. /\ committed \in Nat /\ committed' \in Nat /\ committed <= committed'
      /\ \A i \in 1..committed : i \in 1..committed' /\ log'[i] = log[i]
  <2>1. committed \in Nat /\ committed' \in Nat
    BY DEF Types, Stays
  <2>2. committed <= committed' /\ \A i \in 1..committed : log'[i] = log[i]
    BY DEF Stays
  <2> QED
    BY <2>1, <2>2
<1>1. call \in [Call -> [state : State, at : Member \cup {None},
                         answer : Call \cup {None}]]
  BY DEF Types
<1>2. ASSUME NEW c \in Call, call'[c] = call[c], call[c].state = "answered"
      PROVE  call'[c].answer = c /\ \E i \in 1..committed' : log'[i].call = c
  <2>1. call[c].answer = c /\ \E i \in 1..committed : log[i].call = c
    BY <1>2 DEF AnsweredTruly
  <2>2. PICK i \in 1..committed : log[i].call = c
    BY <2>1
  <2> QED
    BY <1>0, <1>2, <2>1, <2>2
<1>3. CASE \A c \in Call : call'[c] = call[c] \/ call'[c].state # "answered"
  BY <1>2, <1>3 DEF AnsweredTruly
<1>4. ASSUME NEW c \in Call, NEW m \in Member, Submit(c, m)
      PROVE  \A d \in Call : call'[d] = call[d] \/ call'[d].state # "answered"
  <2>1. PICK calls : calls = Append(batch[m], c)
    OBVIOUS
  <2>2. CASE Len(calls) >= MaxBatch
    <3>1. call' = [d \in Call |->
              IF d \in Refused(m, calls) /\ (Waiting(d) \/ d = c)
              THEN After(d, m, "unavailable")
              ELSE IF d = c THEN After(c, m, "waiting") ELSE call[d]]
      BY <1>4, <2>1, <2>2 DEF Submit
    <3> QED
      BY <3>1 DEF After
  <2>3. CASE ~(Len(calls) >= MaxBatch)
    <3>1. call' = [call EXCEPT ![c] = After(c, m, "waiting")]
      BY <1>4, <2>1, <2>3 DEF Submit
    <3> QED
      BY <1>1, <3>1 DEF After
  <2> QED
    BY <2>2, <2>3
<1>5. ASSUME NEW m \in Member, Flush(m)
      PROVE  \A d \in Call : call'[d] = call[d] \/ call'[d].state # "answered"
  <2>1. \/ call' = call
        \/ call' = [d \in Call |->
              IF d \in Refused(m, batch[m]) /\ Waiting(d)
              THEN After(d, m, "unavailable") ELSE call[d]]
    BY <1>5 DEF Flush
  <2> QED
    BY <2>1 DEF After
<1>6. ASSUME NEW c \in Call, Deadline(c)
      PROVE  \A d \in Call : call'[d] = call[d] \/ call'[d].state # "answered"
  <2>1. call' = [call EXCEPT ![c].state = "timed out"]
    BY <1>6 DEF Deadline
  <2>2. call' = [call EXCEPT ![c] = [call[c] EXCEPT !.state = "timed out"]]
    BY <2>1
  <2> QED
    BY <1>1, <2>2
<1>7. ASSUME NEW m \in Member, Restart(m)
      PROVE  \A d \in Call : call'[d] = call[d] \/ call'[d].state # "answered"
  <2>1. call' = [c \in Call |-> IF Waiting(c) /\ call[c].at = m
                                THEN [call[c] EXCEPT !.state = "gone"]
                                ELSE call[c]]
    BY <1>7 DEF Restart
  <2> QED
    BY <1>1, <2>1
<1>8. ASSUME NEW m \in Member, ApplyRun(m) PROVE AnsweredTruly'
  <2>1. PICK n, es : Applies(m, n, es)
    BY <1>8, AppliedIs
  <2>2. \A c \in Call : (\E w \in Woken(m, es) : w.call = c) =>
           AnswerTo(m, es, c) = c /\ \E i \in 1..committed : log[i].call = c
    BY <2>1, AppliesWhat
  <2>3. call' = [c \in Call |->
           IF \E w \in Woken(m, es) : w.call = c
           THEN [call[c] EXCEPT !.state = "answered", !.answer = AnswerTo(m, es, c)]
           ELSE call[c]]
    BY <2>1 DEF Applies
  <2>4. ASSUME NEW c \in Call, call'[c].state = "answered"
        PROVE  call'[c].answer = c /\ \E i \in 1..committed' : log'[i].call = c
    <3>1. CASE \E w \in Woken(m, es) : w.call = c
      <4>1. call'[c].answer = AnswerTo(m, es, c)
        BY <1>1, <2>3, <3>1
      <4>2. PICK i \in 1..committed : log[i].call = c
        BY <2>2, <3>1
      <4> QED
        BY <1>0, <2>2, <3>1, <4>1, <4>2
    <3>2. CASE ~ \E w \in Woken(m, es) : w.call = c
      <4>1. call'[c] = call[c]
        BY <2>3, <3>2
      <4> QED
        BY <1>2, <2>4, <4>1
    <3> QED
      BY <3>1, <3>2
  <2> QED
    BY <2>4 DEF AnsweredTruly
<1>9. CASE UNCHANGED call
  BY <1>3, <1>9
<1> QED
  BY <1>3, <1>4, <1>5, <1>6, <1>7, <1>8, <1>9 DEF Next, Release, OnPropose,
     LoseConnection, Commit, LearnCommit, Install, Elect, Believe

LEMMA DueStep ==
    ASSUME Types, Due, Next
    PROVE  Due'
<1>0. /\ batch \in [Member -> Seq(Call)] /\ scheduled \in [Member -> BOOLEAN]
      /\ flushes \in [Member -> Nat]
  BY DEF Types
<1>1. ASSUME NEW c \in Call, NEW m \in Member, Submit(c, m) PROVE Due'
  <2>1. PICK calls : calls = Append(batch[m], c)
    OBVIOUS
  <2>2. CASE Len(calls) >= MaxBatch
    <3>1. /\ batch' = [batch EXCEPT ![m] = <<>>]
          /\ scheduled' = [scheduled EXCEPT ![m] = FALSE]
          /\ flushes' = flushes
      BY <1>1, <2>1, <2>2 DEF Submit, Handed, Flushed
    <3> QED
      BY <1>0, <3>1 DEF Due
  <2>3. CASE ~(Len(calls) >= MaxBatch)
    <3>1. /\ batch' = [batch EXCEPT ![m] = calls]
          /\ scheduled' = [scheduled EXCEPT ![m] = TRUE]
          /\ flushes' = [flushes EXCEPT ![m] = IF scheduled[m] THEN @ ELSE @ + 1]
      BY <1>1, <2>1, <2>3 DEF Submit
    <3>2. /\ scheduled'[m] = TRUE
          /\ \A n \in Member : n # m => /\ scheduled'[n] = scheduled[n]
                                        /\ flushes'[n] = flushes[n]
                                        /\ batch'[n] = batch[n]
      BY <1>0, <3>1
    <3>3. flushes'[m] > 0
      <4>1. flushes'[m] = IF scheduled[m] THEN flushes[m] ELSE flushes[m] + 1
        BY <1>0, <3>1
      <4>2. flushes[m] \in Nat /\ (scheduled[m] => flushes[m] > 0)
        BY <1>0 DEF Due
      <4> QED
        BY <4>1, <4>2
    <3> QED
      BY <3>2, <3>3 DEF Due
  <2> QED
    BY <2>2, <2>3
<1>2. ASSUME NEW m \in Member, Flush(m) PROVE Due'
  <2>1. /\ scheduled' = [scheduled EXCEPT ![m] = FALSE]
        /\ flushes' = [flushes EXCEPT ![m] = @ - 1]
        /\ \/ batch[m] = <<>> /\ batch' = batch
           \/ batch' = [batch EXCEPT ![m] = <<>>]
    BY <1>2 DEF Flush, Flushed, Handed
  <2>2. /\ scheduled'[m] = FALSE /\ batch'[m] = <<>>
        /\ \A n \in Member : n # m => /\ scheduled'[n] = scheduled[n]
                                      /\ flushes'[n] = flushes[n]
                                      /\ batch'[n] = batch[n]
    BY <1>0, <2>1
  <2> QED
    BY <2>2 DEF Due
<1>3. ASSUME NEW m \in Member, Restart(m) PROVE Due'
  <2>1. /\ batch' = [batch EXCEPT ![m] = <<>>]
        /\ scheduled' = [scheduled EXCEPT ![m] = FALSE]
        /\ flushes' = [flushes EXCEPT ![m] = 0]
    BY <1>3 DEF Restart
  <2> QED
    BY <1>0, <2>1 DEF Due
<1>4. CASE UNCHANGED batcher
  BY <1>4 DEF Due, batcher
<1> QED
  BY <1>1, <1>2, <1>3, <1>4 DEF Next, Deadline, Release, OnPropose, LoseConnection,
     Commit, LearnCommit, ApplyRun, Install, Elect, Believe

\* A waiter's call is in no batch, and it was submitted here.
LEMMA WaiterIs ==
    ASSUME Types, Apart, NEW m \in Member, NEW w \in waiters[m]
    PROVE  /\ w.call \in Call /\ call[w.call].state # "idle" /\ call[w.call].at = m
           /\ w \in Known /\ w \in Awaited
           /\ \A n \in Member : \A i \in DOMAIN batch[n] : batch[n][i] # w.call
<1>1. w \in CallEntries /\ w.call \in Call
  BY DEF Types, CallEntries
<1>2. w \in Awaited /\ w \in Known
  BY DEF Known, Awaited
<1>3. w.call \notin Batched
  BY <1>2 DEF Apart, OnePlace, BatchedUnknown
<1> QED
  BY <1>1, <1>2, <1>3, BatchedIs DEF Apart, OnePlace, IdleNowhere, AwaitedAt

\* A drain leaves what waits wanted, if nothing that waits is among the calls it
\* refuses, and nothing of the others changes but that c becomes waiting.
LEMMA DrainWanted ==
    ASSUME ProposalsAssumption, Types, Apart, WaitersAreWanted, NEW m \in Member,
           NEW calls, calls \in Seq(Call), Drain(m, calls),
           \A d \in ToSet(calls) : \A n \in Member : \A w \in waiters[n] : w.call # d,
           \A d \in Call : d \notin ToSet(calls) => call'[d] = call[d],
           believes[m] # None =>
              \A d \in ToSet(calls) : Waiting(d)' \/ d \in DueAtOnce(calls)
    PROVE  WaitersAreWanted'
<1>0. /\ waiters \in [Member -> SUBSET CallEntries]
      /\ releases \in [Member -> SUBSET Call]
  BY DEF Types
<1>1. ASSUME NEW n \in Member, NEW w \in waiters[n]
      PROVE  /\ Waiting(w.call) => Waiting(w.call)'
             /\ Waiting(w.call) \/ w.call \in releases[n]
  <2>1. w.call \in Call /\ w.call \notin ToSet(calls)
    BY WaiterIs
  <2>2. call'[w.call] = call[w.call]
    BY <2>1
  <2> QED
    BY <2>2 DEF Waiting, WaitersAreWanted
<1>2. CASE believes[m] = None
  <2>1. waiters' = waiters /\ releases' = releases
    BY <1>2, DrainRefuses
  <2> QED
    BY <1>1, <2>1 DEF WaitersAreWanted
<1>3. CASE believes[m] # None
  <2>1. PICK es : /\ es = Minted(m, calls)
                  /\ waiters' = [waiters EXCEPT ![m] = @ \cup ToSet(es)]
                  /\ releases' = [releases EXCEPT ![m] = @ \cup DueAtOnce(calls)]
    BY <1>3, DrainHands
  <2>2. \A e \in ToSet(es) : e.call \in ToSet(calls)
    <3>1. /\ es \in Seq(CallEntries) /\ Len(es) = Len(calls)
          /\ \A i \in 1..Len(calls) :
                es[i] = [id |-> <<m, sequence[m] + i>>, call |-> calls[i]]
      BY <2>1, MintedIs
    <3>2. \A i \in 1..Len(calls) : es[i].call = calls[i] /\ calls[i] \in ToSet(calls)
      <4> TAKE i \in 1..Len(calls)
      <4>1. es[i] = [id |-> <<m, sequence[m] + i>>, call |-> calls[i]]
        BY <3>1
      <4>2. calls[i] \in ToSet(calls)
        BY Elements
      <4> QED
        BY <4>1, <4>2
    <3>3. \A e \in ToSet(es) : \E i \in 1..Len(es) : e = es[i]
      BY <3>1, Elements
    <3> QED
      BY <3>1, <3>2, <3>3
  <2>3. ASSUME NEW n \in Member, NEW w \in waiters'[n]
        PROVE  Waiting(w.call)' \/ w.call \in releases'[n]
    <3>1. CASE w \in waiters[n]
      <4>1. releases[n] \subseteq releases'[n]
        BY <1>0, <2>1
      <4> QED
        BY <1>1, <3>1, <4>1
    <3>2. CASE w \notin waiters[n]
      <4>1. n = m /\ w \in ToSet(es)
        BY <1>0, <2>1, <2>3, <3>2
      <4>2. Waiting(w.call)' \/ w.call \in DueAtOnce(calls)
        BY <1>3, <2>2, <4>1
      <4>3. DueAtOnce(calls) \subseteq releases'[m]
        BY <1>0, <2>1
      <4> QED
        BY <4>1, <4>2, <4>3
    <3> QED
      BY <3>1, <3>2
  <2> QED
    BY <2>3 DEF WaitersAreWanted
<1> QED
  BY <1>2, <1>3

LEMMA SubmitWanted ==
    ASSUME ProposalsAssumption, Types, Apart, WaitersAreWanted, NEW c \in Call, NEW m \in Member, Submit(c, m)
    PROVE  WaitersAreWanted'
<1>1. PICK calls : calls = Joined(c, m)
  OBVIOUS
<1>2. call[c].state = "idle"
  BY DEF Submit
<1>3. /\ Fresh(m, calls)
      /\ \A d \in ToSet(calls) : d = c \/ \E i \in DOMAIN batch[m] : d = batch[m][i]
  BY <1>1, <1>2, AppendFresh DEF Apart
<1>4. calls \in Seq(Call) /\ ToSet(calls) \subseteq Call
  BY <1>3, Elements DEF Fresh
<1>5. ASSUME NEW n \in Member, NEW w \in waiters[n]
      PROVE  w.call \in Call /\ w.call # c /\ w.call \notin ToSet(calls)
  BY <1>2, <1>3, WaiterIs
<1>6. CASE Len(calls) >= MaxBatch
  <2>1. /\ Drain(m, calls)
        /\ call' = [d \in Call |->
              IF d \in Refused(m, calls) /\ (Waiting(d) \/ d = c)
              THEN After(d, m, "unavailable")
              ELSE IF d = c THEN After(c, m, "waiting") ELSE call[d]]
    BY <1>1, <1>6 DEF Submit, Joined
  <2>2. Refused(m, calls) \subseteq ToSet(calls)
    BY DEF Refused
  <2>3. c \in ToSet(calls)
    BY <1>1, <1>2, AppendFresh DEF Apart
  <2>4. \A d \in Call : d \notin ToSet(calls) => call'[d] = call[d]
    BY <2>1, <2>2, <2>3
  <2>5. ASSUME believes[m] # None, NEW d \in ToSet(calls)
        PROVE  Waiting(d)' \/ d \in DueAtOnce(calls)
    <3>1. Refused(m, calls) = {}
      BY <2>5 DEF Refused
    <3>2. CASE d = c
      <4>1. call'[d] = After(c, m, "waiting")
        BY <2>1, <3>1, <3>2
      <4> QED
        BY <4>1 DEF Waiting, After
    <3>3. CASE d # c
      <4>1. call'[d] = call[d] /\ d \in Call
        BY <1>4, <2>1, <3>1, <3>3
      <4>2. d \in Batched
        BY <1>3, <3>3, BatchedIs
      <4>3. call[d].state # "idle"
        BY <4>1, <4>2 DEF Apart, OnePlace, IdleNowhere
      <4> QED
        BY <4>1, <4>3 DEF Waiting, DueAtOnce
    <3> QED
      BY <3>2, <3>3
  <2> QED
    BY <1>4, <1>5, <2>1, <2>4, <2>5, DrainWanted
<1>7. CASE ~(Len(calls) >= MaxBatch)
  <2>1. /\ call' = [call EXCEPT ![c] = After(c, m, "waiting")]
        /\ waiters' = waiters /\ releases' = releases
    BY <1>1, <1>7 DEF Submit, Joined
  <2>2. \A d \in Call : d # c => call'[d] = call[d]
    BY <2>1 DEF Types
  <2> QED
    BY <1>5, <2>1, <2>2 DEF WaitersAreWanted, Waiting
<1> QED
  BY <1>6, <1>7

LEMMA FlushWanted ==
    ASSUME ProposalsAssumption, Types, Apart, WaitersAreWanted, NEW m \in Member, Flush(m)
    PROVE  WaitersAreWanted'
<1>1. PICK calls : calls = batch[m]
  OBVIOUS
<1>2. CASE calls = <<>>
  BY <1>1, <1>2 DEF Flush, WaitersAreWanted, Waiting
<1>3. CASE calls # <<>>
  <2>1. /\ Drain(m, calls)
        /\ call' = [d \in Call |->
              IF d \in Refused(m, calls) /\ Waiting(d)
              THEN After(d, m, "unavailable") ELSE call[d]]
    BY <1>1, <1>3 DEF Flush
  <2>2. /\ Fresh(m, calls)
        /\ \A d \in ToSet(calls) : \E i \in DOMAIN batch[m] : d = batch[m][i]
    BY <1>1, BatchFresh DEF Apart
  <2>3. calls \in Seq(Call) /\ ToSet(calls) \subseteq Call
    BY <2>2, Elements DEF Fresh
  <2>4. \A d \in ToSet(calls) : \A n \in Member : \A w \in waiters[n] : w.call # d
    BY <2>2, WaiterIs
  <2>5. \A d \in Call : d \notin ToSet(calls) => call'[d] = call[d]
    BY <2>1 DEF Refused
  <2>6. ASSUME believes[m] # None, NEW d \in ToSet(calls)
        PROVE  Waiting(d)' \/ d \in DueAtOnce(calls)
    <3>1. Refused(m, calls) = {}
      BY <2>6 DEF Refused
    <3>2. call'[d] = call[d] /\ d \in Call
      BY <2>1, <2>3, <3>1
    <3>3. d \in Batched
      BY <2>2, BatchedIs
    <3>4. call[d].state # "idle"
      BY <3>2, <3>3 DEF Apart, OnePlace, IdleNowhere
    <3> QED
      BY <3>2, <3>4 DEF Waiting, DueAtOnce
  <2> QED
    BY <2>1, <2>3, <2>4, <2>5, <2>6, DrainWanted
<1> QED
  BY <1>2, <1>3

LEMMA WantedStep ==
    ASSUME ProposalsAssumption, Types, Apart, WaitersAreWanted, Next
    PROVE  WaitersAreWanted'
<1>0. /\ waiters \in [Member -> SUBSET CallEntries] /\ releases \in [Member -> SUBSET Call]
      /\ call \in [Call -> [state : State, at : Member \cup {None},
                            answer : Call \cup {None}]]
  BY DEF Types
<1>1. ASSUME NEW c \in Call, NEW m \in Member, Submit(c, m) PROVE WaitersAreWanted'
  BY <1>1, SubmitWanted
<1>2. ASSUME NEW m \in Member, Flush(m) PROVE WaitersAreWanted'
  BY <1>2, FlushWanted
<1>3. ASSUME NEW c \in Call, Deadline(c) PROVE WaitersAreWanted'
  <2>1. /\ waiters' = waiters
        /\ call' = [call EXCEPT ![c].state = "timed out"]
        /\ releases' = [releases EXCEPT ![call[c].at] =
              IF \E w \in waiters[call[c].at] : w.call = c THEN @ \cup {c} ELSE @]
    BY <1>3 DEF Deadline
  <2>2. \A d \in Call : d # c => call'[d] = call[d]
    BY <1>0, <2>1, Zenon
  <2>3. ASSUME NEW n \in Member, NEW w \in waiters[n]
        PROVE  Waiting(w.call)' \/ w.call \in releases'[n]
    <3>1. w.call \in Call /\ call[w.call].at = n
      BY WaiterIs
    <3>2. CASE w.call = c
      <4>1. releases'[n] = releases[n] \cup {c}
        BY <1>0, <2>1, <3>1, <3>2
      <4> QED
        BY <3>2, <4>1
    <3>3. CASE w.call # c
      <4>1. releases[n] \subseteq releases'[n]
        BY <1>0, <2>1
      <4> QED
        BY <2>2, <3>1, <3>3, <4>1 DEF WaitersAreWanted, Waiting
    <3> QED
      BY <3>2, <3>3
  <2> QED
    BY <2>1, <2>3 DEF WaitersAreWanted
<1>4. ASSUME NEW m \in Member, Release(m) PROVE WaitersAreWanted'
  <2>1. /\ call' = call
        /\ waiters' = [waiters EXCEPT ![m] = {w \in @ : w.call \notin releases[m]}]
        /\ releases' = [releases EXCEPT ![m] = {}]
    BY <1>4 DEF Release
  <2>2. \A n \in Member : /\ waiters'[n] \subseteq waiters[n]
                          /\ n # m => releases'[n] = releases[n]
    BY <1>0, <2>1
  <2>3. \A w \in waiters'[m] : w.call \notin releases[m]
    BY <1>0, <2>1
  <2> QED
    BY <2>1, <2>2, <2>3 DEF WaitersAreWanted, Waiting
<1>5. ASSUME NEW m \in Member, ApplyRun(m) PROVE WaitersAreWanted'
  <2>1. PICK k, es : Applies(m, k, es)
    BY <1>5, AppliedIs
  <2>2. /\ waiters' = [waiters EXCEPT ![m] = @ \ Resolved(m, es)]
        /\ releases' = releases
        /\ \A c \in Call : (~ \E w \in Woken(m, es) : w.call = c) => call'[c] = call[c]
    BY <2>1 DEF Applies
  <2>3. ASSUME NEW n \in Member, NEW w \in waiters'[n]
        PROVE  Waiting(w.call)' \/ w.call \in releases'[n]
    <3>1. w \in waiters[n] /\ (n = m => w \notin Resolved(m, es))
      BY <1>0, <2>2
    <3>2. w.call \in Call /\ call[w.call].at = n /\ w \in Awaited
      BY <3>1, WaiterIs
    <3>3. ASSUME NEW v \in Woken(m, es), v.call = w.call PROVE FALSE
      <4>1. v \in waiters[m] /\ v \in Resolved(m, es)
        BY DEF Woken, Resolved
      <4>2. v \in Awaited /\ call[v.call].at = m
        BY <4>1, WaiterIs
      <4>3. v = w /\ n = m
        BY <3>2, <3>3, <4>2 DEF Apart, OnceAwaited
      <4> QED
        BY <3>1, <4>1, <4>3
    <3>4. call'[w.call] = call[w.call]
      BY <2>2, <3>2, <3>3
    <3> QED
      BY <2>2, <3>1, <3>4 DEF WaitersAreWanted, Waiting
  <2> QED
    BY <2>3 DEF WaitersAreWanted
<1>6. ASSUME NEW m \in Member, Restart(m) PROVE WaitersAreWanted'
  <2>1. /\ waiters' = [waiters EXCEPT ![m] = {}]
        /\ releases' = [releases EXCEPT ![m] = {}]
        /\ call' = [c \in Call |-> IF Waiting(c) /\ call[c].at = m
                                   THEN [call[c] EXCEPT !.state = "gone"]
                                   ELSE call[c]]
    BY <1>6 DEF Restart
  <2>2. ASSUME NEW n \in Member, NEW w \in waiters'[n]
        PROVE  Waiting(w.call)' \/ w.call \in releases'[n]
    <3>1. n # m /\ w \in waiters[n] /\ releases'[n] = releases[n]
      BY <1>0, <2>1, <2>2
    <3>2. w.call \in Call /\ call[w.call].at = n
      BY <3>1, WaiterIs
    <3>3. call'[w.call] = call[w.call]
      BY <2>1, <3>1, <3>2
    <3> QED
      BY <3>1, <3>3 DEF WaitersAreWanted, Waiting
  <2> QED
    BY <2>2 DEF WaitersAreWanted
<1>7. CASE UNCHANGED <<waiters, releases, call>>
  BY <1>7 DEF WaitersAreWanted, Waiting
<1> QED
  BY <1>1, <1>2, <1>3, <1>4, <1>5, <1>6, <1>7 DEF Next, OnPropose, LoseConnection,
     Commit, LearnCommit, Install, Elect, Believe

----------------------------------------------------------------------------
(* Ids do not run out.                                                     *)

LEMMA Distinct ==
    ASSUME NEW S, NEW s \in Seq(S), \A i, j \in 1..Len(s) : s[i] = s[j] => i = j
    PROVE  IsFiniteSet(ToSet(s)) /\ Cardinality(ToSet(s)) = Len(s)
<1>1. /\ \A i \in 1..Len(s) : s[i] \in ToSet(s)
      /\ \A x \in ToSet(s) : \E i \in 1..Len(s) : x = s[i]
  BY Elements
<1>2. s \in [1..Len(s) -> ToSet(s)]
  BY <1>1
<1>3. s \in Bijection(1..Len(s), ToSet(s))
  BY <1>1, <1>2 DEF Bijection, Injection, Surjection, IsInjective
<1>4. Len(s) \in Nat
  OBVIOUS
<1>5. ExistsBijection(1..Len(s), ToSet(s))
  BY <1>3 DEF ExistsBijection
<1> QED
  BY <1>4, <1>5, FS_CountingElements, FiniteElements

LEMMA DrainedFinite ==
    ASSUME ProposalsAssumption
    PROVE  /\ IsFiniteSet(Drained) /\ Cardinality(Drained) \in Nat
           /\ Cardinality(Drained) <= Cardinality(Call)
<1>1. Drained \subseteq Call
  BY DEF Drained
<1>2. PICK drained : drained = Drained
  OBVIOUS
<1>3. IsFiniteSet(drained) /\ Cardinality(drained) <= Cardinality(Call)
  BY <1>1, <1>2, Bounds, FS_Subset
<1>4. Cardinality(drained) \in Nat
  BY <1>3, FS_CardinalityType
<1> QED
  BY <1>2, <1>3, <1>4

\* The bound of the ids leaves room for another incarnation.
LEMMA CountedSuffice ==
    ASSUME ProposalsAssumption, Types, IdsCounted
    PROVE  IdsSuffice
<1>1. /\ PerIncarnation \in Nat /\ MaxElections \in Nat /\ Cardinality(Call) \in Nat
      /\ Cardinality(Call) + MaxElections <= PerIncarnation
  BY Bounds, FS_CardinalityType
<1>2. SUFFICES ASSUME NEW m \in Member PROVE sequence[m] <= Seed(m)
  BY DEF IdsSuffice
<1>3. incarnation[m] \in Nat /\ sequence[m] \in Nat /\ elections \in Nat
  BY DEF Types
<1>4. PICK drained : drained = Cardinality(Drained)
  OBVIOUS
<1>5. drained \in Nat /\ drained <= Cardinality(Call)
  BY <1>4, DrainedFinite
<1>6. PICK used : used = incarnation[m] * PerIncarnation
  OBVIOUS
<1>7. used \in Nat /\ Seed(m) = used + PerIncarnation
  <2>1. incarnation[m] * PerIncarnation \in Nat
    BY <1>1, <1>3
  <2>2. (incarnation[m] + 1) * PerIncarnation
           = incarnation[m] * PerIncarnation + PerIncarnation
    BY <1>1, <1>3
  <2> QED
    BY <1>6, <2>1, <2>2 DEF Seed
<1>8. elections <= MaxElections /\ sequence[m] <= used + drained + elections
  BY <1>4, <1>6 DEF IdsCounted
<1> QED
  BY <1>1, <1>3, <1>5, <1>7, <1>8

\* What is drained stays so.
LEMMA DrainedGrows ==
    ASSUME ProposalsAssumption, Types, Types', Apart, IdsSuffice, Next
    PROVE  /\ Drained \subseteq Drained'
           /\ \A m \in Member : \A calls, es :
                 Hands(m, calls, es) => ToSet(calls) \subseteq Drained'
<1>1. ASSUME Shrinks PROVE Drained \subseteq Drained'
  <2>1. Batched' \subseteq Batched
    BY <1>1, ShrinksKnown
  <2> QED
    BY <1>1, <2>1 DEF Drained, Shrinks
<1>2. ASSUME NEW c \in Call, NEW m \in Member, Queues(c, m)
      PROVE  Drained \subseteq Drained'
  <2>1. \A d \in Call : d # c => call'[d] = call[d]
    BY <1>2 DEF Queues, Types
  <2>2. ASSUME NEW d \in Call, d \in Batched', d # c PROVE d \in Batched
    <3>1. PICK n \in Member : \E i \in DOMAIN batch'[n] : d = batch'[n][i]
      BY <2>2 DEF Batched, ToSet
    <3>2. PICK i \in DOMAIN batch'[n] : d = batch'[n][i]
      BY <3>1
    <3>3. i \in DOMAIN batch[n] /\ batch'[n][i] = batch[n][i]
      BY <1>2, <2>2, <3>2, QueuesBatch
    <3> QED
      BY <3>2, <3>3, BatchedIs
  <2> QED
    BY <1>2, <2>1, <2>2 DEF Drained, Queues
<1>3. ASSUME NEW m \in Member, NEW calls, NEW es, Hands(m, calls, es)
      PROVE  Drained \subseteq Drained' /\ ToSet(calls) \subseteq Drained'
  <2>1. Batched' \subseteq Batched /\ \A c \in Batched' : c \notin ToSet(calls)
    BY <1>3, HandsKnown
  <2>2. ToSet(calls) \subseteq Call
    BY <1>3, Elements DEF Hands, Fresh
  <2> QED
    BY <1>3, <2>1, <2>2 DEF Drained, Hands
<1>4. ASSUME NEW l \in Member \X Member, NEW es, Takes(l, es)
      PROVE  Drained \subseteq Drained'
  BY <1>4 DEF Takes, Drained, Batched
<1>5. ASSUME NEW kept, NEW t, NEW own, Elects(kept, t, own)
      PROVE  Drained \subseteq Drained'
  BY <1>5 DEF Elects, Drained, Batched
<1>6. Drained \subseteq Drained'
  BY StepIs, <1>1, <1>2, <1>3, <1>4, <1>5
<1> QED
  BY <1>3, <1>6

LEMMA CountedStep ==
    ASSUME ProposalsAssumption, Types, Types', Apart, IdsCounted, Next
    PROVE  IdsCounted'
<1>0. IdsSuffice
  BY CountedSuffice
<1>1. PICK old : old = Drained
  OBVIOUS
<1>2. PICK new : new = Drained'
  OBVIOUS
<1>3. /\ old \subseteq new /\ IsFiniteSet(old) /\ Cardinality(old) \in Nat
  BY <1>0, <1>1, <1>2, DrainedGrows, DrainedFinite
<1>4. IsFiniteSet(new) /\ Cardinality(new) \in Nat
  <2>1. new \subseteq Call
    BY <1>2 DEF Drained
  <2>2. IsFiniteSet(new)
    BY <2>1, Bounds, FS_Subset
  <2> QED
    BY <2>2, FS_CardinalityType
<1>5. Cardinality(old) <= Cardinality(new)
  BY <1>3, <1>4, FS_Subset
<1>6. /\ sequence \in [Member -> Nat] /\ incarnation \in [Member -> Nat]
      /\ sequence' \in [Member -> Nat] /\ incarnation' \in [Member -> Nat]
      /\ elections \in Nat /\ elections' \in Nat
      /\ PerIncarnation \in Nat /\ MaxElections \in Nat
  BY Bounds DEF Types
<1>7. /\ elections <= MaxElections
      /\ \A n \in Member :
            sequence[n] <= incarnation[n] * PerIncarnation + Cardinality(old) + elections
  BY <1>1 DEF IdsCounted
<1>8. SUFFICES /\ elections' <= MaxElections
               /\ \A n \in Member :
                     sequence'[n] <= incarnation'[n] * PerIncarnation
                                        + Cardinality(new) + elections'
  BY <1>2 DEF IdsCounted
<1>9. CASE UNCHANGED <<sequence, incarnation, elections>>
  <2>1. ASSUME NEW n \in Member
        PROVE  sequence[n] <= incarnation[n] * PerIncarnation
                                 + Cardinality(new) + elections
    <3>1. PICK used : used = incarnation[n] * PerIncarnation
      OBVIOUS
    <3>2. used \in Nat
      BY <1>6, <3>1
    <3>3. sequence[n] <= used + Cardinality(old) + elections /\ sequence[n] \in Nat
      BY <1>6, <1>7, <3>1
    <3>4. sequence[n] <= used + Cardinality(new) + elections
      BY <1>3, <1>4, <1>5, <1>6, <3>2, <3>3
    <3> QED
      BY <3>1, <3>4
  <2> QED
    BY <1>7, <1>9, <2>1
<1>10. ASSUME NEW m \in Member, NEW calls, NEW es, Hands(m, calls, es),
              UNCHANGED <<incarnation, elections>>
       PROVE  \A n \in Member :
                 sequence'[n] <= incarnation[n] * PerIncarnation
                                    + Cardinality(new) + elections
  <2>1. PICK part : part = ToSet(calls)
    OBVIOUS
  <2>2. IsFiniteSet(part) /\ Cardinality(part) = Len(calls) /\ Len(calls) \in Nat
    BY <1>10, <2>1, Distinct DEF Hands, Fresh
  <2>3. part \subseteq new
    BY <1>0, <1>2, <1>10, <2>1, DrainedGrows
  <2>4. old \cap part = {}
    BY <1>1, <1>10, <2>1 DEF Hands
  <2>5. Cardinality(old \cup part) = Cardinality(old) + Len(calls)
    <3>1. Cardinality(old \cup part)
             = Cardinality(old) + Cardinality(part) - Cardinality(old \cap part)
      BY <1>3, <2>2, FS_Union
    <3>2. Cardinality(old \cap part) = 0
      BY <2>4, FS_EmptySet
    <3> QED
      BY <1>3, <2>2, <3>1, <3>2
  <2>6. Cardinality(old) + Len(calls) <= Cardinality(new)
    <3>1. PICK both : both = old \cup part
      OBVIOUS
    <3>2. Cardinality(both) <= Cardinality(new)
      BY <1>3, <1>4, <2>3, <3>1, FS_Subset
    <3> QED
      BY <2>5, <3>1, <3>2
  <2>7. /\ sequence'[m] = sequence[m] + Len(calls)
        /\ \A n \in Member : n # m => sequence'[n] = sequence[n]
    BY <1>6, <1>10 DEF Hands
  <2> SUFFICES ASSUME NEW n \in Member
               PROVE  sequence'[n] <= incarnation[n] * PerIncarnation
                                         + Cardinality(new) + elections
    OBVIOUS
  <2>8. PICK used : used = incarnation[n] * PerIncarnation
    OBVIOUS
  <2>9. used \in Nat
    BY <1>6, <2>8
  <2>10. sequence[n] <= used + Cardinality(old) + elections /\ sequence[n] \in Nat
    BY <1>6, <1>7, <2>8
  <2>11. sequence'[n] = sequence[n] \/ sequence'[n] = sequence[n] + Len(calls)
    BY <2>7
  <2>12. sequence'[n] <= used + Cardinality(new) + elections
    <3>1. CASE sequence'[n] = sequence[n]
      BY <1>3, <1>4, <1>5, <1>6, <2>9, <2>10, <3>1
    <3>2. CASE sequence'[n] = sequence[n] + Len(calls)
      <4>1. PICK o \in Nat, w \in Nat, k \in Nat, e \in Nat :
               /\ o = Cardinality(old) /\ w = Cardinality(new)
               /\ k = Len(calls) /\ e = elections
        BY <1>3, <1>4, <1>6, <2>2
      <4>2. o + k <= w
        BY <2>6, <4>1
      <4>3. PICK s \in Nat : s = sequence[n] /\ s <= used + o + e
        BY <2>10, <4>1
      <4>4. s + k <= used + w + e
        BY <2>9, <4>2, <4>3
      <4>5. QED
        BY <3>2, <4>1, <4>3, <4>4
    <3> QED
      BY <2>11, <3>1, <3>2
  <2> QED
    BY <2>8, <2>12
<1>11. ASSUME NEW c \in Call, NEW m \in Member, Submit(c, m)
       PROVE  \/ UNCHANGED <<sequence, incarnation, elections>>
              \/ /\ UNCHANGED <<incarnation, elections>>
                 /\ \E calls, es : Hands(m, calls, es)
  <2>1. UNCHANGED <<incarnation, elections>>
    BY <1>11 DEF Submit, bounds
  <2> QED
    BY <1>11, <2>1, SubmitIs DEF Queues, Apart
<1>12. ASSUME NEW m \in Member, Flush(m)
       PROVE  \/ UNCHANGED <<sequence, incarnation, elections>>
              \/ /\ UNCHANGED <<incarnation, elections>>
                 /\ \E calls, es : Hands(m, calls, es)
  <2>1. UNCHANGED <<incarnation, elections>>
    BY <1>12 DEF Flush, bounds
  <2> QED
    BY <1>12, <2>1, FlushIs DEF Apart
<1>13. ASSUME NEW m \in Member, Elect(m)
       PROVE  /\ elections' <= MaxElections
              /\ \A n \in Member :
                    sequence'[n] <= incarnation'[n] * PerIncarnation
                                       + Cardinality(new) + elections'
  <2>1. /\ elections < MaxElections /\ elections' = elections + 1
        /\ incarnation' = incarnation
        /\ sequence' = [sequence EXCEPT ![m] = @ + 1]
    BY <1>13 DEF Elect
  <2>2. elections' <= MaxElections
    BY <1>6, <2>1
  <2>3. ASSUME NEW n \in Member
        PROVE  sequence'[n] <= incarnation[n] * PerIncarnation
                                  + Cardinality(new) + elections'
    <3>1. PICK used : used = incarnation[n] * PerIncarnation
      OBVIOUS
    <3>2. used \in Nat
      BY <1>6, <3>1
    <3>3. sequence[n] <= used + Cardinality(old) + elections /\ sequence[n] \in Nat
      BY <1>6, <1>7, <3>1
    <3>4. sequence'[n] = sequence[n] \/ sequence'[n] = sequence[n] + 1
      BY <1>6, <2>1
    <3>5. sequence'[n] <= used + Cardinality(new) + elections'
      BY <1>3, <1>4, <1>5, <1>6, <2>1, <3>2, <3>3, <3>4
    <3> QED
      BY <3>1, <3>5
  <2> QED
    BY <2>1, <2>2, <2>3
<1>14. ASSUME NEW m \in Member, Restart(m)
       PROVE  /\ elections' <= MaxElections
              /\ \A n \in Member :
                    sequence'[n] <= incarnation'[n] * PerIncarnation
                                       + Cardinality(new) + elections'
  <2>1. elections' = elections /\ incarnation' = [incarnation EXCEPT ![m] = @ + 1]
    BY <1>14 DEF Restart
  <2>2. sequence' = [sequence EXCEPT ![m] = Seed(m)]
    BY <1>14 DEF Restart
  <2>3. ASSUME NEW n \in Member
        PROVE  sequence'[n] <= incarnation'[n] * PerIncarnation
                                  + Cardinality(new) + elections
    <3>1. PICK used : used = incarnation'[n] * PerIncarnation
      OBVIOUS
    <3>2. used \in Nat
      BY <1>6, <3>1
    <3>3. CASE n = m
      <4>1. incarnation'[n] = incarnation[n] + 1 /\ sequence'[n] = Seed(n)
        BY <1>6, <2>1, <2>2, <3>3
      <4>2. sequence'[n] = used
        BY <3>1, <4>1 DEF Seed
      <4>3. used <= used + Cardinality(new) + elections
        BY <1>4, <1>6, <3>2
      <4> QED
        BY <3>1, <4>2, <4>3
    <3>4. CASE n # m
      <4>1. incarnation'[n] = incarnation[n] /\ sequence'[n] = sequence[n]
        BY <1>6, <2>1, <2>2, <3>4
      <4>2. sequence[n] <= used + Cardinality(old) + elections /\ sequence[n] \in Nat
        BY <1>6, <1>7, <3>1, <4>1
      <4>3. sequence[n] <= used + Cardinality(new) + elections
        BY <1>3, <1>4, <1>5, <1>6, <3>2, <4>2
      <4> QED
        BY <3>1, <4>1, <4>3
    <3> QED
      BY <3>3, <3>4
  <2> QED
    BY <1>7, <2>1, <2>3
<1>15. ASSUME UNCHANGED <<incarnation, elections>>, NEW m \in Member,
              \E calls, es : Hands(m, calls, es)
       PROVE  /\ elections' <= MaxElections
              /\ \A n \in Member :
                    sequence'[n] <= incarnation'[n] * PerIncarnation
                                       + Cardinality(new) + elections'
  BY <1>7, <1>10, <1>15
<1> QED
  BY <1>9, <1>11, <1>12, <1>13, <1>14, <1>15 DEF Next, Deadline, Release, OnPropose,
     LoseConnection, Commit, LearnCommit, ApplyRun, Install, Believe, bounds

----------------------------------------------------------------------------
(* The theorem.                                                            *)

IInv == Inv /\ IdsCounted

LEMMA InitInv == ASSUME ProposalsAssumption PROVE Init => IInv
<1> SUFFICES ASSUME Init PROVE IInv
  OBVIOUS
<1>1. /\ leader = None /\ believes = [m \in Member |-> None] /\ log = <<>>
      /\ committed = 0 /\ floating = {}
      /\ incarnation = [m \in Member |-> 1]
      /\ sequence = [m \in Member |-> PerIncarnation]
      /\ batch = [m \in Member |-> <<>>]
      /\ scheduled = [m \in Member |-> FALSE]
      /\ flushes = [m \in Member |-> 0]
      /\ waiters = [m \in Member |-> {}]
      /\ releases = [m \in Member |-> {}]
      /\ inbox = [l \in Member \X Member |-> <<>>]
      /\ call = [c \in Call |-> [state |-> "idle", at |-> None, answer |-> None]]
      /\ commit = [m \in Member |-> 0] /\ applied = [m \in Member |-> 0]
      /\ store = [m \in Member |-> <<>>]
      /\ elections = 0
  BY DEF Init, After
<1>2. Types
  <2>1. committed \in 0..Len(log) /\ log \in Seq(Entries)
    BY <1>1
  <2>2. sequence \in [Member -> Nat]
    BY <1>1, Bounds
  <2>3. floating \in SUBSET Entries /\ IsFiniteSet(floating)
    BY <1>1, FS_EmptySet
  <2>4. call \in [Call -> [state : State, at : Member \cup {None},
                           answer : Call \cup {None}]]
    BY <1>1 DEF State
  <2>5. inbox \in [Member \X Member -> Seq(Seq(CallEntries))]
    BY <1>1
  <2> QED
    BY <1>1, <2>1, <2>2, <2>3, <2>4, <2>5 DEF Types
<1>3. /\ \A l \in Member \X Member : DOMAIN inbox[l] = {}
      /\ \A m \in Member : DOMAIN batch[m] = {} /\ batch[m] = <<>> /\ waiters[m] = {}
      /\ Len(log) = 0 /\ ToSet(log) = {}
  BY <1>1 DEF ToSet
<1>4. Sent = {} /\ Awaited = {} /\ Batched = {}
  BY <1>3 DEF Sent, InBox, Awaited, Batched, ToSet
<1>5. Known = {}
  BY <1>1, <1>3, <1>4 DEF Known
<1>6. OnePlace
  <2>1. OnceInLog /\ OnceLeft /\ LeftNotInLog
    BY <1>1, <1>3 DEF OnceInLog, ProposedOnce, OnceLeft, LeftNotInLog
  <2>2. OnceSent /\ OnceBatched
    BY <1>3 DEF OnceSent, OnceBatched
  <2>3. SentNotTaken /\ BatchedUnknown /\ IdleNowhere
    BY <1>4, <1>5 DEF SentNotTaken, BatchedUnknown, IdleNowhere
  <2> QED
    BY <2>1, <2>2, <2>3 DEF OnePlace
<1>7. IdsBehind /\ IdsUnique
  BY <1>5 DEF IdsBehind, IdsUnique
<1>8. OnceAwaited /\ AwaitedAt /\ WaitersAreWanted
  BY <1>3, <1>4 DEF OnceAwaited, AwaitedAt, WaitersAreWanted
<1>9. Ordered
  BY <1>1 DEF Ordered
<1>10. Due
  BY <1>1 DEF Due
<1>11. StoreIsCommitted
  <2>1. PICK none : none = SubSeq(log, 1, 0)
    OBVIOUS
  <2>2. none \in Seq(Entries) /\ Len(none) = 0
    <3>1. log \in Seq(Entries) /\ 0 \in 0..Len(log) /\ ~(1 <= 0) /\ 1 \in Nat /\ 1 >= 1
      BY <1>1
    <3> QED
      BY <2>1, <3>1, ElementsOfPart
  <2>3. SubSeq(log, 1, 0) = <<>>
    BY <2>1, <2>2, EmptySeq
  <2> QED
    BY <1>1, <2>3 DEF StoreIsCommitted
<1>12. AnsweredTruly
  BY <1>1 DEF AnsweredTruly
<1>13. IdsCounted
  <2>1. PerIncarnation \in Nat /\ MaxElections \in Nat
    BY Bounds
  <2>2. elections <= MaxElections
    BY <1>1, <2>1
  <2>3. ASSUME NEW m \in Member
        PROVE  sequence[m] <= incarnation[m] * PerIncarnation
                                 + Cardinality(Drained) + elections
    <3>1. PICK drained : drained = Cardinality(Drained)
      OBVIOUS
    <3>2. drained \in Nat
      BY <3>1, DrainedFinite
    <3>3. sequence[m] = PerIncarnation /\ incarnation[m] = 1
      BY <1>1
    <3>4. 1 * PerIncarnation = PerIncarnation
      BY <2>1
    <3>5. PerIncarnation <= PerIncarnation + drained + 0
      BY <2>1, <3>2
    <3> QED
      BY <1>1, <3>1, <3>3, <3>4, <3>5
  <2> QED
    BY <2>2, <2>3 DEF IdsCounted
<1> QED
  BY <1>2, <1>6, <1>7, <1>8, <1>9, <1>10, <1>11, <1>12, <1>13 DEF IInv, Inv, Apart

LEMMA StepInv == ASSUME ProposalsAssumption PROVE IInv /\ [Next]_vars => IInv'
<1> SUFFICES ASSUME IInv, [Next]_vars PROVE IInv'
  OBVIOUS
<1>1. /\ Types /\ Ordered /\ Apart /\ WaitersAreWanted /\ Due
      /\ StoreIsCommitted /\ AnsweredTruly /\ IdsCounted
  BY DEF IInv, Inv
<1>2. CASE Next
  <2>1. IdsSuffice
    BY <1>1, CountedSuffice
  <2>2. Types' /\ Stays
    BY <1>1, <1>2, StepTyped
  <2>3. Apart'
    BY <1>1, <1>2, <2>1, <2>2, ApartStep
  <2>4. Ordered' /\ StoreIsCommitted'
    BY <1>1, <1>2, <2>2, AppliedStep
  <2>5. AnsweredTruly'
    BY <1>1, <1>2, <2>2, AnswersStep
  <2>6. Due'
    BY <1>1, <1>2, DueStep
  <2>7. WaitersAreWanted'
    BY <1>1, <1>2, WantedStep
  <2>8. IdsCounted'
    BY <1>1, <1>2, <2>2, CountedStep
  <2> QED
    BY <2>2, <2>3, <2>4, <2>5, <2>6, <2>7, <2>8 DEF IInv, Inv
<1>3. CASE UNCHANGED vars
  <2>1. Types' /\ Ordered' /\ Due' /\ StoreIsCommitted' /\ AnsweredTruly'
        /\ WaitersAreWanted'
    BY <1>1, <1>3 DEF Types, Ordered, Due, StoreIsCommitted, AnsweredTruly,
       WaitersAreWanted, Waiting, vars, batcher, member, bounds
  <2>2. /\ Known' = Known /\ Sent' = Sent /\ Awaited' = Awaited /\ Batched' = Batched
        /\ Drained' = Drained
    BY <1>3 DEF Known, Sent, Awaited, Batched, Drained, vars, batcher
  <2>3. IdsBehind' /\ IdsUnique' /\ OnceAwaited' /\ AwaitedAt'
    BY <1>1, <1>3, <2>2 DEF Apart, IdsBehind, IdsUnique, OnceAwaited, AwaitedAt, vars,
       batcher
  <2>4. OnceInLog' /\ OnceLeft' /\ LeftNotInLog' /\ OnceSent'
    BY <1>1, <1>3 DEF Apart, OnePlace, OnceInLog, ProposedOnce, OnceLeft, LeftNotInLog,
       OnceSent, vars
  <2>5. SentNotTaken' /\ OnceBatched' /\ BatchedUnknown' /\ IdleNowhere'
    BY <1>1, <1>3, <2>2 DEF Apart, OnePlace, SentNotTaken, OnceBatched, BatchedUnknown,
       IdleNowhere, vars, batcher
  <2>6. IdsCounted'
    BY <1>1, <1>3, <2>2 DEF IdsCounted, vars, bounds
  <2> QED
    BY <2>1, <2>3, <2>4, <2>5, <2>6 DEF IInv, Inv, Apart, OnePlace
<1> QED
  BY <1>2, <1>3

LEMMA InvImplies == IInv => CallsAreAnswered
<1> SUFFICES ASSUME IInv PROVE CallsAreAnswered
  OBVIOUS
<1>1. TypeOK
  BY DEF IInv, Inv, Types, Ordered, TypeOK
<1>2. BatchIsScheduled
  BY DEF IInv, Inv, Due, BatchIsScheduled
<1>3. ProposedOnce
  BY DEF IInv, Inv, Apart, OnePlace, OnceInLog
<1> QED
  BY <1>1, <1>2, <1>3 DEF IInv, Inv, CallsAreAnswered

\* No member ever runs out of the ids of its incarnation
\* (PROPOSALS_PER_INCARNATION): what a restart seeds is beyond every id used.
THEOREM IdsNeverRunOut == ASSUME ProposalsAssumption PROVE Spec => []IdsSuffice
<1>1. IInv => IdsSuffice
  BY CountedSuffice DEF IInv, Inv
<1> QED
  BY <1>1, InitInv, StepInv, PTL DEF Spec

\* Every caller of propose is answered with the outcome of its own operation,
\* and only once that is committed; an operation is in the log at most once
\* whatever leaders come and go, messages are lost and members restart; a
\* member's store is a part of what is committed; a batch has its flush due, and
\* a waiter whose call has ended its release (ProposalBatcher,
\* RaftNode.propose, on_propose, _apply_committed, _resolve, _wait_for).
THEOREM CallsAnswered == ASSUME ProposalsAssumption PROVE Spec => []CallsAreAnswered
  BY InitInv, StepInv, InvImplies, PTL DEF Spec
=============================================================================
