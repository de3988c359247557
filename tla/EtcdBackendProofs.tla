-------------------------- MODULE EtcdBackendProofs --------------------------
(***************************************************************************)
(* Proofs about EtcdBackend, for any number of members, mutations and      *)
(* versions, with faults and compaction: what a store holds is what etcd   *)
(* held; as long as no commit has replaced a version by an earlier one,    *)
(* the store is etcd's state, and its refusals are true.                   *)
(*                                                                         *)
(* Every step leaves etcd's history alone or adds one state that Follows   *)
(* (LogStep); the watch then applies what Follows (AppliesAll).            *)
(***************************************************************************)
EXTENDS EtcdBackend, TLAPS

-----------------------------------------------------------------------------
(* The inductive invariant.                                                *)

Value == [mod : Nat, ver : Nat, lease : Nat]
State == [Keys -> Value]

(* kv may be etcd's state at revision i, when g leases were granted.       *)
StateOK(kv, i, g) ==
    \A k \in Keys :
        /\ kv[k].mod \in 0 .. i /\ kv[k].ver \in 0 .. MaxVersion
        /\ kv[k].lease \in 0 .. g
        /\ kv[k].mod # 0 <=> kv[k].ver # 0

Pc == {"idle", "catchup", "behind", "grant", "read", "reply", "fence", "txn",
       "commit", "keepalive", "answered"}

Mutations == [kind : {"idle", "register", "unregister", "heartbeat"},
              at : Members, res : Resources, ver : 0 .. MaxVersion, pc : Pc,
              lease : Nat, path : {"none", "fast", "fenced"}, from : Nat \ {0},
              rev : Nat, key : Nat, claim : Nat,
              answer : {"none", "ok", "gone", "rejected", "unavailable", "error"}]

(* o may be a mutation at revision n, when g leases were granted.  What it *)
(* waits for is not before it began.                                       *)
MutationOK(o, n, g) ==
    /\ o \in Mutations
    /\ o.lease <= g /\ o.from <= n /\ o.rev <= n
    /\ o.kind = "register" => o.ver # 0
    /\ o.pc \in {"behind", "reply", "fence"} => o.from <= o.rev
    /\ o.pc = "reply" => o.rev # 0
    /\ o.pc = "keepalive" => o.kind # "unregister"
    /\ o.kind = "unregister" => <<"unregister", o.res>> \in Requests

HistoryOK ==
    /\ log \in Seq(State) /\ Len(log) # 0
    /\ granted \in Nat /\ alive \subseteq 1 .. granted
    /\ \A i \in 1 .. Len(log) : StateOK(log[i], i, granted)

MembersOK ==
    /\ view \in [Members -> 1 .. Revision]
    /\ store \in [Members -> [Resources -> 0 .. MaxVersion]]
    /\ fence \in [Members -> 1 .. Revision]
    /\ \A m \in Members : fence[m] <= view[m]
    /\ believed \in [Members -> [Keys -> 0 .. Revision]]
    /\ table \in [Members -> 0 .. granted]
    /\ ready \in [Members -> BOOLEAN]
    /\ watching \in [Members -> {"up", "down", "ended"}]

OpsOK ==
    /\ op \in [Slots -> Mutations]
    /\ \A s \in Slots : MutationOK(op[s], Revision, granted)

Types == HistoryOK /\ MembersOK /\ OpsOK

(* A resource that is written has its parent: new after old.               *)
Placed2(old, new) ==
    \A r \in Resources \ {Node} :
        new[Key(r)] # old[Key(r)] /\ new[Key(r)].mod # 0 => old[Key(Parent(r))].mod # 0

Rooted == \A i \in 1 .. Revision - 1 : Placed2(log[i], log[i + 1])

Inv == Types /\ Rooted /\ PresenceIsReplicated

(* Every refusal there is, is true.                                        *)
Refusals == \A s \in DOMAIN op : RefusalIsTrue(op[s])

(* RefusalIsTrue of etcd's history lg.                                     *)
True(o, lg) ==
    /\ o.pc = "answered" /\ o.answer = "rejected" =>
         \E i \in o.from .. Len(lg) :
            \/ o.res # Node /\ lg[i][Key(Parent(o.res))].mod = 0
            \/ lg[i][Key(o.res)].ver > o.ver
    /\ o.pc = "answered" /\ o.answer = "gone" /\ o.kind = "unregister" =>
         \E i \in o.from .. Len(lg) : lg[i][Key(o.res)].mod = 0

-----------------------------------------------------------------------------
(* The tree and its keys.                                                  *)

LEMMA KeyFacts ==
    /\ \A r \in Resources : Key(r) \in Keys /\ Claim(r) \in Keys
    /\ \A r, q \in Resources : (Key(r) = Key(q) => r = q) /\ Key(r) # Claim(q)
    /\ Node \in Resources /\ Device \in Resources /\ Node # Device
    /\ \A r \in Resources : Parent(r) \in Resources
BY EtcdConstants DEF Keys, Key, Claim, Resources, Parent

LEMMA ParentFacts ==
    /\ Parent(Device) = Node
    /\ \A r \in Leaves : Parent(r) = Device /\ r # Node /\ r # Device
BY EtcdConstants DEF Parent

LEMMA IdleOK ==
    ASSUME NEW n \in Nat \ {0}, NEW g \in Nat
    PROVE  MutationOK(Idle, n, g)
<1>1. (CHOOSE m \in Members : TRUE) \in Members
  BY EtcdConstants
<1>2. Node \in Resources /\ MaxVersion \in Nat
  BY KeyFacts, EtcdConstants
<1>3. Idle \in Mutations
  BY <1>1, <1>2 DEF Idle, Mutations, Pc
<1>4. QED
  BY <1>3 DEF MutationOK, Idle

LEMMA Later ==
    ASSUME NEW o, NEW n \in Nat, NEW g \in Nat, NEW x \in Nat, NEW y \in Nat,
           n <= x, g <= y, MutationOK(o, n, g)
    PROVE  MutationOK(o, x, y)
BY DEF MutationOK, Mutations

-----------------------------------------------------------------------------
(* A mutation between awaits.                                              *)

LEMMA AnsweredOK ==
    ASSUME NEW o, NEW n \in Nat, NEW g \in Nat, MutationOK(o, n, g),
           NEW a \in {"ok", "gone", "rejected", "unavailable", "error"}
    PROVE  MutationOK(Answered(o, a), n, g)
BY DEF MutationOK, Mutations, Answered, Pc

LEMMA SubmitOK ==
    ASSUME NEW o, NEW n \in Nat, NEW g \in Nat, MutationOK(o, n, g),
           NEW path \in {"fast", "fenced"}, NEW b \in [Keys -> Nat]
    PROVE  MutationOK(Submit(o, path, b), n, g) /\ Submit(o, path, b).pc = "txn"
<1>1. b[Key(o.res)] \in Nat /\ b[Claim(o.res)] \in Nat
  BY KeyFacts DEF MutationOK, Mutations
<1>2. QED
  BY <1>1 DEF MutationOK, Mutations, Submit, Pc

LEMMA FastPathOK ==
    ASSUME Types, NEW m \in Members, NEW o, NEW g \in Nat,
           MutationOK(o, Revision, g), o.pc # "answered"
    PROVE  /\ MutationOK(TryFastPath(m, o), Revision, g)
           /\ TryFastPath(m, o).pc # "answered"
<1>1. Revision \in Nat
  BY DEF Types, HistoryOK, Revision
<1>2. believed[m] \in [Keys -> Nat]
  BY <1>1 DEF Types, MembersOK
<1>3. PICK x : x = Submit(o, "fast", believed[m])
  OBVIOUS
<1>4. MutationOK(x, Revision, g) /\ x.pc = "txn"
  BY <1>1, <1>2, <1>3, SubmitOK
<1>5. PICK y : y = [o EXCEPT !.pc = "read"]
  OBVIOUS
<1>6. MutationOK(y, Revision, g) /\ y.pc = "read"
  BY <1>5 DEF MutationOK, Mutations, Pc
<1>7. TryFastPath(m, o) = x \/ TryFastPath(m, o) = y
  BY <1>3, <1>5 DEF TryFastPath
<1>8. QED
  BY <1>4, <1>6, <1>7

(* A mutation that goes on, or that is refused for a reason.               *)
Decided(o) == MutationOK(o, Revision, granted) /\ True(o, log)

LEMMA GoingOn ==
    ASSUME NEW o, MutationOK(o, Revision, granted), o.pc # "answered"
    PROVE  Decided(o)
BY DEF Decided, True

LEMMA RefusedFor ==
    ASSUME Types, NEW o, MutationOK(o, Revision, granted), NEW i \in o.from .. Revision,
           NEW a \in {"gone", "rejected", "unavailable", "ok"},
           a = "rejected" => \/ o.res # Node /\ log[i][Key(Parent(o.res))].mod = 0
                             \/ log[i][Key(o.res)].ver > o.ver,
           a = "gone" /\ o.kind = "unregister" => log[i][Key(o.res)].mod = 0
    PROVE  Decided(Answered(o, a))
<1>1. Revision \in Nat /\ granted \in Nat
  BY DEF Types, HistoryOK, Revision
<1>2. MutationOK(Answered(o, a), Revision, granted)
  BY <1>1, AnsweredOK
<1>3. PICK x : x = Answered(o, a)
  OBVIOUS
<1>4. /\ x.from = o.from /\ x.res = o.res /\ x.kind = o.kind /\ x.ver = o.ver
      /\ x.answer = a
  BY <1>3 DEF Answered, MutationOK, Mutations
<1>5. True(x, log)
  BY <1>4 DEF True, Revision
<1>6. QED
  BY <1>2, <1>3, <1>5 DEF Decided

LEMMA StoreTells ==
    ASSUME Types, PresenceIsReplicated, NEW m \in Members, NEW r \in Resources
    PROVE  /\ view[m] \in 1 .. Revision /\ Revision \in Nat /\ granted \in Nat
           /\ store[m][r] = 0 <=> log[view[m]][Key(r)].mod = 0
           /\ StoreIsReplica => store[m][r] = log[view[m]][Key(r)].ver
           /\ store[m][r] \in Nat /\ table[m] \in 0 .. granted
<1>1. MaxVersion \in Nat
  BY EtcdConstants
<1>2. QED
  BY <1>1 DEF Types, HistoryOK, MembersOK, PresenceIsReplicated, Held, StoreIsReplica, Revision

(* A fence that has been reached is one the store has reached.             *)
LEMMA FenceTells ==
    ASSUME Types, NEW m \in Members
    PROVE  fence[m] \in Nat /\ view[m] \in Nat /\ fence[m] <= view[m]
BY DEF Types, MembersOK

(* A registration that waits for nothing, or has caught up.                *)
LEMMA PlacedDecided ==
    ASSUME Types, PresenceIsReplicated, NEW m \in Members, NEW o,
           MutationOK(o, Revision, granted), o.pc # "answered",
           Unplaced(m, o.res) => o.from <= view[m]
    PROVE  Decided(Placed(m, o))
<1>1. o.res \in Resources /\ Revision \in Nat /\ granted \in Nat /\ o.from \in Nat
  BY DEF MutationOK, Mutations, Types, HistoryOK, Revision
<1>2. CASE Unplaced(m, o.res)
  <2>1. Parent(o.res) = Device /\ o.res # Node /\ store[m][Device] = 0
    BY <1>2, ParentFacts DEF Unplaced
  <2>2. view[m] \in o.from .. Revision /\ log[view[m]][Key(Device)].mod = 0
    BY <1>1, <1>2, <2>1, KeyFacts, StoreTells
  <2>3. Decided(Answered(o, "rejected"))
    BY <2>1, <2>2, RefusedFor
  <2> QED
    BY <1>2, <2>3 DEF Placed
<1>3. CASE ~Unplaced(m, o.res) /\ o.res = Node /\ table[m] = 0
  <2>1. PICK x : x = [o EXCEPT !.pc = "grant"]
    OBVIOUS
  <2>2. MutationOK(x, Revision, granted) /\ x.pc = "grant"
    BY <2>1 DEF MutationOK, Mutations, Pc
  <2>3. Placed(m, o) = x
    BY <1>3, <2>1 DEF Placed
  <2> QED
    BY <2>2, <2>3, GoingOn
<1>4. CASE ~Unplaced(m, o.res) /\ ~(o.res = Node /\ table[m] = 0)
  <2>1. PICK x : x = [o EXCEPT !.lease = table[m]]
    OBVIOUS
  <2>2. table[m] \in 0 .. granted
    BY DEF Types, MembersOK
  <2>3. MutationOK(x, Revision, granted) /\ x.pc = o.pc
    BY <1>1, <2>1, <2>2 DEF MutationOK, Mutations
  <2>4. PICK y : y = TryFastPath(m, x)
    OBVIOUS
  <2>5. MutationOK(y, Revision, granted) /\ y.pc # "answered"
    BY <1>1, <2>3, <2>4, FastPathOK
  <2>6. Placed(m, o) = y
    BY <1>4, <2>1, <2>4 DEF Placed
  <2> QED
    BY <2>5, <2>6, GoingOn
<1>5. QED
  BY <1>2, <1>3, <1>4

LEMMA ValidatedDecided ==
    ASSUME Types, PresenceIsReplicated, NEW m \in Members, NEW o,
           MutationOK(o, Revision, granted), o.from <= view[m],
           NEW b \in [Keys -> Nat]
    PROVE  /\ MutationOK(Validated(m, o, b), Revision, granted)
           /\ StoreIsReplica => Decided(Validated(m, o, b))
<1>1. /\ o.res \in Resources /\ Revision \in Nat /\ granted \in Nat /\ o.from \in Nat
      /\ Parent(o.res) \in Resources /\ view[m] \in o.from .. Revision
      /\ o.ver \in Nat
  BY KeyFacts, StoreTells, EtcdConstants DEF MutationOK, Mutations
<1>2. CASE ~Prepare(m, o.res, o.ver)
  <2>1. Validated(m, o, b) = Answered(o, "rejected")
    BY <1>2 DEF Validated
  <2>2. MutationOK(Answered(o, "rejected"), Revision, granted)
    BY <1>1, AnsweredOK
  <2>3. ASSUME StoreIsReplica
        PROVE  Decided(Answered(o, "rejected"))
    <3>1. \/ o.res # Node /\ store[m][Parent(o.res)] = 0
          \/ store[m][o.res] > o.ver
      BY <1>1, <1>2, StoreTells DEF Prepare, PrepareIn
    <3>2. \/ o.res # Node /\ log[view[m]][Key(Parent(o.res))].mod = 0
          \/ log[view[m]][Key(o.res)].ver > o.ver
      BY <1>1, <2>3, <3>1, StoreTells
    <3> QED
      BY <1>1, <3>2, RefusedFor
  <2> QED
    BY <2>1, <2>2, <2>3
<1>3. CASE Prepare(m, o.res, o.ver)
  <2>1. PICK x : x = [o EXCEPT !.lease = table[m]]
    OBVIOUS
  <2>2. table[m] \in 0 .. granted
    BY DEF Types, MembersOK
  <2>3. MutationOK(x, Revision, granted)
    BY <1>1, <2>1, <2>2 DEF MutationOK, Mutations
  <2>4. PICK y : y \in {Submit(o, "fenced", b), Submit(x, "fenced", b)} /\
                 (y = Validated(m, o, b) \/ Validated(m, o, b) = Answered(o, "unavailable"))
    BY <1>3, <2>1 DEF Validated
  <2>5. MutationOK(y, Revision, granted) /\ y.pc = "txn"
    BY <1>1, <2>3, <2>4, SubmitOK
  <2>6. Decided(y)
    BY <2>5, GoingOn
  <2>7. Decided(Answered(o, "unavailable"))
    BY <1>1, RefusedFor
  <2> QED
    BY <2>4, <2>6, <2>7 DEF Decided
<1>4. QED
  BY <1>2, <1>3
LEMMA CaughtUpDecided ==
    ASSUME Types, PresenceIsReplicated, NEW m \in Members, NEW o,
           MutationOK(o, Revision, granted), o.pc # "answered",
           MustCatchUp(m, o) => o.from <= view[m]
    PROVE  /\ MutationOK(CaughtUp(m, o), Revision, granted)
           /\ DeletesAreSafe => Decided(CaughtUp(m, o))
<1>1. /\ o.res \in Resources /\ Revision \in Nat /\ granted \in Nat /\ o.from \in Nat
      /\ view[m] \in 1 .. Revision /\ Revision \in o.from .. Revision
  BY StoreTells, KeyFacts DEF MutationOK, Mutations
<1>2. CASE o.kind = "register"
  <2>1. Decided(Placed(m, o))
    BY <1>2, PlacedDecided DEF MustCatchUp
  <2> QED
    BY <1>2, <2>1 DEF CaughtUp, Decided
<1>3. CASE o.kind = "unregister" /\ (store[m][o.res] = 0 \/ Unplaced(m, o.res))
  <2>1. CaughtUp(m, o) = Answered(o, "gone")
    BY <1>3 DEF CaughtUp
  <2>2. MutationOK(Answered(o, "gone"), Revision, granted)
    BY <1>1, AnsweredOK
  <2>3. CASE store[m][o.res] = 0
    <3>1. view[m] \in o.from .. Revision
      BY <1>1, <1>3, <2>3 DEF MustCatchUp
    <3>2. log[view[m]][Key(o.res)].mod = 0
      BY <1>1, <2>3, StoreTells
    <3>3. Decided(Answered(o, "gone"))
      BY <3>1, <3>2, RefusedFor
    <3> QED
      BY <2>1, <2>2, <3>3
  <2>4. CASE store[m][o.res] # 0 /\ Unplaced(m, o.res)
    <3>1. Parent(o.res) = Device /\ o.res # Node /\ store[m][Device] = 0
      BY <2>4, ParentFacts DEF Unplaced
    <3>2. log[view[m]][Key(o.res)].mod # 0 /\ log[view[m]][Key(Device)].mod = 0
      BY <1>1, <2>4, <3>1, KeyFacts, StoreTells
    <3>3. ~DeletesAreSafe
      <4>1. ~NeverOrphaned
        BY <1>1, <3>1, <3>2 DEF NeverOrphaned, Held
      <4>2. ~LeavesStay
        BY <1>3, <2>4 DEF LeavesStay, MutationOK, Unplaced
      <4> QED
        BY <4>1, <4>2 DEF DeletesAreSafe
    <3> QED
      BY <2>1, <2>2, <3>3
  <2> QED
    BY <1>3, <2>3, <2>4
<1>4. CASE o.kind = "unregister" /\ ~(store[m][o.res] = 0 \/ Unplaced(m, o.res))
  <2>1. PICK x : x = [o EXCEPT !.pc = "txn"]
    OBVIOUS
  <2>2. MutationOK(x, Revision, granted) /\ x.pc = "txn"
    BY <2>1 DEF MutationOK, Mutations, Pc
  <2>3. CaughtUp(m, o) = x
    BY <1>4, <2>1 DEF CaughtUp
  <2> QED
    BY <2>2, <2>3, GoingOn
<1>5. CASE o.kind \notin {"register", "unregister"} /\ table[m] = 0
  <2>1. CaughtUp(m, o) = Answered(o, "gone")
    BY <1>5 DEF CaughtUp
  <2>2. Decided(Answered(o, "gone"))
    BY <1>1, <1>5, RefusedFor
  <2> QED
    BY <2>1, <2>2 DEF Decided
<1>6. CASE o.kind \notin {"register", "unregister"} /\ table[m] # 0
  <2>1. PICK y : y = [o EXCEPT !.pc = "keepalive"]
    OBVIOUS
  <2>2. /\ MutationOK(y, Revision, granted) /\ y.pc = "keepalive"
        /\ y.kind # "unregister"
    BY <1>6, <2>1 DEF MutationOK, Mutations, Pc
  <2>3. PICK x : x = [y EXCEPT !.lease = table[m]]
    OBVIOUS
  <2>4. table[m] \in 0 .. granted
    BY DEF Types, MembersOK
  <2>5. MutationOK(x, Revision, granted) /\ x.pc = "keepalive"
    BY <1>1, <2>2, <2>3, <2>4 DEF MutationOK, Mutations
  <2>6. CaughtUp(m, o) = x
    BY <1>6, <2>1, <2>3 DEF CaughtUp
  <2> QED
    BY <2>5, <2>6, GoingOn
<1>7. QED
  BY <1>2, <1>3, <1>4, <1>5, <1>6

-----------------------------------------------------------------------------
(* etcd's history.                                                         *)

LEMMA NowOK ==
    ASSUME HistoryOK
    PROVE  /\ Now \in State /\ StateOK(Now, Revision, granted)
           /\ Revision \in Nat /\ Revision # 0
BY DEF HistoryOK, Now, Revision

LEMMA PutFollows ==
    ASSUME HistoryOK, NEW o, MutationOK(o, Revision, granted), o.kind = "register",
           o.res # Node => Held(Revision, Parent(o.res))
    PROVE  /\ Put(o) \in State /\ Put(o) # Now
           /\ StateOK(Put(o), Revision + 1, granted)
           /\ Placed2(Now, Put(o))
<1>1. /\ o.res \in Resources /\ o.ver \in 0 .. MaxVersion /\ o.ver # 0
      /\ o.lease \in Nat /\ o.lease <= granted /\ granted \in Nat /\ MaxVersion \in Nat
  BY EtcdConstants DEF MutationOK, Mutations, HistoryOK
<1>2. PICK value : value = [mod |-> Revision + 1, ver |-> o.ver, lease |-> o.lease]
  OBVIOUS
<1>3. /\ value \in Value /\ value.mod \in 0 .. Revision + 1 /\ value.mod # 0
      /\ value.ver = o.ver /\ value.lease \in 0 .. granted /\ value.mod = Revision + 1
  BY <1>1, <1>2, NowOK DEF Value
<1>4. Put(o) = [k \in Keys |-> IF k \in {Key(o.res), Claim(o.res)} THEN value ELSE Now[k]]
  BY <1>2 DEF Put
<1>5. Put(o) \in State
  BY <1>3, <1>4, NowOK DEF State
<1>6. Put(o) # Now
  <2>1. Put(o)[Key(o.res)].mod = Revision + 1 /\ Now[Key(o.res)].mod <= Revision
    BY <1>1, <1>3, <1>4, KeyFacts, NowOK DEF StateOK
  <2> QED
    BY <2>1, NowOK
<1>7. StateOK(Put(o), Revision + 1, granted)
  <2> SUFFICES ASSUME NEW k \in Keys
               PROVE  /\ Put(o)[k].mod \in 0 .. Revision + 1
                      /\ Put(o)[k].ver \in 0 .. MaxVersion
                      /\ Put(o)[k].lease \in 0 .. granted
                      /\ Put(o)[k].mod # 0 <=> Put(o)[k].ver # 0
    BY DEF StateOK
  <2>1. Put(o)[k] = value \/ Put(o)[k] = Now[k]
    BY <1>4
  <2>2. /\ Now[k].mod \in 0 .. Revision + 1 /\ Now[k].ver \in 0 .. MaxVersion
        /\ Now[k].lease \in 0 .. granted
        /\ Now[k].mod # 0 <=> Now[k].ver # 0
    BY NowOK DEF StateOK
  <2>3. CASE Put(o)[k] = value
    <3>1. value.ver \in 0 .. MaxVersion /\ value.ver # 0
      BY <1>1, <1>3
    <3> QED
      BY <1>3, <2>3, <3>1
  <2>4. CASE Put(o)[k] = Now[k]
    BY ONLY <2>2, <2>4, Zenon
  <2> QED
    BY ONLY <2>1, <2>3, <2>4, Zenon
<1>8. Placed2(Now, Put(o))
  <2> SUFFICES ASSUME NEW r \in Resources \ {Node}, Put(o)[Key(r)] # Now[Key(r)]
               PROVE  Now[Key(Parent(r))].mod # 0
    BY DEF Placed2
  <2>1. Key(r) \in {Key(o.res), Claim(o.res)}
    BY <1>4, KeyFacts
  <2>2. r = o.res
    BY <1>1, <2>1, KeyFacts
  <2> QED
    BY <2>2 DEF Held, Now
<1>9. QED
  BY <1>5, <1>6, <1>7, <1>8

LEMMA EraseFollows ==
    ASSUME HistoryOK, NEW keys
    PROVE  /\ Erase(keys) \in State
           /\ StateOK(Erase(keys), Revision + 1, granted)
           /\ Placed2(Now, Erase(keys))
<1>1. /\ Absent \in Value /\ Absent.mod = 0 /\ Absent.ver = 0 /\ Absent.lease = 0
      /\ granted \in Nat /\ MaxVersion \in Nat
  BY EtcdConstants DEF Absent, Value, HistoryOK
<1>2. \A k \in Keys : Erase(keys)[k] = Absent \/ Erase(keys)[k] = Now[k]
  BY DEF Erase
<1>3. Erase(keys) \in State
  BY <1>1, NowOK DEF State, Erase
<1>4. StateOK(Erase(keys), Revision + 1, granted)
  <2> SUFFICES ASSUME NEW k \in Keys
               PROVE  /\ Erase(keys)[k].mod \in 0 .. Revision + 1
                      /\ Erase(keys)[k].ver \in 0 .. MaxVersion
                      /\ Erase(keys)[k].lease \in 0 .. granted
                      /\ Erase(keys)[k].mod # 0 <=> Erase(keys)[k].ver # 0
    BY DEF StateOK
  <2>1. /\ Now[k].mod \in 0 .. Revision + 1 /\ Now[k].ver \in 0 .. MaxVersion
        /\ Now[k].lease \in 0 .. granted
        /\ Now[k].mod # 0 <=> Now[k].ver # 0
    BY NowOK DEF StateOK
  <2>2. CASE Erase(keys)[k] = Absent
    <3>1. 0 \in 0 .. Revision + 1 /\ 0 \in 0 .. MaxVersion /\ 0 \in 0 .. granted
      BY <1>1, NowOK
    <3> QED
      BY <1>1, <2>2, <3>1
  <2>3. CASE Erase(keys)[k] = Now[k]
    BY ONLY <2>1, <2>3, Zenon
  <2> QED
    BY <1>2, <2>2, <2>3, Zenon
<1>5. Placed2(Now, Erase(keys))
  BY <1>1, <1>2, KeyFacts DEF Placed2
<1>6. QED
  BY <1>3, <1>4, <1>5

(* What a step does to etcd's history: nothing, or it adds a state.        *)
Adds(kv) ==
    /\ kv \in State /\ log' = Append(log, kv)
    /\ StateOK(kv, Revision + 1, granted) /\ Placed2(Now, kv)

LogStep == log' = log \/ \E kv : Adds(kv)

LEMMA PutStep ==
    ASSUME HistoryOK, NEW o, MutationOK(o, Revision, granted), o.kind = "register",
           Compares(o), Write(Put(o))
    PROVE  LogStep /\ Len(log') = Revision + 1
<1>1. PICK kv : kv = Put(o)
  OBVIOUS
<1>2. Adds(kv)
  BY <1>1, PutFollows DEF Compares, Write, Adds
<1>3. QED
  BY <1>2 DEF LogStep, Adds, HistoryOK, Revision

LEMMA EraseStep ==
    ASSUME HistoryOK, NEW keys, Write(Erase(keys))
    PROVE  LogStep
<1>1. PICK kv : kv = Erase(keys)
  OBVIOUS
<1>2. log' = log \/ Adds(kv)
  BY <1>1, EraseFollows DEF Write, Adds
<1>3. QED
  BY <1>2 DEF LogStep

LEMMA LogSteps ==
    ASSUME Types, Next
    PROVE  /\ LogStep
           /\ granted' \in Nat /\ granted' >= granted /\ alive' \subseteq 1 .. granted'
<1>1. HistoryOK /\ OpsOK
  BY DEF Types
<1>2. ASSUME NEW l \in 1 .. MaxLeases, LeaseExpires(l)
      PROVE  LogStep /\ granted' = granted /\ alive' \subseteq alive
  <2>1. PICK keys : keys = {k \in Keys : Now[k].lease = l}
    OBVIOUS
  <2>2. Write(Erase(keys))
    BY <1>2, <2>1 DEF LeaseExpires
  <2> QED
    BY <1>1, <1>2, <2>2, EraseStep DEF LeaseExpires
<1>3. ASSUME NEW m \in Members,
             \/ ApplyBatch(m) \/ Advance(m) \/ WatchBreaks(m) \/ Reconnect(m)
             \/ Resnapshot(m) \/ ResnapshotFails(m)
      PROVE  log' = log /\ granted' = granted /\ alive' = alive
  BY <1>3 DEF ApplyBatch, Advance, WatchBreaks, Reconnect, Resnapshot, ResnapshotFails, etcd
<1>4. ASSUME NEW m \in Members, NEW s \in Slots, Begin(m, s)
      PROVE  log' = log /\ granted' = granted /\ alive' = alive
  BY <1>4 DEF Begin, etcd
<1>5. ASSUME NEW m \in Members, NEW s \in Slots, Mutation(m, s)
      PROVE  /\ LogStep /\ granted' \in Nat /\ granted' >= granted
             /\ alive' \subseteq 1 .. granted'
  <2>1. MutationOK(op[s], Revision, granted)
    BY <1>1 DEF OpsOK
  <2>2. CASE Grant(m, s)
    BY <1>1, <2>2 DEF Grant, HistoryOK, LogStep
  <2>8. CASE GrantFails(m, s)
    <3>1. log' = log /\ granted \in Nat /\ alive \subseteq 1 .. granted
      BY <1>1, <2>8 DEF GrantFails, HistoryOK
    <3>2. \/ granted' = granted /\ alive' = alive
          \/ granted' = granted + 1 /\ alive' = alive \cup {granted'}
      BY <2>8 DEF GrantFails
    <3>3. granted' \in Nat /\ granted' >= granted
      BY <3>1, <3>2
    <3>4. alive' \subseteq 1 .. granted'
      <4>1. CASE granted' = granted /\ alive' = alive
        BY <3>1, <4>1
      <4>2. CASE granted' = granted + 1 /\ alive' = alive \cup {granted'}
        BY <3>1, <4>2
      <4> QED
        BY <3>2, <4>1, <4>2
    <3> QED
      BY <3>1, <3>3, <3>4 DEF LogStep
  <2>3. CASE Commit(m, s)
    <3>1. op[s].kind = "register" /\ (log' = log \/ (Compares(op[s]) /\ Write(Put(op[s]))))
      BY <2>3 DEF Commit
    <3>2. PICK o : o = op[s]
      OBVIOUS
    <3>3. LogStep
      BY <1>1, <2>1, <3>1, <3>2, PutStep DEF LogStep
    <3> QED
      BY <1>1, <2>3, <3>3 DEF Commit, HistoryOK
  <2>4. CASE CallFails(m, s)
    <3>1. log' = log \/ (op[s].kind = "register" /\ Compares(op[s]) /\ Write(Put(op[s])))
      BY <2>4 DEF CallFails
    <3>2. PICK o : o = op[s]
      OBVIOUS
    <3>3. LogStep
      BY <1>1, <2>1, <3>1, <3>2, PutStep DEF LogStep
    <3> QED
      BY <1>1, <2>4, <3>3 DEF CallFails, HistoryOK
  <2>5. CASE CommitDelete(m, s)
    <3>1. PICK keys : keys = {Key(r) : r \in Subtree(op[s].res)} \cup {Claim(op[s].res)}
      OBVIOUS
    <3>2. Write(Erase(keys))
      BY <2>5, <3>1 DEF CommitDelete
    <3> QED
      BY <1>1, <2>5, <3>2, EraseStep DEF CommitDelete, HistoryOK
  <2>6. CASE CatchUp(m, s) \/ CatchUpFence(m, s) \/ ReadSet(m, s) \/ ReadReturns(m, s) \/ Fence(m, s)
    BY <1>1, <2>6 DEF CatchUp, CatchUpFence, ReadSet, ReadReturns, Fence, etcd, HistoryOK, LogStep
  <2>7. CASE AwaitCommit(m, s) \/ KeepAlive(m, s) \/ Deadline(m, s) \/ Finish(m, s)
    <3>1. UNCHANGED etcd
      BY <2>7 DEF AwaitCommit, KeepAlive, Deadline, Finish
    <3> QED
      BY <1>1, <3>1 DEF etcd, HistoryOK, LogStep
  <2> QED
    BY <1>5, <2>2, <2>3, <2>4, <2>5, <2>6, <2>7, <2>8 DEF Mutation
<1>6. /\ granted \in Nat /\ alive \subseteq 1 .. granted
      /\ log' = log => LogStep
      /\ granted' = granted => granted' >= granted
  BY <1>1 DEF HistoryOK, LogStep
<1>7. CASE LogStep /\ granted' = granted /\ alive' \subseteq alive
  BY ONLY <1>6, <1>7
<1>8. CASE log' = log /\ granted' = granted /\ alive' = alive
  BY ONLY <1>6, <1>8
<1>9. QED
  BY <1>2, <1>3, <1>4, <1>5, <1>7, <1>8 DEF Next
LEMMA HistoryKept ==
    ASSUME Types, Next
    PROVE  /\ HistoryOK'
           /\ Revision \in Nat /\ Revision' \in Nat /\ Revision <= Revision'
           /\ Revision' \in {Revision, Revision + 1}
           /\ \A i \in 1 .. Revision : log'[i] = log[i]
<1>1. HistoryOK /\ granted \in Nat /\ log \in Seq(State) /\ Revision = Len(log)
  BY DEF Types, HistoryOK, Revision
<1>2. /\ LogStep
      /\ granted' \in Nat /\ granted' >= granted /\ alive' \subseteq 1 .. granted'
  BY LogSteps
<1>3. ASSUME NEW kv, NEW i \in Nat, StateOK(kv, i, granted)
      PROVE  StateOK(kv, i, granted')
  <2>1. \A x \in 0 .. granted : x \in 0 .. granted'
    BY <1>1, <1>2
  <2> QED
    BY <1>3, <2>1 DEF StateOK
<1>4. CASE log' = log
  <2>1. \A i \in 1 .. Len(log) : StateOK(log[i], i, granted')
    BY <1>1, <1>3 DEF HistoryOK
  <2> QED
    BY <1>1, <1>2, <1>4, <2>1 DEF HistoryOK, Revision
<1>5. ASSUME NEW kv, Adds(kv)
      PROVE  /\ HistoryOK' /\ Revision' = Revision + 1
             /\ \A i \in 1 .. Revision : log'[i] = log[i]
  <2>1. /\ kv \in State /\ log' = Append(log, kv) /\ StateOK(kv, Revision + 1, granted)
        /\ Revision \in Nat
    BY <1>1, <1>5 DEF Adds
  <2>2. /\ log' \in Seq(State) /\ Len(log') = Revision + 1
        /\ log'[Revision + 1] = kv
        /\ \A i \in 1 .. Revision : log'[i] = log[i]
    BY <1>1, <2>1
  <2>3. ASSUME NEW i \in 1 .. Len(log')
        PROVE  StateOK(log'[i], i, granted')
    <3>1. CASE i = Revision + 1
      BY <1>3, <2>1, <2>2, <3>1
    <3>2. CASE i \in 1 .. Revision
      BY <1>1, <1>3, <2>2, <3>2 DEF HistoryOK
    <3> QED
      BY <2>1, <2>2, <3>1, <3>2
  <2>4. Len(log') # 0
    BY <2>1, <2>2
  <2> QED
    BY <1>2, <2>2, <2>3, <2>4 DEF HistoryOK, Revision
<1>6. Revision \in Nat /\ (log' = log => Revision' = Revision)
  BY <1>1 DEF Revision
<1>7. QED
  BY <1>1, <1>2, <1>4, <1>5, <1>6 DEF LogStep

LEMMA RootedKept ==
    ASSUME Types, Rooted, Next
    PROVE  Rooted'
<1>1. /\ log \in Seq(State) /\ Revision = Len(log) /\ Revision \in Nat /\ Revision # 0
      /\ LogStep
  BY LogSteps DEF Types, HistoryOK, Revision
<1>2. CASE log' = log
  BY <1>1, <1>2 DEF Rooted, Revision
<1>3. ASSUME NEW kv, Adds(kv)
      PROVE  Rooted'
  <2>1. kv \in State /\ log' = Append(log, kv) /\ Placed2(Now, kv)
    BY <1>3 DEF Adds
  <2>2. /\ Len(log') = Revision + 1 /\ log'[Revision + 1] = kv
        /\ \A i \in 1 .. Revision : log'[i] = log[i]
    BY <1>1, <2>1
  <2>3. ASSUME NEW i \in 1 .. Len(log') - 1
        PROVE  Placed2(log'[i], log'[i + 1])
    <3>1. CASE i = Revision
      <4>1. log'[i] = Now /\ log'[i + 1] = kv
        BY <1>1, <2>2, <3>1 DEF Now
      <4> QED
        BY <2>1, <4>1
    <3>2. CASE i # Revision
      <4>1. i \in 1 .. Revision - 1 /\ i \in 1 .. Revision /\ i + 1 \in 1 .. Revision
        BY <1>1, <2>2, <3>2
      <4>2. log'[i] = log[i] /\ log'[i + 1] = log[i + 1]
        BY <2>2, <4>1
      <4> QED
        BY <4>1, <4>2 DEF Rooted
    <3> QED
      BY <3>1, <3>2
  <2> QED
    BY <2>3 DEF Rooted, Revision
<1>4. QED
  BY <1>1, <1>2, <1>3 DEF LogStep

(* An index before the last one of a history that grows.                   *)
LEMMA NextIsWithin ==
    ASSUME NEW a \in Nat, NEW b \in Nat, a <= b, NEW i \in 1 .. a - 1
    PROVE  i \in 1 .. b - 1 /\ i \in 1 .. a /\ i + 1 \in 1 .. a
OBVIOUS

(* What has happened to etcd stays in its history.                         *)
LEMMA VersionsWere ==
    ASSUME Types, Next, VersionsNeverGoBack'
    PROVE  VersionsNeverGoBack
<1>1. /\ Revision \in Nat /\ Revision' \in Nat /\ Revision <= Revision'
      /\ \A i \in 1 .. Revision : log'[i] = log[i]
  BY HistoryKept
<1>2. SUFFICES ASSUME NEW i \in 1 .. Revision - 1, NEW r \in Resources,
                      log[i][Key(r)].mod # 0, log[i + 1][Key(r)].mod # 0
               PROVE  log[i][Key(r)].ver <= log[i + 1][Key(r)].ver
  BY DEF VersionsNeverGoBack, Held
<1>3. /\ i \in 1 .. Revision' - 1 /\ i \in 1 .. Revision /\ i + 1 \in 1 .. Revision
      /\ log'[i] = log[i] /\ log'[i + 1] = log[i + 1]
  BY <1>1, NextIsWithin
<1>4. QED
  BY <1>2, <1>3 DEF VersionsNeverGoBack, Held

LEMMA OrphansWere ==
    ASSUME Types, Next, DeletesAreSafe'
    PROVE  DeletesAreSafe
<1>1. /\ Revision \in Nat /\ Revision' \in Nat /\ Revision <= Revision'
      /\ \A i \in 1 .. Revision : log'[i] = log[i]
  BY HistoryKept
<1>2. CASE LeavesStay'
  BY <1>2 DEF LeavesStay, DeletesAreSafe
<1>3. CASE NeverOrphaned'
  <2>1. SUFFICES ASSUME NEW i \in 1 .. Revision, NEW r \in Resources \ {Node},
                        log[i][Key(r)].mod # 0
                 PROVE  log[i][Key(Parent(r))].mod # 0
    BY DEF NeverOrphaned, DeletesAreSafe, Held
  <2>2. i \in 1 .. Revision' /\ log'[i] = log[i]
    BY <1>1
  <2> QED
    BY <1>3, <2>1, <2>2 DEF NeverOrphaned, Held
<1>4. QED
  BY <1>2, <1>3 DEF DeletesAreSafe

-----------------------------------------------------------------------------
(* A mutation that takes a step.                                           *)

(* At most one mutation changes, to o; a refusal has a reason wherever     *)
(* stores are replicas.                                                    *)
OpStep ==
    \/ op' = op
    \/ \E s \in Slots : \E o :
          /\ op' = [op EXCEPT ![s] = o]
          /\ MutationOK(o, Revision', granted')
          /\ StoreIsReplica /\ DeletesAreSafe => True(o, log')

(* The steps of a mutation that leave etcd alone.                          *)
LEMMA StepTo ==
    ASSUME NEW s \in Slots, NEW o, op' = [op EXCEPT ![s] = o],
           MutationOK(o, Revision, granted),
           StoreIsReplica /\ DeletesAreSafe => True(o, log),
           log' = log, granted' = granted
    PROVE  OpStep
BY DEF OpStep, Revision

(* Those that may not, and that do not end in a refusal.                   *)
LEMMA StepOn ==
    ASSUME Types, Next, NEW s \in Slots, NEW o, op' = [op EXCEPT ![s] = o],
           MutationOK(o, Revision', granted'),
           o.pc # "answered" \/ o.answer \notin {"gone", "rejected"}
    PROVE  OpStep
BY DEF OpStep, True

Begun(m, q, v) == [Idle EXCEPT !.kind = q[1], !.res = q[2], !.at = m, !.from = Revision,
                               !.ver = IF q[1] = "register" THEN v ELSE 0]

LEMMA BeginStep ==
    ASSUME Inv, NEW m \in Members, NEW s \in Slots, Begin(m, s)
    PROVE  OpStep
<1>1. /\ Types /\ PresenceIsReplicated /\ Revision \in Nat \ {0} /\ granted \in Nat
      /\ MaxVersion \in Nat /\ log' = log /\ granted' = granted
  BY EtcdConstants DEF Inv, Types, HistoryOK, Revision, Begin, etcd
<1>2. PICK q \in Requests, v \in 1 .. MaxVersion :
         op' = [op EXCEPT ![s] = IF MustCatchUp(m, Begun(m, q, v))
                                 THEN [Begun(m, q, v) EXCEPT !.pc = "catchup"]
                                 ELSE CaughtUp(m, Begun(m, q, v))]
  BY DEF Begin, Begun
<1>3. PICK o : o = Begun(m, q, v)
  OBVIOUS
<1>4. /\ q[1] \in {"register", "unregister", "heartbeat"} /\ q[2] \in Resources
      /\ q = <<q[1], q[2]>>
  BY EtcdConstants
<1>5. MutationOK(o, Revision, granted) /\ o.pc = "idle"
  <2>1. PICK i : i = Idle
    OBVIOUS
  <2>2. i \in Mutations /\ i.pc = "idle" /\ i.rev = 0 /\ i.lease = 0
    BY <1>1, <2>1, IdleOK DEF Idle, MutationOK
  <2>3. PICK w : w = IF q[1] = "register" THEN v ELSE 0
    OBVIOUS
  <2>4. w \in 0 .. MaxVersion /\ (q[1] = "register" => w # 0)
    BY <1>1, <2>3
  <2>5. o = [i EXCEPT !.kind = q[1], !.res = q[2], !.at = m, !.from = Revision, !.ver = w]
    BY <1>3, <2>1, <2>3 DEF Begun
  <2>6. /\ o.kind = q[1] /\ o.from = Revision /\ o.ver = w
        /\ o.pc = "idle" /\ o.rev = 0 /\ o.lease = 0
    BY <2>2, <2>5 DEF Mutations
  <2>7. o \in Mutations
    BY <1>1, <1>4, <2>2, <2>4, <2>5, Zenon DEF Mutations
  <2>8. o.kind = "unregister" => <<"unregister", o.res>> \in Requests
    <3>1. o.res = q[2]
      BY <2>2, <2>5 DEF Mutations
    <3> QED
      BY <1>4, <2>6, <3>1
  <2> QED
    BY <1>1, <1>4, <2>4, <2>6, <2>7, <2>8 DEF MutationOK
<1>6. CASE MustCatchUp(m, o)
  <2>1. PICK x : x = [o EXCEPT !.pc = "catchup"]
    OBVIOUS
  <2>2. MutationOK(x, Revision, granted) /\ x.pc = "catchup"
    BY <1>5, <2>1 DEF MutationOK, Mutations, Pc
  <2>3. op' = [op EXCEPT ![s] = x]
    BY <1>2, <1>3, <1>6, <2>1
  <2>4. True(x, log)
    BY <2>2 DEF True
  <2> QED
    BY <1>1, <2>2, <2>3, <2>4, StepTo
<1>7. CASE ~MustCatchUp(m, o)
  <2>1. PICK x : x = CaughtUp(m, o)
    OBVIOUS
  <2>2. MutationOK(x, Revision, granted) /\ (DeletesAreSafe => True(x, log))
    BY <1>1, <1>5, <1>7, <2>1, CaughtUpDecided DEF Decided
  <2>3. op' = [op EXCEPT ![s] = x]
    BY <1>2, <1>3, <1>7, <2>1
  <2> QED
    BY <1>1, <2>2, <2>3, StepTo
<1>8. QED
  BY <1>6, <1>7
(* Where a step of a mutation starts.                                      *)
LEMMA OpFacts ==
    ASSUME Inv, NEW s \in Slots
    PROVE  /\ Types /\ PresenceIsReplicated /\ Revision \in Nat /\ granted \in Nat
           /\ MutationOK(op[s], Revision, granted) /\ op[s] \in Mutations
           /\ Revision # 0
BY DEF Inv, Types, HistoryOK, OpsOK, Revision

LEMMA CatchUpStep ==
    ASSUME Inv, NEW m \in Members, NEW s \in Slots,
           CatchUp(m, s) \/ ReadSet(m, s)
    PROVE  OpStep
<1>1. log' = log /\ granted' = granted
  BY DEF CatchUp, ReadSet, etcd
<1>2. PICK o : o = op[s]
  OBVIOUS
<1>3. MutationOK(o, Revision, granted) /\ Revision \in Nat /\ Revision # 0 /\ o \in Mutations
  BY <1>2, OpFacts
<1>4. PICK pc \in {"behind", "reply"} :
         op' = [op EXCEPT ![s].pc = pc, ![s].rev = Revision]
  BY DEF CatchUp, ReadSet
<1>5. PICK x : x = [o EXCEPT !.pc = pc, !.rev = Revision]
  OBVIOUS
<1>6. x \in Mutations /\ x.pc = pc /\ x.rev = Revision
  BY <1>3, <1>5 DEF Mutations, Pc
<1>7. /\ x.from = o.from /\ x.lease = o.lease /\ x.kind = o.kind /\ x.ver = o.ver
      /\ x.res = o.res
  BY <1>3, <1>5 DEF Mutations
<1>8. MutationOK(x, Revision, granted) /\ x.pc # "answered"
  BY <1>3, <1>6, <1>7 DEF MutationOK, Mutations
<1>9. op' = [op EXCEPT ![s] = x]
  BY <1>2, <1>4, <1>5
<1>10. QED
  BY <1>1, <1>8, <1>9, StepTo DEF True

LEMMA CatchUpFenceStep ==
    ASSUME Inv, NEW m \in Members, NEW s \in Slots, CatchUpFence(m, s)
    PROVE  OpStep
<1>1. log' = log /\ granted' = granted
  BY DEF CatchUpFence, etcd
<1>2. PICK o : o = op[s]
  OBVIOUS
<1>3. /\ MutationOK(o, Revision, granted) /\ o \in Mutations /\ Types /\ PresenceIsReplicated
      /\ o.pc = "behind" /\ fence[m] >= o.rev /\ op' = [op EXCEPT ![s] = CaughtUp(m, o)]
  BY <1>2, OpFacts DEF CatchUpFence
<1>4. o.from <= view[m]
  <2>1. o.from <= o.rev /\ o.from \in Nat /\ o.rev \in Nat
    BY <1>3 DEF MutationOK, Mutations
  <2>2. fence[m] \in Nat /\ view[m] \in Nat /\ fence[m] <= view[m]
    BY <1>3, FenceTells
  <2> QED
    BY <1>3, <2>1, <2>2
<1>5. PICK x : x = CaughtUp(m, o)
  OBVIOUS
<1>6. MutationOK(x, Revision, granted) /\ (DeletesAreSafe => True(x, log))
  BY <1>3, <1>4, <1>5, CaughtUpDecided DEF Decided
<1>7. QED
  BY <1>1, <1>3, <1>5, <1>6, StepTo

LEMMA ValidationStep ==
    ASSUME Inv, NEW m \in Members, NEW s \in Slots,
           ReadReturns(m, s) \/ Fence(m, s)
    PROVE  OpStep
<1>1. log' = log /\ granted' = granted
  BY DEF ReadReturns, Fence, etcd
<1>2. PICK o : o = op[s]
  OBVIOUS
<1>3. /\ MutationOK(o, Revision, granted) /\ o \in Mutations /\ Types /\ PresenceIsReplicated
      /\ o.pc \in {"reply", "fence"} /\ Revision \in Nat
  BY <1>2, OpFacts DEF ReadReturns, Fence
<1>4. o.from <= o.rev /\ o.from \in Nat /\ o.rev \in Nat /\ o.rev <= Revision
  BY <1>3 DEF MutationOK, Mutations
<1>5. fence[m] \in Nat /\ view[m] \in Nat /\ fence[m] <= view[m]
  BY <1>3, FenceTells
<1>6. believed[m] \in [Keys -> Nat]
  BY <1>3 DEF Types, MembersOK
<1>7. CASE op' = [op EXCEPT ![s] = [o EXCEPT !.pc = "fence"]] /\ o.pc = "reply"
  <2>1. PICK x : x = [o EXCEPT !.pc = "fence"]
    OBVIOUS
  <2>2. MutationOK(x, Revision, granted) /\ x.pc = "fence"
    BY <1>3, <1>4, <2>1 DEF MutationOK, Mutations, Pc
  <2> QED
    BY <1>1, <1>7, <2>1, <2>2, StepTo DEF True
<1>8. ASSUME NEW b \in [Keys -> Nat], op' = [op EXCEPT ![s] = Validated(m, o, b)],
             fence[m] >= o.rev
      PROVE  OpStep
  <2>1. PICK x : x = Validated(m, o, b)
    OBVIOUS
  <2>2. MutationOK(x, Revision, granted) /\ (StoreIsReplica => True(x, log))
    BY <1>3, <1>4, <1>5, <1>8, <2>1, ValidatedDecided DEF Decided
  <2> QED
    BY <1>1, <1>8, <2>1, <2>2, StepTo
<1>9. CASE Fence(m, s)
  BY <1>2, <1>6, <1>8, <1>9 DEF Fence
<1>10. CASE ReadReturns(m, s)
  <2>1. PICK b : /\ op' = [op EXCEPT ![s] = IF fence[m] >= o.rev THEN Validated(m, o, b)
                                            ELSE [o EXCEPT !.pc = "fence"]]
                 /\ \E read : b = [k \in Keys |-> IF k \in read THEN log[o.rev][k].mod
                                                  ELSE believed[m][k]]
    BY <1>2, <1>10 DEF ReadReturns
  <2>2. o.rev \in 1 .. Revision
    BY <1>2, <1>3, <1>4, <1>10 DEF ReadReturns, MutationOK
  <2>3. \A k \in Keys : log[o.rev][k].mod \in Nat
    BY <1>3, <2>2 DEF Types, HistoryOK, StateOK, Revision
  <2>4. b \in [Keys -> Nat]
    BY <1>6, <2>1, <2>3
  <2>5. o.pc = "reply"
    BY <1>2, <1>10 DEF ReadReturns
  <2> QED
    BY <1>7, <1>8, <2>1, <2>4, <2>5
<1>11. QED
  BY <1>9, <1>10

LEMMA GrantStep ==
    ASSUME Inv, Next, NEW m \in Members, NEW s \in Slots, Grant(m, s)
    PROVE  OpStep
<1>1. PICK o : o = op[s]
  OBVIOUS
<1>2. PICK g : g = granted'
  OBVIOUS
<1>3. /\ MutationOK(o, Revision, granted) /\ Types /\ Revision \in Nat /\ granted \in Nat
      /\ o.pc = "grant" /\ g = granted + 1 /\ log' = log
      /\ op' = [op EXCEPT ![s] = TryFastPath(m, [o EXCEPT !.lease = g])]
  BY <1>1, <1>2, OpFacts DEF Grant
<1>4. PICK y : y = [o EXCEPT !.lease = g]
  OBVIOUS
<1>5. MutationOK(y, Revision, g) /\ y.pc = "grant" /\ g \in Nat
  BY <1>3, <1>4 DEF MutationOK, Mutations
<1>6. PICK x : x = TryFastPath(m, y)
  OBVIOUS
<1>7. MutationOK(x, Revision, g) /\ x.pc # "answered"
  BY <1>3, <1>5, <1>6, FastPathOK
<1>8. Revision' = Revision
  BY <1>3 DEF Revision
<1>9. QED
  BY <1>2, <1>3, <1>4, <1>6, <1>7, <1>8, StepOn

LEMMA CommitStep ==
    ASSUME Inv, Next, NEW m \in Members, NEW s \in Slots,
           Commit(m, s) \/ CommitDelete(m, s)
    PROVE  OpStep
<1>1. PICK o : o = op[s]
  OBVIOUS
<1>2. /\ MutationOK(o, Revision, granted) /\ o \in Mutations /\ Types /\ HistoryOK
      /\ Revision \in Nat /\ granted \in Nat
  BY <1>1, OpFacts DEF Types
<1>3. /\ Revision' \in Nat /\ Revision <= Revision' /\ granted' \in Nat /\ granted' >= granted
  BY <1>2, HistoryKept, LogSteps
<1>4. MutationOK(o, Revision', granted')
  BY <1>2, <1>3, Later
<1>5. PICK n \in Nat : n = Revision'
  BY <1>3
<1>6. CASE op' = [op EXCEPT ![s].pc = "commit", ![s].rev = n]
  <2>1. PICK x : x = [o EXCEPT !.pc = "commit", !.rev = n]
    OBVIOUS
  <2>2. x \in Mutations /\ x.pc = "commit" /\ x.rev = n
    BY <1>2, <2>1 DEF Mutations, Pc
  <2>3. /\ x.from = o.from /\ x.lease = o.lease /\ x.kind = o.kind /\ x.ver = o.ver
        /\ x.res = o.res
    BY <1>2, <2>1 DEF Mutations
  <2>4. MutationOK(x, Revision', granted')
    BY <1>3, <1>4, <1>5, <2>2, <2>3 DEF MutationOK
  <2>5. op' = [op EXCEPT ![s] = x]
    BY <1>1, <1>6, <2>1
  <2> QED
    BY <1>2, <2>2, <2>4, <2>5, StepOn
<1>7. CASE CommitDelete(m, s)
  <2>1. Len(log') = n
    BY <1>5 DEF Revision
  <2> QED
    BY <1>6, <1>7, <2>1 DEF CommitDelete
<1>8. CASE Commit(m, s)
  <2>1. CASE op' = [op EXCEPT ![s].pc = "commit", ![s].rev = Revision + 1]
               /\ Compares(o) /\ Write(Put(o))
    <3>1. Revision' = Revision + 1
      BY <1>1, <1>2, <1>8, <2>1, PutStep DEF Commit, Revision
    <3> QED
      BY <1>5, <1>6, <2>1, <3>1
  <2>2. CASE op' = [op EXCEPT ![s].pc = "read"]
    <3>1. PICK x : x = [o EXCEPT !.pc = "read"]
      OBVIOUS
    <3>2. MutationOK(x, Revision', granted') /\ x.pc = "read"
      BY <1>4, <3>1 DEF MutationOK, Mutations, Pc
    <3>3. op' = [op EXCEPT ![s] = x]
      BY <1>1, <2>2, <3>1
    <3> QED
      BY <1>2, <3>2, <3>3, StepOn
  <2>3. CASE op' = [op EXCEPT ![s] = Answered(o, "unavailable")]
    <3>1. PICK x : x = Answered(o, "unavailable")
      OBVIOUS
    <3>2. MutationOK(x, Revision', granted')
      BY <1>3, <1>4, <3>1, AnsweredOK
    <3>3. x.answer = "unavailable"
      BY <1>2, <3>1 DEF Answered, Mutations
    <3> QED
      BY <1>2, <2>3, <3>1, <3>2, <3>3, StepOn
  <2>4. QED
    BY <1>1, <1>8, <2>1, <2>2, <2>3 DEF Commit
<1>9. QED
  BY <1>7, <1>8

LEMMA OtherStep ==
    ASSUME Inv, Next, NEW m \in Members, NEW s \in Slots,
           \/ AwaitCommit(m, s) \/ KeepAlive(m, s) \/ Deadline(m, s)
           \/ GrantFails(m, s) \/ CallFails(m, s) \/ Finish(m, s)
    PROVE  OpStep
<1>1. PICK o : o = op[s]
  OBVIOUS
<1>2. /\ MutationOK(o, Revision, granted) /\ o \in Mutations /\ Types
      /\ Revision \in Nat /\ granted \in Nat
  BY <1>1, OpFacts
<1>3. /\ Revision' \in Nat /\ Revision <= Revision' /\ granted' \in Nat /\ granted' >= granted
  BY <1>2, HistoryKept, LogSteps
<1>4. MutationOK(o, Revision', granted')
  BY <1>2, <1>3, Later
<1>5. ASSUME NEW a \in {"ok", "unavailable", "error"}, op' = [op EXCEPT ![s] = Answered(o, a)]
      PROVE  OpStep
  <2>1. PICK x : x = Answered(o, a)
    OBVIOUS
  <2>2. MutationOK(x, Revision', granted')
    BY <1>3, <1>4, <2>1, AnsweredOK
  <2>3. x.answer = a
    BY <1>2, <2>1 DEF Answered, Mutations
  <2> QED
    BY <1>2, <1>5, <2>1, <2>2, <2>3, StepOn
<1>6. CASE op' = [op EXCEPT ![s] = Answered(o, "gone")] /\ KeepAlive(m, s)
  <2>1. log' = log /\ granted' = granted /\ o.pc = "keepalive"
    BY <1>1, <1>6 DEF KeepAlive, etcd
  <2>2. o.kind # "unregister" /\ Revision \in o.from .. Revision
    BY <1>2, <2>1 DEF MutationOK, Mutations
  <2>3. PICK x : x = Answered(o, "gone")
    OBVIOUS
  <2>4. Decided(x)
    BY <1>2, <2>2, <2>3, RefusedFor
  <2> QED
    BY <1>6, <2>1, <2>3, <2>4, StepTo DEF Decided
<1>7. CASE op' = [op EXCEPT ![s] = Idle]
  <2>1. PICK x : x = Idle
    OBVIOUS
  <2>2. Revision' # 0
    BY <1>2, HistoryKept DEF HistoryOK, Revision
  <2>3. MutationOK(x, Revision', granted') /\ x.pc = "idle"
    BY <1>3, <2>1, <2>2, IdleOK DEF Idle
  <2> QED
    BY <1>2, <1>7, <2>1, <2>3, StepOn
<1>8. CASE KeepAlive(m, s)
  BY <1>1, <1>5, <1>6, <1>8 DEF KeepAlive
<1>9. CASE AwaitCommit(m, s) \/ Deadline(m, s) \/ CallFails(m, s) \/ GrantFails(m, s)
  BY <1>1, <1>5, <1>9 DEF AwaitCommit, Deadline, CallFails, GrantFails
<1>10. CASE Finish(m, s)
  BY <1>1, <1>7, <1>10 DEF Finish
<1>11. QED
  BY <1>8, <1>9, <1>10
LEMMA OpSteps ==
    ASSUME Inv, Next
    PROVE  OpStep
<1>1. ASSUME NEW m \in Members, NEW s \in Slots, Mutation(m, s)
      PROVE  OpStep
  BY <1>1, CatchUpStep, CatchUpFenceStep, ValidationStep, GrantStep, CommitStep, OtherStep
  DEF Mutation
<1>2. ASSUME NEW m \in Members,
             \/ ApplyBatch(m) \/ Advance(m) \/ WatchBreaks(m) \/ Reconnect(m)
             \/ Resnapshot(m) \/ ResnapshotFails(m)
      PROVE  op' = op
  BY <1>2 DEF ApplyBatch, Advance, WatchBreaks, Reconnect, Resnapshot, ResnapshotFails
<1>3. ASSUME NEW l \in 1 .. MaxLeases, LeaseExpires(l)
      PROVE  op' = op
  BY <1>3 DEF LeaseExpires
<1>4. op' = op => OpStep
  BY DEF OpStep
<1>5. QED
  BY <1>1, <1>2, <1>3, <1>4, BeginStep DEF Next

LEMMA OpsKept ==
    ASSUME Inv, Next
    PROVE  OpsOK'
<1>1. /\ Types /\ op \in [Slots -> Mutations]
      /\ \A s \in Slots : MutationOK(op[s], Revision, granted)
      /\ Revision \in Nat /\ granted \in Nat
  BY DEF Inv, Types, OpsOK, HistoryOK, Revision
<1>2. /\ Revision' \in Nat /\ Revision <= Revision' /\ granted' \in Nat /\ granted <= granted'
  BY <1>1, HistoryKept, LogSteps
<1>3. ASSUME NEW s \in Slots
      PROVE  MutationOK(op[s], Revision', granted')
  <2>1. PICK o : o = op[s]
    OBVIOUS
  <2>2. MutationOK(o, Revision, granted)
    BY <1>1, <2>1
  <2>3. MutationOK(o, Revision', granted')
    BY <1>1, <1>2, <2>2, Later
  <2> QED
    BY <2>1, <2>3
<1>4. CASE op' = op
  BY <1>1, <1>3, <1>4 DEF OpsOK
<1>5. ASSUME NEW s \in Slots, NEW o, op' = [op EXCEPT ![s] = o],
             MutationOK(o, Revision', granted')
      PROVE  OpsOK'
  <2>1. op' \in [Slots -> Mutations]
    BY <1>1, <1>5 DEF MutationOK
  <2>2. \A x \in Slots : op'[x] = o \/ op'[x] = op[x]
    BY <1>1, <1>5
  <2>3. \A x \in Slots : MutationOK(op'[x], Revision', granted')
    BY <1>3, <1>5, <2>2
  <2> QED
    BY <2>1, <2>3 DEF OpsOK
<1>6. QED
  BY <1>4, <1>5, OpSteps DEF OpStep

-----------------------------------------------------------------------------
(* The members.                                                            *)

LEMMA GrowTypes ==
    ASSUME NEW st \in [Resources -> 0 .. MaxVersion], NEW level, NEW added, NEW new \in State,
           \A k \in Keys : new[k].ver \in 0 .. MaxVersion
    PROVE  Grow(st, level, added, new) \in [Resources -> 0 .. MaxVersion]
BY KeyFacts DEF Grow

(* The levels of ApplyTo.                                                  *)
Added(old, new) == {r \in Resources : new[Key(r)] # old[Key(r)] /\ new[Key(r)].mod # 0}
Grown(st, old, new) ==
    Grow(Grow(Grow(st, {Node}, Added(old, new), new), {Device}, Added(old, new), new),
         Leaves, Added(old, new), new)

LEMMA ApplyToIs ==
    ASSUME NEW st, NEW old, NEW new
    PROVE  ApplyTo(st, old, new) =
             [r \in Resources |->
                 IF new[Key(r)] # old[Key(r)] /\ new[Key(r)].mod = 0 THEN 0
                 ELSE Grown(st, old, new)[r]]
<1>1. PICK changed : changed = {r \in Resources : new[Key(r)] # old[Key(r)]}
  OBVIOUS
<1>2. PICK added : added = {r \in changed : new[Key(r)].mod # 0}
  OBVIOUS
<1>3. added = Added(old, new)
  BY <1>1, <1>2 DEF Added
<1>4. ApplyTo(st, old, new) =
        [r \in Resources |-> IF r \in changed \ added THEN 0 ELSE Grown(st, old, new)[r]]
  BY <1>1, <1>2, <1>3 DEF ApplyTo, Grown
<1>5. \A r \in Resources :
         r \in changed \ added <=> new[Key(r)] # old[Key(r)] /\ new[Key(r)].mod = 0
  BY <1>1, <1>2
<1>6. QED
  BY <1>4, <1>5

LEMMA ApplyTypes ==
    ASSUME NEW st \in [Resources -> 0 .. MaxVersion], NEW old, NEW new \in State,
           \A k \in Keys : new[k].ver \in 0 .. MaxVersion
    PROVE  ApplyTo(st, old, new) \in [Resources -> 0 .. MaxVersion]
<1>1. Grown(st, old, new) \in [Resources -> 0 .. MaxVersion]
  BY GrowTypes DEF Grown
<1>2. 0 \in 0 .. MaxVersion
  BY EtcdConstants
<1>3. QED
  BY <1>1, <1>2, ApplyToIs

(* Where the parents are, the store takes what is added.                   *)
LEMMA ApplyPresence ==
    ASSUME NEW st \in [Resources -> 0 .. MaxVersion], NEW old \in State, NEW new \in State,
           \A k \in Keys : new[k].ver \in 0 .. MaxVersion,
           \A k \in Keys : new[k].mod # 0 <=> new[k].ver # 0,
           Placed2(old, new),
           \A r \in Resources : st[r] # 0 <=> old[Key(r)].mod # 0
    PROVE  \A r \in Resources : ApplyTo(st, old, new)[r] # 0 <=> new[Key(r)].mod # 0
<1>1. PICK added : added = Added(old, new)
  OBVIOUS
<1>2. PICK st1 : st1 = Grow(st, {Node}, added, new)
  OBVIOUS
<1>3. PICK st2 : st2 = Grow(st1, {Device}, added, new)
  OBVIOUS
<1>4. PICK st3 : st3 = Grow(st2, Leaves, added, new)
  OBVIOUS
<1>5. /\ st1 \in [Resources -> 0 .. MaxVersion] /\ st2 \in [Resources -> 0 .. MaxVersion]
      /\ st3 \in [Resources -> 0 .. MaxVersion]
  BY <1>2, <1>3, <1>4, GrowTypes
<1>6. ASSUME NEW x \in [Resources -> 0 .. MaxVersion], NEW y, NEW level,
             y = Grow(x, level, added, new), NEW r \in Resources
      PROVE  /\ r \in level \cap added /\ (r = Node \/ x[Parent(r)] # 0) => y[r] # 0
             /\ x[r] # 0 => y[r] # 0
             /\ r \notin level \cap added => y[r] = x[r]
  <2>1. new[Key(r)].ver \in 0 .. MaxVersion /\ x[r] \in 0 .. MaxVersion /\ MaxVersion \in Nat
    BY KeyFacts, EtcdConstants
  <2>2. r \in added => new[Key(r)].ver # 0
    BY <1>1, KeyFacts DEF Added
  <2>3. y[r] = IF r \in level \cap added /\ PrepareIn(x, r, new[Key(r)].ver)
               THEN new[Key(r)].ver ELSE x[r]
    BY <1>6 DEF Grow
  <2> QED
    BY <2>1, <2>2, <2>3 DEF PrepareIn
<1> DEFINE Took(x, y, level) ==
      \A r \in Resources :
         /\ r \in level \cap added /\ (r = Node \/ x[Parent(r)] # 0) => y[r] # 0
         /\ x[r] # 0 => y[r] # 0
         /\ r \notin level \cap added => y[r] = x[r]
<1>7. Took(st, st1, {Node}) /\ Took(st1, st2, {Device}) /\ Took(st2, st3, Leaves)
  <2>1. Took(st, st1, {Node})
    BY <1>2, <1>6
  <2>2. Took(st1, st2, {Device})
    BY <1>3, <1>5, <1>6
  <2>3. Took(st2, st3, Leaves)
    BY <1>4, <1>5, <1>6
  <2> QED
    BY <2>1, <2>2, <2>3
<1>a. Resources = {Node, Device} \cup Leaves
  BY DEF Resources
<1>8. ASSUME NEW r \in added
      PROVE  st3[r] # 0
  <2>1. r \in Resources /\ (r # Node => st[Parent(r)] # 0 /\ Parent(r) \in Resources)
    BY <1>1, KeyFacts DEF Added, Placed2
  <2>2. CASE r = Node
    BY <1>7, <1>8, <2>1, <2>2
  <2>3. CASE r = Device
    BY <1>7, <1>8, <2>1, <2>3
  <2>4. CASE r \in Leaves
    <3>1. st2[Parent(r)] # 0
      BY <1>7, <2>1, <2>4, ParentFacts
    <3> QED
      BY <1>7, <1>8, <2>1, <2>4, <3>1
  <2> QED
    BY <1>a, <2>1, <2>2, <2>3, <2>4
<1>9. ASSUME NEW r \in Resources, r \notin added
      PROVE  st3[r] = st[r]
  BY <1>7, <1>9
<1>10. \A r \in Resources :
         ApplyTo(st, old, new)[r] =
            IF new[Key(r)] # old[Key(r)] /\ new[Key(r)].mod = 0 THEN 0 ELSE st3[r]
  BY <1>1, <1>2, <1>3, <1>4, ApplyToIs DEF Grown
<1>11. ASSUME NEW r \in Resources
       PROVE  ApplyTo(st, old, new)[r] # 0 <=> new[Key(r)].mod # 0
  <2>1. CASE new[Key(r)] # old[Key(r)] /\ new[Key(r)].mod = 0
    BY <1>10, <2>1
  <2>2. CASE r \in added
    BY <1>1, <1>8, <1>10, <2>2 DEF Added
  <2>3. CASE new[Key(r)] = old[Key(r)]
    <3>1. r \notin added
      BY <1>1, <2>3 DEF Added
    <3> QED
      BY <1>9, <1>10, <2>3, <3>1
  <2> QED
    BY <1>1, <2>1, <2>2, <2>3 DEF Added
<1>12. QED
  BY <1>11

(* And where versions do not go back, it takes them as they are.           *)
LEMMA ApplyVersions ==
    ASSUME NEW st \in [Resources -> 0 .. MaxVersion], NEW old \in State, NEW new \in State,
           \A k \in Keys : new[k].ver \in 0 .. MaxVersion,
           \A k \in Keys : new[k].mod # 0 <=> new[k].ver # 0,
           \A k \in Keys : old[k].mod # 0 <=> old[k].ver # 0,
           Placed2(old, new),
           \A r \in Resources : st[r] = old[Key(r)].ver,
           \A r \in Resources : old[Key(r)].mod # 0 /\ new[Key(r)].mod # 0
                                  => old[Key(r)].ver <= new[Key(r)].ver
    PROVE  \A r \in Resources : ApplyTo(st, old, new)[r] = new[Key(r)].ver
<1>1. PICK added : added = Added(old, new)
  OBVIOUS
<1>2. PICK st1 : st1 = Grow(st, {Node}, added, new)
  OBVIOUS
<1>3. PICK st2 : st2 = Grow(st1, {Device}, added, new)
  OBVIOUS
<1>4. PICK st3 : st3 = Grow(st2, Leaves, added, new)
  OBVIOUS
<1>5. /\ st1 \in [Resources -> 0 .. MaxVersion] /\ st2 \in [Resources -> 0 .. MaxVersion]
      /\ st3 \in [Resources -> 0 .. MaxVersion]
  BY <1>2, <1>3, <1>4, GrowTypes
<1>6. ASSUME NEW x \in [Resources -> 0 .. MaxVersion], NEW y, NEW level,
             y = Grow(x, level, added, new), NEW r \in Resources
      PROVE  /\ r \in level \cap added /\ PrepareIn(x, r, new[Key(r)].ver)
                  => y[r] = new[Key(r)].ver
             /\ r \notin level \cap added => y[r] = x[r]
             /\ x[r] # 0 /\ new[Key(r)].ver # 0 => y[r] # 0
             /\ r \notin added => y[r] = x[r]
  BY <1>6 DEF Grow
<1>7. ASSUME NEW r \in added
      PROVE  /\ r \in Resources /\ new[Key(r)].ver >= st[r] /\ new[Key(r)].ver # 0
             /\ r # Node => st[Parent(r)] # 0 /\ Parent(r) \in Resources
  <2>1. r \in Resources /\ Key(r) \in Keys /\ new[Key(r)].mod # 0
    BY <1>1, KeyFacts DEF Added
  <2>2. /\ new[Key(r)].ver \in 0 .. MaxVersion /\ st[r] = old[Key(r)].ver /\ MaxVersion \in Nat
        /\ st[r] \in 0 .. MaxVersion /\ new[Key(r)].ver # 0
    BY <2>1, EtcdConstants
  <2>3. new[Key(r)].ver >= st[r]
    <3>1. CASE old[Key(r)].mod = 0
      BY <2>1, <2>2, <3>1
    <3>2. CASE old[Key(r)].mod # 0
      BY <2>1, <2>2, <3>2
    <3> QED
      BY <3>1, <3>2
  <2>4. r # Node => st[Parent(r)] # 0 /\ Parent(r) \in Resources
    BY <1>1, <2>1, KeyFacts DEF Added, Placed2
  <2> QED
    BY <2>1, <2>2, <2>3, <2>4
<1> DEFINE Took(x, y, level) ==
      \A r \in Resources :
         /\ r \in level \cap added /\ PrepareIn(x, r, new[Key(r)].ver)
              => y[r] = new[Key(r)].ver
         /\ r \notin level \cap added => y[r] = x[r]
         /\ x[r] # 0 /\ new[Key(r)].ver # 0 => y[r] # 0
<1>8. Took(st, st1, {Node}) /\ Took(st1, st2, {Device}) /\ Took(st2, st3, Leaves)
  <2>1. Took(st, st1, {Node})
    BY <1>2, <1>6
  <2>2. Took(st1, st2, {Device})
    BY <1>3, <1>5, <1>6
  <2>3. Took(st2, st3, Leaves)
    BY <1>4, <1>5, <1>6
  <2> QED
    BY <2>1, <2>2, <2>3
<1>a. Resources = {Node, Device} \cup Leaves
  BY DEF Resources
<1>9. ASSUME NEW r \in added
      PROVE  st3[r] = new[Key(r)].ver
  <2>1. CASE r = Node
    <3>1. Node \notin {Device} \cup Leaves
      BY EtcdConstants
    <3>2. st1[r] = new[Key(r)].ver
      BY <1>7, <1>8, <1>9, <2>1 DEF PrepareIn
    <3> QED
      BY <1>7, <1>8, <2>1, <3>1, <3>2
  <2>2. CASE r = Device
    <3>1. Device \notin {Node} \cup Leaves /\ Parent(r) = Node
      BY <2>2, EtcdConstants, ParentFacts
    <3>2. st1[r] = st[r] /\ st1[Node] # 0
      <4>1. Node \in added => st1[Node] # 0
        BY <1>7, <1>8 DEF PrepareIn
      <4>2. Node \notin added => st1[Node] # 0
        BY <1>7, <1>8, <1>9, <2>2, <3>1, KeyFacts
      <4> QED
        BY <1>7, <1>8, <1>9, <2>2, <3>1, <4>1, <4>2
    <3>3. st2[r] = new[Key(r)].ver
      BY <1>7, <1>8, <1>9, <2>2, <3>1, <3>2 DEF PrepareIn
    <3> QED
      BY <1>7, <1>8, <1>9, <2>2, <3>1, <3>3
  <2>3. CASE r \in Leaves
    <3>1. /\ r \notin {Node, Device} /\ Parent(r) = Device /\ Device \in Resources
          /\ Device \notin {Node} \cup Leaves
      BY <2>3, EtcdConstants, ParentFacts, KeyFacts
    <3>2. st2[r] = st[r]
      BY <1>7, <1>8, <1>9, <3>1
    <3>3. st2[Device] # 0
      <4>1. st1[Device] # 0
        BY <1>7, <1>8, <1>9, <3>1
      <4>2. Device \in added => new[Key(Device)].ver # 0
        BY <1>7
      <4> QED
        BY <1>8, <3>1, <4>1, <4>2
    <3> QED
      BY <1>7, <1>8, <1>9, <2>3, <3>1, <3>2, <3>3 DEF PrepareIn
  <2> QED
    BY <1>7, <1>a, <2>1, <2>2, <2>3
<1>10. ASSUME NEW r \in Resources, r \notin added
       PROVE  st3[r] = st[r]
  BY <1>8, <1>10
<1>11. \A r \in Resources :
         ApplyTo(st, old, new)[r] =
            IF new[Key(r)] # old[Key(r)] /\ new[Key(r)].mod = 0 THEN 0 ELSE st3[r]
  BY <1>1, <1>2, <1>3, <1>4, ApplyToIs DEF Grown
<1>12. ASSUME NEW r \in Resources
       PROVE  ApplyTo(st, old, new)[r] = new[Key(r)].ver
  <2>1. CASE new[Key(r)] # old[Key(r)] /\ new[Key(r)].mod = 0
    BY <1>11, <2>1, KeyFacts
  <2>2. CASE r \in added
    BY <1>1, <1>9, <1>11, <2>2 DEF Added
  <2>3. CASE new[Key(r)] = old[Key(r)]
    <3>1. r \notin added
      BY <1>1, <2>3 DEF Added
    <3> QED
      BY <1>10, <1>11, <2>3, <3>1
  <2> QED
    BY <1>1, <2>1, <2>2, <2>3 DEF Added
<1>13. QED
  BY <1>12

(* The watch applies the state that Follows the one its store has reached. *)
LEMMA AppliesNext ==
    ASSUME Types, Rooted, NEW m \in Members, ApplyBatch(m)
    PROVE  \E i \in 1 .. Revision - 1, old \in State, new \in State :
             /\ i = view[m] /\ i + 1 \in 1 .. Revision /\ old = log[i] /\ new = log[i + 1]
             /\ StateOK(old, Revision, granted) /\ StateOK(new, Revision, granted)
             /\ Placed2(old, new)
             /\ view' = [view EXCEPT ![m] = i + 1]
             /\ store' = [store EXCEPT ![m] = ApplyTo(store[m], old, new)]
             /\ believed' = [believed EXCEPT ![m] =
                   [k \in Keys |-> IF new[k] # old[k] THEN new[k].mod ELSE believed[m][k]]]
             /\ table' = [table EXCEPT ![m] = IF new[Key(Node)] = old[Key(Node)]
                                              THEN table[m] ELSE new[Key(Node)].lease]
<1>1. PICK i : i = view[m]
  OBVIOUS
<1>2. /\ i \in 1 .. Revision - 1 /\ i \in 1 .. Revision /\ i + 1 \in 1 .. Revision
      /\ log \in Seq(State) /\ Revision = Len(log) /\ Revision \in Nat /\ granted \in Nat
  BY <1>1 DEF Types, HistoryOK, MembersOK, ApplyBatch, Revision
<1>3. PICK old, new : old = log[i] /\ new = log[i + 1]
  OBVIOUS
<1>4. old \in State /\ new \in State /\ Placed2(old, new)
  BY <1>2, <1>3 DEF Rooted
<1>5. StateOK(old, i, granted) /\ StateOK(new, i + 1, granted)
  BY <1>2, <1>3 DEF Types, HistoryOK
<1>6. ASSUME NEW kv, NEW j \in 1 .. Revision, StateOK(kv, j, granted)
      PROVE  StateOK(kv, Revision, granted)
  BY <1>2, <1>6 DEF StateOK
<1>7. StateOK(old, Revision, granted) /\ StateOK(new, Revision, granted)
  BY <1>2, <1>5, <1>6
<1>8. /\ view' = [view EXCEPT ![m] = i + 1]
      /\ store' = [store EXCEPT ![m] = ApplyTo(store[m], old, new)]
      /\ believed' = [believed EXCEPT ![m] =
            [k \in Keys |-> IF new[k] # old[k] THEN new[k].mod ELSE believed[m][k]]]
      /\ table' = [table EXCEPT ![m] = IF new[Key(Node)] = old[Key(Node)]
                                       THEN table[m] ELSE new[Key(Node)].lease]
  BY <1>1, <1>3 DEF ApplyBatch
<1>9. QED
  BY <1>1, <1>2, <1>3, <1>4, <1>7, <1>8

(* Only the watch writes a store, and moves its revision.                  *)
LEMMA WritersOfStores ==
    ASSUME Next
    PROVE  \/ UNCHANGED replica
           \/ \E m \in Members : ApplyBatch(m) \/ Resnapshot(m) \/ Advance(m)
<1>1. ASSUME NEW m \in Members, NEW s \in Slots, Begin(m, s) \/ Mutation(m, s)
      PROVE  UNCHANGED replica
  BY <1>1 DEF Begin, Mutation, CatchUp, CatchUpFence, Grant, GrantFails, ReadSet,
     ReadReturns, Fence, Commit, CommitDelete, AwaitCommit, KeepAlive, Deadline, CallFails,
     Finish
<1>2. ASSUME NEW m \in Members, WatchBreaks(m) \/ Reconnect(m) \/ ResnapshotFails(m)
      PROVE  UNCHANGED replica
  BY <1>2 DEF WatchBreaks, Reconnect, ResnapshotFails
<1>3. ASSUME NEW l \in 1 .. MaxLeases, LeaseExpires(l)
      PROVE  UNCHANGED replica
  BY <1>3 DEF LeaseExpires
<1>4. QED
  BY <1>1, <1>2, <1>3 DEF Next

LEMMA WritersOfContents ==
    ASSUME Next
    PROVE  \/ UNCHANGED <<view, store>>
           \/ \E m \in Members : ApplyBatch(m) \/ Resnapshot(m)
<1>1. UNCHANGED replica => UNCHANGED <<view, store>>
  BY DEF replica
<1>2. ASSUME NEW m \in Members, Advance(m)
      PROVE  UNCHANGED <<view, store>>
  BY <1>2 DEF Advance
<1>3. QED
  BY <1>1, <1>2, WritersOfStores

(* The state that a snapshot reads.                                        *)
LEMMA Snapshots ==
    ASSUME Types, NEW m \in Members, Resnapshot(m)
    PROVE  /\ log' = log /\ granted' = granted
           /\ view' = [view EXCEPT ![m] = Revision]
           /\ \E st \in [Resources -> 0 .. MaxVersion] :
                /\ store' = [store EXCEPT ![m] = st]
                /\ \A r \in Resources : st[r] = Now[Key(r)].ver
<1>1. PICK st : st = [r \in Resources |-> Now[Key(r)].ver]
  OBVIOUS
<1>2. st \in [Resources -> 0 .. MaxVersion]
  BY <1>1, KeyFacts, NowOK DEF Types, StateOK
<1>3. QED
  BY <1>1, <1>2 DEF Resnapshot, etcd

LEMMA ReplicaTypes ==
    ASSUME Types, Rooted, Next
    PROVE  /\ view' \in [Members -> 1 .. Revision']
           /\ store' \in [Members -> [Resources -> 0 .. MaxVersion]]
<1>1. /\ view \in [Members -> 1 .. Revision]
      /\ store \in [Members -> [Resources -> 0 .. MaxVersion]]
      /\ Revision \in Nat /\ Revision' \in Nat /\ Revision <= Revision' /\ Revision # 0
  BY HistoryKept, NowOK DEF Types, MembersOK
<1>2. view \in [Members -> 1 .. Revision']
  BY <1>1
<1>3. CASE UNCHANGED <<view, store>>
  BY <1>1, <1>2, <1>3
<1>4. ASSUME NEW m \in Members, ApplyBatch(m)
      PROVE  /\ view' \in [Members -> 1 .. Revision']
             /\ store' \in [Members -> [Resources -> 0 .. MaxVersion]]
  <2>1. PICK i \in 1 .. Revision - 1, old \in State, new \in State :
             /\ StateOK(new, Revision, granted)
             /\ view' = [view EXCEPT ![m] = i + 1]
             /\ store' = [store EXCEPT ![m] = ApplyTo(store[m], old, new)]
    BY <1>4, AppliesNext
  <2>2. i + 1 \in 1 .. Revision'
    BY <1>1
  <2>3. ApplyTo(store[m], old, new) \in [Resources -> 0 .. MaxVersion]
    BY <1>1, <2>1, ApplyTypes DEF StateOK
  <2> QED
    BY <1>1, <1>2, <2>1, <2>2, <2>3
<1>5. ASSUME NEW m \in Members, Resnapshot(m)
      PROVE  /\ view' \in [Members -> 1 .. Revision']
             /\ store' \in [Members -> [Resources -> 0 .. MaxVersion]]
  <2>1. /\ view' = [view EXCEPT ![m] = Revision]
        /\ \E st \in [Resources -> 0 .. MaxVersion] : store' = [store EXCEPT ![m] = st]
    BY <1>5, Snapshots
  <2>2. Revision \in 1 .. Revision'
    BY <1>1
  <2> QED
    BY <1>1, <1>2, <2>1, <2>2
<1>6. QED
  BY <1>3, <1>4, <1>5, WritersOfContents

(* The fence follows the store.                                            *)
LEMMA FenceTypes ==
    ASSUME Types, Rooted, Next
    PROVE  /\ fence' \in [Members -> 1 .. Revision']
           /\ \A m \in Members : fence'[m] <= view'[m]
<1>1. /\ view \in [Members -> 1 .. Revision] /\ fence \in [Members -> 1 .. Revision]
      /\ \A m \in Members : fence[m] <= view[m]
      /\ Revision \in Nat /\ Revision' \in Nat /\ Revision <= Revision' /\ Revision # 0
  BY HistoryKept, NowOK DEF Types, MembersOK
<1>2. fence \in [Members -> 1 .. Revision']
  BY <1>1
<1>3. CASE UNCHANGED replica
  <2>1. fence' = fence /\ view' = view
    BY <1>3 DEF replica
  <2> QED
    BY <1>1, <1>2, <2>1
<1>4. ASSUME NEW m \in Members, ApplyBatch(m)
      PROVE  /\ fence' \in [Members -> 1 .. Revision']
             /\ \A q \in Members : fence'[q] <= view'[q]
  <2>1. fence' = fence
    BY <1>4 DEF ApplyBatch
  <2>2. view' = [view EXCEPT ![m] = view[m] + 1]
    BY <1>4 DEF ApplyBatch
  <2> QED
    BY <1>1, <1>2, <2>1, <2>2
<1>5. ASSUME NEW m \in Members, Advance(m)
      PROVE  /\ fence' \in [Members -> 1 .. Revision']
             /\ \A q \in Members : fence'[q] <= view'[q]
  <2>1. view' = view /\ fence' = [fence EXCEPT ![m] = view[m]]
    BY <1>5 DEF Advance
  <2> QED
    BY <1>1, <1>2, <2>1
<1>6. ASSUME NEW m \in Members, Resnapshot(m)
      PROVE  /\ fence' \in [Members -> 1 .. Revision']
             /\ \A q \in Members : fence'[q] <= view'[q]
  <2>1. /\ view' = [view EXCEPT ![m] = Revision]
        /\ fence' = [fence EXCEPT ![m] = Revision]
    BY <1>6 DEF Resnapshot
  <2> QED
    BY <1>1, <1>2, <2>1
<1>7. QED
  BY <1>3, <1>4, <1>5, <1>6, WritersOfStores

LEMMA LearnTypes ==
    ASSUME Types, NEW m \in Members, NEW read, Learn(m, read)
    PROVE  /\ believed' \in [Members -> [Keys -> 0 .. Revision]]
           /\ table' \in [Members -> 0 .. granted]
<1>1. /\ believed \in [Members -> [Keys -> 0 .. Revision]]
      /\ table \in [Members -> 0 .. granted]
  BY DEF Types, MembersOK
<1>2. \A k \in Keys : Now[k].mod \in 0 .. Revision /\ Now[k].lease \in 0 .. granted
  BY NowOK DEF Types, StateOK
<1>3. PICK b : b = [k \in Keys |-> IF k \in read THEN Now[k].mod ELSE believed[m][k]]
  OBVIOUS
<1>4. b \in [Keys -> 0 .. Revision]
  BY <1>1, <1>2, <1>3
<1>5. believed' = [believed EXCEPT ![m] = b]
  BY <1>3 DEF Learn
<1>6. PICK l : l = IF Key(Node) \in read THEN Now[Key(Node)].lease ELSE table[m]
  OBVIOUS
<1>7. l \in 0 .. granted
  BY <1>1, <1>2, <1>6, KeyFacts
<1>8. table' = [table EXCEPT ![m] = l]
  BY <1>6 DEF Learn
<1>9. QED
  BY <1>1, <1>4, <1>5, <1>7, <1>8

(* What a mutation learns: a lease, or what it reads.                      *)
LEMMA MutationLearns ==
    ASSUME Types, Next, NEW m \in Members, NEW s \in Slots, Mutation(m, s)
    PROVE  /\ believed' \in [Members -> [Keys -> 0 .. Revision]]
           /\ table' \in [Members -> 0 .. granted']
<1>1. /\ believed \in [Members -> [Keys -> 0 .. Revision]]
      /\ table \in [Members -> 0 .. granted]
      /\ granted \in Nat /\ granted' \in Nat /\ granted <= granted'
  BY LogSteps DEF Types, HistoryOK, MembersOK
<1>2. table \in [Members -> 0 .. granted']
  BY <1>1
<1>3. CASE UNCHANGED belief
  BY <1>1, <1>2, <1>3 DEF belief
<1>4. CASE Grant(m, s)
  <2>1. /\ believed' = believed /\ table' = [table EXCEPT ![m] = granted']
        /\ granted' \in 0 .. granted'
    BY <1>1, <1>4 DEF Grant
  <2> QED
    BY <1>1, <1>2, <2>1
<1>5. CASE KeepAlive(m, s)
  <2>1. /\ believed' = believed /\ table' \in {table, [table EXCEPT ![m] = 0]}
        /\ 0 \in 0 .. granted'
    BY <1>1, <1>5 DEF KeepAlive
  <2> QED
    BY <1>1, <1>2, <2>1
<1>6. CASE ReadReturns(m, s)
  <2>1. PICK b : /\ believed' = [believed EXCEPT ![m] = b]
                 /\ \E read : b = [k \in Keys |-> IF k \in read THEN log[op[s].rev][k].mod
                                                  ELSE believed[m][k]]
    BY <1>6 DEF ReadReturns
  <2>2. op[s].rev \in 1 .. Revision
    <3>1. /\ MutationOK(op[s], Revision, granted) /\ Revision \in Nat
          /\ op[s].pc = "reply"
      BY <1>6 DEF ReadReturns, Types, HistoryOK, OpsOK, Revision
    <3>2. PICK o : o = op[s]
      OBVIOUS
    <3>3. o.rev \in Nat /\ o.rev # 0 /\ o.rev <= Revision
      BY <3>1, <3>2 DEF MutationOK, Mutations
    <3> QED
      BY <3>1, <3>2, <3>3
  <2>3. \A k \in Keys : log[op[s].rev][k].mod \in 0 .. Revision
    <3>1. PICK i : i = op[s].rev
      OBVIOUS
    <3>2. i \in 1 .. Revision /\ Revision \in Nat /\ StateOK(log[i], i, granted)
      BY <2>2, <3>1 DEF Types, HistoryOK, Revision
    <3>3. \A k \in Keys : log[i][k].mod \in 0 .. Revision
      BY <3>2 DEF StateOK
    <3> QED
      BY <3>1, <3>3
  <2>4. b \in [Keys -> 0 .. Revision]
    BY <1>1, <2>1, <2>3
  <2>5. table' = table
    BY <1>6 DEF ReadReturns
  <2> QED
    BY <1>1, <1>2, <2>1, <2>4, <2>5
<1>7. QED
  BY <1>3, <1>4, <1>5, <1>6 DEF Mutation, CatchUp, CatchUpFence, GrantFails, ReadSet, Fence,
     Commit, CommitDelete, AwaitCommit, Deadline, CallFails, Finish

LEMMA BeliefTypes ==
    ASSUME Types, Rooted, Next
    PROVE  /\ believed' \in [Members -> [Keys -> 0 .. Revision']]
           /\ table' \in [Members -> 0 .. granted']
<1>1. /\ believed \in [Members -> [Keys -> 0 .. Revision]]
      /\ table \in [Members -> 0 .. granted]
      /\ Revision \in Nat /\ Revision' \in Nat /\ Revision <= Revision'
      /\ granted \in Nat /\ granted' \in Nat /\ granted <= granted'
  BY HistoryKept, LogSteps DEF Types, HistoryOK, MembersOK
<1> DEFINE Learnt == /\ believed' \in [Members -> [Keys -> 0 .. Revision]]
                     /\ table' \in [Members -> 0 .. granted']
<1>2. Learnt => /\ believed' \in [Members -> [Keys -> 0 .. Revision']]
                /\ table' \in [Members -> 0 .. granted']
  <2>1. 0 .. Revision \subseteq 0 .. Revision'
    BY <1>1
  <2> QED
    BY <2>1
<1>3. table \in [Members -> 0 .. granted'] /\ 0 .. granted \subseteq 0 .. granted'
  BY <1>1
<1>4. CASE UNCHANGED belief
  BY <1>1, <1>3, <1>4 DEF belief
<1>5. ASSUME NEW m \in Members, ApplyBatch(m)
      PROVE  Learnt
  <2>1. PICK i \in 1 .. Revision - 1, old \in State, new \in State :
             /\ StateOK(new, Revision, granted)
             /\ believed' = [believed EXCEPT ![m] =
                   [k \in Keys |-> IF new[k] # old[k] THEN new[k].mod ELSE believed[m][k]]]
             /\ table' = [table EXCEPT ![m] = IF new[Key(Node)] = old[Key(Node)]
                                              THEN table[m] ELSE new[Key(Node)].lease]
    BY <1>5, AppliesNext
  <2>2. PICK b : b = [k \in Keys |-> IF new[k] # old[k] THEN new[k].mod ELSE believed[m][k]]
    OBVIOUS
  <2>3. b \in [Keys -> 0 .. Revision]
    BY <1>1, <2>1, <2>2 DEF StateOK
  <2>4. PICK l : l = IF new[Key(Node)] = old[Key(Node)] THEN table[m] ELSE new[Key(Node)].lease
    OBVIOUS
  <2>5. l \in 0 .. granted'
    BY <1>1, <1>3, <2>1, <2>4, KeyFacts DEF StateOK
  <2>6. believed' = [believed EXCEPT ![m] = b] /\ table' = [table EXCEPT ![m] = l]
    BY <2>1, <2>2, <2>4
  <2> QED
    BY <1>1, <1>3, <2>3, <2>5, <2>6
<1>6. ASSUME NEW m \in Members, Resnapshot(m) \/ ResnapshotFails(m)
      PROVE  Learnt
  <2>1. PICK read : Learn(m, read)
    BY <1>6 DEF Resnapshot, ResnapshotFails
  <2>2. /\ believed' \in [Members -> [Keys -> 0 .. Revision]]
        /\ table' \in [Members -> 0 .. granted]
    BY <2>1, LearnTypes
  <2> QED
    BY <1>3, <2>2
<1>7. ASSUME NEW m \in Members, NEW s \in Slots, Begin(m, s) \/ Mutation(m, s)
      PROVE  Learnt \/ UNCHANGED belief
  BY <1>7, MutationLearns DEF Begin
<1>8. ASSUME NEW m \in Members, Advance(m) \/ WatchBreaks(m) \/ Reconnect(m)
      PROVE  UNCHANGED belief
  BY <1>8 DEF Advance, WatchBreaks, Reconnect
<1>9. ASSUME NEW l \in 1 .. MaxLeases, LeaseExpires(l)
      PROVE  UNCHANGED belief
  BY <1>9 DEF LeaseExpires
<1>10. QED
  BY <1>2, <1>4, <1>5, <1>6, <1>7, <1>8, <1>9 DEF Next

LEMMA HealthTypes ==
    ASSUME Types, Next
    PROVE  /\ ready' \in [Members -> BOOLEAN]
           /\ watching' \in [Members -> {"up", "down", "ended"}]
<1>1. ready \in [Members -> BOOLEAN] /\ watching \in [Members -> {"up", "down", "ended"}]
  BY DEF Types, MembersOK
<1>2. ASSUME NEW m \in Members, NEW s \in Slots, Begin(m, s) \/ Mutation(m, s)
      PROVE  ready' \in {ready, [ready EXCEPT ![m] = FALSE]} /\ watching' = watching
  BY <1>2 DEF Begin, Mutation, CatchUp, CatchUpFence, Grant, GrantFails, ReadSet, ReadReturns, Fence,
     Commit, CommitDelete, AwaitCommit, KeepAlive, Deadline, CallFails, Finish, health
<1>3. ASSUME NEW m \in Members,
             \/ ApplyBatch(m) \/ Advance(m) \/ WatchBreaks(m) \/ Reconnect(m)
             \/ Resnapshot(m) \/ ResnapshotFails(m)
      PROVE  /\ ready' \in {ready} \cup {[ready EXCEPT ![m] = b] : b \in BOOLEAN}
             /\ watching' \in {watching} \cup
                   {[watching EXCEPT ![m] = w] : w \in {"up", "down", "ended"}}
  BY <1>3 DEF ApplyBatch, Advance, WatchBreaks, Reconnect, Resnapshot, ResnapshotFails, health
<1>4. ASSUME NEW l \in 1 .. MaxLeases, LeaseExpires(l)
      PROVE  ready' = ready /\ watching' = watching
  BY <1>4 DEF LeaseExpires, health
<1>5. QED
  BY <1>1, <1>2, <1>3, <1>4 DEF Next

LEMMA TypesKept ==
    ASSUME Inv, Next
    PROVE  Types'
BY HistoryKept, ReplicaTypes, FenceTypes, BeliefTypes, HealthTypes, OpsKept DEF Inv, Types, MembersOK

-----------------------------------------------------------------------------
(* What the stores hold.                                                   *)

LEMMA PresenceKept ==
    ASSUME Inv, Next
    PROVE  PresenceIsReplicated'
<1>1. /\ Types /\ Rooted /\ PresenceIsReplicated
      /\ view \in [Members -> 1 .. Revision]
      /\ store \in [Members -> [Resources -> 0 .. MaxVersion]]
      /\ \A i \in 1 .. Revision : log'[i] = log[i]
  BY HistoryKept DEF Inv, Types, MembersOK
<1> DEFINE Same(m) == store'[m] = store[m] /\ view'[m] = view[m]
<1>2. ASSUME NEW m \in Members, NEW r \in Resources, Same(m)
      PROVE  store'[m][r] # 0 <=> log'[view'[m]][Key(r)].mod # 0
  <2>1. log'[view'[m]] = log[view[m]]
    BY <1>1, <1>2
  <2> QED
    BY <1>1, <1>2, <2>1 DEF PresenceIsReplicated, Held
<1>3. ASSUME NEW m \in Members, ApplyBatch(m) \/ Resnapshot(m)
      PROVE  /\ \A q \in Members \ {m} : Same(q)
             /\ \A r \in Resources : store'[m][r] # 0 <=> log'[view'[m]][Key(r)].mod # 0
  <2>1. CASE ApplyBatch(m)
    <3>1. PICK i \in 1 .. Revision - 1, old \in State, new \in State :
             /\ i = view[m] /\ i + 1 \in 1 .. Revision /\ old = log[i] /\ new = log[i + 1]
             /\ StateOK(old, Revision, granted) /\ StateOK(new, Revision, granted)
             /\ Placed2(old, new)
             /\ view' = [view EXCEPT ![m] = i + 1]
             /\ store' = [store EXCEPT ![m] = ApplyTo(store[m], old, new)]
      BY <1>1, <2>1, AppliesNext
    <3>2. PICK st : st = store[m]
      OBVIOUS
    <3>3. /\ st \in [Resources -> 0 .. MaxVersion]
          /\ \A r \in Resources : st[r] # 0 <=> old[Key(r)].mod # 0
      BY <1>1, <3>1, <3>2 DEF PresenceIsReplicated, Held
    <3>4. \A k \in Keys : new[k].ver \in 0 .. MaxVersion
      BY <3>1 DEF StateOK
    <3>5. \A k \in Keys : new[k].mod # 0 <=> new[k].ver # 0
      BY <3>1 DEF StateOK
    <3>6. \A r \in Resources : ApplyTo(st, old, new)[r] # 0 <=> new[Key(r)].mod # 0
      BY <3>1, <3>3, <3>4, <3>5, ApplyPresence
    <3>7. store'[m] = ApplyTo(st, old, new) /\ log'[view'[m]] = new
      BY <1>1, <3>1, <3>2
    <3>8. \A q \in Members \ {m} : Same(q)
      BY <1>1, <3>1
    <3> QED
      BY <3>6, <3>7, <3>8
  <2>2. CASE Resnapshot(m)
    <3>1. PICK st \in [Resources -> 0 .. MaxVersion] :
             /\ log' = log /\ view' = [view EXCEPT ![m] = Revision]
             /\ store' = [store EXCEPT ![m] = st]
             /\ \A r \in Resources : st[r] = Now[Key(r)].ver
      BY <1>1, <2>2, Snapshots
    <3>2. store'[m] = st /\ log'[view'[m]] = Now
      BY <1>1, <3>1 DEF Now
    <3>3. \A r \in Resources : Now[Key(r)].mod # 0 <=> Now[Key(r)].ver # 0
      BY <1>1, KeyFacts, NowOK DEF Types, StateOK
    <3>4. \A q \in Members \ {m} : Same(q)
      BY <1>1, <3>1
    <3> QED
      BY <3>1, <3>2, <3>3, <3>4
  <2> QED
    BY <1>3, <2>1, <2>2
<1>4. CASE UNCHANGED <<view, store>>
  <2>1. \A m \in Members : Same(m)
    BY <1>4
  <2> QED
    BY <1>2, <2>1 DEF PresenceIsReplicated, Held
<1>5. ASSUME NEW m \in Members, ApplyBatch(m) \/ Resnapshot(m)
      PROVE  PresenceIsReplicated'
  <2>1. ASSUME NEW q \in Members, NEW r \in Resources
        PROVE  store'[q][r] # 0 <=> log'[view'[q]][Key(r)].mod # 0
    BY <1>2, <1>3, <1>5
  <2> QED
    BY <2>1 DEF PresenceIsReplicated, Held
<1>6. QED
  BY <1>4, <1>5, WritersOfContents

LEMMA ReplicaKept ==
    ASSUME Inv, StoreIsReplica, VersionsNeverGoBack, Next
    PROVE  StoreIsReplica'
<1>1. /\ Types /\ Rooted
      /\ view \in [Members -> 1 .. Revision]
      /\ store \in [Members -> [Resources -> 0 .. MaxVersion]]
      /\ \A i \in 1 .. Revision : log'[i] = log[i]
  BY HistoryKept DEF Inv, Types, MembersOK
<1> DEFINE Same(m) == store'[m] = store[m] /\ view'[m] = view[m]
<1>2. ASSUME NEW m \in Members, NEW r \in Resources, Same(m)
      PROVE  store'[m][r] = log'[view'[m]][Key(r)].ver
  <2>1. log'[view'[m]] = log[view[m]]
    BY <1>1, <1>2
  <2> QED
    BY <1>1, <1>2, <2>1 DEF StoreIsReplica
<1>3. ASSUME NEW m \in Members, ApplyBatch(m) \/ Resnapshot(m)
      PROVE  /\ \A q \in Members \ {m} : Same(q)
             /\ \A r \in Resources : store'[m][r] = log'[view'[m]][Key(r)].ver
  <2>1. CASE ApplyBatch(m)
    <3>1. PICK i \in 1 .. Revision - 1, old \in State, new \in State :
             /\ i = view[m] /\ i + 1 \in 1 .. Revision /\ old = log[i] /\ new = log[i + 1]
             /\ StateOK(old, Revision, granted) /\ StateOK(new, Revision, granted)
             /\ Placed2(old, new)
             /\ view' = [view EXCEPT ![m] = i + 1]
             /\ store' = [store EXCEPT ![m] = ApplyTo(store[m], old, new)]
      BY <1>1, <2>1, AppliesNext
    <3>2. PICK st : st = store[m]
      OBVIOUS
    <3>3. /\ st \in [Resources -> 0 .. MaxVersion]
          /\ \A r \in Resources : st[r] = old[Key(r)].ver
      BY <1>1, <3>1, <3>2 DEF StoreIsReplica
    <3>4. \A k \in Keys : new[k].ver \in 0 .. MaxVersion
      BY <3>1 DEF StateOK
    <3>5. /\ \A k \in Keys : new[k].mod # 0 <=> new[k].ver # 0
          /\ \A k \in Keys : old[k].mod # 0 <=> old[k].ver # 0
      BY <3>1 DEF StateOK
    <3>6. \A r \in Resources : old[Key(r)].mod # 0 /\ new[Key(r)].mod # 0
                                  => old[Key(r)].ver <= new[Key(r)].ver
      BY <3>1 DEF VersionsNeverGoBack, Held
    <3>7. \A r \in Resources : ApplyTo(st, old, new)[r] = new[Key(r)].ver
      BY <3>1, <3>3, <3>4, <3>5, <3>6, ApplyVersions
    <3>8. store'[m] = ApplyTo(st, old, new) /\ log'[view'[m]] = new
      BY <1>1, <3>1, <3>2
    <3>9. \A q \in Members \ {m} : Same(q)
      BY <1>1, <3>1
    <3> QED
      BY <3>7, <3>8, <3>9
  <2>2. CASE Resnapshot(m)
    <3>1. PICK st \in [Resources -> 0 .. MaxVersion] :
             /\ log' = log /\ view' = [view EXCEPT ![m] = Revision]
             /\ store' = [store EXCEPT ![m] = st]
             /\ \A r \in Resources : st[r] = Now[Key(r)].ver
      BY <1>1, <2>2, Snapshots
    <3>2. store'[m] = st /\ log'[view'[m]] = Now
      BY <1>1, <3>1 DEF Now
    <3>3. \A q \in Members \ {m} : Same(q)
      BY <1>1, <3>1
    <3> QED
      BY <3>1, <3>2, <3>3
  <2> QED
    BY <1>3, <2>1, <2>2
<1>4. CASE UNCHANGED <<view, store>>
  <2>1. \A m \in Members : Same(m)
    BY <1>4
  <2> QED
    BY <1>2, <2>1 DEF StoreIsReplica
<1>5. ASSUME NEW m \in Members, ApplyBatch(m) \/ Resnapshot(m)
      PROVE  StoreIsReplica'
  <2>1. ASSUME NEW q \in Members, NEW r \in Resources
        PROVE  store'[q][r] = log'[view'[q]][Key(r)].ver
    BY <1>2, <1>3, <1>5
  <2> QED
    BY <2>1 DEF StoreIsReplica
<1>6. QED
  BY <1>4, <1>5, WritersOfContents

-----------------------------------------------------------------------------
(* The invariant, and what follows from it.                                *)

LEMMA Starts ==
    ASSUME Init
    PROVE  Inv /\ StoreIsReplica /\ Refusals
<1>1. PICK kv : kv = [k \in Keys |-> Absent]
  OBVIOUS
<1>2. /\ Absent.mod = 0 /\ Absent.ver = 0 /\ Absent.lease = 0 /\ Absent \in Value
      /\ MaxVersion \in Nat
  BY EtcdConstants DEF Absent, Value
<1>3. kv \in State /\ \A k \in Keys : kv[k] = Absent
  BY <1>1, <1>2 DEF State
<1>4. log = <<kv>> /\ Len(log) = 1 /\ log[1] = kv /\ log \in Seq(State) /\ Revision = 1
  BY <1>1, <1>3 DEF Init, Revision
<1>5. StateOK(kv, 1, 0)
  BY <1>2, <1>3 DEF StateOK
<1>6. HistoryOK
  BY <1>4, <1>5 DEF HistoryOK, Init
<1>7. MembersOK
  BY <1>2, <1>4 DEF MembersOK, Init
<1>8. PICK i : i = Idle
  OBVIOUS
<1>9. MutationOK(i, 1, 0) /\ i.pc = "idle"
  <2>1. 1 \in Nat \ {0} /\ 0 \in Nat
    OBVIOUS
  <2>2. MutationOK(i, 1, 0)
    BY ONLY <1>8, <2>1, IdleOK
  <2> QED
    BY <1>8, <2>2 DEF Idle
<1>10. op = [s \in Slots |-> i] /\ granted = 0
  BY <1>8 DEF Init
<1>11. OpsOK
  BY <1>4, <1>9, <1>10 DEF OpsOK, MutationOK
<1>12. Rooted
  BY <1>4 DEF Rooted
<1>13. PresenceIsReplicated /\ StoreIsReplica
  BY <1>2, <1>3, <1>4, KeyFacts DEF PresenceIsReplicated, StoreIsReplica, Held, Init
<1>14. Refusals
  BY <1>9, <1>10 DEF Refusals, RefusalIsTrue
<1>15. QED
  BY <1>6, <1>7, <1>11, <1>12, <1>13, <1>14 DEF Inv, Types

LEMMA Steps ==
    ASSUME Inv, [Next]_vars
    PROVE  Inv'
<1>1. CASE Next
  BY <1>1, TypesKept, RootedKept, PresenceKept DEF Inv
<1>2. CASE UNCHANGED vars
  BY <1>2 DEF vars, etcd, replica, belief, health, bounds, Inv, Types, HistoryOK, MembersOK,
     OpsOK, Rooted, PresenceIsReplicated, Held, Revision
<1>3. QED
  BY <1>1, <1>2

LEMMA TypesAreTypeOK ==
    ASSUME Types
    PROVE  TypeOK
<1>1. /\ HistoryOK /\ MembersOK /\ OpsOK /\ Revision = Len(log) /\ Revision \in Nat
  BY DEF Types, HistoryOK, Revision
<1>2. \A i \in 1 .. Revision : \A k \in Keys :
         /\ log[i][k].mod \in 0 .. i
         /\ log[i][k].ver \in 0 .. MaxVersion
         /\ log[i][k].lease \in Lease
  BY <1>1 DEF HistoryOK, StateOK, Lease
<1>3. /\ alive \subseteq 1 .. granted /\ granted \in Nat
      /\ view \in [Members -> 1 .. Revision]
      /\ store \in [Members -> [Resources -> 0 .. MaxVersion]]
      /\ fence \in [Members -> 1 .. Revision] /\ \A m \in Members : fence[m] <= view[m]
      /\ \A m \in Members, k \in Keys : believed[m][k] \in 0 .. Revision
      /\ table \in [Members -> Lease]
      /\ ready \in [Members -> BOOLEAN]
      /\ watching \in [Members -> {"up", "down", "ended"}]
  BY <1>1 DEF HistoryOK, MembersOK, Lease
<1>4. PICK i : i = Idle
  OBVIOUS
<1>5. i \in Mutations
  <2>1. MutationOK(i, 1, 0)
    BY <1>4, IdleOK
  <2> QED
    BY <2>1 DEF MutationOK
<1>6. ASSUME NEW s \in DOMAIN op
      PROVE  DOMAIN op[s] = DOMAIN i /\ op[s].rev \in 0 .. Revision
  <2>1. MutationOK(op[s], Revision, granted)
    BY <1>1, <1>6 DEF OpsOK
  <2>2. op[s] \in Mutations /\ op[s].rev <= Revision /\ op[s].rev \in Nat
    BY <2>1 DEF MutationOK, Mutations
  <2>3. DOMAIN op[s] = DOMAIN i
    BY <1>5, <2>2 DEF Mutations
  <2> QED
    BY <1>1, <2>2, <2>3
<1>7. QED
  BY <1>2, <1>3, <1>4, <1>6 DEF TypeOK

(* RefusalIsTrue speaks of the history there is.                           *)
LEMMA RefusalMeans ==
    ASSUME NEW o
    PROVE  RefusalIsTrue(o) <=> True(o, log)
BY DEF RefusalIsTrue, True, Held, Revision

LEMMA RefusalsKept ==
    ASSUME Inv, StoreIsReplica, DeletesAreSafe, Refusals, Next
    PROVE  Refusals'
<1>1. /\ Types /\ op \in [Slots -> Mutations] /\ DOMAIN op = Slots
      /\ Revision \in Nat /\ Revision' \in Nat /\ Revision <= Revision'
      /\ Revision = Len(log) /\ Revision' = Len(log')
      /\ \A i \in 1 .. Revision : log'[i] = log[i]
      /\ \A s \in Slots : MutationOK(op[s], Revision, granted)
  BY HistoryKept DEF Inv, Types, OpsOK, Revision
<1>2. ASSUME NEW s \in Slots
      PROVE  True(op[s], log')
  <2>1. PICK o : o = op[s]
    OBVIOUS
  <2>2. True(o, log) /\ o.from \in Nat \ {0}
    BY <1>1, <2>1, RefusalMeans DEF Refusals, MutationOK, Mutations
  <2> QED
    BY <1>1, <2>1, <2>2 DEF True
<1>3. ASSUME NEW s \in DOMAIN op'
      PROVE  True(op'[s], log')
  BY <1>1, <1>2, <1>3, OpSteps DEF OpStep
<1>4. QED
  BY <1>3 DEF Refusals, RefusalIsTrue, True, Held, Revision

(* Replicas stay replicas, and refusals true, until versions go back.      *)
Replicas == VersionsNeverGoBack => StoreIsReplica

LEMMA ReplicasKept ==
    ASSUME Inv, Replicas, [Next]_vars
    PROVE  Replicas'
<1>1. CASE Next
  <2>1. VersionsNeverGoBack' => VersionsNeverGoBack
    BY <1>1, VersionsWere DEF Inv
  <2> QED
    BY <1>1, <2>1, ReplicaKept DEF Replicas
<1>2. CASE UNCHANGED vars
  <2>1. log' = log /\ view' = view /\ store' = store
    BY <1>2 DEF vars, etcd, replica
  <2> QED
    BY <2>1 DEF Replicas, StoreIsReplica, VersionsNeverGoBack, Held, Revision
<1>3. QED
  BY <1>1, <1>2

LEMMA RefusalsStayTrue ==
    ASSUME Inv, Replicas, RefusalsAreTrue, [Next]_vars
    PROVE  RefusalsAreTrue'
<1>1. CASE Next
  <2>1. /\ VersionsNeverGoBack' => VersionsNeverGoBack
        /\ DeletesAreSafe' => DeletesAreSafe
    BY <1>1, VersionsWere, OrphansWere DEF Inv
  <2>2. VersionsNeverGoBack /\ DeletesAreSafe => Refusals'
    BY <1>1, RefusalsKept DEF Replicas, RefusalsAreTrue, Refusals
  <2> QED
    BY <2>1, <2>2 DEF RefusalsAreTrue, Refusals
<1>2. CASE UNCHANGED vars
  <2>1. log' = log /\ op' = op
    BY <1>2 DEF vars, etcd
  <2> QED
    BY <2>1 DEF RefusalsAreTrue, RefusalIsTrue, VersionsNeverGoBack, DeletesAreSafe,
       NeverOrphaned, LeavesStay, Held, Revision
<1>3. QED
  BY <1>1, <1>2

-----------------------------------------------------------------------------
(* The theorems.                                                           *)

(* Every reachable state is well typed, with its mutations.                *)
THEOREM TypesHold == Spec => []TypeOK
<1>1. Init => Inv
  BY Starts
<1>2. Inv /\ [Next]_vars => Inv'
  BY Steps
<1>3. Inv => TypeOK
  BY TypesAreTypeOK DEF Inv
<1>4. QED
  BY <1>1, <1>2, <1>3, PTL DEF Spec

(* What is registered in a store is what etcd held at the revision that    *)
(* the store has reached, for any faults, compactions, expiries and order  *)
(* of commits, also where versions have gone back (_apply_batch).          *)
THEOREM PresenceHolds == Spec => []PresenceIsReplicated
<1>1. Init => Inv
  BY Starts
<1>2. Inv /\ [Next]_vars => Inv'
  BY Steps
<1>3. Inv => PresenceIsReplicated
  BY DEF Inv
<1>4. QED
  BY <1>1, <1>2, <1>3, PTL DEF Spec

(* Every store is etcd's state at the revision it has reached, and its     *)
(* versions etcd's for as long as no commit has replaced a resource by an  *)
(* earlier version of it: the watch refuses nothing else that was          *)
(* committed (_apply_batch, _resnapshot).                                  *)
THEOREM StoresReplicate == Spec => []StoresAreReplicas
<1>1. Init => Inv /\ Replicas
  BY Starts DEF Replicas
<1>2. Inv /\ Replicas /\ [Next]_vars => (Inv /\ Replicas)'
  BY Steps, ReplicasKept
<1>3. Inv /\ Replicas => StoresAreReplicas
  BY TypesAreTypeOK DEF StoresAreReplicas, Inv, Replicas
<1>4. QED
  BY <1>1, <1>2, <1>3, PTL DEF Spec

(* For as long, and where no leaf is deleted that has lost its Device,     *)
(* every 400 for a resource and every 404 for a delete is true of etcd at  *)
(* some moment of the request (register, _catch_up).                       *)
THEOREM RefusalsHold == Spec => []RefusalsAreTrue
<1> DEFINE Kept == Inv /\ Replicas /\ RefusalsAreTrue
<1>1. Init => Kept
  BY Starts DEF Replicas, RefusalsAreTrue, Refusals
<1>2. Kept /\ [Next]_vars => Kept'
  BY Steps, ReplicasKept, RefusalsStayTrue
<1>3. Kept => RefusalsAreTrue
  OBVIOUS
<1>4. QED
  BY <1>1, <1>2, <1>3, PTL DEF Spec

(* Nodes that send one version of each resource never meet the condition:  *)
(* whatever is deleted, expires or fails, the stores are replicas.         *)
COROLLARY OneVersion ==
    ASSUME MaxVersion = 1
    PROVE  Spec => []StoreIsReplica
<1>1. Inv => VersionsNeverGoBack
  <2> SUFFICES ASSUME Inv, NEW i \in 1 .. Revision - 1, NEW r \in Resources,
                      Held(i, r), Held(i + 1, r)
               PROVE  log[i][Key(r)].ver <= log[i + 1][Key(r)].ver
    BY DEF VersionsNeverGoBack
  <2>1. /\ i \in 1 .. Len(log) /\ i + 1 \in 1 .. Len(log) /\ Key(r) \in Keys
        /\ \A j \in 1 .. Len(log) : StateOK(log[j], j, granted)
    BY KeyFacts DEF Inv, Types, HistoryOK, Revision
  <2>2. log[i][Key(r)].ver = 1 /\ log[i + 1][Key(r)].ver = 1
    BY <2>1 DEF StateOK, Held
  <2> QED
    BY <2>2
<1>2. Init => Inv /\ Replicas
  BY Starts DEF Replicas
<1>3. Inv /\ Replicas /\ [Next]_vars => (Inv /\ Replicas)'
  BY Steps, ReplicasKept
<1>4. Inv /\ Replicas => StoreIsReplica
  BY <1>1 DEF Replicas
<1>5. QED
  BY <1>2, <1>3, <1>4, PTL DEF Spec
=============================================================================
