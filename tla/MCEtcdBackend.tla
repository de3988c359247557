--------------------------- MODULE MCEtcdBackend ---------------------------
(***************************************************************************)
(* EtcdBackend for TLC: two mutations at a time of a Node and its Device,  *)
(* registrations of a Node in two versions, one mutation at a time while   *)
(* etcd's calls fail, watches break and history is compacted, and one at a *)
(* time of a tree with a leaf.  The parts share the variables and the      *)
(* properties; a behaviour keeps to the part it began in.                  *)
(***************************************************************************)
EXTENDS EtcdBackend, TLC

CONSTANTS Sender, OneSlot
VARIABLE part

Register(resources) == {<<"register", r>> : r \in resources}

\* All that a Node with a Device asks for.
NodeAndDevice ==
    Register({Node, Device}) \cup {<<"unregister", Node>>, <<"heartbeat", Node>>}

\* Registrations of the whole tree, and the Device's removal.
WholeTree == Register({Node, Device, Sender}) \cup {<<"unregister", Device>>}

\* What any part asks for, and no leaf is deleted (LeavesStay): the constants
\* of the run are the largest of each part's.
AnyRequest == NodeAndDevice \cup WholeTree

Together == INSTANCE EtcdBackend WITH
    Requests <- NodeAndDevice \ {<<"heartbeat", Node>>}, MaxVersion <- 1,
    MaxRequests <- 3, MaxLeases <- 1, MaxExpiries <- 0, MaxFaults <- 0,
    MayCompact <- FALSE

\* What a request leaves behind when its deadline passes at the fence misleads
\* the one after it.
Versions == INSTANCE EtcdBackend WITH
    Requests <- Register({Node}), Slots <- {OneSlot}, MaxRequests <- 4,
    MaxExpiries <- 0, MaxFaults <- 0, MayCompact <- FALSE

Faulty == INSTANCE EtcdBackend WITH
    Requests <- NodeAndDevice, MaxVersion <- 1, Slots <- {OneSlot},
    MaxRequests <- 3

Leafy == INSTANCE EtcdBackend WITH
    Requests <- WholeTree, MaxVersion <- 1, Slots <- {OneSlot}, MaxLeases <- 1,
    MaxExpiries <- 0, MaxFaults <- 0, MayCompact <- FALSE

ASSUME InstancesAssumption == Leaves = {Sender}

BackendInit ==
    \/ part = "together" /\ Together!Init
    \/ part = "versions" /\ Versions!Init
    \/ part = "faulty" /\ Faulty!Init
    \/ part = "leafy" /\ Leafy!Init

\* A response of the watch brings one revision, and the next is read after the
\* task that the first has left to the event loop.
BackendNext ==
    /\ UNCHANGED part
    /\ \/ part = "together" /\ Together!Next
       \/ part = "versions" /\ Versions!Next
       \/ part = "faulty" /\ Faulty!Next
       \/ part = "leafy" /\ Leafy!Next
    /\ \A m \in Members : view'[m] <= fence'[m] + 1

BackendSpec == BackendInit /\ [][BackendNext]_<<vars, part>>

\* Slots are interchangeable; members are not, for Idle names one of them.
SlotSymmetry == Permutations(Slots)
=============================================================================
