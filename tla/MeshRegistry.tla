---------------------------- MODULE MeshRegistry ----------------------------
(***************************************************************************)
(* The ground root's registry of air nodes (airlink_mesh.c): the s_nodes   *)
(* table the mesh receive task fills from authentic packets, the approval  *)
(* list the operator edits over USB, and the router endpoint each trusted  *)
(* node owns.  A node's MAVLink reaches the shared bus exactly while its   *)
(* endpoint is registered.                                                 *)
(*                                                                         *)
(* Packets arrive in any order and at any time; what they carry is chosen  *)
(* by the air nodes (a serial may be reprovisioned, a flight controller    *)
(* may change its system id).  Power can fail at any moment, also in the   *)
(* middle of the approval record's write.  Power loss and the start-up     *)
(* after it are one step: the root does nothing in between.                *)
(*                                                                         *)
(* Every handler here runs under s_lock.  The table is never compacted, so *)
(* the order of first_seen_us is the order of allocation: rank.            *)
(***************************************************************************)
EXTENDS ABRecords, FiniteSets

CONSTANTS
    Mac,            \* station addresses that hold the fleet key
    Serial,         \* serial numbers
    SystemId,       \* MAVLink system ids
    None,           \* serial not heard yet; system id not known
    MaxNodes,       \* AIRLINK_MESH_MAX_NODES (8): size of s_nodes and of the list
    MaxGeneration   \* the generation at which the approval list is not saved any
                    \* more (UINT32_MAX)

Approval == Serial \X Mac

ASSUME MacAssumption      == IsFiniteSet(Mac)
ASSUME NoneAssumption     == None \notin Serial \cup SystemId
ASSUME MaxNodesAssumption == MaxNodes \in Nat
ASSUME MaxGenAssumption   == MaxGeneration \in Nat
ASSUME ValueAssumption    == Value = SUBSET Approval /\ Default = {}

VARIABLES
    rank,           \* order of first_seen_us; 0: the address has no slot
    serial,         \* info.serial
    approved,       \* info.approved
    isolation,      \* info.isolation_reason
    online,         \* info.online
    system_id,      \* info.system_id, None while system_id_known is false
    endpoint,       \* endpoint_registered
    s_approvals,            \* RAM copy of the approval list
    s_approval_generation,
    allow                   \* NVS keys allow_a and allow_b

nodes == <<rank, serial, approved, isolation, online, system_id, endpoint>>
list  == <<s_approvals, s_approval_generation, allow>>
registry_vars == <<nodes, list>>

Reason == {"none", "not_approved", "identity_changed", "duplicate_system_id", "removed"}

RegistryInit ==
    /\ rank = [m \in Mac |-> 0]
    /\ serial = [m \in Mac |-> None]
    /\ approved = [m \in Mac |-> FALSE]
    /\ isolation = [m \in Mac |-> "not_approved"]
    /\ online = [m \in Mac |-> FALSE]
    /\ system_id = [m \in Mac |-> None]
    /\ endpoint = [m \in Mac |-> FALSE]
    /\ s_approvals = {}
    /\ s_approval_generation = 0
    /\ allow = EmptyPair

-----------------------------------------------------------------------------
(* The node table. *)

Present == {m \in Mac : rank[m] > 0}

\* find_or_allocate_node finds or gets a slot.
HasSlot(m) == m \in Present \/ Cardinality(Present) < MaxNodes

\* The part of rx_task and process_root_packet every packet goes through: a new
\* address takes a free slot, and the sender counts as online.
Seen(m) ==
    /\ HasSlot(m)
    /\ rank' = IF m \in Present THEN rank
               ELSE [rank EXCEPT ![m] = Cardinality(Present) + 1]
    /\ online' = [online EXCEPT ![m] = TRUE]

\* HELLO: the approval of the node is looked up afresh.
Hello(m, s) ==
    LET changed == serial[m] \notin {None, s}
        trusted == ~changed /\ <<s, m>> \in s_approvals
    IN  /\ Seen(m)
        /\ serial' = [serial EXCEPT ![m] = s]
        /\ approved' = [approved EXCEPT ![m] = trusted]
        /\ isolation' = [isolation EXCEPT ![m] =
               IF changed THEN "identity_changed"
               ELSE IF trusted THEN "none" ELSE "not_approved"]
        /\ endpoint' = [endpoint EXCEPT ![m] = trusted]
        /\ UNCHANGED <<system_id, list>>

\* The approved nodes that clash with candidate once its system id is id.
Rivals(candidate, id) ==
    {m \in Present \ {candidate} :
        approved[m] /\ online[m] /\ system_id[m] = id}

\* Mutant: the earlier node of a pair is isolated.
EarlierIsolated(candidate, id, trusted) ==
    IF id = None \/ ~trusted THEN {}
    ELSE LET rivals == Rivals(candidate, id)
         IN  {m \in rivals : rank[m] < rank[candidate]}
               \cup {m \in {candidate} : \E r \in rivals : rank[r] >= rank[m]}

\* refresh_duplicate_isolation: of each clashing pair the node with the later
\* first_seen_us is isolated; `trusted` says whether the candidate is approved.
Isolated(candidate, id, trusted) ==
    IF id = None \/ ~trusted THEN {}
    ELSE LET rivals == Rivals(candidate, id)
         IN  {m \in rivals : rank[m] > rank[candidate]}
               \cup {m \in {candidate} : \E r \in rivals : rank[r] <= rank[m]}

\* NODE_STATUS: the duplicate check.
Status(m, id) ==
    LET later == Isolated(m, id, approved[m])
    IN  /\ Seen(m)
        /\ system_id' = [system_id EXCEPT ![m] = id]
        /\ isolation' = [n \in Mac |-> IF n \in later THEN "duplicate_system_id"
                                       ELSE isolation[n]]
        /\ endpoint' = [n \in Mac |-> endpoint[n] /\ n \notin later]
        /\ UNCHANGED <<serial, approved, list>>

\* Any other authentic packet (MAVLINK_UP and the responses) only refreshes the
\* node's presence here.
OtherPacket(m) ==
    /\ Seen(m)
    /\ UNCHANGED <<serial, approved, isolation, system_id, endpoint, list>>

\* periodic_task after five silent seconds.
Expire(m) ==
    /\ online[m]
    /\ online' = [online EXCEPT ![m] = FALSE]
    /\ UNCHANGED <<rank, serial, approved, isolation, system_id, endpoint, list>>

-----------------------------------------------------------------------------
(* The operator. *)

\* save_approvals_locked.
Save(approvals) ==
    /\ s_approval_generation < MaxGeneration
    /\ s_approvals' = approvals
    /\ s_approval_generation' = s_approval_generation + 1
    /\ allow' = Written(allow, approvals, s_approval_generation + 1)

\* airlink_mesh_approval_add.
ApprovalAdd(s, m) ==
    \/ <<s, m>> \in s_approvals /\ UNCHANGED list
    \/ /\ <<s, m>> \notin s_approvals
       /\ Cardinality(s_approvals) < MaxNodes
       /\ Save(s_approvals \cup {<<s, m>>})

\* airlink_mesh_approve_node of an address that has no slot: only the list.
ApproveAbsent(s, m) ==
    /\ m \notin Present
    /\ ApprovalAdd(s, m)
    /\ UNCHANGED nodes

\* airlink_mesh_approve_node of a known node under the serial it reports.
Approve(s, m) ==
    LET later == Isolated(m, system_id[m], TRUE)
    IN  /\ m \in Present
        /\ serial[m] = s
        /\ ApprovalAdd(s, m)
        /\ approved' = [approved EXCEPT ![m] = TRUE]
        /\ isolation' = [n \in Mac |-> IF n \in later THEN "duplicate_system_id"
                                       ELSE IF n = m THEN "none"
                                       ELSE isolation[n]]
        /\ endpoint' = [n \in Mac |-> (endpoint[n] \/ n = m) /\ n \notin later]
        /\ UNCHANGED <<rank, serial, online, system_id>>

\* Mutant: the removed node keeps its endpoint.
RemoveKeepingEndpoint(s, m) ==
    /\ <<s, m>> \in s_approvals
    /\ Save(s_approvals \ {<<s, m>>})
    /\ approved' = [approved EXCEPT ![m] = FALSE]
    /\ isolation' = [isolation EXCEPT ![m] = "removed"]
    /\ UNCHANGED <<rank, serial, online, system_id, endpoint>>

\* airlink_mesh_remove_node.
Remove(s, m) ==
    /\ <<s, m>> \in s_approvals
    /\ Save(s_approvals \ {<<s, m>>})
    /\ IF m \in Present
       THEN /\ approved' = [approved EXCEPT ![m] = FALSE]
            /\ isolation' = [isolation EXCEPT ![m] = "removed"]
            /\ endpoint' = [endpoint EXCEPT ![m] = FALSE]
       ELSE UNCHANGED <<approved, isolation, endpoint>>
    /\ UNCHANGED <<rank, serial, online, system_id>>

-----------------------------------------------------------------------------
(* Power loss and start-up. *)

\* airlink_mesh_config_init reads the list back; the node table starts empty.
Restart ==
    /\ rank' = [m \in Mac |-> 0]
    /\ serial' = [m \in Mac |-> None]
    /\ approved' = [m \in Mac |-> FALSE]
    /\ isolation' = [m \in Mac |-> "not_approved"]
    /\ online' = [m \in Mac |-> FALSE]
    /\ system_id' = [m \in Mac |-> None]
    /\ endpoint' = [m \in Mac |-> FALSE]
    /\ s_approvals' = Newest(allow').value
    /\ s_approval_generation' = Newest(allow').generation

PowerLoss ==
    /\ UNCHANGED allow
    /\ Restart

\* Power fails while save_approvals_locked writes the list with, or without, an
\* entry.
PowerLossInSave(approvals) ==
    /\ s_approval_generation < MaxGeneration
    /\ allow' \in Interrupted(allow, approvals, s_approval_generation + 1, TRUE)
    /\ Restart

RegistryNext ==
    \/ \E m \in Mac, s \in Serial :
          \/ Hello(m, s)
          \/ ApproveAbsent(s, m) \/ Approve(s, m) \/ Remove(s, m)
    \/ \E m \in Mac : Expire(m) \/ OtherPacket(m)
    \/ \E m \in Mac, id \in SystemId \cup {None} : Status(m, id)
    \/ PowerLoss
    \/ \E entry \in Approval :
          \/ /\ entry \notin s_approvals
             /\ Cardinality(s_approvals) < MaxNodes
             /\ PowerLossInSave(s_approvals \cup {entry})
          \/ /\ entry \in s_approvals
             /\ PowerLossInSave(s_approvals \ {entry})

RegistrySpec == RegistryInit /\ [][RegistryNext]_registry_vars

-----------------------------------------------------------------------------
(* Properties. *)

RegistryTypeOK ==
    /\ rank \in [Mac -> Nat]
    /\ serial \in [Mac -> Serial \cup {None}]
    /\ approved \in [Mac -> BOOLEAN]
    /\ isolation \in [Mac -> Reason]
    /\ online \in [Mac -> BOOLEAN]
    /\ system_id \in [Mac -> SystemId \cup {None}]
    /\ endpoint \in [Mac -> BOOLEAN]
    /\ s_approvals \in SUBSET Approval
    /\ s_approval_generation \in Nat
    /\ allow \in Pair

\* Only a node whose serial and address the operator approved, and that nothing
\* isolates, feeds the shared MAVLink bus; the approval is the durable one, so a
\* restart admits nobody else.  HELLO, NODE_STATUS, approval, removal and
\* duplicate isolation of other nodes all move the fields this relates.
OnlyTrustedFeedTheBus ==
    \A m \in Mac :
        endpoint[m] => /\ approved[m] /\ isolation[m] = "none"
                       /\ <<serial[m], m>> \in Newest(allow).value

\* The running list is what a restart would read back: same generation, same
\* entries, whatever power losses struck its writes.
ApprovalsDurable ==
    /\ Newest(allow).generation = s_approval_generation
    /\ Newest(allow).value = s_approvals

\* No step, a restart after a torn write included, goes back to an earlier list:
\* a removed aircraft does not return and an approved one is not forgotten.
ApprovalsNeverRollBack ==
    [][ \/ s_approval_generation' > s_approval_generation
        \/ UNCHANGED <<s_approvals, s_approval_generation>> ]_registry_vars

\* Duplicate isolation never hits the node that was there first: whoever is newly
\* isolated for its system id came after an approved node with that id.
LaterNodeIsIsolated ==
    [][ \A m \in Mac :
          isolation[m] # "duplicate_system_id" /\ isolation'[m] = "duplicate_system_id"
          => \E n \in Mac : /\ rank'[n] \in 1 .. rank'[m] - 1
                            /\ approved'[n] /\ system_id'[n] = system_id'[m] ]_registry_vars

=============================================================================
