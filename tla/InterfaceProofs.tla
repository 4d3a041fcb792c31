-------------------------- MODULE InterfaceProofs ---------------------------
(***************************************************************************)
(* Proofs about the two interfaces of the switch on which others rely.     *)
(*                                                                         *)
(* To its controllers (Roles), for any number of primary and service       *)
(* connections, any generation ids and any settings: at most one primary   *)
(* connection is master, no connection gets what its settings do not let   *)
(* through, and a deposed controller changes nothing.                      *)
(*                                                                         *)
(* To the enclave (CallTable), for any table of signatures in which each   *)
(* wrapper agrees with its case, rings of any size and any batches that    *)
(* fit into them: an ecall gets the arguments of its own call, also when   *)
(* the call waited in a batch.                                             *)
(***************************************************************************)
EXTENDS Roles, CallTable, FiniteSetTheorems, TLAPS

LEMMA RolesHold == RolesInit => RolesInv
<1> SUFFICES ASSUME RolesInit PROVE RolesInv
  OBVIOUS
<1> USE DEF RolesInit
<1>1. RolesTypeOK
  BY SettingsAssumption DEF RolesTypeOK, DefaultMaster, DefaultSlave, DefaultMissSendLen, AllEvents
<1>2. OneMaster /\ DeposedIsSlave /\ Unasked
  BY DEF OneMaster, DeposedIsSlave, Unasked, Conns
<1>3. SettingsAreOwn
  BY TypesAssumption DEF SettingsAreOwn, Conns, DefaultMaster, DefaultSlave, DefaultMissSendLen
<1> QED
  BY <1>1, <1>2, <1>3 DEF RolesInv

-----------------------------------------------------------------------------
(* The connection is lost, noticed, and comes back.                        *)
LEMMA DropStep == ASSUME RolesInv, heard' = {}, NEW c \in Conns, Drop(c) PROVE RolesInv'
<1> USE DEF RolesInv, Drop, settings, history
<1>1. RolesTypeOK'
  BY DEF RolesTypeOK
<1>2. OneMaster' /\ DeposedIsSlave' /\ Unasked'
  BY DEF RolesTypeOK, OneMaster, DeposedIsSlave, Unasked
<1>3. SettingsAreOwn'
  BY DEF RolesTypeOK, SettingsAreOwn
<1> QED
  BY <1>1, <1>2, <1>3, SMTT(60)

LEMMA RunStep == ASSUME RolesInv, heard' = {}, NEW c \in Conns, ofconn_run(c) PROVE RolesInv'
<1> USE DEF RolesInv, ofconn_run, ofconn_flush, history
<1>1. RolesTypeOK'
  BY SettingsAssumption, SMTT(60), ZenonT(30)
     DEF RolesTypeOK, DefaultMaster, DefaultSlave, DefaultMissSendLen, AllEvents
<1>2. OneMaster'
  BY SMTT(60) DEF RolesTypeOK, OneMaster, Conns
<1>3. DeposedIsSlave' /\ Unasked'
  BY SMTT(60), ZenonT(30) DEF RolesTypeOK, DeposedIsSlave, Unasked
<1>4. SettingsAreOwn'
  BY TypesAssumption DEF RolesTypeOK, SettingsAreOwn, Conns, DefaultMaster, DefaultSlave, DefaultMissSendLen
<1> QED
  BY <1>1, <1>2, <1>3, <1>4, SMTT(60)

LEMMA ConnectStep == ASSUME RolesInv, heard' = {}, NEW c \in Conns, Connect(c) PROVE RolesInv'
<1> USE DEF RolesInv, Connect, settings
<1>1. RolesTypeOK'
  BY DEF RolesTypeOK
<1>2. OneMaster' /\ DeposedIsSlave' /\ Unasked'
  BY DEF RolesTypeOK, OneMaster, DeposedIsSlave, Unasked
<1>3. SettingsAreOwn'
  BY DEF RolesTypeOK, SettingsAreOwn
<1> QED
  BY <1>1, <1>2, <1>3, SMTT(60), ZenonT(30)

LEMMA ReconfigureStep ==
    ASSUME RolesInv, heard' = {}, NEW c \in Conns, ofconn_reconfigure(c) PROVE RolesInv'
<1> USE DEF RolesInv, ofconn_reconfigure, settings, history
<1>1. RolesTypeOK'
  BY SMTT(60), ZenonT(30) DEF RolesTypeOK
<1>2. OneMaster' /\ DeposedIsSlave' /\ SettingsAreOwn' /\ Unasked'
  BY DEF RolesTypeOK, OneMaster, DeposedIsSlave, SettingsAreOwn, Unasked
<1> QED
  BY <1>1, <1>2, SMTT(60)

-----------------------------------------------------------------------------
(* A new master leaves no other among the primary connections, and makes   *)
(* slaves of those it deposes; everyone else's role stays.                 *)
LEMMA RoleRequestStep ==
    ASSUME RolesInv, heard' = {}, NEW c \in Conns, NEW r \in {"MASTER", "SLAVE", "EQUAL"},
           NEW id \in Generations \cup {NoId}, handle_role_request(c, r, id)
    PROVE  RolesInv'
<1> USE DEF RolesInv, handle_role_request, ofconn_set_role
<1>1. RolesTypeOK'
  <2>1. role' \in [Conns -> {"MASTER", "SLAVE", "EQUAL"}]
    BY DEF RolesTypeOK
  <2>2. election' \in [defined : BOOLEAN, id : Generations \cup {0}]
    BY DEF RolesTypeOK
  <2>3. deposed' \subseteq Conns
    BY SMTT(60), ZenonT(30) DEF RolesTypeOK
  <2> QED
    BY <2>1, <2>2, <2>3, SMTT(60), ZenonT(30) DEF RolesTypeOK, settings
<1>2. OneMaster'
  BY SMTT(60) DEF RolesTypeOK, OneMaster, Conns
<1>3. DeposedIsSlave'
  BY DEF RolesTypeOK, DeposedIsSlave, Conns
<1>4. SettingsAreOwn' /\ Unasked'
  BY DEF SettingsAreOwn, Unasked, settings
<1> QED
  BY ONLY <1>1, <1>2, <1>3, <1>4, ZenonT(30) DEF RolesInv

(* Settings count as the connection's own from now on.                     *)
LEMMA SetConfigStep ==
    ASSUME RolesInv, heard' = {}, NEW c \in Conns, NEW cfg \in Configs,
           handle_set_config(c, cfg[1], cfg[2])
    PROVE  RolesInv'
<1> USE DEF RolesInv, handle_set_config
<1>0. cfg[1] \in {0, DEFAULT} /\ cfg[2] \in BOOLEAN
  BY SettingsAssumption, SMTT(60), ZenonT(30)
<1>1. RolesTypeOK'
  BY <1>0, SMTT(60), ZenonT(30) DEF RolesTypeOK, AllEvents, PacketIn
<1>2. OneMaster' /\ DeposedIsSlave' /\ Unasked'
  BY SMTT(60) DEF OneMaster, DeposedIsSlave, Unasked
<1>3. SettingsAreOwn'
  BY SMTT(60), ZenonT(30) DEF RolesTypeOK, SettingsAreOwn
<1> QED
  BY <1>1, <1>2, <1>3, SMTT(60), ZenonT(30)

LEMMA SetAsyncStep ==
    ASSUME RolesInv, heard' = {}, NEW c \in Conns, NEW m \in AsyncMasks, NEW s \in AsyncMasks,
           handle_nxt_set_async_config(c, m, s)
    PROVE  RolesInv'
<1> USE DEF RolesInv, handle_nxt_set_async_config
<1>1. RolesTypeOK'
  BY SettingsAssumption DEF RolesTypeOK
<1>2. OneMaster' /\ DeposedIsSlave' /\ Unasked'
  BY SMTT(60), ZenonT(30) DEF OneMaster, DeposedIsSlave, Unasked
<1>3. SettingsAreOwn'
  BY DEF RolesTypeOK, SettingsAreOwn
<1> QED
  BY <1>1, <1>2, <1>3

LEMMA SetControllerIdStep ==
    ASSUME RolesInv, heard' = {}, NEW c \in Conns, NEW id \in Ids, handle_nxt_set_controller_id(c, id)
    PROVE  RolesInv'
<1> USE DEF RolesInv, handle_nxt_set_controller_id, history
<1>1. RolesTypeOK'
  BY SMTT(60), ZenonT(30) DEF RolesTypeOK
<1>2. OneMaster' /\ DeposedIsSlave' /\ SettingsAreOwn' /\ Unasked'
  BY DEF OneMaster, DeposedIsSlave, SettingsAreOwn, Unasked
<1> QED
  BY <1>1, <1>2, SMTT(60), ZenonT(30)

LEMMA ModifyStep ==
    ASSUME RolesInv, heard' = {}, NEW c \in Conns, Modify(c) \/ Complete(c) PROVE RolesInv'
<1> USE DEF RolesInv, Modify, Complete, settings, history
<1>1. RolesTypeOK'
  BY SMTT(60), ZenonT(30) DEF RolesTypeOK
<1>2. OneMaster' /\ DeposedIsSlave' /\ SettingsAreOwn' /\ Unasked'
  BY DEF OneMaster, DeposedIsSlave, SettingsAreOwn, Unasked
<1> QED
  BY ONLY <1>1, <1>2, ZenonT(30) DEF RolesInv

(* What is sent is what the settings of the receivers let through.         *)
LEMMA SendStep ==
    ASSUME RolesInv, NEW e \in Events, NEW id \in Ids, Send(e, id) PROVE RolesInv'
<1> USE DEF RolesInv, Send, settings, history
<1>1. RolesTypeOK'
  BY SMTT(60) DEF RolesTypeOK
<1>2. OneMaster' /\ DeposedIsSlave' /\ SettingsAreOwn'
  BY ZenonT(30) DEF OneMaster, DeposedIsSlave, SettingsAreOwn
<1>3. Unasked'
  <2> SUFFICES ASSUME NEW c \in Conns, ofconn_receives_async_msg(c, e)
               PROVE  /\ c \in Service => said[c] # {}
                      /\ role[c] = "SLAVE" /\ "async" \notin said[c] => e = "port_status"
                      /\ e = "invalid_ttl" => said[c] # {}
    BY DEF Unasked
  <2> QED
    BY SMTT(60), ZenonT(30) DEF ofconn_receives_async_msg, SettingsAreOwn, RolesTypeOK
<1> QED
  BY ONLY <1>1, <1>2, <1>3, ZenonT(30) DEF RolesInv

-----------------------------------------------------------------------------
LEMMA RolesStep == RolesInv /\ [RolesNext]_roleVars => RolesInv'
<1> SUFFICES ASSUME RolesInv, [RolesNext]_roleVars PROVE RolesInv'
  OBVIOUS
<1>1. ASSUME NEW e \in Events, NEW id \in Ids, Send(e, id) PROVE RolesInv'
  BY <1>1, SendStep
<1>2. ASSUME heard' = {}, NEW c \in Conns, Drop(c) PROVE RolesInv'
  BY <1>2, DropStep
<1>3. ASSUME heard' = {}, NEW c \in Conns, ofconn_run(c) PROVE RolesInv'
  BY <1>3, RunStep, SMTT(60), ZenonT(30)
<1>4. ASSUME heard' = {}, NEW c \in Conns, Connect(c) PROVE RolesInv'
  BY <1>4, ConnectStep
<1>5. ASSUME heard' = {}, NEW c \in Conns, ofconn_reconfigure(c) PROVE RolesInv'
  BY <1>5, ReconfigureStep
<1>6. ASSUME heard' = {}, NEW c \in Conns, Complete(c) PROVE RolesInv'
  BY <1>6, ModifyStep
<1>7. ASSUME heard' = {}, NEW c \in Conns, Request(c) PROVE RolesInv'
  BY <1>7, ModifyStep, RoleRequestStep, SetConfigStep, SetAsyncStep, SetControllerIdStep, ZenonT(30)
     DEF Request
<1>8. CASE UNCHANGED roleVars
  BY <1>8 DEF roleVars, RolesInv, RolesTypeOK, OneMaster, DeposedIsSlave, SettingsAreOwn, Unasked
<1> QED
  BY <1>1, <1>2, <1>3, <1>4, <1>5, <1>6, <1>7, <1>8, SMTT(60), ZenonT(30) DEF RolesNext

(* The inductive invariant of roles and settings.                          *)
THEOREM RolesInductive == RolesSpec => []RolesInv
  BY RolesHold, RolesStep, PTL DEF RolesSpec

(* However controllers connect, drop, ask for roles and are postponed, at  *)
(* most one primary connection is master (connmgr.c:871-886).              *)
THEOREM MasterIsUnique == RolesSpec => []OneMaster
<1>1. RolesInv => OneMaster
  BY DEF RolesInv
<1> QED
  BY RolesInductive, <1>1, PTL

(* No connection gets an asynchronous message that neither the defaults    *)
(* nor its own settings let through (connmgr.c:1143-1177, 1299-1336).      *)
THEOREM NothingUnasked == RolesSpec => []Unasked
<1>1. RolesInv => Unasked
  BY DEF RolesInv
<1> QED
  BY RolesInductive, <1>1, PTL

(* A deposed primary controller changes nothing before it asks for a role  *)
(* or reconnects: every request of it that would is refused                *)
(* (ofproto.c:2509-2518).                                                  *)
THEOREM DeposedIsFenced == RolesSpec => Fenced
<1>1. RolesInv /\ [RolesNext]_roleVars => [DeposedChangesNothing]_roleVars
  <2> SUFFICES ASSUME RolesInv, NEW c \in Primary, c \in deposed, Request(c)
               PROVE  changed' = changed
    BY SMTT(60) DEF DeposedChangesNothing
  <2>1. status[c] = "up"
    BY ZenonT(30) DEF Request, Modify, handle_role_request, handle_set_config,
           handle_nxt_set_async_config, handle_nxt_set_controller_id
  <2>2. role[c] = "SLAVE"
    BY <2>1, SMTT(60), ZenonT(30) DEF RolesInv, DeposedIsSlave
  <2> QED
    BY <2>2, ZenonT(30) DEF Request, Modify, reject_slave_controller, handle_role_request,
                handle_set_config, handle_nxt_set_async_config, handle_nxt_set_controller_id
<1> QED
  BY RolesInductive, <1>1, PTL DEF RolesSpec, Fenced

-----------------------------------------------------------------------------
(* The cells of a ring: what is taken now is not among the last Ring - 2,  *)
(* and idx moves on as far as cells are taken.                             *)
LEMMA RingMoves ==
    ASSUME NEW i \in 0 .. Ring, NEW n \in 1 .. 2, Ring >= 2
    PROVE  /\ Wrap(i + n - 1) + 1 \in 0 .. Ring
           /\ \A b \in 0 .. n - 1 :
                /\ Wrap(i + b) \in 0 .. Ring - 1
                /\ Wrap(i + b) = Behind(Wrap(i + n - 1) + 1, n - b)
                /\ \A c \in 0 .. n - 1 : Wrap(i + b) = Wrap(i + c) => b = c
                /\ \A d \in 1 .. Ring - 2 : Wrap(i + b) # Behind(i, d)
           /\ \A d \in 1 .. Ring - 2 : Behind(i, d) = Behind(Wrap(i + n - 1) + 1, d + n)
  BY CallsAssumption DEF Wrap, Behind

LEMMA BehindType ==
    ASSUME NEW i \in 0 .. Ring, NEW d \in 1 .. Ring - 2
    PROVE  Behind(i, d) \in 0 .. Ring - 1
  BY CallsAssumption DEF Behind

(* The values of one type that a call takes before its i-th argument.      *)
LEMMA Counted ==
    ASSUME NEW S, NEW params \in Seq(S), NEW t, NEW j \in 1 .. Len(params) + 1
    PROVE  /\ Before(params, j, t) \in Nat
           /\ \A i \in 1 .. j - 1 : params[i] = t => Before(params, i, t) < Before(params, j, t)
<1> DEFINE Same(k) == {i \in 1 .. k - 1 : params[i] = t}
<1>1. \A k \in 1 .. Len(params) + 1 : IsFiniteSet(Same(k)) /\ Cardinality(Same(k)) \in Nat
  <2> SUFFICES ASSUME NEW k \in 1 .. Len(params) + 1
               PROVE  IsFiniteSet(Same(k)) /\ Cardinality(Same(k)) \in Nat
    BY ZenonT(30)
  <2>1. IsFiniteSet(1 .. k - 1)
    BY FS_Interval, 1 \in Int, k - 1 \in Int
  <2>2. Same(k) \subseteq 1 .. k - 1
    OBVIOUS
  <2> QED
    BY <2>1, <2>2, FS_Subset, FS_CardinalityType
<1>2. \A i \in 1 .. j - 1 : params[i] = t => Cardinality(Same(i)) < Cardinality(Same(j))
  <2> SUFFICES ASSUME NEW i \in 1 .. j - 1, params[i] = t
               PROVE  Cardinality(Same(i)) < Cardinality(Same(j))
    OBVIOUS
  <2>1. Same(i) \cup {i} \subseteq Same(j) /\ i \notin Same(i) /\ i \in 1 .. Len(params) + 1
    BY SMTT(60)
  <2>2. IsFiniteSet(Same(i)) /\ IsFiniteSet(Same(j))
    BY <1>1, <2>1, SMTT(60), ZenonT(30)
  <2>3. Cardinality(Same(i) \cup {i}) = Cardinality(Same(i)) + 1
    BY <2>1, <2>2, FS_AddElement, ZenonT(30)
  <2>4. Cardinality(Same(i) \cup {i}) <= Cardinality(Same(j))
    BY <2>1, <2>2, FS_Subset, SMTT(60), ZenonT(30)
  <2> HIDE DEF Same
  <2>5. Cardinality(Same(i)) \in Nat /\ Cardinality(Same(j)) \in Nat
    BY <1>1, <2>1, SMTT(60), ZenonT(30)
  <2> QED
    BY <2>3, <2>4, <2>5, SMTT(60)
<1> QED
  BY <1>1, <1>2, ZenonT(30) DEF Before

(* The counter of the bridges.                                             *)
LEMMA CounterMoves ==
    ASSUME NEW n \in 0 .. CounterSize - 1
    PROVE  /\ (n + 1) % CounterSize \in 0 .. CounterSize - 1
           /\ n + 1 < CounterSize => (n + 1) % CounterSize = n + 1
  BY CallsAssumption, SMTT(60), ZenonT(30)

LEMMA CallsHold == SignaturesAgree /\ CallsInit => CallsInv
<1> SUFFICES ASSUME SignaturesAgree, CallsInit PROVE CallsInv
  BY SMTT(60), ZenonT(30)
<1> USE CallsAssumption DEF CallsInit
<1>1. CallsTypeOK
  BY SMTT(60), ZenonT(30) DEF CallsTypeOK, Unused, Rings
<1>2. Waiting /\ Numbered /\ ArgumentsDelivered /\ ResultsDelivered
  BY DEF Waiting, Numbered, ArgumentsDelivered, ResultsDelivered
<1> QED
  BY <1>1, <1>2, SMTT(60) DEF CallsInv

-----------------------------------------------------------------------------
LEMMA SeqDomain ==
    ASSUME NEW S, NEW q \in Seq(S)
    PROVE  Len(q) \in Nat /\ DOMAIN q = 1 .. Len(q)
  OBVIOUS

LEMMA SeqMap ==
    ASSUME NEW S, NEW D, NEW q \in Seq(D), NEW f \in [DOMAIN q -> S]
    PROVE  f \in Seq(S)
  OBVIOUS

(* A new bridge (sgx_ofproto_init_tables).                                 *)
LEMMA BridgeStep ==
    ASSUME CallsInv, sgx_ofproto_init_tables PROVE CallsInv'
<1>1. /\ bridges \in [running : BOOLEAN, counter : 0 .. CounterSize - 1, ids : Seq(Nat)]
      /\ batching' = batching /\ idx' = idx /\ cells' = cells /\ queue' = queue
      /\ done' = done /\ result' = result
      /\ bridges' = [running |-> TRUE, counter |-> (bridges.counter + 1) % CounterSize,
                     ids |-> Append(bridges.ids, bridges.counter)]
      /\ Len(bridges.ids) < MaxBridges
  BY DEF CallsInv, CallsTypeOK, sgx_ofproto_init_tables
<1>2. PICK next \in 0 .. CounterSize - 1 :
         /\ next = (bridges.counter + 1) % CounterSize
         /\ bridges.counter + 1 < CounterSize => next = bridges.counter + 1
  BY ONLY <1>1, CounterMoves, ZenonT(30)
<1>3. CallsTypeOK'
  BY <1>1, <1>2 DEF CallsInv, CallsTypeOK
<1>4. Numbered'
  <2> DEFINE ids == bridges.ids
             counter == bridges.counter
  <2>1. /\ Len(ids) <= MaxBridges /\ \A i \in DOMAIN ids : ids[i] = i - 1
        /\ Len(ids) < CounterSize => counter = Len(ids)
    BY ONLY CallsInv, ZenonT(30) DEF CallsInv, Numbered
  <2>2. ids \in Seq(Nat) /\ counter \in 0 .. CounterSize - 1 /\ Len(ids) < MaxBridges
    BY ONLY <1>1, SMTT(60), ZenonT(30)
  <2>3. bridges'.ids = Append(ids, counter) /\ bridges'.counter = next
    BY ONLY <1>1, <1>2
  <2>4. next \in 0 .. CounterSize - 1 /\ (counter + 1 < CounterSize => next = counter + 1)
    BY ONLY <1>2, next \in 0 .. CounterSize - 1, ZenonT(30)
  <2> HIDE DEF ids, counter
  <2>5. /\ Len(Append(ids, counter)) = Len(ids) + 1 /\ Len(ids) \in Nat
        /\ DOMAIN Append(ids, counter) = 1 .. Len(ids) + 1 /\ DOMAIN ids = 1 .. Len(ids)
        /\ \A i \in 1 .. Len(ids) : Append(ids, counter)[i] = ids[i]
        /\ Append(ids, counter)[Len(ids) + 1] = counter
    BY ONLY <2>2
  <2>6. Len(ids) < CounterSize
    BY ONLY <2>2, <2>5, CallsAssumption, SMTT(60), ZenonT(30)
  <2>7. \A i \in 1 .. Len(ids) + 1 : Append(ids, counter)[i] = i - 1
    BY ONLY <2>1, <2>5, <2>6, SMTT(60), ZenonT(30)
  <2>8. /\ Len(Append(ids, counter)) <= MaxBridges
        /\ Len(Append(ids, counter)) < CounterSize => next = Len(Append(ids, counter))
    BY ONLY <2>1, <2>2, <2>4, <2>5, <2>6, CallsAssumption, SMTT(60), ZenonT(30)
  <2> QED
    BY ONLY <2>3, <2>5, <2>7, <2>8, ZenonT(30) DEF Numbered
<1>5. Waiting'
  <2>1. \A k, i : InItsCell(k, i) => InItsCell(k, i)'
    BY ONLY <1>1, ZenonT(30) DEF InItsCell
  <2> QED
    BY ONLY CallsInv, <1>1, <2>1, ZenonT(30) DEF CallsInv, Waiting
<1>6. ArgumentsDelivered' /\ ResultsDelivered'
  BY ONLY CallsInv, <1>1, ZenonT(30) DEF CallsInv, ArgumentsDelivered, ResultsDelivered
<1> QED
  BY ONLY CallsInv, <1>3, <1>4, <1>5, <1>6, ZenonT(30) DEF CallsInv

-----------------------------------------------------------------------------
(* The call that a wrapper prepares.                                       *)
LEMMA PreparedCall ==
    ASSUME CallsInv, NEW id \in Calls
    PROVE  /\ Signature[id].params \in Seq(DOMAIN Layout)
           /\ Prepared(id).id = id /\ Prepared(id).no = Len(queue) + 1
           /\ DOMAIN Prepared(id).args = DOMAIN Signature[id].params
           /\ \A i \in DOMAIN Signature[id].params : Prepared(id).args[i] = CellOf(id, i)
<1>1. Signature[id].params \in Seq(DOMAIN Layout)
  BY ZenonT(30) DEF CallsInv, SignaturesAgree, Agrees
<1>2. Prepared(id) = [id |-> id, no |-> Len(queue) + 1,
                      args |-> [i \in DOMAIN Signature[id].params |-> CellOf(id, i)]]
  BY ZenonT(30) DEF Prepared
<1> QED
  BY ONLY <1>1, <1>2

(* A call that waits.                                                      *)
LEMMA QueuedCall ==
    ASSUME CallsTypeOK, NEW k \in 1 .. Len(queue)
    PROVE  /\ queue[k].id \in Calls
           /\ queue[k].args \in Seq(Argument)
           /\ \A i \in DOMAIN queue[k].args : /\ queue[k].args[i].ring \in Rings \cup {"stack"}
                                             /\ queue[k].args[i].cell \in 0 .. Ring
<1>1. queue[k] \in Call
  BY DEF CallsTypeOK
<1>2. queue[k].id \in Calls /\ queue[k].args \in Seq(Argument)
  BY ONLY <1>1 DEF Call
<1>3. \A i \in DOMAIN queue[k].args : queue[k].args[i] \in Argument
  BY ONLY <1>2
<1> QED
  BY ONLY <1>2, <1>3 DEF Argument

(* What the ecall of a call gets, if the arguments are in their cells.     *)
Kept(fc) ==
    \A i \in DOMAIN fc.args :
        fc.args[i].ring = "stack" \/ cells[fc.args[i].ring][fc.args[i].cell] = <<fc.no, i>>

LEMMA Delivered ==
    ASSUME SignaturesAgree, NEW fc, fc.id \in Calls,
           DOMAIN fc.args = DOMAIN Signature[fc.id].params, Kept(fc)
    PROVE  AsSent(execute_function(fc))
<1> USE DEF Kept
<1> DEFINE n == Len(Signature[fc.id].params)
<1>1. /\ fc.id \in DOMAIN Handler /\ Len(Handler[fc.id].reads) = n
      /\ n \in Nat /\ DOMAIN fc.args = 1 .. n
      /\ \A i \in 1 .. n : Exact(fc.id, i)
  <2>1. Agrees(fc.id)
    BY ZenonT(30) DEF SignaturesAgree
  <2>2. /\ fc.id \in DOMAIN Handler /\ Len(Handler[fc.id].reads) = n
        /\ Signature[fc.id].params \in Seq(DOMAIN Layout)
        /\ \A i \in DOMAIN Signature[fc.id].params : Exact(fc.id, i)
    BY <2>1, ZenonT(30) DEF Agrees
  <2>3. n \in Nat /\ DOMAIN Signature[fc.id].params = 1 .. n
    BY ONLY <2>2, SeqDomain, ZenonT(30)
  <2> QED
    BY <2>2, <2>3, ZenonT(30)
<1>2. \A i \in 1 .. n : Exact(fc.id, i) = TRUE
  BY <1>1, ZenonT(30) DEF Exact
<1>3. \A i \in 1 .. n : Received(fc, i) = [from |-> <<fc.no, i>>, exact |-> TRUE]
  BY <1>1, <1>2, ZenonT(30) DEF Received
<1> HIDE DEF n
<1>4. [i \in 1 .. n |-> IF i \in DOMAIN fc.args THEN Received(fc, i)
                       ELSE [from |-> <<0, 0>>, exact |-> FALSE]]
         = [i \in 1 .. n |-> [from |-> <<fc.no, i>>, exact |-> TRUE]]
  BY ONLY <1>1, <1>3, ZenonT(30)
<1>5. /\ execute_function(fc).id = fc.id /\ execute_function(fc).no = fc.no
      /\ execute_function(fc).got = [i \in 1 .. n |-> [from |-> <<fc.no, i>>, exact |-> TRUE]]
  BY ONLY <1>1, <1>4 DEF execute_function
<1>6. Len([i \in 1 .. n |-> [from |-> <<fc.no, i>>, exact |-> TRUE]]) = n
  BY ONLY <1>1
<1> QED
  BY ONLY <1>1, <1>5, <1>6, ZenonT(30) DEF n, AsSent

(* A wrapper that waits: the queue is executed, and its own call last.     *)
LEMMA SyncStep ==
    ASSUME CallsInv, NEW id \in Calls, HCALL_sync(id) PROVE CallsInv'
<1> DEFINE fcs == Append(queue, Prepared(id))
           n == Len(queue)
<1>1. SignaturesAgree /\ CallsTypeOK /\ Waiting /\ Numbered
  BY SMTT(60) DEF CallsInv
<1>2. /\ ~async(id) /\ queue' = <<>> /\ cells' = Unused /\ idx' = idx /\ bridges' = bridges
      /\ batching' = batching
      /\ done' = [k \in 1 .. n + 1 |-> execute_function(fcs[k])]
      /\ result' = [id |-> id, stored |-> IF id \in DOMAIN Handler THEN Handler[id].stored ELSE 0]
  BY DEF HCALL_sync
<1>3. n \in Nat /\ queue \in Seq(Call)
  BY ONLY <1>1, SMTT(60) DEF CallsTypeOK
<1>4. CallsTypeOK'
  <2>1. Unused \in [Rings -> [0 .. Ring - 1 -> Nat \X Nat]] /\ <<>> \in Seq(Call) /\ Len(<<>>) = 0
    BY ONLY CallsAssumption, SMTT(60), ZenonT(30) DEF Unused
  <2> QED
    BY ONLY <1>1, <1>2, <2>1, CallsAssumption DEF CallsTypeOK
<1>5. Waiting'
  BY ONLY <1>2 DEF Waiting
<1>6. Numbered'
  BY ONLY <1>1, <1>2, ZenonT(30) DEF Numbered
<1>7. ResultsDelivered'
  BY ONLY <1>1, <1>2, id \in Calls, ZenonT(30) DEF ResultsDelivered, SignaturesAgree, Agrees
<1>8. ASSUME NEW k \in 1 .. n PROVE AsSent(execute_function(queue[k]))
  <2>1. /\ queue[k].no = k
        /\ DOMAIN queue[k].args = DOMAIN Signature[queue[k].id].params
        /\ \A i \in DOMAIN queue[k].args : InItsCell(k, i)
    BY <1>1, <1>3 DEF Waiting
  <2>2. Kept(queue[k])
    BY ONLY <1>1, <2>1, QueuedCall, k \in 1 .. n, ZenonT(30) DEF InItsCell, Kept
  <2> QED
    BY ONLY <1>1, <2>1, <2>2, QueuedCall, Delivered, ZenonT(30)
<1>9. AsSent(execute_function(Prepared(id)))
  <2>1. \A i \in DOMAIN Signature[id].params : CellOf(id, i).ring = "stack"
    BY ONLY <1>2, ZenonT(30) DEF CellOf
  <2>2. /\ Prepared(id).id = id
        /\ DOMAIN Prepared(id).args = DOMAIN Signature[id].params
        /\ \A i \in DOMAIN Signature[id].params : Prepared(id).args[i] = CellOf(id, i)
    BY PreparedCall, ZenonT(30)
  <2>3. Kept(Prepared(id))
    BY ONLY <2>1, <2>2, ZenonT(30) DEF Kept
  <2> QED
    BY <1>1, <2>2, <2>3, Delivered, ZenonT(30)
<1>10. ASSUME NEW k \in 1 .. n + 1 PROVE AsSent(execute_function(fcs[k]))
  <2>1. CASE k \in 1 .. n
    <3>1. fcs[k] = queue[k]
      BY ONLY <1>3, <2>1
    <3> QED
      BY ONLY <1>8, <2>1, <3>1, SMTT(60)
  <2>2. CASE k = n + 1
    <3>1. fcs[k] = Prepared(id)
      BY ONLY <1>3, <2>2
    <3> QED
      BY ONLY <1>9, <3>1
  <2>3. k \in 1 .. n \/ k = n + 1
    BY ONLY <1>3, k \in 1 .. n + 1
  <2> QED
    BY ONLY <2>1, <2>2, <2>3, SMTT(60), ZenonT(30)
<1>11. ArgumentsDelivered'
  <2> HIDE DEF fcs, n
  <2> QED
    BY ONLY <1>2, <1>10, ZenonT(30) DEF ArgumentsDelivered, AsSent
<1> QED
  BY <1>1, <1>4, <1>5, <1>6, <1>7, <1>11, SMTT(60), ZenonT(30) DEF CallsInv

(* The cells that an asynchronous call takes: of the ring of its type, and *)
(* of idx and the one after.                                               *)
LEMMA TakenCells ==
    ASSUME CallsInv, NEW id \in Calls, async(id), NEW i \in DOMAIN Signature[id].params
    PROVE  LET t == Signature[id].params[i]
               b == Before(Signature[id].params, i, t)
           IN  /\ t \notin Rings => CellOf(id, i) = [ring |-> "stack", cell |-> 0]
               /\ t \in Rings =>
                    /\ CellOf(id, i) = [ring |-> t, cell |-> Wrap(idx[t] + b)]
                    /\ Taken(id, t) \in 1 .. 2 /\ b \in 0 .. Taken(id, t) - 1
                    /\ \A j \in DOMAIN Signature[id].params :
                         Signature[id].params[j] = t /\ Before(Signature[id].params, j, t) = b => i = j
<1> DEFINE params == Signature[id].params
           t == params[i]
           b == Before(params, i, t)
<1>1. params \in Seq(DOMAIN Layout) /\ Signature[id].async
  BY ZenonT(30) DEF CallsInv, SignaturesAgree, Agrees, async
<1>2. CellOf(id, i) = IF t \in Rings THEN [ring |-> t, cell |-> Wrap(idx[t] + b)]
                      ELSE [ring |-> "stack", cell |-> 0]
  BY DEF CellOf
<1>3. ASSUME t \in Rings
      PROVE  Taken(id, t) \in 1 .. 2 /\ b \in 0 .. Taken(id, t) - 1
  <2>1. Taken(id, t) <= 2
    BY <1>1, <1>3 DEF CallsInv, SignaturesAgree, Agrees
  <2>2. i \in 1 .. Len(params) /\ Len(params) \in Nat
    BY <1>1
  <2>3. b \in Nat
    BY ONLY <1>1, <2>2, Counted, SMTT(60)
  <2>4. Taken(id, t) \in Nat /\ b < Taken(id, t)
    BY <1>1, <2>2, Counted DEF Taken
  <2> HIDE DEF b, t
  <2> QED
    BY ONLY <2>1, <2>3, <2>4
<1>4. ASSUME NEW j \in DOMAIN params, params[j] = t, Before(params, j, t) = b PROVE i = j
  <2>1. i \in 1 .. Len(params) /\ j \in 1 .. Len(params) /\ Len(params) \in Nat
    BY ONLY <1>1, SMTT(60)
  <2>2. b \in Nat
    BY ONLY <1>1, <2>1, Counted, SMTT(60), ZenonT(30)
  <2>3. CASE i < j
    BY ONLY <1>1, <1>4, <2>1, <2>2, <2>3, Counted, SMTT(60), ZenonT(30)
  <2>4. CASE j < i
    BY <1>1, <1>4, <2>1, <2>2, <2>4, Counted, SMTT(60), ZenonT(30)
  <2> QED
    BY ONLY <2>1, <2>3, <2>4
<1> QED
  BY ONLY <1>2, <1>3, <1>4, ZenonT(30)

LEMMA Takings ==
    ASSUME CallsInv, NEW id \in Calls, async(id), NEW t \in Rings
    PROVE  Taken(id, t) \in 0 .. 2
<1>1. Signature[id].params \in Seq(DOMAIN Layout) /\ Taken(id, t) <= 2
  BY DEF CallsInv, SignaturesAgree, Agrees, async
<1>2. Len(Signature[id].params) + 1 \in 1 .. Len(Signature[id].params) + 1
  BY ONLY <1>1
<1>3. Taken(id, t) \in Nat
  BY ONLY <1>1, <1>2, Counted, ZenonT(30) DEF Taken
<1> QED
  BY ONLY <1>1, <1>3, SMTT(60), ZenonT(30)

LEMMA RingArgument ==
    ASSUME Ring \in Nat
    PROVE  /\ \A t \in Rings, c \in 0 .. Ring - 1 : [ring |-> t, cell |-> c] \in Argument
           /\ [ring |-> "stack", cell |-> 0] \in Argument
           /\ \A x \in Argument : x = [ring |-> x.ring, cell |-> x.cell]
<1>1. \A t \in Rings, c \in 0 .. Ring - 1 : [ring |-> t, cell |-> c] \in Argument
  BY DEF Argument
<1>2. [ring |-> "stack", cell |-> 0] \in Argument
  BY DEF Argument
<1>3. \A x \in Argument : x = [ring |-> x.ring, cell |-> x.cell]
  BY SMTT(60), ZenonT(30) DEF Argument
<1> QED
  BY ONLY <1>1, <1>2, <1>3, ZenonT(30)

LEMMA RingOf ==
    ASSUME NEW id, NEW i, CellOf(id, i).ring \in Rings
    PROVE  Signature[id].params[i] \in Rings
  BY DEF CellOf, Rings

(* No cell is taken twice by a call, nor one of those last taken before    *)
(* it.                                                                     *)
LEMMA OwnCells ==
    ASSUME CallsInv, NEW id \in Calls, async(id), Ring >= 2,
           NEW i \in DOMAIN Signature[id].params, CellOf(id, i).ring \in Rings
    PROVE  LET t == CellOf(id, i).ring
               c == CellOf(id, i).cell
           IN  /\ c \in 0 .. Ring - 1 /\ Taken(id, t) \in 1 .. 2
               /\ \E e \in 1 .. 2 : c = Behind(Wrap(idx[t] + Taken(id, t) - 1) + 1, e)
               /\ \A d \in 1 .. Ring - 2 : c # Behind(idx[t], d)
               /\ \A j \in DOMAIN Signature[id].params : CellOf(id, j) = CellOf(id, i) => j = i
<1> DEFINE params == Signature[id].params
           t == params[i]
           n == Taken(id, t)
           b == Before(params, i, t)
<1>1. t \in Rings /\ CellOf(id, i) = [ring |-> t, cell |-> Wrap(idx[t] + b)]
  BY RingOf, TakenCells, ZenonT(30)
<1>2. n \in 1 .. 2 /\ b \in 0 .. n - 1
  BY <1>1, TakenCells, ZenonT(30)
<1>3. idx[t] \in 0 .. Ring
  BY <1>1, ZenonT(30) DEF CallsInv, CallsTypeOK
<1>4. ASSUME NEW j \in DOMAIN params, CellOf(id, j) = CellOf(id, i) PROVE j = i
  <2> DEFINE u == params[j]
             x == Before(params, j, u)
  <2>1. CellOf(id, j).ring \in Rings
    BY <1>4, ZenonT(30)
  <2>2. u \in Rings /\ CellOf(id, j) = [ring |-> u, cell |-> Wrap(idx[u] + x)]
    BY <2>1, RingOf, TakenCells, ZenonT(30)
  <2>3. u = t /\ Wrap(idx[u] + x) = Wrap(idx[t] + b)
    <3> HIDE DEF u, x, t, b
    <3> QED
      BY ONLY <1>1, <1>4, <2>2
  <2>4. x \in 0 .. n - 1
    BY <1>1, <2>3, TakenCells, ZenonT(30)
  <2>5. Wrap(idx[t] + x) = Wrap(idx[t] + b)
    BY <2>3, ZenonT(30)
  <2>6. x = b
    <3> HIDE DEF u, x, t, b, n
    <3> QED
      BY ONLY <1>2, <1>3, <2>4, <2>5, Ring >= 2, RingMoves, ZenonT(30)
  <2> QED
    BY <1>1, <2>3, <2>6, TakenCells, ZenonT(30)
<1>5. /\ Wrap(idx[t] + b) \in 0 .. Ring - 1
      /\ Wrap(idx[t] + b) = Behind(Wrap(idx[t] + n - 1) + 1, n - b)
      /\ \A d \in 1 .. Ring - 2 : Wrap(idx[t] + b) # Behind(idx[t], d)
  BY ONLY <1>2, <1>3, Ring >= 2, RingMoves, ZenonT(30)
<1>6. n - b \in 1 .. 2
  BY ONLY <1>2
<1> HIDE DEF params, t, n, b
<1>7. /\ CellOf(id, i).ring = t /\ CellOf(id, i).cell = Wrap(idx[t] + b)
      /\ n = Taken(id, t)
  BY ONLY <1>1 DEF n
<1> QED
  BY ONLY <1>2, <1>4, <1>5, <1>6, <1>7, ZenonT(30) DEF params

(* A wrapper that does not wait.                                           *)
LEMMA AsyncStep ==
    ASSUME CallsInv, NEW id \in Calls, HCALL_async(id) PROVE CallsInv'
<1> DEFINE n == Len(queue)
           fc == Prepared(id)
           params == Signature[id].params
           Takes(i, t, c) == CellOf(id, i) = [ring |-> t, cell |-> c]
<1>1. SignaturesAgree /\ CallsTypeOK /\ Waiting /\ Numbered /\ ResultsDelivered
  BY DEF CallsInv
<1>2. /\ async(id) /\ n < MaxBatch /\ done' = <<>> /\ queue' = Append(queue, fc)
      /\ batching' = batching /\ bridges' = bridges /\ result' = result
      /\ cells' = Written(fc)
      /\ idx' = [t \in Rings |-> IF Taken(id, t) = 0 THEN idx[t] ELSE Wrap(idx[t] + Taken(id, t) - 1) + 1]
  BY DEF HCALL_async
<1>3. /\ n \in Nat /\ queue \in Seq(Call) /\ idx \in [Rings -> 0 .. Ring]
      /\ cells \in [Rings -> [0 .. Ring - 1 -> Nat \X Nat]]
  BY <1>1 DEF CallsTypeOK
<1>4. Ring \in Nat /\ Ring >= 2 /\ 2 * n <= Ring - 2 /\ n + 1 <= MaxBatch
  BY ONLY <1>2, <1>3, CallsAssumption, SMTT(60), ZenonT(30)
<1>5. /\ params \in Seq(DOMAIN Layout) /\ fc.id = id /\ fc.no = n + 1
      /\ DOMAIN fc.args = DOMAIN params /\ \A i \in DOMAIN params : fc.args[i] = CellOf(id, i)
  BY PreparedCall, SMTT(60)
<1>6. \A i \in DOMAIN params :
         /\ CellOf(id, i) \in Argument
         /\ i \in Nat
  <2> SUFFICES ASSUME NEW i \in DOMAIN params PROVE CellOf(id, i) \in Argument /\ i \in Nat
    BY ZenonT(30)
  <2>1. i \in Nat
    BY ONLY <1>5, i \in DOMAIN params
  <2>2. CASE params[i] \in Rings
    <3>1. CellOf(id, i).ring \in Rings /\ CellOf(id, i) = [ring |-> params[i], cell |-> CellOf(id, i).cell]
      <4>1. PICK x : CellOf(id, i) = [ring |-> params[i], cell |-> x]
        BY <1>2, <2>2, TakenCells, ZenonT(30)
      <4> HIDE DEF params
      <4> QED
        BY ONLY <2>2, <4>1
    <3>2. CellOf(id, i).cell \in 0 .. Ring - 1
      BY <1>2, <1>4, <3>1, OwnCells, ZenonT(30)
    <3> QED
      BY ONLY <1>4, <2>1, <2>2, <3>1, <3>2, RingArgument, ZenonT(30)
  <2>3. CASE params[i] \notin Rings
    <3>1. CellOf(id, i) = [ring |-> "stack", cell |-> 0]
      BY <1>2, <2>3, TakenCells, ZenonT(30)
    <3> QED
      BY ONLY <1>4, <2>1, <3>1, RingArgument, ZenonT(30)
  <2> QED
    BY ONLY <2>2, <2>3
<1>7. \A t \in Rings, c \in 0 .. Ring - 1 :
         cells'[t][c] = IF \E i \in DOMAIN params : Takes(i, t, c)
                        THEN <<n + 1, CHOOSE i \in DOMAIN fc.args : fc.args[i] = [ring |-> t, cell |-> c]>>
                        ELSE cells[t][c]
  BY ONLY <1>2, <1>5, ZenonT(30) DEF Written
<1>8. \A t \in Rings : idx'[t] = IF Taken(id, t) = 0 THEN idx[t] ELSE Wrap(idx[t] + Taken(id, t) - 1) + 1
  BY ONLY <1>2, ZenonT(30)
<1>9. ASSUME NEW i \in DOMAIN params, CellOf(id, i).ring \in Rings
      PROVE  LET t == CellOf(id, i).ring
                 c == CellOf(id, i).cell
             IN  /\ cells'[t][c] = <<n + 1, i>>
                 /\ \E e \in 1 .. 2 : c = Behind(idx'[t], e)
  <2> DEFINE t == CellOf(id, i).ring
             c == CellOf(id, i).cell
  <2>1. /\ c \in 0 .. Ring - 1 /\ Taken(id, t) \in 1 .. 2
        /\ \E e \in 1 .. 2 : c = Behind(Wrap(idx[t] + Taken(id, t) - 1) + 1, e)
        /\ \A j \in DOMAIN params : CellOf(id, j) = CellOf(id, i) => j = i
    BY <1>2, <1>4, <1>9, OwnCells, ZenonT(30)
  <2>2. CellOf(id, i) = [ring |-> t, cell |-> c]
    BY ONLY <1>4, <1>6, i \in DOMAIN params, RingArgument, ZenonT(30)
  <2> HIDE DEF t, c
  <2>3. t \in Rings
    BY ONLY <1>9, ZenonT(30) DEF t
  <2>4. i = CHOOSE j \in DOMAIN fc.args : fc.args[j] = [ring |-> t, cell |-> c]
    BY ONLY <1>5, <2>1, <2>2, i \in DOMAIN params, ZenonT(30)
  <2>5. cells'[t][c] = <<n + 1, i>>
    BY ONLY <1>7, <2>1, <2>2, <2>3, <2>4, i \in DOMAIN params, ZenonT(30)
  <2>6. Taken(id, t) # 0
    BY ONLY <2>1
  <2>7. \E e \in 1 .. 2 : c = Behind(idx'[t], e)
    BY ONLY <1>8, <2>1, <2>3, <2>6, ZenonT(30)
  <2> QED
    BY ONLY <2>5, <2>7, ZenonT(30) DEF t, c
<1>10. ASSUME NEW t \in Rings, NEW d \in 1 .. Ring - 2
       PROVE  /\ Behind(idx[t], d) \in 0 .. Ring - 1
              /\ cells'[t][Behind(idx[t], d)] = cells[t][Behind(idx[t], d)]
              /\ \E e \in 1 .. d + 2 : Behind(idx[t], d) = Behind(idx'[t], e)
  <2> DEFINE c == Behind(idx[t], d)
  <2>1. idx[t] \in 0 .. Ring
    BY ONLY <1>3, t \in Rings
  <2>2. c \in 0 .. Ring - 1
    BY ONLY <1>4, <2>1, d \in 1 .. Ring - 2, BehindType, ZenonT(30)
  <2>3. ASSUME NEW i \in DOMAIN params, Takes(i, t, c) PROVE FALSE
    <3>1. CellOf(id, i).ring = t /\ CellOf(id, i).cell = c
      BY ONLY <2>3
    <3> QED
      BY <1>2, <1>4, <3>1, OwnCells, ZenonT(30)
  <2>4. Taken(id, t) \in 0 .. 2
    BY <1>2, Takings
  <2> HIDE DEF params, Takes
  <2>5. cells'[t][c] = cells[t][c]
    BY ONLY <1>7, <2>2, <2>3, t \in Rings, ZenonT(30)
  <2>6. \E e \in 1 .. d + 2 : Behind(idx[t], d) = Behind(idx'[t], e)
    <3>1. CASE Taken(id, t) = 0
      <4>1. idx'[t] = idx[t] /\ d \in 1 .. d + 2
        BY ONLY <1>8, <3>1, t \in Rings, d \in 1 .. Ring - 2
      <4> QED
        BY ONLY <4>1
    <3>2. CASE Taken(id, t) # 0
      <4>1. Taken(id, t) \in 1 .. 2 /\ d + Taken(id, t) \in 1 .. d + 2
        BY ONLY <2>4, <3>2, d \in 1 .. Ring - 2
      <4>2. Behind(idx[t], d) = Behind(Wrap(idx[t] + Taken(id, t) - 1) + 1, d + Taken(id, t))
        BY ONLY <1>4, <2>1, <4>1, RingMoves, d \in 1 .. Ring - 2, ZenonT(30)
      <4>3. idx'[t] = Wrap(idx[t] + Taken(id, t) - 1) + 1
        BY ONLY <1>8, <3>2, t \in Rings, ZenonT(30)
      <4> QED
        BY ONLY <4>1, <4>2, <4>3, ZenonT(30)
    <3> QED
      BY ONLY <3>1, <3>2, ZenonT(30)
  <2> QED
    BY ONLY <2>2, <2>5, <2>6
<1>11. /\ queue' \in Seq(Call) /\ Len(queue') = n + 1
       /\ \A k \in 1 .. n : queue'[k] = queue[k]
       /\ queue'[n + 1] = fc
  <2>1. fc = [id |-> id, no |-> n + 1, args |-> [i \in DOMAIN params |-> CellOf(id, i)]]
    BY ONLY TRUE, ZenonT(30) DEF Prepared
  <2>2. [i \in DOMAIN params |-> CellOf(id, i)] \in Seq(Argument)
    BY ONLY <1>5, <1>6, SeqMap, ZenonT(30)
  <2>3. fc \in Call
    BY ONLY <1>3, <2>1, <2>2, id \in Calls DEF Call
  <2> HIDE DEF fc
  <2> QED
    BY ONLY <1>2, <1>3, <2>3
<1>12. CallsTypeOK'
  <2>1. idx' \in [Rings -> 0 .. Ring]
    <3>1. ASSUME NEW t \in Rings PROVE idx'[t] \in 0 .. Ring
      <4>1. idx[t] \in 0 .. Ring /\ Taken(id, t) \in 0 .. 2
        BY <1>2, <1>3, Takings, ZenonT(30)
      <4>2. CASE Taken(id, t) = 0
        BY ONLY <1>8, <4>1, <4>2, t \in Rings, ZenonT(30)
      <4>3. CASE Taken(id, t) \in 1 .. 2
        <5>1. Wrap(idx[t] + Taken(id, t) - 1) + 1 \in 0 .. Ring
          BY ONLY <1>4, <4>1, <4>3, RingMoves, ZenonT(30)
        <5> QED
          BY ONLY <1>8, <4>3, <5>1, t \in Rings
      <4> QED
        BY ONLY <4>1, <4>2, <4>3
    <3> QED
      BY ONLY <1>2, <3>1, ZenonT(30)
  <2>2. cells' \in [Rings -> [0 .. Ring - 1 -> Nat \X Nat]]
    <3>1. ASSUME NEW t \in Rings, NEW c \in 0 .. Ring - 1 PROVE cells'[t][c] \in Nat \X Nat
      <4>1. CASE \E i \in DOMAIN params : Takes(i, t, c)
        <5> DEFINE x == CHOOSE i \in DOMAIN fc.args : fc.args[i] = [ring |-> t, cell |-> c]
        <5>1. x \in DOMAIN params
          BY ONLY <1>5, <4>1, ZenonT(30)
        <5>2. x \in Nat
          BY ONLY <1>6, <5>1, ZenonT(30)
        <5>3. cells'[t][c] = <<n + 1, x>>
          BY ONLY <1>7, <3>1, <4>1, ZenonT(30)
        <5> HIDE DEF x
        <5> QED
          BY ONLY <1>3, <5>2, <5>3
      <4>2. CASE ~\E i \in DOMAIN params : Takes(i, t, c)
        <5>1. cells'[t][c] = cells[t][c]
          BY ONLY <1>7, <3>1, <4>2, ZenonT(30)
        <5> QED
          BY ONLY <1>3, <3>1, <5>1, ZenonT(30)
      <4> QED
        BY ONLY <4>1, <4>2, ZenonT(30)
    <3>2. cells' = [t \in Rings |-> [c \in 0 .. Ring - 1 |-> cells'[t][c]]]
      BY ONLY <1>2 DEF Written
    <3> QED
      BY ONLY <3>1, <3>2, ZenonT(30)
  <2> QED
    BY ONLY <1>1, <1>2, <1>4, <1>11, <2>1, <2>2, ZenonT(30) DEF CallsTypeOK
<1>13. ASSUME NEW k \in 1 .. n, NEW i \in DOMAIN queue[k].args PROVE InItsCell(k, i)'
  <2> DEFINE t == queue[k].args[i].ring
             c == queue[k].args[i].cell
  <2> SUFFICES ASSUME t \in Rings
               PROVE  cells'[t][c] = <<k, i>> /\ \E e \in 1 .. 2 * (n + 1) : c = Behind(idx'[t], e)
    <3>1. queue'[k] = queue[k] /\ Len(queue') = n + 1
      BY ONLY <1>11, k \in 1 .. n, ZenonT(30)
    <3> QED
      BY <3>1, ZenonT(30) DEF InItsCell
  <2>1. InItsCell(k, i)
    BY ONLY <1>1, <1>3, <1>13 DEF Waiting
  <2>2. PICK d \in 1 .. 2 * n : c = Behind(idx[t], d)
    BY ONLY <2>1, t \in Rings, ZenonT(30) DEF InItsCell
  <2>3. d \in 1 .. Ring - 2 /\ 1 .. d + 2 \subseteq 1 .. 2 * (n + 1)
    BY ONLY <1>3, <1>4, d \in 1 .. 2 * n
  <2>4. cells[t][c] = <<k, i>>
    BY ONLY <2>1, t \in Rings, ZenonT(30) DEF InItsCell
  <2> HIDE DEF t, c
  <2> QED
    BY ONLY <1>10, <2>2, <2>3, <2>4, t \in Rings, ZenonT(30)
<1>14. ASSUME NEW k, k = n + 1, NEW i \in DOMAIN params PROVE InItsCell(k, i)'
  <2> DEFINE t == CellOf(id, i).ring
             c == CellOf(id, i).cell
  <2>1. queue'[k].args[i] = CellOf(id, i)
    BY ONLY <1>5, <1>11, <1>14, ZenonT(30)
  <2>2. 1 .. 2 \subseteq 1 .. 2 * Len(queue')
    BY ONLY <1>3, <1>11
  <2>3. t \in Rings => cells'[t][c] = <<k, i>> /\ \E e \in 1 .. 2 : c = Behind(idx'[t], e)
    BY ONLY <1>9, <1>14, ZenonT(30)
  <2>4. t \in Rings => \E e \in 1 .. 2 * Len(queue') : c = Behind(idx'[t], e)
    <3> HIDE DEF t, c
    <3> QED
      BY ONLY <2>2, <2>3, ZenonT(30)
  <2> QED
    BY ONLY <2>1, <2>3, <2>4, ZenonT(30) DEF InItsCell
<1>15. Waiting'
  <2>1. \A k \in 1 .. n : /\ queue[k].no = k
                          /\ DOMAIN queue[k].args = DOMAIN Signature[queue[k].id].params
    BY ONLY <1>1, <1>3 DEF Waiting
  <2>2. DOMAIN queue' = 1 .. n + 1
    BY ONLY <1>11
  <2>3. \A k \in 1 .. n + 1 : k \in 1 .. n \/ k = n + 1
    <3>1. n \in Nat
      BY ONLY <1>3, ZenonT(30)
    <3> HIDE DEF n
    <3> QED
      BY ONLY <3>1
  <2>4. ASSUME NEW k \in 1 .. n + 1
        PROVE  /\ queue'[k].no = k
               /\ DOMAIN queue'[k].args = DOMAIN Signature[queue'[k].id].params
               /\ \A i \in DOMAIN queue'[k].args : InItsCell(k, i)'
    <3>1. CASE k \in 1 .. n
      BY ONLY <1>11, <1>13, <2>1, <3>1, ZenonT(30)
    <3>2. CASE k = n + 1
      <4>1. queue'[n + 1].no = n + 1
        BY ONLY <1>5, <1>11, ZenonT(30)
      <4>2. /\ DOMAIN queue'[n + 1].args = DOMAIN params
            /\ DOMAIN queue'[n + 1].args = DOMAIN Signature[queue'[n + 1].id].params
        BY ONLY <1>5, <1>11, ZenonT(30)
      <4>3. \A i \in DOMAIN queue'[n + 1].args : InItsCell(k, i)'
        BY ONLY <1>14, <3>2, <4>2, ZenonT(30)
      <4> HIDE DEF n
      <4> QED
        BY ONLY <3>2, <4>1, <4>2, <4>3, ZenonT(30)
    <3> QED
      BY ONLY <2>3, <3>1, <3>2, k \in 1 .. n + 1
  <2> QED
    BY ONLY <2>2, <2>4, ZenonT(30) DEF Waiting
<1>16. Numbered' /\ ArgumentsDelivered' /\ ResultsDelivered'
  BY ONLY <1>1, <1>2 DEF Numbered, ArgumentsDelivered, ResultsDelivered
<1> QED
  BY ONLY <1>1, <1>12, <1>15, <1>16 DEF CallsInv

-----------------------------------------------------------------------------
(* The inductive invariant of the calls, for tables of signatures that     *)
(* agree, rings of any size and batches that fit into them (app.c:30-107,  *)
(* hotcall-untrusted.h:51-116).                                            *)
THEOREM CallsInductive == SignaturesAgree /\ CallsSpec => []CallsInv
<1>1. CallsInv /\ [CallsNext]_callVars => CallsInv'
  <2> SUFFICES ASSUME CallsInv, [CallsNext]_callVars PROVE CallsInv'
    OBVIOUS
  <2>1. CASE CallsNext
    BY <2>1, BridgeStep, AsyncStep, SyncStep, ZenonT(30) DEF CallsNext
  <2>2. CASE UNCHANGED callVars
    <3>1. /\ batching' = batching /\ bridges' = bridges /\ idx' = idx /\ cells' = cells
          /\ queue' = queue /\ done' = done /\ result' = result
      BY <2>2 DEF callVars
    <3>2. \A k, i : InItsCell(k, i) => InItsCell(k, i)'
      BY ONLY <3>1, ZenonT(30) DEF InItsCell
    <3>3. Waiting'
      BY ONLY CallsInv, <3>1, <3>2, ZenonT(30) DEF CallsInv, Waiting
    <3>4. CallsTypeOK' /\ Numbered'
      BY ONLY CallsInv, <3>1, ZenonT(30) DEF CallsInv, CallsTypeOK, Numbered
    <3>5. ArgumentsDelivered' /\ ResultsDelivered'
      BY ONLY CallsInv, <3>1 DEF CallsInv, ArgumentsDelivered, ResultsDelivered
    <3> QED
      BY <3>3, <3>4, <3>5 DEF CallsInv
  <2> QED
    BY <2>1, <2>2
<1> QED
  BY <1>1, CallsHold, PTL DEF CallsSpec

(* Every parameter of every ecall is the argument in the same position of  *)
(* the same call, whole, whichever calls waited before it; and every byte  *)
(* of a result that is used was stored (call-table.c).                     *)
THEOREM CallsDelivered ==
    SignaturesAgree /\ CallsSpec => [](ArgumentsDelivered /\ ResultsDelivered)
  BY CallsInductive, PTL DEF CallsInv

(* No two bridges are given one id (app.c:104).                            *)
THEOREM BridgesHaveOwnTables == SignaturesAgree /\ CallsSpec => []BridgesSeparate
<1>1. CallsInv => BridgesSeparate
  <2> SUFFICES ASSUME CallsInv PROVE BridgesSeparate
    OBVIOUS
  <2>1. bridges.ids \in Seq(Nat) /\ Numbered
    BY DEF CallsInv, CallsTypeOK
  <2> QED
    BY ONLY <2>1, CallsAssumption, SMTT(60), ZenonT(30) DEF Numbered, BridgesSeparate
<1> QED
  BY <1>1, CallsInductive, PTL

=============================================================================
