----------------------------- MODULE CallTable ------------------------------
(***************************************************************************)
(* The calling convention of the flow-table enclave in the HOTCALL builds: *)
(* the SGX_ wrappers of untrusted/app.c put the addresses of their         *)
(* arguments and of a result into a function_call, and execute_function    *)
(* (trusted/call-table.c) reads the arguments back, calls the ecall and    *)
(* stores its result.  The two sides agree on nothing but positions and    *)
(* untyped addresses.                                                      *)
(*                                                                         *)
(* CallSignatures gives, for each call, the types the wrapper stores and   *)
(* the types execute_function reads.  The hand-over between the threads    *)
(* is the subject of HotCall; here make_hotcall is one step.  What the     *)
(* calls do to the tables, and to the flow cache, is in FlowTable, RuleMap *)
(* and FlowCache.                                                          *)
(***************************************************************************)
EXTENDS Integers, Sequences, FiniteSets

CONSTANTS
    Calls,        \* the wrappers that are used
    Ring,         \* cells of each ring of argument values (20 in the code)
    MaxBatch,     \* asynchronous calls queued before a synchronous one
    CounterSize,  \* values of the bridge counter (256: it is a uint8_t)
    MaxBridges,   \* bridges ever created
    Layout, Signature, Handler  \* Types, Wrapper and Cases of CallSignatures

(* The counter does not come round, and a batch fits into the rings: a     *)
(* wrapper takes at most two values of one type.                           *)
ASSUME CallsAssumption ==
    /\ Ring \in Nat /\ MaxBatch \in Nat /\ CounterSize \in Nat \ {0} /\ MaxBridges \in Nat
    /\ MaxBridges <= CounterSize /\ 2 * MaxBatch <= Ring

VARIABLES
    batching,  \* whether this is a BATCHING build: asynchronous wrappers do not wait
    bridges,   \* the enclave: whether it runs, bridge_counter and the ids given out
    idx,       \* pfc.idx_uint8, idx_unsigned, idx_uint32, idx_heap_node
    cells,     \* the value in each cell of those rings
    queue,     \* ecall_queue
    done,      \* history: the calls of the last batch as the ecalls saw them
    result     \* the synchronous call that returned, and the bytes stored for it

callVars == <<batching, bridges, idx, cells, queue, done, result>>

Rings == {"u8", "uint", "u32", "node"}
Unused == [t \in Rings |-> [c \in 0 .. Ring - 1 |-> <<0, 0>>]]

CallsInit ==
    /\ batching \in BOOLEAN
    /\ bridges = [running |-> FALSE, counter |-> 0, ids |-> <<>>]
    /\ idx = [t \in Rings |-> 0]
    /\ cells = Unused
    /\ queue = <<>>
    /\ done = <<>>
    /\ result = [id |-> "none", stored |-> 0]

(* sgx_ofproto_init_tables: the first bridge also starts the enclave.      *)
sgx_ofproto_init_tables_Preincrement ==
    /\ Len(bridges.ids) < MaxBridges
    /\ LET next == (bridges.counter + 1) % CounterSize
       IN  bridges' = [running |-> TRUE, counter |-> next,
                       ids |-> Append(bridges.ids, IF bridges.running THEN bridges.counter ELSE next)]
    /\ UNCHANGED <<batching, idx, cells, queue, done, result>>
sgx_ofproto_init_tables ==
    /\ Len(bridges.ids) < MaxBridges
    /\ bridges' = [running |-> TRUE, counter |-> (bridges.counter + 1) % CounterSize,
                   ids |-> Append(bridges.ids, bridges.counter)]
    /\ UNCHANGED <<batching, idx, cells, queue, done, result>>

(* Does the wrapper return without waiting?                                *)
async(id) == Signature[id].async /\ batching

(* The positions before i that take a cell of the ring of type t.          *)
Before(params, i, t) == Cardinality({j \in 1 .. i - 1 : params[j] = t})

(* next_uint8, next_unsigned, next_uint32, next_heapnode: the ring wraps   *)
(* before it writes.  The pointers of next_voidptr are used directly.      *)
Wrap_Late(i) == IF i > Ring THEN 0 ELSE i
Wrap(i) == IF i >= Ring THEN i - Ring ELSE i
CellOf(id, i) ==
    LET params == Signature[id].params
        t == params[i]
    IN  IF async(id) /\ t \in Rings
        THEN [ring |-> t, cell |-> Wrap(idx[t] + Before(params, i, t))]
        ELSE [ring |-> "stack", cell |-> 0]

(* The function call that the wrapper prepares, the no-th of its batch: an *)
(* argument is a cell of a ring, or the caller's own variable, which holds *)
(* still.                                                                  *)
Prepared(id) ==
    [id |-> id, no |-> Len(queue) + 1,
     args |-> [i \in DOMAIN Signature[id].params |-> CellOf(id, i)]]

Taken_Once(id, t) == IF Before(Signature[id].params, Len(Signature[id].params) + 1, t) = 0 THEN 0 ELSE 1
Taken(id, t) == Before(Signature[id].params, Len(Signature[id].params) + 1, t)

(* The rings with the values of the call: its i-th argument.               *)
Written(fc) ==
    [t \in Rings |-> [c \in 0 .. Ring - 1 |->
        IF \E i \in DOMAIN fc.args : fc.args[i] = [ring |-> t, cell |-> c]
        THEN <<fc.no, CHOOSE i \in DOMAIN fc.args : fc.args[i] = [ring |-> t, cell |-> c]>>
        ELSE cells[t][c]]]

(* What the ecall gets as its i-th parameter: which argument of which call *)
(* and whether all of its bytes, and no others, arrive.                    *)
Exact(id, i) ==
    LET type == Layout[Signature[id].params[i]]
        read == Handler[id].reads[i]
        bytes == IF read[1] < read[2] THEN read[1] ELSE read[2]
    IN  type[2] <= bytes /\ bytes <= type[1]
Received(fc, i) ==
    [from |-> IF fc.args[i].ring = "stack" THEN <<fc.no, i>>
              ELSE cells[fc.args[i].ring][fc.args[i].cell],
     exact |-> Exact(fc.id, i)]

(* execute_function; the default case only reports the error.              *)
execute_function(fc) ==
    [id |-> fc.id, no |-> fc.no,
     got |-> IF fc.id \in DOMAIN Handler
             THEN [i \in 1 .. Len(Handler[fc.id].reads) |->
                     IF i \in DOMAIN fc.args THEN Received(fc, i) ELSE [from |-> <<0, 0>>, exact |-> FALSE]]
             ELSE <<>>]

(* A wrapper that does not wait.                                           *)
HCALL_async(id) ==
    /\ bridges.running /\ async(id) /\ Len(queue) < MaxBatch
    /\ cells' = Written(Prepared(id))
    /\ idx' = [t \in Rings |-> IF Taken(id, t) = 0 THEN idx[t] ELSE Wrap(idx[t] + Taken(id, t) - 1) + 1]
    /\ queue' = Append(queue, Prepared(id))
    /\ done' = <<>>
    /\ UNCHANGED <<batching, bridges, result>>

(* A wrapper that waits: make_hotcall has the whole queue executed, after  *)
(* which the values in the rings are of no more use.                       *)
HCALL_sync(id) ==
    /\ bridges.running /\ ~async(id)
    /\ done' = [k \in 1 .. Len(queue) + 1 |-> execute_function(Append(queue, Prepared(id))[k])]
    /\ queue' = <<>>
    /\ cells' = Unused
    /\ result' = [id |-> id, stored |-> IF id \in DOMAIN Handler THEN Handler[id].stored ELSE 0]
    /\ UNCHANGED <<batching, bridges, idx>>

CallsNext ==
    \/ sgx_ofproto_init_tables
    \/ \E id \in Calls : HCALL_async(id) \/ HCALL_sync(id)

CallsSpec == CallsInit /\ [][CallsNext]_callVars

-----------------------------------------------------------------------------
(* A wrapper and its case agree: on the arguments and their widths, and on *)
(* the result; at most two values of one type wait in a ring.              *)
Agrees(id) ==
    /\ id \in DOMAIN Handler
    /\ Signature[id].params \in Seq(DOMAIN Layout)
    /\ Len(Handler[id].reads) = Len(Signature[id].params)
    /\ \A i \in DOMAIN Signature[id].params : Exact(id, i)
    /\ Layout[Signature[id].ret][2] <= Handler[id].stored
    /\ Signature[id].async => \A t \in Rings : Taken(id, t) <= 2
SignaturesAgree == \A id \in Calls : Agrees(id)

Argument == [ring : Rings \cup {"stack"}, cell : 0 .. Ring]
Call == [id : Calls, no : Nat, args : Seq(Argument)]
CallsTypeOK ==
    /\ batching \in BOOLEAN
    /\ bridges \in [running : BOOLEAN, counter : 0 .. CounterSize - 1, ids : Seq(Nat)]
    /\ idx \in [Rings -> 0 .. Ring]
    /\ cells \in [Rings -> [0 .. Ring - 1 -> Nat \X Nat]]
    /\ queue \in Seq(Call)
    /\ Len(queue) <= MaxBatch

AsSent(call) ==
    /\ Len(call.got) = Len(Signature[call.id].params)
    /\ \A i \in DOMAIN call.got : call.got[i] = [from |-> <<call.no, i>>, exact |-> TRUE]

(* The hot-call path hands an ecall what a direct call of it would: every  *)
(* parameter is the argument in the same position of the same call, whole  *)
(* and without foreign bytes, also for calls that waited in the queue      *)
(* while later wrappers took cells of the rings (app.c, call-table.c).     *)
ArgumentsDelivered == \A k \in DOMAIN done : AsSent(done[k])

(* Every byte of the result that the wrapper's callers use was stored by   *)
(* execute_function: no wrapper returns an uninitialised variable.  "merge *)
(* 2 ecalls into 1" (optimization-notes.md:7): the merged call of          *)
(* rule_construct returns the tag as the call it replaces does.            *)
ResultsDelivered ==
    result.id # "none" => Layout[Signature[result.id].ret][2] <= result.stored

(* Bridges have tables of their own: sgx_ofproto_init_tables gives every   *)
(* bridge an id that no other bridge was given, starting with the first.   *)
BridgesSeparate ==
    /\ \A i, j \in DOMAIN bridges.ids : bridges.ids[i] = bridges.ids[j] => i = j
    /\ \A i \in DOMAIN bridges.ids : bridges.ids[i] < MaxBridges

(* The arguments of the calls that wait are still in their cells, which    *)
(* are among the last that were taken: the d-th last is d behind idx.      *)
Behind(i, d) == IF d <= i THEN i - d ELSE i - d + Ring
InItsCell(k, i) ==
    LET arg == queue[k].args[i]
    IN  arg.ring \in Rings =>
          /\ cells[arg.ring][arg.cell] = <<k, i>>
          /\ \E d \in 1 .. 2 * Len(queue) : arg.cell = Behind(idx[arg.ring], d)
Waiting ==
    \A k \in DOMAIN queue :
        /\ queue[k].no = k
        /\ DOMAIN queue[k].args = DOMAIN Signature[queue[k].id].params
        /\ \A i \in DOMAIN queue[k].args : InItsCell(k, i)

(* The ids count up from 0, and the counter is the next of them.           *)
Numbered ==
    /\ Len(bridges.ids) <= MaxBridges
    /\ \A i \in DOMAIN bridges.ids : bridges.ids[i] = i - 1
    /\ Len(bridges.ids) < CounterSize => bridges.counter = Len(bridges.ids)

(* The calls that wait, those that returned and the bridges they name: an  *)
(* inductive invariant, from which BridgesSeparate follows (app.c:30-107,  *)
(* hotcall-untrusted.h:51-116, call-table.c).                              *)
CallsInv ==
    /\ SignaturesAgree /\ CallsTypeOK
    /\ Waiting /\ Numbered
    /\ ArgumentsDelivered /\ ResultsDelivered
=============================================================================
