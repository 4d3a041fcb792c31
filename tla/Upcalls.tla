------------------------------- MODULE Upcalls -------------------------------
(***************************************************************************)
(* Upcalls of the datapath: batches of flow misses and the drop flows for  *)
(* packets from ports nobody knows (ofproto-dpif.c, "Upcall handling").    *)
(*                                                                         *)
(* A batch is read from the datapath, misses of one flow are put together, *)
(* each is turned into operations, and only then are the operations        *)
(* executed.  Statistics are in module Facets; here a facet is the         *)
(* translation of a class of flows that its wildcards cover.               *)
(***************************************************************************)
EXTENDS Integers, Sequences, FiniteSets, FiniteSetsExt, SequencesExt

CONSTANTS
    Keys,       \* datapath flow keys
    PortOf,     \* the datapath port in each key
    FlowOf,     \* the flow each key translates to
    ClassOf,    \* the facet whose wildcards cover a flow
    MaxBatch,   \* FLOW_MISS_MAX_BATCH, 50 in the code
    MaxQueue,   \* upcalls the datapath holds for user space
    DelFails,   \* TRUE: dpif_flow_del may fail
    MaxLearned, \* flow table changes by learn actions
    MaxPorts    \* times ports come and go

VARIABLES
    ports,      \* datapath ports with an ofproto (odp_port_to_ofport)
    queue,      \* upcalls waiting in the datapath
    dp,         \* datapath flow of each key: "none", "flow", "drop", or "forgotten",
                \* a drop flow that the datapath failed to delete
    drop_keys,  \* backer->drop_keys
    facets,     \* cached classes, with the flow table version they are for
    subfacets,  \* keys that user space believes to be installed
    version,    \* what the flow table says about each class
    need,       \* "all": need_revalidate is set, "tags": only revalidate_set, or "no"
    dangling,   \* history: a batch held an operation for a freed subfacet
    n_ops,      \* operations of the last batch
    moves       \* bound on MaxPorts

vars == <<ports, queue, dp, drop_keys, facets, subfacets, version, need, dangling, n_ops, moves>>

Flows == {FlowOf[k] : k \in Keys}
Classes == {ClassOf[f] : f \in Flows}
Class(k) == ClassOf[FlowOf[k]]
AllPorts == {PortOf[k] : k \in Keys}
NONE == -1

Upcall == [key : Keys, type : {"DPIF_UC_MISS", "SLOW_PATH", "OTHER"}]

(* classify_upcall: misses and slow-path actions are handled later.        *)
MISS_UPCALL(u) == u.type \in {"DPIF_UC_MISS", "SLOW_PATH"}

Init ==
    /\ ports = AllPorts
    /\ queue = <<>>
    /\ dp = [k \in Keys |-> "none"]
    /\ drop_keys = {}
    /\ facets = [c \in Classes |-> NONE]
    /\ subfacets = {}
    /\ version = [c \in Classes |-> 0]
    /\ need = "no" /\ dangling = FALSE
    /\ n_ops = 0 /\ moves = 0

-----------------------------------------------------------------------------
(* A packet arrives that no datapath flow takes, or one with a slow-path   *)
(* action; other upcalls are samples (sFlow, IPFIX) and malformed ones.    *)
DatapathUpcall(u) ==
    /\ Len(queue) < MaxQueue
    /\ u.type = "DPIF_UC_MISS" => dp[u.key] = "none"
    /\ u.type = "SLOW_PATH" => dp[u.key] = "flow"
    /\ queue' = Append(queue, u)
    /\ UNCHANGED <<ports, dp, drop_keys, facets, subfacets, version, need, dangling, n_ops, moves>>

State == [dp |-> dp, drop |-> drop_keys, facets |-> facets, subfacets |-> subfacets,
          version |-> version, need |-> need, puts |-> {}, stale |-> FALSE, ops |-> 0]
Become(s) ==
    /\ dp' = s.dp /\ drop_keys' = s.drop /\ facets' = s.facets /\ subfacets' = s.subfacets
    /\ version' = s.version /\ need' = s.need

facet_remove(s, c) ==
    LET mine == {k \in s.subfacets : Class(k) = c}
        queued == \E k \in s.puts : Class(k) = c
    IN  [s EXCEPT !.facets[c] = NONE, !.subfacets = @ \ mine, !.stale = @ \/ queued,
                  !.dp = [k \in Keys |-> IF k \in mine THEN "none" ELSE @[k]]]

(* facet_revalidate: the facet goes when a key of it is no longer received *)
(* or when the flow table says something else about it.                    *)
facet_revalidate(s, c) ==
    IF \/ \E k \in s.subfacets : Class(k) = c /\ PortOf[k] \notin ports
       \/ s.facets[c] # s.version[c]
    THEN facet_remove(s, c) ELSE s

(* The part of handle_miss_upcalls for a key nobody receives (ENODEV).     *)
DropKey(s, k, ok) ==
    IF k \in s.drop \/ ~ok THEN s ELSE [s EXCEPT !.dp[k] = "drop", !.drop = @ \cup {k}]

(* handle_flow_miss for a flow: k is the key of its first packet, which    *)
(* came by a miss or a slow-path action; n packets are executed.  A packet *)
(* that makes a facet also runs its learn actions, which leave a mark for  *)
(* the facets that the changed table may concern.                          *)
Marks == {"no", "tags", "all"}
Learn(s, c, mark) ==
    IF mark # "no" /\ s.version[c] < MaxLearned
    THEN [s EXCEPT !.version[c] = @ + 1, !.need = IF @ = "all" THEN @ ELSE mark] ELSE s
handle_flow_miss(s, u, n, mark) ==
    LET k == u.key
        c == Class(k)
        valid == IF s.facets[c] # NONE /\ s.need # "no" THEN facet_revalidate(s, c) ELSE s
        new == valid.facets[c] = NONE
        made == IF new THEN Learn([valid EXCEPT !.facets[c] = s.version[c]], c, mark) ELSE valid
        executed == [made EXCEPT !.ops = @ + n]
        known == \E j \in made.subfacets : Class(j) = c
    IN  IF (u.type = "SLOW_PATH" /\ known) \/ k \in made.subfacets THEN executed
        ELSE [executed EXCEPT !.subfacets = @ \cup {k}, !.puts = @ \cup {k}, !.ops = @ + 1]

(* dpif_operate: a put that the datapath refuses leaves the subfacet       *)
(* uninstalled, which is a subfacet that the next miss will install.       *)
Operate(s, refused) ==
    [s EXCEPT !.subfacets = @ \ (s.puts \cap refused),
              !.dp = [k \in Keys |-> IF k \in (s.puts \cap s.subfacets) \ refused THEN "flow" ELSE @[k]]]

(* handle_miss_upcalls: misses of a flow are merged under the key and type *)
(* of the first, and the flows are handled in the order of a hash map.     *)
First(batch, f) == batch[Min({i \in DOMAIN batch : FlowOf[batch[i].key] = f})]
Packets(batch, f) == Cardinality({i \in DOMAIN batch : FlowOf[batch[i].key] = f})
Dropped(batch, refused) ==
    FoldLeft(LAMBDA s, u : DropKey(s, u.key, u.key \notin refused), State,
             SelectSeq(batch, LAMBDA u : PortOf[u.key] \notin ports))
Executed(handled, refused) ==
    /\ Become(Operate(handled, refused))
    /\ dangling' = (dangling \/ handled.stale)
    /\ n_ops' = handled.ops
handle_miss_upcalls_NotMerged(batch, refused, marks) ==
    LET received == SelectSeq(batch, LAMBDA u : PortOf[u.key] \in ports)
    IN  Executed(FoldLeft(LAMBDA s, u : handle_flow_miss(s, u, Packets(received, FlowOf[u.key]),
                                                         marks[FlowOf[u.key]]),
                          Dropped(batch, refused), received), refused)
handle_miss_upcalls(batch, refused, marks) ==
    LET received == SelectSeq(batch, LAMBDA u : PortOf[u.key] \in ports)
    IN  \E todo \in SetToSeqs({FlowOf[u.key] : u \in ToSet(received)}) :
          Executed(FoldLeft(LAMBDA s, f : handle_flow_miss(s, First(received, f), Packets(received, f),
                                                           marks[f]),
                            Dropped(batch, refused), todo), refused)

(* handle_upcalls: up to max upcalls are read; samples are handled at once *)
(* and leave no trace here.                                                *)
handle_upcalls(max, refused, marks) ==
    /\ queue # <<>>
    /\ max <= Len(queue)
    /\ queue' = SubSeq(queue, max + 1, Len(queue))
    /\ handle_miss_upcalls(SelectSeq(SubSeq(queue, 1, max), MISS_UPCALL), refused, marks)
    /\ UNCHANGED <<ports, moves>>

-----------------------------------------------------------------------------
(* drop_key_clear: every drop flow is deleted, and forgotten even if the   *)
(* datapath says it failed.                                                *)
drop_key_clear(s, failed) ==
    [s EXCEPT !.drop = {},
              !.dp = [k \in Keys |-> IF k \notin s.drop THEN @[k]
                                     ELSE IF k \in failed THEN "forgotten" ELSE "none"]]
Failures == IF DelFails THEN SUBSET Keys ELSE {{}}

(* type_run with a revalidation pending: drop keys are cleared only when   *)
(* everything is revalidated.                                              *)
Revalidated(s) ==
    FoldSet(LAMBDA c, t : facet_revalidate(t, c), s, {c \in Classes : facets[c] # NONE})
type_run_KeepsDrops(failed) ==
    /\ need # "no"
    /\ Become([Revalidated(State) EXCEPT !.need = "no"])
    /\ UNCHANGED <<ports, queue, dangling, n_ops, moves>>
type_run(failed) ==
    /\ need # "no"
    /\ LET s == IF need = "all" THEN drop_key_clear(State, failed) ELSE State
       IN  Become([Revalidated(s) EXCEPT !.need = "no"])
    /\ UNCHANGED <<ports, queue, dangling, n_ops, moves>>

(* expire: drop keys are cleared, flows in the datapath that belong to no  *)
(* subfacet are deleted, and idle subfacets with the facets they leave     *)
(* empty are destroyed.                                                    *)
update_stats_KeepsUnknown(s) == s
update_stats(s) ==
    [s EXCEPT !.dp = [k \in Keys |-> IF PortOf[k] \in ports /\ k \notin s.subfacets THEN "none" ELSE @[k]]]
expire_subfacets(s, idle) ==
    [s EXCEPT !.subfacets = @ \ idle,
              !.dp = [k \in Keys |-> IF k \in idle \cap s.subfacets THEN "none" ELSE @[k]],
              !.facets = [c \in Classes |-> IF \E k \in s.subfacets \ idle : Class(k) = c THEN @[c] ELSE NONE]]
expire(idle, failed) ==
    /\ need = "no"
    /\ Become(expire_subfacets(update_stats(drop_key_clear(State, failed)), idle))
    /\ UNCHANGED <<ports, queue, dangling, n_ops, moves>>

(* port_construct and port_destruct: everything is revalidated.            *)
port_construct(p) ==
    /\ p \notin ports
    /\ ports' = ports \cup {p} /\ need' = "all"
    /\ UNCHANGED <<queue, dp, drop_keys, facets, subfacets, version, dangling, n_ops, moves>>
port_destruct(p) ==
    /\ moves < MaxPorts
    /\ p \in ports
    /\ ports' = ports \ {p} /\ need' = "all" /\ moves' = moves + 1
    /\ UNCHANGED <<queue, dp, drop_keys, facets, subfacets, version, dangling, n_ops>>

Batched == {u.key : u \in ToSet(queue)}
Next ==
    \/ \E u \in Upcall : DatapathUpcall(u)
    \/ \E max \in 1 .. MaxBatch, refused \in SUBSET Batched, marks \in [{FlowOf[k] : k \in Batched} -> Marks] :
         handle_upcalls(max, refused, marks)
    \/ \E failed \in Failures : type_run(failed) \/ \E idle \in SUBSET Keys : expire(idle, failed)
    \/ \E p \in AllPorts : port_construct(p) \/ port_destruct(p)

Spec == Init /\ [][Next]_vars

(* The main loop keeps revalidating and expiring.                          *)
FairSpec ==
    /\ Spec
    /\ WF_vars(\E failed \in Failures : type_run(failed))
    /\ SF_vars(\E idle \in SUBSET Keys, failed \in Failures : expire(idle, failed))

-----------------------------------------------------------------------------
(* Types, and the assertion n_ops <= ARRAY_SIZE(flow_miss_ops) of          *)
(* handle_miss_upcalls: an execute per packet and a put per flow of a      *)
(* batch fit into twice the batch.                                         *)
TypeOK ==
    /\ queue \in Seq(Upcall) /\ Len(queue) <= MaxQueue
    /\ ports \subseteq AllPorts /\ drop_keys \subseteq Keys /\ subfacets \subseteq Keys
    /\ \A k \in Keys : dp[k] \in {"none", "flow", "drop", "forgotten"}
    /\ n_ops <= 2 * MaxBatch

(* A drop flow that the datapath has not failed to delete is known by its  *)
(* key, so that it can be deleted, and the traffic of a port that came     *)
(* back is dropped only until the full revalidation that its return has    *)
(* asked for (type_run, line 1043).  One that it failed to delete is       *)
(* forgotten (drop_key_clear, line 4004); DropsEnd is about both.          *)
DropsKnown ==
    \A k \in Keys : dp[k] = "drop" => k \in drop_keys /\ (PortOf[k] \in ports => need = "all")

(* Also when deletions fail: a drop flow for a received key that has no    *)
(* subfacet goes away, or the port goes (drop_key_clear,                   *)
(* delete_unexpected_flow in update_stats).                                *)
Dropping(k) == dp[k] \in {"drop", "forgotten"}
DropsEnd ==
    \A k \in Keys : Dropping(k) /\ PortOf[k] \in ports /\ k \notin subfacets
                      ~> ~Dropping(k) \/ PortOf[k] \notin ports

(* "If this is a "put" op, then a pointer to the subfacet that should be   *)
(* marked as uninstalled if the operation fails" (line 3603): when a batch *)
(* is executed, the subfacets of its operations have not been freed.       *)
PutsPointAtSubfacets == ~dangling

(* "SF_FAST_PATH: The subfacet's actions are installed in the datapath"    *)
(* (line 384), once nothing has to be revalidated.                         *)
SubfacetsInstalled == need = "no" => \A k \in subfacets : dp[k] = "flow"
=============================================================================
