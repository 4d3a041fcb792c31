# TLA+ models of ovs-sgx

ovs-sgx moves two parts of Open vSwitch 1.10 into Intel SGX enclaves: the
OpenFlow flow tables (`src/OFTonSGX`) and the TLS connection to the controller
(`src/TLSonSGX`). This directory holds TLA+ modules for the parts of it that
are concurrent, stateful or algorithmically delicate, TLC configurations that
check them on small instances, and TLAPS proofs for instances of every size.
`PROJECT.json` is the index: which definition models which lines, which run
checks what, which hazards are covered.

## 1. The system

    OVS main thread                     enclave thread
    ---------------                     --------------
    connmgr.c, ofproto.c, ofproto-dpif.c
      | SGX_* wrappers (app.c)
      v
    HCALL: ring of call records ------> ecall_start_poller
    make_hotcall: run / is_done <-----> execute_function (call-table.c)
      ^                                   |-- oftable.c, ofproto.c, stats.c, dpif.c
      | ocall_sleep, signal               |     |-- classifier.c, flow.c, cls-rule.c
      |                                   |     `-- eviction.c, heap.c
    flow cache + pages  <---------------- |-- cache-trusted.c
    (untrusted memory)                    `-- shared-memory-trusted.c, hmap.c

    stream-ssl.c --> wrapper_sgx.cpp --> TLS enclave (enclave.c) <--> CA_server.c

The switch's main thread runs ofproto (OpenFlow), ofproto-dpif (the datapath)
and connmgr (controllers). The classifier rules and the eviction groups of its
tables live in the enclave; everything else about a rule stays outside. Each
call into the enclave is a HotCall: a record in a ring, two flags and a polling
thread. `BATCHING` lets wrappers without a result return before their call has
run, `TIMEOUT` sends an idle poller to sleep; the models have both on.
`OPTIMIZED` replaces sequences of enclave calls by one. Where the three builds
of `ofproto.c` (vanilla, plain SGX, optimized SGX) differ, `Build` or a constant
of the module selects one.

## 2. Modules

| Module | Models | Suite |
|---|---|---|
| `HotCall` | both threads of the HotCall channel, one action per shared access | `MCHotCall` |
| `CallChannel` | abstract specification: what callers of the channel may rely on | `MCHotCall` |
| `Classifier` | the tuple-space classifier and its loops | `MCEnclave` |
| `FlowCache` | cache, LRU list and checksum | `MCEnclave` |
| `SharedMemory` | pages and the growth of hash maps | `MCEnclave` |
| `Heap`, `HeapMachine` | the max-heap as operators; a machine that applies them | `MCEnclave` |
| `EvictionGroups` | groups of one table, on top of `Heap` | `MCRules` |
| `Collect` | the calls that collect rules through buffers, against their definition without buffers | `MCRules` |
| `CallSignatures`, `CallTable` | each wrapper's arguments and each case of the dispatcher; the rings they are passed through | `MCRules` |
| `Translate` | translation of a rule's actions, with resubmits, patch ports and learning | `MCRules`, `MCSwitchLiveness` |
| `RuleMap` | the enclave's map from rule addresses to rules | `MCFlowTables` |
| `FlowTable` | ofproto's rules, pending operations, eviction, expiry, flush and main-loop states | `MCFlowTables`, `MCSwitchLiveness` |
| `Revalidation` | tags, `need_revalidate` and the revalidation loop | `MCDatapath`, `MCSwitchLiveness` |
| `Facets` | facets, subfacets and their statistics | `MCDatapath` |
| `Upcalls` | batches of flow misses and drop keys | `MCDatapath`, `MCSwitchLiveness` |
| `Timeouts` | dumps, idle and hard timeouts, the idle histogram | `MCDatapath` |
| `Ports` | ports of a bridge against those of the datapath, tunnels | `MCBridge`, `MCSwitchLiveness` |
| `Bundles` | bundles, VLANs, learned addresses, bonds and mirrors | `MCBridge` |
| `Connections` | requests, postponement, retries and barriers | `MCControl`, `MCControlLiveness` |
| `FlowMonitor` | flow monitors with pause and resumption | `MCControl`, `MCControlLiveness` |
| `Roles` | roles, asynchronous configuration, who hears what | `MCControl` |
| `Controllers` | fail-open, in-band control and the flushes they ask for | `MCControl`, `MCControlLiveness` |
| `TlsProvision` | keys, enrolment with the CA server, sealed files, restarts | `MCEnclave`, `MCControlLiveness` |
| `SslStream` | a stream's send, receive and wait, over OpenSSL or the enclave's session | `MCEnclave`, `MCControlLiveness` |
| `SslBootstrap` | taking the CA certificate from the first peer | `MCEnclave` |
| `SslKeys` | rereading key and certificate files | `MCControlLiveness` |
| `HotCallSteps`, `HotCallProofs` | proofs about `HotCall` (section 4): the lemmas and the steps of the channel; the theorems | - |
| `FlowCacheProofs`, `TlsProvisionProofs`, `ConnectionsProofs` | proofs about the module they are named after | - |
| `EnclaveMapsProofs` | proofs about `SharedMemory` and `RuleMap` | - |
| `ControlProofs` | proofs about `Controllers` and about what secures the controllers' connections, `SslBootstrap` and `SslKeys` | - |
| `InterfaceProofs` | proofs about `Roles` and `CallTable` | - |

Modules that are extended together give their initial condition, next-state
relation, specification and type invariant names of their own: `RolesInit`,
`ControlNext`, `CallsSpec`, `PairTypeOK` and so on. The other modules call them
`Init`, `Next`, `Spec` and `TypeOK`.

Definitions named `<operation>_<Variant>` are deliberately wrong versions of the
operation before the underscore; no specification uses them. They show that each
property would notice the corresponding mistake.

**HotCall.** `cpc` and `ppc` are the positions of the caller (the OVS main
thread, the only one that makes calls) and the poller. Each load or store of a
shared variable is a step; locks are modelled by their value. The code's x86
target keeps stores in program order, which the model assumes. A call is a
number; `executed` records which call ran and what it read through its argument
pointers. Two kinds of wrapper stand for all of `app.c`: one that batches and
passes up to two bytes through the ring `uint8_ts`, and one that waits and
passes its own stack frame. `list_insert` of a node that is already linked
truncates the list, as the pointer assignments do.

**CallTable.** `CallSignatures` has the types that each wrapper stores and each
case of `execute_function` reads, with their widths, so that a case that reads or
stores another width than the wrapper is visible. `SGX_cls_rules_format` has no
case and `SGX_get_cls_rules` no result in the code. `CallTable` takes these tables
as constants. A value is which argument of which call it is; the values that
asynchronous wrappers pass wait in the rings of `hotcall-untrusted.h` until a
synchronous call has the queue executed, while pointers they pass are not copied.
`batching` is chosen with the initial state: the same calls in builds with and
without `BATCHING`.

**Classifier.** A mask is a set of fields and a match a function on it. A hash
map is a function and its iteration order a nondeterministic choice. Rules have
an identity besides match and priority.

**FlowCache.** A flow with its bridge and table is its hash, a rule its
address. `BeginInsert` and `FinishInsert` are the two lock rounds of
`flow_map_cache_insert`. The cache lies in untrusted memory, and the model lets a
look-up come between the two; with the calls the code makes at present none
does, because the one caller waits in `make_hotcall` meanwhile.
`recency` is a history variable: the entries in the order of their last
insertion or hit, against which `lru_list` is judged. The call of the look-up in `app.c` is commented out at present; the model keeps it.

**SharedMemory.** Sizes count buckets. A new page's status is whatever `malloc`
returns: any subset of the initial pages may look taken (`unset`).

**EvictionGroups.** One table; the bridge's other tables appear only as the
cause of the state S_EVICT. `ecall_ofproto_evict` is one action because the
caller waits for it.

**FlowTable.** One action per OpenFlow request or step of the main loop, in the
three builds. A rule's enclave side (classifier node, eviction group) and its
outside (operation, expiry list) are separate, so that they can disagree.
Operations complete at once or, with `MayClog`, later (`ofproto/clog`).
Requests name a table, the hidden one included, or `NoTable` (0xff).

**RuleMap.** Buckets are lists, new nodes in front, and growth reverses them.
With `Leaks` a rule may be freed without its copy, as a completed deletion does
in the optimized build; replaced, backed-out and evicted rules are destroyed in
every build. A destruction takes the first copy under the hash.

**Revalidation, Facets, Upcalls, Timeouts.** `Revalidation` has two tables and
the tags of `table_update_taggable`; `run_fast_rl` may install flows between two
facets of the loop. `Facets` has counters in the datapath and in user space; the
datapath counts of a flow are read when the dump reaches it; what a revalidation
finds (a key received as another flow, other wildcards, a datapath that refuses)
is chosen with it. `discarded` and `uncounted` are history variables for counts
that went with a rule or with a datapath flow. `Upcalls` keeps translations
abstract (a version per class of flows); a drop flow whose deletion failed is
`"forgotten"`. `Timeouts` remembers when a flow resumed after its longest pause.

**Ports, Bundles.** One bridge. A device's description is reduced to PORT_DOWN.
Devices come, go and are renumbered in the datapath on their own. The bond
library is external: it may pick any enabled slave. `sw.freed` remembers which
bundles in a mirror's `dsts` were destroyed.

**Translate.** The C recursion is an explicit stack of frames; an action is a
record, a packet a handful of fields. What a learn action evicts is arbitrary
among the evictable.

**Connections, Roles, Controllers, FlowMonitor.** `rconn`, `pinsched`, packet
buffers and timers are external. A lost connection is noticed by `ofconn_run`
before the controller connects again. The loop of `ofconn_run` is one step per
message. `misled` of `FlowMonitor` is a history variable: the flows replaced, or
listed to a controller, during its pause and absent at its end.

**TlsProvision.** Several programs and the one CA server. A program reads its
three sealed files one at a time, makes a key if one is missing, waits in the
server's backlog, and writes the files one at a time; the server is a loop of
`Accept`, `Measure`, `ReadRequest`, `Sign`, `Reply` over a single file
`sc-cert.crt`. A key is a number and a certificate the number of the key it is
for. A file is absent, empty, cut off or whole. `Faults` names what may go
wrong: either side may be killed at any step and started again, and memory is
lost while files stay.

**SslStream, SslBootstrap, SslKeys.** Cryptography is external: a session either
agrees with its peer or not, and a connection may be reset at any time. In `SslBootstrap` several processes share the CA
certificate file, which one of them creates with `O_EXCL` and then writes in a
separate step; whoever reads in between finds it empty. Creating, writing and
loading the file may each fail (`FileFails`).

## 3. Runs

`hotcall` checks one component. Every other run is a *suite*: an `MC` module
that puts several components side by side. They share no variable, and a
behaviour is about one of them, named by the variable `subject`; the others stay
at rest. The states of a suite are thus the sum, not the product, of the states
of its components. A component may occur several times, with constants that
bring out different cases (`TableCases`, `BundleCases`, ...).

A suite `EXTENDS` the components printed in bold, so that the run checks the very
definitions the theorems are about, and instantiates the rest.

| Run | Subjects | Instance |
|---|---|---|
| `hotcall` | **`HotCall`** | rings of 3 records and 4 values, batches of 2, 5 calls, with `TIMEOUT` |
| `enclave` | **`SharedMemory`**, **`FlowCache`**, **`SslBootstrap`**, **`TlsProvision`**, `Classifier` (edits, loops), `HeapMachine`, `SslStream` (streams, renegotiation, enclave session) | 2 maps of up to 33 nodes over 4 pages; 2 fields of 2 values and 3 rules, or 1 field and 4 rules for loops; 3 cache entries, checksum modulo 8; heaps of 6 with 3 priorities; 2 processes with 2 streams each; 2 programs, 3 keys, crashes and the other failures except `"open"`; 2 OpenSSL streams, or 1 that renegotiates or has the enclave's session, with resets |
| `flow_tables` | **`RuleMap`**, `FlowTable` (vanilla with `ofproto/clog`, plain with and without it, optimized without it and with a buffer that suffices and one that does not), `RuleMap` with shared hashes and leaks | 4 addresses, 6 rules; 3 or 4 rules in 2 or 3 tables with limit 1, two keys that overlap |
| `rules` | **`CallTable`** with **`CallSignatures`** (every call by itself; batches), `EvictionGroups`, `Collect`, `Translate` | every wrapper, and all pairs of asynchronous wrappers over rings of 4 cells; 3 bridges; 4 keys in groups of up to 4; all distributions of 3 rules over 3 tables; programs of up to 3 actions over 2 bridges |
| `datapath` | `Revalidation`, `Facets`, `Upcalls`, `Timeouts` | 3 rules in 2 tables; 2 keys and 2 rules; batches of 2, deletions that may fail; clocks to 14 |
| `control` | **`Roles`** (elections; asynchronous configuration), **`Connections`**, **`Controllers`**, `FlowMonitor` | 3 controllers over generation ids of 2 bits; 2 connections; 2 controllers and a listener |
| `bridge` | `Ports`, `Bundles` | 2 or 3 devices over 2 datapath numbers; 3 bundles, 3 ports, 2 mirrors |
| `switch_liveness` | `FlowTable`, `Revalidation`, `Upcalls`, `Ports`, `Translate` | the smallest instances with something to wait for |
| `control_liveness` | **`SslKeys`**, `FlowMonitor`, `Connections`, `Controllers`, `TlsProvision`, `SslStream` | likewise; 4 generations of key files |

`PROJECT.json` lists the properties of each run; each is stated in words above
its definition. A property whose name ends in `Inv` is an inductive invariant of
section 4. A property of a suite is the conjunction of what the components
promise, under the definitions' own names:

| Property | Consists of |
|---|---|
| `ClassifierSound` | `Classifier`: `LookupIsBest`, `WildcardsDecide`, `TablesConsistent`, `ExactIsUnique`, `OverlapIsExact`, `CursorVisitsAll`, `CursorNeverDangles` |
| `HeapSound` | `HeapMachine`: `HeapOrdered`, `RebuildRestores`, `MovesGivenNodes` |
| `TablesSound`, `TableSteps` | `FlowTable`: `RulesAccounted`, `OneRulePerKey`, `ExpiryFollowsTables`, `NoAbort`, `NodePerRule`, `DestroyFreesAll`; `GrowsToLimit`, `RefusalIsNoStep`, `FlushEmptiesTables`, `FlushEndsEmpty` |
| `SharedCopiesForRules` | `RuleMap` with shared hashes and leaks: `CopiesForRules` |
| `EvictionFair` | `EvictionGroups`: `GroupsPartition`, `VictimIsFair`, `FairOffer` |
| `RequestsAnswered` | `Collect`: `LooseAgrees`, `BuffersHold`, `EvictionCoversTable` |
| `CallsInv` | `CallTable`: `SignaturesAgree`, `ArgumentsDelivered`, `ResultsDelivered`, and what makes them inductive; `BridgesSeparate` follows |
| `TranslationSound` | `Translate`: `SendsAsAsked`, `ContextOfRule`, `BaseIsLastCommit`, `NotEvicted`, `EvictableAgain` |
| `CachedIsCurrent` | `Revalidation`: `UnmarkedIsCurrent`, `TablesRead` |
| `FacetsAccounted` | `Facets`: `CountedOnce`, or `CountedOrMore` with slow-path rules; `DatapathFollows` |
| `ExpiryFair` | `Timeouts`: `ExpiresInTime`, `IdledOutPaused`, `KeepsMostRecent` |
| `StreamsAwake` | `SslStream`: `NoLivelock`, `ReadsAwake`, and `NotAsleep` without renegotiation |
| `MonitorsTold` | `FlowMonitor`: `NothingMissed`, `GhostsExplained`, and `NoGhosts` without replacements and requests during pauses |
| `RequestsInv` | `Connections`: `OnceInOrder`, `BarrierHolds`, and what makes them inductive |
| `ControlInv`, `NoNeedlessFlush` | `Controllers`: `Standalone`, and what makes it inductive; `LosesOnlyWhenDue` |
| `PortsSound` | `Ports`: `OneToOne`, `Told`, `TunnelsBacked` |
| `BundlesHold` | `Bundles`: `BundlesSound`, `StaysInVlan`, `MacsUsable`, `MirrorsAgree`, `CopiedOnce` |
| `SwitchSettles` | `ReturnsToOpenFlow`, `EventuallyCurrent`, `DropsEnd`, `Settles`, `Ends` of the five subjects |
| `RequestsResume`, `TlsProgress` | `Resumed`, `Retried` (no connection drops), `RetriedWhileOwned` (they may), `Flushed`, `InBandEnds`; `StartEnds`, `Flushed` |

The type invariants of the components are conjuncts of the same properties. Not
every case checks every conjunct: where section 5 explains that a constant
refutes a statement, the statement is checked in the cases without that
constant, and a weaker one where there is one to state. The comment above each
property says which. The three runs that expect a violation are in section 5 too.

Why the bounds suffice for the cases of interest:

- *HotCall*: a batch of two and its synchronous call fill the ring of three, so
  every slot is reused while others are in use; the value ring wraps inside a
  call's arguments; five calls allow two full rounds; two idle rounds let the
  poller sleep before, during and after a hand-over.
- *Classifier*: two fields give four masks, so several tables compete with
  equal, greater and smaller priorities, priority 0 included. The loops have
  lists of two rules under one match and two tables, and a body that may or may
  not remove each rule.
- *FlowCache*: three entries distinguish front, middle and back; two flows may
  share a rule and two rules a hash; the checksum wraps.
- *SharedMemory*: 33 nodes need 32 buckets, beyond the pages of 8 there are at
  the start, and four pages run out. The shipped cache has 5 entries, with which
  the maps grow only once; the larger maps check the sizes the code provides for.
- *Heap, EvictionGroups*: six nodes have removals whose replacement moves up in
  another subtree; four rules make two groups of two, or one of four, above the
  cap on group sizes (2 here, 65535 in the code).
- *FlowTable*: two keys of which one covers the other, a limit of one, and
  enough rules for a replacement, a victim and a pending operation at once; a
  buffer of one makes the flush and the eviction of the optimized build call
  twice.
- *RuleMap*: four addresses make the map grow; of three with two low halves, two
  share a bucket, and six rules let an address be used again.
- *Collect*: buffers of one and two with three rules need one call, two calls,
  and a second call that finds more than the first counted.
- *Connections, FlowMonitor*: a second connection is there to be blocked by the
  first's operation; a queue of one update pauses a monitor at once, and five
  changes let a flow be told, replaced and deleted in one pause.
- *Timeouts*: 14 ticks of half a second hold an idle timeout of 10, the lag of a
  dump and a push (6), and a pause that starts after the first packets.
- *CallTable*: two asynchronous calls, each with up to two values of a type, fill
  a ring of four, so that the second wraps around to the cells before the first's.
- *Roles*: three candidates, of which one is busy and one lost, over generation
  ids that wrap.
- *Bundles, Ports*: three of a kind, so that one goes, one stays and one takes
  the freed place; a number asked for that is taken, and one past the end.
- *TlsProvision*: two programs enrol at once with a crash at any point of
  either, and a third generation of keys after it.

Deadlock is checked in every run. A component whose requests or events are
bounded may come to its end; its suite lets it, and only it, stutter there
(`Stop`).

### Fairness

`hotcall` assumes that both threads keep running (`WF`), that neither
is starved for ever at a lock the other keeps releasing (`SF` on the lock
steps), and two facts about time. An idle period is ten million rounds of the
poller (`INIT_TIMER_VALUE`), the caller's lock-signal-unlock a few
instructions, so a period does not run out within one (`LongIdlePeriod`); for
the same reason the caller cannot look at `sleeping` only at the moments when it
is set (`SF` on `CheckSleeping /\ ~sleeping`). Nothing obliges OVS to make a
call, nor a condition variable to wake up by itself.

The liveness suites assume what the main loop of `ovs-vswitchd` provides: each
of its steps (`ofproto_run`, `type_run`, `connmgr_run`, dumps and expiry) is
taken again and again (`WF`, or `SF` where another step of the same loop may
disable it for a while), the datapath answers, and operations held back by
`ofproto/clog` complete once the switch is unclogged. `Table` asks for
infinitely many moments at which the main loop has run unclogged. Nothing is
assumed of controllers, packets, ports or other processes. In these suites the
components at rest are in their initial states, and fairness concerns the
subject alone.

## 4. Proofs

TLC checks the instances of section 3; the theorems hold for every value of the
constants that satisfies the assumptions named with them. Each inductive
invariant is also an invariant (or a conjunct of one) of a run.

| Module | Theorem | Statement |
|---|---|---|
| `HotCallProofs` | `Inductive` | `Spec => []ChannelInv` |
| | `QueueOwned` | the caller waits in `make_hotcall` whenever the poller walks the list |
| | `InOrder` | calls run once each, in the order they were made |
| | `ReturnComplete` | a synchronous call returns only after all calls have run (`ReturnMeansExecuted`) |
| | `OwnArguments` | every call reads the arguments it was made with (`ArgumentsIntact`) |
| | `Refinement` | `Spec => Channel!ChSafeSpec`, the safety part of `CallChannel` |
| `EnclaveMapsProofs` | `PagesInductive` | `Spec => []PagesInv` |
| | `BucketsAreOwned` | no two maps share a page, and a map's page is large enough for its mask |
| | `MapInductive` | `MapSpec => []MapInv` |
| | `LookupCorrect`, `Clean` | a look-up finds the rule's own copy; no copy outlives its rule |
| | `CopyForEveryRule` | `MapSpec => []CopiesForRules`: under every hash there are at least as many copies as rules, also with shared hashes and if freed rules leave theirs behind |
| `FlowCacheProofs` | `Inductive` | `CacheSpec => []CacheInv` |
| | `LeastRecentGoes` | an insertion that displaces an entry displaces the least recently used one (`EvictsLeastRecent`) |
| `InterfaceProofs` | `RolesInductive` | `RolesSpec => []RolesInv` |
| | `MasterIsUnique`, `NothingUnasked` | at most one primary controller is master; nobody hears what they did not ask for |
| | `DeposedIsFenced` | a deposed master changes nothing (`Fenced`, an action property) |
| | `CallsInductive` | `SignaturesAgree /\ CallsSpec => []CallsInv` |
| | `CallsDelivered` | an ecall gets the arguments of its own call, whole; used results were stored |
| | `BridgesHaveOwnTables` | no two bridges are given one id |
| `ConnectionsProofs` | `RequestsInductive` | `RequestsSpec => []RequestsInv` |
| `ControlProofs` | `ControlInductive` | `ControlSpec => []ControlInv` |
| | `FlowsKept` | the flows of a controller are lost only to eviction or to a flush that is due (`NoNeedlessFlush`, an action property) |
| | `BootstrapInductive` | `BootstrapSpec => []BootstrapInv` |
| | `OneCertificateTrusted`, `PeersVerified` | all processes trust the one certificate in the file; connected peers have it |
| | `RereadInductive`, `PairAlwaysLoaded` | loaded key and certificate belong together, or have been noticed not to |
| `TlsProvisionProofs` | `Inductive` | `ProvisionSpec => []KeysInv` |
| | `CertificateIsForKey` | a program serves with the certificate of its own key (`ServesOwnKey`) |

**HotCall.** Assumptions: `MaxBatch < RingSize` (`RingAssumption`) and
`MaxBatch * MaxValues <= ValueRing` (`ValueAssumption`); `TIMEOUT` on or off. The
code has rings of 20. That the callers stay within them was established by
reading: in `ofproto.c` every loop over rules or tables that makes asynchronous
calls also makes a synchronous one, so a handful accumulate. The exception is
the loop of `destruct` (`ofproto-dpif.c:1607-1610`), with three asynchronous
calls for each rule left after the flush. Those are the three internal rules, so
nine calls, and with `SGX_ofproto_destroy` and the next `SGX_oftable_set_name`
eleven, which take 18 of the 20 bytes in `uint8_ts`. A flush that left more than
six rules behind would break both assumptions.

None of the properties is inductive by itself, because `run` and `is_done` are
written without the spinlock. `ChannelInv` adds: who holds the spinlock
(`LockInv`); the hand-over protocol of the flags (`HandshakeInv`: a caller that
waits has `run` set, or the poller is at its batch, or `is_done` is set and the
list is empty); that the list holds exactly the slots handed out last, in order
(`RingInv`), whence the next slot is free and `list_insert` appends; that
executed, listed and prepared calls are numbered without a gap (`OrderInv`); and
for the arguments (`ArgsInv`) that the cells of the value ring the `d`-th last
waiting call points to hold its values and are of age less than `MaxValues * d`,
the age being how many cells were handed out since. A batch has at most
`MaxBatch` calls before the next one, so with `ValueAssumption` no new argument
lands on such a cell (`NextCells`, `Age` and their lemmas); a call whose
arguments are on the stack is the one the caller is waiting for. Each conjunct
has a lemma of its own with a step per action. For the refinement,
`ViewIsConsecutive` shows that the abstract `pending` and `finished` are
intervals of call numbers, and `ViewStep` that each concrete step is one
abstract step or none.

**RuleMap.** For addresses with distinct low 32 bits (`NoSharing`) and callers
that destroy what they free (`~Leaks`); section 5 shows what happens without
either. `MapInv`: every bucket is empty or holds the one node of the live rule
with that hash, whence growing the map reverses nothing that matters.
`CopyForEveryRule` does without both hypotheses, for finitely many addresses. It
counts: `Sharing(h)` are the rules that exist under a hash, and there are as many
copies at least. An insertion adds one of each, growth loses no node, a freed
rule leaves its copy, and a destruction, which may take the copy of another rule,
takes one copy for one rule. So the look-up of a rule that exists finds a copy,
and the destruction of one never meets an empty bucket.

**SharedMemory.** `SizesAssumption` only says that masks are numbers and can get
as large as a full map needs. `PagesInv` adds to `BucketsOwned` that no page is
lost: a page marked taken is the page of some map, or one of those whose status
`malloc` left that way. Both are needed together. The page a map grows into is
free by `GetPage` (what the search and the allocation return), so by
`BucketsOwned` it belongs to no other map; the page given back is the map's own;
and `CalcMask` bounds the mask computed for a number of nodes, so that the page
asked for is large enough.

**FlowCache.** For a finite, nonempty set of entries, numeric hashes and rules
and any positive modulus (`Sizes`). What makes the eviction right is an
agreement of two orders: of two entries in use, the one nearer the front of
`lru_list` was used less recently (`LruInv`). It is preserved although freed
entries move to the back of the list without having been used, because the
statement is about entries in use only. `ToBackProperties` says what
`list_remove` followed by an insertion at the back does to the order of a list
without duplicates. The list holds every entry, so a front entry that is in use
comes before all others in use.

**Roles.** A connection is of one type, and a message carries settings that
exist (`TypesAssumption`, `SettingsAssumption`). `RolesInv` adds to the unique
master that a deposed connection is a slave or gone (`DeposedIsSlave`), and that
a connection whose controller has made no settings, or that is gone, has none
that let anything unasked through (`SettingsAreOwn`): those of an earlier
connection do not survive.

**CallTable.** For every table of signatures in which wrapper and case agree
(`SignaturesAgree`; the run checks that the code's table does, but for the calls
of section 5), a counter with room for the bridges, and batches that fit into the
rings: an asynchronous wrapper takes at most two values of a type, and
`2 * MaxBatch <= Ring` (`CallsAssumption`), which is `ValueAssumption` of
`HotCall` for each ring. That the arguments arrive is not inductive, as it speaks
of calls that have been executed. `Waiting` adds, for the calls in the queue, that
each argument is still in its cell, and that the cell is among the last
`2 * Len(queue)` cells handed out, the `d`-th last of which is `Behind(idx, d)`.
`RingMoves` shows that a wrapper takes none of the last `Ring - 2` cells and how
the others age; `OwnCells` that no two arguments of one call share a cell.
`HotCall` proves the same of one ring with its handshake, step by step; here the
hand-over is one step, and there are all rings, widths and results.

**Connections.** For any connections, kinds of requests and limits. `RequestsInv`
adds to order and barriers that a connection that is lost leaves nothing to the
next (`NothingLeftOver`), and that replies and operations in progress belong to
requests already handled (`AnswersDealtWith`), so that a barrier handled now is
later than all of them. Failures of buffered packets in the operations that
complete together are chosen as increasing sequences of their positions
(`Failures`), so the errors of a connection are appended in order.

**Controllers.** For any controllers, listeners and versions. `ControlInv` adds to
`Standalone` that fail-open exists exactly as long as the mode and the controllers
ask for it, and that a flush that is owed is the state of the main loop, also when
an eviction interrupts it. `FailOpenUpdated` says what `update_fail_open` does;
`FlowsKept` has the same case split as the invariant.

**TlsProvision.** For any programs (none called `"none"`), any number of keys
and all failures but `"open"`: crashes of programs and server at every step,
no entropy, certificates that do not parse, writes that fail half-way.
`KeysInv` rests on the order of the three files. The key is written last, so if
its file exists all three do, its certificate is for that key, and the program
never generates another (`KeyLast`); what was read, and what is still to be
written, agree with that (`ReadSoFar`, `WrittenSoFar`, `Holds`). On the other
side (`Served`, `ServerInv`), while a program waits for its certificate the
request under way, the request received or the file `sc-cert.crt` is for its
key, although that file is one for all clients: a connection that was reset is
not answered, and the server serves one at a time. The hypothesis
`"open" \notin Faults` is not for convenience. With it dropped TLC refutes
`ServesOwnKey`; see section 5.

**SslBootstrap.** No certificate is called like one of the file's other states.
`BootstrapInv`: at most one process writes the file (`O_EXCL`), it writes the
self-signed certificate its peer presented, and a process trusts nothing before
it has written or read the file. Hence the file changes once and everybody
trusts the same certificate, or none where loading it failed (`Untrusting`).

**SslKeys.** `Reread` is inductive as it stands.

`Sizes`, and what is said above of `RuleMap` and `TlsProvision`, are hypotheses of
the theorems rather than `ASSUME`s of the modules: the instances of section 5 do
without them. The runs satisfy them.

### Only model-checked

- *Liveness*: `CallsReturn`, `SwitchSettles`, `RequestsResume`, `TlsProgress`,
  and the fairness part of `CallChannel` (`ImplementsChannel` as a whole).
  TLAPS 1.4.5 proves nothing that involves `ENABLED`, and so no fairness.
- *What a recursion or fold computes.* `ChecksumValid` is a sum over the
  entries, `Heap` (and `EvictionGroups` on top of it) and the nested translations
  of `Translate` are recursive, as is what a stream has written in `SslStream`
  (`OwnPeer`, `StreamsAwake`), and the look-up of `Classifier` folds over its
  tables. Many handlers loop over rules, facets, operations or ports, and their
  actions fold: `FlowTable`, `Facets`, `Upcalls`, `Revalidation`, `Timeouts`,
  `Bundles`, `FlowMonitor`, `Ports`. Their invariants need induction over data,
  for which the provers at hand cannot instantiate the library's theorems.
- `Collect` compares two computations on each input, so TLC's enumeration is
  already exhaustive up to the sizes of section 3. So is its enumeration of the
  signatures in `CallSignatures`, which is a finite list: `SignaturesAgree` is
  checked, and a hypothesis of the theorems about `CallTable`.

## 5. Where code and documentation disagree

Statements of the repository's comments and documents that TLC refutes in these
models. Three are kept as runs; the others are definitions of their modules that
the named constants refute (the counterexamples were obtained with instances of
one or two objects of each kind).

- `UtCrsKeyedByAddress` of `FlowCache`, `cache-trusted.c:165`:
  insert_cache_entry files an entry in ut_crs under the hash of the flow, the
  key of the map entries; OFTonSGX/include/common.h:179 says "Mapping from
  Hash(untrusted cr addr) to cls_cache_entry;". flow_map_cache_remove_ut_cr
  (cache-trusted.c:74) searches under the other hash and in general does not
  find the entry, which stays cached after its rule is gone.
- `RemovedEntryInFront` of `FlowCache`, `cache-trusted.c:154`:
  remove_cache_entry calls list_insert(&lru_list, ...), which inserts before the
  head, at the back; the comment at OFTonSGX/trusted/cache-trusted.c:151 says
  "Put cache entry in the front of lru list". A freed entry is then reused last,
  after entries in use have been evicted.
- `NoLimitNoEviction` of `EvictionGroups` (`Limits` with the largest unsigned),
  `eviction.c:199`: ecall_ofproto_evict reads max_flows into an int, so that
  UINT_MAX becomes -1 and every count is over it;
  OFTonSGX/ovs_modified/ovs_sgx/ofproto-provider.h:167 says "Maximum number of
  flows or UINT_MAX if there is no limit besides any limit imposed by resource
  limitations." When the eviction pass runs because of one table, all rules with
  a timeout of every other table with eviction enabled and no limit are evicted
  too.
- `TotalIsFeasible` of `EvictionGroups`, `eviction.c:200`: total_nr_evictions
  counts all flows above the limit, permanent rules included, and ofproto_evict
  loops to that total over an array in which the enclave filled only the rules
  it could choose (ofproto.c:5590); the comment at
  OFTonSGX/ovs_modified/ovs_sgx/ofproto.c:5516 says it "evicts as many flows as"
  "necessary and currently feasible from them." A table over its limit through
  permanent rules makes the loop read entries that were never written.
- `NoAbort` of `FlowTable` (`Build = "plain"`, `MayClog`), `ofproto.c:1140`: The
  SGX branches of ofproto_flush__ delete every rule without the test
  !rule->pending of the other branch, and ofoperation_create then asserts;
  OFTonSGX/ovs_modified/ovs_sgx/ofproto.c:5339 says "Prior to calling, 'rule'
  must not have any pending operation." A flush while an operation is pending
  (ofproto/clog) ends the process.
- `BacksOut` of `FlowTable` (`Build = "optimized"`, `MayClog`),
  `ofproto.c:3875`: In the optimized build the enclave has removed the rule to
  evict before ofproto sees that it has an operation pending and returns
  POSTPONE; OFTonSGX/ovs_modified/ovs_sgx/ofproto.c:4005 says "/* Back out if an
  error occurred. */" and puts back only the replaced rule. The evicted rule
  stays in ofproto without being in a table.
- `FlushDeletesAll` of `FlowTable` (run `flow_table_flush`), `ofproto.c:1126`:
  With more rules than the buffer holds, the second SGX_ofproto_flush overwrites
  n_rules with the number of rules it found itself, and the loop visits that
  many; OFTonSGX/ovs_modified/ovs_sgx/ofproto.c:1796 says ofproto_flush_flows
  "Starts the process of deleting all of the flows from all of ofproto's flow
  tables". Rules gone from the enclave's tables stay in ofproto.
- `StrictDeleteTakesEffect` of `FlowTable` (`MayClog`), `ofproto.c:3213`:
  collect_rules_strict sets error to OFPROTO_POSTPONE at a pending rule, goes to
  exit and returns 0; OFTonSGX/ovs_modified/ovs_sgx/ofproto.c:3135 says "Returns
  0 on success, otherwise an OpenFlow error code." The deletion is acknowledged
  and lost.
- `LookupFindsCopy` of `RuleMap` (run `rule_map_reuse`), `ofproto.c:5286`: In the
  optimized build a completed deletion frees the rule without SGX_cls_rule_destroy;
  OFTonSGX/trusted/cls_rule/cls-rule.c:117 says "From untrusted the Pointer the
  sgx_cls_rule is retrieved." After the address is used again and the map has
  grown, the look-up retrieves the copy of the deleted rule.
- `LookupFindsCopy` of `RuleMap` (`Low` not injective), `cls-rule.c:198`:
  sgx_rule_from_ut_cr compares the hash only, the low 32 bits of the address;
  OFTonSGX/trusted/cls_rule/cls-rule.c:117 says "From untrusted the Pointer the
  sgx_cls_rule is retrieved." Two rules 4 GiB apart find one copy. What is left,
  that a rule always finds some copy, is `CopiesForRules`.
- `StatsDescribeRule` of `Collect`, `ofproto.c:3306`: handle_flow_stats_request
  of the optimized build takes match and priority from position i of arrays that
  hold every collected rule, while i counts only the rules that out_port and
  cookie select; OFTonSGX/ovs_modified/ovs_sgx/ofproto-provider.h:978 says
  "Obtains statistics for 'rule', storing the number of packets that have"
  "matched it". With a filter the reply gives one rule's counters with another
  rule's match.
- `TablesRead` of `Revalidation` (`Optimized`), `oftable.c:452`:
  ecall_delete_flows removes all the rules of a deletion before
  SGX_table_update_taggable is called for any of them, and rule_destruct
  translates facets in between;
  OFTonSGX/ovs_modified/ovs_sgx/ofproto-dpif.c:8139 says "This function must be
  called after *each* change to a flow table." The tag is then computed from the
  mask of a classifier table that destroy_table has freed.
- `LookupIsValid` of `Revalidation`, `ofproto-dpif.c:1064`: type_run clears
  need_revalidate and revalidate_set before its loop, and run_fast_rl handles
  packets between two facets of the loop;
  OFTonSGX/ovs_modified/ovs_sgx/ofproto-dpif.c:5074 says "The returned facet is
  guaranteed to be valid." A facet later in the loop is found unmarked and used
  as it is.
- `CountedOnce` of `Facets` (`"slow"` in `Acts`), `ofproto-dpif.c:5590`:
  subfacet_uninstall folds the counts of a deleted SF_SLOW_PATH flow into the
  facet, although OFTonSGX/ovs_modified/ovs_sgx/ofproto-dpif.c:4624 says of such
  flows "Stats are updated per-packet." and update_stats leaves them alone: a
  packet of a slow-path flow is counted when it is handled and again when the
  flow goes. `CountedOrMore` is what holds with such rules.
- `ExpiryFolds` of `Facets`, `ofproto-dpif.c:5502`: subfacet_destroy_batch
  passes the returned counts to subfacet_reset_dp_stats but not to
  subfacet_update_stats; OFTonSGX/ovs_modified/ovs_sgx/ofproto-dpif.c:4643 says
  "When a subfacet expires, we fold its statistics into its facet". Counts after
  the last dump are lost.
- `DatapathFollows` of `Facets` (`ModifyFails`), `ofproto-dpif.c:5541`:
  subfacet_install leaves the path unchanged when the datapath refuses the flow,
  and facet_revalidate stores the new actions;
  OFTonSGX/ovs_modified/ovs_sgx/ofproto-dpif.c:384 says "SF_FAST_PATH: The
  subfacet's actions are installed in the datapath."
- `PutsPointAtSubfacets` of `Upcalls`, `ofproto-dpif.c:4224`:
  handle_miss_upcalls queues the puts of all misses before it executes any, and
  facet_lookup_valid for a later miss may remove the facet of an earlier one
  after a learn action changed the flow table;
  OFTonSGX/ovs_modified/ovs_sgx/ofproto-dpif.c:3603 says of the operation "If
  this is a "put" op, then a pointer to the subfacet that should be marked as
  uninstalled if the operation fails." The subfacet is freed by then.
- `DropsKnown` of `Upcalls` without its exception for flows that the datapath
  failed to delete, `ofproto-dpif.c:4004`: drop_key_clear removes every key from
  backer->drop_keys, "Set of dropped odp keys."
  (OFTonSGX/ovs_modified/ovs_sgx/ofproto-dpif.c:680), also when
  dpif_flow_del failed. The flow goes on dropping until a dump finds that it has
  no subfacet; that it goes in the end is `DropsEnd`.
- `SubfacetsInstalled` of `Upcalls`, `ofproto-dpif.c:4179`: A packet from a port
  that is gone replaces the datapath flow of its key by a drop flow, which
  drop_key_clear deletes; when the port is back before the revalidation the
  subfacet is kept as SF_FAST_PATH.
  OFTonSGX/ovs_modified/ovs_sgx/ofproto-dpif.c:384 says "SF_FAST_PATH: The
  subfacet's actions are installed in the datapath." Nothing installs it again
  while packets keep coming.
- `IdleRuleHasNoFacets` of `Timeouts` (`Idle = 2`), `ofproto-dpif.c:4796`:
  rule_expire compares the rule's timestamp, which facets push only every 2000
  ms (type_run), with idle timeouts of one second and more;
  OFTonSGX/ovs_modified/ovs_sgx/ofproto-dpif.c:4805 says of an idle timeout
  "that only happens when the rule has no facets left." A rule with an idle
  timeout of one second is removed while its flow has packets.
- `ResultsDelivered` of `CallTable` (`Calls` with
  `SGX_miniflow_expand_and_tag`), `call-table.c:637`: execute_function calls
  ecall_miniflow_expand_and_tag without storing its result, so
  SGX_miniflow_expand_and_tag (OFTonSGX/untrusted/app.c:1688) returns an
  uninitialised variable and rule_construct of an OPTIMIZED HOTCALL build gives
  the rule an arbitrary tag; optimization-notes.md:7 says of it "rule_construct
  - merge 2 ecalls into 1." The two calls it replaces do return the tag.
- `TypeByteRead` of `TlsProvision` (`Faults = {"crash"}`),
  `wrapper_sgx.cpp:100`: read_ssl_resource asserts "assert(n == 1);"
  (TLSonSGX/untrusted/wrapper_sgx.cpp:100) of every file it can open, but the
  files are written in place: a process that ends between fopen("w") and the
  first flush (wrapper_sgx.cpp:193-204) leaves an empty one, and every later
  start ends in the assertion until the file is removed by hand.
- `AllWritten` of `TlsProvision` (`Faults = {"open"}`), `wrapper_sgx.cpp:208`:
  SSL_library_init prints "Successfully wrote all resource to disk."
  (TLSonSGX/untrusted/wrapper_sgx.cpp:208) whenever the loop reaches the last
  index; a file that fopen could not open was skipped without a word
  (wrapper_sgx.cpp:193).
- `ServesOwnKey` of `TlsProvision` (`Faults = {"crash", "open"}`),
  `wrapper_sgx.cpp:193`: the same silently skipped file, with a crash before the
  key's file is written. The certificate of a first key is on disk; in the next
  run fopen fails for the certificate alone and the second key is written beside
  it. From then on the program unseals and serves the one with the other, while
  "Private key and certificate are within the enclave"
  (TLSonSGX/untrusted/wrapper_sgx.cpp:451) stands for the check that would
  notice.
- `PrivateKeyWithin` of `TlsProvision` (`Faults = {"crash"}`),
  `wrapper_sgx.cpp:451`: SSL_CTX_check_private_key returns 1 because "Private
  key and certificate are within the enclave"
  (TLSonSGX/untrusted/wrapper_sgx.cpp:451). load_sealed_ssl_resources ignores
  that unseal_key failed (TLSonSGX/trusted/sealing/seal-ssl-resource.c:33-36),
  so after a crash during the write of the key file the program serves with a
  certificate and no key.
- `ConnectionsHandled` of `TlsProvision` (two programs, `Faults = {"crash"}`,
  `FairSpec`), `CA_server.c:150`: Under "Handle connections"
  (CA_server/CA_server.c:99) the server reads a request until the buffer is not
  the empty string; if the client ends after "MOK" SSL_read returns 0 for ever,
  the loop at CA_server.c:146-150 never ends, and clients that connect later
  wait in their handshake.
- `NotAsleep` of `SslStream` (`Renegotiates`), `stream-ssl.c:715`: The comment
  on rx_want and tx_want says of resetting tx_want when SSL_read changed the
  state: "This prevents both the deadlock and livelock situations above."
  (TLSonSGX/ovs_modified/ovs_sgx/stream-ssl.c:134). ssl_run_wait waits for
  nothing when tx_want is SSL_NOTHING, so after SSL_read has finished a
  renegotiation that SSL_write was waiting for, the program blocks on input
  alone with a message in txbuf that could be written. `ReadsAwake` and
  `NoLivelock` hold with renegotiation too.
- `OwnPeer` of `SslStream` (run `sslstream_shared`), `enclave.c:374`:
  TLSonSGX/README.md:3 says it was designed "to allow replacing the default
  OpenSSL library with a crypto library running inside an SGX enclave";
  ecall_ssl_new stores every new session in one static variable, so the calls of
  a second stream work on the session of the stream opened last, and its records
  go to that stream's peer.
- `HandshakeAccepted` of `SslStream` (`SERVER`, `SGX_TLS`), `enclave.c:332`: The
  wrapper keeps the error apart "because some OpenSSL functions assumes 0/1
  retval only." (TLSonSGX/untrusted/wrapper_sgx.cpp:332); ecall_ssl_connect
  turns success into 1, ecall_ssl_accept returns mbedtls's 0, which ssl_connect
  (stream-ssl.c:462) takes for an error, so a passive connection never
  completes.
- `CloseIsEnd` of `SslStream` (`SGX_TLS`), `enclave.c:284`: "PolarSSL read/write
  functions work as OpenSSL analogues" (TLSonSGX/untrusted/wrapper_sgx.cpp:365):
  at an orderly close OpenSSL reports SSL_ERROR_ZERO_RETURN, for which ssl_recv
  returns 0; the enclave reports 0 or mbedtls's close-notify code, which
  interpret_ssl_error turns into EIO.
- `ReadMeansRead` of `SslBootstrap`, `stream-ssl.c:1322`: read is "Whether the
  file was successfully read." (TLSonSGX/ovs_modified/ovs_sgx/stream-ssl.c:148);
  stream_ssl_set_ca_cert_file__ sets ca_cert.read also when read_cert_file
  failed, so new_ssl_stream's check for a CA certificate passes without one.
- `NoGhosts` of `FlowMonitor` (`Replaces`), `connmgr.c:1869`: "by comparing an
  old value of monitor_seqno against a rule's 'add_seqno', one can tell whether
  the rule was added before or after the old value was read"
  (ovs_modified/ovs_sgx/connmgr.c:1768), and "Only send NXFME_DELETED
  notifications for flows that were added before we paused." (connmgr.c:1866).
  An addition that replaces a flow gives it a new add_seqno; if that happens
  during a pause and the flow is then deleted, the deletion is withheld from a
  controller that was told of the flow before the pause, and nothing tells it
  later. `GhostsExplained` is what holds in general: no other flow is left over.
- `NoGhosts` of `FlowMonitor` (`Patient = FALSE`), `connmgr.c:1866`: "Only send
  NXFME_DELETED notifications for flows that were added before we paused."
  (ovs_modified/ovs_sgx/connmgr.c:1866): a monitor request served during the
  pause (ofproto.c:4898) lists flows added since, and their deletion before the
  resumption is withheld from the controller that was just told of them.
- `NoPendingRule` of `FlowMonitor` (`Clogs`), `ofproto.c:4805`:
  "ovs_assert(!rule->pending); /* XXX */" (ovs_modified/ovs_sgx/ofproto.c:4805)
  fails when a monitor is requested, or resumed, while a rule it matches has an
  operation in progress; handle_flow_monitor_request does not postpone the
  request, and ofproto_compose_flow_refresh_update (4676-4707) was written for
  such rules.
- `Retried` of `Connections` (`Drops`, `RequestsFairSpec`), `ofproto.c:5326`: "The
  caller should retry the operation later."
  (ovs_modified/ovs_sgx/ofproto-provider.h:1322), and connmgr.c:267 has a
  blocked message re-presented "following the next call to connmgr_retry()".
  ofopgroup_complete calls connmgr_retry only for a group that still belongs to
  a connection: when the connection whose group a request of another connection
  waits for drops first, the group completes without a retry, and the request,
  with everything behind it, waits until some other controller's group
  completes. `RetriedWhileOwned` holds with `Drops`.
- `BufferOwnerAlive` of `Connections` (`Kinds = {"buffered"}`, `Removes`),
  `ofproto.c:5176`: "The client may, therefore, use list_is_empty(ofconn_node)
  to determine whether 'ofconn_node' is still associated with an active ofconn."
  (ovs_modified/ovs_sgx/connmgr.c:1061). ofopgroup_complete does so for the
  error reply (ofproto.c:5326) but not for the buffered packet (5176), where
  group->ofconn may have been freed by ofconn_destroy. Operations complete late
  only while ofproto/clog is in effect.
- `AnyMasterDemoted` of `Roles`, `connmgr.c:879`: "If 'role' is
  OFPCR12_ROLE_MASTER then any existing master is demoted to a slave."
  (ovs_modified/ovs_sgx/connmgr.c:871): only the connections in 'controllers'
  are looked at, which holds the primary ones; a service connection may become
  master (handle_role_request does not look at the type) and is never demoted.
- `BitmapOfUsed` of `Ports`, `ofproto.c:2071`: ofproto-provider.h:72 documents
  ofp_port_ids as "Bitmap of used OpenFlow port numbers." When a new device got
  the datapath port number of a device whose removal is not processed yet,
  update_port removes the old port, which clears the bit of its number, and
  installs the new port under that same number: a number in use is marked free
  and may be allocated again.
- `ReturnsNumber` of `Ports` (`Readds`), `ofproto.c:1636`: ofproto.c:1615-1616
  says of ofproto_port_add "If successful, returns 0 and sets '*ofp_portp' to
  the new port's OpenFlow port number". For a device that left the datapath
  while the bridge still had a port for it, update_port destroys the old port
  after port_add registered the name, and port_destruct removes the name from
  ofproto->ports again; the query at the end then fails and 0 is stored although
  a port was installed.
- `ContainsBundles` of `Bundles` (a mirror that selects a bundle both ways),
  `ofproto-dpif.c:2606`: bundle_destroy evaluates
  hmapx_find_and_delete(&m->srcs, bundle) || hmapx_find_and_delete(&m->dsts,
  bundle), so a bundle that a mirror selects both ways is removed from srcs only
  and dsts keeps the freed pointer, while the member is documented as 'Contains
  "struct ofbundle *"s.' (ovs_modified/ovs_sgx/ofproto-dpif.c:149). A later
  bundle at that address makes mirror_set take a changed configuration for an
  unchanged one (3047-3057). `MirrorsAgree` allows this pointer and no other
  disagreement.
- `NotEvicted` of `Translate` (`Sgx`), `ofproto-dpif.c:6974`: do_xlate_actions
  clears rule->up.evictable of the untrusted rule, but with the flow table in
  the enclave a victim is chosen by the enclave's own sgx_cls_rule evictable
  flag (trusted/eviction/eviction.c:70), which translation never changes. A
  learn action on a full table may then evict and free the rule whose actions
  are being translated, while the comment says "Don't let the rule we're working
  on get evicted underneath us." (ovs_modified/ovs_sgx/ofproto-dpif.c:6973).
- `SlowIsController` of `Translate` (`SpecialIn`), `ofproto-dpif.c:6256`: When
  the peer of a patch port processes a packet itself, compose_output_action__
  sets ctx->xout->slow = special and goes on; a controller action after it then
  fails "ovs_assert(!ctx->xout->slow || ctx->xout->slow == SLOW_CONTROLLER);"
  (ovs_modified/ovs_sgx/ofproto-dpif.c:6520).
- `BaseIsLastCommit` of `Translate` (an input port that only learns, and a
  mirror), `ofproto-dpif.c:7436`: For an input port that only learns,
  xlate_actions truncates odp_actions and leaves base_flow as the dropped
  actions made it, so a mirror output after it is composed against a flow that
  is not the "Flow at the last commit."
  (ovs_modified/ovs_sgx/ofproto-dpif.c:325); for a patch port both are put back
  (ovs_modified/ovs_sgx/ofproto-dpif.c:6263-6267).

## 6. Not modelled

- The sparse representation of flows (`flow.c`, `match.c`, `meta-flow.c`),
  hashing, formatting and printing.
- Table names, table and queue statistics, MTU and `ofproto_port_set_state`,
  sFlow, NetFlow, IPFIX, CFM, BFD, LACP and STP timers, governors.
- In `Facets`, misses handled by `run_fast_rl` between two deletions of one
  batch; in `FlowMonitor`, snoops and packet-in scheduling; in `Bundles`, the
  size limit of the MAC table, priority tags and learning packets; in
  `Translate`, MPLS, the stack, multipath, `fin_timeout` (it is in `Timeouts`),
  VLAN splinters and wildcards, and a learn action that replaces the rule being
  translated.
- Failures and counts that no property tells apart: a listener or datapath port
  that cannot be created (`connmgr_set_controllers`, `port_add`), a later change
  of a CA certificate file that was read, a blocked request tried once more as its
  connection is lost. In `Controllers` a
  flush deletes every rule without an operation, as in the vanilla build and in
  the others while their buffers suffice.
- An operation that completes with an error: every call of `ofoperation_complete`
  passes 0 (`ofproto.c:4066`, `ofproto-dpif.c:1568`, `5734`).
- `ecall_ofproto_get_vlan_usage` and `_r`, which go through a pointer that is
  never set; `ecall_oftable_set_name`, which tests `name[bridge_id]`.
- The HotCall channel of the TLS enclave: `HotCall` with batches of one call.
- Reordering of stores by the compiler, and loss of the enclave on suspend,
  which the code does not handle.
- `ovs_vanilla` (unmodified copies), the controllers, benchmark and build
  scripts, which are not part of the SGX switch.
