----------------------------- MODULE MCEnclave ------------------------------
(***************************************************************************)
(* What goes through the two enclaves.  The structures that the flow-table *)
(* enclave keeps: classifiers (Classifier), the flow cache (FlowCache) and *)
(* its pages (SharedMemory), and the heaps of eviction groups              *)
(* (HeapMachine).  The secure channel of the TLS enclave: keys and         *)
(* certificates from the CA server (TlsProvision), streams (SslStream) and *)
(* the CA certificate learnt from a peer (SslBootstrap).                   *)
(*                                                                         *)
(* The components share no state in these modules. A behaviour is about    *)
(* one of them, its subject, and the others are at rest.                   *)
(***************************************************************************)
EXTENDS SharedMemory, FlowCache, SslBootstrap, TlsProvision

CONSTANT Off   \* the state of components at rest
CONSTANTS f1, f2, f3, v1, v2, e1, e2, e3, vswitchd, ovsdb, s1, s2, r1, r2, n1
CONSTANT EnclaveStreams   \* the streams of a program whose TLS sessions are in the enclave

VARIABLE subject   \* the component, or instance of one, that this behaviour is about
VARIABLES cls, cur
VARIABLES heap, last
VARIABLES state, txbuf, rx_want, tx_want, session, in, room, got, sent, phase, events,
    result, spins, streams_opened

-----------------------------------------------------------------------------
(* The classifier: edits and look-ups with two fields, and loops with a    *)
(* cursor that delete rules as they go.                                    *)
ClsCases ==
    [edits |-> [Fields |-> {f1, f2}, Priorities |-> {0, 1, 2}, MaxRules |-> 3],
     loops |-> [Fields |-> {f3}, Priorities |-> {0, 1}, MaxRules |-> 4]]
Cls(c) == INSTANCE Classifier WITH
    Fields <- c.Fields, Priorities <- c.Priorities, MaxRules <- c.MaxRules,
    Values <- {v1, v2}
clsVars == <<cls, cur>>

-----------------------------------------------------------------------------
(* The heap of an eviction group with up to six rules.                     *)
Heap == INSTANCE HeapMachine WITH
    HeapPriorities <- {0, 1, 2}, MaxHeap <- 6
heapVars == <<heap, last>>

-----------------------------------------------------------------------------
(* Two OpenSSL streams; one whose peer renegotiates; streams with the      *)
(* enclave's session.                                                      *)
StreamCases ==
    [streams |-> [Streams |-> {s1, s2}, SERVER |-> {s2}, SGX_TLS |-> FALSE,
          Renegotiates |-> FALSE, MaxSent |-> 2, MaxIn |-> 1],
     renegotiation |-> [Streams |-> {s1}, SERVER |-> {}, SGX_TLS |-> FALSE,
          Renegotiates |-> TRUE, MaxSent |-> 3, MaxIn |-> 2],
     enclave_session |-> [Streams |-> EnclaveStreams, SERVER |-> {}, SGX_TLS |-> TRUE,
          Renegotiates |-> FALSE, MaxSent |-> 3, MaxIn |-> 2]]
Stream(c) == INSTANCE SslStream WITH
    Streams <- c.Streams, SERVER <- c.SERVER, SGX_TLS <- c.SGX_TLS,
    Renegotiates <- c.Renegotiates, MaxSent <- c.MaxSent, MaxIn <- c.MaxIn, MaxSize <- 2,
    MaxOpen <- 2, opened <- streams_opened
streamVars == <<state, txbuf, rx_want, tx_want, session, in, room, got, sent, phase, events,
    result, spins, streams_opened>>

-----------------------------------------------------------------------------
tlsVars == <<provisionVars, streamVars, bootstrapVars>>
suiteVars == <<subject, clsVars, cacheVars, heapVars, vars, tlsVars>>

(* One component moves; the others are at rest.                            *)
Subjects ==
    {"cache", "heap", "pages", "provision", "bootstrap"} \cup DOMAIN ClsCases
        \cup DOMAIN StreamCases

ClsInit ==
    \/ \E s \in DOMAIN ClsCases : subject = s /\ Cls(ClsCases[s])!Init
    \/ subject \notin DOMAIN ClsCases /\ cls = Off /\ cur = Off
HeapInit ==
    \/ subject = "heap" /\ Heap!HeapInit
    \/ subject # "heap" /\ heap = Off /\ last = Off
StreamInit ==
    \/ \E s \in DOMAIN StreamCases : subject = s /\ Stream(StreamCases[s])!Init
    \/ subject \notin DOMAIN StreamCases /\ state = Off /\ txbuf = Off /\ rx_want = Off
       /\ tx_want = Off /\ session = Off /\ in = Off /\ room = Off /\ got = Off
       /\ sent = Off /\ phase = Off /\ events = Off /\ result = Off /\ spins = Off
       /\ streams_opened = Off

SuiteInit ==
    /\ subject \in Subjects
    /\ Init /\ (subject = "pages" \/ unset = {})
    /\ CacheInit /\ (subject = "cache" \/ lru_list = <<e1, e2, e3>>)
    /\ ClsInit /\ HeapInit
    /\ BootstrapInit /\ ProvisionInit /\ StreamInit

ClsStep ==
    /\ \/ subject = "edits" /\ Cls(ClsCases["edits"])!EditNext
       \/ subject = "loops" /\ Cls(ClsCases["loops"])!Next
    /\ UNCHANGED <<subject, cacheVars, heapVars, vars, tlsVars>>
CacheStep ==
    /\ subject = "cache" /\ CacheNext
    /\ UNCHANGED <<subject, clsVars, heapVars, vars, tlsVars>>
HeapStep ==
    /\ subject = "heap" /\ Heap!HeapNext
    /\ UNCHANGED <<subject, clsVars, cacheVars, vars, tlsVars>>
SharedMemoryStep ==
    /\ subject = "pages" /\ Next
    /\ UNCHANGED <<subject, clsVars, cacheVars, heapVars, tlsVars>>

ProvisionStep ==
    /\ subject = "provision" /\ ProvisionNext
    /\ UNCHANGED <<subject, clsVars, cacheVars, heapVars, vars, streamVars, bootstrapVars>>
StreamStep ==
    /\ \E s \in DOMAIN StreamCases : subject = s /\ Stream(StreamCases[s])!Next
    /\ UNCHANGED <<subject, clsVars, cacheVars, heapVars, vars, provisionVars, bootstrapVars>>
SslBootstrapStep ==
    /\ subject = "bootstrap" /\ BootstrapNext
    /\ UNCHANGED <<subject, clsVars, cacheVars, heapVars, vars, provisionVars, streamVars>>
(* Components whose work may come to an end.                               *)
Stop == subject \in {"provision", "bootstrap"} \cup DOMAIN StreamCases /\ UNCHANGED suiteVars

SuiteNext ==
    ClsStep \/ CacheStep \/ HeapStep \/ SharedMemoryStep \/ ProvisionStep \/ StreamStep
        \/ SslBootstrapStep \/ Stop

SuiteSpec == SuiteInit /\ [][SuiteNext]_suiteVars

-----------------------------------------------------------------------------
(* The classifier after any edits: look-ups find the rule of highest       *)
(* priority that matches, with wildcards that decide the result; exact     *)
(* searches and overlap tests are exact; the cached priorities and the     *)
(* order of the tables are those of the rules (classifier.c:163-175,       *)
(* 239-246, 283, 332).  A loop that removes the rule it is at meets every  *)
(* rule once and never one that is gone (classifier.h:116,                 *)
(* classifier.c:437-443).                                                  *)
ClassifierSound ==
    /\ \A s \in {"edits"} : subject = s => Cls(ClsCases[s])!TypeOK
    /\ \A s \in {"edits"} : subject = s => Cls(ClsCases[s])!LookupIsBest
    /\ \A s \in {"edits"} : subject = s => Cls(ClsCases[s])!WildcardsDecide
    /\ \A s \in {"edits"} : subject = s => Cls(ClsCases[s])!TablesConsistent
    /\ \A s \in {"edits"} : subject = s => Cls(ClsCases[s])!ExactIsUnique
    /\ \A s \in {"edits"} : subject = s => Cls(ClsCases[s])!OverlapIsExact
    /\ \A s \in {"loops"} : subject = s => Cls(ClsCases[s])!CursorVisitsAll
    /\ \A s \in {"loops"} : subject = s => Cls(ClsCases[s])!CursorNeverDangles

(* The heap is ordered after every operation, each operation adds or       *)
(* removes the node it is given and no other, and a rebuild restores the   *)
(* order of any array (heap.c:77-96, 141-152).                             *)
HeapSound ==
    /\ [](subject = "heap" => Heap!HeapOrdered)
    /\ [](subject = "heap" => Heap!RebuildRestores)
    /\ [][subject = "heap" => Heap!MovesGivenNodes]_heapVars

(* The peer of a connection receives the records sent on that connection,  *)
(* each once and in order, and what is in txbuf follows without a gap:     *)
(* through partial writes, blocked writes and renegotiations.  Nothing     *)
(* else is missing unless the connection was reset, when ssl_run drops     *)
(* what it could not write and leaves the stream open (stream-ssl.c:       *)
(* 644-708).  A program with the enclave's session has one stream here.    *)
OwnPeer == \A s \in DOMAIN StreamCases : subject = s => Stream(StreamCases[s])!OwnPeer

(* A stream does not run round its loop for nothing, and does not sleep    *)
(* while SSL_read or the handshake could go on; nor, if no peer            *)
(* renegotiates, while SSL_write could.  The comment at stream-ssl.c:      *)
(* 71-142 names both situations.                                           *)
StreamsAwake ==
    /\ \A s \in DOMAIN StreamCases : subject = s => Stream(StreamCases[s])!TypeOK
    /\ \A s \in DOMAIN StreamCases : subject = s => Stream(StreamCases[s])!NoLivelock
    /\ \A s \in DOMAIN StreamCases : subject = s => Stream(StreamCases[s])!ReadsAwake
    /\ \A s \in {"streams", "enclave_session"} : subject = s => Stream(StreamCases[s])!NotAsleep
=============================================================================
