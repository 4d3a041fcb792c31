------------------------- MODULE MCControlLiveness --------------------------
(***************************************************************************)
(* What has to happen in the end between the switch and its controllers,   *)
(* under the fairness that the components state: flow monitors             *)
(* (FlowMonitor), postponed requests (Connections), flushes and in-band    *)
(* control (Controllers), the start of a program with TLS in the enclave   *)
(* (TlsProvision) and its streams (SslStream). Key files that are replaced *)
(* while ovs runs (SslKeys) are checked along with them.                   *)
(*                                                                         *)
(* The components share no state in these modules. A behaviour is about    *)
(* one of them, its subject, and the others stay in their initial states.  *)
(***************************************************************************)
EXTENDS SslKeys, Integers, Sequences, TLC

CONSTANT Off   \* the state of components at rest
CONSTANTS vswitchd, ovsdb, s1, c1, c2, f1, t1

VARIABLE subject   \* the component, or instance of one, that this behaviour is about
VARIABLES table, seqno, fm_pending, fm_up, monitors, paused, queue, view, fm_aborted, misled,
    mods
VARIABLES conn_status, inbox, blocked, retry, nxm, groups, conn_clogged, replies, sent, handled,
    requests
VARIABLES controllers, services, fail_mode, fail_open, extra, remotes, in_band, state,
    flows, adding, deleting, clogged, owed
VARIABLES files, rs, pc, enclave, backlog, ca, request, sc_cert, keys
VARIABLES st_state, txbuf, rx_want, tx_want, session, in, room, got, st_sent, phase, events,
    result, spins, opened

-----------------------------------------------------------------------------
(* A connection that monitors one flow, with operations that complete      *)
(* late.                                                                   *)
Monitor == INSTANCE FlowMonitor WITH
    Conns <- {c1}, Flows <- {f1}, Hidden <- {}, Actions <- {1, 2},
    Requests <- {<<[id |-> 1, flags |-> {"INITIAL", "ADD", "DELETE", "MODIFY"}, match |-> {f1}]>>},
    Limit <- 1, Clogs <- TRUE, Replaces <- FALSE, Patient <- FALSE, MaxMods <- 4,
    pending <- fm_pending, up <- fm_up, aborted <- fm_aborted
monitorVars == <<table, seqno, fm_pending, fm_up, monitors, paused, queue, view, fm_aborted,
    misled, mods>>

-----------------------------------------------------------------------------
(* Two connections whose requests wait for each other; they stay, or they  *)
(* may drop and their controllers may be removed.                          *)
Conn(drops, n) == INSTANCE Connections WITH
    Ofconns <- {c1, c2}, Kinds <- {"mod", "barrier"}, ReplyMax <- 1, PendingLimit <- 1,
    Drops <- drops, Removes <- drops, MaxRequests <- n
ConnCases ==
    [connections |-> [drops |-> FALSE, n |-> 2], dropped_connections |-> [drops |-> TRUE, n |-> 1]]
connVars == <<conn_status, inbox, blocked, retry, nxm, groups, conn_clogged, replies, sent,
    handled, requests>>

-----------------------------------------------------------------------------
(* A controller that is reached in band.                                   *)
Control == INSTANCE Controllers WITH
    Targets <- {t1}, InBand <- {t1}, Listeners <- {}, Versions <- {"v10"}, MayClog <- TRUE
controlVars == <<controllers, services, fail_mode, fail_open, extra, remotes, in_band,
    state, flows, adding, deleting, clogged, owed>>

-----------------------------------------------------------------------------
(* Two programs of which the CA server trusts one, with every failure but  *)
(* a crash.                                                                *)
Provision == INSTANCE TlsProvision WITH
    Programs <- {vswitchd, ovsdb}, Trusted <- {vswitchd},
    Faults <- {"ca", "seed", "parse", "open", "write"}, MaxKeys <- 3
provisionVars == <<files, rs, pc, enclave, backlog, ca, request, sc_cert, keys>>

-----------------------------------------------------------------------------
(* A stream that is opened twice.                                          *)
Stream == INSTANCE SslStream WITH
    Streams <- {s1}, SERVER <- {}, SGX_TLS <- FALSE, Renegotiates <- FALSE, MaxSize <- 2,
    MaxSent <- 2, MaxIn <- 1, MaxOpen <- 2, state <- st_state, sent <- st_sent
streamVars == <<st_state, txbuf, rx_want, tx_want, session, in, room, got, st_sent, phase,
    events, result, spins, opened>>

-----------------------------------------------------------------------------
suiteVars == <<subject, monitorVars, connVars, controlVars, provisionVars, streamVars,
    pairVars>>

(* One component moves; the others are at rest.                            *)
Subjects == {"monitor", "controllers", "provision", "stream", "keys"} \cup DOMAIN ConnCases

MonitorInit == Monitor!Init
ConnInit == Conn(FALSE, 2)!RequestsInit
ControlInit == Control!ControlInit
ProvisionInit == Provision!ProvisionInit
StreamInit == Stream!Init

SuiteInit ==
    /\ subject \in Subjects
    /\ PairInit
    /\ MonitorInit /\ ConnInit /\ ControlInit /\ ProvisionInit /\ StreamInit

MonitorStep ==
    /\ subject = "monitor" /\ Monitor!Next
    /\ UNCHANGED <<subject, connVars, controlVars, provisionVars, streamVars, pairVars>>
ConnStep ==
    /\ \E s \in DOMAIN ConnCases : subject = s /\ Conn(ConnCases[s].drops, ConnCases[s].n)!RequestsNext
    /\ UNCHANGED <<subject, monitorVars, controlVars, provisionVars, streamVars, pairVars>>
ControlStep ==
    /\ subject = "controllers" /\ Control!ControlNext
    /\ UNCHANGED <<subject, monitorVars, connVars, provisionVars, streamVars, pairVars>>
ProvisionStep ==
    /\ subject = "provision" /\ Provision!ProvisionNext
    /\ UNCHANGED <<subject, monitorVars, connVars, controlVars, streamVars, pairVars>>
StreamStep ==
    /\ subject = "stream" /\ Stream!Next
    /\ UNCHANGED <<subject, monitorVars, connVars, controlVars, provisionVars, pairVars>>
SslKeysStep ==
    /\ subject = "keys" /\ PairNext
    /\ UNCHANGED <<subject, monitorVars, connVars, controlVars, provisionVars, streamVars>>
(* Components whose work may come to an end.                               *)
Stop == subject \in {"provision", "stream", "monitor"} \cup DOMAIN ConnCases /\ UNCHANGED suiteVars

SuiteNext == MonitorStep \/ ConnStep \/ ControlStep \/ ProvisionStep \/ StreamStep
    \/ SslKeysStep \/ Stop

SuiteSpec == SuiteInit /\ [][SuiteNext]_suiteVars

(* The main loops keep running, controllers and peers go on reading, and   *)
(* operations complete: the fairness of each component, for the one that   *)
(* moves.                                                                  *)
Fairness ==
    /\ WF_monitorVars(subject = "monitor" /\ Monitor!Unclog)
    /\ WF_monitorVars(subject = "monitor" /\ Monitor!Receive(c1))
    /\ WF_monitorVars(subject = "monitor" /\ Monitor!ofmonitor_run(c1))
    /\ WF_connVars(subject \in DOMAIN ConnCases /\ Conn(TRUE, 2)!CompleteGroups)
    /\ WF_connVars(/\ subject \in DOMAIN ConnCases
                   /\ conn_clogged = "clogged" /\ Conn(TRUE, 2)!ClogGroups)
    /\ \A c \in {c1, c2} : WF_connVars(subject \in DOMAIN ConnCases /\ Conn(TRUE, 2)!Receive(c))
    /\ \A c \in {c1, c2} : WF_connVars(subject \in DOMAIN ConnCases /\ Conn(TRUE, 2)!Notice(c))
    /\ \A c \in {c1, c2} : WF_connVars(subject \in DOMAIN ConnCases /\ Conn(TRUE, 2)!TakeReply(c))
    /\ WF_controlVars(subject = "controllers" /\ Control!Flush)
    /\ WF_controlVars(subject = "controllers" /\ Control!Evict)
    /\ WF_controlVars(subject = "controllers" /\ Control!complete_operations)
    /\ WF_controlVars(subject = "controllers" /\ Control!in_band_run)
    /\ WF_controlVars(subject = "controllers" /\ Control!in_band_done)
    /\ \A i \in {vswitchd, ovsdb} : WF_provisionVars(subject = "provision" /\ Provision!Step(i))
    /\ WF_provisionVars(subject = "provision" /\ Provision!CAStep)
    /\ WF_streamVars(subject = "stream" /\ Stream!Work(s1))
    /\ WF_streamVars(subject = "stream" /\ Stream!PeerAnswers(s1))
    /\ WF_streamVars(subject = "stream" /\ Stream!PeerTakes(s1))
SuiteFairSpec == SuiteSpec /\ Fairness

-----------------------------------------------------------------------------
(* What a controller waits for happens: a paused monitor resumes, a        *)
(* postponed request is dealt with, a flush is completed and in-band       *)
(* control, once it is not needed, goes away (connmgr.c:1253-1275,         *)
(* 1985-1996, ofproto.c:1348-1356, 5326-5332).  For postponed requests     *)
(* this holds while no connection drops; where connections drop, a request *)
(* is dealt with unless a connection whose operation it waits for drops    *)
(* first.                                                                  *)
RequestsResume ==
    /\ (subject = "monitor" => Monitor!Resumed)
    /\ (subject = "connections" => Conn(FALSE, 2)!Retried)
    /\ (subject = "dropped_connections" => Conn(TRUE, 1)!RetriedWhileOwned)
    /\ (subject = "controllers" => Control!Flushed)
    /\ (subject = "controllers" => Control!InBandEnds)

(* A program whose TLS is in the enclave ends its start, with or without   *)
(* its keys, and what a stream has accepted is sent, or dropped once the   *)
(* connection has been reset (wrapper_sgx.cpp:174, stream-ssl.c:644-715).  *)
TlsProgress ==
    /\ (subject = "provision" => Provision!StartEnds)
    /\ (subject = "stream" => Stream!Flushed)
=============================================================================
