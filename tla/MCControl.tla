----------------------------- MODULE MCControl ------------------------------
(***************************************************************************)
(* The connection manager: flow monitors (FlowMonitor), requests that are  *)
(* postponed and retried (Connections), roles and asynchronous messages    *)
(* (Roles), and the controllers of a bridge with fail-open and in-band     *)
(* control (Controllers).                                                  *)
(*                                                                         *)
(* The components share no state in these modules. A behaviour is about    *)
(* one of them, its subject, and the others are at rest.                   *)
(***************************************************************************)
EXTENDS Roles, Controllers, Connections, TLC

CONSTANT Off   \* the state of components at rest
CONSTANTS c1, c2, c3, f1, f2, h, p1, p2, s1, t1, t2, l1

VARIABLE subject   \* the component, or instance of one, that this behaviour is about
VARIABLES table, seqno, pending, up, monitors, paused, queue, view, aborted, misled, mods

TtlWanted == {<<DEFAULT, TRUE>>}
Everything == {AllEvents}

Full(i, S) == [id |-> i, flags |-> {"INITIAL", "ADD", "DELETE", "MODIFY"}, match |-> S]
Several(S) ==
    {<<Full(1, S)>>,
     <<[id |-> 1, flags |-> {"MODIFY"}, match |-> S], [id |-> 2, flags |-> {"INITIAL", "ADD"}, match |-> S]>>}

-----------------------------------------------------------------------------
(* Flow monitors: two connections that monitor one flow; one with several  *)
(* monitors, a hidden flow, replaced flows and operations that complete    *)
(* late; and one that asks for monitors, while flows are replaced, during  *)
(* pauses long enough for a flow to come and go.                           *)
MonitorCases ==
    [monitors |-> [Conns |-> {c1, c2}, Flows |-> {f1}, Hidden |-> {},
          Requests |-> {<<Full(1, {f1})>>}, Clogs |-> TRUE, Replaces |-> FALSE,
          Patient |-> TRUE, MaxMods |-> 4],
     clogged_monitors |-> [Conns |-> {c3}, Flows |-> {f1, f2, h}, Hidden |-> {h},
          Requests |-> Several({f1, f2, h}), Clogs |-> TRUE, Replaces |-> TRUE,
          Patient |-> FALSE, MaxMods |-> 4],
     misled_monitors |-> [Conns |-> {c3}, Flows |-> {f1}, Hidden |-> {},
          Requests |-> {<<Full(1, {f1})>>, <<Full(2, {f1})>>}, Clogs |-> FALSE,
          Replaces |-> TRUE, Patient |-> FALSE, MaxMods |-> 5]]
Monitor(c) == INSTANCE FlowMonitor WITH
    Conns <- c.Conns, Flows <- c.Flows, Hidden <- c.Hidden, Requests <- c.Requests,
    Clogs <- c.Clogs, Replaces <- c.Replaces, Patient <- c.Patient, MaxMods <- c.MaxMods,
    Actions <- {1, 2}, Limit <- 1
monitorVars == <<table, seqno, pending, up, monitors, paused, queue, view, aborted, misled, mods>>

-----------------------------------------------------------------------------
suiteVars == <<subject, monitorVars, requestVars, controlVars, roleVars>>

(* One component moves; the others are at rest.                            *)
Subjects == {"connections", "controllers", "elections", "async"} \cup DOMAIN MonitorCases

MonitorInit ==
    \/ \E s \in DOMAIN MonitorCases : subject = s /\ Monitor(MonitorCases[s])!Init
    \/ subject \notin DOMAIN MonitorCases /\ table = Off /\ seqno = Off /\ pending = Off
       /\ up = Off /\ monitors = Off /\ paused = Off /\ queue = Off /\ view = Off
       /\ aborted = Off /\ misled = Off /\ mods = Off

SuiteInit ==
    /\ subject \in Subjects
    /\ RolesInit /\ ControlInit /\ RequestsInit /\ MonitorInit

MonitorStep ==
    /\ \E s \in DOMAIN MonitorCases : subject = s /\ Monitor(MonitorCases[s])!Next
    /\ UNCHANGED <<subject, requestVars, controlVars, roleVars>>
RequestsStep ==
    /\ subject = "connections" /\ RequestsNext
    /\ UNCHANGED <<subject, monitorVars, controlVars, roleVars>>
ControllersStep ==
    /\ subject = "controllers" /\ ControlNext
    /\ UNCHANGED <<subject, monitorVars, requestVars, roleVars>>

(* Roles: elections among all the connections, while no event occurs and   *)
(* only primary ones drop; and the events that one primary and one service *)
(* connection get and ask for, as slaves or not, the other primary         *)
(* connection being at rest.                                               *)
ElectionsStep ==
    /\ subject = "elections" /\ RolesNext
    /\ enable' = enable /\ slave_async_config' = slave_async_config /\ heard' = {}
    /\ \A c \in Service : status'[c] = "up"
    /\ UNCHANGED <<subject, monitorVars, requestVars, controlVars>>
AtRest(c) == status[c] = "up" /\ enable[c] /\ role[c] = "EQUAL" /\ said[c] = {}
AsyncStep ==
    /\ subject = "async" /\ RolesNext
    /\ election' = election /\ \A c \in Conns : role'[c] # "MASTER" /\ c \notin busy'
    /\ \E c \in Primary : AtRest(c)'
    /\ UNCHANGED <<subject, monitorVars, requestVars, controlVars>>

(* Components whose work may come to an end.                               *)
Stop == subject \in {"connections"} \cup DOMAIN MonitorCases /\ UNCHANGED suiteVars

SuiteNext == MonitorStep \/ RequestsStep \/ ControllersStep \/ ElectionsStep \/ AsyncStep \/ Stop

SuiteSpec == SuiteInit /\ [][SuiteNext]_suiteVars

Symmetry == Permutations({p1, p2})

-----------------------------------------------------------------------------
(* Once everything sent has been read, a controller knows every flow that  *)
(* its monitors cover with its present actions, through pauses and         *)
(* operations that complete late.  It knows none that is gone if no flow   *)
(* is replaced and no monitor requested during its pauses; otherwise only  *)
(* such flows as were replaced, or listed to it, during a pause            *)
(* (connmgr.c:1768-1770, 1832-1983, ofproto.c:4635-4847, 4898).            *)
MonitorsTold ==
    /\ \A s \in DOMAIN MonitorCases : subject = s => Monitor(MonitorCases[s])!TypeOK
    /\ \A s \in DOMAIN MonitorCases : subject = s => Monitor(MonitorCases[s])!NothingMissed
    /\ \A s \in {"monitors"} : subject = s => Monitor(MonitorCases[s])!NoGhosts
    /\ \A s \in DOMAIN MonitorCases : subject = s => Monitor(MonitorCases[s])!GhostsExplained
=============================================================================
