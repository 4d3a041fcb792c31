------------------------------- MODULE Roles --------------------------------
(***************************************************************************)
(* Controller roles and asynchronous messages                              *)
(* (ovs_modified/ovs_sgx/connmgr.c, ofproto.c).                            *)
(*                                                                         *)
(* Several controllers share the switch: primary connections, which the    *)
(* switch opens, and service connections, which it accepts.  At most one   *)
(* is meant to be master.  Role and settings decide which requests are     *)
(* accepted and which port-status, flow-removed and packet-in messages a   *)
(* connection gets, and last until the connection drops.                   *)
(***************************************************************************)
EXTENDS Integers, FiniteSets

CONSTANTS
    Primary, Service,  \* connections of type OFCONN_PRIMARY and OFCONN_SERVICE
    Width,             \* bits of a generation id, 64 in the code
    Generations,       \* generation ids in use
    Clogs,             \* TRUE: flow table operations may complete later
    Ids,               \* controller ids of packet-ins
    AsyncMasks,             \* sets of events a controller may configure
    Configs,           \* <<miss_send_len, invalid_ttl>> it may configure
    Reconfigures,      \* TRUE: enable_async_msgs may be reconfigured
    Events             \* asynchronous messages that occur

(* A connection is of one type.                                            *)
ASSUME TypesAssumption == Primary \cap Service = {}

VARIABLES
    status,     \* "up", "broken" (lost, not yet noticed), "down"
    enable,     \* ofconn->enable_async_msgs, as configured
    role,
    master_async_config, slave_async_config,  \* events wanted in each role
    miss_send_len,    \* 0 or DEFAULT
    controller_id,
    election,         \* master_election_id and whether it is defined
    busy,             \* connections with pending opgroups
    changed,          \* the last connection that changed the switch
    heard,            \* asynchronous messages just sent: <<connection, event>>
    said,             \* history: settings made on this connection
    deposed           \* history: former masters that made no role request since

roleVars == <<status, enable, role, master_async_config, slave_async_config, miss_send_len,
          controller_id, election, busy, changed, heard, said, deposed>>
settings == <<master_async_config, slave_async_config, miss_send_len, controller_id>>
history == <<said, deposed>>

Conns == Primary \cup Service

DEFAULT == 128                           \* OFP_DEFAULT_MISS_SEND_LEN
PacketIn == {"no_match", "action", "invalid_ttl"}
AllEvents == PacketIn \cup {"port_status", "flow_removed"}
Nobody == "nobody"
NoId == -1

(* Settings are those that a message can carry; ids start at 0.            *)
ASSUME SettingsAssumption ==
    /\ \A m \in AsyncMasks : m \subseteq AllEvents
    /\ Configs \subseteq {0, DEFAULT} \X BOOLEAN
    /\ 0 \in Ids

(* ofconn_flush: the settings a connection starts with.                    *)
DefaultMaster(c) == IF enable[c] THEN AllEvents \ {"invalid_ttl"} ELSE {}
DefaultSlave(c) == IF enable[c] THEN {"port_status"} ELSE {}
DefaultMissSendLen(c) == IF c \in Primary THEN DEFAULT ELSE 0

RolesInit ==
    /\ status = [c \in Conns |-> "up"]
    /\ enable = [c \in Conns |-> TRUE]
    /\ role = [c \in Conns |-> "EQUAL"]
    /\ master_async_config = [c \in Conns |-> DefaultMaster(c)]
    /\ slave_async_config = [c \in Conns |-> DefaultSlave(c)]
    /\ miss_send_len = [c \in Conns |-> DefaultMissSendLen(c)]
    /\ controller_id = [c \in Conns |-> 0]
    /\ election = [defined |-> FALSE, id |-> 0]
    /\ busy = {}
    /\ changed = Nobody
    /\ heard = {} /\ said = [c \in Conns |-> {}] /\ deposed = {}

ofconn_flush_KeepsConfig(c) ==
    /\ role' = [role EXCEPT ![c] = "EQUAL"]
    /\ busy' = busy \ {c}
    /\ miss_send_len' = [miss_send_len EXCEPT ![c] = DefaultMissSendLen(c)]
    /\ controller_id' = [controller_id EXCEPT ![c] = 0]
    /\ UNCHANGED <<master_async_config, slave_async_config>>
ofconn_flush_KeepsGroups(c) ==
    /\ role' = [role EXCEPT ![c] = "EQUAL"]
    /\ miss_send_len' = [miss_send_len EXCEPT ![c] = DefaultMissSendLen(c)]
    /\ controller_id' = [controller_id EXCEPT ![c] = 0]
    /\ master_async_config' = [master_async_config EXCEPT ![c] = DefaultMaster(c)]
    /\ slave_async_config' = [slave_async_config EXCEPT ![c] = DefaultSlave(c)]
    /\ UNCHANGED busy
ofconn_flush(c) ==
    /\ role' = [role EXCEPT ![c] = "EQUAL"]
    /\ busy' = busy \ {c}
    /\ miss_send_len' = [miss_send_len EXCEPT ![c] = DefaultMissSendLen(c)]
    /\ controller_id' = [controller_id EXCEPT ![c] = 0]
    /\ master_async_config' = [master_async_config EXCEPT ![c] = DefaultMaster(c)]
    /\ slave_async_config' = [slave_async_config EXCEPT ![c] = DefaultSlave(c)]

(* The connection is lost; ofconn_run notices; the controller returns.  A  *)
(* service connection that returns is a new ofconn.                        *)
Drop(c) ==
    /\ status[c] = "up" /\ status' = [status EXCEPT ![c] = "broken"]
    /\ UNCHANGED <<enable, role, settings, election, busy, changed, history>>
ofconn_run(c) ==
    /\ status[c] = "broken" /\ status' = [status EXCEPT ![c] = "down"]
    /\ ofconn_flush(c)
    /\ UNCHANGED <<enable, election, changed, history>>
Connect(c) ==
    /\ status[c] = "down" /\ status' = [status EXCEPT ![c] = "up"]
    /\ said' = [said EXCEPT ![c] = {}]
    /\ deposed' = deposed \ {c}
    /\ UNCHANGED <<enable, role, settings, election, busy, changed>>

(* ofconn_reconfigure: takes effect with the next connection.              *)
ofconn_reconfigure(c) ==
    /\ Reconfigures
    /\ enable' = [enable EXCEPT ![c] = ~@]
    /\ UNCHANGED <<status, role, settings, election, busy, changed, history>>

-----------------------------------------------------------------------------
(* ofconn_set_master_election_id: the difference as a signed number.       *)
Stale(id) == election.defined /\ (id - election.id) % 2^Width >= 2^(Width - 1)

ofconn_set_role_Alone(c, r) == role' = [role EXCEPT ![c] = r]
ofconn_set_role(c, r) ==
    role' = [d \in Conns |->
               IF d = c THEN r
               ELSE IF r = "MASTER" /\ d \in Primary /\ role[d] = "MASTER" THEN "SLAVE"
               ELSE role[d]]

(* A role request; one for MASTER or SLAVE may carry a generation id.      *)
handle_role_request(c, r, id) ==
    /\ status[c] = "up"
    /\ role[c] = r \/ c \notin busy      \* otherwise OFPROTO_POSTPONE
    /\ id = NoId \/ ~Stale(id)
    /\ election' = IF id = NoId THEN election ELSE [defined |-> TRUE, id |-> id]
    /\ ofconn_set_role(c, r)
    /\ deposed' = (deposed \cup {d \in Conns : r = "MASTER" /\ role[d] = "MASTER"}) \ {c}
    /\ UNCHANGED <<status, enable, settings, busy, changed, said>>

handle_set_config(c, len, ttl) ==
    /\ status[c] = "up"
    /\ changed' = IF c \notin Primary \/ role[c] # "SLAVE" THEN c ELSE changed   \* frag_handling
    /\ master_async_config' = [master_async_config EXCEPT ![c] =
                                  IF ttl THEN @ \cup {"invalid_ttl"} ELSE @ \ {"invalid_ttl"}]
    /\ miss_send_len' = [miss_send_len EXCEPT ![c] = len]
    /\ said' = [said EXCEPT ![c] = @ \cup {"config"}]
    /\ UNCHANGED <<status, enable, role, slave_async_config, controller_id, election, busy, deposed>>

handle_nxt_set_async_config(c, m, s) ==
    /\ status[c] = "up"
    /\ master_async_config' = [master_async_config EXCEPT ![c] = m]
    /\ slave_async_config' = [slave_async_config EXCEPT ![c] = s]
    /\ miss_send_len' = [miss_send_len EXCEPT ![c] =
                           IF c \in Service /\ @ = 0 THEN DEFAULT ELSE @]
    /\ said' = [said EXCEPT ![c] = @ \cup {"async"}]
    /\ UNCHANGED <<status, enable, role, controller_id, election, busy, changed, deposed>>

handle_nxt_set_controller_id(c, id) ==
    /\ status[c] = "up"
    /\ controller_id' = [controller_id EXCEPT ![c] = id]
    /\ UNCHANGED <<status, enable, role, master_async_config, slave_async_config, miss_send_len,
                   election, busy, changed, history>>

reject_slave_controller_Never(c) == FALSE
reject_slave_controller(c) == c \in Primary /\ role[c] = "SLAVE"

(* handle_flow_mod, handle_packet_out and handle_port_mod; the operations  *)
(* of a flow_mod may stay pending for a while.                             *)
Modify(c) ==
    /\ status[c] = "up" /\ ~reject_slave_controller(c)
    /\ changed' = c
    /\ busy' = busy \/ (Clogs /\ busy' = busy \cup {c})
    /\ UNCHANGED <<status, enable, role, settings, election, history>>
Complete(c) ==
    /\ c \in busy /\ busy' = busy \ {c}
    /\ UNCHANGED <<status, enable, role, settings, election, changed, history>>

-----------------------------------------------------------------------------
ofconn_receives_async_msg(c, e) ==
    /\ status[c] = "up"
    /\ ~(c \in Service /\ miss_send_len[c] = 0)
    /\ e \in IF role[c] = "SLAVE" THEN slave_async_config[c] ELSE master_async_config[c]

(* connmgr_send_port_status, connmgr_send_flow_removed and                 *)
(* connmgr_send_packet_in, which also looks at the controller id.          *)
Send(e, id) ==
    LET to == {c \in Conns : ofconn_receives_async_msg(c, e)
                             /\ (e \in PacketIn => controller_id[c] = id)}
    IN  /\ heard' = to \X {e}
        /\ UNCHANGED <<status, enable, role, settings, election, busy, changed, history>>

Request(c) ==
    \/ Modify(c)
    \/ \E r \in {"MASTER", "SLAVE"}, id \in Generations \cup {NoId} : handle_role_request(c, r, id)
    \/ handle_role_request(c, "EQUAL", NoId)
    \/ \E cfg \in Configs : handle_set_config(c, cfg[1], cfg[2])
    \/ \E m, s \in AsyncMasks : handle_nxt_set_async_config(c, m, s)
    \/ \E id \in Ids : handle_nxt_set_controller_id(c, id)

RolesNext ==
    \/ \E e \in Events, id \in Ids : Send(e, id)
    \/ heard' = {} /\ \E c \in Conns :
         Drop(c) \/ ofconn_run(c) \/ Connect(c) \/ ofconn_reconfigure(c) \/ Complete(c) \/ Request(c)

RolesSpec == RolesInit /\ [][RolesNext]_roleVars

-----------------------------------------------------------------------------
RolesTypeOK ==
    /\ status \in [Conns -> {"up", "broken", "down"}]
    /\ enable \in [Conns -> BOOLEAN]
    /\ role \in [Conns -> {"MASTER", "SLAVE", "EQUAL"}]
    /\ master_async_config \in [Conns -> SUBSET AllEvents]
    /\ slave_async_config \in [Conns -> SUBSET AllEvents]
    /\ miss_send_len \in [Conns -> {0, DEFAULT}]
    /\ controller_id \in [Conns -> Ids]
    /\ election \in [defined : BOOLEAN, id : Generations \cup {0}]
    /\ busy \subseteq {c \in Conns : status[c] # "down"}
    /\ changed \in Conns \cup {Nobody}
    /\ heard \subseteq Conns \X Events
    /\ said \in [Conns -> SUBSET {"config", "async"}]
    /\ deposed \subseteq Conns

(* Among the primary connections there is one master at most: a new one    *)
(* deposes the old, also one that was dropped or is still busy             *)
(* (connmgr.c:871-886).                                                    *)
OneMaster == \A c, d \in Primary : role[c] = "MASTER" /\ role[d] = "MASTER" => c = d

(* A primary controller that another one has deposed cannot change the     *)
(* switch any more, until it asks for a role or reconnects                 *)
(* (ofproto.c:2509-2518, connmgr.c:876-884).                               *)
DeposedChangesNothing == \A c \in Primary : c \in deposed /\ Request(c) => changed' = changed
Fenced == [][DeposedChangesNothing]_roleVars

(* A connection gets only what is its due by default or by its own         *)
(* settings, never by those of an earlier connection: a service connection *)
(* gets nothing unasked, a slave only port status, nobody invalid-TTL      *)
(* packets (connmgr.c:1143-1177, 1299-1336).                               *)
Unasked ==
    \A h \in heard :
        /\ h[1] \in Service => said[h[1]] # {}
        /\ role[h[1]] = "SLAVE" /\ "async" \notin said[h[1]] => h[2] = "port_status"
        /\ h[2] = "invalid_ttl" => said[h[1]] # {}

(* What makes these inductive.  A deposed connection is a slave, or it is  *)
(* gone.  A connection that has made no settings, and one that is gone,    *)
(* has none that let anything unasked through.                             *)
DeposedIsSlave == \A c \in deposed \cap Primary : role[c] = "SLAVE" \/ status[c] = "down"
SettingsAreOwn ==
    \A c \in Conns :
        /\ status[c] = "down" \/ said[c] = {} =>
             /\ "invalid_ttl" \notin master_async_config[c]
             /\ c \in Service => miss_send_len[c] = 0
        /\ status[c] = "down" \/ "async" \notin said[c] => slave_async_config[c] \subseteq {"port_status"}
RolesInv == RolesTypeOK /\ OneMaster /\ DeposedIsSlave /\ SettingsAreOwn /\ Unasked

(* "If 'role' is OFPCR12_ROLE_MASTER then any existing master is demoted   *)
(* to a slave" (connmgr.c:871-872).                                        *)
AnyMasterDemoted == \A c, d \in Conns : role[c] = "MASTER" /\ role[d] = "MASTER" => c = d
=============================================================================
