---------------------------- MODULE Controllers -----------------------------
(***************************************************************************)
(* The configuration of controllers and what the switch does without them  *)
(* (ovs_modified/ovs_sgx/connmgr.c, ofproto.c).                            *)
(*                                                                         *)
(* The switch has the flows its controllers gave it, flows of its own for  *)
(* in-band control and for failing open, and in standalone mode without    *)
(* controllers one flow that makes it an ordinary learning switch.  When   *)
(* controllers come or go all flows are flushed, which takes several runs  *)
(* of the main loop if operations are in progress, while the configuration *)
(* may change again.                                                       *)
(***************************************************************************)
EXTENDS Integers, FiniteSets

CONSTANTS
    Targets,     \* primary controllers that may be configured
    InBand,      \* those of them reached in-band
    Listeners,   \* service controllers that may be configured
    Versions,    \* sets of OpenFlow versions that may be allowed
    MayClog      \* TRUE: flow table operations may complete late

(* A set of allowed versions is not that of a controller there is not.     *)
ASSUME VersionsAssumption == "none" \notin Versions

VARIABLES
    controllers,  \* connection of each target: versions ("none" for no connection), up
    services,     \* versions of each listener, "none" if there is none
    fail_mode, fail_open,      \* fail_open: whether mgr->fail_open exists
    extra, remotes, in_band,   \* extra and current in-band remotes; mgr->in_band
    state,        \* ofproto->state
    flows,        \* kinds of flows in the table
    adding,       \* those whose addition is in progress
    deleting,     \* deletions are in progress
    clogged,
    owed          \* history: a flush is due by the configuration

controlVars == <<controllers, services, fail_mode, fail_open, extra, remotes, in_band,
                 state, flows, adding, deleting, clogged, owed>>
manager == <<controllers, services, fail_mode, fail_open, extra, remotes, in_band>>

None == [versions |-> "none", up |-> FALSE]

(* connmgr_create.                                                         *)
ControlInit ==
    /\ controllers = [t \in Targets |-> None]
    /\ services = [l \in Listeners |-> "none"]
    /\ fail_mode = "SECURE" /\ fail_open = FALSE
    /\ extra = FALSE /\ remotes = {} /\ in_band = FALSE
    /\ state = "OPENFLOW" /\ flows = {} /\ adding = {} /\ deleting = FALSE
    /\ clogged = FALSE /\ owed = FALSE

-----------------------------------------------------------------------------
connmgr_has_controllers(cs) == \E t \in Targets : cs[t] # None

(* update_in_band_remotes; in_band_run destroys what is not needed.        *)
update_in_band_remotes(cs, x) ==
    /\ remotes' = {t \in InBand : cs[t] # None} \cup (IF x THEN {"extra"} ELSE {})
    /\ in_band' = (in_band \/ remotes' # {})

(* update_fail_open: fail_open_destroy takes its flow out of the table.    *)
update_fail_open_Once(cs, mode) ==
    /\ fail_open' = (fail_open \/ (connmgr_has_controllers(cs) /\ mode = "STANDALONE"))
    /\ flows' = IF fail_open' THEN flows ELSE flows \ {"fail_open"}
update_fail_open(cs, mode) ==
    /\ fail_open' = (connmgr_has_controllers(cs) /\ mode = "STANDALONE")
    /\ flows' = IF fail_open' THEN flows ELSE flows \ {"fail_open"}

MustFlush(cs) == connmgr_has_controllers(controllers) # connmgr_has_controllers(cs)

(* connmgr_set_controllers: a controller that stays with other versions is *)
(* destroyed and added again.  A listener whose port cannot be opened      *)
(* (ofservice_create) is left out, as if it had not been asked for.        *)
connmgr_set_controllers(S, v) ==
    LET cs == [t \in Targets |->
                 IF t \notin S THEN None
                 ELSE IF controllers[t].versions = v THEN controllers[t]
                 ELSE [versions |-> v, up |-> FALSE]]
    IN  /\ controllers' = cs
        /\ services' = [l \in Listeners |-> IF l \in S THEN v ELSE "none"]
        /\ update_in_band_remotes(cs, extra)
        /\ update_fail_open(cs, fail_mode)
        /\ state' = IF MustFlush(cs) THEN "FLUSH" ELSE state
        /\ owed' = (owed \/ connmgr_has_controllers(controllers) # connmgr_has_controllers(cs))
        /\ UNCHANGED <<fail_mode, extra, adding, deleting, clogged>>

connmgr_set_fail_mode(mode) ==
    LET flush == ~connmgr_has_controllers(controllers)
    IN  /\ fail_mode # mode
        /\ fail_mode' = mode
        /\ update_fail_open(controllers, mode)
        /\ state' = IF flush THEN "FLUSH" ELSE state
        /\ owed' = (owed \/ flush)
        /\ UNCHANGED <<controllers, services, extra, remotes, in_band, adding, deleting, clogged>>

connmgr_set_extra_in_band_remotes(x) ==
    /\ extra # x /\ extra' = x
    /\ update_in_band_remotes(controllers, x)
    /\ UNCHANGED <<controllers, services, fail_mode, fail_open, state, flows, adding, deleting, clogged, owed>>

(* ofproto_configure_table: more flows than allowed.                       *)
ofproto_configure_table_Always == 
    /\ "user" \in flows
    /\ state' = "EVICT"
    /\ UNCHANGED <<manager, flows, adding, deleting, clogged, owed>>
ofproto_configure_table ==
    /\ "user" \in flows
    /\ state' = IF state = "OPENFLOW" THEN "EVICT" ELSE state
    /\ UNCHANGED <<manager, flows, adding, deleting, clogged, owed>>

-----------------------------------------------------------------------------
(* The tables after new flows are added to F: at once, or late.            *)
Added(F, new) ==
    /\ flows' = F \cup new
    /\ adding' = (adding \cap F) \cup (IF clogged THEN new \ F ELSE {})

(* in_band_run: adds its flows, or deletes them and is then done with.     *)
(* fail_open_run: adds its flow while no controller is connected; what it  *)
(* does to the flow is taken to complete at once.                          *)
Connected == \E t \in Targets : controllers[t].up
in_band_run ==
    /\ state = "OPENFLOW" /\ in_band /\ remotes # {} /\ "in_band" \notin flows
    /\ Added(flows, {"in_band"})
    /\ UNCHANGED <<manager, state, deleting, clogged, owed>>
in_band_done_Kept ==
    /\ state = "OPENFLOW" /\ in_band /\ remotes = {} /\ "in_band" \notin adding
    /\ flows' = flows \ {"in_band"}
    /\ deleting' = (deleting \/ ("in_band" \in flows /\ clogged))
    /\ UNCHANGED <<manager, state, adding, clogged, owed>>
in_band_done ==
    /\ state = "OPENFLOW" /\ in_band /\ remotes = {} /\ "in_band" \notin adding
    /\ in_band' = ("in_band" \in flows /\ clogged)
    /\ flows' = flows \ {"in_band"}
    /\ deleting' = (deleting \/ ("in_band" \in flows /\ clogged))
    /\ UNCHANGED <<controllers, services, fail_mode, fail_open, extra, remotes, state, adding, clogged, owed>>
fail_open_run_Flushes ==
    /\ state = "OPENFLOW" /\ fail_open
    /\ flows' = IF Connected THEN flows \ {"fail_open", "user"} ELSE flows \cup {"fail_open"}
    /\ UNCHANGED <<manager, state, adding, deleting, clogged, owed>>
fail_open_run ==
    /\ state = "OPENFLOW" /\ fail_open
    /\ flows' = IF Connected THEN flows \ {"fail_open"} ELSE flows \cup {"fail_open"}
    /\ UNCHANGED <<manager, state, adding, deleting, clogged, owed>>

(* A request of a controller of either kind.                               *)
handle_flow_mod ==
    /\ state = "OPENFLOW"
    /\ Connected \/ \E l \in Listeners : services[l] # "none"
    /\ Added(flows, {"user"})
    /\ UNCHANGED <<manager, state, deleting, clogged, owed>>

(* connmgr_flushed.                                                        *)
Restored ==
    (IF ~connmgr_has_controllers(controllers) /\ fail_mode = "STANDALONE" THEN {"normal"} ELSE {})
    \cup (IF fail_open /\ ~Connected THEN {"fail_open"} ELSE {})

(* ofproto_run in state S_FLUSH: operations in progress complete first,    *)
(* unless they are clogged; ofproto_flush__ leaves their rules alone.  It  *)
(* deletes all others, as in the vanilla build and in the others while     *)
(* their buffers hold every rule (FlowTable).                              *)
Flush ==
    LET left == IF clogged THEN flows \cap adding ELSE {}
        deleted == clogged /\ (deleting \/ flows # left)
    IN  /\ state = "FLUSH"
        /\ IF left = {} /\ ~deleted
           THEN /\ flows' = Restored /\ adding' = IF clogged THEN Restored \cap {"normal"} ELSE {}
                /\ state' = "OPENFLOW" /\ owed' = FALSE
           ELSE flows' = left /\ adding' = left /\ UNCHANGED <<state, owed>>
        /\ deleting' = deleted
        /\ UNCHANGED <<manager, clogged>>

(* ofproto_run in state S_EVICT: only a controller's flows time out.       *)
ofproto_evict_Pending == flows \cap {"user"}
ofproto_evict == (flows \cap {"user"}) \ (IF clogged THEN adding ELSE {})
Evict ==
    /\ state = "EVICT"
    /\ flows' = flows \ ofproto_evict
    /\ deleting' = (clogged /\ (deleting \/ ofproto_evict # {}))
    /\ adding' = IF clogged THEN adding ELSE {}
    /\ state' = IF adding' = {} /\ ~deleting' THEN "OPENFLOW" ELSE state
    /\ UNCHANGED <<manager, clogged, owed>>

(* rconn: a controller connects or is lost.                                *)
Reconnect(t) ==
    /\ controllers[t] # None
    /\ controllers' = [controllers EXCEPT ![t].up = ~@]
    /\ UNCHANGED <<services, fail_mode, fail_open, extra, remotes, in_band,
                   state, flows, adding, deleting, clogged, owed>>

(* complete_operations, and the command that holds it up.                  *)
complete_operations ==
    /\ ~clogged /\ (adding # {} \/ deleting)
    /\ adding' = {} /\ deleting' = FALSE
    /\ UNCHANGED <<manager, state, flows, clogged, owed>>
Clog ==
    /\ MayClog /\ clogged' = ~clogged
    /\ UNCHANGED <<manager, state, flows, adding, deleting, owed>>

ControlNext ==
    \/ \E S \in SUBSET (Targets \cup Listeners), v \in Versions : connmgr_set_controllers(S, v)
    \/ \E mode \in {"SECURE", "STANDALONE"} : connmgr_set_fail_mode(mode)
    \/ \E x \in BOOLEAN : connmgr_set_extra_in_band_remotes(x)
    \/ ofproto_configure_table
    \/ in_band_run \/ in_band_done \/ fail_open_run \/ handle_flow_mod
    \/ Flush \/ Evict
    \/ \E t \in Targets : Reconnect(t)
    \/ complete_operations \/ Clog

ControlSpec == ControlInit /\ [][ControlNext]_controlVars

(* The main loop runs the switch again and again.                          *)
FairSpec ==
    /\ ControlSpec
    /\ WF_controlVars(Flush) /\ WF_controlVars(Evict) /\ WF_controlVars(complete_operations)
    /\ WF_controlVars(in_band_run) /\ WF_controlVars(in_band_done)

-----------------------------------------------------------------------------
ControlTypeOK ==
    /\ controllers \in [Targets -> [versions : Versions, up : BOOLEAN] \cup {None}]
    /\ services \in [Listeners -> Versions \cup {"none"}]
    /\ fail_mode \in {"SECURE", "STANDALONE"}
    /\ flows \subseteq {"normal", "fail_open", "in_band", "user"}
    /\ adding \subseteq flows \ {"fail_open"}
    /\ state \in {"OPENFLOW", "EVICT", "FLUSH"}
    /\ {fail_open, extra, in_band, deleting, clogged, owed} \subseteq BOOLEAN

(* While it serves requests the switch has the standalone flow exactly     *)
(* when it is in standalone mode and has no controllers, and the flow of   *)
(* fail-open at most while it is in standalone mode and has some, whatever *)
(* the configuration went through while flows were being flushed or        *)
(* evicted (connmgr.c:1662-1694, ofproto.c:1348-1356, 1049-1057).          *)
Standalone ==
    LET alone == ~connmgr_has_controllers(controllers)
    IN  /\ state # "FLUSH" => ("normal" \in flows <=> alone /\ fail_mode = "STANDALONE")
        /\ "fail_open" \in flows => ~alone /\ fail_mode = "STANDALONE"

(* Why: fail-open exists for as long as it may be needed, and a flush is   *)
(* due for as long as it is in progress, also if rules are to be evicted   *)
(* meanwhile (connmgr.c:728-739, ofproto.c:1049-1057).                     *)
ControlInv ==
    /\ ControlTypeOK /\ Standalone
    /\ fail_open = (connmgr_has_controllers(controllers) /\ fail_mode = "STANDALONE")
    /\ owed = (state = "FLUSH")

(* The flows of a controller are lost only to eviction, or to a flush that *)
(* a first or last controller, or another fail mode without controllers,   *)
(* called for: never to another change of the controllers                  *)
(* (connmgr.c:599-601, 1515-1517).                                         *)
LosesOnlyWhenDue == "user" \in flows /\ "user" \notin flows' => owed \/ state = "EVICT"
NoNeedlessFlush == [][LosesOnlyWhenDue]_controlVars

(* A flush that was called for is completed once operations complete,      *)
(* however often the configuration changes meanwhile (ofproto.c:1348-1356).*)
Flushed == <>[]~clogged => (owed ~> ~owed)

(* In-band control ends when nothing is reached in-band any more, if the   *)
(* configuration stays so (connmgr.c:268-273, 715-718).                    *)
InBandEnds == <>[](remotes = {} /\ state = "OPENFLOW" /\ ~clogged) => <>[](~in_band /\ "in_band" \notin flows)
=============================================================================
