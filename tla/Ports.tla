------------------------------- MODULE Ports --------------------------------
(***************************************************************************)
(* The ports of a bridge: how the datapath's devices become OpenFlow ports *)
(* and how the two stay in step (ofproto.c, ofproto-dpif.c).               *)
(*                                                                         *)
(* Devices appear and disappear in the datapath at any time.  type_run     *)
(* reads the datapath's notifications, ofproto_run turns them into updates *)
(* of single ports, and update_port compares what the datapath says of a   *)
(* name with the ports the bridge has.  A port exists in three places: the *)
(* bridge's tables, the datapath, and the picture that port status         *)
(* messages give the controllers.                                          *)
(*                                                                         *)
(* One bridge on its datapath.  Of a port's description only PORT_DOWN is  *)
(* kept.  Bundles, STP, CFM, sFlow and priorities hang off a port and do   *)
(* not influence it.                                                       *)
(***************************************************************************)
EXTENDS Integers, FiniteSets, FiniteSetsExt

CONSTANTS
    Systems,    \* names of devices that own a datapath port
    Patches,    \* names of patch ports, which have none
    Tunnels,    \* names of tunnel ports, which share the datapath port TunnelDev
    Local,      \* the device named like the bridge, or none of them
    TunnelDev,  \* netdev_vport_get_dpif_port of every tunnel
    MaxPorts,   \* max_ports: one more than the highest port number
    OdpPorts,   \* datapath port numbers, without 0
    Numbers,    \* OpenFlow port numbers that are requested, OFPP_NONE for none
    Initial,    \* devices that the datapath may hold when the bridge starts
    Foreign,    \* may other programs add devices to the datapath?
    Readds,     \* may a device be added that the bridge still has a port for?
    Fails,      \* may opening a device, or finding it a second time, fail?
    Toggles,    \* do devices go up and down?
    MaxEvents   \* steps taken outside the bridge

VARIABLES
    br,      \* the bridge, its backer and the datapath
    poll,    \* port_poll_set and port_poll_errno
    up,      \* names of devices whose NETDEV_UP flag is set
    changed, \* names of devices whose netdev_change_seq moved
    run,     \* where ofproto_run is in its port updates
    added,   \* the result of the last ofproto_port_add
    events   \* steps taken outside the bridge so far

vars == <<br, poll, up, changed, run, added, events>>

Names == Systems \cup Patches \cup Tunnels
OFPP_LOCAL == MaxPorts
OFPP_NONE == MaxPorts + 1
ENODEV == -1
OVSP_NONE == 0
NoResult == [name |-> TunnelDev, ofp |-> OFPP_NONE]

(* netdev_vport_get_dpif_port.                                             *)
dpif_port(n) == IF n \in Tunnels THEN TunnelDev ELSE n
Devices == Systems \cup {TunnelDev}
Holds(w, d) == d \in Devices /\ w.dp[d] # OVSP_NONE

ByName(w, n) == {p \in w.ofports : p.name = n}
ByNumber(w, k) == {p \in w.ofports : p.ofp = k}
Lone(S) == CHOOSE x \in S : TRUE

-----------------------------------------------------------------------------
(* The datapath: it picks an unused number for a device, and notifies of   *)
(* every change.                                                           *)
Unused(w) == {k \in OdpPorts : \A d \in Devices : w.dp[d] # k}
dpif_port_add(w, d, k) == [w EXCEPT !.dp[d] = k, !.notes = @ \cup {d}]
dpif_port_del(w, k) ==
    LET gone == {d \in Devices : k # OVSP_NONE /\ w.dp[d] = k}
    IN  [w EXCEPT !.dp = [d \in Devices |-> IF d \in gone THEN OVSP_NONE ELSE @[d]],
                  !.notes = @ \cup gone]

odp_port_to_ofp_port(w, k) ==
    LET hit == {m \in w.odp_map : m.odp = k}
    IN  IF hit = {} THEN OFPP_NONE ELSE Lone(hit).ofp

(* The port number the datapath has for a name, or ENODEV.                 *)
port_query_by_name(w, n) ==
    CASE n \in w.ghost_ports ->
           IF ByName(w, n) = {} THEN OFPP_NONE ELSE Lone(ByName(w, n)).ofp
      [] n \notin w.ghost_ports /\ n \in w.ports /\ Holds(w, n) ->
           odp_port_to_ofp_port(w, w.dp[n])
      [] OTHER -> ENODEV

(* The next free number after the last one that was allocated.             *)
NextFree_PastEnd(w) == Min((0 .. MaxPorts) \ w.ids)
NextFree(w) ==
    LET free == (0 .. MaxPorts - 1) \ w.ids
        later == {k \in free : k > w.alloc_port_no}
    IN  IF free = {} THEN OFPP_NONE ELSE Min(IF later = {} THEN free ELSE later)

alloc_ofp_port(w, n) ==
    LET asked == w.requests[n]
        next == NextFree(w)
    IN  CASE asked \in (1 .. MaxPorts - 1) \ w.ids ->
               [w |-> [w EXCEPT !.ids = @ \cup {asked}], ofp |-> asked]
          [] asked \notin (1 .. MaxPorts - 1) \ w.ids /\ next # OFPP_NONE ->
               [w |-> [w EXCEPT !.ids = @ \cup {next}, !.alloc_port_no = next], ofp |-> next]
          [] OTHER -> [w |-> w, ofp |-> OFPP_NONE]

dealloc_ofp_port(w, k) == [w EXCEPT !.ids = IF k < MaxPorts THEN @ \ {k} ELSE @]

ofport_open(w, n, ofp) ==
    CASE ofp # OFPP_NONE -> [w |-> w, ofp |-> ofp]
      [] ofp = OFPP_NONE /\ n = Local -> [w |-> w, ofp |-> OFPP_LOCAL]
      [] OTHER -> alloc_ofp_port(w, n)

-----------------------------------------------------------------------------
(* Picture: what a controller knows of a port.                             *)
Picture(p) == [name |-> p.name, ofp |-> p.ofp, down |-> p.down]

(* A device that is still in the datapath is deleted there, by number.     *)
port_destruct(w, p) ==
    LET w1 == IF Holds(w, dpif_port(p.name)) /\ p.name \notin Tunnels
              THEN dpif_port_del(w, p.odp) ELSE w
    IN  [w1 EXCEPT !.odp_map = @ \ {[odp |-> p.odp, ofp |-> p.ofp, name |-> p.name]},
                   !.ports = @ \ {p.name}, !.ghost_ports = @ \ {p.name}, !.need = TRUE]

ofport_destroy(w, p) ==
    LET w1 == port_destruct(dealloc_ofp_port(w, p.ofp), p)
    IN  [w1 EXCEPT !.ofports = @ \ {p}]

ofport_remove_Silent(w, S) == FoldSet(LAMBDA p, acc : ofport_destroy(acc, p), w, S)
ofport_remove(w, S) ==
    FoldSet(LAMBDA p, acc : ofport_destroy([acc EXCEPT !.told = @ \ {Picture(p)}], p), w, S)

(* port_construct finds the device's datapath port; it fails when the      *)
(* device has gone or its number is still mapped.                          *)
port_construct(w, p) ==
    LET k == IF p.name \in Patches THEN OVSP_NONE ELSE w.dp[dpif_port(p.name)]
        built == [p EXCEPT !.odp = k]
        w1 == [w EXCEPT !.need = TRUE]
    IN  CASE p.name \in Patches -> [w |-> w1, port |-> built, ok |-> TRUE]
          [] p.name \notin Patches /\ k = OVSP_NONE -> [w |-> w1, port |-> p, ok |-> FALSE]
          [] p.name \in Tunnels /\ k # OVSP_NONE -> [w |-> w1, port |-> built, ok |-> TRUE]
          [] p.name \in Systems /\ k # OVSP_NONE /\ odp_port_to_ofp_port(w, k) # OFPP_NONE ->
               [w |-> w1, port |-> p, ok |-> FALSE]
          [] OTHER -> [w |-> [w1 EXCEPT !.odp_map = @ \cup
                                {[odp |-> k, ofp |-> p.ofp, name |-> p.name]}],
                       port |-> built, ok |-> TRUE]

(* On an error the half-made port is dropped and keeps its number.         *)
ofport_install(w, n, ofp, isUp) ==
    LET c == port_construct(w, [name |-> n, ofp |-> ofp, odp |-> OVSP_NONE, down |-> ~isUp])
    IN  IF c.ok
        THEN [c.w EXCEPT !.ofports = @ \cup {c.port}, !.told = @ \cup {Picture(c.port)}]
        ELSE c.w

ofport_equal(p, isUp) == p.down = ~isUp
ofport_modified(w, p, isUp) ==
    LET q == [p EXCEPT !.down = ~isUp]
    IN  [w EXCEPT !.ofports = (@ \ {p}) \cup {q}, !.told = (@ \ {Picture(p)}) \cup {Picture(q)}]

(* A port that stays where it is.                                          *)
Refreshed(w, p, isUp) == IF ofport_equal(p, isUp) THEN w ELSE ofport_modified(w, p, isUp)

(* update_port: opens says whether netdev_open succeeds, vanishes whether  *)
(* the device leaves the datapath just after it was found.                 *)
update_port_Trusting(w, n, isUp, opens, vanishes) ==
    LET found == port_query_by_name(w, n)
        o == ofport_open(w, n, found)
        w1 == IF vanishes /\ n \in Systems THEN dpif_port_del(o.w, o.w.dp[n]) ELSE o.w
        same == ByNumber(w1, o.ofp) \cap ByName(w1, n)
    IN  CASE found = ENODEV \/ ~opens -> ofport_remove(w, ByName(w, n))
          [] found # ENODEV /\ opens /\ same # {} -> Refreshed(w1, Lone(same), isUp)
          [] OTHER -> ofport_install(ofport_remove(w1, ByName(w1, n)), n, o.ofp, isUp)
update_port(w, n, isUp, opens, vanishes) ==
    LET found == port_query_by_name(w, n)
        o == ofport_open(w, n, found)
        w1 == IF vanishes /\ n \in Systems THEN dpif_port_del(o.w, o.w.dp[n]) ELSE o.w
        same == ByNumber(w1, o.ofp) \cap ByName(w1, n)
        w2 == ofport_remove(w1, ByNumber(w1, o.ofp))
    IN  CASE found = ENODEV \/ ~opens -> ofport_remove(w, ByName(w, n))
          [] found # ENODEV /\ opens /\ same # {} -> Refreshed(w1, Lone(same), isUp)
          [] OTHER -> ofport_install(ofport_remove(w2, ByName(w2, n)), n, o.ofp, isUp)

(* update_port of one name, with the failures that are allowed.            *)
Updated(w, n) ==
    {update_port(w, n, n \in up, opens, vanishes) :
        opens \in IF Fails THEN BOOLEAN ELSE {TRUE},
        vanishes \in IF events < MaxEvents /\ Fails THEN BOOLEAN ELSE {FALSE}}

-----------------------------------------------------------------------------
Idle == [phase |-> "idle", todo |-> {}]

(* construct and init_ports: devices the datapath already holds become     *)
(* ports one after the other.                                              *)
Init ==
    /\ \E held \in Initial, asked \in [Names -> Numbers], k \in [Systems -> OdpPorts] :
         /\ \A d, e \in held : k[d] = k[e] => d = e
         /\ \A n \in Names \ held : asked[n] = OFPP_NONE
         /\ \A d \in Systems \ held : k[d] = Min(OdpPorts)
         /\ br = [ofports |-> {}, told |-> {}, ids |-> {0}, alloc_port_no |-> 0,
                  requests |-> asked, ports |-> held, ghost_ports |-> {}, odp_map |-> {},
                  tnl_backer |-> OVSP_NONE, need |-> FALSE, notes |-> {}, overflow |-> FALSE,
                  dp |-> [d \in Devices |-> IF d \in held THEN k[d] ELSE OVSP_NONE]]
         /\ run = [phase |-> "init", todo |-> held]
    /\ poll = [set |-> {}, errno |-> FALSE]
    /\ up = Names /\ changed = {} /\ added = NoResult /\ events = 0

init_ports ==
    /\ run.phase = "init"
    /\ IF run.todo = {} THEN run' = Idle /\ UNCHANGED br
       ELSE \E n \in run.todo :
              /\ LET o == ofport_open(br, n, port_query_by_name(br, n))
                 IN  br' = ofport_install(o.w, n, o.ofp, n \in up)
              /\ run' = [run EXCEPT !.todo = @ \ {n}]
    /\ added' = NoResult
    /\ UNCHANGED <<poll, up, changed, events>>

-----------------------------------------------------------------------------
(* A device that is not in the datapath is added there, under number k.    *)
(* When the datapath refuses it nothing has changed yet.                   *)
port_add(w, n, k) ==
    LET fresh == n \notin Patches /\ ~Holds(w, dpif_port(n))
        w1 == IF fresh THEN dpif_port_add(w, dpif_port(n), k) ELSE w
    IN  IF n \in Systems THEN [w1 EXCEPT !.ports = @ \cup {n}]
        ELSE [w1 EXCEPT !.ghost_ports = @ \cup {n},
                        !.tnl_backer = IF fresh /\ n \in Tunnels THEN k ELSE @]

port_del(w, p) ==
    LET w1 == [w EXCEPT !.ghost_ports = @ \ {p.name}, !.need = TRUE]
    IN  IF p.name \in Systems THEN dpif_port_del(w1, p.odp) ELSE w1

(* The number that is handed back is read from the datapath afterwards.    *)
ofproto_port_add(n, asked) ==
    /\ run = Idle
    /\ Readds \/ ByName(br, n) = {}
    /\ \E k \in IF n \in Patches \/ Holds(br, dpif_port(n)) THEN {OVSP_NONE} ELSE Unused(br) :
         /\ br' \in Updated([port_add(br, n, k) EXCEPT !.requests[n] = asked], n)
         /\ added' = [name |-> n, ofp |-> IF port_query_by_name(br', n) = ENODEV THEN 0
                                          ELSE port_query_by_name(br', n)]
    /\ UNCHANGED <<poll, up, changed, run, events>>

(* The request is forgotten even when the datapath does not know the       *)
(* device any more; the port is left alone then.                           *)
ofproto_port_del(p) ==
    /\ run = Idle
    /\ LET w1 == port_del([br EXCEPT !.requests[p.name] = OFPP_NONE], p)
           error == p.name \in Systems /\ \A d \in Devices : br.dp[d] # p.odp
       IN  br' = IF error THEN w1 ELSE update_port(w1, p.name, p.name \in up, TRUE, FALSE)
    /\ added' = NoResult
    /\ UNCHANGED <<poll, up, changed, run, events>>

(* handle_port_mod changes the device; the port follows when the change    *)
(* is noticed.                                                             *)
handle_port_mod(p) ==
    /\ run = Idle
    /\ up' = IF p.down THEN up \cup {p.name} ELSE up \ {p.name}
    /\ changed' = IF up' = up THEN changed ELSE changed \cup {p.name}
    /\ Toggles /\ events < MaxEvents /\ events' = events + 1
    /\ added' = NoResult
    /\ UNCHANGED <<br, poll, run>>

-----------------------------------------------------------------------------
(* The tunnel part of type_run: datapath ports of tunnels that nobody uses *)
(* are deleted, missing ones are added.                                    *)
collect_tunnels_Keeps(w, k) == [w EXCEPT !.need = FALSE]
collect_tunnels(w, k) ==
    LET users == {p \in w.ofports : p.name \in Tunnels}
        add == users # {} /\ w.tnl_backer = OVSP_NONE /\ ~Holds(w, TunnelDev) /\ k # OVSP_NONE
        w1 == CASE users = {} -> dpif_port_del(w, w.tnl_backer)
                [] add -> dpif_port_add(w, TunnelDev, k)
                [] OTHER -> w
        backer == CASE users = {} -> OVSP_NONE [] add -> k [] OTHER -> w.tnl_backer
    IN  [w1 EXCEPT !.tnl_backer = backer, !.need = FALSE,
                   !.ofports = (@ \ users) \cup {[p EXCEPT !.odp = backer] : p \in users}]

(* The notifications of type_run: a device that left is polled later, one  *)
(* that appeared and is nobody's is deleted.                               *)
Notified(w) == {d \in w.notes \cap w.ports : ~Holds(w, d)}
Unclaimed(w) ==
    {d \in w.notes \ w.ports : Holds(w, d) /\ (d = TunnelDev => w.tnl_backer = OVSP_NONE)}

type_run ==
    /\ run = Idle
    /\ br.need \/ br.notes # {} \/ br.overflow
    /\ \E k \in Unused(br) \cup {OVSP_NONE} :
         /\ k = OVSP_NONE => Unused(br) = {}
         /\ LET w1 == IF br.need THEN collect_tunnels(br, k) ELSE br
                w2 == FoldSet(LAMBDA d, acc : dpif_port_del(acc, acc.dp[d]), w1, Unclaimed(w1))
            IN  IF br.overflow
                THEN /\ br' = [w1 EXCEPT !.overflow = FALSE]
                     /\ poll' = [set |-> {}, errno |-> TRUE]
                ELSE /\ br' = [w2 EXCEPT !.notes = {}]
                     /\ poll' = IF poll.errno THEN poll
                                ELSE [poll EXCEPT !.set = @ \cup Notified(w1)]
    /\ added' = NoResult
    /\ UNCHANGED <<up, changed, run, events>>

(* The port part of ofproto_run: port_poll's answers first, an overflow    *)
(* standing for all ports, then the devices that changed.                  *)
port_dump(w) == {n \in w.ports \cup w.ghost_ports : port_query_by_name(w, n) # ENODEV}
reinit_ports_Dump(w) == port_dump(w)
reinit_ports(w) == {p.name : p \in w.ofports} \cup port_dump(w)
changed_netdevs == changed \cap {p.name : p \in br.ofports}

ofproto_run ==
    /\ run = Idle
    /\ poll.errno \/ poll.set # {} \/ changed # {}
    /\ run' = [phase |-> "poll", todo |-> {}]
    /\ added' = NoResult
    /\ UNCHANGED <<br, poll, up, changed, events>>

process_port_change ==
    /\ run.phase = "poll" /\ run.todo = {}
    /\ CASE poll.errno ->
              /\ poll' = [poll EXCEPT !.errno = FALSE]
              /\ run' = [run EXCEPT !.todo = reinit_ports(br)]
              /\ UNCHANGED <<br, changed>>
         [] ~poll.errno /\ poll.set # {} ->
              \E n \in poll.set :
                 /\ br' \in Updated(br, n)
                 /\ poll' = [poll EXCEPT !.set = @ \ {n}]
                 /\ UNCHANGED <<run, changed>>
         [] OTHER ->
              /\ run' = [phase |-> "netdevs", todo |-> changed_netdevs]
              /\ changed' = {}
              /\ UNCHANGED <<br, poll>>
    /\ added' = NoResult
    /\ UNCHANGED <<up, events>>

UpdateNext ==
    /\ run.phase \in {"poll", "netdevs"} /\ run.todo # {}
    /\ \E n \in run.todo : br' \in Updated(br, n) /\ run' = [run EXCEPT !.todo = @ \ {n}]
    /\ added' = NoResult
    /\ UNCHANGED <<poll, up, changed, events>>

UpdateEnd ==
    /\ run.phase = "netdevs" /\ run.todo = {}
    /\ run' = Idle
    /\ added' = NoResult
    /\ UNCHANGED <<br, poll, up, changed, events>>

-----------------------------------------------------------------------------
(* Outside the bridge.                                                     *)
Outside == events < MaxEvents /\ events' = events + 1 /\ added' = NoResult /\ UNCHANGED <<poll, run>>

DeviceLeaves(d) ==
    /\ Outside /\ Holds(br, d)
    /\ br' = dpif_port_del(br, br.dp[d])
    /\ UNCHANGED <<up, changed>>
DeviceAppears(d) ==
    /\ Foreign /\ Outside /\ ~Holds(br, d) /\ d \notin br.ports
    /\ \E k \in Unused(br) : br' = dpif_port_add(br, d, k)
    /\ UNCHANGED <<up, changed>>
DeviceToggles(n) ==
    /\ Toggles /\ Outside
    /\ up' = IF n \in up THEN up \ {n} ELSE up \cup {n}
    /\ changed' = changed \cup {n}
    /\ UNCHANGED br
NotesOverflow ==
    /\ Outside /\ br.notes # {}
    /\ br' = [br EXCEPT !.notes = {}, !.overflow = TRUE]
    /\ UNCHANGED <<up, changed>>

Steps == init_ports \/ type_run \/ ofproto_run \/ process_port_change \/ UpdateNext \/ UpdateEnd

Next ==
    \/ Steps
    \/ \E n \in Names, asked \in Numbers : ofproto_port_add(n, asked)
    \/ \E p \in br.ofports : ofproto_port_del(p) \/ handle_port_mod(p)
    \/ \E d \in Systems : DeviceLeaves(d) \/ DeviceAppears(d) \/ DeviceToggles(d)
    \/ NotesOverflow

Spec == Init /\ [][Next]_vars

(* The main loop of the switch calls type_run and ofproto_run for ever.    *)
FairSpec ==
    /\ Spec
    /\ WF_vars(init_ports) /\ WF_vars(UpdateNext) /\ WF_vars(UpdateEnd)
    /\ WF_vars(process_port_change) /\ SF_vars(type_run) /\ SF_vars(ofproto_run)

-----------------------------------------------------------------------------
TypeOK ==
    /\ br.ofports \subseteq [name : Names, ofp : 0 .. OFPP_NONE, odp : OdpPorts \cup {OVSP_NONE},
                             down : BOOLEAN]
    /\ br.ids \subseteq 0 .. MaxPorts - 1 /\ br.alloc_port_no \in br.ids \cup 0 .. MaxPorts - 1
    /\ br.ports \subseteq Systems /\ br.ghost_ports \subseteq Patches \cup Tunnels
    /\ br.dp \in [Devices -> OdpPorts \cup {OVSP_NONE}]
    /\ run.todo \subseteq Names /\ poll.set \subseteq Systems

(* The tables of ports stay one-to-one whatever the datapath does: no two  *)
(* ports share a name, a port number or a datapath port, and the map from  *)
(* datapath ports holds exactly the ports that own one (ofproto.c:         *)
(* 2143-2152, ofproto-dpif.c:1924-1967).  When the numbers have run out a  *)
(* port is numbered OFPP_NONE, which the map takes for no port at all.     *)
OneToOne ==
    /\ \A p, q \in br.ofports : p # q => p.name # q.name /\ p.ofp # q.ofp
    /\ br.odp_map = {[odp |-> p.odp, ofp |-> p.ofp, name |-> p.name] :
                       p \in {q \in br.ofports : q.name \in Systems}}
    /\ \A m, o \in br.odp_map : m.odp = o.odp => m = o \/ OFPP_NONE \in {m.ofp, o.ofp}

(* A controller that hears every port status message knows exactly the     *)
(* ports there are and which of them are down, also when ports take each   *)
(* other's numbers (ofproto.c:1967, 1984, 2019).                           *)
Told == br.told = {Picture(p) : p \in br.ofports}

Settled ==
    /\ \A p \in br.ofports : p.name \in Systems => br.dp[p.name] = p.odp /\ Holds(br, p.name)
    /\ \A p \in br.ofports : p.down = (p.name \notin up)

(* Once the datapath is left alone every port stands on a device of the    *)
(* datapath, under the number it has there, with the state of the device,  *)
(* also when notifications were lost (ofproto.c:1303-1328).                *)
Settles == []<>Settled

(* Between two passes of type_run the datapath port of the tunnels exists  *)
(* exactly as long as some tunnel port needs it, and every tunnel port     *)
(* sends to it (ofproto-dpif.c:983-1031).                                  *)
TunnelsBacked ==
    ~br.need =>
      /\ Holds(br, TunnelDev) <=> \E p \in br.ofports : p.name \in Tunnels
      /\ \A p \in br.ofports : p.name \in Tunnels => p.odp = br.dp[TunnelDev]

(* "Bitmap of used OpenFlow port numbers" (ofproto-provider.h:72): the     *)
(* bits that are set, besides that of 0, are the numbers of the ports.     *)
BitmapOfUsed ==
    run = Idle => br.ids \ {0} = {p.ofp : p \in br.ofports} \cap (0 .. MaxPorts - 1)

(* "If successful, returns 0 and sets '*ofp_portp' to the new port's       *)
(* OpenFlow port number" (ofproto.c:1615-1616).                            *)
ReturnsNumber ==
    added # NoResult => \E p \in br.ofports : p.name = added.name /\ p.ofp = added.ofp
=============================================================================
