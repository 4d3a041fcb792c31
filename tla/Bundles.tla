------------------------------ MODULE Bundles -------------------------------
(***************************************************************************)
(* OFPP_NORMAL switching: bundles of ports with their VLANs, mirrors, the  *)
(* MAC learning table and the path of a packet through them                *)
(* (ofproto-dpif.c).                                                       *)
(*                                                                         *)
(* Bundles and mirrors refer to each other by pointer and by bit, and the  *)
(* MAC table points at bundles.  Every reconfiguration has to leave all of *)
(* them consistent, since packets are forwarded by what they find there.   *)
(*                                                                         *)
(* A bundle is known by its address, which a later bundle may reuse, and   *)
(* to its client by its aux.  The library of bonds is external: it admits  *)
(* and places packets as it likes.  One bridge; LACP is left out.          *)
(***************************************************************************)
EXTENDS Integers, Sequences, FiniteSets, FiniteSetsExt, SequencesExt

CONSTANTS
    None,           \* a null pointer
    Addrs,          \* addresses of struct ofbundle
    Auxes,          \* the client's keys for bundles
    Ports,          \* OpenFlow ports
    MirrorAuxes,    \* the client's keys for mirrors
    MaxMirrors,     \* MAX_MIRRORS
    Macs,           \* unicast Ethernet addresses
    Group,          \* a multicast Ethernet address, which is never learned
    Vlans,          \* VLANs, with 0 for the untagged one
    Settings,       \* the settings of bundles a client asks for, with their aux
    SrcVlans,       \* the sets of VLANs a mirror may select
    Selections,     \* what a mirror selects: records of auxes srcs and dsts
    MirrorOuts,     \* bundles a mirror may output to
    OutVlans,       \* VLANs a mirror may output to
    FloodVlans,     \* sets of VLANs in which nothing is learned
    Changing,       \* ports whose flooding and STP state changes
    StpStates,      \* states of spanning tree ports
    Kinds,          \* kinds of packets: plain, garp, reserved, partial
    Deletes         \* may ports be deleted and created again?

VARIABLES
    sw,     \* bundles, the bundle of each port, mirrors, the MAC table and, as
            \* history, the freed bundles that are left in the dsts of mirrors
    last    \* history: what became of the packet of the last step

vars == <<sw, last>>

NULL == Vlans \cup {-1}          \* a null bitmap stands for all VLANs
NoEntry == [port |-> None, lock |-> FALSE]
NoPacket == [from |-> None]
Indices == 1 .. MaxMirrors

Live(w) == {b \in Addrs : w.bundles[b] # None}
bundle_lookup(w, aux) == {b \in Live(w) : w.bundles[b].aux = aux}
Only(S) == CHOOSE x \in S : TRUE

stp_forward_in_state(s) == s \in {"disabled", "forwarding"}
stp_learn_in_state(s) == s \in {"disabled", "learning", "forwarding"}

(* A port keeps its bundle from being flooded: NO_FLOOD, or STP.           *)
Quiet(w, p) == p \in w.no_flood \/ ~stp_forward_in_state(w.stp[p])

-----------------------------------------------------------------------------
mac_learning_lookup(w, mac, vlan) == IF mac = Group THEN NoEntry ELSE w.macs[<<mac, vlan>>]
mac_learning_flush(w) == [w EXCEPT !.macs = [k \in DOMAIN @ |-> NoEntry]]

bundle_flush_macs_Never(w, b) == w
bundle_flush_macs(w, b) ==
    [w EXCEPT !.macs = [k \in DOMAIN @ |-> IF @[k].port = b THEN NoEntry ELSE @[k]]]

(* For each mirror the mirrors with the same output, found pair by pair.   *)
Pairs == SetToSortSeq({ij \in Indices \X Indices : ij[1] < ij[2]},
                      LAMBDA x, y : x[1] < y[1] \/ (x[1] = y[1] /\ x[2] < y[2]))
mirror_update_dups_OneWay(w) ==
    LET same(i, j) == /\ w.mirrors[i] # None /\ w.mirrors[j] # None
                      /\ w.mirrors[i].out = w.mirrors[j].out
                      /\ w.mirrors[i].out_vlan = w.mirrors[j].out_vlan
        join(d, ij) == IF same(ij[1], ij[2]) THEN [d EXCEPT ![ij[1]] = @ \cup {ij[2]}] ELSE d
        dup == FoldLeft(join, [i \in Indices |-> {i}], Pairs)
    IN  [w EXCEPT !.mirrors = [i \in Indices |-> IF @[i] = None THEN None
                                                 ELSE [@[i] EXCEPT !.dup = dup[i]]]]
mirror_update_dups(w) ==
    LET same(i, j) == /\ w.mirrors[i] # None /\ w.mirrors[j] # None
                      /\ w.mirrors[i].out = w.mirrors[j].out
                      /\ w.mirrors[i].out_vlan = w.mirrors[j].out_vlan
        join(d, ij) == LET d1 == [d EXCEPT ![ij[1]] = @ \cup {ij[2]}]
                       IN  IF same(ij[1], ij[2])
                           THEN [d1 EXCEPT ![ij[2]] = @ \cup d1[ij[1]]] ELSE d
        dup == FoldLeft(join, [i \in Indices |-> {i}], Pairs)
    IN  [w EXCEPT !.mirrors = [i \in Indices |-> IF @[i] = None THEN None
                                                 ELSE [@[i] EXCEPT !.dup = dup[i]]]]

(* The bits of mirror i in the bundles: the sets of the mirror decide.     *)
Marked(w, i, srcs, dsts, out) ==
    LET bit(S, yes) == IF yes THEN S \cup {i} ELSE S \ {i}
    IN  [w EXCEPT !.bundles = [b \in Addrs |->
           IF @[b] = None THEN None
           ELSE [@[b] EXCEPT !.src_mirrors = bit(@, b \in srcs),
                             !.dst_mirrors = bit(@, b \in dsts),
                             !.mirror_out = bit(@, b = out)]]]

(* Mirror i gets a new configuration, or none.                             *)
Forgotten(w, i) == {d \in w.freed : d[1] # i}

mirror_destroy(w, i) ==
    mirror_update_dups([Marked(mac_learning_flush(w), i, {}, {}, None) EXCEPT
                          !.mirrors[i] = None, !.freed = Forgotten(w, i)])

(* bundle_update: a bundle is flooded when none of its ports objects.      *)
bundle_update(w, b) ==
    [w EXCEPT !.bundles[b].floodable = \A p \in w.bundles[b].ports : ~Quiet(w, p)]

bundle_del_port(w, p) ==
    LET b == w.bundle[p]
    IN  bundle_update([w EXCEPT !.bundle[p] = None, !.bundles[b].ports = @ \ {p}], b)

(* The mirrors that output to the bundle go with it; the others forget it  *)
(* as a source or else as a destination.                                   *)
bundle_destroy(w, b) ==
    LET forget(v, i) ==
          LET m == v.mirrors[i]
          IN  CASE m = None -> v
                [] m # None /\ m.out = b -> mirror_destroy(v, i)
                [] m # None /\ m.out # b /\ b \in m.srcs ->
                     [v EXCEPT !.mirrors[i].srcs = @ \ {b},
                               !.freed = IF b \in m.dsts THEN @ \cup {<<i, b>>} ELSE @]
                [] OTHER -> [v EXCEPT !.mirrors[i].dsts = @ \ {b}]
        w1 == FoldLeft(forget, w, [i \in Indices |-> i])
        w2 == FoldSet(LAMBDA p, acc : bundle_del_port(acc, p), w1, w1.bundles[b].ports)
    IN  [bundle_flush_macs(w2, b) EXCEPT !.bundles[b] = None]

bundle_remove(w, p) ==
    LET b == w.bundle[p]
        w1 == bundle_del_port(w, p)
    IN  CASE b = None -> w
          [] b # None /\ w1.bundles[b].ports = {} -> bundle_destroy(w1, b)
          [] OTHER -> [w1 EXCEPT !.bundles[b].bond = @ /\ Cardinality(w1.bundles[b].ports) > 1]

bundle_add_port(w, b, p) ==
    IF p \notin w.ports \/ w.bundle[p] = b THEN w
    ELSE LET w1 == bundle_remove(w, p)
         IN  [w1 EXCEPT !.bundle[p] = b, !.bundles[b].ports = @ \cup {p},
                        !.bundles[b].floodable = @ /\ ~Quiet(w, p)]

-----------------------------------------------------------------------------
NewBundle(aux) ==
    [aux |-> aux, ports |-> {}, mode |-> "trunk", vlan |-> -1, trunks |-> NULL, bond |-> FALSE,
     floodable |-> TRUE, src_mirrors |-> {}, dst_mirrors |-> {}, mirror_out |-> {}]

(* VLAN tags out of range count as 0; trunks have none.                    *)
VlanTag_Asked(s) == IF s.mode = "trunk" THEN -1 ELSE s.vlan
VlanTag(s) ==
    CASE s.mode = "trunk" -> -1
      [] s.mode # "trunk" /\ s.vlan \in Vlans -> s.vlan
      [] OTHER -> 0

(* The native VLAN is always trunked, VLAN 0 then never.                   *)
TrunksOf_Asked(s) == IF s.mode = "access" THEN NULL ELSE s.trunks
TrunksOf(s) ==
    LET vlan == VlanTag(s)
        native == s.mode \in {"native-tagged", "native-untagged"} /\ vlan # 0
    IN  CASE s.mode = "access" -> NULL
          [] native /\ (s.trunks = NULL \/ vlan \notin s.trunks \/ 0 \in s.trunks) ->
               ((s.trunks \cap Vlans) \cup {vlan}) \ {0}
          [] OTHER -> s.trunks

(* bundle_set with settings: the ports first, then the VLANs, then bonding *)
(* and the MACs that no longer apply.                                      *)
Configured_NoFlush(w, b, s) ==
    [w EXCEPT !.bundles[b].mode = s.mode, !.bundles[b].vlan = VlanTag(s),
              !.bundles[b].trunks = TrunksOf(s),
              !.bundles[b].bond = Cardinality(w.bundles[b].ports) > 1]
Configured(w, b, s) ==
    LET old == w.bundles[b]
        new == [old EXCEPT !.mode = s.mode, !.vlan = VlanTag(s),
                           !.trunks = TrunksOf(s), !.bond = Cardinality(old.ports) > 1]
        w1 == [w EXCEPT !.bundles[b] = new]
        need_flush == old.mode # new.mode \/ old.vlan # new.vlan \/ old.trunks # new.trunks
    IN  IF need_flush THEN bundle_flush_macs(w1, b) ELSE w1

bundle_set(aux, s) ==
    /\ \E b \in IF bundle_lookup(sw, aux) # {} THEN bundle_lookup(sw, aux) ELSE Addrs \ Live(sw) :
         LET w1 == IF b \in Live(sw) THEN sw ELSE [sw EXCEPT !.bundles[b] = NewBundle(aux)]
             w2 == FoldSet(LAMBDA p, acc : bundle_add_port(acc, b, p), w1, s.slaves)
             w3 == FoldSet(LAMBDA p, acc : bundle_del_port(acc, p), w2,
                           w2.bundles[b].ports \ s.slaves)
         IN  sw' = IF w3.bundles[b].ports = {} THEN bundle_destroy(w3, b) ELSE Configured(w3, b, s)
    /\ last' = NoPacket

bundle_unset(aux) ==
    /\ \E b \in bundle_lookup(sw, aux) : sw' = bundle_destroy(sw, b)
    /\ last' = NoPacket

(* port_destruct and port_construct.                                       *)
PortDeleted(p) ==
    /\ Deletes /\ p \in sw.ports
    /\ sw' = [bundle_remove(sw, p) EXCEPT !.ports = @ \ {p}, !.stp[p] = "disabled",
                                          !.no_flood = @ \ {p}]
    /\ last' = NoPacket
PortCreated(p) ==
    /\ p \notin sw.ports
    /\ sw' = [sw EXCEPT !.ports = @ \cup {p}]
    /\ last' = NoPacket

port_reconfigured_Alone(p) ==
    /\ p \in sw.ports
    /\ sw' = [sw EXCEPT !.no_flood = IF p \in @ THEN @ \ {p} ELSE @ \cup {p}]
    /\ last' = NoPacket
port_reconfigured(p) ==
    /\ p \in sw.ports
    /\ LET w1 == [sw EXCEPT !.no_flood = IF p \in @ THEN @ \ {p} ELSE @ \cup {p}]
       IN  sw' = IF sw.bundle[p] = None THEN w1 ELSE bundle_update(w1, sw.bundle[p])
    /\ last' = NoPacket

update_stp_port_state(p, s) ==
    /\ p \in sw.ports /\ sw.stp[p] # s
    /\ LET w1 == IF stp_learn_in_state(sw.stp[p]) # stp_learn_in_state(s)
                 THEN mac_learning_flush(sw) ELSE sw
           w2 == [w1 EXCEPT !.stp[p] = s]
           fwd_change == stp_forward_in_state(sw.stp[p]) # stp_forward_in_state(s)
       IN  sw' = IF fwd_change /\ sw.bundle[p] # None THEN bundle_update(w2, sw.bundle[p]) ELSE w2
    /\ last' = NoPacket

-----------------------------------------------------------------------------
bundle_lookup_multiple(w, auxes) == UNION {bundle_lookup(w, a) : a \in auxes}

NewMirror(aux) ==
    [aux |-> aux, srcs |-> {}, dsts |-> {}, vlans |-> NULL, out |-> None, out_vlan |-> -1, dup |-> {}]

mirror_lookup(aux) == {i \in Indices : sw.mirrors[i] # None /\ sw.mirrors[i].aux = aux}
mirror_scan ==
    LET free == {i \in Indices : sw.mirrors[i] = None}
    IN  IF free = {} THEN None ELSE Min(free)

(* mirror_set for output to a bundle (out an aux, out_vlan -1) or a VLAN.  *)
(* A mirror whose configuration is the same is left alone.                 *)
mirror_set(aux, sel, out, out_vlan, vlans) ==
    LET found == mirror_lookup(aux)
    IN  /\ found # {} \/ mirror_scan # None
        /\ LET i == IF found # {} THEN Only(found) ELSE mirror_scan
               w1 == IF found # {} THEN sw ELSE [sw EXCEPT !.mirrors[i] = NewMirror(aux)]
               old == w1.mirrors[i]
               outs == bundle_lookup(w1, out)
               new == [old EXCEPT !.srcs = bundle_lookup_multiple(w1, sel.srcs),
                                  !.dsts = bundle_lookup_multiple(w1, sel.dsts),
                                  !.vlans = vlans, !.out_vlan = out_vlan,
                                  !.out = IF out_vlan # -1 THEN None ELSE Only(outs)]
           IN  sw' = CASE out_vlan = -1 /\ outs = {} -> mirror_destroy(w1, i)
                       [] ~(out_vlan = -1 /\ outs = {}) /\ new = old -> w1
                       [] OTHER -> mirror_update_dups(mac_learning_flush(
                                     Marked([w1 EXCEPT !.mirrors[i] = new,
                                                       !.freed = Forgotten(w1, i)], i,
                                            new.srcs, new.dsts, new.out)))
        /\ last' = NoPacket

mirror_unset(aux) ==
    /\ \E i \in mirror_lookup(aux) : sw' = mirror_destroy(sw, i)
    /\ last' = NoPacket

set_flood_vlans(vlans) ==
    /\ sw' = IF vlans = sw.flood_vlans THEN sw
             ELSE [mac_learning_flush(sw) EXCEPT !.flood_vlans = vlans]
    /\ last' = NoPacket

-----------------------------------------------------------------------------
ofbundle_trunks_vlan(b, vlan) == b.mode # "access" /\ vlan \in b.trunks
ofbundle_includes_vlan(b, vlan) == vlan = b.vlan \/ ofbundle_trunks_vlan(b, vlan)

input_vid_is_valid(vid, b) ==
    CASE b.mode = "access" -> vid = 0
      [] b.mode \in {"native-tagged", "native-untagged"} /\ vid = 0 -> TRUE
      [] OTHER -> ofbundle_includes_vlan(b, vid)

input_vid_to_vlan(b, vid) ==
    CASE b.mode = "access" -> b.vlan
      [] b.mode = "trunk" -> vid
      [] OTHER -> IF vid # 0 THEN vid ELSE b.vlan

output_vlan_to_vid(b, vlan) ==
    CASE b.mode = "access" -> 0
      [] b.mode \in {"trunk", "native-tagged"} -> vlan
      [] OTHER -> IF vlan = b.vlan THEN 0 ELSE vlan

(* output_normal and compose_output_action: some port of the bundle, which *)
(* STP may block.                                                          *)
output_normal_Blocked(w, b, vlan) ==
    {[port |-> p, bundle |-> b, vid |-> output_vlan_to_vid(w.bundles[b], vlan)] :
        p \in w.bundles[b].ports}
output_normal(w, b, vlan) ==
    {[port |-> p, bundle |-> b, vid |-> output_vlan_to_vid(w.bundles[b], vlan)] :
        p \in {q \in w.bundles[b].ports : stp_forward_in_state(w.stp[q])}}
OneEach(w, S, vlan) ==
    {outs \in SUBSET UNION {output_normal(w, b, vlan) : b \in S} :
        \A b \in S : \/ Cardinality({o \in outs : o.bundle = b}) = 1
                     \/ {o \in outs : o.bundle = b} = {} /\ (w.bundles[b].bond \/
                                                             output_normal(w, b, vlan) = {})}

(* What a bond says of a packet it received.                               *)
bond_check_admissibility(p) ==
    LET b == sw.bundle[p.from]
    IN  IF b # None /\ sw.bundles[b].bond THEN {"accept", "drop", "drop_if_moved"} ELSE {"accept"}

is_admissible(w, p, vlan, verdict) ==
    LET b == w.bundle[p.from]
        mac == mac_learning_lookup(w, p.src, vlan)
    IN  /\ p.kind # "reserved"
        /\ w.bundles[b].bond =>
             /\ verdict # "drop"
             /\ verdict = "drop_if_moved" /\ mac.port \notin {None, b} =>
                  p.kind = "garp" /\ ~mac.lock

(* mac_learning_insert and what follows: a gratuitous ARP locks the entry  *)
(* against reflections over a bond.                                        *)
update_learning_table(w, p, vlan, b) ==
    LET mac == mac_learning_lookup(w, p.src, vlan)
        bond == w.bundles[b].bond
        lock == mac.lock \/ (p.kind = "garp" /\ ~bond)
    IN  IF vlan \in w.flood_vlans \/ p.src = Group \/ (p.kind = "garp" /\ bond /\ mac.lock) THEN w
        ELSE [w EXCEPT !.macs[<<p.src, vlan>>] = [port |-> b, lock |-> lock]]

(* The bundles a packet goes to: the learned one, or all that flood it.    *)
Destinations(w, p, vlan, b) ==
    LET mac == mac_learning_lookup(w, p.dst, vlan).port
    IN  IF mac # None THEN {mac} \ {b}
        ELSE {c \in Live(w) \ {b} : /\ ofbundle_includes_vlan(w.bundles[c], vlan)
                                    /\ w.bundles[c].floodable
                                    /\ w.bundles[c].mirror_out = {}}

(* add_mirror_actions: the mirrors of the input and of the outputs, lowest *)
(* index first, each output once; the sequence of <<bundle, VLAN>>.        *)
add_mirror_actions_Each(w, p, vlan, mirrors) ==
    LET mirror(acc, i) ==
          LET m == w.mirrors[i]
              out == CASE m.out # None -> <<<<m.out, vlan>>>>
                       [] m.out = None /\ vlan # m.out_vlan /\ p.kind # "reserved" ->
                            SetToSeq({<<b, m.out_vlan>> : b \in
                              {c \in Live(w) : /\ ofbundle_includes_vlan(w.bundles[c], m.out_vlan)
                                               /\ w.bundles[c].mirror_out = {}}})
                       [] OTHER -> <<>>
          IN  IF i \notin acc.left \/ vlan \notin m.vlans THEN acc
              ELSE [left |-> acc.left \ {i}, out |-> acc.out \o out]
    IN  FoldLeft(mirror, [left |-> mirrors, out |-> <<>>], [i \in Indices |-> i]).out
add_mirror_actions(w, p, vlan, mirrors) ==
    LET mirror(acc, i) ==
          LET m == w.mirrors[i]
              out == CASE m.out # None -> <<<<m.out, vlan>>>>
                       [] m.out = None /\ vlan # m.out_vlan /\ p.kind # "reserved" ->
                            SetToSeq({<<b, m.out_vlan>> : b \in
                              {c \in Live(w) : /\ ofbundle_includes_vlan(w.bundles[c], m.out_vlan)
                                               /\ w.bundles[c].mirror_out = {}}})
                       [] OTHER -> <<>>
          IN  IF i \notin acc.left \/ vlan \notin m.vlans THEN acc
              ELSE [left |-> acc.left \ m.dup, out |-> acc.out \o out]
    IN  FoldLeft(mirror, [left |-> mirrors, out |-> <<>>], [i \in Indices |-> i]).out

lookup_input_bundle(w, in_port) == w.bundle[in_port]

(* xlate_actions of a packet whose only action is NORMAL.                  *)
xlate_normal(p, verdict) ==
    LET b == lookup_input_bundle(sw, p.from)
        in == sw.bundles[b]
        vlan == input_vid_to_vlan(in, p.vid)
        usable == b # None /\ in.mirror_out = {} /\ input_vid_is_valid(p.vid, in)
        normal == /\ usable /\ p.kind # "partial" /\ stp_learn_in_state(sw.stp[p.from])
                  /\ is_admissible(sw, p, vlan, verdict)
        w1 == IF normal THEN update_learning_table(sw, p, vlan, b) ELSE sw
        dests == IF normal /\ stp_forward_in_state(sw.stp[p.from])
                 THEN Destinations(w1, p, vlan, b) ELSE {}
    IN  /\ p.from \in sw.ports
        /\ sw' = w1
        /\ \E outs \in OneEach(sw, dests, vlan) :
             LET dsts == UNION {sw.bundles[o.bundle].dst_mirrors : o \in outs}
             IN  last' = [from |-> p.from, vlan |-> IF usable THEN vlan ELSE -1, outs |-> outs,
                          copies |-> IF usable
                                     THEN add_mirror_actions(sw, p, vlan, in.src_mirrors \cup dsts)
                                     ELSE <<>>]

(* Time passes in the MAC table.                                           *)
mac_learning_run(k) ==
    /\ sw.macs[k] # NoEntry
    /\ \/ sw' = [sw EXCEPT !.macs[k] = NoEntry]
       \/ sw.macs[k].lock /\ sw' = [sw EXCEPT !.macs[k].lock = FALSE]
    /\ last' = NoPacket

-----------------------------------------------------------------------------
Init ==
    /\ sw = [bundles |-> [b \in Addrs |-> None], bundle |-> [p \in Ports |-> None],
             ports |-> Ports, no_flood |-> {}, stp |-> [p \in Ports |-> "disabled"],
             mirrors |-> [i \in Indices |-> None], freed |-> {},
             macs |-> [k \in Macs \X Vlans |-> NoEntry], flood_vlans |-> {}]
    /\ last = NoPacket

Packets == [from : Ports, src : Macs \cup {Group}, dst : Macs \cup {Group}, vid : Vlans, kind : Kinds]

Reconfigure ==
    \/ \E s \in Settings : bundle_set(s.aux, s)
    \/ \E aux \in Auxes : bundle_unset(aux)
    \/ \E p \in Ports : PortDeleted(p) \/ PortCreated(p)
    \/ \E aux \in MirrorAuxes, sel \in Selections, vlans \in SrcVlans :
         \/ \E out \in MirrorOuts : mirror_set(aux, sel, out, -1, vlans)
         \/ \E v \in OutVlans : mirror_set(aux, sel, None, v, vlans)
    \/ \E aux \in MirrorAuxes : mirror_unset(aux)
    \/ \E vlans \in FloodVlans : set_flood_vlans(vlans)

PortsChange ==
    \E p \in Changing : \/ port_reconfigured(p)
                        \/ \E s \in StpStates : update_stp_port_state(p, s)

Traffic ==
    \/ \E p \in Packets : \E verdict \in bond_check_admissibility(p) : xlate_normal(p, verdict)
    \/ \E k \in Macs \X Vlans : mac_learning_run(k)

Next == Reconfigure \/ PortsChange \/ Traffic

Spec == Init /\ [][Next]_vars

-----------------------------------------------------------------------------
TypeOK ==
    /\ sw.bundle \in [Ports -> Addrs \cup {None}]
    /\ \A b \in Live(sw) : /\ sw.bundles[b].ports \subseteq Ports
                           /\ sw.bundles[b].vlan \in Vlans \cup {-1}
                           /\ sw.bundles[b].trunks \subseteq NULL
    /\ \A k \in Macs \X Vlans : sw.macs[k].port \in Addrs \cup {None}

(* The structure of bundles survives ports moving between them: a port is  *)
(* in the bundle it names and in no other, no bundle is empty, it bonds    *)
(* exactly when it has several ports, and it is flooded exactly when none  *)
(* of its ports objects, whatever changed last (ofproto-dpif.c:2522-2587,  *)
(* 2689-2716, 2809-2824).                                                  *)
BundlesSound ==
    /\ \A p \in Ports : sw.bundle[p] # None => sw.bundle[p] \in Live(sw)
    /\ \A b \in Live(sw) :
         LET s == sw.bundles[b]
         IN  /\ s.ports = {p \in Ports : sw.bundle[p] = b} /\ s.ports # {}
             /\ s.bond <=> Cardinality(s.ports) > 1
             /\ s.floodable <=> \A p \in s.ports : ~Quiet(sw, p)

(* What the MAC table says can be used as it is: the bundle still exists,  *)
(* carries the VLAN and is not reserved for a mirror, and the VLAN is one  *)
(* to learn in, however bundles, mirrors and flood VLANs changed since it  *)
(* was learned (ofproto-dpif.c:2450-2488, 2800-2804, 3093-3096, 3164).     *)
MacsUsable ==
    \A k \in Macs \X Vlans :
        LET b == sw.macs[k].port
        IN  b # None => /\ b \in Live(sw)
                        /\ ofbundle_includes_vlan(sw.bundles[b], k[2])
                        /\ sw.bundles[b].mirror_out = {}
                        /\ k[2] \notin sw.flood_vlans

(* The bits in the bundles, the sets of the mirrors and the duplicates     *)
(* agree, and the sets hold bundles that exist.  The exception is a bundle *)
(* that a mirror selected both ways when it was destroyed: bundle_destroy  *)
(* takes it out of srcs alone, and its address stays in dsts until the     *)
(* mirror changes (ofproto-dpif.c:2602-2611, 2957-2988, 3071-3091).        *)
MirrorsAgree ==
    /\ \A b \in Live(sw), i \in Indices :
         LET m == sw.mirrors[i]
         IN  /\ i \in sw.bundles[b].src_mirrors <=> m # None /\ b \in m.srcs
             /\ i \in sw.bundles[b].dst_mirrors <=> m # None /\ b \in m.dsts /\ <<i, b>> \notin sw.freed
             /\ i \in sw.bundles[b].mirror_out <=> m # None /\ b = m.out
    /\ \A i \in Indices :
         LET m == sw.mirrors[i]
         IN  m # None =>
               /\ m.srcs \subseteq Live(sw)
               /\ \A b \in m.dsts : b \in Live(sw) \/ <<i, b>> \in sw.freed
               /\ m.out = None <=> m.out_vlan # -1
               /\ m.dup = {j \in Indices : /\ sw.mirrors[j] # None
                                           /\ sw.mirrors[j].out = m.out
                                           /\ sw.mirrors[j].out_vlan = m.out_vlan}

(* A packet stays in its VLAN: it leaves only on other bundles that carry  *)
(* the VLAN, not on one reserved for mirroring nor on a blocked port, and  *)
(* a neighbour configured like the output reads the same VLAN from its tag *)
(* (ofproto-dpif.c:7534-7675, 8005-8097).                                  *)
StaysInVlan ==
    last # NoPacket =>
      \A o \in last.outs :
        LET b == sw.bundles[o.bundle]
        IN  /\ last.from \notin b.ports
            /\ ofbundle_includes_vlan(b, last.vlan) /\ b.mirror_out = {}
            /\ stp_forward_in_state(sw.stp[o.port])
            /\ input_vid_is_valid(o.vid, b) /\ input_vid_to_vlan(b, o.vid) = last.vlan

(* A packet is copied to each mirror output once, however many mirrors     *)
(* with that output select it (ofproto-dpif.c:7764-7800).                  *)
CopiedOnce == last # NoPacket => IsInjective(last.copies)

(* "Contains "struct ofbundle *"s." (ofproto-dpif.c:148-149): the sets of  *)
(* a mirror hold bundles.                                                  *)
ContainsBundles ==
    \A i \in Indices : sw.mirrors[i] # None =>
        sw.mirrors[i].srcs \cup sw.mirrors[i].dsts \subseteq Live(sw)
=============================================================================
