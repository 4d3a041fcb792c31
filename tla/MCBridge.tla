------------------------------ MODULE MCBridge ------------------------------
(***************************************************************************)
(* A bridge: its ports (Ports), and bundles, VLANs and mirrors (Bundles).  *)
(*                                                                         *)
(* The components share no state in these modules. A behaviour is about    *)
(* one of them, its subject, and the others are at rest.                   *)
(***************************************************************************)
EXTENDS Integers, Sequences, TLC

CONSTANT Off   \* the state of components at rest
CONSTANTS None, dv1, dv2, t, u, pt, tun, b1, b2, b3, x, y, z, q1, q2, q3, m1, m2, e1, group

VARIABLE subject   \* the component, or instance of one, that this behaviour is about
VARIABLES br, poll, up, changed, run, added, events
VARIABLES sw, last

(* Settings of a bundle; {0, -1} and {0, 1, -1} are null bitmaps.          *)
Setting(aux, slaves, mode, vlan, trunks) ==
    [aux |-> aux, slaves |-> slaves, mode |-> mode, vlan |-> vlan, trunks |-> trunks]
Trunk(aux, slaves) == Setting(aux, slaves, "trunk", 0, {0, 1, -1})
Single(aux, slaves, mode, vlan) == Setting(aux, slaves, mode, vlan, {0, -1})
AnyPorts ==
    {Single(aux, S, "trunk", 0) : aux \in {x, y}, S \in SUBSET {q1, q2, q3} \ {{}}}
        \cup {Single(x, {q1}, "access", 2)}
PortEach == {Trunk(x, {q1}), Trunk(y, {q2}), Trunk(z, {q3})}
Vlan(aux, S) ==
    {Setting(aux, S, "trunk", 0, {1}), Setting(aux, S, "native-tagged", 1, {0, 1}),
     Setting(aux, S, "native-untagged", 1, {0, 1}), Setting(aux, S, "native-tagged", 0, {1})}
        \cup {[Trunk(aux, S) EXCEPT !.mode = m, !.vlan = IF m = "trunk" THEN 0 ELSE 1] :
                m \in {"access", "trunk", "native-untagged"}}
AnyVlan == Vlan(x, {q1}) \cup Vlan(y, {q2}) \cup {Trunk(z, {q3})}
Bonded ==
    {Trunk(x, {q1, q2}), Trunk(y, {q3}), [Trunk(y, {q3}) EXCEPT !.mode = "access", !.vlan = 1]}
Disjoint == {[srcs |-> {x}, dsts |-> {y}], [srcs |-> {}, dsts |-> {x}]}
BothWays == {[srcs |-> {x}, dsts |-> {x, y}], [srcs |-> {}, dsts |-> {x}]}

-----------------------------------------------------------------------------
(* Ports of one bridge: two devices that come, go and fail to be opened;   *)
(* and tunnels that share a datapath port, with a patch port and a local   *)
(* port.                                                                   *)
PortCases ==
    [ports |-> [Systems |-> {dv1, dv2}, Patches |-> {}, Tunnels |-> {}, Local |-> "none",
          MaxPorts |-> 2, Numbers |-> {3}, Initial |-> {{dv1, dv2}}, Fails |-> TRUE,
          MaxEvents |-> 1],
     tunnels |-> [Systems |-> {dv1}, Patches |-> {pt}, Tunnels |-> {t, u}, Local |-> dv1,
          MaxPorts |-> 4, Numbers |-> {2, 5}, Initial |-> {{}}, Fails |-> FALSE,
          MaxEvents |-> 0]]
Port(c) == INSTANCE Ports WITH
    Systems <- c.Systems, Patches <- c.Patches, Tunnels <- c.Tunnels, Local <- c.Local,
    MaxPorts <- c.MaxPorts, Numbers <- c.Numbers, Initial <- c.Initial, Fails <- c.Fails,
    MaxEvents <- c.MaxEvents, TunnelDev <- tun, OdpPorts <- {1, 2}, Foreign <- FALSE,
    Readds <- TRUE, Toggles <- FALSE
portVars == <<br, poll, up, changed, run, added, events>>

-----------------------------------------------------------------------------
(* Bundles: ports that move between bundles, every VLAN mode, a bond whose *)
(* slaves change, two mirrors to a bundle, and one to a bundle or a VLAN.  *)
BundleCases ==
    [bundles |-> [MirrorAuxes |-> {}, MaxMirrors |-> 1, Selections |-> {},
          MirrorOuts |-> {y}, OutVlans |-> {}, FloodVlans |-> {}, Changing |-> {q1, q2},
          StpStates |-> {"disabled", "blocking"}, Deletes |-> TRUE, Auxes |-> {x, y},
          Vlans |-> {0}, Settings |-> AnyPorts, Kinds |-> {}],
     vlans |-> [MirrorAuxes |-> {}, MaxMirrors |-> 1, Selections |-> {}, MirrorOuts |-> {y},
          OutVlans |-> {}, FloodVlans |-> {}, Changing |-> {}, StpStates |-> {},
          Deletes |-> FALSE, Auxes |-> {x, y, z}, Vlans |-> {0, 1}, Settings |-> AnyVlan,
          Kinds |-> {"plain"}],
     bonds |-> [MirrorAuxes |-> {}, MaxMirrors |-> 1, Selections |-> {}, MirrorOuts |-> {y},
          OutVlans |-> {}, FloodVlans |-> {{}, {1}}, Changing |-> {q2},
          StpStates |-> {"blocking", "learning", "forwarding"}, Deletes |-> FALSE,
          Auxes |-> {x, y}, Vlans |-> {0, 1}, Settings |-> Bonded,
          Kinds |-> {"plain", "garp", "reserved", "partial"}],
     mirrors |-> [MirrorAuxes |-> {m1, m2}, MaxMirrors |-> 2, Selections |-> Disjoint,
          MirrorOuts |-> {z}, OutVlans |-> {}, FloodVlans |-> {}, Changing |-> {},
          StpStates |-> {}, Deletes |-> FALSE, Auxes |-> {x, y, z}, Vlans |-> {0, 1},
          Settings |-> PortEach, Kinds |-> {"plain"}],
     vlan_mirror |-> [MirrorAuxes |-> {m1}, MaxMirrors |-> 1, Selections |-> BothWays,
          MirrorOuts |-> {z}, OutVlans |-> {1}, FloodVlans |-> {}, Changing |-> {},
          StpStates |-> {}, Deletes |-> FALSE, Auxes |-> {x, y, z}, Vlans |-> {0, 1},
          Settings |-> PortEach, Kinds |-> {"plain"}]]
Bundle(c) == INSTANCE Bundles WITH
    Auxes <- c.Auxes, MirrorAuxes <- c.MirrorAuxes, MaxMirrors <- c.MaxMirrors,
    Vlans <- c.Vlans, Settings <- c.Settings, Selections <- c.Selections,
    MirrorOuts <- c.MirrorOuts, OutVlans <- c.OutVlans, FloodVlans <- c.FloodVlans,
    Changing <- c.Changing, StpStates <- c.StpStates, Kinds <- c.Kinds,
    Deletes <- c.Deletes, None <- None, Group <- group, Addrs <- {b1, b2, b3}, Macs <- {e1},
    SrcVlans <- {c.Vlans \cup {-1}}, Ports <- {q1, q2, q3}
bundleVars == <<sw, last>>

-----------------------------------------------------------------------------
suiteVars == <<subject, portVars, bundleVars>>

(* One component moves; the others are at rest.                            *)
Subjects == DOMAIN PortCases \cup DOMAIN BundleCases

PortInit ==
    \/ \E s \in DOMAIN PortCases : subject = s /\ Port(PortCases[s])!Init
    \/ subject \notin DOMAIN PortCases /\ br = Off /\ poll = Off /\ up = Off
       /\ changed = Off /\ run = Off /\ added = Off /\ events = Off
BundleInit ==
    \/ \E s \in DOMAIN BundleCases : subject = s /\ Bundle(BundleCases[s])!Init
    \/ subject \notin DOMAIN BundleCases /\ sw = Off /\ last = Off

SuiteInit ==
    /\ subject \in Subjects
    /\ PortInit /\ BundleInit

PortStep ==
    /\ \E s \in DOMAIN PortCases : subject = s /\ Port(PortCases[s])!Next
    /\ UNCHANGED <<subject, bundleVars>>
BundleStep ==
    /\ \E s \in DOMAIN BundleCases : subject = s /\ Bundle(BundleCases[s])!Next
    /\ UNCHANGED <<subject, portVars>>

SuiteNext == PortStep \/ BundleStep

SuiteSpec == SuiteInit /\ [][SuiteNext]_suiteVars

Symmetry == Permutations({b1, b2, b3}) \cup Permutations({m1, m2})

-----------------------------------------------------------------------------
(* The tables of ports are one-to-one whatever the datapath does, a        *)
(* controller that hears every port status message knows the ports there   *)
(* are, and the datapath port of the tunnels exists as long as a tunnel    *)
(* needs it (ofproto.c:1967-2019, 2143-2152, ofproto-dpif.c:983-1031,      *)
(* 1924-1967).                                                             *)
PortsSound ==
    /\ \A s \in DOMAIN PortCases : subject = s => Port(PortCases[s])!TypeOK
    /\ \A s \in {"ports"} : subject = s => Port(PortCases[s])!OneToOne
    /\ \A s \in {"ports"} : subject = s => Port(PortCases[s])!Told
    /\ \A s \in {"tunnels"} : subject = s => Port(PortCases[s])!TunnelsBacked

(* Ports, bundles and mirrors agree on who belongs to whom, whatever       *)
(* changed last, except that a mirror keeps in dsts a destroyed bundle     *)
(* which it selected both ways; a packet stays in its VLAN, the learned    *)
(* addresses can be used as they are, and each mirror output gets one copy *)
(* (ofproto-dpif.c:2450-2824, 2957-3096, 7534-7800, 8005-8097).            *)
BundlesHold ==
    /\ \A s \in DOMAIN BundleCases : subject = s => Bundle(BundleCases[s])!TypeOK
    /\ \A s \in DOMAIN BundleCases : subject = s => Bundle(BundleCases[s])!BundlesSound
    /\ \A s \in {"vlans", "bonds"} : subject = s => Bundle(BundleCases[s])!StaysInVlan
    /\ \A s \in {"bonds", "mirrors", "vlan_mirror"} : subject = s => Bundle(BundleCases[s])!MacsUsable
    /\ \A s \in {"mirrors", "vlan_mirror"} : subject = s => Bundle(BundleCases[s])!MirrorsAgree
    /\ \A s \in {"mirrors", "vlan_mirror"} : subject = s => Bundle(BundleCases[s])!CopiedOnce
=============================================================================
