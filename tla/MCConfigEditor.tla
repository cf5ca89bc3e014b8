--------------------------- MODULE MCConfigEditor ---------------------------
(* A small instance of ConfigEditor. *)
EXTENDS ConfigEditor, TLC

CONSTANTS t1, t2

TwoTabs == {t1, t2}
TwoIds == {0, 1}
TwoNames == {Unnamed, 0}
KnownRoles == ALL_ROLES \cup {"router"}
ThreeRoleSets == {{}, {"vpn"}, {"vm", "checker"}}
AllTexts == STRING
TwoAddresses == {Blank, "h1"}
OneTick == {60}

Machine(name, roles) ==
  [name |-> name, roles |-> roles, address |-> "h1", public_address |-> Missing,
   ssh |-> Missing, weight |-> Missing, checker_concurrency |-> Missing,
   teams |-> Missing, vm_teams |-> Missing, local |-> Missing,
   wireguard_port |-> Missing]

(* Written before most fields existed, with another control node.          *)
Legacy ==
  [server_addr |-> "h1", tick_time |-> Missing, submission_timeout |-> Missing,
   exposed |-> Spaces, start_time |-> Missing, vm_mode |-> "qemu",
   max_disk_size |-> Missing, monitor |-> Missing, pcap |-> TRUE,
   pcap_max_size |-> Missing, teams |-> generateTeams(1, TRUE),
   nodes |-> <<Machine(1, {"vm"}), Machine(0, {"control", "vpn"})>>]

(* With a node without roles, and one with the role of run.py's own.       *)
Routed == [Legacy EXCEPT !.tick_time = 60,
                          !.nodes = <<Machine(0, Missing), Machine(1, {"router", "vm"})>>]

(* By hand: roles left out or of run.py's own, an address said twice, a    *)
(* weight, a pinned team.                                                  *)
ByHand ==
  [Routed EXCEPT
     !.vm_mode = Missing, !.start_time = "noon",
     !.nodes = <<[Machine(0, Missing) EXCEPT !.public_address = "h1"],
                 [Machine(1, {"router", "vm"}) EXCEPT
                    !.public_address = Blank, !.weight = 2, !.teams = {1},
                    !.local = FALSE]>>]

(* Two routers on the machine of the control node. *)
OneHost ==
  [ByHand EXCEPT !.nodes[2].local = TRUE, !.nodes[2].wireguard_port = 51001]

FourFiles == {Legacy, Routed, ByHand, OneHost}

(* A draft of an earlier visit: two machines, two teams. *)
Distributed ==
  [Default EXCEPT !.server_addr = "h1", !.teams = generateTeams(1, TRUE),
                  !.nodes = <<[defaultNode(0) EXCEPT !.address = "h1"],
                              [defaultNode(1) EXCEPT !.address = "h1"]>>]

(* Another: three machines of unequal weight, teams pinned to two of them. *)
Pinning ==
  [Distributed EXCEPT
     !.submission_timeout = Null, !.exposed = Blank,
     !.nodes = <<[defaultNode(0) EXCEPT !.address = "h1", !.teams = {0}],
                 [defaultNode(1) EXCEPT !.public_address = "h1",
                                        !.vm_teams = {1}],
                 [defaultNode(2) EXCEPT !.address = "h1", !.weight = 2,
                                        !.roles = {"checker"}]>>]

TwoDrafts == {Distributed, Pinning}

Symmetric == Permutations(Tabs)
=============================================================================
