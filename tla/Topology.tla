------------------------------ MODULE Topology ------------------------------
(***************************************************************************)
(* How teams are spread over the machines of a deployment, twice: as the   *)
(* configuration editor previews it (editor/lib/topology.ts) and as the    *)
(* deployment tool does it (run.py).  "The topology helpers below mirror   *)
(* effective_nodes, assign_teams and validate_topology in run.py, so that  *)
(* what the editor previews is exactly what the deployment will do"        *)
(* (topology.ts:4).                                                        *)
(*                                                                         *)
(* Nothing but functions of a configuration c: its nodes and teams are     *)
(* sequences, the roles and pinned teams of a node are sets.  A name is a  *)
(* number: 0 stands for "control", k for "node-k".                         *)
(***************************************************************************)
EXTENDS Integers, Sequences, FiniteSets

ALL_ROLES == {"control", "vpn", "vm", "checker"}

Blank == ""
MainName == -2          (* "main", the only machine of a plain deployment   *)
Unnamed  == -1          (* ""                                               *)

Main(c) ==
  [name |-> MainName, roles |-> ALL_ROLES, address |-> c.server_addr,
   public_address |-> c.server_addr, ssh |-> Blank, weight |-> 1,
   checker_concurrency |-> 0, teams |-> {}, vm_teams |-> {}]

(* What both sides make of a node whose fields are left empty. *)
Filled(node) ==
  [node EXCEPT !.roles = IF node.roles = {} THEN ALL_ROLES ELSE node.roles,
               !.public_address = IF node.public_address = Blank
                                  THEN node.address ELSE node.public_address]

IsControl(node) == "control" \in node.roles

WithControl(nodes) ==
  IF \E i \in DOMAIN nodes : IsControl(nodes[i])
  THEN nodes
  ELSE [nodes EXCEPT ![1].roles = nodes[1].roles \cup {"control"}]

-----------------------------------------------------------------------------
(* assignTeams, assign_teams: among the nodes S, pinned teams first, then  *)
(* a weighted round robin over the names.                                  *)

(* What the assignment looks at. *)
Places(nodes) ==
  [i \in DOMAIN nodes |->
     [name |-> nodes[i].name, weight |-> nodes[i].weight,
      teams |-> nodes[i].teams, vm_teams |-> nodes[i].vm_teams]]

PinnedTeams(node, role) ==
  IF role = "vm" /\ node.vm_teams # {} THEN node.vm_teams ELSE node.teams

NamesOf(nodes, S) == {nodes[i].name : i \in S}

(* A later node with the same name takes the entry of the earlier one. *)
EntryOf(nodes, S, name) ==
  CHOOSE i \in S : /\ nodes[i].name = name
                   /\ \A j \in S : nodes[j].name = name => j <= i

Pinned(nodes, S, role) ==
  [name \in NamesOf(nodes, S) |-> PinnedTeams(nodes[EntryOf(nodes, S, name)], role)]

(* Weights are whole numbers here.  The editor's field takes 1.5, too: its  *)
(* preview gives that node two slots, and run.py stops with a TypeError.   *)
Weight(node) == IF node.weight < 1 THEN 1 ELSE node.weight

(* The slots of the nodes up to the i-th. *)
SlotsUpTo(nodes, S) ==
  LET upTo[i \in 0..Len(nodes)] ==
        IF i = 0 THEN 0
        ELSE upTo[i - 1] + (IF i \in S THEN Weight(nodes[i]) ELSE 0)
  IN  upTo

SlotName(nodes, S, k) ==
  LET upTo == SlotsUpTo(nodes, S)
  IN  nodes[CHOOSE i \in S : upTo[i - 1] <= k /\ k < upTo[i]].name

(* Mutant: pinned teams take part in the round robin, too. *)
AllTeams(teams, pinned) == DOMAIN teams

(* The teams that are left to the round robin, by their place in the list. *)
Unpinned(teams, pinned) ==
  LET already == UNION {pinned[name] : name \in DOMAIN pinned}
  IN  {k \in DOMAIN teams : teams[k].id \notin already}

AssignAmong(nodes, teams, S, role) ==
  LET pinned  == Pinned(nodes, S, role)
      rest    == Unpinned(teams, pinned)
      slots   == SlotsUpTo(nodes, S)[Len(nodes)]
      turn(k) == Cardinality({j \in rest : j < k})
  IN  [name \in DOMAIN pinned |->
         pinned[name] \cup {teams[k].id : k \in
           {k \in rest : SlotName(nodes, S, turn(k) % slots) = name}}]

TeamsAt(assignment, name) ==
  IF name \in DOMAIN assignment THEN assignment[name] ELSE {}

-----------------------------------------------------------------------------
(* The preview (topology.ts).                                              *)

(* Mutant: a node without roles gets none. *)
effectiveNodesBare(c) ==
  IF c.nodes = <<>> THEN <<Main(c)>> ELSE WithControl(c.nodes)

effectiveNodes(c) ==
  IF c.nodes = <<>> THEN <<Main(c)>>
  ELSE WithControl([i \in DOMAIN c.nodes |-> Filled(c.nodes[i])])

(* A node with the role "router" counts as one that terminates tunnels. *)
hasRole(node, role) ==
  \/ role \in node.roles
  \/ role = "vpn" /\ "router" \in node.roles

holders(c, role) ==
  LET nodes == effectiveNodes(c)
  IN  {i \in DOMAIN nodes : hasRole(nodes[i], role)}

assignTeams(c, role) ==
  AssignAmong(Places(effectiveNodes(c)), c.teams, holders(c, role), role)

(* validateTopology: the kinds of warnings, in the order of the code. *)
validateTopology(c) ==
  LET nodes == effectiveNodes(c)
      Has(role) == \E i \in DOMAIN nodes : hasRole(nodes[i], role)
      Some(Bad(_)) == \E i \in DOMAIN nodes : Bad(nodes[i])
      Warn(kind, condition) == IF condition THEN {kind} ELSE {}
      boxes == assignTeams(c, "vm")
  IN  UNION {
        Warn("several controls", \E i, j \in DOMAIN nodes :
               i # j /\ IsControl(nodes[i]) /\ IsControl(nodes[j])),
        Warn("duplicated name", \E i, j \in DOMAIN nodes :
               i # j /\ nodes[i].name = nodes[j].name),
        Warn("empty name", Some(LAMBDA n : n.name = Unnamed)),
        Warn("no ssh", Some(LAMBDA n :
               "checker" \in n.roles /\ ~IsControl(n) /\ n.ssh = Blank)),
        Warn("no address", Some(LAMBDA n :
               n.address = Blank /\ n.public_address = Blank)),
        Warn("no public address", Some(LAMBDA n :
               /\ hasRole(n, "vpn")
               /\ n.public_address = Blank /\ n.address = Blank)),
        Warn("no tunnels", Has("vm") /\ ~Has("vpn")),
        Warn("unknown role", Some(LAMBDA n :
               ~(n.roles \subseteq ALL_ROLES \cup {"router"}))),
        Warn("no vm node",
               /\ c.nodes # <<>> /\ c.teams # <<>>
               /\ c.vm_mode # "none"
               /\ \A name \in DOMAIN boxes : boxes[name] = {})}

(* topologySummary: the rows of "Planned distribution". *)
topologySummary(c) ==
  LET nodes == effectiveNodes(c)
      vpn   == assignTeams(c, "vpn")
      vm    == assignTeams(c, "vm")
  IN  [i \in DOMAIN nodes |->
         [name     |-> nodes[i].name,
          address  |-> nodes[i].public_address,
          vpnTeams |-> TeamsAt(vpn, nodes[i].name),
          vmTeams  |-> TeamsAt(vm, nodes[i].name)]]

-----------------------------------------------------------------------------
(* The deployment (run.py).                                                *)

(* The control node always runs a router; the role "router" takes no teams. *)
WithRouter(node) ==
  IF IsControl(node) /\ node.roles \cap {"vpn", "router"} = {}
  THEN [node EXCEPT !.roles = node.roles \cup {"router"}]
  ELSE node

effective_nodes(c) ==
  IF c.nodes = <<>> THEN <<Main(c)>>
  ELSE LET nodes == WithControl([i \in DOMAIN c.nodes |-> Filled(c.nodes[i])])
       IN  [i \in DOMAIN nodes |-> WithRouter(nodes[i])]

assign_teams(c, role) ==
  LET nodes == effective_nodes(c)
  IN  AssignAmong(Places(nodes), c.teams,
                  {i \in DOMAIN nodes : role \in nodes[i].roles}, role)

(* nodes_payload: what the routers' configuration is built from. *)
nodes_payload(c) ==
  LET nodes == effective_nodes(c)
      vpn   == assign_teams(c, "vpn")
      vm    == assign_teams(c, "vm")
  IN  [i \in DOMAIN nodes |->
         [name     |-> nodes[i].name,
          address  |-> nodes[i].public_address,
          vpnTeams |-> TeamsAt(vpn, nodes[i].name),
          vmTeams  |-> TeamsAt(vm, nodes[i].name)]]

=============================================================================
