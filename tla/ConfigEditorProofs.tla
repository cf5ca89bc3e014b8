------------------------- MODULE ConfigEditorProofs -------------------------
(***************************************************************************)
(* Theorems about ConfigEditor: for any tabs, teams, nodes, files and      *)
(* number of changes, the control role stays with the first node, what is  *)
(* previewed is what is deployed, every team is on one machine when no     *)
(* warning is shown, fields show what is exported, and a reload brings     *)
(* back what was typed.                                                    *)
(***************************************************************************)
EXTENDS ConfigEditor, FiniteSetTheorems, WellFoundedInduction, TLAPS

-----------------------------------------------------------------------------
(* Files and configurations.                                               *)

LEMMA GivenType ==
  ASSUME NEW S, NEW value \in Maybe(S), NEW fallback \in S
  PROVE  Given(value, fallback) \in S
BY DEF Given, Maybe

LEMMA BlankIsText == Blank \in Texts
BY EditorAssumption

LEMMA ParsedNodeType ==
  ASSUME NEW entry \in Entry \cup Node
  PROVE  ParsedNode(entry) \in Node
<1>5. /\ entry.name \in Int
      /\ entry.roles \in Maybe(SUBSET Roles)
      /\ entry.address \in Maybe(Texts) /\ entry.public_address \in Maybe(Texts)
      /\ entry.ssh \in Maybe(Texts) /\ entry.weight \in Maybe(Int)
      /\ entry.checker_concurrency \in Maybe(Nat)
      /\ entry.teams \in Maybe(SUBSET Ids) /\ entry.vm_teams \in Maybe(SUBSET Ids)
  <2>1. CASE entry \in Entry
    BY <2>1 DEF Entry
  <2>2. CASE entry \in Node
    BY <2>2 DEF Node, Maybe
  <2>. QED
    BY <2>1, <2>2
<1>1. /\ Given(entry.roles, ALL_ROLES) \in SUBSET Roles
      /\ Given(entry.teams, {}) \in SUBSET Ids
      /\ Given(entry.vm_teams, {}) \in SUBSET Ids
  BY <1>5, EditorAssumption, GivenType
<1>2. /\ Given(entry.address, Blank) \in Texts
      /\ Given(entry.ssh, Blank) \in Texts
  BY <1>5, BlankIsText, GivenType
<1>3. Given(entry.public_address, Given(entry.address, Blank)) \in Texts
  BY <1>5, <1>2, GivenType
<1>4. /\ Given(entry.weight, 1) \in Int
      /\ Given(entry.checker_concurrency, 0) \in Nat
  BY <1>5, GivenType
<1>. QED
  BY <1>5, <1>1, <1>2, <1>3, <1>4 DEF ParsedNode, Node

LEMMA OwnRolesType ==
  ASSUME NEW node \in Node, NEW i
  PROVE  /\ OwnRoles(node, i) \in Node
         /\ IsControl(OwnRoles(node, i)) <=> i = 1
<1>1. "control" \in Roles
  BY EditorAssumption DEF ALL_ROLES
<1>. QED
  BY <1>1 DEF OwnRoles, Node, IsControl

LEMMA DefaultType == Default \in Conf /\ ControlFirst(Default)
<1>1. <<>> \in Seq(Team) /\ <<>> \in Seq(Node) /\ DOMAIN <<>> = {}
  OBVIOUS
<1>2. /\ Default.teams = <<>> /\ Default.nodes = <<>>
      /\ Default.server_addr = Blank
  BY DEF Default
<1>3. ControlFirst(Default)
  BY <1>1, <1>2 DEF ControlFirst
<1>4. "30G" \in Texts
  BY EditorAssumption
<1>5. /\ Default.tick_time \in Int
      /\ Default.submission_timeout \in {Null} \cup Int
      /\ Default.exposed \in {Null} \cup Texts
      /\ Default.start_time \in {Null} \cup (Texts \ {Blank, Spaces})
      /\ Default.vm_mode \in {"incus", "none"}
      /\ Default.max_disk_size \in {Null} \cup Texts
  BY <1>4 DEF Default
<1>6. /\ Default.monitor \in BOOLEAN /\ Default.pcap \in BOOLEAN
      /\ Default.pcap_max_size \in Int
  BY DEF Default
<1>7. Default = [server_addr |-> Default.server_addr,
                 tick_time |-> Default.tick_time,
                 submission_timeout |-> Default.submission_timeout,
                 exposed |-> Default.exposed, start_time |-> Default.start_time,
                 vm_mode |-> Default.vm_mode,
                 max_disk_size |-> Default.max_disk_size,
                 monitor |-> Default.monitor, pcap |-> Default.pcap,
                 pcap_max_size |-> Default.pcap_max_size,
                 teams |-> Default.teams, nodes |-> Default.nodes]
  BY DEF Default
<1>8. Default \in Conf
  BY <1>1, <1>2, <1>5, <1>6, <1>7, BlankIsText DEF Conf
<1>. QED
  BY <1>3, <1>8

LEMMA DefaultFields ==
  /\ Default.tick_time = 120 /\ Default.pcap_max_size = 512
  /\ Default.submission_timeout = 30 /\ Default.vm_mode = "incus"
BY DEF Default

(* What parseConfig returns is a configuration, with the control role at   *)
(* the first node.                                                         *)
LEMMA ParseType ==
  ASSUME NEW file \in File
  PROVE  parseConfig(file) \in Conf /\ ControlFirst(parseConfig(file))
<1>. DEFINE entries == EntriesOf(file)
            nodes == [i \in DOMAIN entries |-> OwnRoles(ParsedNode(entries[i]), i)]
            c == parseConfig(file)
<1>1. entries \in Seq(Entry \cup Node)
  <2>1. <<>> \in Seq(Entry \cup Node) /\ file.nodes \in Maybe(Seq(Entry \cup Node))
    BY DEF File
  <2>. QED
    BY <2>1, GivenType DEF EntriesOf
<1>2. ASSUME NEW i \in DOMAIN entries
      PROVE  /\ OwnRoles(ParsedNode(entries[i]), i) \in Node
             /\ IsControl(OwnRoles(ParsedNode(entries[i]), i)) <=> i = 1
  BY <1>1, ParsedNodeType, OwnRolesType
<1>. HIDE DEF entries
<1>3. nodes \in Seq(Node)
  BY <1>1, <1>2
<1>4. /\ Given(file.server_addr, Blank) \in Texts
      /\ Given(file.tick_time, Default.tick_time) \in Int
      /\ Given(file.pcap_max_size, Default.pcap_max_size) \in Int
  BY BlankIsText, DefaultFields, GivenType DEF File
<1>5. /\ Given(file.monitor, TRUE) \in BOOLEAN
      /\ Given(file.pcap, FALSE) \in BOOLEAN
  BY DEF File, Given, Maybe
<1>6. Given(file.teams, <<>>) \in Seq(Team)
  <2>1. <<>> \in Seq(Team) /\ file.teams \in Maybe(Seq(Team))
    BY DEF File
  <2>. QED
    BY <2>1, GivenType
<1>7. LimitOf(file.submission_timeout) \in {Null} \cup Int
  BY DefaultFields, GivenType DEF File, LimitOf
<1>8. /\ NullIfBlank(file.exposed) \in {Null} \cup Texts
      /\ NullIfBlank(file.max_disk_size) \in {Null} \cup Texts
      /\ NullIfBlank(file.start_time) \in {Null} \cup (Texts \ {Blank, Spaces})
  BY DEF File, NullIfBlank, Maybe
<1>9. (IF file.vm_mode \in {"incus", "none"} THEN file.vm_mode ELSE Default.vm_mode)
      \in {"incus", "none"}
  BY DefaultFields
<1>10. c \in Conf
  BY <1>3, <1>4, <1>5, <1>6, <1>7, <1>8, <1>9 DEF parseConfig, Conf, entries
<1>11. c.nodes = nodes
  BY DEF parseConfig, entries
<1>12. ControlFirst(c)
  BY <1>2, <1>11 DEF ControlFirst
<1>. QED
  BY <1>10, <1>12

LEMMA WrittenType ==
  ASSUME NEW S, NEW value \in S, NEW condition
  PROVE  WrittenIf(condition, value) \in Maybe(S)
BY DEF WrittenIf, Maybe

LEMMA NodeEntryType ==
  ASSUME NEW node \in Node
  PROVE  NodeEntry(node) \in Entry
<1>1. /\ node.name \in Int
      /\ node.roles \in Maybe(SUBSET Roles)
      /\ node.address \in Maybe(Texts)
  BY DEF Node, Maybe
<1>2. /\ node.public_address \in Texts /\ node.ssh \in Texts
      /\ node.weight \in Int /\ node.checker_concurrency \in Nat
      /\ node.teams \in SUBSET Ids /\ node.vm_teams \in SUBSET Ids
  BY DEF Node
<1>3. \A condition :
        /\ WrittenIf(condition, node.public_address) \in Maybe(Texts)
        /\ WrittenIf(condition, node.ssh) \in Maybe(Texts)
        /\ WrittenIf(condition, node.weight) \in Maybe(Int)
        /\ WrittenIf(condition, node.checker_concurrency) \in Maybe(Nat)
        /\ WrittenIf(condition, node.teams) \in Maybe(SUBSET Ids)
        /\ WrittenIf(condition, node.vm_teams) \in Maybe(SUBSET Ids)
  BY <1>2, WrittenType
<1>4. Missing \in Maybe(BOOLEAN) /\ Missing \in Maybe(Nat)
  BY DEF Maybe
<1>. QED
  BY <1>1, <1>3, <1>4 DEF NodeEntry, Entry

LEMMA ConfIsFile ==
  ASSUME NEW c \in Conf
  PROVE  c \in File
<1>1. Seq(Node) \subseteq Maybe(Seq(Entry \cup Node))
  BY DEF Maybe
<1>2. "incus" \in Texts /\ "none" \in Texts
  BY EditorAssumption
<1>. QED
  BY <1>1, <1>2 DEF Conf, File, Maybe

LEMMA SerializeType ==
  ASSUME NEW c \in Conf
  PROVE  serializeConfig(c) \in File
<1>. DEFINE list == [i \in DOMAIN c.nodes |-> NodeEntry(c.nodes[i])]
            limit == IF c.vm_mode = "none" THEN Null ELSE c.max_disk_size
<1>1. c.nodes \in Seq(Node) /\ c.max_disk_size \in {Null} \cup Texts
  BY DEF Conf
<1>2. list \in Seq(Entry)
  BY <1>1, NodeEntryType
<1>3. WrittenIf(c.nodes # <<>>, list) \in Maybe(Seq(Entry \cup Node))
  <2>1. list \in Seq(Entry \cup Node)
    BY <1>2
  <2>. QED
    BY <2>1, WrittenType
<1>4. /\ limit \in Maybe({Null} \cup Texts)
      /\ Missing \in Maybe(Int) /\ Missing \in Maybe(BOOLEAN)
  BY <1>1 DEF Maybe
<1>5. \A l \in Maybe({Null} \cup Texts), n \in Maybe(Seq(Entry \cup Node)) :
        [c EXCEPT !.max_disk_size = l, !.pcap = Missing,
                  !.pcap_max_size = Missing, !.nodes = n] \in File
  BY <1>4, ConfIsFile DEF File
<1>. HIDE DEF list, limit
<1>6. serializeConfig(c) =
        [c EXCEPT !.max_disk_size = limit, !.pcap = Missing,
                  !.pcap_max_size = Missing,
                  !.nodes = WrittenIf(c.nodes # <<>>, list)]
  BY Zenon DEF serializeConfig, list, limit
<1>. QED
  BY <1>3, <1>4, <1>5, <1>6

-----------------------------------------------------------------------------
(* Edits.                                                                  *)

(* Every control hands update() a configuration whose first node is the    *)
(* control node.                                                           *)
Fit(c) == c \in Conf /\ ControlFirst(c)

(* Changes that leave teams and nodes alone. *)
LEMMA FieldsEdited ==
  ASSUME NEW c, Fit(c)
  PROVE  /\ \A a \in Texts : Fit([c EXCEPT !.server_addr = a])
         /\ \A n \in Int : Fit([c EXCEPT !.tick_time = n])
         /\ \A x \in {Null} \cup Texts : Fit([c EXCEPT !.exposed = x])
         /\ \A x \in {Null} \cup (Texts \ {Blank, Spaces}) : Fit([c EXCEPT !.start_time = x])
         /\ \A x \in {Null} \cup Int : Fit([c EXCEPT !.submission_timeout = x])
         /\ \A b \in BOOLEAN : Fit([c EXCEPT !.monitor = b]) /\ Fit([c EXCEPT !.pcap = b])
         /\ \A n \in Int : Fit([c EXCEPT !.pcap_max_size = n])
         /\ \A m \in {"incus", "none"} : Fit([c EXCEPT !.vm_mode = m])
         /\ \A x \in {Null} \cup Texts : Fit([c EXCEPT !.max_disk_size = x])
<1>1. c \in Conf /\ ControlFirst(c)
  BY DEF Fit
<1>2. \A a \in Texts : Fit([c EXCEPT !.server_addr = a])
  BY <1>1 DEF Fit, Conf, ControlFirst
<1>3. \A n \in Int : Fit([c EXCEPT !.tick_time = n])
  BY <1>1 DEF Fit, Conf, ControlFirst
<1>4. \A x \in {Null} \cup Texts : Fit([c EXCEPT !.exposed = x])
  BY <1>1 DEF Fit, Conf, ControlFirst
<1>5. \A x \in {Null} \cup (Texts \ {Blank, Spaces}) : Fit([c EXCEPT !.start_time = x])
  BY <1>1 DEF Fit, Conf, ControlFirst
<1>6. \A x \in {Null} \cup Int : Fit([c EXCEPT !.submission_timeout = x])
  BY <1>1 DEF Fit, Conf, ControlFirst
<1>7. \A b \in BOOLEAN : Fit([c EXCEPT !.monitor = b])
  BY <1>1 DEF Fit, Conf, ControlFirst
<1>8. \A b \in BOOLEAN : Fit([c EXCEPT !.pcap = b])
  BY <1>1 DEF Fit, Conf, ControlFirst
<1>9. \A n \in Int : Fit([c EXCEPT !.pcap_max_size = n])
  BY <1>1 DEF Fit, Conf, ControlFirst
<1>10. \A m \in {"incus", "none"} : Fit([c EXCEPT !.vm_mode = m])
  BY <1>1 DEF Fit, Conf, ControlFirst
<1>11. \A x \in {Null} \cup Texts : Fit([c EXCEPT !.max_disk_size = x])
  BY <1>1 DEF Fit, Conf, ControlFirst
<1>. QED
  BY <1>2, <1>3, <1>4, <1>5, <1>6, <1>7, <1>8, <1>9, <1>10, <1>11

LEMMA TeamsEdited ==
  ASSUME NEW c, Fit(c), NEW teams \in Seq(Team)
  PROVE  Fit([c EXCEPT !.teams = teams])
BY DEF Fit, Conf, ControlFirst

LEMMA NodesEdited ==
  ASSUME NEW c, Fit(c), NEW nodes \in Seq(Node),
         \A i \in DOMAIN nodes : IsControl(nodes[i]) <=> i = 1
  PROVE  Fit([c EXCEPT !.nodes = nodes])
BY DEF Fit, Conf, ControlFirst

LEMMA WithoutType ==
  ASSUME NEW S, NEW seq \in Seq(S), NEW i \in DOMAIN seq
  PROVE  /\ Without(seq, i) \in Seq(S)
         /\ DOMAIN Without(seq, i) = 1..Len(seq) - 1
         /\ \A k \in DOMAIN Without(seq, i) :
              Without(seq, i)[k] = IF k < i THEN seq[k] ELSE seq[k + 1]
BY DEF Without

LEMMA TeamsFromScratch ==
  ASSUME NEW count \in Nat, NEW withNop \in BOOLEAN
  PROVE  generateTeams(count, withNop) \in Seq(Team)
<1>1. count + (IF withNop THEN 1 ELSE 0) \in Nat
  OBVIOUS
<1>2. \A i \in 1..count + (IF withNop THEN 1 ELSE 0) :
        [id |-> i - 1, nop |-> withNop /\ i = 1] \in Team
  BY <1>1 DEF Team
<1>. QED
  BY <1>1, <1>2 DEF generateTeams

(* Changes of one node, and of the list of nodes. *)
LEMMA DefaultNodeType ==
  ASSUME NEW index \in Nat
  PROVE  defaultNode(index) \in Node /\ (IsControl(defaultNode(index)) <=> index = 0)
<1>1. ALL_ROLES \subseteq Roles /\ Blank \in Texts
  BY EditorAssumption
<1>. QED
  BY <1>1 DEF defaultNode, Node, IsControl, ALL_ROLES

LEMMA NodeEdited ==
  ASSUME NEW c, Fit(c), NEW i \in DOMAIN c.nodes, NEW n \in Node,
         IsControl(n) <=> i = 1
  PROVE  Fit([c EXCEPT !.nodes[i] = n])
<1>. DEFINE nodes == [c.nodes EXCEPT ![i] = n]
<1>1. c.nodes \in Seq(Node) /\ c \in Conf
  BY DEF Fit, Conf
<1>2. nodes \in Seq(Node)
  BY <1>1
<1>3. \A k \in DOMAIN nodes : IsControl(nodes[k]) <=> k = 1
  BY <1>1 DEF Fit, ControlFirst
<1>. HIDE DEF nodes
<1>4. Fit([c EXCEPT !.nodes = nodes])
  BY <1>2, <1>3, NodesEdited
<1>5. [c EXCEPT !.nodes[i] = n] = [c EXCEPT !.nodes = nodes]
  BY <1>1 DEF nodes, Conf
<1>. QED
  BY <1>4, <1>5

Edited(t) == \E c : Fit(c) /\ Edit(t, c)

LEMMA EditedNode ==
  ASSUME NEW t \in Tabs, Fit(config[t]), NEW i \in DOMAIN config[t].nodes,
         EditNode(t, i)
  PROVE  Edited(t)
<1>. DEFINE c == config[t]
            node == c.nodes[i]
<1>1. /\ node \in Node
      /\ IsControl(node) <=> i = 1
  BY DEF Fit, ControlFirst, Conf
<1>2. ASSUME NEW n \in Node, IsControl(n) <=> i = 1,
             Edit(t, [c EXCEPT !.nodes[i] = n])
      PROVE  Edited(t)
  BY <1>2, NodeEdited DEF Edited
<1>. HIDE DEF node
<1>3. ASSUME NEW name \in Names, Edit(t, [c EXCEPT !.nodes[i] = [node EXCEPT !.name = name]])
      PROVE  Edited(t)
  <2>1. [node EXCEPT !.name = name] \in Node /\ [node EXCEPT !.name = name].roles = node.roles
    BY <1>1, EditorAssumption DEF Node
  <2>. QED
    BY <1>1, <1>2, <1>3, <2>1 DEF IsControl
<1>4. ASSUME NEW roles \in RoleSets,
             Edit(t, [c EXCEPT !.nodes[i] = rolesPatch(node, RolesOffered(i, roles))])
      PROVE  Edited(t)
  <2>1. RolesOffered(i, roles) \in SUBSET Roles
    BY EditorAssumption DEF RolesOffered, ALL_ROLES
  <2>2. "control" \in RolesOffered(i, roles) <=> i = 1
    BY DEF RolesOffered
  <2>3. ASSUME NEW R \in SUBSET Roles
        PROVE  rolesPatch(node, R) \in Node /\ rolesPatch(node, R).roles = R
    BY <1>1, EditorAssumption DEF rolesPatch, Node
  <2>. QED
    BY <1>2, <1>4, <2>1, <2>2, <2>3 DEF IsControl
<1>5. ASSUME NEW a \in Addresses,
             \/ Edit(t, [c EXCEPT !.nodes[i] = [node EXCEPT !.address = a]])
             \/ Edit(t, [c EXCEPT !.nodes[i] = [node EXCEPT !.public_address = a]])
             \/ Edit(t, [c EXCEPT !.nodes[i] = [node EXCEPT !.ssh = a]])
      PROVE  Edited(t)
  <2>1. a \in Texts
    BY EditorAssumption
  <2>2. /\ [node EXCEPT !.address = a] \in Node
        /\ [node EXCEPT !.public_address = a] \in Node
        /\ [node EXCEPT !.ssh = a] \in Node
    BY <1>1, <2>1 DEF Node
  <2>3. /\ [node EXCEPT !.address = a].roles = node.roles
        /\ [node EXCEPT !.public_address = a].roles = node.roles
        /\ [node EXCEPT !.ssh = a].roles = node.roles
    BY <1>1 DEF Node
  <2>. QED
    BY <1>1, <1>2, <1>5, <2>2, <2>3 DEF IsControl
<1>6. ASSUME NEW n \in Nat,
             \/ Edit(t, [c EXCEPT !.nodes[i] = [node EXCEPT !.weight = n]])
             \/ Edit(t, [c EXCEPT !.nodes[i] = [node EXCEPT !.checker_concurrency = n]])
      PROVE  Edited(t)
  <2>1. /\ [node EXCEPT !.weight = n] \in Node
        /\ [node EXCEPT !.checker_concurrency = n] \in Node
        /\ [node EXCEPT !.weight = n].roles = node.roles
        /\ [node EXCEPT !.checker_concurrency = n].roles = node.roles
    BY <1>1 DEF Node
  <2>. QED
    BY <1>1, <1>2, <1>6, <2>1 DEF IsControl
<1>7. ASSUME NEW ids \in SUBSET Ids,
             \/ Edit(t, [c EXCEPT !.nodes[i] = [node EXCEPT !.teams = ids]])
             \/ Edit(t, [c EXCEPT !.nodes[i] = [node EXCEPT !.vm_teams = ids]])
      PROVE  Edited(t)
  <2>1. /\ [node EXCEPT !.teams = ids] \in Node
        /\ [node EXCEPT !.vm_teams = ids] \in Node
        /\ [node EXCEPT !.teams = ids].roles = node.roles
        /\ [node EXCEPT !.vm_teams = ids].roles = node.roles
    BY <1>1 DEF Node
  <2>. QED
    BY <1>1, <1>2, <1>7, <2>1 DEF IsControl
<1>8. 1..2 \subseteq Nat /\ 0..1 \subseteq Nat
  OBVIOUS
<1>. QED
  BY <1>3, <1>4, <1>5, <1>6, <1>7, <1>8 DEF EditNode, node

LEMMA EditedTopology ==
  ASSUME NEW t \in Tabs, Fit(config[t]), EditTopology(t)
  PROVE  Edited(t)
<1>. DEFINE c == config[t]
<1>1. c.nodes \in Seq(Node) /\ \A i \in DOMAIN c.nodes : IsControl(c.nodes[i]) <=> i = 1
  BY DEF Fit, Conf, ControlFirst
<1>2. ASSUME NEW nodes \in Seq(Node),
             \A i \in DOMAIN nodes : IsControl(nodes[i]) <=> i = 1,
             Edit(t, [c EXCEPT !.nodes = nodes])
      PROVE  Edited(t)
  BY <1>2, NodesEdited DEF Edited
<1>3. CASE Edit(t, [c EXCEPT !.nodes = IF c.nodes = <<>>
                                       THEN <<defaultNode(0), defaultNode(1)>> ELSE <<>>])
  <2>1. /\ <<defaultNode(0), defaultNode(1)>> \in Seq(Node)
        /\ \A i \in DOMAIN <<defaultNode(0), defaultNode(1)>> :
             IsControl(<<defaultNode(0), defaultNode(1)>>[i]) <=> i = 1
    BY DefaultNodeType
  <2>2. <<>> \in Seq(Node) /\ DOMAIN <<>> = {}
    OBVIOUS
  <2>3. CASE c.nodes = <<>>
    BY <1>2, <1>3, <2>1, <2>3
  <2>4. CASE c.nodes # <<>>
    BY <1>2, <1>3, <2>2, <2>4
  <2>. QED
    BY <2>3, <2>4
<1>4. CASE \E i \in DOMAIN c.nodes : EditNode(t, i)
  BY <1>4, EditedNode
<1>5. ASSUME NEW i \in 2..Len(c.nodes), Edit(t, [c EXCEPT !.nodes = Without(c.nodes, i)])
      PROVE  Edited(t)
  <2>1. i \in DOMAIN c.nodes /\ i \in Nat /\ i >= 2
    BY <1>1
  <2>2. /\ Without(c.nodes, i) \in Seq(Node)
        /\ \A k \in DOMAIN Without(c.nodes, i) :
             /\ k \in 1..Len(c.nodes) - 1
             /\ Without(c.nodes, i)[k] = IF k < i THEN c.nodes[k] ELSE c.nodes[k + 1]
    BY <1>1, <2>1, WithoutType
  <2>3. ASSUME NEW k \in DOMAIN Without(c.nodes, i)
        PROVE  IsControl(Without(c.nodes, i)[k]) <=> k = 1
    <3>1. CASE k < i
      <4>1. k \in DOMAIN c.nodes /\ Without(c.nodes, i)[k] = c.nodes[k]
        BY <1>1, <2>2, <3>1
      <4>. QED
        BY <1>1, <4>1
    <3>2. CASE ~(k < i)
      <4>1. /\ k + 1 \in DOMAIN c.nodes /\ k + 1 # 1 /\ k # 1
            /\ Without(c.nodes, i)[k] = c.nodes[k + 1]
        BY <1>1, <2>1, <2>2, <3>2
      <4>. QED
        BY <1>1, <4>1
    <3>. QED
      BY <3>1, <3>2
  <2>. QED
    BY <1>2, <1>5, <2>2, <2>3
<1>6. CASE c.nodes # <<>> /\ Edit(t, [c EXCEPT !.nodes = Append(c.nodes, defaultNode(Len(c.nodes)))])
  <2>. DEFINE new == defaultNode(Len(c.nodes))
  <2>1. Len(c.nodes) \in Nat /\ Len(c.nodes) # 0
    BY <1>1, <1>6
  <2>2. new \in Node /\ ~IsControl(new)
    BY <2>1, DefaultNodeType
  <2>. HIDE DEF new
  <2>3. Append(c.nodes, new) \in Seq(Node)
    BY <1>1, <2>2
  <2>4. ASSUME NEW k \in DOMAIN Append(c.nodes, new)
        PROVE  IsControl(Append(c.nodes, new)[k]) <=> k = 1
    <3>1. /\ k \in 1..Len(c.nodes) + 1
          /\ Append(c.nodes, new)[k] = IF k = Len(c.nodes) + 1 THEN new ELSE c.nodes[k]
      BY <1>1, <2>4
    <3>2. CASE k = Len(c.nodes) + 1
      BY <2>1, <2>2, <3>1, <3>2
    <3>3. CASE k # Len(c.nodes) + 1
      <4>1. k \in DOMAIN c.nodes
        BY <1>1, <2>1, <3>1, <3>3
      <4>. QED
        BY <1>1, <3>1, <3>3, <4>1
    <3>. QED
      BY <3>2, <3>3
  <2>. QED
    BY <1>2, <1>6, <2>3, <2>4 DEF new
<1>. QED
  BY <1>3, <1>4, <1>5, <1>6 DEF EditTopology

LEMMA EditedTeams ==
  ASSUME NEW t \in Tabs, Fit(config[t]), EditTeams(t)
  PROVE  Edited(t)
<1>. DEFINE c == config[t]
<1>1. c.teams \in Seq(Team)
  BY DEF Fit, Conf
<1>2. ASSUME NEW teams \in Seq(Team), Edit(t, [c EXCEPT !.teams = teams])
      PROVE  Edited(t)
  BY <1>2, TeamsEdited DEF Edited
<1>3. ASSUME NEW i \in DOMAIN c.teams, NEW id \in Ids,
             Edit(t, [c EXCEPT !.teams = [c.teams EXCEPT ![i].id = id]])
      PROVE  Edited(t)
  <2>1. c.teams[i] \in Team /\ id \in Int
    BY <1>1, EditorAssumption
  <2>2. [c.teams[i] EXCEPT !.id = id] \in Team
    BY <2>1 DEF Team
  <2>3. [c.teams EXCEPT ![i].id = id] \in Seq(Team)
    BY <1>1, <2>2
  <2>. QED
    BY <1>2, <1>3, <2>3
<1>4. ASSUME NEW i \in DOMAIN c.teams,
             Edit(t, [c EXCEPT !.teams = [c.teams EXCEPT ![i].nop = ~c.teams[i].nop]])
      PROVE  Edited(t)
  <2>1. c.teams[i] \in Team
    BY <1>1
  <2>2. [c.teams[i] EXCEPT !.nop = ~c.teams[i].nop] \in Team
    BY <2>1 DEF Team
  <2>3. [c.teams EXCEPT ![i].nop = ~c.teams[i].nop] \in Seq(Team)
    BY <1>1, <2>2
  <2>. QED
    BY <1>2, <1>4, <2>3
<1>5. ASSUME NEW i \in DOMAIN c.teams, Edit(t, [c EXCEPT !.teams = Without(c.teams, i)])
      PROVE  Edited(t)
  BY <1>1, <1>2, <1>5, WithoutType
<1>6. ASSUME NEW id \in NextIds(c.teams),
             Edit(t, [c EXCEPT !.teams = Append(c.teams, [id |-> id, nop |-> FALSE])])
      PROVE  Edited(t)
  <2>. DEFINE taken == {0} \cup {c.teams[i].id + 1 : i \in DOMAIN c.teams}
  <2>1. \A i \in DOMAIN c.teams : c.teams[i] \in Team
    BY <1>1
  <2>2. taken \subseteq Int
    BY <2>1 DEF Team
  <2>3. id \in taken
    BY DEF NextIds
  <2>4. [id |-> id, nop |-> FALSE] \in Team
    BY <2>2, <2>3 DEF Team
  <2>. HIDE DEF taken
  <2>5. Append(c.teams, [id |-> id, nop |-> FALSE]) \in Seq(Team)
    BY <1>1, <2>4
  <2>. QED
    BY <1>2, <1>6, <2>5
<1>7. ASSUME NEW count \in 0..MaxTeams, NEW withNop \in BOOLEAN,
             Edit(t, [c EXCEPT !.teams = generateTeams(count, withNop)])
      PROVE  Edited(t)
  BY <1>2, <1>7, TeamsFromScratch
<1>. QED
  BY <1>3, <1>4, <1>5, <1>6, <1>7 DEF EditTeams

LEMMA EditedFields ==
  ASSUME NEW t \in Tabs, Fit(config[t]),
         EditServer(t) \/ EditTimes(t) \/ EditScoring(t) \/ EditMonitoring(t)
         \/ EditVulnboxes(t)
  PROVE  Edited(t)
<1>. DEFINE c == config[t]
<1>1. /\ c.monitor \in BOOLEAN /\ c.pcap \in BOOLEAN
      /\ Addresses \subseteq Texts /\ Spaces \in Texts
      /\ {"30G", "8G", "8888", "noon", Blank} \subseteq Texts
  BY EditorAssumption DEF Fit, Conf
<1>2. CASE EditServer(t)
  <2>1. (IF c.exposed = Null THEN "8888" ELSE Null) \in {Null} \cup Texts
    BY <1>1
  <2>. QED
    BY <1>1, <1>2, <2>1, FieldsEdited DEF EditServer, Edited
<1>3. CASE EditTimes(t)
  <2>1. "noon" \notin {Blank, Spaces}
    BY DEF Blank, Spaces
  <2>2. {Null, "noon"} \subseteq {Null} \cup (Texts \ {Blank, Spaces})
    BY <1>1, <2>1
  <2>. QED
    BY <1>3, <2>2, FieldsEdited DEF EditTimes, Edited
<1>4. CASE EditScoring(t)
  <2>1. \A limit \in {0, 30, 60} : (IF limit > 0 THEN limit ELSE Null) \in {Null} \cup Int
    OBVIOUS
  <2>2. \A x \in {Null} \cup Int : Fit([c EXCEPT !.submission_timeout = x])
    BY FieldsEdited
  <2>3. PICK limit \in {0, 30, 60} :
          Edit(t, [c EXCEPT !.submission_timeout = IF limit > 0 THEN limit ELSE Null])
    BY <1>4 DEF EditScoring
  <2>. QED
    BY <2>1, <2>2, <2>3 DEF Edited
<1>5. CASE EditMonitoring(t)
  <2>1. /\ \A b \in BOOLEAN : Fit([c EXCEPT !.monitor = b]) /\ Fit([c EXCEPT !.pcap = b])
        /\ \A n \in Int : Fit([c EXCEPT !.pcap_max_size = n])
    BY FieldsEdited
  <2>2. /\ (~c.monitor) \in BOOLEAN /\ (~c.pcap) \in BOOLEAN
        /\ {16, 512} \subseteq Int
    BY <1>1
  <2>3. /\ Fit([c EXCEPT !.monitor = ~c.monitor])
        /\ Fit([c EXCEPT !.pcap = ~c.pcap])
    BY <2>1, <2>2, Zenon
  <2>4. \A n \in {16, 512} : Fit([c EXCEPT !.pcap_max_size = n])
    BY <2>1, <2>2
  <2>. QED
    BY <1>5, <2>3, <2>4 DEF EditMonitoring, Edited
<1>6. CASE EditVulnboxes(t)
  <2>1. /\ (IF c.max_disk_size = Null THEN "30G" ELSE Null) \in {Null} \cup Texts
        /\ {Blank, "8G"} \subseteq {Null} \cup Texts
    BY <1>1
  <2>. QED
    BY <1>6, <2>1, FieldsEdited DEF EditVulnboxes, Edited
<1>. QED
  BY <1>2, <1>3, <1>4, <1>5, <1>6

-----------------------------------------------------------------------------
(* The inductive invariant.                                                *)

NumberFields == [text : {Nothing} \cup Int, focused : BOOLEAN]

(* A field shows its value, or has just been emptied. *)
InStep(f, value) == f.text = value \/ (f.focused /\ f.text = Nothing)

AllFirst == \A t \in Tabs : Open(t) => ControlFirst(config[t])

DraftKept == draft = lastEdit /\ (draft # Nothing => ControlFirst(draft))

FieldsInStep == \A t \in Tabs : Open(t) => InStep(field[t], config[t].tick_time)

IInv == TypeOK /\ AllFirst /\ DraftKept /\ FieldsInStep

LEMMA InitInvariant == Init => IInv
<1>. SUFFICES ASSUME Init PROVE IInv
  OBVIOUS
<1>1. draft \in {Nothing} \cup Conf /\ (draft # Nothing => ControlFirst(draft))
  BY EditorAssumption DEF Init
<1>2. Fresh \in NumberFields
  BY DEF Fresh, NumberFields
<1>3. TypeOK
  BY <1>1, <1>2 DEF Init, TypeOK, NumberFields
<1>4. \A t \in Tabs : ~Open(t)
  BY DEF Init, Open
<1>. QED
  BY <1>1, <1>3, <1>4 DEF Init, IInv, AllFirst, DraftKept, FieldsInStep

LEMMA FollowInStep ==
  ASSUME NEW f \in NumberFields, NEW old \in Int, NEW new \in Int,
         InStep(f, old) \/ f.text = new
  PROVE  Follow(f, old, new) \in NumberFields /\ InStep(Follow(f, old, new), new)
<1>1. CASE new = old \/ (f.focused /\ f.text = Nothing) \/ f.text = new
  BY <1>1 DEF Follow, InStep
<1>2. CASE ~(new = old \/ (f.focused /\ f.text = Nothing) \/ f.text = new)
  <2>1. Follow(f, old, new) = [f EXCEPT !.text = new]
    BY <1>2 DEF Follow
  <2>. QED
    BY <2>1 DEF NumberFields, InStep
<1>. QED
  BY <1>1, <1>2

(* Whatever a tab becomes, the draft becomes with it. *)
LEMMA BecomeKeeps ==
  ASSUME IInv, NEW t \in Tabs, Open(t), NEW c, Fit(c), NEW f \in NumberFields,
         InStep(f, config[t].tick_time) \/ f.text = c.tick_time,
         Become(t, f, c),
         picked' \in [Tabs -> {Nothing, Garbage} \cup File],
         exported' \in {Nothing} \cup File, edits' \in Nat
  PROVE  IInv'
<1>1. /\ config \in [Tabs -> {Nothing} \cup Conf]
      /\ field \in [Tabs -> NumberFields]
      /\ config[t] \in Conf /\ c \in Conf /\ ControlFirst(c)
  BY DEF IInv, TypeOK, NumberFields, Open, Fit
<1>2. config[t].tick_time \in Int /\ c.tick_time \in Int
  BY <1>1 DEF Conf
<1>. DEFINE g == Follow(f, config[t].tick_time, c.tick_time)
<1>3. g \in NumberFields /\ InStep(g, c.tick_time)
  BY <1>2, FollowInStep
<1>4. /\ config' = [config EXCEPT ![t] = c] /\ draft' = c /\ lastEdit' = c
      /\ field' = [field EXCEPT ![t] = g]
  BY DEF Become, Saved
<1>. HIDE DEF g
<1>5. TypeOK'
  <2>1. config' \in [Tabs -> {Nothing} \cup Conf]
    BY <1>1, <1>4
  <2>2. field' \in [Tabs -> NumberFields]
    BY <1>1, <1>3, <1>4
  <2>. QED
    BY <1>1, <1>4, <2>1, <2>2 DEF TypeOK, NumberFields
<1>6. AllFirst' /\ DraftKept'
  BY <1>1, <1>4 DEF IInv, AllFirst, DraftKept, Open
<1>7. FieldsInStep'
  <2>. SUFFICES ASSUME NEW u \in Tabs, Open(u)'
                PROVE  InStep(field'[u], config'[u].tick_time)
    BY DEF FieldsInStep, InStep
  <2>1. CASE u = t
    BY <1>1, <1>3, <1>4, <2>1
  <2>2. CASE u # t
    <3>1. config'[u] = config[u] /\ field'[u] = field[u]
      BY <1>1, <1>4, <2>2
    <3>. QED
      BY <3>1 DEF IInv, FieldsInStep, Open
  <2>. QED
    BY <2>1, <2>2
<1>. QED
  BY <1>5, <1>6, <1>7 DEF IInv

LEMMA EditKeeps ==
  ASSUME IInv, NEW t \in Tabs, Open(t), NEW c, Fit(c), Edit(t, c)
  PROVE  IInv'
<1>1. /\ field[t] \in NumberFields
      /\ InStep(field[t], config[t].tick_time)
  BY DEF IInv, TypeOK, NumberFields, FieldsInStep
<1>2. /\ picked' \in [Tabs -> {Nothing, Garbage} \cup File]
      /\ exported' \in {Nothing} \cup File
      /\ edits' \in Nat
  BY DEF IInv, TypeOK, Edit, Counted
<1>. QED
  BY <1>1, <1>2, BecomeKeeps DEF Edit

LEMMA LoadKeeps ==
  ASSUME IInv, NEW t \in Tabs, Load(t)
  PROVE  IInv'
<1>. DEFINE c == IF draft = Nothing THEN Default ELSE parseConfig(draft)
<1>1. Fit(c)
  <2>1. CASE draft = Nothing
    BY <2>1, DefaultType DEF Fit
  <2>2. CASE draft # Nothing
    <3>1. draft \in File
      BY <2>2, ConfIsFile DEF IInv, TypeOK
    <3>. QED
      BY <2>2, <3>1, ParseType DEF Fit
  <2>. QED
    BY <2>1, <2>2
<1>2. /\ config' = [config EXCEPT ![t] = c] /\ draft' = c /\ lastEdit' = c
      /\ field' = [field EXCEPT ![t] = [text |-> c.tick_time, focused |-> FALSE]]
      /\ picked' = [picked EXCEPT ![t] = Nothing]
      /\ UNCHANGED <<exported, edits>>
  BY DEF Load, Saved
<1>. HIDE DEF c
<1>3. c \in Conf /\ ControlFirst(c) /\ c.tick_time \in Int
  BY <1>1 DEF Fit, Conf
<1>4. TypeOK'
  <2>1. [text |-> c.tick_time, focused |-> FALSE] \in NumberFields
    BY <1>3 DEF NumberFields
  <2>. QED
    BY <1>2, <1>3, <2>1 DEF IInv, TypeOK, NumberFields
<1>5. AllFirst' /\ DraftKept'
  BY <1>2, <1>3 DEF IInv, TypeOK, AllFirst, DraftKept, Open
<1>6. FieldsInStep'
  BY <1>2, <1>3 DEF IInv, TypeOK, FieldsInStep, InStep, Open
<1>. QED
  BY <1>4, <1>5, <1>6 DEF IInv

LEMMA NumberFieldKeeps ==
  ASSUME IInv, NEW t \in Tabs, Open(t),
         Focus(t) \/ Clear(t) \/ Blur(t) \/ (\E n \in Ticks : Type(t, n))
  PROVE  IInv'
<1>1. /\ field \in [Tabs -> NumberFields] /\ field[t] \in NumberFields
      /\ InStep(field[t], config[t].tick_time)
      /\ config[t] \in Conf /\ Fit(config[t]) /\ config[t].tick_time \in Int
  BY DEF IInv, TypeOK, NumberFields, FieldsInStep, Open, AllFirst, Fit, Conf
<1>2. ASSUME NEW f \in NumberFields, InStep(f, config[t].tick_time),
             field' = [field EXCEPT ![t] = f], edits' \in Nat,
             UNCHANGED <<config, draft, picked, exported, lastEdit>>
      PROVE  IInv'
  <2>1. TypeOK'
    BY <1>1, <1>2 DEF IInv, TypeOK, NumberFields
  <2>2. AllFirst' /\ DraftKept'
    BY <1>2 DEF IInv, AllFirst, DraftKept, Open
  <2>3. FieldsInStep'
    BY <1>1, <1>2 DEF IInv, FieldsInStep, Open, InStep
  <2>. QED
    BY <2>1, <2>2, <2>3 DEF IInv
<1>3. edits \in Nat /\ edits + 1 \in Nat
  BY DEF IInv, TypeOK
<1>4. CASE Focus(t)
  <2>1. [field[t] EXCEPT !.focused = TRUE] \in NumberFields
    BY <1>1 DEF NumberFields
  <2>2. InStep([field[t] EXCEPT !.focused = TRUE], config[t].tick_time)
    BY <1>1 DEF NumberFields, InStep
  <2>. QED
    BY <1>2, <1>3, <1>4, <2>1, <2>2 DEF Focus, Counted
<1>5. CASE Clear(t)
  <2>1. [field[t] EXCEPT !.text = Nothing] \in NumberFields
    BY <1>1 DEF NumberFields
  <2>2. InStep([field[t] EXCEPT !.text = Nothing], config[t].tick_time)
    BY <1>1, <1>5 DEF NumberFields, InStep, Clear
  <2>. QED
    BY <1>2, <1>3, <1>5, <2>1, <2>2 DEF Clear
<1>6. ASSUME NEW n \in Int, NEW f \in NumberFields, f.text = n,
             Become(t, f, [config[t] EXCEPT !.tick_time = n]),
             UNCHANGED <<picked, exported>>, edits' \in Nat
      PROVE  IInv'
  <2>1. Fit([config[t] EXCEPT !.tick_time = n])
    BY <1>1, FieldsEdited
  <2>2. [config[t] EXCEPT !.tick_time = n].tick_time = n
    BY <1>1 DEF Conf
  <2>3. /\ picked' \in [Tabs -> {Nothing, Garbage} \cup File]
        /\ exported' \in {Nothing} \cup File
    BY <1>6 DEF IInv, TypeOK
  <2>. QED
    BY <1>6, <2>1, <2>2, <2>3, BecomeKeeps
<1>7. ASSUME NEW n \in Ticks, Type(t, n)
      PROVE  IInv'
  <2>1. n \in Int
    BY EditorAssumption
  <2>2. /\ [field[t] EXCEPT !.text = n] \in NumberFields
        /\ [field[t] EXCEPT !.text = n].text = n
    BY <1>1, <2>1 DEF NumberFields
  <2>. QED
    BY <1>3, <1>6, <1>7, <2>1, <2>2 DEF Type, Counted
<1>8. CASE Blur(t)
  <2>1. CASE field[t].text = Nothing /\ Become(t, [text |-> 120, focused |-> FALSE],
                                               [config[t] EXCEPT !.tick_time = 120])
    <3>1. [text |-> 120, focused |-> FALSE] \in NumberFields
      BY DEF NumberFields
    <3>. QED
      BY <1>3, <1>6, <1>8, <2>1, <3>1 DEF Blur
  <2>2. CASE /\ field[t].text # Nothing
             /\ field' = [field EXCEPT ![t].focused = FALSE]
             /\ UNCHANGED <<config, draft, lastEdit>>
    <3>1. [field[t] EXCEPT !.focused = FALSE] \in NumberFields
      BY <1>1 DEF NumberFields
    <3>2. InStep([field[t] EXCEPT !.focused = FALSE], config[t].tick_time)
      BY <1>1, <2>2 DEF NumberFields, InStep
    <3>. QED
      BY <1>2, <1>3, <1>8, <2>2, <3>1, <3>2 DEF Blur
  <2>. QED
    BY <1>8, <2>1, <2>2 DEF Blur
<1>. QED
  BY <1>4, <1>5, <1>7, <1>8

LEMMA FilesKeep ==
  ASSUME IInv, NEW t \in Tabs, Open(t),
         Export(t) \/ Paste(t) \/ Pick(t) \/ PickedRead(t) \/ Reset(t)
  PROVE  IInv'
<1>1. config[t] \in Conf
  BY DEF IInv, TypeOK, Open
<1>2. Importable \subseteq File
  BY EditorAssumption DEF IInv, TypeOK, Importable
<1>3. CASE Export(t)
  <2>1. exported' \in File /\ edits' \in Nat
    BY <1>1, <1>3, SerializeType DEF Export, IInv, TypeOK, Counted
  <2>. QED
    BY <1>3, <2>1 DEF Export, IInv, TypeOK, AllFirst, DraftKept, FieldsInStep, Open,
       InStep
<1>4. CASE Paste(t)
  <2>1. PICK file \in Importable : Edit(t, parseConfig(file))
    BY <1>4 DEF Paste
  <2>. QED
    BY <1>2, <2>1, ParseType, EditKeeps DEF Fit
<1>5. CASE Pick(t)
  <2>1. picked' \in [Tabs -> {Nothing, Garbage} \cup File] /\ edits' \in Nat
    BY <1>2, <1>5 DEF Pick, IInv, TypeOK, Counted
  <2>. QED
    BY <1>5, <2>1 DEF Pick, IInv, TypeOK, AllFirst, DraftKept, FieldsInStep, Open,
       InStep
<1>6. CASE PickedRead(t)
  <2>1. /\ picked' \in [Tabs -> {Nothing, Garbage} \cup File]
        /\ exported' \in {Nothing} \cup File /\ edits' \in Nat
    BY <1>6 DEF PickedRead, IInv, TypeOK
  <2>2. /\ field[t] \in NumberFields
        /\ InStep(field[t], config[t].tick_time)
    BY DEF IInv, TypeOK, NumberFields, FieldsInStep
  <2>3. CASE picked[t] # Garbage /\ Become(t, field[t], parseConfig(picked[t]))
    <3>1. picked[t] \in File
      BY <1>6, <2>3 DEF PickedRead, IInv, TypeOK
    <3>2. Fit(parseConfig(picked[t]))
      BY <3>1, ParseType DEF Fit
    <3>. QED
      BY <2>1, <2>2, <2>3, <3>2, BecomeKeeps
  <2>4. CASE UNCHANGED <<config, draft, field, lastEdit>>
    BY <2>1, <2>4 DEF IInv, TypeOK, AllFirst, DraftKept, FieldsInStep, Open, InStep
  <2>. QED
    BY <1>6, <2>3, <2>4 DEF PickedRead
<1>7. CASE Reset(t)
  BY <1>7, DefaultType, EditKeeps DEF Reset, Fit
<1>. QED
  BY <1>3, <1>4, <1>5, <1>6, <1>7

LEMMA StepInvariant == IInv /\ [Next]_vars => IInv'
<1>. SUFFICES ASSUME IInv, [Next]_vars PROVE IInv'
  OBVIOUS
<1>1. CASE UNCHANGED vars
  BY <1>1 DEF vars, IInv, TypeOK, AllFirst, DraftKept, FieldsInStep, Open, InStep
<1>2. ASSUME NEW t \in Tabs, Load(t)
      PROVE  IInv'
  BY <1>2, LoadKeeps
<1>3. ASSUME NEW t \in Tabs, Open(t),
             \/ EditServer(t) \/ EditTimes(t) \/ EditScoring(t)
             \/ EditMonitoring(t) \/ EditVulnboxes(t) \/ EditTeams(t)
             \/ EditTopology(t)
      PROVE  IInv'
  <2>1. Fit(config[t])
    BY <1>3 DEF IInv, TypeOK, AllFirst, Open, Fit
  <2>2. Edited(t)
    BY <1>3, <2>1, EditedFields, EditedTeams, EditedTopology
  <2>. QED
    BY <1>3, <2>2, EditKeeps DEF Edited
<1>. QED
  BY <1>1, <1>2, <1>3, NumberFieldKeeps, FilesKeep DEF Next

-----------------------------------------------------------------------------
(* Reading back what was kept.                                             *)

LEMMA NothingMissing ==
  ASSUME NEW value, value # Missing, NEW fallback
  PROVE  Given(value, fallback) = value
BY DEF Given

(* Parsing loses nothing of a node the editor made. *)
LEMMA NodeReadBack ==
  ASSUME NEW node \in Node
  PROVE  ParsedNode(node) = node
<1>1. /\ node.name \in Int /\ node.roles \in SUBSET Roles
      /\ node.address \in Texts /\ node.public_address \in Texts
      /\ node.ssh \in Texts /\ node.weight \in Int
      /\ node.checker_concurrency \in Int
      /\ node.teams \in SUBSET Ids /\ node.vm_teams \in SUBSET Ids
  BY DEF Node
<1>2. /\ node.roles # Missing /\ node.address # Missing
      /\ node.public_address # Missing /\ node.ssh # Missing
      /\ node.weight # Missing /\ node.checker_concurrency # Missing
      /\ node.teams # Missing /\ node.vm_teams # Missing
  BY <1>1, MissingAssumption
<1>3. ParsedNode(node) =
        [name |-> node.name, roles |-> node.roles, address |-> node.address,
         public_address |-> node.public_address, ssh |-> node.ssh,
         weight |-> node.weight,
         checker_concurrency |-> node.checker_concurrency,
         teams |-> node.teams, vm_teams |-> node.vm_teams]
  BY <1>2, NothingMissing DEF ParsedNode
<1>. QED
  BY <1>3 DEF Node

LEMMA RolesReadBack ==
  ASSUME NEW node \in Node, NEW i, IsControl(node) <=> i = 1
  PROVE  OwnRoles(node, i) = node
<1>1. CASE i = 1
  <2>1. node.roles \cup {"control"} = node.roles
    BY <1>1 DEF IsControl
  <2>. QED
    BY <1>1, <2>1 DEF OwnRoles, Node
<1>2. CASE i # 1
  <2>1. node.roles \ {"control"} = node.roles
    BY <1>2 DEF IsControl
  <2>. QED
    BY <1>2, <2>1 DEF OwnRoles, Node
<1>. QED
  BY <1>1, <1>2

(* A draft is read back as it was, but for texts that were left blank. *)
LEMMA ReadBack ==
  ASSUME NEW c, Fit(c)
  PROVE  parseConfig(c) = Cleaned(c)
<1>. DEFINE d == parseConfig(c)
            e == Cleaned(c)
<1>1. c \in Conf /\ c.nodes \in Seq(Node)
  BY DEF Fit, Conf
<1>2. d \in Conf
  BY <1>1, ConfIsFile, ParseType
<1>3. /\ NullIfBlank(c.exposed) \in {Null} \cup Texts
      /\ NullIfBlank(c.max_disk_size) \in {Null} \cup Texts
  BY <1>1 DEF Conf, NullIfBlank
<1>4. e \in Conf
  BY <1>1, <1>3 DEF Cleaned, Conf
<1>5. /\ e.server_addr = c.server_addr /\ e.tick_time = c.tick_time
      /\ e.submission_timeout = c.submission_timeout
      /\ e.exposed = NullIfBlank(c.exposed) /\ e.start_time = c.start_time
      /\ e.vm_mode = c.vm_mode /\ e.max_disk_size = NullIfBlank(c.max_disk_size)
      /\ e.monitor = c.monitor /\ e.pcap = c.pcap
      /\ e.pcap_max_size = c.pcap_max_size
      /\ e.teams = c.teams /\ e.nodes = c.nodes
  BY <1>1 DEF Cleaned, Conf
<1>6. /\ c.server_addr # Missing /\ c.tick_time # Missing
      /\ c.submission_timeout # Missing /\ c.monitor # Missing
      /\ c.pcap # Missing /\ c.pcap_max_size # Missing /\ c.teams # Missing
  BY <1>1, MissingAssumption DEF Conf
<1>7. c.nodes # Missing
  <2>1. c.nodes \in Seq(Entry \cup Node)
    BY <1>1
  <2>. QED
    BY <2>1, MissingAssumption
<1>8. d.nodes = c.nodes
  <2>1. Given(c.nodes, <<>>) = c.nodes
    BY <1>7, NothingMissing
  <2>2. \A i \in DOMAIN c.nodes : OwnRoles(ParsedNode(c.nodes[i]), i) = c.nodes[i]
    BY <1>1, NodeReadBack, RolesReadBack DEF Fit, ControlFirst
  <2>3. d.nodes = [i \in DOMAIN c.nodes |-> OwnRoles(ParsedNode(c.nodes[i]), i)]
    BY <2>1 DEF parseConfig, EntriesOf
  <2>. QED
    BY <1>1, <2>2, <2>3
<1>9. NullIfBlank(c.start_time) = c.start_time
  <2>1. c.start_time \in {Null} \cup (Texts \ {Blank, Spaces})
    BY <1>1 DEF Conf
  <2>. QED
    BY <2>1, MissingAssumption DEF NullIfBlank
<1>10. /\ d.server_addr = c.server_addr /\ d.tick_time = c.tick_time
       /\ d.submission_timeout = c.submission_timeout
       /\ d.exposed = NullIfBlank(c.exposed) /\ d.start_time = c.start_time
       /\ d.vm_mode = c.vm_mode /\ d.max_disk_size = NullIfBlank(c.max_disk_size)
       /\ d.monitor = c.monitor /\ d.pcap = c.pcap
       /\ d.pcap_max_size = c.pcap_max_size /\ d.teams = c.teams
  <2>1. c.vm_mode \in {"incus", "none"}
    BY <1>1 DEF Conf
  <2>. QED
    BY <1>6, <1>9, <2>1, NothingMissing DEF parseConfig, LimitOf
<1>. HIDE DEF d, e
<1>11. d = e
  BY <1>2, <1>4, <1>5, <1>8, <1>10 DEF Conf
<1>. QED
  BY <1>11 DEF d, e

-----------------------------------------------------------------------------
(* What run.py reads in the file the editor writes.                        *)

ReadNode(entry) ==
  [ParsedNode(entry) EXCEPT !.public_address = Given(entry.public_address, Blank)]

LEMMA FilledType ==
  ASSUME NEW node \in Node
  PROVE  /\ Filled(node) \in Node
         /\ Filled(node).name = node.name
         /\ Filled(node).roles = IF node.roles = {} THEN ALL_ROLES ELSE node.roles
         /\ Filled(node).address = node.address
         /\ Filled(node).public_address = IF node.public_address = Blank
                                          THEN node.address ELSE node.public_address
         /\ Filled(node).ssh = node.ssh
         /\ Filled(node).weight = node.weight
         /\ Filled(node).checker_concurrency = node.checker_concurrency
         /\ Filled(node).teams = node.teams
         /\ Filled(node).vm_teams = node.vm_teams
BY EditorAssumption DEF Filled, Node

(* Reading an entry gives the node back, but for a public address that is  *)
(* the address.                                                            *)
LEMMA EntryParsed ==
  ASSUME NEW node \in Node
  PROVE  LET p == ParsedNode(NodeEntry(node))
         IN  /\ p \in Node
             /\ p.name = node.name /\ p.roles = node.roles
             /\ p.address = node.address /\ p.ssh = node.ssh
             /\ p.weight = node.weight
             /\ p.checker_concurrency = node.checker_concurrency
             /\ p.teams = node.teams /\ p.vm_teams = node.vm_teams
             /\ p.public_address = IF node.public_address # Blank
                                   THEN node.public_address ELSE node.address
<1>. DEFINE e == NodeEntry(node)
            p == ParsedNode(e)
<1>1. p \in Node
  BY NodeEntryType, ParsedNodeType
<1>2. /\ node.roles # Missing /\ node.address # Missing
      /\ node.public_address # Missing /\ node.ssh # Missing
      /\ node.weight # Missing /\ node.checker_concurrency # Missing
      /\ node.teams # Missing /\ node.vm_teams # Missing
  BY MissingAssumption DEF Node
<1>3. ~(node.checker_concurrency > 0) => node.checker_concurrency = 0
  BY DEF Node
<1>4. Given(e.roles, ALL_ROLES) = node.roles /\ Given(e.address, Blank) = node.address
  BY <1>2 DEF NodeEntry, Given
<1>5. /\ Given(e.ssh, Blank) = node.ssh /\ Given(e.weight, 1) = node.weight
      /\ Given(e.checker_concurrency, 0) = node.checker_concurrency
      /\ Given(e.teams, {}) = node.teams /\ Given(e.vm_teams, {}) = node.vm_teams
  BY <1>2, <1>3 DEF NodeEntry, Given, WrittenIf
<1>6. Given(e.public_address, node.address) =
        IF node.public_address # Blank THEN node.public_address ELSE node.address
  BY <1>2 DEF NodeEntry, Given, WrittenIf
<1>7. e.name = node.name
  BY DEF NodeEntry
<1>. HIDE DEF e
<1>8. /\ p.name = node.name /\ p.roles = node.roles
      /\ p.address = node.address /\ p.ssh = node.ssh
      /\ p.weight = node.weight
      /\ p.checker_concurrency = node.checker_concurrency
      /\ p.teams = node.teams /\ p.vm_teams = node.vm_teams
      /\ p.public_address = IF node.public_address # Blank
                            THEN node.public_address ELSE node.address
  BY <1>4, <1>5, <1>6, <1>7 DEF ParsedNode
<1>. HIDE DEF p
<1>. QED
  BY <1>1, <1>8 DEF p, e

LEMMA SameNodeFilled ==
  ASSUME NEW n \in Node, NEW m \in Node,
         n.name = m.name, n.roles = m.roles, n.address = m.address,
         n.ssh = m.ssh, n.weight = m.weight,
         n.checker_concurrency = m.checker_concurrency,
         n.teams = m.teams, n.vm_teams = m.vm_teams,
         (IF n.public_address = Blank THEN n.address ELSE n.public_address)
         = (IF m.public_address = Blank THEN m.address ELSE m.public_address)
  PROVE  Filled(n) = Filled(m)
<1>1. /\ Filled(n) \in Node /\ Filled(m) \in Node
      /\ Filled(n).name = Filled(m).name
      /\ Filled(n).roles = Filled(m).roles
      /\ Filled(n).address = Filled(m).address
      /\ Filled(n).public_address = Filled(m).public_address
      /\ Filled(n).ssh = Filled(m).ssh
      /\ Filled(n).weight = Filled(m).weight
      /\ Filled(n).checker_concurrency = Filled(m).checker_concurrency
      /\ Filled(n).teams = Filled(m).teams
      /\ Filled(n).vm_teams = Filled(m).vm_teams
  BY FilledType
<1>. QED
  BY <1>1 DEF Node

(* Whatever the file leaves out of a node is filled in alike by run.py.    *)
LEMMA NodeWritten ==
  ASSUME NEW node \in Node
  PROVE  Filled(ReadNode(NodeEntry(node))) = Filled(node)
<1>. DEFINE e == NodeEntry(node)
            p == ParsedNode(e)
            r == ReadNode(e)
<1>1. e \in Entry /\ p \in Node
  BY NodeEntryType, ParsedNodeType
<1>2. Given(e.public_address, Blank) \in Texts
  BY <1>1, BlankIsText, GivenType DEF Entry
<1>3. /\ r \in Node
      /\ r.name = p.name /\ r.roles = p.roles /\ r.address = p.address
      /\ r.ssh = p.ssh /\ r.weight = p.weight
      /\ r.checker_concurrency = p.checker_concurrency
      /\ r.teams = p.teams /\ r.vm_teams = p.vm_teams
      /\ r.public_address = Given(e.public_address, Blank)
  BY <1>1, <1>2 DEF ReadNode, Node
<1>4. node.public_address # Missing
  BY MissingAssumption DEF Node
<1>5. r.public_address =
        IF node.public_address # Blank /\ node.public_address # node.address
        THEN node.public_address ELSE Blank
  BY <1>3, <1>4 DEF NodeEntry, Given, WrittenIf
<1>. HIDE DEF e, p, r
<1>6. Filled(r) = Filled(node)
  <2>1. /\ r.name = node.name /\ r.roles = node.roles /\ r.address = node.address
        /\ r.ssh = node.ssh /\ r.weight = node.weight
        /\ r.checker_concurrency = node.checker_concurrency
        /\ r.teams = node.teams /\ r.vm_teams = node.vm_teams
    BY <1>3, EntryParsed DEF p, e
  <2>. QED
    BY <1>3, <1>5, <2>1, SameNodeFilled
<1>. QED
  BY <1>6 DEF e, r

(* The editor reads back what it wrote, too.                               *)
LEMMA NodeImported ==
  ASSUME NEW node \in Node, NEW i, IsControl(node) <=> i = 1
  PROVE  /\ OwnRoles(ParsedNode(NodeEntry(node)), i) \in Node
         /\ Filled(OwnRoles(ParsedNode(NodeEntry(node)), i)) = Filled(node)
<1>. DEFINE p == ParsedNode(NodeEntry(node))
<1>1. /\ p \in Node
      /\ p.name = node.name /\ p.roles = node.roles
      /\ p.address = node.address /\ p.ssh = node.ssh
      /\ p.weight = node.weight
      /\ p.checker_concurrency = node.checker_concurrency
      /\ p.teams = node.teams /\ p.vm_teams = node.vm_teams
      /\ p.public_address = IF node.public_address # Blank
                            THEN node.public_address ELSE node.address
  BY EntryParsed
<1>. HIDE DEF p
<1>2. OwnRoles(p, i) = p
  BY <1>1, RolesReadBack DEF IsControl
<1>3. Filled(p) = Filled(node)
  BY <1>1, SameNodeFilled
<1>. QED
  BY <1>1, <1>2, <1>3 DEF p

(* The nodes of a file the editor writes.                                  *)
LEMMA EntriesWritten ==
  ASSUME NEW c \in Conf
  PROVE  LET list == [i \in DOMAIN c.nodes |-> NodeEntry(c.nodes[i])]
         IN  EntriesOf(serializeConfig(c)) = list /\ list \in Seq(Entry)
<1>. DEFINE list == [i \in DOMAIN c.nodes |-> NodeEntry(c.nodes[i])]
            f == serializeConfig(c)
<1>1. f.nodes = WrittenIf(c.nodes # <<>>, list)
  BY DEF serializeConfig, Conf
<1>2. c.nodes \in Seq(Node) /\ list \in Seq(Entry)
  BY NodeEntryType DEF Conf
<1>. HIDE DEF f
<1>3. CASE c.nodes = <<>>
  <2>1. f.nodes = Missing
    BY <1>1, <1>3 DEF WrittenIf
  <2>2. list = <<>>
    BY <1>2, <1>3
  <2>. QED
    BY <1>2, <2>1, <2>2 DEF Given, EntriesOf, f
<1>4. CASE c.nodes # <<>>
  <2>1. f.nodes = list
    BY <1>1, <1>4 DEF WrittenIf
  <2>2. list \in Seq(Entry \cup Node)
    BY <1>2
  <2>3. list # Missing
    BY <2>2, MissingAssumption
  <2>. QED
    BY <1>2, <2>1, <2>3, NothingMissing DEF EntriesOf, f
<1>. QED
  BY <1>3, <1>4

LEMMA FileWritten ==
  ASSUME NEW c \in Conf
  PROVE  LET d == from_dict(serializeConfig(c))
         IN  /\ d.server_addr = c.server_addr
             /\ d.teams = c.teams
             /\ DOMAIN d.nodes = DOMAIN c.nodes
             /\ c.nodes = <<>> <=> d.nodes = <<>>
             /\ \A i \in DOMAIN c.nodes : d.nodes[i] = ReadNode(NodeEntry(c.nodes[i]))
<1>. DEFINE f == serializeConfig(c)
            d == from_dict(f)
            list == [i \in DOMAIN c.nodes |-> NodeEntry(c.nodes[i])]
<1>1. f.server_addr = c.server_addr /\ f.teams = c.teams
  BY DEF serializeConfig, Conf
<1>2. c.server_addr # Missing /\ c.teams # Missing
  BY MissingAssumption DEF Conf
<1>3. c.nodes \in Seq(Node)
  BY DEF Conf
<1>4. EntriesOf(f) = list /\ list \in Seq(Entry)
  BY EntriesWritten
<1>. HIDE DEF f
<1>5. /\ d.server_addr = c.server_addr /\ d.teams = c.teams
      /\ d.nodes = [i \in DOMAIN list |-> ReadNode(list[i])]
  <2>1. d.server_addr = Given(f.server_addr, Blank) /\ d.teams = Given(f.teams, <<>>)
    BY DEF from_dict
  <2>2. d.nodes = [i \in DOMAIN EntriesOf(f) |-> ReadNode(EntriesOf(f)[i])]
    BY DEF from_dict, ReadNode
  <2>. QED
    BY <1>1, <1>2, <1>4, <2>1, <2>2, NothingMissing
<1>. HIDE DEF d
<1>6. c.nodes = <<>> <=> DOMAIN c.nodes = {}
  <2>1. ASSUME NEW T, NEW s \in Seq(T)
        PROVE  s = <<>> <=> DOMAIN s = {}
    OBVIOUS
  <2>. QED
    BY <1>3, <2>1
<1>7. d.nodes = <<>> <=> DOMAIN d.nodes = {}
  <2>. DEFINE S == {ReadNode(list[i]) : i \in DOMAIN list}
  <2>1. Len(list) \in Nat /\ DOMAIN list = 1..Len(list)
    BY <1>4
  <2>. HIDE DEF list
  <2>2. \A i \in 1..Len(list) : ReadNode(list[i]) \in S
    BY <2>1
  <2>. HIDE DEF S
  <2>3. d.nodes \in Seq(S)
    BY <1>5, <2>1, <2>2
  <2>4. ASSUME NEW T, NEW s \in Seq(T)
        PROVE  s = <<>> <=> DOMAIN s = {}
    OBVIOUS
  <2>. QED
    BY <2>3, <2>4
<1>. QED
  BY <1>5, <1>6, <1>7 DEF d, f

-----------------------------------------------------------------------------
(* The machines, as they are previewed and as they are deployed.           *)

LEMMA MachinesPreviewed ==
  ASSUME NEW c, Fit(c), Routerless(c)
  PROVE  /\ effectiveNodes(c) \in Seq(Node)
         /\ \A i \in DOMAIN effectiveNodes(c) : "router" \notin effectiveNodes(c)[i].roles
         /\ c.nodes # <<>> =>
              effectiveNodes(c) = [i \in DOMAIN c.nodes |-> Filled(c.nodes[i])]
<1>. DEFINE nodes == [i \in DOMAIN c.nodes |-> Filled(c.nodes[i])]
<1>1. c \in Conf /\ c.nodes \in Seq(Node)
  BY DEF Fit, Conf
<1>2. ASSUME c.nodes = <<>>
      PROVE  /\ effectiveNodes(c) \in Seq(Node)
             /\ \A i \in DOMAIN effectiveNodes(c) :
                  "router" \notin effectiveNodes(c)[i].roles
  <2>1. Main(c) \in Node /\ "router" \notin Main(c).roles
    BY <1>1, EditorAssumption, BlankIsText DEF Main, MainName, ALL_ROLES, Conf, Node
  <2>2. effectiveNodes(c) = <<Main(c)>>
    BY <1>2 DEF effectiveNodes
  <2>. QED
    BY <2>1, <2>2
<1>3. ASSUME c.nodes # <<>>
      PROVE  effectiveNodes(c) = nodes
  <2>1. 1 \in DOMAIN c.nodes
    BY <1>1, <1>3
  <2>2. IsControl(c.nodes[1]) /\ c.nodes[1] \in Node
    BY <1>1, <2>1 DEF Fit, ControlFirst
  <2>3. IsControl(nodes[1]) /\ 1 \in DOMAIN nodes
    BY <2>1, <2>2, FilledType DEF IsControl
  <2>. HIDE DEF nodes
  <2>4. WithControl(nodes) = nodes
    BY <2>3 DEF WithControl
  <2>. QED
    BY <1>3, <2>4 DEF effectiveNodes, nodes
<1>4. nodes \in Seq(Node) /\ \A i \in DOMAIN nodes : "router" \notin nodes[i].roles
  <2>1. ASSUME NEW i \in DOMAIN c.nodes
        PROVE  Filled(c.nodes[i]) \in Node /\ "router" \notin Filled(c.nodes[i]).roles
    <3>1. c.nodes[i] \in Node /\ "router" \notin c.nodes[i].roles
      BY <1>1 DEF Routerless
    <3>. QED
      BY <3>1, FilledType DEF ALL_ROLES
  <2>. QED
    BY <1>1, <2>1
<1>. QED
  BY <1>2, <1>3, <1>4

LEMMA MachinesDeployed ==
  ASSUME NEW c, Fit(c), Routerless(c)
  PROVE  effective_nodes(from_dict(serializeConfig(c)))
         = [i \in DOMAIN effectiveNodes(c) |-> WithRouter(effectiveNodes(c)[i])]
<1>. DEFINE d == from_dict(serializeConfig(c))
            nodes == effectiveNodes(c)
<1>1. c \in Conf /\ c.nodes \in Seq(Node)
  BY DEF Fit, Conf
<1>2. /\ d.server_addr = c.server_addr
      /\ DOMAIN d.nodes = DOMAIN c.nodes
      /\ c.nodes = <<>> <=> d.nodes = <<>>
      /\ \A i \in DOMAIN c.nodes : d.nodes[i] = ReadNode(NodeEntry(c.nodes[i]))
  BY <1>1, FileWritten
<1>. HIDE DEF d
<1>3. CASE c.nodes = <<>>
  <2>1. effective_nodes(d) = <<Main(d)>> /\ nodes = <<Main(c)>>
    BY <1>2, <1>3 DEF effective_nodes, effectiveNodes
  <2>2. Main(d) = Main(c)
    BY <1>2 DEF Main
  <2>3. WithRouter(Main(c)) = Main(c)
    <3>1. "vpn" \in Main(c).roles
      BY DEF Main, ALL_ROLES
    <3>. QED
      BY <3>1 DEF WithRouter
  <2>. QED
    BY <2>1, <2>2, <2>3 DEF d
<1>4. CASE c.nodes # <<>>
  <2>. DEFINE list == [i \in DOMAIN d.nodes |-> Filled(d.nodes[i])]
  <2>1. nodes = [i \in DOMAIN c.nodes |-> Filled(c.nodes[i])]
    BY <1>4, MachinesPreviewed
  <2>2. list = nodes
    BY <1>1, <1>2, <2>1, NodeWritten
  <2>3. WithControl(list) = list
    <3>1. 1 \in DOMAIN c.nodes
      BY <1>1, <1>4
    <3>2. IsControl(c.nodes[1]) /\ c.nodes[1] \in Node
      BY <1>1, <3>1 DEF Fit, ControlFirst
    <3>3. IsControl(nodes[1]) /\ 1 \in DOMAIN nodes
      BY <2>1, <3>1, <3>2, FilledType DEF IsControl
    <3>. HIDE DEF list
    <3>. QED
      BY <2>2, <3>3 DEF WithControl
  <2>4. effective_nodes(d) =
          [i \in DOMAIN WithControl(list) |-> WithRouter(WithControl(list)[i])]
    BY <1>2, <1>4 DEF effective_nodes
  <2>. HIDE DEF list
  <2>. QED
    BY <2>2, <2>3, <2>4 DEF d
<1>. QED
  BY <1>3, <1>4

LEMMA RouterAdded ==
  ASSUME NEW node \in Node, "router" \notin node.roles
  PROVE  LET r == WithRouter(node)
         IN  /\ r.name = node.name /\ r.weight = node.weight
             /\ r.teams = node.teams /\ r.vm_teams = node.vm_teams
             /\ r.public_address = node.public_address
             /\ \A role \in {"vpn", "vm"} : role \in r.roles <=> hasRole(node, role)
BY DEF WithRouter, Node, hasRole

(* The preview of a configuration without a router node, and what run.py   *)
(* does with the file the editor makes of it.                              *)
LEMMA SameDistribution ==
  ASSUME NEW c, Fit(c), Routerless(c)
  PROVE  topologySummary(c) = nodes_payload(from_dict(serializeConfig(c)))
<1>. DEFINE d == from_dict(serializeConfig(c))
            nodes == effectiveNodes(c)
            machines == effective_nodes(d)
<1>1. d.teams = c.teams
  BY FileWritten DEF Fit
<1>2. machines = [i \in DOMAIN nodes |-> WithRouter(nodes[i])]
  BY MachinesDeployed
<1>3. ASSUME NEW i \in DOMAIN nodes
      PROVE  nodes[i] \in Node /\ "router" \notin nodes[i].roles
  BY MachinesPreviewed
<1>. HIDE DEF d, nodes, machines
<1>4. /\ DOMAIN machines = DOMAIN nodes
      /\ \A i \in DOMAIN nodes :
           /\ machines[i].name = nodes[i].name
           /\ machines[i].weight = nodes[i].weight
           /\ machines[i].teams = nodes[i].teams
           /\ machines[i].vm_teams = nodes[i].vm_teams
           /\ machines[i].public_address = nodes[i].public_address
           /\ \A role \in {"vpn", "vm"} :
                role \in machines[i].roles <=> hasRole(nodes[i], role)
  BY <1>2, <1>3, RouterAdded
<1>5. Places(machines) = Places(nodes)
  BY <1>4 DEF Places
<1>6. ASSUME NEW role \in {"vpn", "vm"}
      PROVE  assign_teams(d, role) = assignTeams(c, role)
  <2>1. {i \in DOMAIN machines : role \in machines[i].roles} = holders(c, role)
    BY <1>4 DEF holders, nodes
  <2>2. assign_teams(d, role) =
          AssignAmong(Places(machines), d.teams,
                      {i \in DOMAIN machines : role \in machines[i].roles}, role)
    BY DEF assign_teams, machines
  <2>3. assignTeams(c, role) = AssignAmong(Places(nodes), c.teams, holders(c, role), role)
    BY DEF assignTeams, nodes
  <2>. QED
    BY <1>1, <1>5, <2>1, <2>2, <2>3
<1>. DEFINE vpn == assignTeams(c, "vpn")
            vm == assignTeams(c, "vm")
<1>7. assign_teams(d, "vpn") = vpn /\ assign_teams(d, "vm") = vm
  BY <1>6
<1>. HIDE DEF vpn, vm
<1>8. nodes_payload(d) =
        [i \in DOMAIN machines |->
           [name |-> machines[i].name, address |-> machines[i].public_address,
            vpnTeams |-> TeamsAt(vpn, machines[i].name),
            vmTeams |-> TeamsAt(vm, machines[i].name)]]
  BY <1>7 DEF nodes_payload, machines
<1>9. topologySummary(c) =
        [i \in DOMAIN nodes |->
           [name |-> nodes[i].name, address |-> nodes[i].public_address,
            vpnTeams |-> TeamsAt(vpn, nodes[i].name),
            vmTeams |-> TeamsAt(vm, nodes[i].name)]]
  BY DEF topologySummary, nodes, vpn, vm
<1>10. nodes_payload(d) = topologySummary(c)
  BY <1>4, <1>8, <1>9
<1>. QED
  BY <1>10 DEF d

-----------------------------------------------------------------------------
(* A file that goes through the editor.                                    *)

LEMMA SameMachines ==
  ASSUME NEW c, NEW d, c.server_addr = d.server_addr,
         c.nodes = <<>> <=> d.nodes = <<>>, DOMAIN c.nodes = DOMAIN d.nodes,
         \A i \in DOMAIN c.nodes : Filled(c.nodes[i]) = Filled(d.nodes[i])
  PROVE  effective_nodes(c) = effective_nodes(d)
<1>. DEFINE filled(x) == [i \in DOMAIN x.nodes |-> Filled(x.nodes[i])]
<1>1. filled(c) = filled(d)
  OBVIOUS
<1>2. Main(c) = Main(d)
  BY DEF Main
<1>3. \A x : effective_nodes(x) =
        IF x.nodes = <<>> THEN <<Main(x)>>
        ELSE [i \in DOMAIN WithControl(filled(x)) |-> WithRouter(WithControl(filled(x))[i])]
  BY DEF effective_nodes
<1>. HIDE DEF filled
<1>. QED
  BY <1>1, <1>2, <1>3

LEMMA SamePayload ==
  ASSUME NEW c, NEW d, effective_nodes(c) = effective_nodes(d), c.teams = d.teams
  PROVE  nodes_payload(c) = nodes_payload(d)
BY DEF nodes_payload, assign_teams

(* What run.py reads is as good as the configuration itself.               *)
LEMMA PayloadOfFile ==
  ASSUME NEW c \in Conf
  PROVE  nodes_payload(from_dict(serializeConfig(c))) = nodes_payload(c)
<1>. DEFINE d == from_dict(serializeConfig(c))
<1>1. /\ d.server_addr = c.server_addr /\ d.teams = c.teams
      /\ DOMAIN d.nodes = DOMAIN c.nodes
      /\ c.nodes = <<>> <=> d.nodes = <<>>
      /\ \A i \in DOMAIN c.nodes : d.nodes[i] = ReadNode(NodeEntry(c.nodes[i]))
  BY FileWritten
<1>. HIDE DEF d
<1>2. \A i \in DOMAIN c.nodes : Filled(d.nodes[i]) = Filled(c.nodes[i])
  <2>1. c.nodes \in Seq(Node)
    BY DEF Conf
  <2>. QED
    BY <1>1, <2>1, NodeWritten
<1>3. effective_nodes(d) = effective_nodes(c)
  BY <1>1, <1>2, SameMachines
<1>. QED
  BY <1>1, <1>3, SamePayload DEF d

LimitWritten(c) == IF c.vm_mode = "none" THEN Null ELSE c.max_disk_size

LEMMA SettingsWritten ==
  ASSUME NEW c \in Conf
  PROVE  LET f == serializeConfig(c)
         IN  /\ f.server_addr = c.server_addr /\ f.tick_time = c.tick_time
             /\ f.submission_timeout = c.submission_timeout
             /\ f.start_time = c.start_time /\ f.vm_mode = c.vm_mode
             /\ f.monitor = c.monitor /\ f.teams = c.teams
             /\ f.max_disk_size = LimitWritten(c)
             /\ f.nodes = WrittenIf(c.nodes # <<>>,
                            [i \in DOMAIN c.nodes |-> NodeEntry(c.nodes[i])])
BY DEF serializeConfig, Conf, LimitWritten

LEMMA SettingsPresent ==
  ASSUME NEW c \in Conf
  PROVE  /\ c.server_addr # Missing /\ c.tick_time # Missing
         /\ c.submission_timeout # Missing /\ c.start_time # Missing
         /\ c.vm_mode # Missing /\ c.monitor # Missing /\ c.teams # Missing
         /\ LimitWritten(c) # Missing
         /\ c.start_time # Blank /\ c.vm_mode \in {"incus", "none"}
         /\ LimitWritten(c) \in {Null} \cup Texts
<1>1. /\ c.server_addr \in Texts /\ c.tick_time \in Int
      /\ c.submission_timeout \in {Null} \cup Int
      /\ c.start_time \in {Null} \cup (Texts \ {Blank, Spaces})
      /\ c.vm_mode \in {"incus", "none"} /\ c.monitor \in BOOLEAN
      /\ c.teams \in Seq(Team) /\ c.max_disk_size \in {Null} \cup Texts
  BY DEF Conf
<1>2. {"incus", "none", Blank} \subseteq Texts
  BY EditorAssumption
<1>3. LimitWritten(c) \in {Null} \cup Texts
  BY <1>1 DEF LimitWritten
<1>4. c.start_time # Blank
  BY <1>1, <1>2, MissingAssumption
<1>. QED
  BY <1>1, <1>2, <1>3, <1>4, MissingAssumption

LEMMA SettingsRead ==
  ASSUME NEW c \in Conf
  PROVE  LET d == from_dict(serializeConfig(c))
         IN  /\ d.server_addr = c.server_addr /\ d.tick_time = c.tick_time
             /\ d.submission_timeout = c.submission_timeout
             /\ d.start_time = c.start_time /\ d.vm_mode = c.vm_mode
             /\ d.monitor = c.monitor /\ d.teams = c.teams
             /\ d.max_disk_size = LimitWritten(c)
<1>. DEFINE f == serializeConfig(c)
<1>1. /\ f.server_addr = c.server_addr /\ f.tick_time = c.tick_time
      /\ f.submission_timeout = c.submission_timeout
      /\ f.start_time = c.start_time /\ f.vm_mode = c.vm_mode
      /\ f.monitor = c.monitor /\ f.teams = c.teams
      /\ f.max_disk_size = LimitWritten(c)
  BY SettingsWritten
<1>. HIDE DEF f
<1>. DEFINE d == from_dict(f)
<1>2. /\ d.server_addr = Given(f.server_addr, Blank)
      /\ d.tick_time = Given(f.tick_time, 120)
      /\ d.submission_timeout = Given(f.submission_timeout, 30)
      /\ d.start_time = Given(f.start_time, Null)
      /\ d.vm_mode = Given(f.vm_mode, "incus")
      /\ d.monitor = Given(f.monitor, TRUE)
      /\ d.teams = Given(f.teams, <<>>)
      /\ d.max_disk_size = Given(f.max_disk_size, Null)
  BY DEF from_dict
<1>3. /\ c.server_addr # Missing /\ c.tick_time # Missing
      /\ c.submission_timeout # Missing /\ c.start_time # Missing
      /\ c.vm_mode # Missing /\ c.monitor # Missing /\ c.teams # Missing
      /\ LimitWritten(c) # Missing
  BY SettingsPresent
<1>. HIDE DEF d
<1>4. /\ d.server_addr = c.server_addr /\ d.tick_time = c.tick_time
      /\ d.submission_timeout = c.submission_timeout
      /\ d.start_time = c.start_time /\ d.vm_mode = c.vm_mode
      /\ d.monitor = c.monitor /\ d.teams = c.teams
      /\ d.max_disk_size = LimitWritten(c)
  BY <1>1, <1>2, <1>3 DEF Given
<1>. QED
  BY <1>4 DEF d, f

(* What run.py reads of a file the editor can hold is what the editor has  *)
(* when it has imported it.                                                *)
LEMMA EntryImported ==
  ASSUME NEW entry \in Entry, NEW i,
         "control" \in Given(entry.roles, ALL_ROLES) <=> i = 1
  PROVE  Filled(OwnRoles(ParsedNode(entry), i)) = Filled(ReadNode(entry))
<1>. DEFINE p == ParsedNode(entry)
            r == ReadNode(entry)
<1>1. p \in Node
  BY ParsedNodeType
<1>2. /\ p.roles = Given(entry.roles, ALL_ROLES) /\ p.address = Given(entry.address, Blank)
      /\ p.public_address = Given(entry.public_address, p.address)
  BY DEF ParsedNode
<1>3. Given(entry.public_address, Blank) \in Texts
  BY BlankIsText, GivenType DEF Entry
<1>. HIDE DEF p
<1>4. /\ r \in Node
      /\ r.name = p.name /\ r.roles = p.roles /\ r.address = p.address
      /\ r.ssh = p.ssh /\ r.weight = p.weight
      /\ r.checker_concurrency = p.checker_concurrency
      /\ r.teams = p.teams /\ r.vm_teams = p.vm_teams
      /\ r.public_address = Given(entry.public_address, Blank)
  <2>1. r = [p EXCEPT !.public_address = Given(entry.public_address, Blank)]
    BY DEF ReadNode, p
  <2>. QED
    BY <1>1, <1>3, <2>1 DEF Node
<1>. HIDE DEF r
<1>5. OwnRoles(p, i) = p
  BY <1>1, <1>2, RolesReadBack DEF IsControl
<1>6. Filled(p) = Filled(r)
  <2>1. (IF p.public_address = Blank THEN p.address ELSE p.public_address)
        = (IF r.public_address = Blank THEN r.address ELSE r.public_address)
    BY <1>2, <1>4 DEF Given
  <2>. QED
    BY <1>1, <1>4, <2>1, SameNodeFilled
<1>. QED
  BY <1>5, <1>6 DEF p, r

LEMMA FileImported ==
  ASSUME NEW file \in File, EntriesOf(file) \in Seq(Entry), EditorCanHold(file)
  PROVE  LET c == parseConfig(file)
             d == from_dict(file)
         IN  /\ c.server_addr = d.server_addr /\ c.tick_time = d.tick_time
             /\ c.submission_timeout = d.submission_timeout
             /\ c.start_time = d.start_time /\ c.vm_mode = d.vm_mode
             /\ c.monitor = d.monitor /\ c.teams = d.teams
             /\ c.max_disk_size = NullIfBlank(d.max_disk_size)
             /\ d.max_disk_size # Spaces /\ d.max_disk_size # Missing
             /\ DOMAIN c.nodes = DOMAIN EntriesOf(file)
             /\ nodes_payload(c) = nodes_payload(d)
<1>. DEFINE entries == EntriesOf(file)
            c == parseConfig(file)
            d == from_dict(file)
<1>1. /\ c.server_addr = Given(file.server_addr, Blank)
      /\ c.tick_time = Given(file.tick_time, Default.tick_time)
      /\ c.submission_timeout = LimitOf(file.submission_timeout)
      /\ c.start_time = NullIfBlank(file.start_time)
      /\ c.vm_mode = IF file.vm_mode \in {"incus", "none"} THEN file.vm_mode
                     ELSE Default.vm_mode
      /\ c.monitor = Given(file.monitor, TRUE) /\ c.teams = Given(file.teams, <<>>)
      /\ c.max_disk_size = NullIfBlank(file.max_disk_size)
      /\ c.nodes = [i \in DOMAIN entries |-> OwnRoles(ParsedNode(entries[i]), i)]
  BY DEF parseConfig
<1>2. /\ d.server_addr = Given(file.server_addr, Blank)
      /\ d.tick_time = Given(file.tick_time, 120)
      /\ d.submission_timeout = Given(file.submission_timeout, 30)
      /\ d.start_time = Given(file.start_time, Null)
      /\ d.vm_mode = Given(file.vm_mode, "incus")
      /\ d.monitor = Given(file.monitor, TRUE) /\ d.teams = Given(file.teams, <<>>)
      /\ d.max_disk_size = Given(file.max_disk_size, Null)
  BY DEF from_dict
<1>3. d.nodes = [i \in DOMAIN entries |-> ReadNode(entries[i])]
  BY DEF from_dict, ReadNode
<1>4. c \in Conf
  BY ParseType
<1>5. /\ file.vm_mode \in {Missing, "incus", "none"}
      /\ file.start_time \notin {Blank, Spaces} /\ file.max_disk_size # Spaces
      /\ \A i \in DOMAIN entries :
           "control" \in Given(entries[i].roles, ALL_ROLES) <=> i = 1
  BY DEF EditorCanHold
<1>6. /\ Missing \notin {Null, Blank, Spaces, "incus", "none"}
      /\ Null \notin {Blank, Spaces}
  BY EditorAssumption, MissingAssumption
<1>7. \A i \in DOMAIN entries : entries[i] \in Entry
  OBVIOUS
<1>. HIDE DEF c, d, entries
<1>8. /\ c.server_addr = d.server_addr /\ c.tick_time = d.tick_time
      /\ c.submission_timeout = d.submission_timeout
      /\ c.start_time = d.start_time /\ c.vm_mode = d.vm_mode
      /\ c.monitor = d.monitor /\ c.teams = d.teams
  BY <1>1, <1>2, <1>5, <1>6, DefaultFields DEF Given, LimitOf, NullIfBlank
<1>9. /\ c.max_disk_size = NullIfBlank(d.max_disk_size)
      /\ d.max_disk_size # Spaces /\ d.max_disk_size # Missing
  BY <1>1, <1>2, <1>5, <1>6 DEF Given, NullIfBlank
<1>10. DOMAIN c.nodes = DOMAIN entries /\ DOMAIN d.nodes = DOMAIN entries
  BY <1>1, <1>3
<1>11. \A i \in DOMAIN entries : Filled(c.nodes[i]) = Filled(d.nodes[i])
  BY <1>1, <1>3, <1>5, <1>7, EntryImported
<1>12. c.nodes = <<>> <=> d.nodes = <<>>
  <2>1. entries \in Seq(Entry)
    BY DEF entries
  <2>. DEFINE S == {ReadNode(entries[i]) : i \in DOMAIN entries}
  <2>2. Len(entries) \in Nat /\ DOMAIN entries = 1..Len(entries)
    BY <2>1
  <2>3. \A i \in 1..Len(entries) : ReadNode(entries[i]) \in S
    BY <2>2
  <2>. HIDE DEF S
  <2>4. d.nodes \in Seq(S)
    BY <1>3, <2>2, <2>3
  <2>5. c.nodes \in Seq(Node)
    BY <1>4 DEF Conf
  <2>6. ASSUME NEW T, NEW s \in Seq(T)
        PROVE  s = <<>> <=> DOMAIN s = {}
    OBVIOUS
  <2>. QED
    BY <1>10, <2>4, <2>5, <2>6
<1>13. nodes_payload(c) = nodes_payload(d)
  <2>1. effective_nodes(c) = effective_nodes(d)
    BY <1>8, <1>10, <1>11, <1>12, SameMachines
  <2>. QED
    BY <1>8, <2>1, SamePayload
<1>. QED
  BY <1>8, <1>9, <1>10, <1>13 DEF c, d, entries

LEMMA SameDeployment ==
  ASSUME NEW file \in File, EntriesOf(file) \in Seq(Entry), EditorCanHold(file)
  PROVE  Deployment(serializeConfig(parseConfig(file))) = Deployment(file)
<1>. DEFINE c == parseConfig(file)
            d == from_dict(file)
            again == serializeConfig(c)
            e == from_dict(again)
            entries == EntriesOf(file)
            anew == EntriesOf(again)
<1>1. c \in Conf /\ c.nodes \in Seq(Node)
  BY ParseType DEF Conf
<1>2. /\ c.server_addr = d.server_addr /\ c.tick_time = d.tick_time
      /\ c.submission_timeout = d.submission_timeout
      /\ c.start_time = d.start_time /\ c.vm_mode = d.vm_mode
      /\ c.monitor = d.monitor /\ c.teams = d.teams
      /\ c.max_disk_size = NullIfBlank(d.max_disk_size)
      /\ d.max_disk_size # Spaces /\ d.max_disk_size # Missing
      /\ DOMAIN c.nodes = DOMAIN entries
      /\ nodes_payload(c) = nodes_payload(d)
  BY FileImported
<1>3. /\ e.server_addr = c.server_addr /\ e.tick_time = c.tick_time
      /\ e.submission_timeout = c.submission_timeout
      /\ e.start_time = c.start_time /\ e.vm_mode = c.vm_mode
      /\ e.monitor = c.monitor /\ e.teams = c.teams
      /\ e.max_disk_size = LimitWritten(c)
  BY <1>1, SettingsRead
<1>4. nodes_payload(e) = nodes_payload(c)
  BY <1>1, PayloadOfFile
<1>5. anew = [i \in DOMAIN c.nodes |-> NodeEntry(c.nodes[i])]
  BY <1>1, EntriesWritten
<1>. HIDE DEF c, d, e
<1>6. \A i \in DOMAIN anew : anew[i].local = Missing /\ anew[i].wireguard_port = Missing
  BY <1>5 DEF NodeEntry
<1>7. \A i \in DOMAIN entries :
        entries[i].local \in {Missing, FALSE} /\ entries[i].wireguard_port = Missing
  BY DEF EditorCanHold
<1>8. DOMAIN anew = DOMAIN entries
  BY <1>2, <1>5
<1>. HIDE DEF again, anew, entries
<1>9. {i \in DOMAIN anew : anew[i].local = TRUE} = {i \in DOMAIN entries : entries[i].local = TRUE}
  <2>1. Missing # TRUE
    BY MissingAssumption
  <2>. QED
    BY <1>6, <1>7, <2>1
<1>10. [i \in DOMAIN anew |-> anew[i].wireguard_port]
       = [i \in DOMAIN entries |-> entries[i].wireguard_port]
  BY <1>6, <1>7, <1>8
<1>11. (IF e.vm_mode = "none" \/ e.max_disk_size = Blank THEN Null ELSE e.max_disk_size)
       = (IF d.vm_mode = "none" \/ d.max_disk_size = Blank THEN Null ELSE d.max_disk_size)
  <2>1. Null # Blank
    BY BlankIsText, MissingAssumption
  <2>. QED
    BY <1>2, <1>3, <2>1 DEF LimitWritten, NullIfBlank
<1>. QED
  BY <1>2, <1>3, <1>4, <1>9, <1>10, <1>11 DEF Deployment, d, e, entries, anew, again, c

-----------------------------------------------------------------------------
(* Every team on one machine.                                              *)

(* Of some numbers one is the least: what induction over the machines of a *)
(* list comes down to.                                                     *)
LEMMA LeastNumber ==
  ASSUME NEW T \in SUBSET Nat, T # {}
  PROVE  \E n \in T : \A m \in T : n <= m
<1>. DEFINE R == OpToRel(<, Nat)
<1>1. IsWellFoundedOn(R, Nat)
  BY NatLessThanWellFounded
<1>2. \A a \in Nat : \A b \in Nat : <<a, b>> \notin R => b <= a
  <2>1. \A a \in Nat : \A b \in Nat : a < b => <<a, b>> \in R
    BY DEF OpToRel
  <2>. HIDE DEF R
  <2>. QED
    BY <2>1
<1>. HIDE DEF R
<1>3. \E x \in T : \A y \in T : ~(<<y, x>> \in R)
  BY <1>1, WFMin
<1>. QED
  BY <1>2, <1>3

(* What assignTeams looks at of a machine. *)
Place == [name : Int, weight : Int, teams : SUBSET Ids, vm_teams : SUBSET Ids]

(* The slots up to a machine, given those up to the one before. *)
SlotsAt(nodes, S, f, i) ==
  IF i = 0 THEN 0 ELSE f[i - 1] + (IF i \in S THEN Weight(nodes[i]) ELSE 0)

LEMMA SlotsCounted ==
  ASSUME NEW nodes \in Seq(Place), NEW S \in SUBSET DOMAIN nodes
  PROVE  LET upTo == SlotsUpTo(nodes, S)
         IN  /\ upTo \in [0..Len(nodes) -> Nat]
             /\ \A i \in 0..Len(nodes) : upTo[i] = SlotsAt(nodes, S, upTo, i)
<1>. DEFINE n == Len(nodes)
            Counts(f, m) == /\ f \in [0..m -> Nat]
                            /\ \A i \in 0..m : f[i] = SlotsAt(nodes, S, f, i)
            upTo == SlotsUpTo(nodes, S)
<1>1. n \in Nat /\ \A i \in S : Weight(nodes[i]) \in Nat
  <2>1. ASSUME NEW i \in S
        PROVE  Weight(nodes[i]) \in Nat
    <3>1. nodes[i] \in Place
      OBVIOUS
    <3>. QED
      BY <3>1 DEF Weight, Place
  <2>. QED
    BY <2>1
<1>. DEFINE Step(h) == [i \in 0..n |-> IF i = 0 THEN 0
                          ELSE h[i - 1] + (IF i \in S THEN Weight(nodes[i]) ELSE 0)]
<1>2. upTo = CHOOSE h : h = Step(h)
  BY DEF SlotsUpTo
<1>. HIDE DEF n, upTo
<1>3. \E f : Counts(f, n)
  <2>. DEFINE T == {m \in Nat : m <= n /\ ~ \E f : Counts(f, m)}
  <2>. HIDE DEF Counts
  <2>. SUFFICES ASSUME ~ \E f : Counts(f, n)
                PROVE  FALSE
    OBVIOUS
  <2>1. PICK m \in T : \A k \in T : m <= k
    <3>1. T \in SUBSET Nat /\ n \in T
      BY <1>1
    <3>. HIDE DEF T
    <3>. QED
      BY <3>1, LeastNumber
  <2>2. m # 0
    <3>1. Counts([i \in 0..0 |-> 0], 0)
      BY DEF SlotsAt, Counts
    <3>. QED
      BY <3>1, <2>1
  <2>3. m \in Nat /\ m - 1 \in Nat /\ m - 1 <= n /\ m - 1 \notin T
    BY <1>1, <2>1, <2>2
  <2>4. PICK f : Counts(f, m - 1)
    BY <2>3
  <2>. DEFINE g == [i \in 0..m |-> IF i < m THEN f[i] ELSE SlotsAt(nodes, S, f, m)]
  <2>5. SlotsAt(nodes, S, f, m) \in Nat
    <3>1. f[m - 1] \in Nat
      BY <2>3, <2>4 DEF Counts
    <3>. QED
      BY <1>1, <2>2, <3>1 DEF SlotsAt
  <2>6. g \in [0..m -> Nat]
    <3>1. ASSUME NEW i \in 0..m, i < m
          PROVE  f[i] \in Nat
      BY <2>3, <2>4, <3>1 DEF Counts
    <3>. QED
      BY <2>5, <3>1
  <2>7. ASSUME NEW i \in 0..m
        PROVE  g[i] = SlotsAt(nodes, S, g, i)
    <3>1. i # 0 => g[i - 1] = f[i - 1]
      BY <2>3
    <3>2. g[i] = SlotsAt(nodes, S, f, i)
      <4>1. i < m => f[i] = SlotsAt(nodes, S, f, i)
        BY <2>3, <2>4 DEF Counts
      <4>. QED
        BY <2>3, <4>1
    <3>. HIDE DEF g
    <3>. QED
      BY <3>1, <3>2 DEF SlotsAt
  <2>8. Counts(g, m)
    BY <2>6, <2>7 DEF Counts
  <2>. QED
    BY <2>1, <2>8
<1>4. PICK f : Counts(f, n)
  BY <1>3
<1>5. f = Step(f)
  BY <1>4 DEF SlotsAt
<1>6. upTo = Step(upTo)
  <2>. HIDE DEF Step
  <2>. QED
    BY <1>2, <1>5
<1>7. /\ upTo = [i \in 0..n |-> upTo[i]]
      /\ \A i \in 0..n : upTo[i] = SlotsAt(nodes, S, upTo, i)
  BY <1>6 DEF SlotsAt
<1>8. \A i \in 0..n : upTo[i] = f[i]
  <2>. DEFINE T == {i \in Nat : i <= n /\ upTo[i] # f[i]}
  <2>. SUFFICES ASSUME T # {}
                PROVE  FALSE
    BY <1>1
  <2>1. PICK i \in T : \A k \in T : i <= k
    <3>1. T \in SUBSET Nat
      OBVIOUS
    <3>. HIDE DEF T
    <3>. QED
      BY <3>1, LeastNumber
  <2>2. i \in 0..n /\ upTo[i] # f[i]
    BY <1>1, <2>1
  <2>3. i # 0 => i - 1 \in 0..n /\ upTo[i - 1] = f[i - 1]
    BY <1>1, <2>1
  <2>. QED
    BY <1>4, <1>7, <2>2, <2>3 DEF SlotsAt
<1>9. upTo \in [0..n -> Nat]
  <2>1. \A i \in 0..n : f[i] \in Nat
    BY <1>4
  <2>. QED
    BY <1>7, <1>8, <2>1
<1>. QED
  BY <1>7, <1>9 DEF upTo, n

LEMMA SlotsGrow ==
  ASSUME NEW nodes \in Seq(Place), NEW S \in SUBSET DOMAIN nodes, S # {}
  PROVE  SlotsUpTo(nodes, S)[Len(nodes)] \in Nat \ {0}
<1>. DEFINE n == Len(nodes)
            upTo == SlotsUpTo(nodes, S)
<1>1. /\ upTo \in [0..n -> Nat]
      /\ \A i \in 0..n : upTo[i] = SlotsAt(nodes, S, upTo, i)
  BY SlotsCounted
<1>2. n \in Nat /\ S \subseteq 1..n
  OBVIOUS
<1>3. ASSUME NEW i \in S
      PROVE  Weight(nodes[i]) \in Nat \ {0}
  <2>1. nodes[i] \in Place
    OBVIOUS
  <2>. QED
    BY <2>1 DEF Weight, Place
<1>. HIDE DEF n, upTo
<1>4. PICK s : s \in S
  OBVIOUS
<1>5. upTo[s] > 0
  <2>1. s \in 0..n /\ s - 1 \in 0..n /\ s # 0
    BY <1>2, <1>4
  <2>2. upTo[s] = upTo[s - 1] + Weight(nodes[s]) /\ upTo[s - 1] \in Nat
    BY <1>1, <1>4, <2>1 DEF SlotsAt
  <2>. QED
    BY <1>3, <1>4, <2>2
<1>6. ASSUME upTo[n] = 0
      PROVE  FALSE
  <2>. DEFINE T == {i \in Nat : s <= i /\ i <= n /\ upTo[i] = 0}
  <2>1. PICK i \in T : \A k \in T : i <= k
    <3>1. T \in SUBSET Nat /\ n \in T
      BY <1>2, <1>4, <1>6
    <3>. HIDE DEF T
    <3>. QED
      BY <3>1, LeastNumber
  <2>2. /\ i \in 0..n /\ i - 1 \in 0..n /\ i # 0
        /\ upTo[i] = 0 /\ upTo[i - 1] # 0
    BY <1>2, <1>4, <1>5, <2>1
  <2>. QED
    BY <1>1, <1>3, <2>2 DEF SlotsAt
<1>. QED
  BY <1>1, <1>2, <1>6 DEF n, upTo

(* Every slot is the slot of one of the machines. *)
LEMMA SlotOwned ==
  ASSUME NEW nodes \in Seq(Place), NEW S \in SUBSET DOMAIN nodes,
         NEW k \in 0..SlotsUpTo(nodes, S)[Len(nodes)] - 1
  PROVE  \E i \in S : SlotName(nodes, S, k) = nodes[i].name
<1>. DEFINE n == Len(nodes)
            upTo == SlotsUpTo(nodes, S)
            Within(i) == upTo[i - 1] <= k /\ k < upTo[i]
<1>1. /\ upTo \in [0..n -> Nat]
      /\ \A i \in 0..n : upTo[i] = SlotsAt(nodes, S, upTo, i)
  BY SlotsCounted
<1>2. n \in Nat
  OBVIOUS
<1>3. k \in 0..upTo[n] - 1
  OBVIOUS
<1>4. SlotName(nodes, S, k) = nodes[CHOOSE i \in S : Within(i)].name
  BY DEF SlotName
<1>. HIDE DEF n, upTo
<1>5. \E i \in S : Within(i)
  <2>. DEFINE T == {i \in Nat : i <= n /\ k < upTo[i]}
  <2>1. PICK i \in T : \A j \in T : i <= j
    <3>1. T \in SUBSET Nat /\ n \in T
      BY <1>1, <1>2, <1>3
    <3>. HIDE DEF T
    <3>. QED
      BY <3>1, LeastNumber
  <2>2. i \in 0..n /\ k < upTo[i]
    BY <1>2, <2>1
  <2>3. i # 0
    BY <1>1, <1>3, <2>2 DEF SlotsAt
  <2>4. i - 1 \in 0..n /\ upTo[i - 1] <= k
    BY <1>1, <1>2, <1>3, <2>1, <2>2, <2>3
  <2>5. i \in S
    BY <1>1, <2>2, <2>3, <2>4 DEF SlotsAt
  <2>. QED
    BY <2>2, <2>4, <2>5
<1>. HIDE DEF Within
<1>6. (CHOOSE i \in S : Within(i)) \in S
  BY <1>5
<1>. QED
  BY <1>4, <1>6

(* No two names alike, no id used twice, no team pinned to two machines. *)
Unambiguous(nodes, S, teams, role) ==
  /\ nodes \in Seq(Place) /\ teams \in Seq(Team)
  /\ S \in SUBSET DOMAIN nodes /\ S # {}
  /\ \A i, j \in DOMAIN nodes : nodes[i].name = nodes[j].name => i = j
  /\ \A i, j \in DOMAIN teams : teams[i].id = teams[j].id => i = j
  /\ \A i, j \in S :
       i # j => PinnedTeams(nodes[i], role) \cap PinnedTeams(nodes[j], role) = {}

GivenOnce(nodes, S, teams, role, k) ==
  \E i \in DOMAIN nodes : \A j \in DOMAIN nodes :
    teams[k].id \in TeamsAt(AssignAmong(nodes, teams, S, role), nodes[j].name) <=> j = i

LEMMA EachGivenOnce ==
  ASSUME NEW nodes, NEW S, NEW teams, NEW role,
         Unambiguous(nodes, S, teams, role), NEW k \in DOMAIN teams
  PROVE  GivenOnce(nodes, S, teams, role, k)
<1>. /\ nodes \in Seq(Place) /\ teams \in Seq(Team)
     /\ S \in SUBSET DOMAIN nodes /\ S # {}
     /\ \A i, j \in DOMAIN nodes : nodes[i].name = nodes[j].name => i = j
     /\ \A i, j \in DOMAIN teams : teams[i].id = teams[j].id => i = j
     /\ \A i, j \in S :
          i # j => PinnedTeams(nodes[i], role) \cap PinnedTeams(nodes[j], role) = {}
  BY DEF Unambiguous
<1>. DEFINE id == teams[k].id
            pinned == Pinned(nodes, S, role)
            rest == Unpinned(teams, pinned)
            slots == SlotsUpTo(nodes, S)[Len(nodes)]
            turn(m) == Cardinality({j \in rest : j < m})
            owner(m) == SlotName(nodes, S, turn(m) % slots)
            given == AssignAmong(nodes, teams, S, role)
<1>1. /\ DOMAIN pinned = NamesOf(nodes, S)
      /\ \A i \in S : pinned[nodes[i].name] = PinnedTeams(nodes[i], role)
  <2>1. ASSUME NEW i \in S
        PROVE  EntryOf(nodes, S, nodes[i].name) = i
    BY DEF EntryOf
  <2>2. \A i \in S : nodes[i].name \in NamesOf(nodes, S)
    BY DEF NamesOf
  <2>. QED
    BY <2>1, <2>2 DEF Pinned
<1>2. given = [name \in DOMAIN pinned |->
                 pinned[name] \cup {teams[m].id : m \in {m \in rest : owner(m) = name}}]
  BY DEF AssignAmong
<1>3. rest = {m \in DOMAIN teams :
                teams[m].id \notin UNION {pinned[name] : name \in DOMAIN pinned}}
  BY DEF Unpinned
<1>4. k \in rest => \E i \in S : owner(k) = nodes[i].name
  <2>1. turn(k) \in Nat
    <3>1. IsFiniteSet(1..Len(teams))
      BY FS_Interval
    <3>2. {j \in rest : j < k} \subseteq 1..Len(teams)
      BY <1>3
    <3>. HIDE DEF rest
    <3>. QED
      BY <3>1, <3>2, FS_Subset, FS_CardinalityType
  <2>2. slots \in Nat \ {0}
    BY SlotsGrow
  <2>. HIDE DEF turn, slots
  <2>3. turn(k) % slots \in 0..slots - 1
    BY <2>1, <2>2
  <2>. QED
    BY <2>3, SlotOwned DEF slots
<1>. HIDE DEF pinned, rest, owner, given
<1>5. ASSUME NEW j \in DOMAIN nodes, j \notin S
      PROVE  TeamsAt(given, nodes[j].name) = {}
  <2>1. nodes[j].name \notin DOMAIN given
    BY <1>1, <1>2, <1>5 DEF NamesOf
  <2>. QED
    BY <2>1 DEF TeamsAt
<1>6. ASSUME NEW j \in S
      PROVE  id \in TeamsAt(given, nodes[j].name)
             <=> \/ id \in PinnedTeams(nodes[j], role)
                 \/ k \in rest /\ owner(k) = nodes[j].name
  <2>1. nodes[j].name \in DOMAIN pinned
    BY <1>1 DEF NamesOf
  <2>2. TeamsAt(given, nodes[j].name) =
          PinnedTeams(nodes[j], role)
          \cup {teams[m].id : m \in {m \in rest : owner(m) = nodes[j].name}}
    BY <1>1, <1>2, <2>1 DEF TeamsAt
  <2>3. \A m \in rest : teams[m].id = id => m = k
    BY <1>3
  <2>. QED
    BY <2>2, <2>3
<1>7. CASE \E i \in S : id \in PinnedTeams(nodes[i], role)
  <2>1. PICK i \in S : id \in PinnedTeams(nodes[i], role)
    BY <1>7
  <2>2. k \notin rest
    <3>1. nodes[i].name \in DOMAIN pinned /\ id \in pinned[nodes[i].name]
      BY <1>1, <2>1 DEF NamesOf
    <3>. QED
      BY <1>3, <3>1
  <2>3. \A j \in DOMAIN nodes : id \in TeamsAt(given, nodes[j].name) <=> j = i
    BY <1>5, <1>6, <2>1, <2>2
  <2>. QED
    BY <2>3 DEF given, GivenOnce
<1>8. CASE \A i \in S : id \notin PinnedTeams(nodes[i], role)
  <2>1. k \in rest
    <3>1. \A name \in DOMAIN pinned :
            \E i \in S : pinned[name] = PinnedTeams(nodes[i], role)
      BY <1>1 DEF NamesOf
    <3>2. \A name \in DOMAIN pinned : id \notin pinned[name]
      BY <1>8, <3>1
    <3>. QED
      BY <1>3, <3>2
  <2>2. PICK i \in S : owner(k) = nodes[i].name
    BY <1>4, <2>1
  <2>3. \A j \in DOMAIN nodes : id \in TeamsAt(given, nodes[j].name) <=> j = i
    BY <1>5, <1>6, <1>8, <2>1, <2>2
  <2>. QED
    BY <2>3 DEF given, GivenOnce
<1>. QED
  BY <1>7, <1>8

LEMMA NoWarning ==
  ASSUME NEW c, validateTopology(c) = {}
  PROVE  LET nodes == effectiveNodes(c)
         IN  /\ \A i, j \in DOMAIN nodes : nodes[i].name = nodes[j].name => i = j
             /\ \A i \in DOMAIN nodes :
                  nodes[i].address # Blank \/ nodes[i].public_address # Blank
             /\ holders(c, "vm") # {} => holders(c, "vpn") # {}
             /\ c.nodes # <<>> /\ c.teams # <<>> /\ c.vm_mode # "none" =>
                  \E name \in DOMAIN assignTeams(c, "vm") :
                    assignTeams(c, "vm")[name] # {}
BY DEF validateTopology, holders

(* A team with nobody to warn it is given to one machine, when there is    *)
(* one to give it to.                                                      *)
LEMMA PreviewedOnce ==
  ASSUME NEW c, Fit(c), Routerless(c), validateTopology(c) = {},
         NEW role, holders(c, role) # {}, PinnedOnce(c, role),
         \A i, j \in DOMAIN c.teams : c.teams[i].id = c.teams[j].id => i = j,
         NEW k \in DOMAIN c.teams
  PROVE  \E i \in DOMAIN effectiveNodes(c) : \A j \in DOMAIN effectiveNodes(c) :
           c.teams[k].id \in TeamsAt(assignTeams(c, role), effectiveNodes(c)[j].name)
           <=> j = i
<1>. DEFINE nodes == effectiveNodes(c)
            places == Places(nodes)
            S == holders(c, role)
<1>1. nodes \in Seq(Node) /\ c.teams \in Seq(Team)
  BY MachinesPreviewed DEF Fit, Conf
<1>2. S \subseteq DOMAIN nodes
  BY DEF holders
<1>3. assignTeams(c, role) = AssignAmong(places, c.teams, S, role)
  BY DEF assignTeams
<1>4. \A i, j \in S :
        i # j => PinnedTeams(nodes[i], role) \cap PinnedTeams(nodes[j], role) = {}
  BY DEF PinnedOnce
<1>5. \A i, j \in DOMAIN nodes : nodes[i].name = nodes[j].name => i = j
  BY NoWarning
<1>. HIDE DEF nodes, S
<1>6. /\ places \in Seq(Place) /\ DOMAIN places = DOMAIN nodes
      /\ \A i \in DOMAIN nodes :
           /\ places[i].name = nodes[i].name
           /\ PinnedTeams(places[i], role) = PinnedTeams(nodes[i], role)
  <2>1. ASSUME NEW i \in DOMAIN nodes
        PROVE  [name |-> nodes[i].name, weight |-> nodes[i].weight,
                teams |-> nodes[i].teams, vm_teams |-> nodes[i].vm_teams] \in Place
    <3>1. nodes[i] \in Node
      BY <1>1
    <3>. QED
      BY <3>1 DEF Node, Place
  <2>. QED
    BY <1>1, <2>1 DEF Places, PinnedTeams
<1>. HIDE DEF places
<1>7. S # {} /\ S \in SUBSET DOMAIN places
  BY <1>2, <1>6 DEF S
<1>8. /\ \A i, j \in DOMAIN places : places[i].name = places[j].name => i = j
      /\ \A i, j \in S : i # j =>
           PinnedTeams(places[i], role) \cap PinnedTeams(places[j], role) = {}
  BY <1>2, <1>4, <1>5, <1>6
<1>9. \A i, j \in DOMAIN c.teams : c.teams[i].id = c.teams[j].id => i = j
  OBVIOUS
<1>10. Unambiguous(places, S, c.teams, role)
  BY <1>1, <1>6, <1>7, <1>8, <1>9 DEF Unambiguous
<1>11. GivenOnce(places, S, c.teams, role, k)
  BY <1>10, EachGivenOnce
<1>. QED
  BY <1>3, <1>6, <1>11 DEF nodes, GivenOnce

LEMMA QuietConfiguration ==
  ASSUME NEW c, Fit(c), validateTopology(c) = {}, c.nodes # <<>>,
         c.vm_mode # "none", Routerless(c),
         \A i, j \in DOMAIN c.teams : c.teams[i].id = c.teams[j].id => i = j,
         PinnedOnce(c, "vpn"), PinnedOnce(c, "vm"),
         NEW k \in DOMAIN c.teams
  PROVE  LET rows == nodes_payload(from_dict(serializeConfig(c)))
         IN  /\ OnOne(rows, LAMBDA row : c.teams[k].id \in row.vpnTeams)
             /\ OnOne(rows, LAMBDA row : c.teams[k].id \in row.vmTeams)
             /\ \A i \in DOMAIN rows :
                  c.teams[k].id \in rows[i].vpnTeams => rows[i].address # Blank
<1>. DEFINE rows == nodes_payload(from_dict(serializeConfig(c)))
            nodes == effectiveNodes(c)
            vpn == assignTeams(c, "vpn")
            vm == assignTeams(c, "vm")
<1>1. rows = topologySummary(c)
  BY SameDistribution
<1>. HIDE DEF rows
<1>2. /\ DOMAIN rows = DOMAIN nodes
      /\ \A i \in DOMAIN nodes :
           /\ rows[i].address = nodes[i].public_address
           /\ rows[i].vpnTeams = TeamsAt(vpn, nodes[i].name)
           /\ rows[i].vmTeams = TeamsAt(vm, nodes[i].name)
  <2>. HIDE DEF vpn, vm, nodes
  <2>1. rows = [i \in DOMAIN nodes |->
                  [name |-> nodes[i].name, address |-> nodes[i].public_address,
                   vpnTeams |-> TeamsAt(vpn, nodes[i].name),
                   vmTeams |-> TeamsAt(vm, nodes[i].name)]]
    BY <1>1 DEF topologySummary, vpn, vm, nodes
  <2>. QED
    BY <2>1
<1>3. holders(c, "vm") # {}
  <2>1. c.teams # <<>>
    BY DEF Fit, Conf
  <2>2. PICK name \in DOMAIN vm : vm[name] # {}
    BY <2>1, NoWarning
  <2>3. DOMAIN vm = NamesOf(Places(nodes), holders(c, "vm"))
    BY DEF assignTeams, AssignAmong, Pinned
  <2>. QED
    BY <2>2, <2>3 DEF NamesOf
<1>4. holders(c, "vpn") # {}
  BY <1>3, NoWarning
<1>5. \E i \in DOMAIN nodes : \A j \in DOMAIN nodes :
        c.teams[k].id \in TeamsAt(vpn, nodes[j].name) <=> j = i
  BY <1>4, PreviewedOnce
<1>6. \E i \in DOMAIN nodes : \A j \in DOMAIN nodes :
        c.teams[k].id \in TeamsAt(vm, nodes[j].name) <=> j = i
  BY <1>3, PreviewedOnce
<1>7. \A i \in DOMAIN nodes : nodes[i].public_address # Blank
  <2>. SUFFICES ASSUME NEW i \in DOMAIN nodes
                PROVE  nodes[i].public_address # Blank
    OBVIOUS
  <2>1. nodes = [j \in DOMAIN c.nodes |-> Filled(c.nodes[j])]
    BY MachinesPreviewed
  <2>2. nodes[i] = Filled(c.nodes[i]) /\ c.nodes[i] \in Node
    BY <2>1 DEF Fit, Conf
  <2>3. nodes[i].address # Blank \/ nodes[i].public_address # Blank
    BY NoWarning
  <2>. HIDE DEF nodes
  <2>. QED
    BY <2>2, <2>3 DEF Filled, Node
<1>. HIDE DEF nodes, vpn, vm
<1>8. \E i \in DOMAIN rows : \A j \in DOMAIN rows :
        c.teams[k].id \in rows[j].vpnTeams <=> j = i
  BY <1>2, <1>5
<1>9. \E i \in DOMAIN rows : \A j \in DOMAIN rows :
        c.teams[k].id \in rows[j].vmTeams <=> j = i
  BY <1>2, <1>6
<1>10. \A i \in DOMAIN rows : rows[i].address # Blank
  BY <1>2, <1>7
<1>. QED
  BY <1>8, <1>9, <1>10 DEF OnOne, rows

-----------------------------------------------------------------------------
(* The theorems.                                                           *)

(* Whatever is typed, imported or loaded, configurations, drafts and files *)
(* are what CtfConfig and config.json say; a configuration that is open    *)
(* has its control role in one place, its fields show it, and the draft is *)
(* the last one any tab had.                                               *)
THEOREM EditorInvariant == Spec => []IInv
BY InitInvariant, StepInvariant, PTL DEF Spec

(* parseConfig and the forms keep the control role with the first node and *)
(* only there, whatever a file says.                                       *)
THEOREM ControlStaysFirst == Spec => []ControlIsFirst
<1>1. IInv => ControlIsFirst
  BY DEF IInv, AllFirst, ControlIsFirst, Configs
<1>. QED
  BY <1>1, EditorInvariant, PTL

(* A NumberField nobody is in shows what is going to be exported, however  *)
(* typing, imports, resets and reloads are interleaved.                    *)
THEOREM FieldsFollow == Spec => []FieldFollows
<1>1. IInv => FieldFollows
  BY DEF IInv, FieldsInStep, InStep, FieldFollows
<1>. QED
  BY <1>1, EditorInvariant, PTL

(* What a page that is opened or reloaded shows is the configuration any   *)
(* tab had last, in whatever order the tabs wrote the draft they share.    *)
THEOREM ReloadKeepsTheDraft == Spec => ReloadRestores
<1>1. IInv => ReloadStep
  <2>. SUFFICES ASSUME IInv, NEW t \in Tabs, Load(t), lastEdit # Nothing
                PROVE  config'[t] = Cleaned(lastEdit)
    BY DEF ReloadStep
  <2>1. draft = lastEdit /\ draft # Nothing /\ Fit(draft)
    BY DEF IInv, TypeOK, DraftKept, Fit
  <2>2. config' = [config EXCEPT ![t] = parseConfig(draft)]
    BY <2>1 DEF Load
  <2>3. config'[t] = parseConfig(draft)
    BY <2>2 DEF IInv, TypeOK
  <2>. QED
    BY <2>1, <2>3, ReadBack
<1>. QED
  BY <1>1, EditorInvariant, PTL DEF ReloadRestores

(* "Exactly what ./run.py node list will report": for any teams, weights,  *)
(* pinned teams and names, doubled ones included, the distribution on the  *)
(* screen is the one run.py makes of the exported file.                    *)
THEOREM PreviewMatchesDeployment == Spec => []PreviewIsDeployed
<1>1. IInv => PreviewIsDeployed
  BY SameDistribution DEF IInv, TypeOK, AllFirst, Configs, Open, Fit, PreviewIsDeployed
<1>. QED
  BY <1>1, EditorInvariant, PTL

(* A file the editor can hold, whoever wrote it and whatever it leaves     *)
(* out, is imported and exported again: run.py makes the same game of both *)
(* files, down to the machine of every team.                               *)
THEOREM ReexportIsTheSameGame == Spec => []ReexportDeploysSame
<1>1. ASSUME NEW file \in Files
      PROVE  file \in File /\ EntriesOf(file) \in Seq(Entry)
  <2>1. file \in File /\ file.nodes \in Maybe(Seq(Entry)) /\ <<>> \in Seq(Entry)
    BY EditorAssumption
  <2>. QED
    BY <2>1, GivenType DEF EntriesOf
<1>2. ASSUME NEW c \in Conf
      PROVE  /\ serializeConfig(c) \in File
             /\ EntriesOf(serializeConfig(c)) \in Seq(Entry)
  BY SerializeType, EntriesWritten
<1>3. IInv => Configs \subseteq Conf
  BY DEF IInv, TypeOK, Configs, Open
<1>4. IInv => ReexportDeploysSame
  BY <1>1, <1>2, <1>3, SameDeployment DEF ReexportDeploysSame
<1>. QED
  BY <1>4, EditorInvariant, PTL

(* A configuration the editor does not warn about leaves no team without   *)
(* its tunnels or its box, and gives none of them twice: for any number of *)
(* teams and machines, any weights and any pinned teams.                   *)
THEOREM QuietConfigurationsAreSound == Spec => []QuietIsSound
<1>1. IInv => QuietIsSound
  <2>. SUFFICES ASSUME IInv, NEW c \in Configs
                PROVE  Fit(c)
    BY QuietConfiguration DEF QuietIsSound
  <2>. QED
    BY DEF IInv, TypeOK, AllFirst, Configs, Open, Fit
<1>. QED
  BY <1>1, EditorInvariant, PTL

=============================================================================
