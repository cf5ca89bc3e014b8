---------------------------- MODULE ConfigEditor ----------------------------
(***************************************************************************)
(* The configuration editor (editor/): a page that keeps a configuration   *)
(* in its state, every change of it in the browser's local storage, and    *)
(* exports it as the config.json that run.py reads.                        *)
(*                                                                         *)
(* The page may be open in several tabs, which share the local storage.    *)
(* Fields that are handled alike are represented by one of them:           *)
(*   server_addr   texts that are kept as they are;                        *)
(*   tick_time     numbers, each edited in a NumberField of its own;       *)
(*   exposed       gameserver_exposed_port and credential_server;          *)
(*   start_time    the three times, to the minute;                         *)
(*   monitor       traffic_monitor and debug;                              *)
(*   "incus"       the modes that run vulnboxes.                           *)
(* Names, images and tokens of teams are left out, and so is checkers_dir, *)
(* a key the editor does not know.                                         *)
(***************************************************************************)
EXTENDS Topology

CONSTANTS
  Tabs,
  Ids,                (* team ids that may be typed or pinned               *)
  Names,              (* node names that may be typed                       *)
  RoleSets,           (* roles that may be ticked                           *)
  Roles,              (* roles a file may name                              *)
  Texts,              (* all texts                                          *)
  Addresses,          (* addresses that may be typed, and Blank             *)
  Ticks,              (* numbers that may be typed as tick_time             *)
  Files,              (* files somebody else wrote                          *)
  Drafts,             (* what local storage may hold at first               *)
  Null,               (* null                                               *)
  Missing,            (* a key that is not in the file                      *)
  Nothing,            (* no configuration, no file, no text                 *)
  Garbage,            (* a file that is no configuration                    *)
  MaxTeams, MaxNodes, (* bounds                                             *)
  MaxEdits            (* bound: what is done in all the tabs                *)

-----------------------------------------------------------------------------
(* Configurations and files.                                               *)

Team == [id : Int, nop : BOOLEAN]

Node ==
  [name : Int, roles : SUBSET Roles, address : Texts, public_address : Texts,
   ssh : Texts, weight : Int, checker_concurrency : Nat,
   teams : SUBSET Ids, vm_teams : SUBSET Ids]

Spaces == " "           (* any text of nothing but white space            *)

(* CtfConfig *)
Conf ==
  [server_addr : Texts, tick_time : Int, submission_timeout : {Null} \cup Int,
   exposed : {Null} \cup Texts, start_time : {Null} \cup (Texts \ {Blank, Spaces}),
   vm_mode : {"incus", "none"}, max_disk_size : {Null} \cup Texts,
   monitor : BOOLEAN, pcap : BOOLEAN, pcap_max_size : Int,
   teams : Seq(Team), nodes : Seq(Node)]

Maybe(S) == {Missing} \cup S

(* local and wireguard_port are keys of run.py that the editor neither     *)
(* reads nor writes.                                                       *)
Entry ==
  [name : Int, roles : Maybe(SUBSET Roles), address : Maybe(Texts),
   public_address : Maybe(Texts), ssh : Maybe(Texts), weight : Maybe(Int),
   checker_concurrency : Maybe(Nat), teams : Maybe(SUBSET Ids),
   vm_teams : Maybe(SUBSET Ids), local : Maybe(BOOLEAN),
   wireguard_port : Maybe(Nat)]

(* config.json, as the editor or somebody else writes it, or a draft, the  *)
(* nodes of which are as the page has them.                                *)
File ==
  [server_addr : Maybe(Texts), tick_time : Maybe(Int),
   submission_timeout : Maybe({Null} \cup Int),
   exposed : Maybe({Null} \cup Texts), start_time : Maybe({Null} \cup Texts),
   vm_mode : Maybe(Texts), max_disk_size : Maybe({Null} \cup Texts),
   monitor : Maybe(BOOLEAN), pcap : Maybe(BOOLEAN), pcap_max_size : Maybe(Int),
   teams : Maybe(Seq(Team)), nodes : Maybe(Seq(Entry \cup Node))]

Given(value, fallback) == IF value = Missing THEN fallback ELSE value

(* The nodes of a file. *)
EntriesOf(file) == Given(file.nodes, <<>>)

ControlFirst(c) == \A i \in DOMAIN c.nodes : IsControl(c.nodes[i]) <=> i = 1

ASSUME EditorAssumption ==
  /\ Ids \subseteq Int /\ Names \subseteq Int /\ Ticks \subseteq Int
  /\ Addresses \cup {Blank, Spaces, "30G", "8G", "8888", "noon"}
     \cup {"incus", "none"} \subseteq Texts
  /\ ALL_ROLES \subseteq Roles /\ RoleSets \subseteq SUBSET Roles
  /\ Files \subseteq File
  /\ \A file \in Files : file.nodes \in Maybe(Seq(Entry))
  /\ \A d \in Drafts : d \in Conf /\ ControlFirst(d)

(* The values that stand for something missing are none of the others. *)
ASSUME MissingAssumption ==
  /\ Missing \notin Texts \cup Int \cup BOOLEAN \cup {Null}
  /\ Missing \notin Seq(Team) \cup Seq(Entry \cup Node)
  /\ \A S \in (SUBSET Roles) \cup SUBSET Ids : S # Missing
  /\ Null \notin Texts \cup Int

-----------------------------------------------------------------------------
VARIABLES
  config,             (* the state of the page in each tab                  *)
  draft,              (* localStorage["ctfbox-editor-config"]               *)
  field,              (* the NumberField of tick_time in each tab           *)
  picked,             (* the file a tab is about to read                    *)
  exported,           (* the file written last                              *)
  edits,              (* what was done so far                               *)
  lastEdit            (* history: the configuration a tab had last          *)

vars == <<config, draft, field, picked, exported, edits, lastEdit>>

-----------------------------------------------------------------------------
(* lib/config.ts                                                           *)

Default ==
  [server_addr |-> Blank, tick_time |-> 120, submission_timeout |-> 30,
   exposed |-> Null, start_time |-> Null, vm_mode |-> "incus",
   max_disk_size |-> "30G", monitor |-> TRUE, pcap |-> FALSE,
   pcap_max_size |-> 512, teams |-> <<>>, nodes |-> <<>>]

(* index counts from zero, as in the code. *)
defaultNode(index) ==
  [name |-> index, roles |-> IF index = 0 THEN ALL_ROLES ELSE {"vpn", "vm"},
   address |-> Blank, public_address |-> Blank, ssh |-> Blank, weight |-> 1,
   checker_concurrency |-> 0, teams |-> {}, vm_teams |-> {}]

generateTeams(count, withNop) ==
  [i \in 1..count + (IF withNop THEN 1 ELSE 0) |->
     [id |-> i - 1, nop |-> withNop /\ i = 1]]

isVpnNode(roles) == roles \cap {"vpn", "router"} # {}

(* Fields that no longer apply are cleared. *)
rolesPatch(node, roles) ==
  [node EXCEPT
     !.roles = roles,
     !.public_address = IF isVpnNode(roles) THEN node.public_address ELSE Blank,
     !.checker_concurrency =
       IF "checker" \in roles THEN node.checker_concurrency ELSE 0]

(* asNullableString, which trims. *)
NullIfBlank(value) == IF value \in {Missing, Blank, Spaces} THEN Null ELSE value

(* Mutant: null is read like any other missing number. *)
LimitOrDefault(value) ==
  IF value \in {Missing, Null} THEN Default.submission_timeout ELSE value

(* submission_timeout: null is no limit, and stays null. *)
LimitOf(value) == Given(value, Default.submission_timeout)

ParsedNode(entry) ==
  [name |-> entry.name,
   roles |-> Given(entry.roles, ALL_ROLES),
   address |-> Given(entry.address, Blank),
   public_address |-> Given(entry.public_address, Given(entry.address, Blank)),
   ssh |-> Given(entry.ssh, Blank),
   weight |-> Given(entry.weight, 1),
   checker_concurrency |-> Given(entry.checker_concurrency, 0),
   teams |-> Given(entry.teams, {}),
   vm_teams |-> Given(entry.vm_teams, {})]

(* The control role belongs to the first node and only to it. *)
OwnRoles(node, index) ==
  [node EXCEPT !.roles = IF index = 1 THEN node.roles \cup {"control"}
                         ELSE node.roles \ {"control"}]

parseConfig(file) ==
  LET entries == EntriesOf(file)
  IN  [server_addr |-> Given(file.server_addr, Blank),
       tick_time |-> Given(file.tick_time, Default.tick_time),
       submission_timeout |-> LimitOf(file.submission_timeout),
       exposed |-> NullIfBlank(file.exposed),
       start_time |-> NullIfBlank(file.start_time),
       vm_mode |-> IF file.vm_mode \in {"incus", "none"} THEN file.vm_mode
                   ELSE Default.vm_mode,
       max_disk_size |-> NullIfBlank(file.max_disk_size),
       monitor |-> Given(file.monitor, TRUE),
       pcap |-> Given(file.pcap, FALSE),
       pcap_max_size |-> Given(file.pcap_max_size, Default.pcap_max_size),
       teams |-> Given(file.teams, <<>>),
       nodes |-> [i \in DOMAIN entries |-> OwnRoles(ParsedNode(entries[i]), i)]]

WrittenIf(condition, value) == IF condition THEN value ELSE Missing

NodeEntry(node) ==
  [name |-> node.name, roles |-> node.roles, address |-> node.address,
   public_address |-> WrittenIf(/\ node.public_address # Blank
                                /\ node.public_address # node.address,
                                node.public_address),
   ssh |-> WrittenIf(node.ssh # Blank, node.ssh),
   weight |-> WrittenIf(node.weight # 1, node.weight),
   checker_concurrency |-> WrittenIf(node.checker_concurrency > 0,
                                     node.checker_concurrency),
   teams |-> WrittenIf(node.teams # {}, node.teams),
   vm_teams |-> WrittenIf(node.vm_teams # {}, node.vm_teams),
   local |-> Missing, wireguard_port |-> Missing]

(* The capture settings are not written. *)
serializeConfig(c) ==
  [c EXCEPT
     !.max_disk_size = IF c.vm_mode = "none" THEN Null ELSE c.max_disk_size,
     !.pcap = Missing,
     !.pcap_max_size = Missing,
     !.nodes = WrittenIf(c.nodes # <<>>,
                         [i \in DOMAIN c.nodes |-> NodeEntry(c.nodes[i])])]

-----------------------------------------------------------------------------
(* run.py reads the file: Config.from_dict.                                *)

from_dict(file) ==
  LET entries == EntriesOf(file)
      Read(entry) ==
        [ParsedNode(entry) EXCEPT
           !.public_address = Given(entry.public_address, Blank)]
  IN  [server_addr |-> Given(file.server_addr, Blank),
       tick_time |-> Given(file.tick_time, 120),
       submission_timeout |-> Given(file.submission_timeout, 30),
       exposed |-> Given(file.exposed, Null),
       start_time |-> Given(file.start_time, Null),
       vm_mode |-> Given(file.vm_mode, "incus"),
       max_disk_size |-> Given(file.max_disk_size, Null),
       monitor |-> Given(file.monitor, TRUE),
       pcap |-> Given(file.pcap, FALSE),
       pcap_max_size |-> Given(file.pcap_max_size, 512),
       teams |-> Given(file.teams, <<>>),
       nodes |-> [i \in DOMAIN entries |-> Read(entries[i])]]

-----------------------------------------------------------------------------
(* The page.                                                               *)

Fresh == [text |-> Nothing, focused |-> FALSE]

TypeOK ==
  /\ config \in [Tabs -> {Nothing} \cup Conf]
  /\ draft \in {Nothing} \cup Conf
  /\ field \in [Tabs -> [text : {Nothing} \cup Int, focused : BOOLEAN]]
  /\ picked \in [Tabs -> {Nothing, Garbage} \cup File]
  /\ exported \in {Nothing} \cup File
  /\ edits \in Nat
  /\ lastEdit \in {Nothing} \cup Conf

Init ==
  /\ config = [t \in Tabs |-> Nothing]
  /\ draft \in Drafts \cup {Nothing}
  /\ field = [t \in Tabs |-> Fresh]
  /\ picked = [t \in Tabs |-> Nothing]
  /\ exported = Nothing
  /\ edits = 0
  /\ lastEdit = draft

(* Mutant: the page keeps the draft in the form it exports. *)
SavedAsExport(c) == serializeConfig(c)

(* JSON.stringify(config): every field as it is. *)
Saved(c) == c

(* Mutant: a field somebody is in is left alone, whatever it holds. *)
FollowUnlessFocused(f, old, new) ==
  IF new = old \/ f.focused THEN f ELSE [f EXCEPT !.text = new]

(* NumberField: the text follows the value when it changes, unless the     *)
(* user has just emptied the field.                                        *)
Follow(f, old, new) ==
  IF new = old \/ (f.focused /\ f.text = Nothing) \/ f.text = new
  THEN f ELSE [f EXCEPT !.text = new]

(* setConfig, and what follows from it: the draft is saved, fields follow. *)
Become(t, f, c) ==
  /\ config' = [config EXCEPT ![t] = c]
  /\ draft' = Saved(c)
  /\ field' = [field EXCEPT ![t] = Follow(f, config[t].tick_time, c.tick_time)]
  /\ lastEdit' = c

(* The page is opened or reloaded. *)
Load(t) ==
  LET c == IF draft = Nothing THEN Default ELSE parseConfig(draft)
  IN  /\ config' = [config EXCEPT ![t] = c]
      /\ draft' = Saved(c)
      /\ field' = [field EXCEPT ![t] = [text |-> c.tick_time, focused |-> FALSE]]
      /\ picked' = [picked EXCEPT ![t] = Nothing]
      /\ lastEdit' = c
      /\ UNCHANGED <<exported, edits>>

Open(t) == config[t] # Nothing

Counted ==
  /\ edits < MaxEdits
  /\ edits' = edits + 1

(* update: a patch is merged into the configuration of the tab. *)
Edit(t, c) ==
  /\ Counted
  /\ Become(t, field[t], c)
  /\ UNCHANGED <<picked, exported>>

-----------------------------------------------------------------------------
(* The sections.                                                           *)

(* GeneralSection *)
EditServer(t) ==
  LET c == config[t]
  IN  \/ \E a \in Addresses : Edit(t, [c EXCEPT !.server_addr = a])
      \/ Edit(t, [c EXCEPT !.exposed = IF c.exposed = Null THEN "8888" ELSE Null])
      \/ /\ c.exposed # Null
         /\ \E a \in Addresses \cup {Spaces} : Edit(t, [c EXCEPT !.exposed = a])

(* TimingSection: an emptied time is null. *)
EditTimes(t) ==
  \E time \in {Null, "noon"} : Edit(t, [config[t] EXCEPT !.start_time = time])

(* GameplaySection: a limit of 0 is no limit. *)
EditScoring(t) ==
  \E limit \in {0, 30, 60} :
    Edit(t, [config[t] EXCEPT
               !.submission_timeout = IF limit > 0 THEN limit ELSE Null])

(* CheckerSection: the ring size is shown as long as capture is on. *)
EditMonitoring(t) ==
  LET c == config[t]
  IN  \/ Edit(t, [c EXCEPT !.monitor = ~c.monitor])
      \/ Edit(t, [c EXCEPT !.pcap = ~c.pcap])
      \/ /\ c.pcap
         /\ \E size \in {16, 512} : Edit(t, [c EXCEPT !.pcap_max_size = size])

(* ResourcesSection: the limits are hidden when no vulnbox is run. *)
EditVulnboxes(t) ==
  LET c == config[t]
  IN  \/ \E mode \in {"incus", "none"} : Edit(t, [c EXCEPT !.vm_mode = mode])
      \/ /\ c.vm_mode # "none"
         /\ \/ Edit(t, [c EXCEPT !.max_disk_size =
                          IF c.max_disk_size = Null THEN "30G" ELSE Null])
            \/ /\ c.max_disk_size # Null
               /\ \E size \in {Blank, "8G"} :
                    Edit(t, [c EXCEPT !.max_disk_size = size])

Without(seq, i) == [k \in 1..Len(seq) - 1 |-> IF k < i THEN seq[k] ELSE seq[k + 1]]

(* One more than the largest id; the set has one member. *)
NextIds(teams) ==
  LET taken == {0} \cup {teams[i].id + 1 : i \in DOMAIN teams}
  IN  {id \in taken : \A m \in taken : m <= id}

(* TeamsSection: ids may be typed over, so that two teams may share one. *)
EditTeams(t) ==
  LET c == config[t]
      Put(teams) == Edit(t, [c EXCEPT !.teams = teams])
  IN  \/ \E i \in DOMAIN c.teams :
           \/ \E id \in Ids : Put([c.teams EXCEPT ![i].id = id])
           \/ Put([c.teams EXCEPT ![i].nop = ~c.teams[i].nop])
           \/ Put(Without(c.teams, i))
      \/ /\ Len(c.teams) < MaxTeams
         /\ \E id \in NextIds(c.teams) :
              Put(Append(c.teams, [id |-> id, nop |-> FALSE]))
      \/ \E count \in 0..MaxTeams, withNop \in BOOLEAN :
           /\ count + (IF withNop THEN 1 ELSE 0) <= MaxTeams
           /\ Put(generateTeams(count, withNop))

(* The roles a NodeCard may set: control stays with the first node. *)
RolesOffered(index, roles) ==
  IF index = 1 THEN roles \cup {"control"} ELSE roles \ {"control"}

(* NodeCard *)
EditNode(t, i) ==
  LET c == config[t]
      node == c.nodes[i]
      Put(n) == Edit(t, [c EXCEPT !.nodes[i] = n])
  IN  \/ \E name \in Names : Put([node EXCEPT !.name = name])
      \/ \E roles \in RoleSets : Put(rolesPatch(node, RolesOffered(i, roles)))
      \/ \E a \in Addresses : Put([node EXCEPT !.address = a])
      \/ /\ isVpnNode(node.roles) \/ node.public_address # Blank
         /\ \E a \in Addresses : Put([node EXCEPT !.public_address = a])
      \/ \E a \in Addresses : Put([node EXCEPT !.ssh = a])
      \/ \E weight \in 1..2 : Put([node EXCEPT !.weight = weight])
      \/ /\ "checker" \in node.roles \/ node.checker_concurrency > 0
         /\ \E n \in 0..1 : Put([node EXCEPT !.checker_concurrency = n])
      \/ \E ids \in SUBSET Ids : Put([node EXCEPT !.teams = ids])
      \/ \E ids \in SUBSET Ids : Put([node EXCEPT !.vm_teams = ids])

(* NodesSection: the first node cannot be removed. *)
EditTopology(t) ==
  LET c == config[t]
      Put(nodes) == Edit(t, [c EXCEPT !.nodes = nodes])
  IN  \/ Put(IF c.nodes = <<>> THEN <<defaultNode(0), defaultNode(1)>> ELSE <<>>)
      \/ \E i \in DOMAIN c.nodes : EditNode(t, i)
      \/ \E i \in 2..Len(c.nodes) : Put(Without(c.nodes, i))
      \/ /\ c.nodes # <<>> /\ Len(c.nodes) < MaxNodes
         /\ Put(Append(c.nodes, defaultNode(Len(c.nodes))))

-----------------------------------------------------------------------------
(* NumberField.                                                            *)

Focus(t) ==
  /\ ~field[t].focused
  /\ Counted
  /\ field' = [field EXCEPT ![t].focused = TRUE]
  /\ UNCHANGED <<config, draft, picked, exported, lastEdit>>

(* Everything is selected and deleted: nothing is published. *)
Clear(t) ==
  /\ field[t].focused
  /\ field' = [field EXCEPT ![t].text = Nothing]
  /\ UNCHANGED <<config, draft, picked, exported, edits, lastEdit>>

Type(t, n) ==
  /\ field[t].focused
  /\ Counted
  /\ Become(t, [field[t] EXCEPT !.text = n], [config[t] EXCEPT !.tick_time = n])
  /\ UNCHANGED <<picked, exported>>

(* Left empty, the field falls back to its default, and publishes it. *)
Blur(t) ==
  /\ field[t].focused
  /\ \/ /\ field[t].text = Nothing
        /\ Become(t, [text |-> 120, focused |-> FALSE],
                  [config[t] EXCEPT !.tick_time = 120])
     \/ /\ field[t].text # Nothing
        /\ field' = [field EXCEPT ![t].focused = FALSE]
        /\ UNCHANGED <<config, draft, lastEdit>>
  /\ UNCHANGED <<picked, exported, edits>>

-----------------------------------------------------------------------------
(* OutputPanel, lib/transfer.ts.                                           *)

(* Copy, copy compressed, download. *)
Export(t) ==
  /\ Counted
  /\ exported' = serializeConfig(config[t])
  /\ UNCHANGED <<config, draft, field, picked, lastEdit>>

Importable == Files \cup (IF exported = Nothing THEN {} ELSE {exported})

(* runImport with text that was pasted. *)
Paste(t) == \E file \in Importable : Edit(t, parseConfig(file))

(* A file is chosen; file.text() reads it in the meantime. *)
Pick(t) ==
  /\ picked[t] = Nothing
  /\ Counted
  /\ \E file \in Importable \cup {Garbage} :
       picked' = [picked EXCEPT ![t] = file]
  /\ UNCHANGED <<config, draft, field, exported, lastEdit>>

(* The text is there.  What is no configuration changes nothing. *)
PickedRead(t) ==
  /\ picked[t] # Nothing
  /\ picked' = [picked EXCEPT ![t] = Nothing]
  /\ \/ /\ picked[t] # Garbage
        /\ Become(t, field[t], parseConfig(picked[t]))
     \/ /\ picked[t] = Garbage
        /\ UNCHANGED <<config, draft, field, lastEdit>>
  /\ UNCHANGED <<exported, edits>>

Reset(t) == Edit(t, Default)

Next ==
  \E t \in Tabs :
    \/ Load(t)
    \/ /\ Open(t)
       /\ \/ EditServer(t) \/ EditTimes(t) \/ EditScoring(t)
          \/ EditMonitoring(t) \/ EditVulnboxes(t) \/ EditTeams(t)
          \/ EditTopology(t)
          \/ Focus(t) \/ Clear(t) \/ Blur(t)
          \/ \E n \in Ticks : Type(t, n)
          \/ Export(t) \/ Paste(t) \/ Pick(t) \/ PickedRead(t) \/ Reset(t)

Spec == Init /\ [][Next]_vars

-----------------------------------------------------------------------------
(* Properties.                                                             *)

Configs == {config[t] : t \in {t \in Tabs : Open(t)}}

(* "The control role belongs to the first node and only to it"             *)
(* (config.ts:221), whatever is imported, edited, removed or reloaded.     *)
ControlIsFirst == \A c \in Configs : ControlFirst(c)

Routerless(c) == \A i \in DOMAIN c.nodes : "router" \notin c.nodes[i].roles

(* "Exactly what ./run.py node list will report" (NodesSection.tsx:373):   *)
(* run.py, reading the file the editor writes, spreads the teams as the    *)
(* editor previews it.  (A node with the role router, which only a file    *)
(* written elsewhere can bring in, is given tunnels in the preview alone.) *)
PreviewIsDeployed ==
  \A c \in Configs :
    Routerless(c) => topologySummary(c) = nodes_payload(from_dict(serializeConfig(c)))

(* What run.py makes of a file, but for the packet capture, the port of    *)
(* the scoreboard and the place of the checkers.                           *)
Deployment(file) ==
  LET c == from_dict(file)
      entries == EntriesOf(file)
  IN  [nodes |-> nodes_payload(c), teams |-> c.teams, vm_mode |-> c.vm_mode,
       server_addr |-> c.server_addr, tick_time |-> c.tick_time,
       submission_timeout |-> c.submission_timeout, start_time |-> c.start_time,
       monitor |-> c.monitor,
       max_disk_size |-> IF c.vm_mode = "none" \/ c.max_disk_size = Blank
                         THEN Null ELSE c.max_disk_size,
       local |-> {i \in DOMAIN entries : entries[i].local = TRUE},
       ports |-> [i \in DOMAIN entries |-> entries[i].wireguard_port]]

(* A file the editor can hold: the control role is where it puts it, no    *)
(* node shares a machine or has a port of its own, the mode is known, and  *)
(* no text is white space.                                                 *)
EditorCanHold(file) ==
  LET entries == EntriesOf(file)
  IN  /\ \A i \in DOMAIN entries :
           /\ "control" \in Given(entries[i].roles, ALL_ROLES) <=> i = 1
           /\ entries[i].local \in {Missing, FALSE}
           /\ entries[i].wireguard_port = Missing
      /\ file.vm_mode \in {Missing, "incus", "none"}
      /\ file.start_time \notin {Blank, Spaces}
      /\ file.max_disk_size # Spaces

(* Whatever other keys a file leaves out or spells out, and whoever wrote  *)
(* it: imported and exported again, untouched, it deploys the same game.   *)
(* (A file that says more than the editor can hold is changed silently.)   *)
ReexportDeploysSame ==
  \A file \in Files \cup {serializeConfig(c) : c \in Configs} :
    EditorCanHold(file) =>
      Deployment(serializeConfig(parseConfig(file))) = Deployment(file)

(* "your draft is kept locally until you reset it" (page.tsx:84): what a   *)
(* reload brings back is the last configuration any tab had; a text that   *)
(* was left blank has become null.                                         *)
Cleaned(c) ==
  [c EXCEPT !.exposed = NullIfBlank(c.exposed),
            !.max_disk_size = NullIfBlank(c.max_disk_size)]

ReloadStep ==
  \A t \in Tabs : Load(t) /\ lastEdit # Nothing => config'[t] = Cleaned(lastEdit)
ReloadRestores == [][ReloadStep]_vars

(* "Follow the value when it changes from somewhere else" (NumberField:36):*)
(* a field nobody types in shows the value that is going to be exported,   *)
(* also when an import ends while it is being emptied.                     *)
FieldFollows ==
  \A t \in Tabs :
    Open(t) /\ ~field[t].focused => field[t].text = config[t].tick_time

(* Nothing the player needs is forgotten without a warning: with no        *)
(* warning shown, boxes to run and no id that is used or pinned twice, one *)
(* machine is the control node, and every team has its tunnels on one      *)
(* machine that has an address and its vulnbox on one machine.             *)
PinnedOnce(c, role) ==
  LET nodes == effectiveNodes(c)
  IN  \A i, j \in holders(c, role) :
        i # j => PinnedTeams(nodes[i], role) \cap PinnedTeams(nodes[j], role) = {}

OnOne(rows, ids(_)) ==
  \E i \in DOMAIN rows : \A j \in DOMAIN rows : ids(rows[j]) <=> j = i

QuietIsSound ==
  \A c \in Configs :
    /\ validateTopology(c) = {}
    /\ c.nodes # <<>>
    /\ c.vm_mode # "none"
    /\ Routerless(c)
    /\ \A i, j \in DOMAIN c.teams : c.teams[i].id = c.teams[j].id => i = j
    /\ PinnedOnce(c, "vpn") /\ PinnedOnce(c, "vm")
    => LET rows == nodes_payload(from_dict(serializeConfig(c)))
       IN  \A k \in DOMAIN c.teams :
             /\ OnOne(rows, LAMBDA row : c.teams[k].id \in row.vpnTeams)
             /\ OnOne(rows, LAMBDA row : c.teams[k].id \in row.vmTeams)
             /\ \A i \in DOMAIN rows :
                  c.teams[k].id \in rows[i].vpnTeams => rows[i].address # Blank

=============================================================================
