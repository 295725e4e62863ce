----------------------------- MODULE SoftwareRaid -----------------------------
(***************************************************************************)
(* Software RAID (hardware.py, raid_utils.py): delete_configuration,       *)
(* create_configuration and apply_configuration, with the arrays that      *)
(* skip_block_devices safeguards, and the root volume that a deployment in *)
(* the same ramdisk is given (get_os_install_device).                      *)
(*                                                                         *)
(* One thread runs; what makes this hard is that almost every command it   *)
(* issues may fail, that most failures are only logged, and that what is   *)
(* left on the disks is assembled again by the next scan or boot.          *)
(***************************************************************************)
EXTENDS Integers, Sequences, FiniteSets, SequencesExt

CONSTANTS
  DiskCount,  \* disks are numbers in the order they are listed in
  MaxParts,   \* partitions of a disk
  Layouts,    \* the arrays a machine comes with: sequences of [name, on]
  Nodes,      \* what a node asks for: [skip, lds]
  Faults,     \* sets of commands that may fail in one run of the system
  MaxSteps, MaxReboots

Disks == 1 .. DiskCount
Comps == Disks \X (1 .. MaxParts)    \* partitions: <<disk, number>>
Md(i) == 100 + i                     \* /dev/md<i>
Mds == {Md(i) : i \in 0 .. Cardinality(Comps) + 1}
NoName == "none"

ASSUME RaidAssumption ==
  /\ DiskCount \in 1 .. 99
  /\ MaxParts \in Nat \ {0} /\ MaxSteps \in Nat /\ MaxReboots \in Nat
  /\ \A layout \in Layouts :
       /\ layout \in Seq([name : STRING, on : (SUBSET Comps) \ {{}}])
       /\ \A i, j \in DOMAIN layout : i # j => layout[i].on \cap layout[j].on = {}
  /\ \A n \in Nodes :
       /\ NoName \notin n.skip
       /\ n.lds \in Seq([name : STRING, software : BOOLEAN, level : STRING, max : BOOLEAN,
                         root : {"yes", "no", "unset"}, hints : Seq(SUBSET Disks)])

VARIABLES
  node,     \* properties.skip_block_devices and target_raid_config
  unreliable, \* the commands that may fail
  parts,    \* the partition table of each disk
  super,    \* the volume whose md superblock each component carries
  arrays,   \* the running md devices: [vol, on]
  wiped,    \* volumes whose content was wiped
  doubted,  \* disks about which mdadm gave a wrong picture in this step
  rootMap,  \* _raid_root_device_mapping, in the order of insertion
  op, pc,   \* the step that runs, and where it is
  local,    \* its local variables
  result,   \* how the last step ended
  steps, reboots

disk == <<parts, super, arrays, wiped>>
bounds == <<steps, reboots>>
asked == <<node, unreliable>>
vars == <<asked, disk, doubted, rootMap, op, pc, local, result, bounds>>

Least(S) == CHOOSE x \in S : \A y \in S : x <= y

\* A superblock names its volume and counts the members; gen tells a volume
\* from an earlier one of the same name.
Volume(name, gen, on) == [name |-> name, gen |-> gen, on |-> on]
Blank == Volume(NoName, -1, {})

NoLocals == [attempts |-> 0, todo |-> {}, decision |-> <<>>, cur |-> 0, comps |-> {},
             keep |-> {}, holders |-> {}, remove |-> {},
             lds |-> <<>>, next |-> 1]

Init ==
  /\ node \in Nodes /\ unreliable \in Faults
  /\ \E layout \in Layouts :
       LET vol(i) == Volume(layout[i].name, 0, layout[i].on)
           used == UNION {layout[i].on : i \in DOMAIN layout}
       IN /\ super = [c \in Comps |->
                        IF c \in used THEN vol(CHOOSE i \in DOMAIN layout : c \in layout[i].on)
                        ELSE Blank]
          /\ parts = [d \in Disks |-> {n \in 1 .. MaxParts : <<d, n>> \in used}]
          /\ arrays = [m \in {Md(i - 1) : i \in DOMAIN layout} |->
                         [vol |-> vol(m - Md(0) + 1), on |-> vol(m - Md(0) + 1).on]]
  /\ wiped = {} /\ doubted = {} /\ rootMap = <<>>
  /\ op = "none" /\ pc = "idle" /\ local = NoLocals
  /\ result = "none" /\ steps = 0 /\ reboots = 0

-----------------------------------------------------------------------------
(* The disks, and the commands that work on them *)

Running == DOMAIN arrays
Busy == UNION {arrays[m].on : m \in Running}

\* The kernel keeps the partitions that are in use whatever the table says.
Visible == {c \in Comps : c[2] \in parts[c[1]]} \cup Busy
DisksOf(on) == {c[1] : c \in on}
PartsOf(on, d) == {c[2] : c \in {x \in on : x[1] = d}}

\* What of S a command misses that may fail: nothing, one or all of it.
Missed(tool, S) == IF tool \in unreliable THEN {{}, S} \cup {{x} : x \in S} ELSE {{}}

\* Names are given from the last one down, to the volumes in any order.
Namings(V, free) ==
  {name \in [V -> free] :
     /\ \A v, w \in V : name[v] = name[w] => v = w
     /\ \A v \in V : \A m \in free : m > name[v] => m \in Range(name)}

\* The members of a volume, of those that can be seen.
Members(v, seen) == {c \in seen : super[c] = v}

Named(name, seen) ==
  [m \in Range(name) |->
     LET v == CHOOSE v \in DOMAIN name : name[v] = m
     IN [vol |-> v, on |-> Members(v, seen)]]

\* mdadm --assemble --scan: what is complete is started, what lacks members may be.
Stopped == {super[c] : c \in Visible} \ ({Blank} \cup {arrays[m].vol : m \in Running})
Assembly(reliable) ==
  LET optional == {v \in Stopped : ~reliable \/ Members(v, Visible) # v.on}
  IN UNION {{Named(name, Visible) : name \in Namings(Stopped \ late, Mds \ Running)} :
              late \in SUBSET optional}

Started(new) == [m \in Running \cup DOMAIN new |-> IF m \in Running THEN arrays[m] ELSE new[m]]

\* mdadm refuses members of a running array.
Zeroed(S) == [c \in Comps |-> IF c \in S \ Busy THEN Blank ELSE super[c]]

-----------------------------------------------------------------------------
(* The skip list *)

\* Calls of mdadm --detail that fail: <<what is asked for, the array>>.  Each
\* array is asked for its disks and its name, and a listed one for its disks again.
Questions == {"holders", "name", "again"}
Doubt(unread) == UNION {DisksOf(arrays[call[2]].on) : call \in unread}

Holders(question, m, unread) ==
  IF <<question, m>> \in unread THEN {} ELSE DisksOf(arrays[m].on)

\* A name that could not be read is None.
NameOf(m, unread) == IF <<"name", m>> \in unread THEN NoName ELSE arrays[m].vol.name
Listed(m, unread) == NameOf(m, unread) \in node.skip \ {NoName}

\* An array that shares a disk with a safeguarded one keeps its superblock and
\* is wiped, unless it is the RAIDed ESP.
Decision(raids, unread) ==
  LET neighbour(m) == \E k \in raids \ {m} :
        /\ Listed(k, unread)
        /\ Holders("again", k, unread) \cap Holders("holders", m, unread) # {}
  IN [m \in raids |-> IF Listed(m, unread) THEN "keep"
                      ELSE IF ~neighbour(m) THEN "delete"
                      ELSE IF NameOf(m, unread) = "esp" THEN "keep" ELSE "wipe"]

\* A disk of a listed array that no array was on when first asked is a KeyError.
LostTrack(raids, unread) ==
  \E k \in raids : /\ Listed(k, unread)
                   /\ ~(Holders("again", k, unread) \subseteq
                          UNION {Holders("holders", m, unread) : m \in raids})

-----------------------------------------------------------------------------
(* Steps begin and end *)

Ends(how) ==
  /\ result' = how /\ op' = "none" /\ pc' = "idle" /\ local' = NoLocals

Goes(where, locals) ==
  /\ pc' = where /\ local' = locals /\ UNCHANGED <<op, result>>

\* validate_configuration; the number of block devices includes the arrays.
Valid ==
  LET lds == node.lds
      names == {lds[i].name : i \in DOMAIN lds}
      devices == Cardinality(Disks) + Cardinality(Running)
  IN /\ Len(lds) \in 1 .. 2
     /\ \A i \in DOMAIN lds : lds[i].software /\ Len(lds[i].hints) # 1
     /\ node.skip # {} => NoName \notin names
     /\ \A i, j \in DOMAIN lds : i # j =>
          /\ lds[i].name = NoName \/ lds[i].name # lds[j].name
          /\ ~(lds[i].root = "yes" /\ lds[j].root = "yes")
          /\ ~(lds[i].max /\ lds[j].max)
     /\ lds[1].level = "1"
     /\ Len(lds) = 2 => /\ lds[2].level \in {"0", "1", "5", "6", "1+0"}
                        /\ lds[2].level = "5" => devices >= 3
                        /\ lds[2].level = "6" => devices >= 4

Begin(o) ==
  /\ pc = "idle" /\ steps < MaxSteps
  /\ steps' = steps + 1 /\ doubted' = {}
  /\ IF o = "apply" /\ ~Valid
     THEN Ends("invalid")
     ELSE /\ op' = o /\ result' = "none" /\ local' = NoLocals
          /\ pc' = IF o = "create" THEN "plan" ELSE "scan"
  /\ UNCHANGED <<asked, disk, rootMap, reboots>>

-----------------------------------------------------------------------------
(* delete_configuration *)

Deleted == IF op = "apply" THEN Goes("plan", NoLocals) ELSE Ends("deleted")

\* Mutant: what a scan brings back is not looked at.
MutScan ==
  /\ pc = "scan"
  /\ \E new \in Assembly("assemble" \notin unreliable) : arrays' = Started(new)
  /\ IF local.attempts = 0 THEN Goes("decide", [local EXCEPT !.todo = DOMAIN arrays'])
     ELSE Deleted
  /\ UNCHANGED <<asked, parts, super, wiped, rootMap, doubted, bounds>>

\* What a pass left is deleted by a second one; with a skip list only what the
\* pass had decided to delete counts, and an array that it had not seen is a
\* KeyError.
Scan ==
  /\ pc = "scan"
  /\ \E new \in Assembly("assemble" \notin unreliable) : arrays' = Started(new)
  /\ LET raids == DOMAIN arrays'
         unknown == node.skip # {} /\ ~(raids \subseteq DOMAIN local.decision)
         left == IF node.skip = {} THEN raids
                 ELSE {m \in raids : local.decision[m] = "delete"}
     IN IF local.attempts = 0 THEN Goes("decide", [local EXCEPT !.todo = raids])
        ELSE IF unknown THEN Ends("key error")
        ELSE IF left = {} THEN Deleted
        ELSE IF local.attempts = 2 THEN Ends("not clean")
        ELSE Goes("decide", [NoLocals EXCEPT !.attempts = local.attempts, !.todo = left])
  /\ UNCHANGED <<asked, parts, super, wiped, rootMap, doubted, bounds>>

\* Without a skip list nothing is asked.
Asked(raids) == IF node.skip = {} THEN {{}} ELSE Missed("detail", Questions \X raids)

\* Mutant: attempts are not counted.
MutDecide ==
  /\ pc = "decide"
  /\ \E unread \in Asked(local.todo) :
       /\ IF LostTrack(local.todo, unread) THEN Ends("key error")
          ELSE Goes("devices", [local EXCEPT
                 !.attempts = 1,
                 !.decision = IF node.skip = {} THEN [m \in local.todo |-> "delete"]
                              ELSE Decision(local.todo, unread)])
       /\ doubted' = doubted \cup Doubt(unread)
  /\ UNCHANGED <<asked, disk, rootMap, bounds>>

\* _delete_config_pass decides what becomes of each array.
Decide ==
  /\ pc = "decide"
  /\ \E unread \in Asked(local.todo) :
       /\ IF LostTrack(local.todo, unread) THEN Ends("key error")
          ELSE Goes("devices", [local EXCEPT
                 !.attempts = @ + 1,
                 !.decision = IF node.skip = {} THEN [m \in local.todo |-> "delete"]
                              ELSE Decision(local.todo, unread)])
       /\ doubted' = doubted \cup Doubt(unread)
  /\ UNCHANGED <<asked, disk, rootMap, bounds>>

\* get_component_devices: what carries the superblock, as far as it can be read.
Components(m, unread, unseen) ==
  IF <<"uuid", m>> \in unread THEN {}
  ELSE {c \in Visible : super[c] = arrays[m].vol} \ unseen

\* wipefs, whose failure is only logged.
WipeFs(vol) ==
  \/ wiped' = wiped \cup {vol}
  \/ "wipefs" \in unreliable /\ wiped' = wiped

Device(m) ==
  /\ pc = "devices" /\ m \in local.todo /\ \A k \in local.todo : m <= k
  /\ \E unseen \in Missed("examine", arrays[m].on),
          unread \in Missed("detail", {"uuid", "holders"} \X {m}) :
       LET comps == Components(m, unread, unseen)
           rest == [local EXCEPT !.todo = @ \ {m}]
           seen == [rest EXCEPT !.holders = @ \cup Holders("holders", m, unread)]
           kept == [seen EXCEPT !.keep = @ \cup comps]
       IN /\ \/ comps = {} /\ Goes("devices", rest) /\ UNCHANGED wiped
             \/ /\ comps # {} /\ local.decision[m] = "keep"
                /\ Goes("devices", kept) /\ UNCHANGED wiped
             \/ /\ comps # {} /\ local.decision[m] = "wipe"
                /\ Goes("devices", kept) /\ WipeFs(arrays[m].vol)
             \/ /\ comps # {} /\ local.decision[m] = "delete"
                /\ Goes("stop", [seen EXCEPT !.cur = m, !.comps = comps])
                /\ WipeFs(arrays[m].vol)
          /\ doubted' = doubted \cup Doubt(unread) \cup DisksOf(unseen)
  /\ UNCHANGED <<asked, parts, super, arrays, rootMap, bounds>>

\* mdadm --stop, whose failure is only logged.
Stop ==
  /\ pc = "stop"
  /\ \/ arrays' = [m \in Running \ {local.cur} |-> arrays[m]]
     \/ "stop" \in unreliable /\ UNCHANGED arrays
  /\ Goes("zero", local)
  /\ UNCHANGED <<asked, parts, super, wiped, rootMap, doubted, bounds>>

\* The members are examined and their superblocks zeroed.  A member that can
\* not be examined ends the step; with a skip list, the partitions that were
\* examined are to be removed.
Zero ==
  /\ pc = "zero"
  /\ \E unread \in Missed("examine", local.comps) :
     LET done == IF unread = {} THEN local.comps
                 ELSE {c \in local.comps : \A u \in unread :
                         c[1] < u[1] \/ (c[1] = u[1] /\ c[2] < u[2])}
     IN /\ \E failed \in Missed("zero", done) : super' = Zeroed(done \ failed)
        /\ IF unread # {} THEN Ends("examine failed")
           ELSE Goes("devices", [local EXCEPT !.cur = 0, !.comps = {},
                   !.remove = IF node.skip = {} THEN {} ELSE @ \cup done])
  /\ UNCHANGED <<asked, parts, arrays, wiped, rootMap, doubted, bounds>>

\* What keeps a superblock that no array runs from is assembled by the next scan.
Swept(others, missed) ==
  /\ super' = Zeroed(others \ missed)
  /\ doubted' = doubted \cup DisksOf({c \in missed \ Busy : super[c] # Blank})

\* Mutant: the members of safeguarded arrays are swept as well.
MutSweep ==
  /\ pc = "devices" /\ local.todo = {}
  /\ \E missed \in Missed("zero", Visible) : Swept(Visible, missed)
  /\ Goes("holders", [local EXCEPT !.keep = {}])
  /\ UNCHANGED <<asked, parts, arrays, wiped, rootMap, bounds>>

\* Every other device that ever was a member is zeroed, without those to keep
\* and those that cannot be examined.
Sweep ==
  /\ pc = "devices" /\ local.todo = {}
  /\ LET others == Visible \ local.keep
     IN \E missed \in Missed("zero", others) \cup Missed("examine", others) :
          Swept(others, missed)
  /\ Goes("holders", local)
  /\ UNCHANGED <<asked, parts, arrays, wiped, rootMap, bounds>>

\* The tables of the holder disks are wiped.  A disk with something to keep
\* loses the partitions of deleted arrays only; parted refuses those in use,
\* and its failure ends the step.
Holder(d) ==
  /\ pc = "holders" /\ d \in local.holders /\ \A e \in local.holders : d <= e
  /\ LET next == [local EXCEPT !.holders = @ \ {d}]
         removed == PartsOf(local.remove, d)
         stuck == removed \cap PartsOf(Busy, d)
     IN IF d \in DisksOf(local.keep)
        THEN \E failed \in {s \in SUBSET removed :
               stuck \subseteq s /\ (s # {} => stuck # {} \/ "rm" \in unreliable)} :
               /\ parts' = [parts EXCEPT ![d] = @ \ (removed \ failed)]
               /\ IF failed = {} THEN Goes("holders", next) ELSE Ends("rm failed")
        ELSE /\ \/ parts' = [parts EXCEPT ![d] = {}]
                \/ "wipefs" \in unreliable /\ UNCHANGED parts
             /\ Goes("holders", next)
  /\ UNCHANGED <<asked, super, arrays, wiped, rootMap, doubted, bounds>>

PassEnds ==
  /\ pc = "holders" /\ local.holders = {}
  /\ Goes("scan", local)
  /\ UNCHANGED <<asked, disk, rootMap, doubted, bounds>>

-----------------------------------------------------------------------------
(* create_configuration *)

\* The logical disks that exist already and stay: [error, lds].  Every running
\* array must be named; one of the target's names must be listed or have been
\* wiped for the sake of a listed one, and no other may be there but an ESP that
\* is kept.
Ignored(unread) ==
  LET lds == node.lds
      decision == Decision(Running, unread)
      names == {NameOf(m, unread) : m \in Running}
      mine(i) == {m \in Running : NameOf(m, unread) = lds[i].name}
      found == {i \in DOMAIN lds : mine(i) # {}}
      wrong == {i \in found : lds[i].name \notin node.skip
                             /\ decision[Least(mine(i))] # "wipe"}
      taken == {Least(mine(i)) : i \in found}
      esp == {m \in Running \ taken : NameOf(m, unread) = "esp" /\ decision[m] = "keep"}
      rest == (Running \ taken) \ (IF esp = {} THEN {} ELSE {Least(esp)})
  IN IF LostTrack(Running, unread) \/ NoName \in names \/ wrong # {} \/ rest # {} THEN [bad |-> TRUE, found |-> {}]
     ELSE [bad |-> FALSE, found |-> found]

\* The devices of a logical disk: for each hint the first match that is not
\* taken, and every device, with the arrays, where there are no hints.
NoCandidate == {0}
Picks(hints) ==
  {pick \in [DOMAIN hints -> Disks] : \A k \in DOMAIN hints :
     LET free == hints[k] \ {pick[j] : j \in 1 .. k - 1}
     IN pick[k] \in free /\ \A d \in free : pick[k] <= d}
DevicesFor(ld) ==
  IF ld.hints = <<>> THEN Disks \cup Running
  ELSE IF Picks(ld.hints) = {} THEN NoCandidate
  ELSE Range(CHOOSE pick \in Picks(ld.hints) : TRUE)

\* list_partitions, whose failure counts as no partitions.
Partitioned(devs) == {d \in devs \cap Disks : d \in DisksOf(Visible)}

\* The order in which logical disks are made: the one that takes what space is
\* left comes last.
Before(i, j) == IF node.lds[i].max = node.lds[j].max THEN i < j ELSE node.lds[j].max
InOrder(S) ==
  CHOOSE s \in [1 .. Cardinality(S) -> S] :
    \A k, l \in DOMAIN s : k < l => Before(s[k], s[l])

\* _do_create_configuration up to the first write.
Plan ==
  /\ pc = "plan"
  /\ \E unread \in Asked(Running) :
     LET lists == IF node.skip # {} /\ Running # {} THEN Ignored(unread)
                  ELSE [bad |-> FALSE, found |-> {}]
         left == DOMAIN node.lds \ lists.found
         devs(i) == DevicesFor(node.lds[i])
         used == UNION {devs(i) : i \in left}
         order == InOrder(left)
         plan == [i \in DOMAIN order |-> [name |-> node.lds[order[i]].name,
                    root |-> node.lds[order[i]].root, devs |-> devs(order[i])]]
         next == IF used = {} THEN Ends("created")
                 ELSE Goes("label", [NoLocals EXCEPT !.lds = plan,
                        !.todo = used])
     IN IF \A i \in DOMAIN node.lds : ~node.lds[i].software THEN Ends("nothing")
        ELSE IF ~Valid THEN Ends("invalid")
        ELSE IF lists.bad THEN Ends("unexpected array")
        ELSE IF \E i \in left : devs(i) = NoCandidate THEN Ends("no candidate")
        ELSE IF lists.found # {} THEN next
        ELSE \E unseen \in Missed("list_partitions", used) :
               IF Partitioned(used \ unseen) # {} THEN Ends("partitions") ELSE next
  /\ UNCHANGED <<asked, disk, rootMap, doubted, bounds>>

\* A command for device after device, until one fails: what it may have done.
\* before has, for each device, those that come first.
Treated(before, stuck, tool) ==
  {done \in SUBSET DOMAIN before :
     /\ \A y \in done : y \notin stuck /\ before[y] \subseteq done
     /\ done = DOMAIN before
        \/ \E y \in DOMAIN before \ done :
             before[y] \subseteq done /\ (y \in stuck \/ tool \in unreliable)}

\* list_block_devices has each array after its first member.
Place(d) == IF d \in Running THEN Least(DisksOf(arrays[d].on)) ELSE d
Listing(x, y) == Place(x) < Place(y) \/ (Place(x) = Place(y) /\ x < y)

\* create_raid_partition_tables.  parted does not relabel a disk whose partitions
\* are in use.
Label ==
  LET devs == local.todo
      before == [y \in devs |-> {x \in devs : Listing(x, y)}]
  IN /\ pc = "label"
     /\ \E done \in Treated(before, DisksOf(Busy), "mklabel") :
          /\ parts' = [d \in Disks |-> IF d \in done THEN {} ELSE parts[d]]
          /\ wiped' = wiped \cup {arrays[m].vol : m \in done \cap Running}
          /\ IF done = devs THEN Goes("mkpart", local) ELSE Ends("mklabel failed")
     /\ UNCHANGED <<asked, super, arrays, rootMap, doubted, bounds>>

\* One partition on each device of the next logical disk.
MakeParts ==
  LET devs == local.lds[local.next].devs
      before == [y \in devs |-> {x \in devs : x < y}]
      free(d) == (1 .. MaxParts) \ parts[d]
      full == {d \in Disks : free(d) = {}}
  IN /\ pc = "mkpart"
     /\ \E done \in Treated(before, full, "mkpart") :
          /\ parts' = [d \in Disks |->
                         IF d \in done THEN parts[d] \cup {Least(free(d))} ELSE parts[d]]
          /\ IF done # devs THEN Ends("mkpart failed")
             ELSE IF local.next < Len(local.lds) THEN Goes("mkpart", [local EXCEPT !.next = @ + 1])
             ELSE Goes("mkarray", [local EXCEPT !.next = 1])
     /\ UNCHANGED <<asked, super, arrays, wiped, rootMap, doubted, bounds>>

\* A dict keeps the place of a key that is assigned again.
Put(map, m, flag) ==
  IF \E i \in DOMAIN map : map[i][1] = m
  THEN [i \in DOMAIN map |-> IF map[i][1] = m THEN <<m, flag>> ELSE map[i]]
  ELSE Append(map, <<m, flag>>)

\* Members that are missing from a new array are added again, or else it failed;
\* all seem to be where --detail fails, and what is a member is not added.
AddFails(missing, unread) == missing # {} \/ unread # {}

\* create_raid_device: /dev/md<index> of the next partition of each device.
MakeArray ==
  LET ld == local.lds[local.next]
      i == local.next - 1
      taken(d) == Cardinality({j \in 1 .. i : d \in local.lds[j].devs})
      comps == {<<d, taken(d) + 1>> : d \in ld.devs}
      name == IF ld.name # NoName THEN ld.name ELSE <<"md0", "md1">>[i + 1]
      vol == Volume(name, steps, comps)
      possible == Md(i) \notin Running /\ comps \subseteq Visible \ Busy
      made(on) == /\ super' = [c \in Comps |-> IF c \in on THEN vol ELSE super[c]]
                  /\ arrays' = Started([m \in {Md(i)} |-> [vol |-> vol, on |-> on]])
  IN /\ pc = "mkarray"
     /\ \/ /\ possible
           /\ \E missing \in Missed("add", comps) \ {comps},
                 unread \in Missed("detail", {Md(i)}) :
                /\ made(comps \ missing)
                /\ IF AddFails(missing, unread) THEN Ends("add failed") /\ UNCHANGED rootMap
                   ELSE /\ rootMap' = IF ld.root = "unset" THEN rootMap
                                     ELSE Put(rootMap, Md(i), ld.root)
                        /\ IF local.next = Len(local.lds) THEN Ends("created")
                           ELSE Goes("mkarray", [local EXCEPT !.next = @ + 1])
        \/ /\ ~possible \/ "create" \in unreliable
           /\ Ends("mdadm failed") /\ UNCHANGED <<super, arrays, rootMap>>
     /\ UNCHANGED <<asked, parts, wiped, doubted, bounds>>

-----------------------------------------------------------------------------
(* The root device of a deployment, and the boot *)

\* Mutant: only the array itself is excluded.
MutInstallDevices ==
  LET yes == {i \in DOMAIN rootMap : rootMap[i][2] = "yes"}
      no == {rootMap[i][1] : i \in {j \in DOMAIN rootMap : rootMap[j][2] = "no"}}
  IN IF yes # {} THEN {rootMap[Least(yes)][1]} ELSE (Disks \cup Running) \ no

\* get_os_install_device: the first root volume, or else the devices that are
\* neither kept arrays nor belong to a volume that is not to be the root.
InstallDevices ==
  LET yes == {i \in DOMAIN rootMap : rootMap[i][2] = "yes"}
      no == {rootMap[i][1] : i \in {j \in DOMAIN rootMap : rootMap[j][2] = "no"}} \cap Running
      kept == {m \in Running : Decision(Running, {})[m] = "keep"}
  IN IF yes # {} THEN {rootMap[Least(yes)][1]}
     ELSE ((Disks \cup Running) \ (kept \cup no)) \ UNION {DisksOf(arrays[m].on) : m \in no}

\* A new ramdisk knows nothing of the steps of the last one; what is complete on
\* the disks is assembled.
Reboot ==
  /\ reboots < MaxReboots /\ reboots' = reboots + 1
  /\ LET seen == {c \in Comps : c[2] \in parts[c[1]]}
         whole == {v \in {super[c] : c \in Comps} \ {Blank} : Members(v, seen) = v.on}
     IN \E name \in Namings(whole, Mds) : arrays' = Named(name, seen)
  /\ rootMap' = <<>> /\ doubted' = {} /\ Ends("none")
  /\ UNCHANGED <<asked, parts, super, wiped, steps>>

Deleting ==
  \/ Scan \/ Decide \/ Stop \/ Zero \/ Sweep \/ PassEnds
  \/ \E m \in Running : Device(m)
  \/ \E d \in Disks : Holder(d)
Creating == Plan \/ Label \/ MakeParts \/ MakeArray

Next ==
  \/ \E o \in {"delete", "create", "apply"} : Begin(o)
  \/ Deleting \/ Creating \/ Reboot

Spec == Init /\ [][Next]_vars
FairSpec == Spec /\ WF_vars(Deleting \/ Creating)

-----------------------------------------------------------------------------
(* Properties *)

TypeOK ==
  /\ node \in Nodes /\ unreliable \in Faults
  /\ parts \in [Disks -> SUBSET (1 .. MaxParts)]
  /\ Running \subseteq Mds /\ \A m \in Running : arrays[m].on \subseteq arrays[m].vol.on
  /\ \A c \in Comps : super[c] # Blank => c \in super[c].on
  /\ doubted \subseteq Disks
  /\ pc \in {"idle", "scan", "decide", "devices", "stop", "zero", "holders",
             "plan", "label", "mkpart", "mkarray"}
  /\ steps \in 0 .. MaxSteps /\ reboots \in 0 .. MaxReboots

Whole(vol) == \A c \in vol.on : c[2] \in parts[c[1]] /\ super[c] = vol

Safeguarded ==
  {arrays[m].vol : m \in {k \in Running :
     LET vol == arrays[k].vol
     IN vol.name \in node.skip /\ arrays[k].on = vol.on /\ Whole(vol) /\ vol \notin wiped}}

\* A safeguarded volume that runs and is whole stays so, with its content, its
\* superblocks and its partitions, in a step with failures and in a boot; unless
\* the step had a wrong picture of one of its disks, since --detail of an array on
\* it or --examine of a member there failed, or a superblock of no array was left
\* there, all of which the code only logs (raid_utils.py:303, hardware.py:203, 334,
\* 376, 3606, 3612).  Then a listed volume may be deleted, or its partitions
\* dropped, which doc/source/admin/hardware_managers.rst:176 does not say.
ListedSurvive ==
  [][\A vol \in Safeguarded :
       DisksOf(vol.on) \cap doubted' = {} => vol \in Safeguarded']_vars

\* After a deletion that succeeded, only listed arrays and those that share a
\* disk with one run, although every failure on the way was only logged.
DeletedForGood ==
  result = "deleted" =>
    \A m \in Running : \E k \in Running :
      /\ arrays[k].vol.name \in node.skip
      /\ DisksOf(arrays[k].on) \cap DisksOf(arrays[m].on) # {}

\* Each logical disk has an array of its own, of that name, with all its members if
\* the step made it.
AllPresent ==
  \E own \in [DOMAIN node.lds -> Running] :
    /\ \A i, j \in DOMAIN own : own[i] = own[j] => i = j
    /\ \A i \in DOMAIN own :
         LET a == arrays[own[i]]
         IN /\ node.lds[i].name \in {NoName, a.vol.name}
            /\ a.vol.gen = steps => a.on = a.vol.on /\ Whole(a.vol)

\* No member belongs to two arrays.
DisjointMembers == \A m, k \in Running : m # k => arrays[m].on \cap arrays[k].on = {}

\* A deployment in this ramdisk, which mdadm answers, is given the volume that is to
\* be the root, and no disk under one that is not.
RootIsGiven ==
  \A i \in DOMAIN node.lds : \A m \in Running :
    arrays[m].vol = Volume(node.lds[i].name, steps, arrays[m].vol.on) =>
      /\ node.lds[i].root = "yes" => InstallDevices = {m}
      /\ node.lds[i].root = "no" =>
           InstallDevices \cap ({m} \cup DisksOf(arrays[m].on)) = {}

\* After a creation that succeeded, although tools failed, earlier steps left
\* arrays behind and the mapping of root volumes outlives the step.
CreatedAsRequested ==
  result = "created" => AllPresent /\ DisjointMembers /\ RootIsGiven

\* A step ends, whatever fails again and again.
StepEnds == pc # "idle" ~> pc = "idle"
=============================================================================
