-------------------------- MODULE SoftwareRaidProofs --------------------------
(***************************************************************************)
(* Proofs about software RAID, for every machine, node and set of failing  *)
(* tools: what runs after a deletion, that safeguarded volumes survive     *)
(* where mdadm gave no wrong picture of them, and what a creation leaves.  *)
(***************************************************************************)
EXTENDS SoftwareRaid, TLAPS, FiniteSetTheorems, WellFoundedInduction

(* The disks.  What a superblock says, and what runs: an array has members *)
(* of its own volume, and a volume runs once.                              *)
PartsInv == parts \in [Disks -> SUBSET (1 .. MaxParts)]
SuperInv ==
  \A c \in Comps : super[c] # Blank => c \in super[c].on /\ super[c].on \subseteq Comps
ArrayInv ==
  /\ Running \subseteq {Md(i) : i \in Nat}
  /\ \A m \in Running :
       /\ arrays[m].on # {} /\ arrays[m].on \subseteq arrays[m].vol.on
       /\ arrays[m].vol.on \subseteq Comps
       /\ \A c \in arrays[m].on : super[c] = arrays[m].vol
UniqueInv == \A m, k \in Running : arrays[m].vol = arrays[k].vol => m = k
DiskInv == PartsInv /\ SuperInv /\ ArrayInv /\ UniqueInv

(* The local variables of a step.                                          *)
LocalInv ==
  /\ pc \in {"idle", "scan", "decide", "devices", "stop", "zero", "holders",
             "plan", "label", "mkpart", "mkarray"}
  /\ DOMAIN local = {"attempts", "todo", "decision", "cur", "comps", "keep",
                     "holders", "remove", "lds", "next"}
  /\ local.attempts \in Nat /\ local.next \in Nat \ {0}

(* A pass of the deletion, and what is known behind it.                    *)
InPass == pc \in {"devices", "stop", "zero", "holders"}
After == pc = "scan" /\ local.attempts # 0

IsListed(m) == arrays[m].vol.name \in node.skip
Share(m, k) == DisksOf(arrays[m].on) \cap DisksOf(arrays[k].on) # {}

(* What a pass works on runs, and the array in hand is to be deleted.      *)
TodoInv ==
  /\ pc = "decide" \/ InPass => local.todo \subseteq Running
  /\ InPass => local.todo \subseteq DOMAIN local.decision
  /\ pc \in {"stop", "zero"} =>
       /\ local.cur \in DOMAIN local.decision \ local.todo
       /\ local.decision[local.cur] = "delete"

(* Whatever is not to be deleted runs, for the sake of a listed array that *)
(* shares a disk with it, or is that array.                                *)
DecidedInv ==
  InPass \/ After =>
    \A m \in DOMAIN local.decision : local.decision[m] # "delete" =>
      /\ m \in Running
      /\ \E k \in Running \cap DOMAIN local.decision :
           local.decision[k] = "keep" /\ IsListed(k) /\ Share(k, m)

ResultInv == pc # "idle" => result # "deleted"

BaseInv ==
  /\ node \in Nodes /\ unreliable \in Faults
  /\ DiskInv /\ LocalInv /\ TodoInv /\ DecidedInv /\ ResultInv /\ DeletedForGood

-----------------------------------------------------------------------------
(* The machine *)

LEMMA Names == Mds \subseteq {Md(i) : i \in Nat}
<1>1. Cardinality(Comps) \in Nat
  <2>1. IsFiniteSet(Disks) /\ IsFiniteSet(1 .. MaxParts)
    BY RaidAssumption, FS_Interval DEF RaidAssumption, Disks
  <2> QED BY <2>1, FS_Product, FS_CardinalityType DEF Comps
<1> QED BY <1>1 DEF Mds

LEMMA LeastOfMany ==
  ASSUME NEW S \in SUBSET Nat, S # {}
  PROVE  Least(S) \in S /\ \A x \in S : Least(S) <= x
<1> DEFINE R == OpToRel(<, Nat)
<1>1. IsWellFoundedOn(R, Nat)
  BY NatLessThanWellFounded
<1> HIDE DEF R
<1>2. PICK x \in S : \A y \in S : ~(<<y, x>> \in R)
  BY <1>1, WFMin, Zenon
<1>3. \A y \in S : <<y, x>> \notin R => x <= y
  BY DEF R, OpToRel
<1>4. \A y \in S : x <= y
  BY <1>2, <1>3
<1> QED BY <1>4 DEF Least

LEMMA FreshLocals ==
  /\ DOMAIN NoLocals = {"attempts", "todo", "decision", "cur", "comps", "keep",
                        "holders", "remove", "lds", "next"}
  /\ NoLocals.attempts = 0 /\ NoLocals.next = 1 /\ NoLocals.todo = {}
BY DEF NoLocals

LEMMA VisibleComps ==
  ASSUME ArrayInv
  PROVE  Visible \subseteq Comps /\ Busy \subseteq Comps
BY DEF ArrayInv, Visible, Busy

(* What is assembled are the volumes that get a name.                      *)
LEMMA NamedArrays ==
  ASSUME NEW V, NEW free, NEW seen, NEW name \in Namings(V, free)
  PROVE  LET new == Named(name, seen)
         IN /\ DOMAIN new \subseteq free
            /\ \A m \in DOMAIN new :
                 /\ new[m].vol \in V /\ name[new[m].vol] = m
                 /\ new[m].on = Members(new[m].vol, seen)
<1> DEFINE new == Named(name, seen)
           holder(m) == CHOOSE v \in DOMAIN name : name[v] = m
<1>1. DOMAIN name = V /\ \A v \in V : name[v] \in free
  BY DEF Namings
<1>2. DOMAIN new = Range(name) /\ Range(name) = {name[v] : v \in V}
  BY <1>1 DEF Named, Range
<1>3. ASSUME NEW m \in DOMAIN new
      PROVE  /\ new[m].vol \in V /\ name[new[m].vol] = m
             /\ new[m].on = Members(new[m].vol, seen)
  <2>1. holder(m) \in V /\ name[holder(m)] = m
    BY <1>1, <1>2, <1>3
  <2>2. new[m] = [vol |-> holder(m), on |-> Members(holder(m), seen)]
    BY <1>2, <1>3 DEF Named
  <2> QED BY <2>1, <2>2
<1> QED BY <1>1, <1>2, <1>3

(* A scan, or a boot, keeps what runs, and adds what carries a superblock. *)
Assembled(seen) ==
  \A m \in Running' :
    /\ m \in Running => arrays'[m] = arrays[m]
    /\ m \notin Running =>
         /\ m \in Mds
         /\ \E c \in seen : super[c] = arrays'[m].vol
         /\ arrays'[m].vol # Blank
         /\ \A k \in Running : arrays'[m].vol # arrays[k].vol
         /\ arrays'[m].on = Members(arrays'[m].vol, seen)
         /\ \A k \in Running' \ Running : arrays'[k].vol = arrays'[m].vol => k = m

LEMMA ScanAssembles ==
  ASSUME NEW r, NEW new \in Assembly(r), arrays' = Started(new)
  PROVE  Running \subseteq Running' /\ Assembled(Visible)
<1>0. PICK late : \E name \in Namings(Stopped \ late, Mds \ Running) :
        new = Named(name, Visible)
  BY DEF Assembly
<1>1. PICK name \in Namings(Stopped \ late, Mds \ Running) : new = Named(name, Visible)
  BY <1>0
<1>2. /\ DOMAIN new \subseteq Mds \ Running
      /\ \A m \in DOMAIN new :
           /\ new[m].vol \in Stopped \ late /\ name[new[m].vol] = m
           /\ new[m].on = Members(new[m].vol, Visible)
  BY <1>1, NamedArrays
<1>3. /\ Running' = Running \cup DOMAIN new
      /\ \A m \in Running' : arrays'[m] = IF m \in Running THEN arrays[m] ELSE new[m]
  BY DEF Started, Running
<1> QED BY <1>2, <1>3 DEF Assembled, Stopped

LEMMA ScanKeepsDisk ==
  ASSUME DiskInv, Running \subseteq Running', Assembled(Visible), UNCHANGED <<parts, super>>
  PROVE  DiskInv'
<1>1. Visible \subseteq Comps
  BY VisibleComps DEF DiskInv
<1>2. PartsInv' /\ SuperInv'
  BY DEF DiskInv, PartsInv, SuperInv
<1>3. ASSUME NEW m \in Running' \ Running
      PROVE  /\ m \in {Md(i) : i \in Nat}
             /\ arrays'[m].on # {} /\ arrays'[m].on \subseteq arrays'[m].vol.on
             /\ arrays'[m].vol.on \subseteq Comps
             /\ \A c \in arrays'[m].on : super[c] = arrays'[m].vol
  <2>1. /\ m \in Mds /\ arrays'[m].vol # Blank
        /\ arrays'[m].on = {c \in Visible : super[c] = arrays'[m].vol}
        /\ \E c \in Visible : super[c] = arrays'[m].vol
    BY <1>3 DEF Assembled, Members
  <2> QED BY <2>1, <1>1, Names DEF DiskInv, SuperInv
<1>4. ArrayInv'
  <2>1. \A m \in Running : arrays'[m] = arrays[m]
    BY DEF Assembled
  <2> QED BY <1>3, <2>1 DEF DiskInv, ArrayInv
<1>5. UniqueInv'
  BY DEF Assembled, DiskInv, UniqueInv
<1> QED BY <1>2, <1>4, <1>5 DEF DiskInv

(* Less may run, and less be on the disks, but for members in use.         *)
Lessened ==
  /\ \A c \in Comps : super'[c] = super[c] \/ (super'[c] = Blank /\ c \notin Busy)
  /\ Running' \subseteq Running /\ \A m \in Running' : arrays'[m] = arrays[m]

LEMMA LessKeepsDisk ==
  ASSUME DiskInv, Lessened, PartsInv'
  PROVE  DiskInv'
<1>1. SuperInv'
  BY DEF DiskInv, SuperInv, Lessened, Blank, Volume
<1>2. ArrayInv'
  BY DEF DiskInv, ArrayInv, Lessened, Busy
<1>3. UniqueInv'
  BY DEF DiskInv, UniqueInv, Lessened
<1> QED BY <1>1, <1>2, <1>3 DEF DiskInv

LEMMA ZeroedLess ==
  ASSUME NEW S, super' = Zeroed(S)
  PROVE  \A c \in Comps : super'[c] = IF c \in S \ Busy THEN Blank ELSE super[c]
BY DEF Zeroed

LEMMA RebootKeepsDisk ==
  ASSUME DiskInv, Reboot
  PROVE  DiskInv'
<1> DEFINE seen == {c \in Comps : c[2] \in parts[c[1]]}
           whole == {v \in {super[c] : c \in Comps} \ {Blank} : Members(v, seen) = v.on}
<1>1. PICK name \in Namings(whole, Mds) : arrays' = Named(name, seen)
  BY DEF Reboot
<1> HIDE DEF seen, whole
<1>2. \A m \in Running' :
        /\ m \in Mds /\ arrays'[m].vol \in whole /\ name[arrays'[m].vol] = m
        /\ arrays'[m].on = Members(arrays'[m].vol, seen)
  <2> DEFINE new == Named(name, seen)
  <2>1. /\ DOMAIN new \subseteq Mds
        /\ \A m \in DOMAIN new :
             /\ new[m].vol \in whole /\ name[new[m].vol] = m
             /\ new[m].on = Members(new[m].vol, seen)
    BY NamedArrays
  <2> HIDE DEF new
  <2>2. arrays' = new
    BY <1>1 DEF new
  <2> QED BY <2>1, <2>2 DEF Running
<1>3. UNCHANGED <<parts, super>>
  BY DEF Reboot
<1>4. PartsInv' /\ SuperInv'
  BY <1>3 DEF DiskInv, PartsInv, SuperInv
<1>5. ASSUME NEW m \in Running'
      PROVE  /\ m \in {Md(i) : i \in Nat}
             /\ arrays'[m].on # {} /\ arrays'[m].on \subseteq arrays'[m].vol.on
             /\ arrays'[m].vol.on \subseteq Comps
             /\ \A c \in arrays'[m].on : super[c] = arrays'[m].vol
  <2>1. PICK c \in Comps : super[c] = arrays'[m].vol /\ super[c] # Blank
    <3>1. arrays'[m].vol \in {super[c] : c \in Comps} \ {Blank}
      BY <1>2, <1>5 DEF whole
    <3> QED BY <3>1
  <2>2. c \in arrays'[m].vol.on /\ arrays'[m].vol.on \subseteq Comps
    BY <2>1 DEF DiskInv, SuperInv
  <2>3. arrays'[m].on = arrays'[m].vol.on
    BY <1>2, <1>5 DEF whole
  <2>4. \A x \in arrays'[m].on : super[x] = arrays'[m].vol
    BY <1>2, <1>5 DEF Members
  <2> QED BY <2>2, <2>3, <2>4, <1>2, <1>5, Names
<1>6. ArrayInv'
  BY <1>3, <1>5 DEF ArrayInv
<1>7. UniqueInv'
  BY <1>2 DEF UniqueInv
<1> QED BY <1>4, <1>6, <1>7 DEF DiskInv

(* A new array takes members that nothing uses.                            *)
LEMMA ArrayKeepsDisk ==
  ASSUME DiskInv, LocalInv, MakeArray
  PROVE  /\ DiskInv'
         /\ Running \subseteq Running' /\ \A m \in Running : arrays'[m] = arrays[m]
         /\ \A c \in Busy : super'[c] = super[c]
<1>1. CASE UNCHANGED <<super, arrays, parts>>
  <2>1. Lessened
    BY <1>1 DEF Lessened, Running
  <2> QED BY <1>1, <2>1, LessKeepsDisk DEF DiskInv, PartsInv, Running
<1>2. CASE ~UNCHANGED <<super, arrays, parts>>
  <2> DEFINE i == local.next - 1
             ld == local.lds[local.next]
             taken(d) == Cardinality({j \in 1 .. i : d \in local.lds[j].devs})
             comps == {<<d, taken(d) + 1>> : d \in ld.devs}
             name == IF ld.name # NoName THEN ld.name ELSE <<"md0", "md1">>[i + 1]
             vol == Volume(name, steps, comps)
  <2>1. PICK missing \in Missed("add", comps) \ {comps} :
          /\ super' = [c \in Comps |-> IF c \in comps \ missing THEN vol ELSE super[c]]
          /\ arrays' = Started([m \in {Md(i)} |-> [vol |-> vol, on |-> comps \ missing]])
    BY <1>2 DEF MakeArray
  <2>2. Md(i) \notin Running /\ comps \subseteq Visible \ Busy /\ UNCHANGED parts
    BY <1>2 DEF MakeArray
  <2>3. vol.on = comps
    BY DEF Volume
  <2>4. i \in Nat
    BY DEF LocalInv
  <2> HIDE DEF i, ld, comps, vol
  <2>5. /\ Running' = Running \cup {Md(i)}
        /\ \A m \in Running : arrays'[m] = arrays[m]
        /\ arrays'[Md(i)].vol = vol /\ arrays'[Md(i)].on = comps \ missing
    BY <2>1, <2>2 DEF Started, Running
  <2>6. comps \subseteq Comps
    BY <2>2, VisibleComps DEF DiskInv
  <2>7. \A c \in Comps : super'[c] = IF c \in comps \ missing THEN vol ELSE super[c]
    BY <2>1
  <2>8. \A c \in Busy : super'[c] = super[c]
    BY <2>2, <2>7, VisibleComps DEF DiskInv
  <2>9. comps \ missing # {}
    <3>1. missing # comps /\ missing \subseteq comps
      BY DEF Missed
    <3> QED BY <3>1
  <2>10. PartsInv' /\ SuperInv'
    BY <2>2, <2>3, <2>6, <2>7 DEF DiskInv, PartsInv, SuperInv
  <2>11. \A m \in Running : \A c \in arrays[m].on : super'[c] = super[c]
    BY <2>8 DEF Busy
  <2>12. ArrayInv'
    BY <2>3, <2>4, <2>5, <2>6, <2>7, <2>9, <2>11 DEF DiskInv, ArrayInv
  <2>13. \A m \in Running : arrays[m].vol # vol
    BY <2>2, <2>3 DEF DiskInv, ArrayInv, Busy
  <2>14. UniqueInv'
    BY <2>5, <2>13 DEF DiskInv, UniqueInv
  <2> QED BY <2>5, <2>8, <2>10, <2>12, <2>14 DEF DiskInv
<1> QED BY <1>1, <1>2

-----------------------------------------------------------------------------
(* The deletion *)

LEMMA Starts == Init => BaseInv
<1> SUFFICES ASSUME Init PROVE BaseInv
  OBVIOUS
<1>1. PICK layout \in Layouts :
        LET vol(i) == Volume(layout[i].name, 0, layout[i].on)
            used == UNION {layout[i].on : i \in DOMAIN layout}
        IN /\ super = [c \in Comps |->
                         IF c \in used THEN vol(CHOOSE i \in DOMAIN layout : c \in layout[i].on)
                         ELSE Blank]
           /\ parts = [d \in Disks |-> {n \in 1 .. MaxParts : <<d, n>> \in used}]
           /\ arrays = [m \in {Md(i - 1) : i \in DOMAIN layout} |->
                          [vol |-> vol(m - Md(0) + 1), on |-> vol(m - Md(0) + 1).on]]
  BY DEF Init
<1> DEFINE vol(i) == Volume(layout[i].name, 0, layout[i].on)
           used == UNION {layout[i].on : i \in DOMAIN layout}
<1>2. /\ DOMAIN layout \subseteq Nat \ {0}
      /\ \A i \in DOMAIN layout : layout[i].on \subseteq Comps /\ layout[i].on # {}
      /\ \A i, j \in DOMAIN layout : i # j => layout[i].on \cap layout[j].on = {}
  <2>1. /\ layout \in Seq([name : STRING, on : (SUBSET Comps) \ {{}}])
        /\ \A i, j \in DOMAIN layout : i # j => layout[i].on \cap layout[j].on = {}
    BY RaidAssumption DEF RaidAssumption
  <2> DEFINE LayoutType == [name : STRING, on : (SUBSET Comps) \ {{}}]
  <2>2. \A i \in DOMAIN layout : i \in Nat \ {0} /\ layout[i] \in LayoutType
    <3> HIDE DEF LayoutType
    <3>1. layout \in Seq(LayoutType)
      BY <2>1 DEF LayoutType
    <3>2. /\ Len(layout) \in Nat /\ DOMAIN layout = 1 .. Len(layout)
          /\ layout \in [1 .. Len(layout) -> LayoutType]
      BY <3>1
    <3> QED BY <3>2
  <2> QED BY <2>1, <2>2
<1>3. \A i \in DOMAIN layout : \A c \in layout[i].on : super[c] = vol(i)
  <2> SUFFICES ASSUME NEW i \in DOMAIN layout, NEW c \in layout[i].on PROVE super[c] = vol(i)
    OBVIOUS
  <2>1. (CHOOSE j \in DOMAIN layout : c \in layout[j].on) = i
    BY <1>2
  <2>2. c \in Comps /\ c \in used
    BY <1>2
  <2>3. super[c] = vol(CHOOSE j \in DOMAIN layout : c \in layout[j].on)
    BY <1>1, <2>2
  <2> QED BY <2>1, <2>3
<1>4. \A c \in Comps : super[c] # Blank => \E i \in DOMAIN layout : c \in layout[i].on
  BY <1>1
<1>5. /\ Running = {Md(i - 1) : i \in DOMAIN layout}
      /\ \A i \in DOMAIN layout :
           arrays[Md(i - 1)].vol = vol(i) /\ arrays[Md(i - 1)].on = layout[i].on
  <2>1. \A i \in DOMAIN layout : Md(i - 1) - Md(0) + 1 = i
    BY <1>2 DEF Md
  <2> QED BY <1>1, <2>1 DEF Running, Volume
<1>6. \A i \in DOMAIN layout : vol(i).on = layout[i].on
  BY DEF Volume
<1>7. PartsInv
  BY <1>1 DEF PartsInv
<1> HIDE DEF used, vol
<1>8. SuperInv
  BY <1>2, <1>3, <1>4, <1>6 DEF SuperInv
<1>9. ArrayInv
  <2>1. \A i \in DOMAIN layout : i - 1 \in Nat
    BY <1>2
  <2> QED BY <1>2, <1>3, <1>5, <1>6, <2>1 DEF ArrayInv
<1>10. UniqueInv
  <2> SUFFICES ASSUME NEW i \in DOMAIN layout, NEW j \in DOMAIN layout,
                      arrays[Md(i - 1)].vol = arrays[Md(j - 1)].vol
               PROVE  i = j
    BY <1>5 DEF UniqueInv
  <2>1. layout[i].on = layout[j].on
    BY <1>5, <1>6
  <2> QED BY <1>2, <2>1
<1>11. /\ node \in Nodes /\ unreliable \in Faults
       /\ pc = "idle" /\ result = "none" /\ local = NoLocals
  BY DEF Init
<1> QED BY <1>7, <1>8, <1>9, <1>10, <1>11
        DEF BaseInv, DiskInv, LocalInv, NoLocals, TodoInv, DecidedInv, ResultInv,
            DeletedForGood, InPass, After

(* Where a step is not in a pass, nothing is asked of its local variables. *)
LEMMA OutsidePass ==
  ASSUME BaseInv, UNCHANGED asked, DiskInv', LocalInv', result' # "deleted",
         pc' \in {"idle", "scan", "plan", "label", "mkpart", "mkarray"},
         pc' = "scan" => local'.attempts = 0
  PROVE  BaseInv'
BY DEF BaseInv, asked, TodoInv, DecidedInv, ResultInv, DeletedForGood, InPass, After

(* A decision other than to delete is for the sake of a listed array.      *)
LEMMA Decided ==
  ASSUME ArrayInv, NEW raids \in SUBSET Running, NEW unread, NEW m \in raids,
         Decision(raids, unread)[m] # "delete"
  PROVE  \E k \in raids :
           Decision(raids, unread)[k] = "keep" /\ IsListed(k) /\ Share(k, m)
<1>1. ASSUME NEW k \in raids, Listed(k, unread)
      PROVE  /\ IsListed(k)
             /\ Decision(raids, unread)[k] = "keep"
  BY <1>1 DEF Listed, NameOf, IsListed, Decision
<1>2. CASE Listed(m, unread)
  <2>1. Share(m, m)
    BY DEF ArrayInv, Share, DisksOf
  <2> QED BY <1>1, <1>2, <2>1
<1>3. CASE ~Listed(m, unread)
  <2>1. PICK k \in raids : /\ Listed(k, unread)
                         /\ Holders("again", k, unread) \cap Holders("holders", m, unread) # {}
    BY <1>3 DEF Decision
  <2>2. Share(k, m)
    BY <2>1 DEF Holders, Share
  <2> QED BY <1>1, <2>1, <2>2
<1> QED BY <1>2, <1>3

(* A step of a pass that stops nothing, and decides nothing.               *)
LEMMA WithinPass ==
  ASSUME BaseInv, UNCHANGED <<asked, arrays, result>>, DiskInv', LocalInv', InPass,
         pc' \in {"devices", "stop", "zero", "holders", "scan"},
         local'.decision = local.decision, TodoInv'
  PROVE  BaseInv'
<1>1. DecidedInv'
  BY DEF BaseInv, DecidedInv, InPass, After, Running, IsListed, Share, asked
<1>2. result # "deleted"
  BY DEF BaseInv, ResultInv, InPass
<1> QED BY <1>1, <1>2 DEF BaseInv, asked, ResultInv, DeletedForGood

LEMMA BeginBase ==
  ASSUME BaseInv, NEW o \in {"delete", "create", "apply"}, Begin(o)
  PROVE  BaseInv'
<1>1. /\ UNCHANGED <<asked, parts, super, arrays>> /\ result' # "deleted"
      /\ local' = NoLocals /\ pc' \in {"idle", "plan", "scan"}
  BY DEF Begin, Ends, disk
<1>2. DiskInv'
  BY <1>1 DEF BaseInv, DiskInv, PartsInv, SuperInv, ArrayInv, UniqueInv, Running
<1>3. LocalInv' /\ local'.attempts = 0
  BY <1>1 DEF LocalInv, NoLocals
<1> QED BY <1>1, <1>2, <1>3, OutsidePass

LEMMA ScanBase ==
  ASSUME BaseInv, Scan
  PROVE  BaseInv'
<1>1. PICK new \in Assembly("assemble" \notin unreliable) : arrays' = Started(new)
  BY DEF Scan
<1>2. Running \subseteq Running' /\ Assembled(Visible)
  BY <1>1, ScanAssembles
<1>3. UNCHANGED <<asked, parts, super>>
  BY DEF Scan
<1>4. DiskInv'
  BY <1>2, <1>3, ScanKeepsDisk DEF BaseInv
<1>5. pc = "scan" /\ result # "deleted" /\ LocalInv
  BY DEF Scan, BaseInv, ResultInv
<1>6. CASE pc' = "decide"
  <2>1. result' = result /\ LocalInv' /\ local'.todo \subseteq Running'
    <3> DEFINE unknown == node.skip # {} /\ ~(Running' \subseteq DOMAIN local.decision)
               left == IF node.skip = {} THEN Running'
                       ELSE {m \in Running' : local.decision[m] = "delete"}
               again == [NoLocals EXCEPT !.attempts = local.attempts, !.todo = left]
    <3>1. IF local.attempts = 0 THEN Goes("decide", [local EXCEPT !.todo = Running'])
          ELSE IF unknown THEN Ends("key error")
          ELSE IF left = {} THEN Deleted
          ELSE IF local.attempts = 2 THEN Ends("not clean")
          ELSE Goes("decide", again)
      BY DEF Scan, Running
    <3>2. left \subseteq Running'
      OBVIOUS
    <3> HIDE DEF unknown, left
    <3>3. ~Ends("key error") /\ ~Ends("not clean") /\ ~Deleted
      BY <1>6 DEF Ends, Goes, Deleted
    <3>4. CASE Goes("decide", [local EXCEPT !.todo = Running'])
      <4>1. result' = result /\ local' = [local EXCEPT !.todo = Running']
        BY <3>4 DEF Goes
      <4> QED BY <4>1, <1>5, <1>6 DEF LocalInv
    <3>5. CASE Goes("decide", again)
      <4>1. result' = result /\ local' = again
        BY <3>5 DEF Goes
      <4> QED BY <4>1, <3>2, <1>5, <1>6, FreshLocals DEF LocalInv
    <3> QED BY <3>1, <3>3, <3>4, <3>5
  <2> QED BY <1>3, <1>4, <1>5, <1>6, <2>1
          DEF BaseInv, asked, TodoInv, DecidedInv, ResultInv, DeletedForGood, InPass, After
<1>7. CASE pc' # "decide" /\ result' # "deleted"
  <2>1. pc' \in {"idle", "plan"} /\ LocalInv'
    <3>1. pc' \in {"idle", "plan"} /\ local' = NoLocals
      BY <1>7 DEF Scan, Goes, Ends, Deleted
    <3> QED BY <3>1, FreshLocals DEF LocalInv
  <2> QED BY <1>3, <1>4, <1>7, <2>1, OutsidePass
<1>8. CASE pc' # "decide" /\ result' = "deleted"
  <2>1. /\ local.attempts # 0 /\ pc' = "idle" /\ local' = NoLocals
        /\ \/ node.skip = {} /\ Running' = {}
           \/ Running' \subseteq DOMAIN local.decision
              /\ \A m \in Running' : local.decision[m] # "delete"
    BY <1>5, <1>8 DEF Scan, Goes, Ends, Deleted, Running
  <2>2. DeletedForGood'
    <3> SUFFICES ASSUME NEW m \in Running'
                 PROVE  \E k \in Running' :
                          /\ arrays'[k].vol.name \in node'.skip
                          /\ DisksOf(arrays'[k].on) \cap DisksOf(arrays'[m].on) # {}
      BY DEF DeletedForGood, Running
    <3>1. m \in DOMAIN local.decision /\ local.decision[m] # "delete"
      BY <2>1
    <3>2. m \in Running /\ \E k \in Running : IsListed(k) /\ Share(k, m)
      BY <3>1, <2>1, <1>5 DEF BaseInv, DecidedInv, After
    <3>3. PICK k \in Running : IsListed(k) /\ Share(k, m)
      BY <3>2
    <3>4. k \in Running' /\ arrays'[k] = arrays[k] /\ arrays'[m] = arrays[m]
      BY <1>2, <3>2 DEF Assembled
    <3> QED BY <3>3, <3>4, <1>3 DEF IsListed, Share, asked
  <2> QED BY <1>3, <1>4, <2>1, <2>2
          DEF BaseInv, asked, LocalInv, NoLocals, TodoInv, DecidedInv, ResultInv, InPass, After
<1> QED BY <1>6, <1>7, <1>8

(* What fails is among what was asked for, and what was a wrong picture in *)
(* a step stays one.                                                       *)
LEMMA MissedSome ==
  ASSUME NEW tool, NEW S, NEW missed \in Missed(tool, S)
  PROVE  missed \subseteq S
BY DEF Missed

Failed == pc' = "idle" /\ local' = NoLocals /\ result' \notin {"deleted", "created"}

LEMMA DecideOutcome ==
  ASSUME Decide
  PROVE  /\ pc = "decide" /\ UNCHANGED <<node, unreliable, parts, super, arrays, wiped>>
         /\ \E unread \in SUBSET (Questions \X local.todo) :
              /\ doubted' = doubted \cup Doubt(unread)
              /\ \/ Failed
                 \/ Goes("devices", [local EXCEPT
                      !.attempts = @ + 1,
                      !.decision = IF node.skip = {} THEN [m \in local.todo |-> "delete"]
                                   ELSE Decision(local.todo, unread)])
<1>1. PICK unread \in Asked(local.todo) :
        /\ IF LostTrack(local.todo, unread) THEN Ends("key error")
           ELSE Goes("devices", [local EXCEPT
                  !.attempts = @ + 1,
                  !.decision = IF node.skip = {} THEN [m \in local.todo |-> "delete"]
                               ELSE Decision(local.todo, unread)])
        /\ doubted' = doubted \cup Doubt(unread)
  BY DEF Decide
<1>2. unread \subseteq Questions \X local.todo
  BY MissedSome DEF Asked
<1>3. pc = "decide" /\ UNCHANGED <<asked, disk>>
  BY Zenon DEF Decide
<1>4. Ends("key error") => Failed
  BY Zenon DEF Ends, Failed
<1> QED BY <1>1, <1>2, <1>3, <1>4, Zenon DEF asked, disk

LEMMA DecideBase ==
  ASSUME BaseInv, Decide
  PROVE  BaseInv'
<1> DEFINE verdict(unread) == IF node.skip = {} THEN [m \in local.todo |-> "delete"]
                              ELSE Decision(local.todo, unread)
<1>0. CASE Failed
  <2>1. /\ UNCHANGED <<asked, parts, super, arrays>>
        /\ pc' = "idle" /\ local' = NoLocals /\ result' # "deleted"
    BY <1>0, DecideOutcome DEF asked, Failed
  <2>2. LocalInv'
    BY <2>1, FreshLocals DEF LocalInv
  <2>3. DiskInv'
    BY <2>1 DEF BaseInv, DiskInv, PartsInv, SuperInv, ArrayInv, UniqueInv, Running
  <2> QED BY <2>1, <2>2, <2>3, OutsidePass
<1> SUFFICES ASSUME ~Failed PROVE BaseInv'
  BY <1>0
<1>1. PICK unread \in SUBSET (Questions \X local.todo) :
        Goes("devices", [local EXCEPT !.attempts = @ + 1, !.decision = verdict(unread)])
  BY DecideOutcome
<1>2. /\ pc = "decide" /\ UNCHANGED <<asked, parts, super, arrays, result>> /\ LocalInv
      /\ pc' = "devices" /\ local.todo \subseteq Running
  <2>1. pc = "decide" /\ UNCHANGED <<node, unreliable, parts, super, arrays>>
    BY DecideOutcome, Zenon
  <2> QED BY <1>1, <2>1 DEF Goes, asked, BaseInv, TodoInv
<1>3. /\ local'.todo = local.todo /\ LocalInv'
      /\ local'.decision = IF node.skip = {} THEN [m \in local.todo |-> "delete"]
                           ELSE Decision(local.todo, unread)
  BY <1>1, <1>2 DEF Goes, LocalInv
<1>4. DOMAIN local'.decision = local.todo
  BY <1>3 DEF Decision
<1>5. DiskInv' /\ TodoInv'
  BY <1>2, <1>3, <1>4
     DEF BaseInv, DiskInv, PartsInv, SuperInv, ArrayInv, UniqueInv, Running, TodoInv
<1>6. DecidedInv'
  <2> SUFFICES ASSUME NEW m \in local.todo, local'.decision[m] # "delete"
               PROVE  \E k \in local.todo :
                        local'.decision[k] = "keep" /\ IsListed(k) /\ Share(k, m)
    BY <1>2, <1>4 DEF DecidedInv, Running, IsListed, Share, asked
  <2>1. local'.decision = Decision(local.todo, unread)
    BY <1>3
  <2> QED BY <1>2, <2>1, Decided DEF BaseInv, DiskInv
<1>7. result # "deleted"
  BY <1>2 DEF BaseInv, ResultInv
<1> QED BY <1>2, <1>3, <1>5, <1>6, <1>7 DEF BaseInv, asked, ResultInv, DeletedForGood

LEMMA DeviceBase ==
  ASSUME BaseInv, NEW m \in Running, Device(m)
  PROVE  BaseInv'
<1>1. /\ pc = "devices" /\ UNCHANGED <<asked, parts, super, arrays, result>> /\ m \in local.todo
      /\ LocalInv /\ InPass
  BY DEF Device, Goes, BaseInv, InPass
<1>2. /\ local'.todo = local.todo \ {m} /\ local'.decision = local.decision /\ LocalInv'
      /\ \/ pc' = "devices"
         \/ pc' = "stop" /\ local'.cur = m /\ local.decision[m] = "delete"
  <2>1. PICK holders, keep, comps, cur :
          LET rest == [local EXCEPT !.todo = @ \ {m}]
              seen == [rest EXCEPT !.holders = holders]
          IN \/ pc' = "devices" /\ local' = rest
             \/ pc' = "devices" /\ local' = [seen EXCEPT !.keep = keep]
             \/ /\ pc' = "stop" /\ local.decision[m] = "delete"
                /\ local' = [seen EXCEPT !.cur = m, !.comps = comps]
    BY DEF Device, Goes
  <2> QED BY <1>1, <2>1 DEF LocalInv
<1>3. DiskInv' /\ TodoInv'
  BY <1>1, <1>2
     DEF BaseInv, DiskInv, PartsInv, SuperInv, ArrayInv, UniqueInv, Running, TodoInv, InPass
<1> QED BY <1>1, <1>2, <1>3, WithinPass

LEMMA StopBase ==
  ASSUME BaseInv, Stop
  PROVE  BaseInv'
<1>1. /\ pc = "stop" /\ UNCHANGED <<asked, parts, super, result>> /\ LocalInv /\ InPass
      /\ pc' = "zero" /\ local' = local
  BY DEF Stop, Goes, BaseInv, InPass
<1>2. CASE UNCHANGED arrays
  <2>1. DiskInv' /\ LocalInv' /\ TodoInv'
    BY <1>1, <1>2 DEF BaseInv, DiskInv, PartsInv, SuperInv, ArrayInv, UniqueInv, Running,
                      LocalInv, TodoInv, InPass
  <2> QED BY <1>1, <1>2, <2>1, WithinPass
<1>3. CASE arrays' = [m \in Running \ {local.cur} |-> arrays[m]]
  <2>1. Running' = Running \ {local.cur} /\ \A m \in Running' : arrays'[m] = arrays[m]
    BY <1>3 DEF Running
  <2>2. DiskInv'
    <3>1. Lessened /\ PartsInv'
      BY <1>1, <2>1 DEF Lessened, BaseInv, DiskInv, PartsInv
    <3> QED BY <3>1, LessKeepsDisk DEF BaseInv
  <2>3. LocalInv' /\ TodoInv'
    BY <1>1, <2>1 DEF BaseInv, LocalInv, TodoInv, InPass
  <2>4. local.decision[local.cur] = "delete"
    BY <1>1 DEF BaseInv, TodoInv
  <2>5. DecidedInv'
    BY <1>1, <2>1, <2>4 DEF BaseInv, DecidedInv, InPass, IsListed, Share, asked
  <2>6. result # "deleted"
    BY <1>1 DEF BaseInv, ResultInv
  <2> QED BY <1>1, <2>2, <2>3, <2>5, <2>6 DEF BaseInv, asked, ResultInv, DeletedForGood
<1> QED BY <1>2, <1>3 DEF Stop

LEMMA ZeroBase ==
  ASSUME BaseInv, Zero
  PROVE  BaseInv'
<1>1. PICK unread \in Missed("examine", local.comps) :
       LET done == IF unread = {} THEN local.comps
                   ELSE {c \in local.comps : \A u \in unread :
                           c[1] < u[1] \/ (c[1] = u[1] /\ c[2] < u[2])}
       IN /\ \E failed \in Missed("zero", done) : super' = Zeroed(done \ failed)
          /\ IF unread # {} THEN Ends("examine failed")
             ELSE Goes("devices", [local EXCEPT !.cur = 0, !.comps = {},
                     !.remove = IF node.skip = {} THEN {} ELSE @ \cup done])
  BY DEF Zero
<1>2. PICK S : super' = Zeroed(S)
  BY <1>1
<1>3. pc = "zero" /\ UNCHANGED <<asked, parts, arrays>> /\ LocalInv /\ InPass
  BY DEF Zero, BaseInv, InPass
<1>4. DiskInv'
  <2>1. Lessened /\ PartsInv'
    BY <1>2, <1>3, ZeroedLess DEF Lessened, Running, BaseInv, DiskInv, PartsInv
  <2> QED BY <2>1, LessKeepsDisk DEF BaseInv
<1>5. CASE unread # {}
  <2>1. pc' = "idle" /\ local' = NoLocals /\ result' # "deleted"
    BY <1>1, <1>5 DEF Ends
  <2>2. LocalInv'
    BY <2>1, FreshLocals DEF LocalInv
  <2> QED BY <1>3, <1>4, <2>1, <2>2, OutsidePass
<1>6. CASE unread = {}
  <2>1. /\ pc' = "devices" /\ result' = result /\ local'.todo = local.todo
        /\ local'.decision = local.decision /\ LocalInv'
    BY <1>1, <1>3, <1>6 DEF Goes, LocalInv
  <2>2. TodoInv'
    BY <1>3, <2>1 DEF BaseInv, TodoInv, InPass, Running
  <2> QED BY <1>3, <1>4, <2>1, <2>2, WithinPass
<1> QED BY <1>5, <1>6

LEMMA SweepBase ==
  ASSUME BaseInv, Sweep
  PROVE  BaseInv'
<1>1. /\ pc = "devices" /\ UNCHANGED <<asked, parts, arrays, result>> /\ LocalInv /\ InPass
      /\ pc' = "holders" /\ local' = local
  BY DEF Sweep, Goes, BaseInv, InPass
<1>2. PICK S : super' = Zeroed(S)
  BY DEF Sweep, Swept
<1>3. DiskInv'
  <2>1. Lessened /\ PartsInv'
    BY <1>1, <1>2, ZeroedLess DEF Lessened, Running, BaseInv, DiskInv, PartsInv
  <2> QED BY <2>1, LessKeepsDisk DEF BaseInv
<1>4. LocalInv' /\ TodoInv'
  BY <1>1 DEF BaseInv, LocalInv, TodoInv, InPass, Running
<1> QED BY <1>1, <1>3, <1>4, WithinPass

LEMMA HolderBase ==
  ASSUME BaseInv, NEW d \in Disks, Holder(d)
  PROVE  BaseInv'
<1>1. /\ pc = "holders" /\ UNCHANGED <<asked, super, arrays>> /\ LocalInv /\ InPass
  BY DEF Holder, BaseInv, InPass
<1>2. PartsInv'
  BY DEF Holder, BaseInv, DiskInv, PartsInv
<1>3. DiskInv'
  <2>1. Lessened
    BY <1>1 DEF Lessened, Running
  <2> QED BY <1>2, <2>1, LessKeepsDisk DEF BaseInv
<1>4. CASE Ends("rm failed")
  <2>1. pc' = "idle" /\ local' = NoLocals /\ result' # "deleted"
    BY <1>4 DEF Ends
  <2>2. LocalInv'
    BY <2>1, FreshLocals DEF LocalInv
  <2> QED BY <1>1, <1>3, <2>1, <2>2, OutsidePass
<1>5. CASE Goes("holders", [local EXCEPT !.holders = @ \ {d}])
  <2>1. /\ pc' = "holders" /\ result' = result /\ local'.todo = local.todo
        /\ local'.decision = local.decision /\ LocalInv'
    BY <1>1, <1>5 DEF Goes, LocalInv
  <2>2. TodoInv'
    BY <1>1, <2>1 DEF BaseInv, TodoInv, InPass, Running
  <2> QED BY <1>1, <1>3, <2>1, <2>2, WithinPass
<1> QED BY <1>4, <1>5 DEF Holder

LEMMA PassEndsBase ==
  ASSUME BaseInv, PassEnds
  PROVE  BaseInv'
<1>1. /\ UNCHANGED <<asked, parts, super, arrays, result>> /\ LocalInv /\ InPass
      /\ pc' = "scan" /\ local' = local
  BY DEF PassEnds, Goes, BaseInv, InPass, disk
<1>2. DiskInv' /\ LocalInv' /\ TodoInv'
  BY <1>1 DEF BaseInv, DiskInv, PartsInv, SuperInv, ArrayInv, UniqueInv, Running,
              LocalInv, TodoInv, InPass
<1> QED BY <1>1, <1>2, WithinPass

-----------------------------------------------------------------------------
(* The creation, and the boot *)

LEMMA PlanBase ==
  ASSUME BaseInv, Plan
  PROVE  BaseInv'
<1>1. /\ UNCHANGED <<asked, parts, super, arrays>> /\ LocalInv /\ result # "deleted"
      /\ pc' \in {"idle", "label"}
  BY DEF Plan, disk, BaseInv, ResultInv, Ends, Goes
<1>2. LocalInv' /\ result' # "deleted"
  <2>1. /\ result' # "deleted"
        /\ \/ local' = NoLocals
           \/ \E plan, used : local' = [NoLocals EXCEPT !.lds = plan, !.todo = used]
    BY <1>1 DEF Plan, Ends, Goes
  <2>2. CASE local' = NoLocals
    BY <1>1, <2>1, <2>2, FreshLocals DEF LocalInv
  <2>3. ASSUME NEW plan, NEW used, local' = [NoLocals EXCEPT !.lds = plan, !.todo = used]
        PROVE  LocalInv'
    <3>1. /\ DOMAIN local' = DOMAIN NoLocals
          /\ local'.attempts = NoLocals.attempts /\ local'.next = NoLocals.next
      BY <2>3, FreshLocals
    <3> QED BY <1>1, <3>1, FreshLocals DEF LocalInv
  <2> QED BY <2>1, <2>2, <2>3
<1>3. DiskInv'
  BY <1>1 DEF BaseInv, DiskInv, PartsInv, SuperInv, ArrayInv, UniqueInv, Running
<1> QED BY <1>1, <1>2, <1>3, OutsidePass

LEMMA LabelBase ==
  ASSUME BaseInv, Label
  PROVE  BaseInv'
<1>1. /\ UNCHANGED <<asked, super, arrays>> /\ LocalInv /\ result # "deleted" /\ PartsInv'
  BY DEF Label, BaseInv, ResultInv, DiskInv, PartsInv
<1>2. LocalInv' /\ result' # "deleted" /\ pc' \in {"idle", "mkpart"}
  <2>1. /\ result' # "deleted" /\ pc' \in {"idle", "mkpart"}
        /\ local' \in {local, NoLocals}
    BY <1>1 DEF Label, Ends, Goes
  <2> QED BY <1>1, <2>1, FreshLocals DEF LocalInv
<1>3. DiskInv'
  <2>1. Lessened
    BY <1>1 DEF Lessened, Running
  <2> QED BY <1>1, <2>1, LessKeepsDisk DEF BaseInv
<1> QED BY <1>1, <1>2, <1>3, OutsidePass

LEMMA MakePartsBase ==
  ASSUME BaseInv, MakeParts
  PROVE  BaseInv'
<1>1. /\ UNCHANGED <<asked, super, arrays>> /\ LocalInv /\ result # "deleted"
  BY DEF MakeParts, BaseInv, ResultInv
<1>2. PartsInv'
  <2>1. parts \in [Disks -> SUBSET (1 .. MaxParts)]
    BY DEF BaseInv, DiskInv, PartsInv
  <2> DEFINE free(d) == (1 .. MaxParts) \ parts[d]
             full == {d \in Disks : free(d) = {}}
  <2>2. PICK done : /\ \A y \in done : y \notin full
                    /\ parts' = [d \in Disks |-> IF d \in done THEN parts[d] \cup {Least(free(d))}
                                                 ELSE parts[d]]
    <3> DEFINE devs == local.lds[local.next].devs
               before == [y \in devs |-> {x \in devs : x < y}]
    <3>1. \E done \in Treated(before, full, "mkpart") :
            parts' = [d \in Disks |-> IF d \in done THEN parts[d] \cup {Least(free(d))}
                                      ELSE parts[d]]
      BY DEF MakeParts
    <3>2. ASSUME NEW done \in Treated(before, full, "mkpart") PROVE \A y \in done : y \notin full
      BY <3>2 DEF Treated
    <3> HIDE DEF before, full, free
    <3> QED BY <3>1, <3>2
  <2>3. ASSUME NEW d \in Disks, d \in done PROVE Least(free(d)) \in free(d)
    <3>1. free(d) # {} /\ free(d) \subseteq Nat
      BY <2>2, <2>3
    <3> QED BY <3>1, LeastOfMany
  <2> QED BY <2>1, <2>2, <2>3 DEF PartsInv
<1>3. /\ result' # "deleted" /\ pc' \in {"idle", "mkpart", "mkarray"} /\ LocalInv'
  <2>1. /\ result' # "deleted" /\ pc' \in {"idle", "mkpart", "mkarray"}
        /\ \/ local' \in {local, NoLocals}
           \/ local' = [local EXCEPT !.next = @ + 1] \/ local' = [local EXCEPT !.next = 1]
    BY <1>1 DEF MakeParts, Ends, Goes
  <2> QED BY <1>1, <2>1, FreshLocals DEF LocalInv
<1>4. DiskInv'
  <2>1. Lessened
    BY <1>1 DEF Lessened, Running
  <2> QED BY <1>2, <2>1, LessKeepsDisk DEF BaseInv
<1> QED BY <1>1, <1>3, <1>4, OutsidePass

LEMMA MakeArrayBase ==
  ASSUME BaseInv, MakeArray
  PROVE  BaseInv'
<1>1. /\ UNCHANGED asked /\ LocalInv /\ result # "deleted"
  BY DEF MakeArray, BaseInv, ResultInv
<1>2. /\ result' # "deleted" /\ pc' \in {"idle", "mkarray"} /\ LocalInv'
  <2>1. /\ result' # "deleted" /\ pc' \in {"idle", "mkarray"}
        /\ local' = NoLocals \/ local' = [local EXCEPT !.next = @ + 1]
    BY <1>1 DEF MakeArray, Ends, Goes
  <2> QED BY <1>1, <2>1, FreshLocals DEF LocalInv
<1>3. DiskInv'
  BY ArrayKeepsDisk DEF BaseInv
<1> QED BY <1>1, <1>2, <1>3, OutsidePass

LEMMA RebootBase ==
  ASSUME BaseInv, Reboot
  PROVE  BaseInv'
<1>1. /\ UNCHANGED asked /\ pc' = "idle" /\ local' = NoLocals /\ result' # "deleted"
  BY DEF Reboot, Ends
<1>2. LocalInv'
  BY <1>1, FreshLocals DEF LocalInv
<1>3. DiskInv'
  BY RebootKeepsDisk DEF BaseInv
<1> QED BY <1>1, <1>2, <1>3, OutsidePass

LEMMA BaseStep == BaseInv /\ [Next]_vars => BaseInv'
<1> SUFFICES ASSUME BaseInv, [Next]_vars PROVE BaseInv'
  OBVIOUS
<1>1. ASSUME NEW o \in {"delete", "create", "apply"}, Begin(o) PROVE BaseInv'
  BY <1>1, BeginBase
<1>2. CASE Deleting
  <2>1. ASSUME NEW m \in Running, Device(m) PROVE BaseInv'
    BY <2>1, DeviceBase
  <2>2. ASSUME NEW d \in Disks, Holder(d) PROVE BaseInv'
    BY <2>2, HolderBase
  <2> QED BY <1>2, <2>1, <2>2, ScanBase, DecideBase, StopBase, ZeroBase, SweepBase,
             PassEndsBase DEF Deleting
<1>3. CASE Creating
  BY <1>3, PlanBase, LabelBase, MakePartsBase, MakeArrayBase DEF Creating
<1>4. CASE Reboot
  BY <1>4, RebootBase
<1>5. CASE UNCHANGED vars
  BY <1>5 DEF vars, asked, disk, BaseInv, DiskInv, PartsInv, SuperInv, ArrayInv, UniqueInv, Running,
              LocalInv, TodoInv, DecidedInv, ResultInv, DeletedForGood, InPass, After,
              IsListed, Share
<1> QED BY <1>1, <1>2, <1>3, <1>4, <1>5 DEF Next

\* What runs is made of its own members, a volume runs once, and a pass of the
\* deletion works on what runs.
THEOREM BaseIsInvariant == Spec => []BaseInv
<1> QED BY Starts, BaseStep, PTL DEF Spec

\* delete_configuration: once it has ended well, only listed arrays and those
\* that share a disk with one run, whatever tools failed on the way and whatever
\* a scan assembled again.
THEOREM NothingElseRuns == Spec => []DeletedForGood
<1>1. BaseInv => DeletedForGood
  BY DEF BaseInv
<1> QED BY <1>1, BaseIsInvariant, PTL
\* mdadm never runs two arrays over one member, whatever was assembled, created
\* or left half deleted.
THEOREM MembersAreDisjoint == Spec => []DisjointMembers
<1>1. BaseInv => DisjointMembers
  BY DEF DisjointMembers, BaseInv, DiskInv, ArrayInv, UniqueInv
<1> QED BY <1>1, BaseIsInvariant, PTL

-----------------------------------------------------------------------------
(* Safeguarded volumes                                                     *)

(* A listed array whose disks mdadm has not misrepresented.                *)
Known(k) == IsListed(k) /\ DisksOf(arrays[k].on) \cap doubted = {}

(* What a pass is to work on is all that runs, or nothing near a known     *)
(* array.                                                                  *)
NearInv ==
  /\ pc = "decide" \/ (pc = "scan" /\ local.attempts = 0) =>
       local.holders = {} /\ local.keep = {}
  /\ pc = "decide" =>
       \/ local.todo = Running
       \/ \A k \in Running : Known(k) => \A m \in local.todo : ~Share(k, m)

(* A known array is kept, and what is deleted shares no disk with one.     *)
KeptInv ==
  /\ InPass =>
       /\ local.attempts # 0
       /\ \A k \in Running \cap DOMAIN local.decision :
            Known(k) => local.decision[k] = "keep"
  /\ InPass \/ After =>
       \A m \in Running \cap DOMAIN local.decision : local.decision[m] = "delete" =>
         \A k \in Running : Known(k) => ~Share(k, m)

(* The disks whose tables go are not those of a known array, unless its    *)
(* members are known as those to keep.                                     *)
HolderInv ==
  /\ pc = "holders" => local.todo = {}
  /\ InPass => \A k \in Running : Known(k) =>
       \/ k \in local.todo
       \/ arrays[k].on \subseteq local.keep
       \/ /\ DisksOf(arrays[k].on) \cap local.holders = {}
          /\ \A m \in local.todo : ~Share(k, m)

(* What is kept belongs to an array that goes on running, so that a pass   *)
(* leaves no superblock but of what runs, or on a disk that is doubted.    *)
KeepInv ==
  /\ InPass => \A c \in local.keep : c \in Comps /\ \E m \in Running \cap DOMAIN local.decision :
       local.decision[m] # "delete" /\ super[c] = arrays[m].vol
  /\ pc \in {"stop", "zero"} => local.comps \cap local.keep = {}
  /\ pc = "holders" \/ After =>
       \A c \in Visible : super[c] # Blank =>
         c[1] \in doubted \/ \E m \in Running : super[c] = arrays[m].vol

(* An array is relabelled only after the disks that it is on.              *)
LabelInv == pc = "label" => local.todo \subseteq Disks \cup {0} \/ Disks \subseteq local.todo

SafeInv == NearInv /\ KeptInv /\ HolderInv /\ KeepInv /\ LabelInv

LEMMA KnownBefore ==
  ASSUME NEW k \in Running, arrays'[k] = arrays[k], UNCHANGED node, doubted \subseteq doubted',
         Known(k)'
  PROVE  Known(k)
BY DEF Known, IsListed

LEMMA SharesItself ==
  ASSUME ArrayInv, NEW m \in Running
  PROVE  Share(m, m)
BY DEF ArrayInv, Share, DisksOf

(* What is known when the questions are answered is kept, and its          *)
(* neighbours are not deleted.                                             *)
LEMMA KnownAreKept ==
  ASSUME ArrayInv, NEW raids \in SUBSET Running, NEW m \in raids, node \in Nodes,
         NEW unread \in SUBSET (Questions \X raids), NEW k \in raids, IsListed(k),
         DisksOf(arrays[k].on) \cap Doubt(unread) = {}
  PROVE  /\ Decision(raids, unread)[k] = "keep"
         /\ Decision(raids, unread)[m] = "delete" => ~Share(k, m)
<1>1. ASSUME NEW q, NEW j \in raids, <<q, j>> \in unread
      PROVE  DisksOf(arrays[j].on) \subseteq Doubt(unread)
  BY <1>1 DEF Doubt
<1>2. DisksOf(arrays[k].on) # {}
  BY DEF ArrayInv, DisksOf
<1>3. \A q : <<q, k>> \notin unread
  BY <1>1, <1>2
<1>4. Listed(k, unread) /\ Holders("again", k, unread) = DisksOf(arrays[k].on)
  BY <1>3, RaidAssumption DEF RaidAssumption, Listed, NameOf, IsListed, Holders
<1>5. Decision(raids, unread)[k] = "keep"
  BY <1>4 DEF Decision
<1>6. ASSUME Decision(raids, unread)[m] = "delete", Share(k, m) PROVE FALSE
  <2>1. k # m
    BY <1>5, <1>6
  <2>2. <<"holders", m>> \notin unread
    BY <1>1, <1>6 DEF Share
  <2>3. Holders("holders", m, unread) = DisksOf(arrays[m].on)
    BY <2>2 DEF Holders
  <2>4. Holders("again", k, unread) \cap Holders("holders", m, unread) # {}
    BY <1>4, <1>6, <2>3 DEF Share
  <2> QED BY <1>4, <1>6, <2>1, <2>4 DEF Decision
<1> QED BY <1>5, <1>6

(* Outside of a pass, only the disks to be relabelled matter.              *)
LEMMA OutsideSafe ==
  ASSUME pc' \in {"idle", "scan", "plan", "mkpart", "mkarray"},
         pc' = "scan" => /\ local'.attempts = 0
                         /\ local'.holders = {} /\ local'.keep = {}
  PROVE  SafeInv'
BY DEF SafeInv, NearInv, KeptInv, HolderInv, KeepInv, LabelInv, InPass, After

LEMMA StartsSafe == Init => SafeInv
BY DEF Init, SafeInv, NearInv, KeptInv, HolderInv, KeepInv, LabelInv, InPass, After

LEMMA ScanSafe ==
  ASSUME BaseInv, SafeInv, Scan
  PROVE  SafeInv'
<1>1. PICK new \in Assembly("assemble" \notin unreliable) : arrays' = Started(new)
  BY DEF Scan
<1>2. Running \subseteq Running' /\ Assembled(Visible)
  BY <1>1, ScanAssembles
<1>3. pc = "scan" /\ UNCHANGED <<asked, parts, super, doubted>> /\ LocalInv /\ ArrayInv
  BY DEF Scan, BaseInv, DiskInv
<1>4. CASE pc' # "decide"
  <2>1. pc' \in {"idle", "plan"}
    BY <1>4 DEF Scan, Goes, Ends, Deleted
  <2> QED BY <2>1, OutsideSafe
<1>5. CASE pc' = "decide"
  <2> SUFFICES NearInv'
    BY <1>5 DEF SafeInv, KeptInv, HolderInv, KeepInv, LabelInv, InPass, After
  <2>1. \/ local.attempts = 0 /\ local' = [local EXCEPT !.todo = DOMAIN arrays']
        \/ /\ local.attempts # 0
           /\ local' = [NoLocals EXCEPT !.attempts = local.attempts, !.todo = DOMAIN arrays']
        \/ \E left : /\ local.attempts # 0 /\ DOMAIN arrays' \subseteq DOMAIN local.decision
                     /\ left = {m \in DOMAIN arrays' : local.decision[m] = "delete"}
                     /\ local' = [NoLocals EXCEPT !.attempts = local.attempts, !.todo = left]
    BY <1>5 DEF Scan, Goes, Ends, Deleted
  <2>2. CASE local.attempts = 0 /\ local' = [local EXCEPT !.todo = DOMAIN arrays']
    <3>1. local'.todo = Running' /\ local'.holders = local.holders /\ local'.keep = local.keep
      BY <2>2, <1>3 DEF LocalInv, Running
    <3>2. local.holders = {} /\ local.keep = {}
      BY <1>3, <2>2 DEF SafeInv, NearInv
    <3> QED BY <3>1, <3>2 DEF NearInv
  <2>3. CASE local' = [NoLocals EXCEPT !.attempts = local.attempts, !.todo = DOMAIN arrays']
    BY <2>3 DEF NearInv, NoLocals, Running
  <2>4. ASSUME NEW left, local.attempts # 0, DOMAIN arrays' \subseteq DOMAIN local.decision,
               left = {m \in DOMAIN arrays' : local.decision[m] = "delete"},
               local' = [NoLocals EXCEPT !.attempts = local.attempts, !.todo = left]
        PROVE  NearInv'
    <3>1. After
      BY <1>3, <2>4 DEF After
    <3>2. \A m \in Running : m \in Running' /\ arrays'[m] = arrays[m]
      BY <1>2 DEF Assembled
    <3>3. ASSUME NEW m \in Running', m \notin Running
          PROVE  DisksOf(arrays'[m].on) \subseteq doubted /\ DisksOf(arrays'[m].on) # {}
      <4>1. /\ arrays'[m].on = {c \in Visible : super[c] = arrays'[m].vol}
            /\ arrays'[m].on # {} /\ arrays'[m].vol # Blank
            /\ \A k \in Running : arrays'[m].vol # arrays[k].vol
        BY <1>2, <3>3 DEF Assembled, Members
      <4>2. \A c \in arrays'[m].on : c[1] \in doubted
        BY <3>1, <4>1 DEF SafeInv, KeepInv
      <4> QED BY <4>1, <4>2 DEF DisksOf
    <3>4. local'.holders = {} /\ local'.keep = {} /\ local'.todo = left
      BY <2>4 DEF NoLocals
    <3>5. ASSUME NEW k \in Running', NEW m \in left, Known(k)' PROVE ~Share(k, m)'
      <4>1. k \in Running
        BY <1>3, <3>3, <3>5 DEF Known
      <4>2. Known(k) /\ arrays'[k] = arrays[k]
        BY <1>3, <3>2, <3>5, <4>1, KnownBefore DEF asked
      <4>3. CASE m \in Running
        <5>1. local.decision[m] = "delete" /\ m \in DOMAIN local.decision /\ arrays'[m] = arrays[m]
          BY <2>4, <3>2, <4>3
        <5>2. ~Share(k, m)
          BY <3>1, <4>1, <4>2, <4>3, <5>1 DEF SafeInv, KeptInv
        <5> QED BY <4>2, <5>1, <5>2 DEF Share
      <4>4. CASE m \notin Running
        <5>1. DisksOf(arrays'[m].on) \subseteq doubted
          BY <2>4, <3>3, <4>4 DEF Running
        <5>2. DisksOf(arrays'[k].on) \cap doubted = {}
          BY <4>2 DEF Known
        <5> QED BY <5>1, <5>2 DEF Share
      <4> QED BY <4>3, <4>4
    <3> QED BY <1>5, <3>4, <3>5 DEF NearInv
  <2> QED BY <2>1, <2>2, <2>3, <2>4
<1> QED BY <1>4, <1>5

LEMMA DecideSafe ==
  ASSUME BaseInv, SafeInv, Decide
  PROVE  SafeInv'
<1> DEFINE verdict(unread) == IF node.skip = {} THEN [m \in local.todo |-> "delete"]
                              ELSE Decision(local.todo, unread)
<1>0. CASE Failed
  BY <1>0, OutsideSafe DEF Failed
<1> SUFFICES ASSUME ~Failed PROVE SafeInv'
  BY <1>0
<1>1. PICK unread \in SUBSET (Questions \X local.todo) :
        /\ doubted' = doubted \cup Doubt(unread)
        /\ Goes("devices", [local EXCEPT !.attempts = @ + 1, !.decision = verdict(unread)])
  BY DecideOutcome
<1>2. /\ pc = "decide" /\ UNCHANGED <<asked, parts, super, arrays>> /\ LocalInv
      /\ pc' = "devices" /\ local.todo \subseteq Running /\ node \in Nodes /\ ArrayInv
  <2>1. pc = "decide" /\ UNCHANGED <<node, unreliable, parts, super, arrays>>
    BY DecideOutcome, Zenon
  <2> QED BY <1>1, <2>1 DEF Goes, asked, BaseInv, DiskInv, TodoInv
<1> HIDE DEF verdict
<1>3. /\ local'.todo = local.todo /\ local'.decision = verdict(unread)
      /\ local'.holders = {} /\ local'.keep = {} /\ local'.attempts # 0
  BY <1>1, <1>2 DEF Goes, LocalInv, SafeInv, NearInv
<1>4. DOMAIN verdict(unread) = local.todo
  BY DEF verdict, Decision
<1>5. ASSUME NEW k \in Running, Known(k)'
      PROVE  Known(k) /\ DisksOf(arrays[k].on) \cap Doubt(unread) = {}
  <2>1. Known(k)
    BY <1>1, <1>2, <1>5, KnownBefore DEF asked
  <2>2. DisksOf(arrays[k].on) \cap (doubted \cup Doubt(unread)) = {}
    BY <1>1, <1>2, <1>5 DEF Known
  <2> QED BY <2>1, <2>2
<1>6. ASSUME NEW k \in local.todo, Known(k)'
      PROVE  /\ verdict(unread)[k] = "keep"
             /\ \A m \in local.todo : verdict(unread)[m] = "delete" => ~Share(k, m)
  <2>1. k \in Running /\ IsListed(k) /\ DisksOf(arrays[k].on) \cap Doubt(unread) = {}
    BY <1>2, <1>5, <1>6 DEF Known
  <2>2. verdict(unread) = Decision(local.todo, unread)
    BY <2>1 DEF verdict, IsListed
  <2>3. ASSUME NEW m \in local.todo
        PROVE  /\ Decision(local.todo, unread)[k] = "keep"
               /\ Decision(local.todo, unread)[m] = "delete" => ~Share(k, m)
    BY <1>2, <1>6, <2>1, KnownAreKept
  <2> QED BY <1>6, <2>2, <2>3
<1>7. ASSUME NEW m \in local.todo, verdict(unread)[m] = "delete", NEW k \in Running, Known(k)'
      PROVE  ~Share(k, m)
  <2>1. CASE k \in local.todo
    BY <1>6, <1>7, <2>1
  <2>2. CASE k \notin local.todo
    BY <1>2, <1>5, <1>7, <2>2 DEF SafeInv, NearInv
  <2> QED BY <2>1, <2>2
<1>8. Running' = Running /\ \A k, m \in Running : Share(k, m)' <=> Share(k, m)
  BY <1>2 DEF Running, Share
<1>9. KeptInv'
  BY <1>2, <1>3, <1>4, <1>6, <1>7, <1>8 DEF KeptInv, InPass, After
<1>10. HolderInv'
  <2>1. \A k \in Running : Known(k) => k \in local.todo \/ \A m \in local.todo : ~Share(k, m)
    BY <1>2 DEF SafeInv, NearInv
  <2> QED BY <1>2, <1>3, <1>5, <1>8, <2>1 DEF HolderInv, InPass
<1> QED BY <1>2, <1>3, <1>9, <1>10 DEF SafeInv, NearInv, KeepInv, LabelInv, InPass, After

(* What is found of an array: members are missed only where it is doubted. *)
LEMMA DeviceFinds ==
  ASSUME BaseInv, NEW m \in Running, Device(m)
  PROVE  \E comps, hs :
           /\ comps \subseteq {c \in Visible : super[c] = arrays[m].vol}
           /\ hs \subseteq DisksOf(arrays[m].on)
           /\ Known(m)' => arrays[m].on \subseteq comps
           /\ doubted \subseteq doubted'
           /\ LET rest == [local EXCEPT !.todo = @ \ {m}]
                  seen == [rest EXCEPT !.holders = @ \cup hs]
              IN \/ comps = {} /\ pc' = "devices" /\ local' = rest
                 \/ /\ local.decision[m] # "delete" /\ pc' = "devices"
                    /\ local' = [seen EXCEPT !.keep = @ \cup comps]
                 \/ /\ local.decision[m] = "delete" /\ pc' = "stop"
                    /\ local' = [seen EXCEPT !.cur = m, !.comps = comps]
<1> DEFINE rest == [local EXCEPT !.todo = @ \ {m}]
           far(hs) == [rest EXCEPT !.holders = @ \cup hs]
           handled(cs, hs) ==
             \/ cs = {} /\ pc' = "devices" /\ local' = rest
             \/ /\ local.decision[m] # "delete" /\ pc' = "devices"
                /\ local' = [far(hs) EXCEPT !.keep = @ \cup cs]
             \/ /\ local.decision[m] = "delete" /\ pc' = "stop"
                /\ local' = [far(hs) EXCEPT !.cur = m, !.comps = cs]
<1>1. PICK unseen \in Missed("examine", arrays[m].on),
           unread \in Missed("detail", {"uuid", "holders"} \X {m}) :
        /\ handled(Components(m, unread, unseen), Holders("holders", m, unread))
        /\ doubted' = doubted \cup Doubt(unread) \cup DisksOf(unseen)
  BY DEF Device, Goes
<1> HIDE DEF handled
<1>2. /\ unseen \subseteq arrays[m].on /\ unread \subseteq {"uuid", "holders"} \X {m}
      /\ UNCHANGED arrays /\ ArrayInv
  BY MissedSome DEF Device, BaseInv, DiskInv
<1>3. Components(m, unread, unseen) \subseteq {c \in Visible : super[c] = arrays[m].vol}
  BY DEF Components
<1>4. Holders("holders", m, unread) \subseteq DisksOf(arrays[m].on)
  BY DEF Holders
<1>5. ASSUME Known(m)' PROVE arrays[m].on \subseteq Components(m, unread, unseen)
  <2>1. DisksOf(arrays[m].on) \cap doubted' = {} /\ DisksOf(arrays[m].on) # {}
    BY <1>2, <1>5 DEF Known, ArrayInv, DisksOf
  <2>2. unseen = {}
    <3>1. DisksOf(unseen) \subseteq DisksOf(arrays[m].on) /\ DisksOf(unseen) \subseteq doubted'
      BY <1>1, <1>2 DEF DisksOf
    <3>2. DisksOf(unseen) = {}
      BY <2>1, <3>1
    <3> QED BY <3>2 DEF DisksOf
  <2>3. <<"uuid", m>> \notin unread
    <3>1. ASSUME <<"uuid", m>> \in unread PROVE DisksOf(arrays[m].on) \subseteq Doubt(unread)
      BY <3>1 DEF Doubt
    <3> QED BY <1>1, <2>1, <3>1
  <2>4. arrays[m].on \subseteq {c \in Visible : super[c] = arrays[m].vol}
    BY <1>2 DEF ArrayInv, Visible, Busy
  <2> QED BY <2>2, <2>3, <2>4 DEF Components
<1>6. doubted \subseteq doubted'
  BY <1>1
<1>7. handled(Components(m, unread, unseen), Holders("holders", m, unread))
  BY <1>1
<1> QED BY <1>3, <1>4, <1>5, <1>6, <1>7 DEF handled

LEMMA DeviceSafe ==
  ASSUME BaseInv, SafeInv, NEW m \in Running, Device(m)
  PROVE  SafeInv'
<1>1. /\ pc = "devices" /\ UNCHANGED <<asked, parts, super, arrays, result>> /\ m \in local.todo
      /\ LocalInv /\ InPass /\ ArrayInv /\ UniqueInv
  BY DEF Device, Goes, BaseInv, DiskInv, InPass
<1> DEFINE mine == {c \in Visible : super[c] = arrays[m].vol}
<1>2. PICK comps, hs :
        /\ comps \subseteq mine
        /\ hs \subseteq DisksOf(arrays[m].on)
        /\ Known(m)' => arrays[m].on \subseteq comps
        /\ doubted \subseteq doubted'
        /\ LET rest == [local EXCEPT !.todo = @ \ {m}]
               seen == [rest EXCEPT !.holders = @ \cup hs]
           IN \/ comps = {} /\ pc' = "devices" /\ local' = rest
              \/ /\ local.decision[m] # "delete" /\ pc' = "devices"
                 /\ local' = [seen EXCEPT !.keep = @ \cup comps]
              \/ /\ local.decision[m] = "delete" /\ pc' = "stop"
                 /\ local' = [seen EXCEPT !.cur = m, !.comps = comps]
  BY DeviceFinds
<1>3. mine \subseteq Comps
  BY <1>1, VisibleComps
<1>4. \A c \in mine : super[c] = arrays[m].vol
  OBVIOUS
<1> HIDE DEF mine
<1>5. /\ local'.todo = local.todo \ {m}
      /\ local'.decision = local.decision /\ local'.attempts = local.attempts
      /\ \/ /\ comps = {} /\ pc' = "devices"
            /\ local'.holders = local.holders /\ local'.keep = local.keep
         \/ /\ local.decision[m] # "delete" /\ pc' = "devices"
            /\ local'.holders = local.holders \cup hs /\ local'.keep = local.keep \cup comps
         \/ /\ local.decision[m] = "delete" /\ pc' = "stop"
            /\ local'.holders = local.holders \cup hs
            /\ local'.keep = local.keep /\ local'.comps = comps
  BY <1>1, <1>2 DEF LocalInv
<1>6. m \in DOMAIN local.decision
  BY <1>1 DEF BaseInv, TodoInv, InPass
<1>7. /\ Running' = Running
      /\ \A k, j \in Running : Share(k, j)' <=> Share(k, j)
      /\ \A k \in Running : Known(k)' => Known(k)
  BY <1>1, <1>2, KnownBefore DEF Running, Share, asked
<1>8. KeptInv'
  BY <1>1, <1>5, <1>7 DEF SafeInv, KeptInv, InPass, After
<1>9. HolderInv'
  <2> SUFFICES ASSUME NEW k \in Running, Known(k)'
               PROVE  \/ k \in local'.todo
                      \/ arrays[k].on \subseteq local'.keep
                      \/ /\ DisksOf(arrays[k].on) \cap local'.holders = {}
                         /\ \A j \in local'.todo : ~Share(k, j)
    <3>1. \A j \in local'.todo : j \in Running
      BY <1>1, <1>5 DEF BaseInv, TodoInv, InPass
    <3> QED BY <1>1, <1>5, <1>7, <3>1 DEF HolderInv, InPass
  <2>0. Known(k)
    BY <1>7
  <2>1. CASE k = m
    <3>1. arrays[k].on \subseteq comps /\ comps # {}
      BY <1>1, <1>2, <2>1 DEF ArrayInv
    <3>2. local.decision[m] # "delete"
      BY <1>1, <1>6, <2>0, <2>1 DEF SafeInv, KeptInv
    <3> QED BY <1>5, <3>1, <3>2
  <2>2. CASE k # m
    <3>1. \/ k \in local.todo
          \/ arrays[k].on \subseteq local.keep
          \/ /\ DisksOf(arrays[k].on) \cap local.holders = {}
             /\ \A j \in local.todo : ~Share(k, j)
      BY <1>1, <2>0 DEF SafeInv, HolderInv
    <3>2. ~Share(k, m) => DisksOf(arrays[k].on) \cap hs = {}
      BY <1>2 DEF Share
    <3> QED BY <1>1, <1>5, <2>2, <3>1, <3>2
  <2> QED BY <2>1, <2>2
<1>10. \A c \in local.keep : c \in Comps /\ \E k \in Running \cap DOMAIN local.decision :
         local.decision[k] # "delete" /\ super[c] = arrays[k].vol
  BY <1>1 DEF SafeInv, KeepInv
<1>11. KeepInv'
  <2>1. \A c \in local'.keep : c \in Comps /\ \E k \in Running \cap DOMAIN local.decision :
          local.decision[k] # "delete" /\ super[c] = arrays[k].vol
    BY <1>2, <1>3, <1>4, <1>5, <1>6, <1>10
  <2>2. pc' = "stop" => local'.comps \cap local'.keep = {}
    BY <1>1, <1>2, <1>4, <1>5, <1>10 DEF UniqueInv
  <2>3. pc' \in {"devices", "stop"}
    BY <1>5
  <2> QED BY <1>1, <1>5, <1>7, <2>1, <2>2, <2>3 DEF KeepInv, InPass, After
<1> QED BY <1>5, <1>8, <1>9, <1>11 DEF SafeInv, NearInv, LabelInv

LEMMA StopSafe ==
  ASSUME BaseInv, SafeInv, Stop
  PROVE  SafeInv'
<1>1. /\ pc = "stop" /\ UNCHANGED <<asked, parts, super, doubted>> /\ pc' = "zero" /\ local' = local
      /\ InPass /\ ArrayInv
  BY DEF Stop, Goes, InPass, BaseInv, DiskInv
<1>2. /\ Running' \subseteq Running /\ Running \ {local.cur} \subseteq Running'
      /\ \A m \in Running' : arrays'[m] = arrays[m]
  BY DEF Stop, Running
<1>3. /\ local.decision[local.cur] = "delete"
      /\ local.cur \in DOMAIN local.decision \ local.todo /\ local.todo \subseteq Running
  BY <1>1 DEF BaseInv, TodoInv, InPass
<1>4. KeptInv'
  BY <1>1, <1>2 DEF SafeInv, KeptInv, InPass, After, Known, IsListed, Share, asked
<1>5. HolderInv'
  <2>1. ASSUME NEW k \in Running', Known(k)'
        PROVE  \/ k \in local.todo
               \/ arrays[k].on \subseteq local.keep
               \/ /\ DisksOf(arrays[k].on) \cap local.holders = {}
                  /\ \A m \in local.todo : ~Share(k, m)
    <3>1. k \in Running /\ Known(k)
      BY <1>1, <1>2, <2>1, KnownBefore DEF asked
    <3> QED BY <1>1, <3>1 DEF SafeInv, HolderInv
  <2>2. local.todo \subseteq Running'
    BY <1>2, <1>3
  <2> QED BY <1>1, <1>2, <2>1, <2>2 DEF HolderInv, Share
<1>6. KeepInv'
  <2>1. \A c \in local.keep : c \in Comps /\ \E m \in Running \cap DOMAIN local.decision :
          local.decision[m] # "delete" /\ super[c] = arrays[m].vol
    BY <1>1 DEF SafeInv, KeepInv
  <2>2. local.comps \cap local.keep = {}
    BY <1>1 DEF SafeInv, KeepInv
  <2> QED BY <1>1, <1>2, <1>3, <2>1, <2>2 DEF KeepInv, InPass, After
<1> QED BY <1>1, <1>4, <1>5, <1>6 DEF SafeInv, NearInv, LabelInv

LEMMA ZeroSafe ==
  ASSUME BaseInv, SafeInv, Zero
  PROVE  SafeInv'
<1>1. PICK unread \in Missed("examine", local.comps) :
       LET done == IF unread = {} THEN local.comps
                   ELSE {c \in local.comps : \A u \in unread :
                           c[1] < u[1] \/ (c[1] = u[1] /\ c[2] < u[2])}
       IN /\ \E failed \in Missed("zero", done) : super' = Zeroed(done \ failed)
          /\ IF unread # {} THEN Ends("examine failed")
             ELSE Goes("devices", [local EXCEPT !.cur = 0, !.comps = {},
                     !.remove = IF node.skip = {} THEN {} ELSE @ \cup done])
  BY DEF Zero
<1>2. pc = "zero" /\ UNCHANGED <<asked, parts, arrays, doubted>> /\ LocalInv /\ InPass
  BY DEF Zero, BaseInv, InPass
<1>3. CASE unread # {}
  <2>1. pc' = "idle"
    BY <1>1, <1>3 DEF Ends
  <2> QED BY <2>1, OutsideSafe
<1>4. CASE unread = {}
  <2>1. PICK S \in SUBSET local.comps : super' = Zeroed(S)
    BY <1>1, <1>4
  <2>2. /\ pc' = "devices" /\ local'.todo = local.todo /\ local'.holders = local.holders
        /\ local'.keep = local.keep /\ local'.decision = local.decision
        /\ local'.attempts = local.attempts
    BY <1>1, <1>2, <1>4 DEF Goes, LocalInv
  <2>3. \A c \in Comps : c \notin local.comps => super'[c] = super[c]
    BY <2>1, ZeroedLess
  <2>4. KeptInv' /\ HolderInv'
    BY <1>2, <2>2
       DEF SafeInv, KeptInv, HolderInv, InPass, After, Running, Known, IsListed, Share, asked
  <2>5. KeepInv'
    <3>1. \A c \in local.keep : c \in Comps /\ \E m \in Running \cap DOMAIN local.decision :
            local.decision[m] # "delete" /\ super[c] = arrays[m].vol
      BY <1>2 DEF SafeInv, KeepInv
    <3>2. local.comps \cap local.keep = {}
      BY <1>2 DEF SafeInv, KeepInv
    <3> QED BY <1>2, <2>2, <2>3, <3>1, <3>2 DEF KeepInv, InPass, After, Running
  <2> QED BY <2>2, <2>4, <2>5 DEF SafeInv, NearInv, LabelInv
<1> QED BY <1>3, <1>4

LEMMA SweepSafe ==
  ASSUME BaseInv, SafeInv, Sweep
  PROVE  SafeInv'
<1> DEFINE others == Visible \ local.keep
<1>1. PICK missed \in SUBSET others :
        /\ super' = Zeroed(others \ missed)
        /\ doubted' = doubted \cup DisksOf({c \in missed \ Busy : super[c] # Blank})
  BY MissedSome DEF Sweep, Swept
<1>2. /\ pc = "devices" /\ UNCHANGED <<asked, parts, arrays>> /\ LocalInv /\ InPass
      /\ local' = local /\ pc' = "holders" /\ local.todo = {}
  BY DEF Sweep, Goes, BaseInv, InPass
<1>3. KeptInv' /\ HolderInv'
  <2>1. /\ Running' = Running /\ doubted \subseteq doubted'
        /\ \A k, j \in Running : Share(k, j)' <=> Share(k, j)
    BY <1>1, <1>2 DEF Running, Share
  <2>2. \A k \in Running : Known(k)' => Known(k)
    BY <1>2, <2>1, KnownBefore DEF asked
  <2> QED BY <1>2, <2>1, <2>2 DEF SafeInv, KeptInv, HolderInv, InPass, After
<1>4. Visible' = Visible /\ Visible \subseteq Comps /\ ArrayInv /\ Busy \subseteq Comps
  BY <1>2, VisibleComps DEF Visible, Busy, Running, BaseInv, DiskInv
<1>5. \A c \in Comps : super'[c] = IF c \in (others \ missed) \ Busy THEN Blank ELSE super[c]
  BY <1>1, ZeroedLess
<1>6. \A c \in local.keep : c \in Comps /\ \E m \in Running \cap DOMAIN local.decision :
        local.decision[m] # "delete" /\ super[c] = arrays[m].vol
  BY <1>2 DEF SafeInv, KeepInv
<1>7. \A c \in Busy : \E m \in Running : super[c] = arrays[m].vol
  BY <1>4 DEF Busy, ArrayInv
<1>8. KeepInv'
  <2>1. \A c \in local.keep : super'[c] = super[c]
    BY <1>5, <1>6
  <2>2. ASSUME NEW c \in Visible, super'[c] # Blank
        PROVE  c[1] \in doubted' \/ \E m \in Running : super'[c] = arrays[m].vol
    <3>1. CASE c \in missed \ Busy
      <4>1. super[c] # Blank
        BY <1>4, <1>5, <2>2, <3>1
      <4>2. c[1] \in DisksOf({x \in missed \ Busy : super[x] # Blank})
        BY <3>1, <4>1 DEF DisksOf
      <4> QED BY <1>1, <4>2
    <3>2. CASE c \notin missed \ Busy
      BY <1>4, <1>5, <1>6, <1>7, <2>2, <3>2
    <3> QED BY <3>1, <3>2
  <2> QED BY <1>2, <1>4, <1>6, <2>1, <2>2 DEF KeepInv, InPass, After, Running
<1> QED BY <1>2, <1>3, <1>8 DEF SafeInv, NearInv, LabelInv

LEMMA HolderSafe ==
  ASSUME BaseInv, SafeInv, NEW d \in Disks, Holder(d)
  PROVE  SafeInv'
<1>1. /\ pc = "holders" /\ UNCHANGED <<asked, super, arrays, doubted>> /\ LocalInv /\ InPass
  BY DEF Holder, BaseInv, InPass
<1>2. CASE Ends("rm failed")
  BY <1>2, OutsideSafe DEF Ends
<1>3. CASE Goes("holders", [local EXCEPT !.holders = @ \ {d}])
  <2>1. /\ pc' = "holders" /\ local'.todo = local.todo /\ local'.holders = local.holders \ {d}
        /\ local'.keep = local.keep /\ local'.decision = local.decision
        /\ local'.attempts = local.attempts
    BY <1>1, <1>3 DEF Goes, LocalInv
  <2>2. KeptInv' /\ HolderInv'
    BY <1>1, <2>1
       DEF SafeInv, KeptInv, HolderInv, InPass, After, Running, Known, IsListed, Share, asked
  <2>3. Visible' \subseteq Visible
    <3>1. \A e \in Disks : parts'[e] \subseteq parts[e]
      BY DEF Holder, BaseInv, DiskInv, PartsInv
    <3>2. Busy' = Busy
      BY <1>1 DEF Busy, Running
    <3>3. \A c \in Comps : c[1] \in Disks
      BY DEF Comps
    <3> QED BY <3>1, <3>2, <3>3 DEF Visible
  <2>4. KeepInv'
    BY <1>1, <2>1, <2>3 DEF SafeInv, KeepInv, InPass, After, Running
  <2> QED BY <2>1, <2>2, <2>4 DEF SafeInv, NearInv, LabelInv
<1> QED BY <1>2, <1>3 DEF Holder

LEMMA PassEndsSafe ==
  ASSUME BaseInv, SafeInv, PassEnds
  PROVE  SafeInv'
<1>1. /\ pc = "holders" /\ UNCHANGED <<asked, parts, super, arrays, doubted>> /\ InPass
      /\ local' = local /\ pc' = "scan"
  BY DEF PassEnds, Goes, disk, InPass
<1>2. local.attempts # 0
  BY <1>1 DEF SafeInv, KeptInv
<1>3. KeptInv' /\ HolderInv'
  BY <1>1 DEF SafeInv, KeptInv, HolderInv, InPass, After, Running, Known, IsListed, Share, asked
<1>4. KeepInv'
  BY <1>1 DEF SafeInv, KeepInv, InPass, After, Running, Visible, Busy
<1> QED BY <1>1, <1>2, <1>3, <1>4 DEF SafeInv, NearInv, LabelInv

(* With hints a logical disk gets disks, and without them it gets all.     *)
LEMMA PlanSafe ==
  ASSUME BaseInv, SafeInv, Plan
  PROVE  SafeInv'
<1>1. CASE pc' = "idle"
  BY <1>1, OutsideSafe
<1>2. CASE pc' # "idle"
  <2>1. PICK which, plan :
          /\ pc' = "label"
          /\ local' = [NoLocals EXCEPT !.lds = plan,
                         !.todo = UNION {DevicesFor(node.lds[i]) : i \in which}]
    BY <1>2 DEF Plan, Goes, Ends
  <2>2. local'.todo = UNION {DevicesFor(node.lds[i]) : i \in which}
    BY <2>1 DEF NoLocals
  <2>3. ASSUME NEW ld
        PROVE  DevicesFor(ld) \subseteq Disks \cup {0} \/ Disks \subseteq DevicesFor(ld)
    <3>1. CASE ld.hints = <<>>
      BY <3>1 DEF DevicesFor
    <3>2. CASE ld.hints # <<>> /\ Picks(ld.hints) = {}
      BY <3>2 DEF DevicesFor, NoCandidate
    <3>3. CASE ld.hints # <<>> /\ Picks(ld.hints) # {}
      <4>1. PICK pick \in Picks(ld.hints) : DevicesFor(ld) = Range(pick)
        BY <3>3 DEF DevicesFor
      <4>2. pick \in [DOMAIN ld.hints -> Disks]
        BY DEF Picks
      <4> QED BY <4>1, <4>2 DEF Range
    <3> QED BY <3>1, <3>2, <3>3
  <2>4. LabelInv'
    BY <2>1, <2>2, <2>3 DEF LabelInv, Disks
  <2> QED BY <2>1, <2>4 DEF SafeInv, NearInv, KeptInv, HolderInv, KeepInv, InPass, After
<1> QED BY <1>1, <1>2

LEMMA SafeStep == BaseInv /\ SafeInv /\ [Next]_vars => SafeInv'
<1> SUFFICES ASSUME BaseInv, SafeInv, [Next]_vars PROVE SafeInv'
  OBVIOUS
<1>1. ASSUME NEW o \in {"delete", "create", "apply"}, Begin(o) PROVE SafeInv'
  BY <1>1, OutsideSafe DEF Begin, Ends, NoLocals
<1>2. CASE Deleting
  <2>1. ASSUME NEW m \in Running, Device(m) PROVE SafeInv'
    BY <2>1, DeviceSafe
  <2>2. ASSUME NEW d \in Disks, Holder(d) PROVE SafeInv'
    BY <2>2, HolderSafe
  <2> QED BY <1>2, <2>1, <2>2, ScanSafe, DecideSafe, StopSafe, ZeroSafe, SweepSafe,
             PassEndsSafe DEF Deleting
<1>3. CASE Label \/ MakeParts \/ MakeArray
  <2>1. pc' \in {"idle", "mkpart", "mkarray"}
    BY <1>3 DEF Label, MakeParts, MakeArray, Goes, Ends
  <2> QED BY <2>1, OutsideSafe
<1>4. CASE Reboot
  <2>1. pc' = "idle"
    BY <1>4 DEF Reboot, Ends
  <2> QED BY <2>1, OutsideSafe
<1>5. CASE UNCHANGED vars
  <2>1. UNCHANGED <<node, pc, local, arrays, super, doubted>> /\ Running' = Running /\ Visible' = Visible
    BY <1>5 DEF vars, asked, disk, Running, Visible, Busy
  <2>2. NearInv' /\ KeptInv' /\ HolderInv' /\ LabelInv'
    BY <2>1 DEF SafeInv, NearInv, KeptInv, HolderInv, LabelInv, InPass, After, Known, IsListed, Share
  <2>3. KeepInv'
    BY <2>1 DEF SafeInv, KeepInv, InPass, After
  <2> QED BY <2>2, <2>3 DEF SafeInv
<1> QED BY <1>1, <1>2, <1>3, <1>4, <1>5, PlanSafe DEF Next, Creating

(* What a safeguarded volume needs of a step to stay one.                  *)
Safe(vol) ==
  \E m \in Running : /\ arrays[m].vol = vol /\ arrays[m].on = vol.on
                     /\ vol.name \in node.skip /\ Whole(vol) /\ vol \notin wiped

LEMMA SafeVolumes == \A vol : vol \in Safeguarded <=> Safe(vol)
BY DEF Safeguarded, Safe

LEMMA SafeVolumesNext == \A vol : (vol \in Safeguarded)' <=> Safe(vol)'
BY DEF Safeguarded, Safe

LEMMA StaysSafe ==
  ASSUME NEW vol, Safe(vol), UNCHANGED node, vol.on \subseteq Comps,
         \A m \in Running : arrays[m].vol = vol => m \in Running' /\ arrays'[m] = arrays[m],
         \A c \in vol.on : super'[c] = super[c],
         \A c \in vol.on : c[2] \in parts[c[1]] => c[2] \in parts'[c[1]],
         vol \notin wiped'
  PROVE  Safe(vol)'
BY DEF Safe, Whole

LEMMA SafeFacts ==
  ASSUME BaseInv, NEW vol, Safe(vol)
  PROVE  /\ vol.on \subseteq Busy /\ vol.on \subseteq Comps /\ vol \notin wiped
         /\ \A m \in Running : arrays[m].vol = vol => IsListed(m) /\ arrays[m].on = vol.on
<1>1. PICK m \in Running : /\ arrays[m].vol = vol /\ arrays[m].on = vol.on
                           /\ vol.name \in node.skip /\ vol \notin wiped
  BY DEF Safe
<1>2. \A k \in Running : arrays[k].vol = vol => k = m
  BY <1>1 DEF BaseInv, DiskInv, UniqueInv
<1>3. arrays[m].on \subseteq Busy
  BY DEF Busy
<1> QED BY <1>1, <1>2, <1>3 DEF BaseInv, DiskInv, ArrayInv, IsListed

LEMMA DeviceSurvive ==
  ASSUME BaseInv, SafeInv, NEW m \in Running, Device(m), NEW vol, Safe(vol),
         DisksOf(vol.on) \cap doubted = {}
  PROVE  Safe(vol)'
<1>1. UNCHANGED <<asked, parts, super, arrays>> /\ pc = "devices" /\ m \in local.todo
  BY DEF Device
<1>2. \/ wiped' = wiped
      \/ local.decision[m] # "keep" /\ wiped' = wiped \cup {arrays[m].vol}
  BY DEF Device, WipeFs
<1>3. Known(m) => local.decision[m] = "keep"
  BY <1>1 DEF BaseInv, TodoInv, SafeInv, KeptInv, InPass
<1>4. vol \notin wiped'
  BY <1>2, <1>3, SafeFacts DEF Known
<1> QED BY <1>1, <1>4, SafeFacts, StaysSafe DEF asked, Running

LEMMA StopSurvive ==
  ASSUME BaseInv, SafeInv, Stop, NEW vol, Safe(vol), DisksOf(vol.on) \cap doubted = {}
  PROVE  Safe(vol)'
<1>1. UNCHANGED <<asked, parts, super, wiped>> /\ pc = "stop"
  BY DEF Stop
<1>2. ASSUME local.cur \in Running PROVE arrays[local.cur].vol # vol
  <2>1. local.cur \in DOMAIN local.decision /\ local.decision[local.cur] = "delete"
    BY <1>1 DEF BaseInv, TodoInv
  <2>2. ~Known(local.cur)
    BY <1>1, <1>2, <2>1 DEF SafeInv, KeptInv, InPass
  <2> QED BY <1>2, <2>2, SafeFacts DEF Known
<1>3. \A m \in Running : arrays[m].vol = vol => m \in Running' /\ arrays'[m] = arrays[m]
  BY <1>2 DEF Stop, Running
<1> QED BY <1>1, <1>3, SafeFacts, StaysSafe DEF asked

LEMMA ZeroedSurvive ==
  ASSUME BaseInv, NEW S, super' = Zeroed(S), UNCHANGED <<asked, parts, arrays, wiped>>,
         NEW vol, Safe(vol)
  PROVE  Safe(vol)'
<1>1. \A c \in vol.on : super'[c] = super[c]
  BY ZeroedLess, SafeFacts
<1> QED BY <1>1, SafeFacts, StaysSafe DEF asked, Running

LEMMA HolderSurvive ==
  ASSUME BaseInv, SafeInv, NEW d \in Disks, Holder(d), NEW vol, Safe(vol),
         DisksOf(vol.on) \cap doubted = {}
  PROVE  Safe(vol)'
<1>1. /\ UNCHANGED <<asked, super, arrays, wiped>> /\ pc = "holders" /\ InPass
      /\ d \in local.holders /\ PartsInv
  BY DEF Holder, InPass, BaseInv, DiskInv
<1>2. vol.on \subseteq Busy /\ vol.on \subseteq Comps
  BY SafeFacts
<1>3. CASE d \in DisksOf(local.keep)
  <2> DEFINE removed == PartsOf(local.remove, d)
             stuck == removed \cap PartsOf(Busy, d)
  <2>1. PICK failed : stuck \subseteq failed
                      /\ parts' = [parts EXCEPT ![d] = @ \ (removed \ failed)]
    BY <1>3 DEF Holder
  <2>2. \A c \in vol.on : c[1] = d => c[2] \in PartsOf(Busy, d)
    BY <1>2 DEF PartsOf
  <2> HIDE DEF removed
  <2>3. \A c \in vol.on : c[2] \in parts[c[1]] => c[2] \in parts'[c[1]]
    BY <1>1, <2>1, <2>2 DEF PartsInv
  <2> QED BY <1>1, <2>3, SafeFacts, StaysSafe DEF asked, Running
<1>4. CASE d \notin DisksOf(local.keep)
  <2>1. parts' = [parts EXCEPT ![d] = {}] \/ parts' = parts
    BY <1>4 DEF Holder
  <2>2. PICK k \in Running : arrays[k].vol = vol /\ arrays[k].on = vol.on /\ Known(k)
    BY DEF Safe, Known, IsListed
  <2>3. \/ vol.on \subseteq local.keep
        \/ DisksOf(vol.on) \cap local.holders = {}
    BY <1>1, <2>2 DEF SafeInv, HolderInv
  <2>4. d \notin DisksOf(vol.on)
    BY <1>1, <1>4, <2>3 DEF DisksOf
  <2>5. \A c \in vol.on : c[1] # d
    BY <2>4 DEF DisksOf
  <2>6. \A c \in vol.on : c[2] \in parts[c[1]] => c[2] \in parts'[c[1]]
    BY <1>1, <1>2, <2>1, <2>5 DEF PartsInv, Comps
  <2> QED BY <1>1, <2>6, SafeFacts, StaysSafe DEF asked, Running
<1> QED BY <1>3, <1>4

(* list_block_devices has an array after its first disk, which parted does *)
(* not relabel while the array uses it.                                    *)
LEMMA LabelSurvive ==
  ASSUME BaseInv, SafeInv, Label, NEW vol, Safe(vol)
  PROVE  Safe(vol)'
<1> DEFINE before == [y \in local.todo |-> {x \in local.todo : Listing(x, y)}]
<1>1. UNCHANGED <<asked, super, arrays>> /\ pc = "label" /\ PartsInv /\ ArrayInv
  BY DEF Label, BaseInv, DiskInv
<1>2. PICK done \in Treated(before, DisksOf(Busy), "mklabel") :
        /\ parts' = [d \in Disks |-> IF d \in done THEN {} ELSE parts[d]]
        /\ wiped' = wiped \cup {arrays[m].vol : m \in done \cap Running}
  BY DEF Label
<1>3. /\ done \subseteq local.todo
      /\ \A y \in done : y \notin DisksOf(Busy) /\ before[y] \subseteq done
  BY DEF Treated
<1>4. vol.on \subseteq Busy /\ vol.on \subseteq Comps /\ vol \notin wiped
  BY SafeFacts
<1>5. \A c \in vol.on : c[1] \in DisksOf(Busy) /\ c[1] \in Disks
  BY <1>4 DEF DisksOf, Comps
<1>6. \A c \in vol.on : c[2] \in parts[c[1]] => c[2] \in parts'[c[1]]
  BY <1>2, <1>3, <1>5
<1>7. (\A d \in Disks : d \in Nat /\ d < 100) /\ \A m \in Running : m \in Nat /\ m >= 100
  BY <1>1, RaidAssumption DEF RaidAssumption, Disks, ArrayInv, Md
<1>8. ASSUME NEW m \in done \cap Running PROVE FALSE
  <2> DEFINE d == Least(DisksOf(arrays[m].on))
  <2>1. /\ DisksOf(arrays[m].on) \subseteq Disks /\ DisksOf(arrays[m].on) # {}
        /\ DisksOf(arrays[m].on) \subseteq DisksOf(Busy)
    BY <1>1 DEF ArrayInv, DisksOf, Comps, Busy
  <2>2. d \in DisksOf(arrays[m].on)
    <3>1. DisksOf(arrays[m].on) \in SUBSET Nat
      BY <1>7, <2>1
    <3> QED BY <2>1, <3>1, LeastOfMany
  <2>3. Disks \subseteq local.todo
    BY <1>1, <1>3, <1>7, <1>8 DEF SafeInv, LabelInv
  <2>4. d \in Disks /\ d \in DisksOf(Busy) /\ d \in local.todo
    BY <2>1, <2>2, <2>3
  <2>5. Listing(d, m)
    <3>1. d \notin Running /\ d < m
      BY <1>7, <2>4
    <3>2. Place(d) = d /\ Place(m) = d
      BY <3>1 DEF Place
    <3> QED BY <3>1, <3>2 DEF Listing
  <2> HIDE DEF d
  <2>6. d \in before[m]
    BY <1>3, <2>4, <2>5
  <2> QED BY <1>3, <2>4, <2>6
<1>9. vol \notin wiped'
  BY <1>2, <1>4, <1>8
<1> QED BY <1>1, <1>6, <1>9, SafeFacts, StaysSafe DEF asked, Running

LEMMA MakePartsSurvive ==
  ASSUME BaseInv, MakeParts, NEW vol, Safe(vol)
  PROVE  Safe(vol)'
<1>1. UNCHANGED <<asked, super, arrays, wiped>>
  BY DEF MakeParts
<1>2. \A d \in Disks : parts[d] \subseteq parts'[d]
  BY DEF MakeParts
<1>3. \A c \in vol.on : c[1] \in Disks
  BY SafeFacts DEF Comps
<1> QED BY <1>1, <1>2, <1>3, SafeFacts, StaysSafe DEF asked, Running

LEMMA MakeArraySurvive ==
  ASSUME BaseInv, MakeArray, NEW vol, Safe(vol)
  PROVE  Safe(vol)'
<1>1. UNCHANGED <<asked, parts, wiped>>
  BY DEF MakeArray
<1>2. /\ Running \subseteq Running' /\ \A m \in Running : arrays'[m] = arrays[m]
      /\ \A c \in Busy : super'[c] = super[c]
  BY ArrayKeepsDisk DEF BaseInv
<1> QED BY <1>1, <1>2, SafeFacts, StaysSafe DEF asked

(* What is whole is assembled by a boot, under some name.                  *)
LEMMA RebootSurvive ==
  ASSUME BaseInv, Reboot, NEW vol, Safe(vol)
  PROVE  Safe(vol)'
<1> DEFINE seen == {c \in Comps : c[2] \in parts[c[1]]}
           whole == {v \in {super[c] : c \in Comps} \ {Blank} : Members(v, seen) = v.on}
<1>1. PICK name \in Namings(whole, Mds) : arrays' = Named(name, seen)
  BY DEF Reboot
<1>2. UNCHANGED <<asked, parts, super, wiped>>
  BY DEF Reboot
<1>3. PICK m \in Running : /\ arrays[m].vol = vol /\ arrays[m].on = vol.on
                           /\ vol.name \in node.skip /\ Whole(vol) /\ vol \notin wiped
  BY DEF Safe
<1>4. vol.on # {} /\ vol.on \subseteq Comps /\ \A c \in vol.on : super[c] = vol /\ c \in seen
  BY <1>3 DEF BaseInv, DiskInv, ArrayInv, Whole
<1>5. vol # Blank
  BY <1>4 DEF Blank, Volume
<1>6. Members(vol, seen) = vol.on
  <2>1. \A c \in Comps : super[c] = vol => c \in vol.on
    BY <1>5 DEF BaseInv, DiskInv, SuperInv
  <2>2. seen \subseteq Comps
    OBVIOUS
  <2> QED BY <1>4, <2>1, <2>2 DEF Members
<1>7. vol \in whole
  BY <1>4, <1>5, <1>6
<1> HIDE DEF seen, whole
<1>8. DOMAIN name = whole /\ \A v, w \in whole : name[v] = name[w] => v = w
  BY DEF Namings
<1>9. /\ name[vol] \in Running'
      /\ arrays'[name[vol]].vol = vol /\ arrays'[name[vol]].on = vol.on
  <2> DEFINE new == Named(name, seen)
  <2>1. name[vol] \in DOMAIN new
    BY <1>7, <1>8 DEF Named, Range
  <2>2. new[name[vol]].vol \in whole /\ name[new[name[vol]].vol] = name[vol]
        /\ new[name[vol]].on = Members(new[name[vol]].vol, seen)
    BY <2>1, NamedArrays
  <2>3. new[name[vol]].vol = vol
    BY <1>7, <1>8, <2>2
  <2> HIDE DEF new
  <2>4. arrays' = new
    BY <1>1 DEF new
  <2> QED BY <1>6, <2>1, <2>2, <2>3, <2>4 DEF Running
<1> QED BY <1>2, <1>3, <1>9 DEF Safe, Whole, asked

(* The disks that are doubted only grow in a step, until the next begins.  *)
LEMMA DoubtGrows ==
  ASSUME BaseInv, Deleting
  PROVE  doubted \subseteq doubted'
<1>1. ASSUME NEW m \in Running, Device(m) PROVE doubted \subseteq doubted'
  BY <1>1, DeviceFinds
<1>2. CASE Decide
  BY <1>2, DecideOutcome
<1>3. CASE Sweep
  BY <1>3 DEF Sweep, Swept
<1>4. ASSUME NEW d \in Disks, Holder(d) PROVE doubted \subseteq doubted'
  BY <1>4 DEF Holder
<1>5. CASE Scan \/ Stop \/ Zero \/ PassEnds
  BY <1>5 DEF Scan, Stop, Zero, PassEnds
<1> QED BY <1>1, <1>2, <1>3, <1>4, <1>5 DEF Deleting

LEMMA SurviveStep ==
  BaseInv /\ SafeInv /\ [Next]_vars =>
    \A vol \in Safeguarded : DisksOf(vol.on) \cap doubted' = {} => vol \in Safeguarded'
<1> SUFFICES ASSUME BaseInv, SafeInv, [Next]_vars, NEW vol, Safe(vol),
                    DisksOf(vol.on) \cap doubted' = {}
             PROVE  Safe(vol)'
  BY SafeVolumes, SafeVolumesNext
<1>1. ASSUME UNCHANGED <<asked, disk>> PROVE Safe(vol)'
  BY <1>1 DEF asked, disk, Safe, Whole, Running
<1>2. CASE Deleting
  <2>0. DisksOf(vol.on) \cap doubted = {}
    BY <1>2, DoubtGrows
  <2>1. CASE Scan
    <3>1. UNCHANGED <<asked, parts, super, wiped>>
      BY <2>1 DEF Scan
    <3>2. PICK new \in Assembly("assemble" \notin unreliable) : arrays' = Started(new)
      BY <2>1 DEF Scan
    <3>3. Running \subseteq Running' /\ Assembled(Visible)
      BY <3>2, ScanAssembles
    <3> QED BY <3>1, <3>3, SafeFacts, StaysSafe DEF asked, Assembled
  <2>2. CASE Decide \/ PassEnds
    BY <1>1, <2>2 DEF Decide, PassEnds
  <2>3. CASE Zero \/ Sweep
    <3>1. UNCHANGED <<asked, parts, arrays, wiped>> /\ \E S : super' = Zeroed(S)
      <4>1. CASE Zero
        BY <4>1 DEF Zero
      <4>2. CASE Sweep
        BY <4>2 DEF Sweep, Swept
      <4> QED BY <2>3, <4>1, <4>2
    <3> QED BY <3>1, ZeroedSurvive
  <2>4. ASSUME NEW m \in Running, Device(m) PROVE Safe(vol)'
    BY <2>0, <2>4, DeviceSurvive
  <2>5. ASSUME NEW d \in Disks, Holder(d) PROVE Safe(vol)'
    BY <2>0, <2>5, HolderSurvive
  <2> QED BY <1>2, <2>0, <2>1, <2>2, <2>3, <2>4, <2>5, StopSurvive DEF Deleting
<1>3. CASE Creating
  <2>1. CASE Plan
    BY <1>1, <2>1 DEF Plan
  <2> QED BY <1>3, <2>1, LabelSurvive, MakePartsSurvive, MakeArraySurvive DEF Creating
<1>4. ASSUME NEW o \in {"delete", "create", "apply"}, Begin(o) PROVE Safe(vol)'
  BY <1>1, <1>4 DEF Begin
<1>5. CASE UNCHANGED vars
  BY <1>1, <1>5 DEF vars
<1> QED BY <1>2, <1>3, <1>4, <1>5, RebootSurvive DEF Next

\* A pass of the deletion keeps the listed arrays that mdadm has not misrepresented,
\* and the disks that they are on, and an array is not relabelled before its disks.
THEOREM SafeIsInvariant == Spec => []SafeInv
<1>1. BaseInv /\ SafeInv /\ [Next]_vars => SafeInv'
  BY SafeStep
<1> QED BY <1>1, StartsSafe, BaseIsInvariant, PTL DEF Spec

\* A volume named in skip_block_devices that is whole stays so through deletion,
\* creation and boot, whatever fails, unless mdadm gave the step a wrong picture of
\* one of its disks.
THEOREM SafeguardedSurvive == Spec => ListedSurvive
<1> DEFINE Kept == \A vol \in Safeguarded :
                     DisksOf(vol.on) \cap doubted' = {} => vol \in Safeguarded'
<1>1. BaseInv /\ SafeInv /\ [Next]_vars => [Kept]_vars
  BY SurviveStep
<1>2. Spec => [][Kept]_vars
  BY <1>1, SafeIsInvariant, BaseIsInvariant, PTL DEF Spec
<1> QED BY <1>2 DEF ListedSurvive

-----------------------------------------------------------------------------
(* What a creation leaves                                                  *)

(* A volume made in this step can be told from all that were there before. *)
GenInv ==
  /\ steps \in Nat
  /\ \A c \in Comps :
       /\ super[c].gen \in Int /\ super[c].gen <= steps
       /\ pc \notin {"idle", "mkarray"} => super[c].gen < steps

(* What validate_configuration has established.                            *)
Checked ==
  /\ Len(node.lds) \in 1 .. 2
  /\ \A i, j \in DOMAIN node.lds : i # j =>
       /\ node.lds[i].name = NoName \/ node.lds[i].name # node.lds[j].name
       /\ ~(node.lds[i].root = "yes" /\ node.lds[j].root = "yes")

(* left are the logical disks to make, in their order; the others run.     *)
Others(left) ==
  \A i \in DOMAIN node.lds \ left :
    /\ node.lds[i].name # NoName
    /\ \E m \in Running : arrays[m].vol.name = node.lds[i].name /\ arrays[m].vol.gen < steps
Planned(left) ==
  /\ left # {} /\ Others(left)
  /\ node.skip = {} => left = DOMAIN node.lds
  /\ Len(local.lds) = Cardinality(left) /\ DOMAIN local.lds = 1 .. Cardinality(left)
  /\ \A k \in DOMAIN local.lds :
       /\ local.lds[k].name = node.lds[InOrder(left)[k]].name
       /\ local.lds[k].root = node.lds[InOrder(left)[k]].root
Making == pc \in {"label", "mkpart", "mkarray"}
PlanInv == Making => Checked /\ \E left \in SUBSET DOMAIN node.lds : Planned(left)

(* The k-th array is made, and the mapping has its flag.                   *)
NameFor(ld, k) == IF ld.name # NoName THEN ld.name ELSE <<"md0", "md1">>[k]
Runs(ld, k) ==
  /\ Md(k - 1) \in Running
  /\ LET a == arrays[Md(k - 1)]
     IN a.vol.name = NameFor(ld, k) /\ a.vol.gen = steps /\ a.on = a.vol.on /\ Whole(a.vol)
Made(ld, k) ==
  /\ Runs(ld, k)
  /\ ld.root # "unset" => \E n \in DOMAIN rootMap : rootMap[n] = <<Md(k - 1), ld.root>>
ThisStep(n) ==
  \A m \in Running : arrays[m].vol.gen = steps => \E k \in 1 .. n : m = Md(k - 1)
MadeInv ==
  pc = "mkarray" =>
    /\ local.next \in DOMAIN local.lds
    /\ \A k \in 1 .. local.next - 1 : Made(local.lds[k], k)
    /\ ThisStep(local.next - 1)

(* The mapping keeps entries of earlier steps.  One of /dev/md1 is of the  *)
(* second logical disk, since the list of those to make is then complete.  *)
FullOrder == InOrder(DOMAIN node.lds)
UniqueKeys(map) == \A i, j \in DOMAIN map : map[i][1] = map[j][1] => i = j
MapInv ==
  /\ rootMap \in Seq({Md(0), Md(1)} \X {"yes", "no"}) /\ UniqueKeys(rootMap)
  /\ \A i \in DOMAIN rootMap : rootMap[i][1] = Md(1) =>
       Len(node.lds) = 2 /\ rootMap[i][2] = node.lds[FullOrder[2]].root
  /\ node.skip = {} => \A i \in DOMAIN rootMap : rootMap[i][1] = Md(0) =>
       rootMap[i][2] = node.lds[FullOrder[1]].root
  /\ rootMap # <<>> /\ node.lds[FullOrder[1]].root # "unset" => rootMap[1][1] = Md(0)

(* What was left is made, and what was not runs since an earlier step.     *)
Outcome(left) ==
  /\ node.skip = {} => left = DOMAIN node.lds
  /\ \A k \in 1 .. Cardinality(left) : Made(node.lds[InOrder(left)[k]], k)
  /\ ThisStep(Cardinality(left)) /\ Others(left)
CreatedInv ==
  result = "created" =>
    pc = "idle" /\ Checked /\ \E left \in SUBSET DOMAIN node.lds : Outcome(left)

CreateInv == GenInv /\ PlanInv /\ MadeInv /\ MapInv /\ CreatedInv

(* Told: the flags say where the root volume is whichever logical disks    *)
(* were found in place, and no name is one that is given to an unnamed one.*)
Told ==
  /\ node.skip # {} => \A i, j \in DOMAIN node.lds :
       Before(i, j) /\ node.lds[i].root = "unset" => node.lds[j].root # "yes"
  /\ \A i, j \in DOMAIN node.lds :
       node.lds[j].name = NoName => node.lds[i].name \notin {"md0", "md1"}

LEMMA Requests ==
  ASSUME node \in Nodes
  PROVE  /\ Len(node.lds) \in Nat /\ DOMAIN node.lds = 1 .. Len(node.lds)
         /\ \A i \in DOMAIN node.lds :
              /\ node.lds[i].max \in BOOLEAN /\ node.lds[i].root \in {"yes", "no", "unset"}
              /\ node.lds[i].hints \in Seq(SUBSET Disks)
<1> DEFINE LdType == [name : STRING, software : BOOLEAN, level : STRING, max : BOOLEAN,
                      root : {"yes", "no", "unset"}, hints : Seq(SUBSET Disks)]
<1>1. node.lds \in Seq(LdType)
  BY RaidAssumption DEF RaidAssumption
<1>2. \A ld \in LdType : /\ ld.max \in BOOLEAN /\ ld.root \in {"yes", "no", "unset"}
                         /\ ld.hints \in Seq(SUBSET Disks)
  OBVIOUS
<1> HIDE DEF LdType
<1>3. /\ Len(node.lds) \in Nat /\ DOMAIN node.lds = 1 .. Len(node.lds)
      /\ node.lds \in [1 .. Len(node.lds) -> LdType]
  BY <1>1
<1> QED BY <1>2, <1>3

(* Of two logical disks one comes before the other, and all are listed.    *)
LEMMA Ordered ==
  ASSUME node \in Nodes, Len(node.lds) \in 1 .. 2,
         NEW left \in SUBSET DOMAIN node.lds, left # {}
  PROVE  LET order == InOrder(left)
         IN /\ order \in [1 .. Cardinality(left) -> left]
            /\ \/ /\ Cardinality(left) = 1 /\ left = {order[1]}
               \/ /\ Cardinality(left) = 2 /\ Len(node.lds) = 2 /\ left = DOMAIN node.lds
                  /\ left = {order[1], order[2]} /\ order[1] # order[2]
                  /\ Before(order[1], order[2])
<1>1. /\ DOMAIN node.lds = 1 .. Len(node.lds)
      /\ \A i \in DOMAIN node.lds : node.lds[i].max \in BOOLEAN
  BY Requests
<1> DEFINE Sorted(s) == \A k, l \in DOMAIN s : k < l => Before(s[k], s[l])
<1>2. CASE \E i : left = {i}
  <2>1. PICK i : left = {i}
    BY <1>2
  <2>2. Cardinality(left) = 1
    BY <2>1, FS_Singleton
  <2>3. [k \in 1 .. 1 |-> i] \in [1 .. Cardinality(left) -> left]
        /\ Sorted([k \in 1 .. 1 |-> i])
    BY <2>1, <2>2
  <2> HIDE DEF Sorted
  <2>4. \E s \in [1 .. Cardinality(left) -> left] : Sorted(s)
    BY <2>3
  <2>5. InOrder(left) \in [1 .. Cardinality(left) -> left]
    BY <2>4, Zenon DEF InOrder, Sorted
  <2>6. InOrder(left)[1] = i
    BY <2>1, <2>2, <2>5
  <2> QED BY <2>1, <2>2, <2>5, <2>6
<1>3. CASE ~\E i : left = {i}
  <2>1. left = {1, 2} /\ Len(node.lds) = 2
    <3>1. left \subseteq {1, 2} /\ (Len(node.lds) = 2 \/ left \subseteq {1})
      BY <1>1
    <3>2. 1 \notin left => left = {2}
      BY <3>1
    <3>3. 2 \notin left => left = {1}
      BY <3>1
    <3>4. 1 \in left /\ 2 \in left
      BY <1>3, <3>2, <3>3
    <3> QED BY <3>1, <3>4
  <2>2. Cardinality(left) = 2
    <3>1. Cardinality({1}) = 1 /\ IsFiniteSet({1})
      BY FS_Singleton, Zenon
    <3>2. Cardinality({1} \cup {2}) = Cardinality({1}) + 1
      BY <3>1, FS_AddElement
    <3>3. left = {1} \cup {2}
      BY <2>1
    <3> QED BY <3>1, <3>2, <3>3
  <2> DEFINE there == [k \in 1 .. 2 |-> k]
             back == [k \in 1 .. 2 |-> 3 - k]
  <2>3. \E s \in [1 .. Cardinality(left) -> left] : Sorted(s)
    <3>1. Before(1, 2) \/ Before(2, 1)
      BY <1>1, <2>1 DEF Before
    <3>2. there \in [1 .. 2 -> {1, 2}] /\ back \in [1 .. 2 -> {1, 2}]
      OBVIOUS
    <3>3. Before(1, 2) => Sorted(there)
      OBVIOUS
    <3>4. Before(2, 1) => Sorted(back)
      OBVIOUS
    <3> HIDE DEF there, back, Sorted
    <3> QED BY <2>1, <2>2, <3>1, <3>2, <3>3, <3>4
  <2>4. InOrder(left) \in [1 .. Cardinality(left) -> left] /\ Sorted(InOrder(left))
    <3> HIDE DEF Sorted
    <3>1. InOrder(left) = CHOOSE s \in [1 .. Cardinality(left) -> left] : Sorted(s)
      BY DEF InOrder, Sorted
    <3> QED BY <2>3, <3>1, Zenon
  <2>5. Before(InOrder(left)[1], InOrder(left)[2])
    BY <2>2, <2>4
  <2>6. ~Before(1, 1) /\ ~Before(2, 2)
    BY DEF Before
  <2> QED BY <1>1, <2>1, <2>2, <2>4, <2>5, <2>6
<1> QED BY <1>2, <1>3

-----------------------------------------------------------------------------
(* Steps that make nothing *)

LEMMA StartsCreated == Init => CreateInv
<1> SUFFICES ASSUME Init PROVE CreateInv
  OBVIOUS
<1>1. pc = "idle" /\ result = "none" /\ rootMap = <<>> /\ steps = 0
  BY DEF Init
<1>2. \A c \in Comps : super[c].gen \in {0, -1}
  BY DEF Init, Volume, Blank
<1>3. MapInv
  BY <1>1 DEF MapInv, UniqueKeys
<1> QED BY <1>1, <1>2, <1>3 DEF CreateInv, GenInv, PlanInv, Making, MadeInv, CreatedInv

LEMMA SameMap ==
  ASSUME MapInv, UNCHANGED <<node, rootMap>>
  PROVE  MapInv'
<1>1. FullOrder' = FullOrder
  BY DEF FullOrder, InOrder, Before
<1> QED BY <1>1 DEF MapInv

LEMMA OutsideMaking ==
  ASSUME CreateInv, UNCHANGED <<node, rootMap>>, GenInv', ~Making', result' # "created"
  PROVE  CreateInv'
BY SameMap DEF CreateInv, PlanInv, Making, MadeInv, CreatedInv

LEMMA LessGens ==
  ASSUME GenInv, UNCHANGED steps, pc \notin {"idle", "mkarray"},
         \A c \in Comps : super'[c] \in {super[c], Blank}
  PROVE  GenInv'
BY DEF GenInv, Blank, Volume

(* How the steps that do not make anything leave the program.              *)
Moved == UNCHANGED result /\ ~Making'
Ended == pc' = "idle" /\ result' # "created"

LEMMA Endings ==
  /\ \A how : how # "created" /\ Ends(how) => Ended
  /\ "key error" # "created" /\ "not clean" # "created" /\ "examine failed" # "created"
  /\ "rm failed" # "created" /\ "deleted" # "created" /\ "nothing" # "created"
  /\ "invalid" # "created" /\ "unexpected array" # "created"
  /\ "no candidate" # "created" /\ "partitions" # "created"
  /\ "mklabel failed" # "created" /\ "mkpart failed" # "created"
  /\ "mdadm failed" # "created" /\ "add failed" # "created"
<1>1. \A how : how # "created" /\ Ends(how) => Ended
  BY DEF Ends, Ended
<1> QED BY <1>1, Zenon

LEMMA Movings ==
  /\ \A locals : Goes("decide", locals) => Moved
  /\ \A locals : Goes("devices", locals) => Moved
  /\ \A locals : Goes("stop", locals) => Moved
  /\ \A locals : Goes("zero", locals) => Moved
  /\ \A locals : Goes("holders", locals) => Moved
  /\ \A locals : Goes("scan", locals) => Moved
  /\ \A locals : Goes("plan", locals) => Moved
BY DEF Goes, Moved, Making

LEMMA DeletingCreates ==
  ASSUME CreateInv, Deleting
  PROVE  CreateInv'
<1>1. Moved \/ Ended
  <2>1. CASE Scan
    BY <2>1, Endings, Movings, Zenon DEF Scan, Deleted
  <2>2. CASE Stop \/ Sweep \/ PassEnds
    BY <2>2, Movings, Zenon DEF Stop, Sweep, PassEnds
  <2>6. CASE Decide
    BY <2>6, Movings, DecideOutcome, Zenon DEF Failed, Ended
  <2>3. CASE Zero
    BY <2>3, Endings, Movings, Zenon DEF Zero
  <2>4. ASSUME NEW m \in Running, Device(m) PROVE Moved
    BY <2>4, Movings, Zenon DEF Device
  <2>5. ASSUME NEW d \in Disks, Holder(d) PROVE Moved \/ Ended
    BY <2>5, Endings, Movings, Zenon DEF Holder
  <2> QED BY <2>1, <2>2, <2>3, <2>4, <2>5, <2>6 DEF Deleting
<1>2. UNCHANGED <<node, rootMap, steps>> /\ pc \notin {"idle", "mkarray"}
  <2>1. ASSUME NEW m \in Running, Device(m)
        PROVE  UNCHANGED <<node, rootMap, steps>> /\ pc \notin {"idle", "mkarray"}
    BY <2>1 DEF Device, asked, bounds
  <2>2. ASSUME NEW d \in Disks, Holder(d)
        PROVE  UNCHANGED <<node, rootMap, steps>> /\ pc = "holders"
    BY <2>2, Zenon DEF Holder, asked, bounds
  <2>3. CASE Scan \/ Zero
    <3>1. UNCHANGED <<asked, rootMap, bounds>> /\ pc \in {"scan", "zero"}
      BY <2>3, Zenon DEF Scan, Zero
    <3> QED BY <3>1 DEF asked, bounds
  <2>4. CASE Decide \/ Stop \/ Sweep \/ PassEnds
    <3>1. UNCHANGED <<asked, rootMap, bounds>> /\ pc \in {"decide", "stop", "devices", "holders"}
      BY <2>4, Zenon DEF Decide, Stop, Sweep, PassEnds
    <3> QED BY <3>1 DEF asked, bounds
  <2> QED BY <2>1, <2>2, <2>3, <2>4, Zenon DEF Deleting
<1>3. \A c \in Comps : super'[c] \in {super[c], Blank}
  <2>1. super' = super \/ \E S : super' = Zeroed(S)
    BY Zenon DEF Deleting, Scan, Decide, Stop, Zero, Sweep, Swept, PassEnds, Device, Holder, disk
  <2> QED BY <2>1, ZeroedLess
<1>4. GenInv'
  BY <1>2, <1>3, LessGens DEF CreateInv
<1>5. ~Making' /\ result' # "created"
  BY <1>1, <1>2 DEF Moved, Ended, Making, CreateInv, CreatedInv
<1> QED BY <1>2, <1>4, <1>5, OutsideMaking

LEMMA BeginCreates ==
  ASSUME CreateInv, NEW o \in {"delete", "create", "apply"}, Begin(o)
  PROVE  CreateInv'
<1>1. /\ UNCHANGED <<node, super, rootMap>> /\ steps' = steps + 1
      /\ pc' \in {"idle", "plan", "scan"} /\ result' \in {"none", "invalid"}
  BY DEF Begin, Ends, asked, disk
<1>2. GenInv'
  BY <1>1 DEF CreateInv, GenInv
<1> QED BY <1>1, <1>2, OutsideMaking DEF Making

LEMMA RebootCreates ==
  ASSUME CreateInv, Reboot
  PROVE  CreateInv'
<1>1. /\ UNCHANGED <<node, super, steps>> /\ rootMap' = <<>> /\ pc' = "idle"
      /\ result' = "none"
  BY DEF Reboot, Ends, asked
<1>2. GenInv'
  BY <1>1 DEF CreateInv, GenInv
<1>3. MapInv'
  BY <1>1 DEF MapInv, UniqueKeys
<1> QED BY <1>1, <1>2, <1>3 DEF CreateInv, PlanInv, Making, MadeInv, CreatedInv

-----------------------------------------------------------------------------
(* Steps of a creation *)

LEMMA OlderRun ==
  ASSUME BaseInv, GenInv, pc \notin {"idle", "mkarray"}
  PROVE  \A m \in Running : arrays[m].vol.gen < steps
BY DEF BaseInv, DiskInv, ArrayInv, GenInv

LEMMA SomeDevice ==
  ASSUME node \in Nodes, NEW i \in DOMAIN node.lds
  PROVE  DevicesFor(node.lds[i]) # {}
<1> DEFINE hints == node.lds[i].hints
<1>1. hints \in Seq(SUBSET Disks)
  BY Requests
<1>2. CASE hints = <<>>
  <2>1. 1 \in Disks
    BY RaidAssumption DEF RaidAssumption, Disks
  <2> QED BY <1>2, <2>1 DEF DevicesFor
<1>3. CASE hints # <<>> /\ Picks(hints) = {}
  BY <1>3 DEF DevicesFor, NoCandidate
<1>4. CASE hints # <<>> /\ Picks(hints) # {}
  <2>1. PICK pick \in Picks(hints) : DevicesFor(node.lds[i]) = Range(pick)
    BY <1>4 DEF DevicesFor
  <2>2. pick \in [DOMAIN hints -> Disks]
    BY DEF Picks
  <2>3. 1 \in DOMAIN hints
    BY <1>1, <1>4
  <2> QED BY <2>1, <2>2, <2>3 DEF Range
<1> QED BY <1>2, <1>3, <1>4

(* What is not made again runs under the name that was asked for.          *)
LEMMA FoundRun ==
  ASSUME NEW unread, ~Ignored(unread).bad
  PROVE  /\ Ignored(unread).found \subseteq DOMAIN node.lds
         /\ \A i \in Ignored(unread).found :
              /\ node.lds[i].name # NoName
              /\ \E m \in Running : arrays[m].vol.name = node.lds[i].name
<1> DEFINE found == {i \in DOMAIN node.lds :
                       {m \in Running : NameOf(m, unread) = node.lds[i].name} # {}}
<1>1. Ignored(unread).found \subseteq found /\ \A m \in Running : NameOf(m, unread) # NoName
  BY DEF Ignored
<1>2. \A m \in Running : NameOf(m, unread) = arrays[m].vol.name
  BY <1>1 DEF NameOf
<1> QED BY <1>1, <1>2

LEMMA PlanCreates ==
  ASSUME BaseInv, CreateInv, Plan
  PROVE  CreateInv'
<1>1. pc = "plan" /\ UNCHANGED <<node, parts, super, arrays, rootMap, steps>>
  BY Zenon DEF Plan, asked, disk, bounds
<1> DEFINE lists(unread) == IF node.skip # {} /\ Running # {} THEN Ignored(unread)
                            ELSE [bad |-> FALSE, found |-> {}]
           left(unread) == DOMAIN node.lds \ lists(unread).found
           devs(i) == DevicesFor(node.lds[i])
           used(unread) == UNION {devs(i) : i \in left(unread)}
           order(unread) == InOrder(left(unread))
           plan(unread) == [i \in DOMAIN order(unread) |->
                              [name |-> node.lds[order(unread)[i]].name,
                               root |-> node.lds[order(unread)[i]].root,
                               devs |-> devs(order(unread)[i])]]
<1>2. PICK unread :
        \/ Ended
        \/ /\ Valid /\ ~lists(unread).bad
           /\ \/ used(unread) = {} /\ Ends("created")
              \/ /\ used(unread) # {}
                 /\ Goes("label", [NoLocals EXCEPT !.lds = plan(unread),
                                     !.todo = used(unread)])
  BY Endings, Zenon DEF Plan
<1>3. GenInv'
  BY <1>1 DEF CreateInv, GenInv
<1>4. CASE Ended
  BY <1>1, <1>3, <1>4, OutsideMaking DEF Ended, Making
<1>5. node \in Nodes /\ (Valid => Checked)
  BY Zenon DEF BaseInv, Valid, Checked
<1>6. left(unread) \in SUBSET DOMAIN node.lds /\ (used(unread) = {} <=> left(unread) = {})
  BY <1>5, SomeDevice
<1>7. ASSUME ~lists(unread).bad, NEW i \in DOMAIN node.lds \ left(unread)
      PROVE  /\ node.skip # {}
             /\ node.lds[i].name # NoName
             /\ \E m \in Running : arrays[m].vol.name = node.lds[i].name
  <2>1. i \in lists(unread).found
    BY <1>7
  <2>2. CASE node.skip # {} /\ Running # {}
    <3>1. lists(unread) = Ignored(unread)
      BY <2>2
    <3> QED BY <1>7, <2>1, <2>2, <3>1, FoundRun
  <2>3. CASE ~(node.skip # {} /\ Running # {})
    BY <2>1, <2>3
  <2> QED BY <2>2, <2>3
<1>8. \A m \in Running : arrays[m].vol.gen < steps
  BY <1>1, OlderRun DEF CreateInv
<1> HIDE DEF lists, left, devs, used
<1>9. CASE used(unread) = {} /\ Valid /\ ~lists(unread).bad /\ Ends("created")
  <2>1. Checked' /\ Outcome({})'
    <3>1. UNCHANGED <<node, arrays, steps>> /\ Running' = Running /\ left(unread) = {}
      BY <1>1, <1>6, <1>9 DEF Running
    <3>2. steps \in Nat /\ Cardinality({}) = 0 /\ 1 .. 0 = {}
      BY FS_EmptySet DEF CreateInv, GenInv
    <3>3. Others({})'
      BY <1>7, <1>8, <1>9, <3>1 DEF Others
    <3>4. ThisStep(Cardinality({}))'
      BY <1>8, <3>1, <3>2 DEF ThisStep
    <3>5. node.skip = {} => DOMAIN node.lds = {}
      BY <1>7, <1>9, <3>1
    <3>6. Checked'
      BY <1>1, <1>5, <1>9 DEF Checked
    <3> QED BY <3>1, <3>2, <3>3, <3>4, <3>5, <3>6 DEF Outcome
  <2>2. pc' = "idle"
    BY <1>9 DEF Ends
  <2>3. MapInv'
    BY <1>1, SameMap DEF CreateInv
  <2> QED BY <1>3, <2>1, <2>2, <2>3 DEF CreateInv, PlanInv, Making, MadeInv, CreatedInv
<1>10. CASE /\ used(unread) # {} /\ Valid /\ ~lists(unread).bad
            /\ Goes("label", [NoLocals EXCEPT !.lds = plan(unread), !.todo = used(unread)])
  <2>1. /\ pc' = "label" /\ result' = result /\ local'.lds = plan(unread)
    BY <1>10 DEF Goes, NoLocals
  <2>2. /\ Checked /\ left(unread) # {}
    BY <1>5, <1>6, <1>10
  <2>3. order(unread) \in [1 .. Cardinality(left(unread)) -> left(unread)]
        /\ Cardinality(left(unread)) \in Nat
    BY <1>5, <1>6, <2>2, Ordered DEF Checked
  <2>4. /\ DOMAIN local'.lds = 1 .. Cardinality(left(unread))
        /\ Len(local'.lds) = Cardinality(left(unread))
        /\ \A k \in DOMAIN local'.lds :
             /\ local'.lds[k].name = node.lds[order(unread)[k]].name
             /\ local'.lds[k].root = node.lds[order(unread)[k]].root
    <3>1. DOMAIN order(unread) = 1 .. Cardinality(left(unread))
      BY <2>3
    <3> HIDE DEF order
    <3>2. local'.lds = [k \in 1 .. Cardinality(left(unread)) |->
                          [name |-> node.lds[order(unread)[k]].name,
                           root |-> node.lds[order(unread)[k]].root,
                           devs |-> devs(order(unread)[k])]]
      BY <2>1, <3>1
    <3> QED BY <2>3, <3>2
  <2>5. PICK L \in SUBSET DOMAIN node.lds : L = left(unread)
    BY <1>6
  <2>6. /\ node.skip = {} => left(unread) = DOMAIN node.lds
        /\ \A i \in DOMAIN node.lds \ left(unread) :
             /\ node.lds[i].name # NoName
             /\ \E m \in Running :
                  arrays[m].vol.name = node.lds[i].name /\ arrays[m].vol.gen < steps
    BY <1>6, <1>7, <1>8, <1>10
  <2>7. Planned(L)'
    <3>1. UNCHANGED node /\ Running' = Running /\ UNCHANGED <<arrays, steps>>
          /\ InOrder(L)' = InOrder(L)
      BY <1>1 DEF Running, InOrder, Before
    <3> HIDE DEF order
    <3>2. order(unread) = InOrder(L)
      BY <2>5 DEF order
    <3>3. Others(L)'
      BY <2>5, <2>6, <3>1 DEF Others
    <3> QED BY <2>2, <2>4, <2>5, <2>6, <3>1, <3>2, <3>3 DEF Planned
  <2>8. MapInv'
    BY <1>1, SameMap DEF CreateInv
  <2>9. result # "created"
    BY <1>1 DEF CreateInv, CreatedInv
  <2>10. PlanInv'
    <3>1. Checked'
      BY <1>1, <2>2 DEF Checked
    <3> QED BY <1>1, <2>7, <3>1 DEF PlanInv
  <2> QED BY <1>3, <2>1, <2>8, <2>9, <2>10 DEF CreateInv, MadeInv, CreatedInv
<1> QED BY <1>2, <1>4, <1>9, <1>10

LEMMA StillPlanned ==
  ASSUME PlanInv, Making, UNCHANGED <<node, steps>>, local'.lds = local.lds,
         Running \subseteq Running', \A m \in Running : arrays'[m] = arrays[m]
  PROVE  PlanInv'
<1>1. Checked' /\ \E left \in SUBSET DOMAIN node.lds : Planned(left)
  BY DEF PlanInv, Checked
<1>2. ASSUME NEW left \in SUBSET DOMAIN node.lds, Planned(left)
      PROVE  Planned(left)'
  <2>1. InOrder(left)' = InOrder(left)
    BY DEF InOrder, Before
  <2>2. Planned(left)' <=>
          /\ left # {}
          /\ Len(local.lds) = Cardinality(left) /\ DOMAIN local.lds = 1 .. Cardinality(left)
          /\ \A k \in DOMAIN local.lds :
               /\ local.lds[k].name = node.lds[InOrder(left)[k]].name
               /\ local.lds[k].root = node.lds[InOrder(left)[k]].root
          /\ node.skip = {} => left = DOMAIN node.lds
          /\ Others(left)'
    BY <2>1, Zenon DEF Planned
  <2>3. Others(left)'
    BY <1>2 DEF Planned, Others
  <2> QED BY <1>2, <2>2, <2>3 DEF Planned
<1> QED BY <1>1, <1>2 DEF PlanInv

LEMMA LabelCreates ==
  ASSUME BaseInv, CreateInv, Label
  PROVE  CreateInv'
<1>1. pc = "label" /\ UNCHANGED <<node, super, arrays, rootMap, steps>>
  BY Zenon DEF Label, asked, bounds
<1>2. Ended \/ Goes("mkpart", local)
  BY Endings, Zenon DEF Label
<1>3. GenInv'
  BY <1>1 DEF CreateInv, GenInv
<1>4. CASE Ended
  BY <1>1, <1>3, <1>4, OutsideMaking DEF Ended, Making
<1>5. CASE Goes("mkpart", local)
  <2>1. pc' = "mkpart" /\ result' = result /\ local' = local
    BY <1>5 DEF Goes
  <2>2. PlanInv'
    BY <1>1, <2>1, StillPlanned DEF CreateInv, Making, Running
  <2>3. MapInv'
    BY <1>1, SameMap DEF CreateInv
  <2> QED BY <1>1, <1>3, <2>1, <2>2, <2>3 DEF CreateInv, MadeInv, CreatedInv
<1> QED BY <1>2, <1>4, <1>5

LEMMA MakePartsCreates ==
  ASSUME BaseInv, CreateInv, MakeParts
  PROVE  CreateInv'
<1>1. pc = "mkpart" /\ UNCHANGED <<node, super, arrays, rootMap, steps>>
  BY Zenon DEF MakeParts, asked, bounds
<1>2. \/ Ended
      \/ Goes("mkpart", [local EXCEPT !.next = @ + 1])
      \/ Goes("mkarray", [local EXCEPT !.next = 1])
  BY Endings, Zenon DEF MakeParts
<1>3. GenInv'
  BY <1>1 DEF CreateInv, GenInv
<1>4. CASE Ended
  BY <1>1, <1>3, <1>4, OutsideMaking DEF Ended, Making
<1>5. CASE ~Ended
  <2>1. /\ pc' \in {"mkpart", "mkarray"} /\ result' = result /\ local'.lds = local.lds
        /\ pc' = "mkarray" => local'.next = 1
    BY <1>2, <1>5 DEF Goes, BaseInv, LocalInv
  <2>2. PlanInv'
    BY <1>1, <2>1, StillPlanned DEF CreateInv, Making, Running
  <2>3. MapInv'
    BY <1>1, SameMap DEF CreateInv
  <2>4. MadeInv'
    <3>1. \A m \in Running : arrays[m].vol.gen < steps
      BY <1>1, OlderRun DEF CreateInv
    <3>2. 1 \in DOMAIN local.lds
      <4>1. PICK left \in SUBSET DOMAIN node.lds : Planned(left) /\ Checked
        BY <1>1 DEF CreateInv, PlanInv, Making
      <4>2. Cardinality(left) \in {1, 2}
        BY <4>1, Ordered DEF Planned, Checked, BaseInv
      <4> QED BY <4>1, <4>2 DEF Planned
    <3> QED BY <1>1, <2>1, <3>1, <3>2 DEF MadeInv, ThisStep, Running, CreateInv, GenInv
  <2> QED BY <1>1, <1>3, <2>1, <2>2, <2>3, <2>4 DEF CreateInv, CreatedInv
<1> QED BY <1>4, <1>5

(* A new array has all its members, and they are in the partition tables.  *)
Built(k, ld) ==
  /\ Md(k - 1) \notin Running /\ Running' = Running \cup {Md(k - 1)}
  /\ Runs(ld, k)'
  /\ rootMap' = IF ld.root = "unset" THEN rootMap ELSE Put(rootMap, Md(k - 1), ld.root)
  /\ \/ k = Len(local.lds) /\ Ends("created")
     \/ k # Len(local.lds) /\ Goes("mkarray", [local EXCEPT !.next = @ + 1])

LEMMA ArrayBuilt ==
  ASSUME BaseInv, MakeArray, NEW k, k = local.next, NEW ld, ld = local.lds[k]
  PROVE  /\ pc = "mkarray" /\ UNCHANGED <<node, parts, steps>>
         /\ \A c \in Comps : super'[c] = super[c] \/ super'[c].gen = steps
         /\ (Ended /\ rootMap' = rootMap) \/ Built(k, ld)
<1> DEFINE taken(n, d) == Cardinality({j \in 1 .. n - 1 : d \in local.lds[j].devs})
           comps(n, of) == {<<d, taken(n, d) + 1>> : d \in of.devs}
           name(n, of) == IF of.name # NoName THEN of.name ELSE <<"md0", "md1">>[n - 1 + 1]
           vol(n, of) == Volume(name(n, of), steps, comps(n, of))
           possible(n, of) == Md(n - 1) \notin Running /\ comps(n, of) \subseteq Visible \ Busy
           made(n, of, on) ==
             /\ super' = [c \in Comps |-> IF c \in on THEN vol(n, of) ELSE super[c]]
             /\ arrays' = Started([m \in {Md(n - 1)} |-> [vol |-> vol(n, of), on |-> on]])
           mapped(n, of) == rootMap' = IF of.root = "unset" THEN rootMap
                                       ELSE Put(rootMap, Md(n - 1), of.root)
           goes(n) == \/ n = Len(local.lds) /\ Ends("created")
                      \/ n # Len(local.lds) /\ Goes("mkarray", [local EXCEPT !.next = @ + 1])
           tried(n, of) ==
             \/ Ended /\ UNCHANGED <<super, arrays, rootMap>>
             \/ /\ possible(n, of)
                /\ \E missing : /\ made(n, of, comps(n, of) \ missing)
                                /\ \/ Ended /\ UNCHANGED rootMap
                                   \/ missing = {} /\ mapped(n, of) /\ goes(n)
<1>1. /\ pc = "mkarray" /\ UNCHANGED <<node, parts, steps>> /\ k \in Nat \ {0}
      /\ ArrayInv /\ PartsInv
  BY Zenon DEF MakeArray, asked, bounds, BaseInv, LocalInv, DiskInv
<1>2. tried(k, ld)
  <2>1. tried(local.next, local.lds[local.next])
    BY Endings, Zenon DEF MakeArray, AddFails
  <2> HIDE DEF tried
  <2> QED BY <2>1
<1>3. /\ NameFor(ld, k) = name(k, ld) /\ vol(k, ld).name = name(k, ld)
      /\ vol(k, ld).gen = steps /\ vol(k, ld).on = comps(k, ld)
  <2>1. k - 1 + 1 = k
    BY <1>1
  <2> QED BY <2>1, Zenon DEF NameFor, Volume
<1> HIDE DEF comps, name, vol, mapped, goes
<1>4. CASE Ended /\ UNCHANGED <<super, arrays, rootMap>>
  BY <1>1, <1>4
<1>5. ASSUME possible(k, ld), NEW missing, made(k, ld, comps(k, ld) \ missing),
             \/ Ended /\ UNCHANGED rootMap
             \/ missing = {} /\ mapped(k, ld) /\ goes(k)
      PROVE  /\ \A c \in Comps : super'[c] = super[c] \/ super'[c].gen = steps
             /\ (Ended /\ rootMap' = rootMap) \/ Built(k, ld)
  <2>1. \A c \in Comps : super'[c] = IF c \in comps(k, ld) \ missing THEN vol(k, ld) ELSE super[c]
    BY <1>5
  <2>2. CASE missing = {} /\ mapped(k, ld) /\ goes(k)
    <3>1. /\ Running' = Running \cup {Md(k - 1)}
          /\ arrays'[Md(k - 1)].vol = vol(k, ld) /\ arrays'[Md(k - 1)].on = comps(k, ld)
      BY <1>5, <2>2 DEF Started, Running
    <3>2. \A c \in comps(k, ld) : c[2] \in parts'[c[1]] /\ super'[c] = vol(k, ld)
      <4>1. \A c \in comps(k, ld) : c \in Comps /\ c[2] \in parts[c[1]]
        BY <1>1, <1>5, VisibleComps DEF Visible
      <4> QED BY <1>1, <2>1, <2>2, <4>1
    <3>3. Runs(ld, k)' <=>
            /\ Md(k - 1) \in Running'
            /\ LET a == arrays'[Md(k - 1)]
               IN /\ a.vol.name = NameFor(ld, k) /\ a.vol.gen = steps' /\ a.on = a.vol.on
                  /\ \A c \in a.vol.on : c[2] \in parts'[c[1]] /\ super'[c] = a.vol
      BY DEF Runs, Whole, NameFor
    <3>4. Runs(ld, k)'
      BY <1>1, <1>3, <3>1, <3>2, <3>3
    <3>5. Built(k, ld)
      BY <1>5, <2>2, <3>1, <3>4, Zenon DEF Built, mapped, goes
    <3> QED BY <1>3, <2>1, <3>5
  <2> QED BY <1>3, <1>5, <2>1, <2>2
<1> QED BY <1>1, <1>2, <1>4, <1>5

(* A mapping keeps its keys and their places.                              *)
Grown(map, new, m, flag) ==
  /\ \E n \in DOMAIN new : new[n] = <<m, flag>>
  /\ \A n \in DOMAIN map : /\ n \in DOMAIN new /\ new[n][1] = map[n][1]
                           /\ map[n][1] # m => new[n] = map[n]
  /\ \A n \in DOMAIN new : \/ new[n] = <<m, flag>>
                           \/ n \in DOMAIN map /\ new[n] = map[n] /\ map[n][1] # m
  /\ map = <<>> => new[1] = <<m, flag>>

LEMMA PutMap ==
  ASSUME NEW P, NEW map \in Seq(P), NEW m, NEW flag, <<m, flag>> \in P, UniqueKeys(map)
  PROVE  /\ Put(map, m, flag) \in Seq(P) /\ UniqueKeys(Put(map, m, flag))
         /\ Grown(map, Put(map, m, flag), m, flag)
<1> DEFINE new == Put(map, m, flag)
<1>1. /\ Len(map) \in Nat /\ DOMAIN map = 1 .. Len(map)
      /\ \A i \in DOMAIN map : map[i] \in P
  OBVIOUS
<1>2. CASE \E i \in DOMAIN map : map[i][1] = m
  <2>1. new = [i \in DOMAIN map |-> IF map[i][1] = m THEN <<m, flag>> ELSE map[i]]
    BY <1>2 DEF Put
  <2>2. DOMAIN new = 1 .. Len(map) /\ \A i \in DOMAIN new : new[i] \in P
    BY <1>1, <2>1
  <2>3. new \in Seq(P)
    <3> HIDE DEF new
    <3>1. new = [i \in 1 .. Len(map) |-> new[i]] /\ \A i \in 1 .. Len(map) : new[i] \in P
      BY <2>1, <2>2 DEF new
    <3> QED BY <1>1, <3>1
  <2> HIDE DEF new
  <2>4. \A n \in DOMAIN map : /\ n \in DOMAIN new /\ new[n][1] = map[n][1]
                              /\ map[n][1] # m => new[n] = map[n]
                              /\ map[n][1] = m => new[n] = <<m, flag>>
    BY <2>1
  <2>5. map # <<>>
    BY <1>2
  <2>6. DOMAIN new = DOMAIN map
    BY <2>1
  <2> QED BY <1>2, <2>3, <2>4, <2>5, <2>6 DEF new, UniqueKeys, Grown
<1>3. CASE ~\E i \in DOMAIN map : map[i][1] = m
  <2>1. new = Append(map, <<m, flag>>)
    BY <1>3 DEF Put
  <2> DEFINE e == <<m, flag>>
  <2>2. e \in P /\ map \in Seq(P) /\ e[1] = m
    OBVIOUS
  <2> HIDE DEF e
  <2>3. /\ new \in Seq(P) /\ DOMAIN new = 1 .. Len(map) + 1 /\ new[Len(map) + 1] = e
        /\ \A n \in 1 .. Len(map) : new[n] = map[n]
    BY <2>1, <2>2 DEF e
  <2> HIDE DEF new
  <2>4. \A n \in DOMAIN new : n = Len(map) + 1 \/ n \in DOMAIN map
    BY <1>1, <2>3
  <2>5. \A i, j \in DOMAIN new : new[i][1] = new[j][1] => i = j
    BY <1>1, <1>3, <2>2, <2>3, <2>4 DEF UniqueKeys
  <2>6. map = <<>> => new[1] = e
    <3>1. map = <<>> => Len(map) + 1 = 1
      OBVIOUS
    <3> QED BY <2>3, <3>1
  <2>7. \E n \in DOMAIN new : new[n] = e
    BY <1>1, <2>3
  <2>8. \A n \in DOMAIN map : n \in DOMAIN new /\ new[n] = map[n]
    BY <1>1, <2>3
  <2>9. ASSUME NEW n \in DOMAIN new
        PROVE  new[n] = e \/ (n \in DOMAIN map /\ new[n] = map[n] /\ map[n][1] # m)
    BY <1>3, <2>3, <2>4, <2>8
  <2> QED BY <2>3, <2>5, <2>6, <2>7, <2>8, <2>9 DEF new, e, UniqueKeys, Grown
<1> QED BY <1>2, <1>3

LEMMA StillRuns ==
  ASSUME BaseInv, UNCHANGED <<parts, steps>>, NEW ld, NEW k, Runs(ld, k),
         Running \subseteq Running', \A m \in Running : arrays'[m] = arrays[m],
         \A c \in Busy : super'[c] = super[c]
  PROVE  Runs(ld, k)'
<1> DEFINE a == arrays[Md(k - 1)]
<1>1. Runs(ld, k)' <=>
        /\ Md(k - 1) \in Running'
        /\ LET b == arrays'[Md(k - 1)]
           IN /\ b.vol.name = NameFor(ld, k) /\ b.vol.gen = steps' /\ b.on = b.vol.on
              /\ \A c \in b.vol.on : c[2] \in parts'[c[1]] /\ super'[c] = b.vol
  BY DEF Runs, Whole, NameFor
<1>2. /\ Md(k - 1) \in Running /\ a.vol.name = NameFor(ld, k) /\ a.vol.gen = steps
      /\ a.on = a.vol.on /\ \A c \in a.on : c[2] \in parts[c[1]] /\ super[c] = a.vol
  BY DEF Runs, Whole
<1>3. a.on \subseteq Busy
  BY <1>2 DEF Busy
<1> QED BY <1>1, <1>2, <1>3

(* What there is to know of the logical disk whose array is made.          *)
LEMMA InHand ==
  ASSUME BaseInv, CreateInv, pc = "mkarray", NEW k, k = local.next
  PROVE  \E left \in SUBSET DOMAIN node.lds :
           /\ Checked /\ Planned(left)
           /\ k \in 1 .. Cardinality(left) /\ Cardinality(left) \in {1, 2}
           /\ InOrder(left) \in [1 .. Cardinality(left) -> left]
           /\ Cardinality(left) = 2 => Len(node.lds) = 2
           /\ k = 2 \/ node.skip = {} => left = DOMAIN node.lds
<1>1. PICK left \in SUBSET DOMAIN node.lds : Planned(left) /\ Checked
  BY DEF CreateInv, PlanInv, Making
<1>2. left # {} /\ DOMAIN local.lds = 1 .. Cardinality(left)
      /\ (node.skip = {} => left = DOMAIN node.lds)
  BY <1>1 DEF Planned
<1>3. /\ InOrder(left) \in [1 .. Cardinality(left) -> left] /\ Cardinality(left) \in {1, 2}
      /\ Cardinality(left) = 2 => left = DOMAIN node.lds /\ Len(node.lds) = 2
  BY <1>1, <1>2, Ordered DEF Checked, BaseInv
<1>4. k \in DOMAIN local.lds
  BY DEF CreateInv, MadeInv
<1>5. k = 2 => Cardinality(left) = 2
  BY <1>2, <1>3, <1>4
<1> QED BY <1>1, <1>2, <1>3, <1>4, <1>5

LEMMA MapGrows ==
  ASSUME BaseInv, CreateInv, pc = "mkarray", UNCHANGED node,
         NEW k, k = local.next, NEW ld, ld = local.lds[k], ld.root # "unset",
         rootMap' = Put(rootMap, Md(k - 1), ld.root)
  PROVE  /\ MapInv'
         /\ \E n \in DOMAIN rootMap' : rootMap'[n] = <<Md(k - 1), ld.root>>
         /\ \A n \in DOMAIN rootMap : rootMap[n][1] # Md(k - 1) =>
              n \in DOMAIN rootMap' /\ rootMap'[n] = rootMap[n]
<1> DEFINE P == {Md(0), Md(1)} \X {"yes", "no"}
<1>1. PICK left \in SUBSET DOMAIN node.lds :
        /\ Checked /\ Planned(left)
        /\ k \in 1 .. Cardinality(left) /\ Cardinality(left) \in {1, 2}
        /\ InOrder(left) \in [1 .. Cardinality(left) -> left]
        /\ Cardinality(left) = 2 => Len(node.lds) = 2
        /\ k = 2 \/ node.skip = {} => left = DOMAIN node.lds
  BY InHand
<1>2. /\ k \in {1, 2} /\ InOrder(left)[k] \in left
      /\ ld.root = node.lds[InOrder(left)[k]].root
      /\ k = 2 => Len(node.lds) = 2
  BY <1>1 DEF Planned
<1>3. /\ <<Md(k - 1), ld.root>> \in P
      /\ (Md(k - 1) = Md(1) <=> k = 2) /\ (Md(k - 1) = Md(0) <=> k = 1)
  <2>1. ld.root \in {"yes", "no", "unset"}
    BY <1>2, Requests DEF BaseInv
  <2> QED BY <1>2, <2>1 DEF Md
<1>4. left = DOMAIN node.lds => ld.root = node.lds[FullOrder[k]].root
  BY <1>2 DEF FullOrder
<1>5. MapInv
  BY DEF CreateInv
<1>6. /\ rootMap' \in Seq(P) /\ UniqueKeys(rootMap')
      /\ Grown(rootMap, rootMap', Md(k - 1), ld.root)
  <2>1. rootMap \in Seq(P) /\ UniqueKeys(rootMap)
    BY <1>5 DEF MapInv
  <2> HIDE DEF P
  <2> QED BY <1>3, <2>1, PutMap
<1>7. FullOrder' = FullOrder
  BY DEF FullOrder, InOrder, Before
<1>8. \A i \in DOMAIN rootMap' : rootMap'[i][1] = Md(1) =>
        Len(node.lds) = 2 /\ rootMap'[i][2] = node.lds[FullOrder[2]].root
  <2> SUFFICES ASSUME NEW i \in DOMAIN rootMap', rootMap'[i][1] = Md(1)
               PROVE  Len(node.lds) = 2 /\ rootMap'[i][2] = node.lds[FullOrder[2]].root
    OBVIOUS
  <2>1. CASE rootMap'[i] = <<Md(k - 1), ld.root>>
    <3>1. k = 2 /\ rootMap'[i][2] = ld.root
      BY <1>3, <2>1
    <3>2. left = DOMAIN node.lds /\ Len(node.lds) = 2
      BY <1>1, <1>2, <3>1
    <3> QED BY <1>4, <3>1, <3>2
  <2>2. CASE i \in DOMAIN rootMap /\ rootMap'[i] = rootMap[i]
    BY <1>5, <2>2 DEF MapInv
  <2> QED BY <1>6, <2>1, <2>2 DEF Grown
<1>9. node.skip = {} => \A i \in DOMAIN rootMap' : rootMap'[i][1] = Md(0) =>
        rootMap'[i][2] = node.lds[FullOrder[1]].root
  <2> SUFFICES ASSUME node.skip = {}, NEW i \in DOMAIN rootMap', rootMap'[i][1] = Md(0)
               PROVE  rootMap'[i][2] = node.lds[FullOrder[1]].root
    OBVIOUS
  <2>1. CASE rootMap'[i] = <<Md(k - 1), ld.root>>
    <3>1. k = 1 /\ rootMap'[i][2] = ld.root
      BY <1>3, <2>1
    <3>2. left = DOMAIN node.lds
      BY <1>1, <3>1
    <3> QED BY <1>4, <3>1, <3>2
  <2>2. CASE i \in DOMAIN rootMap /\ rootMap'[i] = rootMap[i]
    BY <1>5, <2>2 DEF MapInv
  <2> QED BY <1>6, <2>1, <2>2 DEF Grown
<1>10. rootMap' # <<>> /\ node.lds[FullOrder[1]].root # "unset" => rootMap'[1][1] = Md(0)
  <2> SUFFICES ASSUME node.lds[FullOrder[1]].root # "unset" PROVE rootMap'[1][1] = Md(0)
    OBVIOUS
  <2>1. CASE rootMap # <<>>
    <3>1. 1 \in DOMAIN rootMap
      <4> HIDE DEF P
      <4>1. rootMap \in Seq(P)
        BY <1>5 DEF MapInv, P
      <4> QED BY <2>1, <4>1
    <3> QED BY <1>5, <1>6, <2>1, <3>1 DEF MapInv, Grown
  <2>2. CASE rootMap = <<>> /\ k = 1
    BY <1>6, <2>2 DEF Grown, Md
  <2>3. CASE rootMap = <<>> /\ k = 2
    <3>1. local.lds[1].root = node.lds[FullOrder[1]].root
      BY <1>1, <2>3 DEF Planned, FullOrder
    <3>2. Made(local.lds[1], 1)
      BY <2>3 DEF CreateInv, MadeInv
    <3> QED BY <2>3, <3>1, <3>2 DEF Made
  <2> QED BY <1>2, <2>1, <2>2, <2>3
<1>11. MapInv'
  <2>1. /\ rootMap' \in Seq({Md(0), Md(1)} \X {"yes", "no"})
        /\ UniqueKeys(rootMap)'
    BY <1>6 DEF UniqueKeys
  <2> QED BY <1>7, <1>8, <1>9, <1>10, <2>1 DEF MapInv
<1> QED BY <1>6, <1>11 DEF Grown

LEMMA MakeArrayCreates ==
  ASSUME BaseInv, CreateInv, MakeArray
  PROVE  CreateInv'
<1> PICK k : k = local.next
  OBVIOUS
<1> PICK ld : ld = local.lds[k]
  OBVIOUS
<1>1. /\ pc = "mkarray" /\ UNCHANGED <<node, parts, steps>>
      /\ \A c \in Comps : super'[c] = super[c] \/ super'[c].gen = steps
      /\ (Ended /\ rootMap' = rootMap) \/ Built(k, ld)
  BY ArrayBuilt
<1>2. /\ Running \subseteq Running' /\ \A m \in Running : arrays'[m] = arrays[m]
      /\ \A c \in Busy : super'[c] = super[c]
  BY ArrayKeepsDisk DEF BaseInv
<1>3. GenInv'
  <2>1. pc' \in {"idle", "mkarray"}
    BY <1>1 DEF Ended, Built, Ends, Goes
  <2> QED BY <1>1, <2>1 DEF CreateInv, GenInv
<1>4. CASE Ended /\ rootMap' = rootMap
  BY <1>1, <1>3, <1>4, OutsideMaking DEF Ended, Making
<1>5. CASE Built(k, ld)
  <2>1. PICK left \in SUBSET DOMAIN node.lds :
          /\ Checked /\ Planned(left)
          /\ k \in 1 .. Cardinality(left) /\ Cardinality(left) \in {1, 2}
          /\ InOrder(left) \in [1 .. Cardinality(left) -> left]
    BY <1>1, InHand
  <2>2. MadeInv /\ MapInv /\ ThisStep(k - 1)
    BY <1>1 DEF CreateInv, MadeInv
  <2>3. /\ MapInv' /\ Made(ld, k)'
        /\ \A n \in DOMAIN rootMap : rootMap[n][1] # Md(k - 1) =>
             n \in DOMAIN rootMap' /\ rootMap'[n] = rootMap[n]
    <3>1. CASE ld.root = "unset"
      <4>1. rootMap' = rootMap /\ Runs(ld, k)'
        BY <1>5, <3>1 DEF Built
      <4>2. MapInv'
        BY <1>1, <2>2, <4>1, SameMap
      <4> QED BY <3>1, <4>1, <4>2 DEF Made
    <3>2. CASE ld.root # "unset"
      <4>1. rootMap' = Put(rootMap, Md(k - 1), ld.root) /\ Runs(ld, k)'
        BY <1>5, <3>2 DEF Built
      <4>2. pc = "mkarray" /\ UNCHANGED node
        BY <1>1
      <4>3. /\ MapInv'
            /\ \E n \in DOMAIN rootMap' : rootMap'[n] = <<Md(k - 1), ld.root>>
            /\ \A n \in DOMAIN rootMap : rootMap[n][1] # Md(k - 1) =>
                 n \in DOMAIN rootMap' /\ rootMap'[n] = rootMap[n]
        BY <3>2, <4>1, <4>2, MapGrows
      <4> QED BY <4>1, <4>3 DEF Made
    <3> QED BY <3>1, <3>2
  <2>4. ASSUME NEW j \in 1 .. k, NEW x, x = local.lds[j]
        PROVE  Made(x, j)'
    <3>1. CASE j = k
      BY <2>3, <2>4, <3>1
    <3>2. CASE j # k
      <4>1. Made(x, j)
        BY <1>1, <2>1, <2>2, <2>4, <3>2 DEF MadeInv
      <4>2. Runs(x, j)'
        BY <1>1, <1>2, <4>1, StillRuns DEF Made
      <4>3. Md(j - 1) # Md(k - 1)
        BY <2>1, <3>2 DEF Md
      <4>4. x.root # "unset" => \E n \in DOMAIN rootMap : rootMap[n] = <<Md(j - 1), x.root>>
        BY <4>1 DEF Made
      <4>5. x.root # "unset" => \E n \in DOMAIN rootMap' : rootMap'[n] = <<Md(j - 1), x.root>>
        BY <2>3, <4>3, <4>4
      <4> QED BY <4>2, <4>5 DEF Made
    <3> QED BY <3>1, <3>2
  <2>5. ThisStep(k)'
    <3>1. \A m \in Running' : m \in Running \/ m = Md(k - 1)
      BY <1>5 DEF Built
    <3> QED BY <1>1, <1>2, <2>1, <2>2, <3>1 DEF ThisStep
  <2>6. CASE k = Len(local.lds) /\ Ends("created")
    <3>1. k = Cardinality(left) /\ DOMAIN local.lds = 1 .. k
      BY <2>1, <2>6 DEF Planned
    <3>2. UNCHANGED <<node, steps>> /\ InOrder(left)' = InOrder(left)
      BY <1>1 DEF InOrder, Before
    <3>3. ASSUME NEW j \in 1 .. k, NEW y, y = node.lds[InOrder(left)[j]]
          PROVE  Made(y, j)'
      <4>1. PICK x : x = local.lds[j]
        OBVIOUS
      <4>2. x.name = y.name /\ x.root = y.root
        BY <2>1, <3>1, <3>3, <4>1 DEF Planned
      <4>3. Made(x, j)'
        BY <2>4, <4>1
      <4> QED BY <4>2, <4>3 DEF Made, Runs, NameFor
    <3>4. \A j \in 1 .. k : Made(node.lds[InOrder(left)[j]], j)'
      <4> TAKE j \in 1 .. k
      <4>1. PICK y : y = node.lds[InOrder(left)[j]]
        OBVIOUS
      <4>2. y = node'.lds[InOrder(left)'[j]]
        BY <3>2, <4>1
      <4>3. Made(y, j)'
        BY <3>3, <4>1
      <4> QED BY <4>2, <4>3
    <3>5. Others(left)'
      BY <1>1, <1>2, <2>1 DEF Planned, Others
    <3>6. Outcome(left)'
      BY <2>1, <2>5, <3>1, <3>2, <3>4, <3>5 DEF Outcome, Planned
    <3>7. Checked' /\ pc' = "idle"
      BY <1>1, <2>1, <2>6 DEF Checked, Ends
    <3>8. CreatedInv'
      BY <3>2, <3>6, <3>7 DEF CreatedInv
    <3> QED BY <1>3, <2>3, <3>7, <3>8 DEF CreateInv, PlanInv, Making, MadeInv
  <2>7. CASE k # Len(local.lds) /\ Goes("mkarray", [local EXCEPT !.next = @ + 1])
    <3>1. /\ pc' = "mkarray" /\ local'.lds = local.lds /\ local'.next = k + 1
          /\ result' = result
      BY <2>7 DEF Goes, BaseInv, LocalInv
    <3>2. PlanInv'
      BY <1>1, <1>2, <3>1, StillPlanned DEF CreateInv, Making
    <3>3. k + 1 \in DOMAIN local.lds
      BY <2>1, <2>7 DEF Planned
    <3>4. \A j \in 1 .. k : Made(local.lds[j], j)'
      <4> TAKE j \in 1 .. k
      <4>1. PICK x : x = local.lds[j]
        OBVIOUS
      <4>2. Made(x, j)'
        BY <2>4, <4>1
      <4>3. x = local'.lds[j]
        BY <3>1, <4>1
      <4> QED BY <4>2, <4>3
    <3>5. MadeInv'
      <4>1. local'.next - 1 = k
        BY <2>1, <3>1
      <4>2. local'.next \in DOMAIN local'.lds
        BY <3>1, <3>3
      <4>3. ThisStep(local.next - 1)'
        BY <2>5, <4>1 DEF ThisStep
      <4> QED BY <3>4, <4>1, <4>2, <4>3 DEF MadeInv
    <3>6. CreatedInv'
      BY <1>1, <3>1 DEF CreateInv, CreatedInv
    <3> QED BY <1>3, <2>3, <3>2, <3>5, <3>6 DEF CreateInv
  <2> QED BY <1>5, <2>6, <2>7 DEF Built
<1> QED BY <1>1, <1>4, <1>5

LEMMA CreateStep == BaseInv /\ CreateInv /\ [Next]_vars => CreateInv'
<1> SUFFICES ASSUME BaseInv, CreateInv, [Next]_vars PROVE CreateInv'
  OBVIOUS
<1>1. CASE UNCHANGED vars
  <2>1. UNCHANGED <<node, parts, super, arrays, rootMap, pc, local, result, steps>>
        /\ Running' = Running
    BY <1>1 DEF vars, asked, disk, bounds, Running
  <2>2. GenInv' /\ MapInv'
    BY <2>1, SameMap DEF CreateInv, GenInv
  <2>3. ASSUME Making PROVE PlanInv'
    BY <2>1, <2>3, StillPlanned DEF CreateInv
  <2>4. PlanInv'
    BY <2>1, <2>3 DEF PlanInv, Making
  <2>5. MadeInv'
    BY <2>1 DEF CreateInv, MadeInv, Made, Runs, Whole, NameFor, ThisStep
  <2>6. ASSUME NEW left, Outcome(left) PROVE Outcome(left)'
    <3>1. InOrder(left)' = InOrder(left)
      BY <2>1 DEF InOrder, Before
    <3> QED BY <2>1, <2>6, <3>1 DEF Outcome, Others, ThisStep, Made, Runs, Whole, NameFor
  <2>7. CreatedInv'
    BY <2>1, <2>6 DEF CreateInv, CreatedInv, Checked
  <2> QED BY <2>2, <2>4, <2>5, <2>7 DEF CreateInv
<1>2. CASE Creating
  BY <1>2, PlanCreates, LabelCreates, MakePartsCreates, MakeArrayCreates DEF Creating
<1> QED BY <1>1, <1>2, BeginCreates, DeletingCreates, RebootCreates DEF Next

THEOREM CreateIsInvariant == Spec => []CreateInv
<1> QED BY StartsCreated, CreateStep, BaseIsInvariant, PTL DEF Spec

-----------------------------------------------------------------------------
(* What was asked for                                                      *)

LEMMA OutcomePresent ==
  ASSUME BaseInv, CreateInv, Checked, NEW left \in SUBSET DOMAIN node.lds, Outcome(left)
  PROVE  AllPresent
<1> DEFINE Fresh(i, m) == /\ i \in left
                          /\ \E k \in 1 .. Cardinality(left) :
                               m = Md(k - 1) /\ InOrder(left)[k] = i /\ Made(node.lds[i], k)
           Found(i, m) == /\ i \notin left /\ node.lds[i].name # NoName
                          /\ arrays[m].vol.name = node.lds[i].name
                          /\ arrays[m].vol.gen < steps
           Own(i, m) == Fresh(i, m) \/ Found(i, m)
           own == [i \in DOMAIN node.lds |-> CHOOSE m \in Running : Own(i, m)]
<1>1. ASSUME NEW i \in DOMAIN node.lds PROVE \E m \in Running : Own(i, m)
  <2>1. CASE i \in left
    <3>1. PICK k \in 1 .. Cardinality(left) : InOrder(left)[k] = i
      BY <2>1, Ordered DEF Checked, BaseInv
    <3>2. Made(node.lds[i], k) /\ Md(k - 1) \in Running
      BY <3>1 DEF Outcome, Made, Runs
    <3> QED BY <2>1, <3>1, <3>2
  <2>2. CASE i \notin left
    BY <2>2 DEF Outcome, Others
  <2> QED BY <2>1, <2>2
<1>2. ASSUME NEW i, NEW m, Fresh(i, m)
      PROVE  /\ node.lds[i].name \in {NoName, arrays[m].vol.name} /\ arrays[m].vol.gen = steps
             /\ arrays[m].on = arrays[m].vol.on /\ Whole(arrays[m].vol)
  BY <1>2 DEF Made, Runs, NameFor
<1>3. ASSUME NEW i, NEW j, NEW m, Fresh(i, m), Fresh(j, m) PROVE i = j
  <2>1. Cardinality(left) \in Nat
    BY <1>3, Ordered DEF Checked, BaseInv
  <2>2. PICK k \in 1 .. Cardinality(left) : m = Md(k - 1) /\ InOrder(left)[k] = i
    BY <1>3
  <2>3. PICK l \in 1 .. Cardinality(left) : m = Md(l - 1) /\ InOrder(left)[l] = j
    BY <1>3
  <2>4. k = l
    BY <2>1, <2>2, <2>3 DEF Md
  <2> QED BY <2>2, <2>3, <2>4
<1>4. ASSUME NEW i \in DOMAIN node.lds, NEW j \in DOMAIN node.lds, NEW m, Own(i, m), Own(j, m)
      PROVE  i = j
  <2>1. steps \in Nat
    BY DEF CreateInv, GenInv
  <2>2. \A k : Fresh(k, m) => ~(arrays[m].vol.gen < steps)
    <3> TAKE k
    <3>1. Fresh(k, m) => arrays[m].vol.gen = steps
      BY <1>2
    <3> HIDE DEF Fresh
    <3> QED BY <2>1, <3>1
  <2>3. Found(i, m) /\ Found(j, m) => i = j
    BY DEF Checked
  <2>4. \A k : Found(k, m) => arrays[m].vol.gen < steps
    OBVIOUS
  <2>5. Fresh(i, m) /\ Fresh(j, m) => i = j
    BY <1>3
  <2>6. (Fresh(i, m) \/ Found(i, m)) /\ (Fresh(j, m) \/ Found(j, m))
    BY <1>4
  <2> HIDE DEF Fresh, Found
  <2> QED BY <2>2, <2>3, <2>4, <2>5, <2>6
<1>5. ASSUME NEW i, NEW m, Own(i, m)
      PROVE  /\ node.lds[i].name \in {NoName, arrays[m].vol.name}
             /\ arrays[m].vol.gen = steps => arrays[m].on = arrays[m].vol.on /\ Whole(arrays[m].vol)
  <2>1. steps \in Nat
    BY DEF CreateInv, GenInv
  <2> QED BY <1>2, <1>5, <2>1
<1> HIDE DEF Own
<1>6. /\ own \in [DOMAIN node.lds -> Running]
      /\ \A i \in DOMAIN node.lds : Own(i, own[i])
  BY <1>1
<1> HIDE DEF own
<1> QED BY <1>4, <1>5, <1>6 DEF AllPresent

(* The array that a logical disk was given in this step.                   *)
LEMMA OutcomeOwn ==
  ASSUME BaseInv, CreateInv, Checked, NEW left \in SUBSET DOMAIN node.lds, Outcome(left), Told,
         NEW i \in DOMAIN node.lds, NEW m \in Running,
         arrays[m].vol = Volume(node.lds[i].name, steps, arrays[m].vol.on)
  PROVE  \E k \in 1 .. Cardinality(left) :
           m = Md(k - 1) /\ i = InOrder(left)[k] /\ Made(node.lds[i], k) /\ i \in left
<1>1. arrays[m].vol.name = node.lds[i].name /\ arrays[m].vol.gen = steps
  <2>1. /\ Volume(node.lds[i].name, steps, arrays[m].vol.on).name = node.lds[i].name
        /\ Volume(node.lds[i].name, steps, arrays[m].vol.on).gen = steps
    BY DEF Volume
  <2> QED BY <2>1, Zenon
<1>2. PICK k \in 1 .. Cardinality(left) : m = Md(k - 1)
  BY <1>1 DEF Outcome, ThisStep
<1>3. Made(node.lds[InOrder(left)[k]], k)
  BY DEF Outcome
<1>4. /\ left # {} /\ Cardinality(left) \in {1, 2}
      /\ InOrder(left) \in [1 .. Cardinality(left) -> left]
  <2>1. left # {}
    <3>1. Cardinality({}) = 0
      BY FS_EmptySet, Zenon
    <3> QED BY <1>2, <3>1
  <2> QED BY <2>1, Ordered DEF Checked, BaseInv
<1> DEFINE j == InOrder(left)[k]
<1>5. j \in left /\ k \in {1, 2}
  BY <1>4
<1> HIDE DEF j
<1>6. NameFor(node.lds[j], k) = node.lds[i].name
  BY <1>1, <1>2, <1>3 DEF Made, Runs, j
<1>7. node.lds[j].name # NoName
  <2> SUFFICES ASSUME node.lds[j].name = NoName PROVE FALSE
    OBVIOUS
  <2>1. <<"md0", "md1">>[k] \in {"md0", "md1"}
    BY <1>5
  <2>2. node.lds[i].name \in {"md0", "md1"}
    BY <1>6, <2>1 DEF NameFor
  <2>3. j \in DOMAIN node.lds
    BY <1>5
  <2> QED BY <2>2, <2>3 DEF Told
<1>8. i = j
  BY <1>5, <1>6, <1>7 DEF Checked, NameFor
<1> QED BY <1>2, <1>3, <1>5, <1>8 DEF j

LEMMA OutcomeRoot ==
  ASSUME BaseInv, CreateInv, Checked, NEW left \in SUBSET DOMAIN node.lds, Outcome(left), Told
  PROVE  RootIsGiven
<1> SUFFICES ASSUME NEW i \in DOMAIN node.lds, NEW m \in Running,
                    arrays[m].vol = Volume(node.lds[i].name, steps, arrays[m].vol.on)
             PROVE  /\ node.lds[i].root = "yes" => InstallDevices = {m}
                    /\ node.lds[i].root = "no" =>
                         InstallDevices \cap ({m} \cup DisksOf(arrays[m].on)) = {}
  BY DEF RootIsGiven
<1>1. PICK k \in 1 .. Cardinality(left) :
        m = Md(k - 1) /\ i = InOrder(left)[k] /\ Made(node.lds[i], k) /\ i \in left
  BY OutcomeOwn
<1>2. MapInv
  BY DEF CreateInv
<1>3. DOMAIN rootMap \subseteq Nat \ {0}
      /\ \A n \in DOMAIN rootMap : rootMap[n][1] \in {Md(0), Md(1)}
  <2> DEFINE P == {Md(0), Md(1)} \X {"yes", "no"}
  <2> HIDE DEF P
  <2>1. rootMap \in Seq(P)
    BY <1>2 DEF MapInv, P
  <2>2. DOMAIN rootMap \subseteq Nat \ {0} /\ \A n \in DOMAIN rootMap : rootMap[n] \in P
    BY <2>1
  <2> QED BY <2>2 DEF P
<1>4. \A n, l \in DOMAIN rootMap : rootMap[n][1] = rootMap[l][1] => n = l
  BY <1>2 DEF MapInv, UniqueKeys
<1> DEFINE yes == {n \in DOMAIN rootMap : rootMap[n][2] = "yes"}
<1>5. yes # {} => Least(yes) \in yes /\ \A n \in yes : Least(yes) <= n
  <2>1. yes \in SUBSET Nat
    BY <1>3
  <2> QED BY <2>1, LeastOfMany
<1>6. yes # {} => InstallDevices = {rootMap[Least(yes)][1]}
  BY DEF InstallDevices
<1> HIDE DEF yes
<1>7. ASSUME node.lds[i].root = "yes" PROVE InstallDevices = {m}
  <2>1. PICK n \in DOMAIN rootMap : rootMap[n] = <<m, "yes">>
    BY <1>1, <1>7 DEF Made
  <2>2. n \in yes
    BY <2>1 DEF yes
  <2> DEFINE l == Least(yes)
  <2>3. l \in yes /\ l <= n /\ l \in DOMAIN rootMap /\ rootMap[l][2] = "yes"
        /\ InstallDevices = {rootMap[l][1]}
    BY <1>5, <1>6, <2>2 DEF yes
  <2> HIDE DEF l
  <2>4. ASSUME rootMap[l][1] # m PROVE FALSE
    <3> DEFINE F == FullOrder
    <3>1. /\ left # {} /\ Cardinality(left) \in {1, 2} /\ Len(node.lds) \in 1 .. 2
          /\ InOrder(left) \in [1 .. Cardinality(left) -> left]
          /\ Cardinality(left) = 1 => left = {i}
          /\ Cardinality(left) = 2 => left = DOMAIN node.lds /\ Len(node.lds) = 2
      BY <1>1, Ordered DEF Checked, BaseInv
    <3>2. Len(node.lds) = 2 => /\ DOMAIN node.lds = {F[1], F[2]} /\ F[1] # F[2]
                               /\ Before(F[1], F[2])
      <4> SUFFICES ASSUME Len(node.lds) = 2
                   PROVE  DOMAIN node.lds = {F[1], F[2]} /\ F[1] # F[2] /\ Before(F[1], F[2])
        OBVIOUS
      <4>1. DOMAIN node.lds = {1, 2}
        BY Requests DEF BaseInv
      <4>2. ~\E x : DOMAIN node.lds = {x}
        BY <4>1
      <4> QED BY <3>1, <4>1, <4>2, Ordered DEF FullOrder, BaseInv
    <3> HIDE DEF F
    <3>3. CASE k = 1 /\ m = Md(0) /\ rootMap[l][1] = Md(1)
      <4>1. Len(node.lds) = 2 /\ node.lds[F[2]].root = "yes"
        BY <1>2, <2>3, <3>3 DEF MapInv, F
      <4>2. i = F[2] /\ Before(F[1], F[2]) /\ F[1] # F[2]
            /\ F[1] \in DOMAIN node.lds /\ F[2] \in DOMAIN node.lds
        BY <1>7, <3>2, <4>1 DEF Checked
      <4>3. left # DOMAIN node.lds
        BY <1>1, <3>3, <4>2 DEF F, FullOrder
      <4>4. node.lds[F[1]].root # "unset"
        BY <1>7, <4>2, <4>3 DEF Outcome, Told
      <4>5. rootMap[1][1] = Md(0)
        BY <1>2, <2>1, <4>4 DEF MapInv, F
      <4>6. 1 \in DOMAIN rootMap
        <5> DEFINE P == {Md(0), Md(1)} \X {"yes", "no"}
        <5> HIDE DEF P
        <5>1. rootMap \in Seq(P)
          BY <1>2 DEF MapInv, P
        <5> QED BY <2>1, <5>1
      <4>7. n = 1
        BY <1>4, <2>1, <3>3, <4>5, <4>6
      <4>8. l = 1
        BY <1>3, <2>3, <4>7
      <4> QED BY <3>3, <4>5, <4>8 DEF Md
    <3>4. CASE k = 2 /\ m = Md(1) /\ rootMap[l][1] = Md(0)
      <4>1. left = DOMAIN node.lds /\ Len(node.lds) = 2 /\ Cardinality(left) = 2
        BY <3>1, <3>4
      <4>2. i = F[2] /\ Before(F[1], F[2]) /\ F[1] # F[2]
            /\ F[1] \in DOMAIN node.lds /\ F[2] \in DOMAIN node.lds
        BY <1>1, <3>2, <3>4, <4>1 DEF F, FullOrder
      <4>3. node.lds[F[1]].root # "yes"
        BY <1>7, <4>2 DEF Checked
      <4>4. CASE node.lds[F[1]].root # "unset"
        <5>1. Made(node.lds[F[1]], 1)
          BY <4>1 DEF Outcome, F, FullOrder
        <5>2. PICK x \in DOMAIN rootMap : rootMap[x] = <<Md(0), node.lds[F[1]].root>>
          BY <4>4, <5>1 DEF Made
        <5>3. x = l
          BY <1>4, <2>3, <3>4, <5>2
        <5> QED BY <2>3, <4>3, <5>2, <5>3
      <4>5. CASE node.lds[F[1]].root = "unset"
        <5>1. node.skip # {}
          BY <1>2, <2>3, <3>4, <4>5 DEF MapInv, F
        <5> QED BY <1>7, <4>2, <4>5, <5>1 DEF Told
      <4> QED BY <4>4, <4>5
    <3> QED BY <1>1, <1>3, <2>3, <2>4, <3>1, <3>3, <3>4
  <2> QED BY <2>3, <2>4
<1>8. ASSUME node.lds[i].root = "no"
      PROVE  InstallDevices \cap ({m} \cup DisksOf(arrays[m].on)) = {}
  <2>1. PICK n \in DOMAIN rootMap : rootMap[n] = <<m, "no">>
    BY <1>1, <1>8 DEF Made
  <2>2. CASE yes # {}
    <3>1. rootMap[Least(yes)][1] # m /\ rootMap[Least(yes)][1] \in {Md(0), Md(1)}
      BY <1>3, <1>4, <1>5, <2>1, <2>2 DEF yes
    <3>2. \A d \in DisksOf(arrays[m].on) : d \in Nat /\ d < 100
      <4>1. \A d \in Disks : d \in Nat /\ d < 100
        BY RaidAssumption DEF RaidAssumption, Disks
      <4>2. arrays[m].on \subseteq Comps
        BY DEF BaseInv, DiskInv, ArrayInv
      <4> QED BY <4>1, <4>2 DEF DisksOf, Comps
    <3> QED BY <1>6, <2>2, <3>1, <3>2 DEF Md
  <2>3. CASE yes = {}
    <3> DEFINE no == {rootMap[x][1] : x \in {y \in DOMAIN rootMap : rootMap[y][2] = "no"}}
                     \cap Running
               kept == {x \in Running : Decision(Running, {})[x] = "keep"}
    <3>1. m \in no
      BY <2>1
    <3>2. InstallDevices = ((Disks \cup Running) \ (kept \cup no)) \ UNION {DisksOf(arrays[x].on) : x \in no}
      BY <2>3 DEF InstallDevices, yes
    <3> HIDE DEF no, kept
    <3> QED BY <3>1, <3>2
  <2> QED BY <2>2, <2>3
<1> QED BY <1>7, <1>8

\* A creation that ends well leaves every logical disk an array of its own, running
\* under its name and complete if it was made now, whatever tools failed on the way,
\* and no member in two arrays.
THEOREM CreationIsComplete ==
  Spec => [](result = "created" => AllPresent /\ DisjointMembers)
<1>1. BaseInv /\ CreateInv => (result = "created" => AllPresent /\ DisjointMembers)
  <2> SUFFICES ASSUME BaseInv, CreateInv, result = "created"
               PROVE  AllPresent /\ DisjointMembers
    OBVIOUS
  <2>1. DisjointMembers
    BY DEF DisjointMembers, BaseInv, DiskInv, ArrayInv, UniqueInv
  <2>2. AllPresent
    BY OutcomePresent DEF CreateInv, CreatedInv
  <2> QED BY <2>1, <2>2
<1> QED BY <1>1, CreateIsInvariant, BaseIsInvariant, PTL

\* Of a node whose flags tell where the root volume is, a creation that ends well
\* also leaves a mapping from which a deployment is given that volume, and no disk
\* under one that is not the root.
THEOREM RequestIsMet == Spec => [](Told => CreatedAsRequested)
<1>1. BaseInv /\ CreateInv /\ (result = "created" => AllPresent /\ DisjointMembers)
        => (Told => CreatedAsRequested)
  BY OutcomeRoot DEF CreateInv, CreatedInv, CreatedAsRequested
<1> QED BY <1>1, CreationIsComplete, CreateIsInvariant, BaseIsInvariant, PTL

=============================================================================
