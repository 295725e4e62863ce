----------------------- MODULE BootloaderInstallProofs -----------------------
(***************************************************************************)
(* Proofs about preparing the disk of an instance and making it bootable,  *)
(* for every request, environment and set of boot records that the two     *)
(* assumptions allow, and for any number of calls: what must be kept is    *)
(* kept, a reported success means a config drive and something to boot     *)
(* from, and nothing is left mounted.                                      *)
(***************************************************************************)
EXTENDS BootloaderInstall, Integers, TLAPS

Preserving == kind = "image" /\ request.preserve

(* The request of a deployment, and where its calls can be.                *)
RequestInv ==
  /\ kind \in {"image", "drive"}
  /\ request \in IF kind = "image" THEN PartitionRequests ELSE DriveRequests
  /\ kind = "image" => pc \in {"idle", "destroy", "fetch", "partition", "check", "write", "boot"}
  /\ kind = "drive" => pc \in {"idle", "find", "fetch", "fix", "create", "locate", "fill",
                               "verify", "source", "rebuild", "release", "give up", "boot"}
  /\ Preserving => pc # "destroy"

(* The table, which a call that preserves or adds does not take from.      *)
TableInv ==
  /\ DOMAIN holds = DOMAIN use
  /\ DOMAIN use \subseteq Nat \ {0} /\ seen \subseteq Nat \ {0}
  /\ Preserving => use = Uses0(request) /\ seen = DOMAIN use
  /\ kind = "drive" => DOMAIN request.disk \subseteq DOMAIN use /\ seen \subseteq DOMAIN use

(* What work_on_disk has written so far is on the partitions it is for.    *)
WriteInv ==
  /\ pc \in {"find", "destroy", "fetch", "partition", "check"} => next = 1
  /\ pc = "check" => Preserving \/ use = Layout(request)
  /\ pc = "write" =>
       /\ DOMAIN Layout(request) \subseteq DOMAIN use
       /\ next \in 1 .. Len(Writes(request)) + 1
       /\ \A i \in 1 .. next - 1 :
            holds[Part(Writes(request)[i][1])] = Writes(request)[i][2]

(* The partition that a config drive is written to is not one of the       *)
(* image's, and from when on the drive is there.                           *)
TargetInv ==
  kind = "drive" =>
    /\ target # 0 =>
         /\ target \in DOMAIN use
         /\ \/ "first of md" \in notes \/ target \notin DOMAIN request.disk
            \/ request.disk[target][2] = "old config"
    /\ pc = "locate" => DOMAIN request.disk \subseteq before /\ DOMAIN use \ before # {}
    /\ pc \in {"fill", "verify", "source", "rebuild", "release", "give up"} => target # 0
    /\ pc \in {"verify", "release"} => holds[target] = "config"
    /\ pc = "source" /\ ~request.rebuild => holds[target] = "config"

(* The ESP that boot loaders are put on is an ESP.                         *)
EspInv ==
  /\ pc # "boot" => at = "idle" /\ esp = 0
  /\ ~request.md => esp = 0 \/ esp \in Esps \/ (EspGiven /\ esp = Part("esp"))
  /\ at = "preserve" => HasEsp /\ ~request.md

DiskInv == /\ RequestInv /\ TableInv /\ WriteInv /\ TargetInv /\ EspInv
           /\ OthersAreKept /\ DriveIsWritten

-----------------------------------------------------------------------------
(* Layouts and writes *)

Elements(s) == {s[i] : i \in DOMAIN s}

LEMMA ElementsOfConcat ==
  ASSUME NEW S, NEW s \in Seq(S), NEW t \in Seq(S)
  PROVE  s \o t \in Seq(S) /\ Elements(s \o t) = Elements(s) \cup Elements(t)
<1> DEFINE r == s \o t
<1>1. /\ r \in Seq(S) /\ Len(r) = Len(s) + Len(t)
      /\ \A i \in 1 .. Len(s) : r[i] = s[i]
      /\ \A i \in 1 .. Len(t) : r[Len(s) + i] = t[i]
  OBVIOUS
<1>2. DOMAIN r = 1 .. Len(s) + Len(t) /\ DOMAIN s = 1 .. Len(s) /\ DOMAIN t = 1 .. Len(t)
      /\ Len(s) \in Nat /\ Len(t) \in Nat
  BY <1>1
<1> HIDE DEF r
<1>3. \A i \in DOMAIN r : r[i] \in Elements(s) \cup Elements(t)
  <2> TAKE i \in DOMAIN r
  <2>1. CASE i \in 1 .. Len(s)
    BY <2>1, <1>1, <1>2 DEF Elements
  <2>2. CASE i \notin 1 .. Len(s)
    <3>1. i - Len(s) \in 1 .. Len(t) /\ Len(s) + (i - Len(s)) = i
      BY <2>2, <1>2
    <3> QED BY <3>1, <1>1, <1>2 DEF Elements
  <2> QED BY <2>1, <2>2
<1>4. \A i \in DOMAIN s : s[i] \in Elements(r)
  BY <1>1, <1>2 DEF Elements
<1>5. \A i \in DOMAIN t : t[i] \in Elements(r)
  <2> TAKE i \in DOMAIN t
  <2>1. Len(s) + i \in DOMAIN r /\ r[Len(s) + i] = t[i]
    BY <1>1, <1>2
  <2> QED BY <2>1 DEF Elements
<1>6. Elements(r) = Elements(s) \cup Elements(t)
  BY <1>3, <1>4, <1>5 DEF Elements
<1> QED BY <1>1, <1>6 DEF r

LEMMA OptionalElements ==
  ASSUME NEW S, NEW u \in S, NEW wanted \in BOOLEAN
  PROVE  Optional(wanted, u) \in Seq(S) /\ Elements(Optional(wanted, u)) = IF wanted THEN {u} ELSE {}
<1>1. CASE wanted
  <2>1. Optional(wanted, u) = <<u>>
    BY <1>1 DEF Optional
  <2> QED BY <2>1, <1>1 DEF Elements
<1>2. CASE ~wanted
  <2>1. Optional(wanted, u) = <<>>
    BY <1>2 DEF Optional
  <2> QED BY <2>1, <1>2 DEF Elements
<1> QED BY <1>1, <1>2

LEMMA Single1 ==
  ASSUME NEW S, NEW u \in S
  PROVE  <<u>> \in Seq(S) /\ Elements(<<u>>) = {u}
BY DEF Elements

LEMMA LayoutElements ==
  ASSUME NEW r \in RequestType
  PROVE  /\ Layout(r) \in Seq(Uses)
         /\ Elements(Layout(r)) =
              {"root"} \cup (IF r.mode = "uefi" THEN {"esp"} ELSE {})
                \cup (IF r.mode = "bios" /\ r.label = "gpt" /\ ~r.ppc THEN {"bios"} ELSE {})
                \cup (IF r.mode = "bios" /\ r.ppc THEN {"prep"} ELSE {})
                \cup (IF r.ephemeral THEN {"ephemeral"} ELSE {})
                \cup (IF r.swap THEN {"swap"} ELSE {})
                \cup (IF r.drive THEN {"config"} ELSE {})
<1> DEFINE a == Optional(r.mode = "uefi", "esp")
           b == Optional(r.mode = "bios" /\ r.label = "gpt" /\ ~r.ppc, "bios")
           c == Optional(r.mode = "bios" /\ r.ppc, "prep")
           d == Optional(r.ephemeral, "ephemeral")
           e == Optional(r.swap, "swap")
           f == Optional(r.drive, "config")
           g == <<"root">>
<1>0. r.ephemeral \in BOOLEAN /\ r.swap \in BOOLEAN /\ r.drive \in BOOLEAN
  BY DEF RequestType
<1>1. a \in Seq(Uses) /\ Elements(a) = IF r.mode = "uefi" THEN {"esp"} ELSE {}
  BY OptionalElements DEF Uses
<1>2. b \in Seq(Uses) /\ Elements(b) =
        IF r.mode = "bios" /\ r.label = "gpt" /\ ~r.ppc THEN {"bios"} ELSE {}
  BY OptionalElements DEF Uses
<1>3. c \in Seq(Uses) /\ Elements(c) = IF r.mode = "bios" /\ r.ppc THEN {"prep"} ELSE {}
  BY OptionalElements DEF Uses
<1>4. d \in Seq(Uses) /\ Elements(d) = IF r.ephemeral THEN {"ephemeral"} ELSE {}
  BY <1>0, OptionalElements DEF Uses
<1>5. e \in Seq(Uses) /\ Elements(e) = IF r.swap THEN {"swap"} ELSE {}
  BY <1>0, OptionalElements DEF Uses
<1>6. f \in Seq(Uses) /\ Elements(f) = IF r.drive THEN {"config"} ELSE {}
  BY <1>0, OptionalElements DEF Uses
<1>7. g \in Seq(Uses) /\ Elements(g) = {"root"}
  BY Single1 DEF Uses
<1> HIDE DEF a, b, c, d, e, f, g
<1> DEFINE s2 == a \o b
<1>8. s2 \in Seq(Uses) /\ Elements(s2) = Elements(a) \cup Elements(b)
  BY <1>1, <1>2, ElementsOfConcat
<1> HIDE DEF s2
<1> DEFINE s3 == s2 \o c
<1>9. s3 \in Seq(Uses) /\ Elements(s3) = Elements(s2) \cup Elements(c)
  BY <1>8, <1>3, ElementsOfConcat
<1> HIDE DEF s3
<1> DEFINE s4 == s3 \o d
<1>10. s4 \in Seq(Uses) /\ Elements(s4) = Elements(s3) \cup Elements(d)
  BY <1>9, <1>4, ElementsOfConcat
<1> HIDE DEF s4
<1> DEFINE s5 == s4 \o e
<1>11. s5 \in Seq(Uses) /\ Elements(s5) = Elements(s4) \cup Elements(e)
  BY <1>10, <1>5, ElementsOfConcat
<1> HIDE DEF s5
<1> DEFINE s6 == s5 \o f
<1>12. s6 \in Seq(Uses) /\ Elements(s6) = Elements(s5) \cup Elements(f)
  BY <1>11, <1>6, ElementsOfConcat
<1> HIDE DEF s6
<1> DEFINE s7 == s6 \o g
<1>13. s7 \in Seq(Uses) /\ Elements(s7) = Elements(s6) \cup Elements(g)
  BY <1>12, <1>7, ElementsOfConcat
<1> HIDE DEF s7
<1>14. Layout(r) = s7
  BY DEF Layout, s2, s3, s4, s5, s6, s7, a, b, c, d, e, f, g
<1> QED
  BY <1>1, <1>2, <1>3, <1>4, <1>5, <1>6, <1>7, <1>8, <1>9, <1>10, <1>11, <1>12, <1>13, <1>14

LEMMA WritesElements ==
  ASSUME NEW r \in RequestType
  PROVE  /\ Writes(r) \in Seq(Uses \X Contents)
         /\ Elements(Writes(r)) =
              {<<"root", "image">>} \cup (IF r.mode = "uefi" THEN {<<"esp", "vfat">>} ELSE {})
                \cup (IF r.drive THEN {<<"config", "config">>} ELSE {})
                \cup (IF r.swap THEN {<<"swap", "swap">>} ELSE {})
                \cup (IF r.ephemeral /\ ~r.preserve THEN {<<"ephemeral", "fresh">>} ELSE {})
<1> DEFINE W == Uses \X Contents
           a == Optional(r.mode = "uefi", <<"esp", "vfat">>)
           b == Optional(r.drive, <<"config", "config">>)
           c == <<<<"root", "image">>>>
           d == Optional(r.swap, <<"swap", "swap">>)
           e == Optional(r.ephemeral /\ ~r.preserve, <<"ephemeral", "fresh">>)
<1>0. r.swap \in BOOLEAN /\ r.drive \in BOOLEAN
  BY DEF RequestType
<1>00. /\ <<"esp", "vfat">> \in W /\ <<"config", "config">> \in W /\ <<"root", "image">> \in W
       /\ <<"swap", "swap">> \in W /\ <<"ephemeral", "fresh">> \in W
  BY DEF Uses, Contents
<1> HIDE DEF W
<1>1. a \in Seq(W) /\ Elements(a) = IF r.mode = "uefi" THEN {<<"esp", "vfat">>} ELSE {}
  BY <1>00, OptionalElements
<1>2. b \in Seq(W) /\ Elements(b) = IF r.drive THEN {<<"config", "config">>} ELSE {}
  BY <1>0, <1>00, OptionalElements
<1>3. c \in Seq(W) /\ Elements(c) = {<<"root", "image">>}
  BY <1>00, Single1
<1>4. d \in Seq(W) /\ Elements(d) = IF r.swap THEN {<<"swap", "swap">>} ELSE {}
  BY <1>0, <1>00, OptionalElements
<1>5. e \in Seq(W) /\ Elements(e) =
        IF r.ephemeral /\ ~r.preserve THEN {<<"ephemeral", "fresh">>} ELSE {}
  BY <1>00, OptionalElements
<1> HIDE DEF a, b, c, d, e
<1> DEFINE s2 == a \o b
<1>6. s2 \in Seq(W) /\ Elements(s2) = Elements(a) \cup Elements(b)
  BY <1>1, <1>2, ElementsOfConcat
<1> HIDE DEF s2
<1> DEFINE s3 == s2 \o c
<1>7. s3 \in Seq(W) /\ Elements(s3) = Elements(s2) \cup Elements(c)
  BY <1>6, <1>3, ElementsOfConcat
<1> HIDE DEF s3
<1> DEFINE s4 == s3 \o d
<1>8. s4 \in Seq(W) /\ Elements(s4) = Elements(s3) \cup Elements(d)
  BY <1>7, <1>4, ElementsOfConcat
<1> HIDE DEF s4
<1> DEFINE s5 == s4 \o e
<1>9. s5 \in Seq(W) /\ Elements(s5) = Elements(s4) \cup Elements(e)
  BY <1>8, <1>5, ElementsOfConcat
<1> HIDE DEF s5
<1>10. Writes(r) = s5
  BY DEF Writes, s2, s3, s4, s5, a, b, c, d, e
<1> QED
  BY <1>1, <1>2, <1>3, <1>4, <1>5, <1>6, <1>7, <1>8, <1>9, <1>10 DEF W

LEMMA Requests ==
  ASSUME RequestInv
  PROVE  /\ request \in RequestType
         /\ request.disk \in Seq(Uses \X Contents) /\ DOMAIN request.disk = 1 .. Len(request.disk)
         /\ kind = "image" =>
              /\ ~request.rebuild /\ (request.mode = "uefi" => request.label = "gpt")
              /\ \A n \in DOMAIN request.disk :
                   request.disk[n][1] = "ephemeral" => request.disk[n][2] = "tenant"
         /\ kind = "drive" =>
              /\ request.drive /\ Len(request.disk) \in 1 .. 8
              /\ \A n \in DOMAIN request.disk : request.disk[n][2] \notin {"config", "broken"}
<1>1. request \in RequestType
  BY PartitioningAssumption DEF RequestInv
<1>2. request.disk \in Seq(Uses \X Contents)
  BY <1>1 DEF RequestType
<1>3. DOMAIN request.disk = 1 .. Len(request.disk)
  BY <1>2
<1>4. CASE kind = "image"
  BY <1>1, <1>2, <1>3, <1>4, PartitioningAssumption DEF RequestInv
<1>5. CASE kind = "drive"
  BY <1>1, <1>2, <1>3, <1>5, PartitioningAssumption DEF RequestInv
<1> QED BY <1>1, <1>2, <1>3, <1>4, <1>5

(* part_dict gives each use the place of its own in the layout.            *)
LEMMA PartIs ==
  ASSUME RequestInv, NEW u
  PROVE  /\ u \in Elements(Layout(request)) =>
              Part(u) \in DOMAIN Layout(request) /\ Layout(request)[Part(u)] = u
         /\ u \notin Elements(Layout(request)) => Part(u) = 0
         /\ DOMAIN Layout(request) \subseteq Nat \ {0}
         /\ Part(u) # 0 => u \in Elements(Layout(request))
<1>1. Layout(request) \in Seq(Uses)
  BY Requests, LayoutElements
<1>2. DOMAIN Layout(request) \subseteq Nat \ {0}
  BY <1>1
<1>3. u \in Elements(Layout(request)) <=> \E n \in DOMAIN Layout(request) : Layout(request)[n] = u
  BY DEF Elements
<1> QED BY <1>2, <1>3 DEF Part

LEMMA PartsDiffer ==
  ASSUME RequestInv, NEW u, NEW v, Part(u) = Part(v), Part(u) # 0
  PROVE  u = v
BY PartIs

LEMMA WritesFit ==
  ASSUME RequestInv, NEW i \in 1 .. Len(Writes(request))
  PROVE  LET w == Writes(request)[i] IN
           /\ Part(w[1]) \in DOMAIN Layout(request) /\ Part(w[1]) # 0
           /\ Layout(request)[Part(w[1])] = w[1]
           /\ request.preserve => w[1] # "ephemeral"
           /\ \A j \in 1 .. Len(Writes(request)) :
                Writes(request)[j][1] = w[1] => Writes(request)[j][2] = w[2]
<1> DEFINE W == Writes(request)
<1>0. request \in RequestType
  BY Requests
<1>1. W \in Seq(Uses \X Contents) /\ DOMAIN W = 1 .. Len(W)
  BY <1>0, WritesElements
<1>2. \A j \in 1 .. Len(W) : W[j] \in Elements(W)
  BY <1>1 DEF Elements
<1> HIDE DEF W
<1>3. Elements(W) =
         {<<"root", "image">>} \cup (IF request.mode = "uefi" THEN {<<"esp", "vfat">>} ELSE {})
           \cup (IF request.drive THEN {<<"config", "config">>} ELSE {})
           \cup (IF request.swap THEN {<<"swap", "swap">>} ELSE {})
           \cup (IF request.ephemeral /\ ~request.preserve THEN {<<"ephemeral", "fresh">>} ELSE {})
  BY <1>0, WritesElements DEF W
<1>4. ASSUME NEW w \in Elements(W)
      PROVE  w[1] \in Elements(Layout(request)) /\ (request.preserve => w[1] # "ephemeral")
  BY <1>0, <1>3, <1>4, LayoutElements
<1>5. \A w, v \in Elements(W) : w[1] = v[1] => w[2] = v[2]
  BY <1>3
<1>6. i \in 1 .. Len(W)
  BY DEF W
<1>7. /\ W[i][1] \in Elements(Layout(request)) /\ (request.preserve => W[i][1] # "ephemeral")
      /\ \A j \in 1 .. Len(W) : W[j][1] = W[i][1] => W[j][2] = W[i][2]
  BY <1>2, <1>4, <1>5, <1>6
<1> QED BY <1>7, PartIs DEF W

-----------------------------------------------------------------------------
(* The disk, and what is kept of it *)

LEMMA DiskStarts == Init => DiskInv
<1> SUFFICES ASSUME Init
             PROVE  DiskInv
  OBVIOUS
<1>1. RequestInv
  BY DEF Init, PartitionInit, RequestInv, Preserving
<1>2. DOMAIN use = DOMAIN request.disk /\ DOMAIN holds = DOMAIN request.disk
  BY DEF Init, PartitionInit, Uses0, Holds0
<1>3. \A n \in DOMAIN request.disk : use[n] = request.disk[n][1] /\ holds[n] = request.disk[n][2]
  BY DEF Init, PartitionInit, Uses0, Holds0
<1>4. DOMAIN request.disk \subseteq Nat \ {0}
  BY <1>1, Requests
<1>5. TableInv
  BY <1>2, <1>4 DEF Init, PartitionInit, TableInv, Preserving
<1>6. WriteInv /\ TargetInv /\ EspInv /\ DriveIsWritten
  BY DEF Init, PartitionInit, WriteInv, TargetInv, EspInv, DriveIsWritten
<1>7. OthersAreKept
  BY <1>1, <1>3, Requests DEF OthersAreKept, EarlierEphemeral
<1> QED BY <1>1, <1>5, <1>6, <1>7 DEF DiskInv

(* The steps of the partitioning leave the request alone, and the boot     *)
(* loader's variables stay as they were before the first call for it.      *)
LEMMA SameRequest ==
  ASSUME PartitionNext
  PROVE  kind' = kind /\ request' = request
BY DEF PartitionNext, Call, Fetch, Destroy, DestroyFails, MakePartitions, CheckDevices, Write,
       Finish, FindLabelled, FixGpt, CreatePartition, Locate, Fill, Verify, MountSource,
       Rebuild, Release, Goto, Fail, Succeed, whole

LEMMA StillPartitioning ==
  ASSUME DiskInv, PartitionNext, UNCHANGED bootVars
  PROVE  pc # "boot" /\ pc' # "boot" /\ EspInv'
<1>1. pc # "boot" /\ pc' # "boot"
  BY DEF PartitionNext, Call, Fetch, Destroy, DestroyFails, MakePartitions, CheckDevices, Write,
         Finish, FindLabelled, FixGpt, CreatePartition, Locate, Fill, Verify, MountSource,
         Rebuild, Release, Goto, Fail, Succeed
<1>2. at = "idle" /\ esp = 0
  BY <1>1 DEF DiskInv, EspInv
<1>3. at' = "idle" /\ esp' = 0
  BY <1>2 DEF bootVars, efi
<1> QED BY <1>1, <1>3 DEF EspInv

(* The parts of the invariant that a step of the partitioning is about.    *)
PartitionInv == /\ RequestInv /\ TableInv /\ WriteInv /\ TargetInv
                /\ OthersAreKept /\ DriveIsWritten

LEMMA SamePart ==
  ASSUME request' = request
  PROVE  /\ Part("ephemeral")' = Part("ephemeral") /\ Part("config")' = Part("config")
         /\ EarlierEphemeral' = EarlierEphemeral
BY DEF Part, EarlierEphemeral

LEMMA CallKeeps ==
  ASSUME PartitionInv, Call
  PROVE  PartitionInv'
<1>0. kind' = kind /\ request' = request
  BY DEF Call
<1>1. use' = use /\ holds' = holds /\ seen' = seen /\ notes' = notes
  BY DEF Call, disk
<1>2. RequestInv'
  BY <1>0 DEF Call, PartitionInv, RequestInv, Preserving
<1>3. TableInv'
  BY <1>0, <1>1 DEF PartitionInv, TableInv, Preserving
<1>4. WriteInv' /\ TargetInv' /\ DriveIsWritten'
  BY <1>0 DEF Call, WriteInv, TargetInv, DriveIsWritten
<1>5. OthersAreKept'
  BY <1>0, <1>1, SamePart DEF Call, PartitionInv, OthersAreKept
<1> QED BY <1>2, <1>3, <1>4, <1>5 DEF PartitionInv

(* A step that changes neither the table nor what the kernel knows of it.  *)
LEMMA DiskAlone ==
  ASSUME PartitionInv, kind' = kind, request' = request, pc # "boot",
         UNCHANGED <<use, holds, seen>>, notes \subseteq notes',
         "first of md" \in notes' => "first of md" \in notes
  PROVE  TableInv' /\ OthersAreKept'
<1>1. TableInv'
  BY DEF PartitionInv, TableInv, Preserving
<1>2. OthersAreKept'
  BY SamePart DEF PartitionInv, OthersAreKept
<1> QED BY <1>1, <1>2

LEMMA FetchKeeps ==
  ASSUME PartitionInv, Fetch
  PROVE  PartitionInv'
<1>0. kind' = kind /\ request' = request /\ pc = "fetch" /\ UNCHANGED <<use, holds, seen, notes, next, target, before>>
      /\ \/ pc' = IF kind = "image" THEN "partition" ELSE "fix"
         \/ pc' = "idle" /\ outcome' = "failed"
  BY DEF Fetch, Goto, whole, disk, locals
<1>1. TableInv' /\ OthersAreKept'
  BY <1>0, DiskAlone
<1>2. RequestInv'
  BY <1>0 DEF PartitionInv, RequestInv, Preserving
<1>3. WriteInv' /\ DriveIsWritten'
  BY <1>0 DEF PartitionInv, WriteInv, DriveIsWritten
<1>4. TargetInv'
  BY <1>0 DEF PartitionInv, TargetInv
<1> QED BY <1>1, <1>2, <1>3, <1>4 DEF PartitionInv

(* The table is wiped, which a call that preserves a partition never does. *)
LEMMA DestroyKeeps ==
  ASSUME PartitionInv, Destroy \/ DestroyFails
  PROVE  PartitionInv'
<1>0. /\ kind' = kind /\ request' = request /\ pc = "destroy" /\ UNCHANGED notes
      /\ pc' = "fetch" \/ (pc' = "idle" /\ outcome' = "failed")
      /\ next' = next
      /\ \/ UNCHANGED <<use, holds, seen>>
         \/ use' = <<>> /\ holds' = <<>> /\ seen' \in {seen, {}}
  BY DEF Destroy, DestroyFails, Goto, Fail, Rescan, whole, disk, locals
<1>1. kind = "image" /\ ~request.preserve
  BY <1>0 DEF PartitionInv, RequestInv, Preserving
<1>2. RequestInv'
  BY <1>0, <1>1 DEF PartitionInv, RequestInv, Preserving
<1>3. TableInv'
  <2>1. CASE UNCHANGED <<use, holds, seen>>
    BY <1>0, <1>1, <2>1 DEF PartitionInv, TableInv, Preserving
  <2>2. CASE use' = <<>> /\ holds' = <<>> /\ seen' \in {seen, {}}
    <3>1. DOMAIN use' = {} /\ DOMAIN holds' = {}
      BY <2>2
    <3> QED BY <1>0, <1>1, <2>2, <3>1 DEF PartitionInv, TableInv, Preserving
  <2> QED BY <1>0, <2>1, <2>2
<1>4. WriteInv' /\ DriveIsWritten' /\ TargetInv'
  BY <1>0, <1>1 DEF PartitionInv, WriteInv, DriveIsWritten, TargetInv
<1>5. OthersAreKept'
  BY <1>0, <1>1 DEF OthersAreKept
<1> QED BY <1>2, <1>3, <1>4, <1>5 DEF PartitionInv

LEMMA MakePartitionsKeeps ==
  ASSUME PartitionInv, MakePartitions
  PROVE  PartitionInv'
<1>0. /\ kind' = kind /\ request' = request /\ pc = "partition" /\ UNCHANGED notes
      /\ pc' = "check" \/ (pc' = "idle" /\ outcome' = "failed")
      /\ next' = next
  BY DEF MakePartitions, Goto, Fail, whole, locals
<1>1. kind = "image"
  BY <1>0 DEF PartitionInv, RequestInv
<1>2. RequestInv' /\ TargetInv' /\ DriveIsWritten'
  BY <1>0, <1>1 DEF PartitionInv, RequestInv, Preserving, TargetInv, DriveIsWritten
<1>2a. pc' = "check" => next' = 1
  BY <1>0 DEF PartitionInv, WriteInv
<1>3. CASE request.preserve
  <2>1. UNCHANGED <<use, holds, seen>>
    BY <1>3 DEF MakePartitions, disk
  <2>2. TableInv' /\ OthersAreKept'
    BY <1>0, <2>1, DiskAlone
  <2>3. WriteInv'
    BY <1>0, <1>1, <1>2a, <1>3 DEF WriteInv, Preserving
  <2> QED BY <1>2, <2>2, <2>3 DEF PartitionInv
<1>4. CASE ~request.preserve
  <2>1. PICK n \in 0 .. Len(Layout(request)) :
          /\ use' = SubSeq(Layout(request), 1, n) /\ DOMAIN holds' = DOMAIN use'
          /\ seen' \in {seen, DOMAIN use'}
          /\ pc' = "check" => n = Len(Layout(request))
    BY <1>4 DEF MakePartitions, Rescan, Goto, Fail
  <2>2. Layout(request) \in Seq(Uses)
    BY Requests, LayoutElements DEF PartitionInv
  <2>3. DOMAIN use' = 1 .. n
    BY <2>1, <2>2
  <2>4. TableInv'
    BY <1>0, <1>1, <1>4, <2>1, <2>3 DEF PartitionInv, TableInv, Preserving
  <2>5. pc' = "check" => use' = Layout(request)
    BY <2>1, <2>2
  <2>6. WriteInv'
    BY <1>0, <1>2a, <2>5 DEF WriteInv
  <2>7. OthersAreKept'
    BY <1>0, <1>1, <1>4 DEF OthersAreKept
  <2> QED BY <1>2, <2>4, <2>6, <2>7 DEF PartitionInv
<1> QED BY <1>3, <1>4

LEMMA CheckDevicesKeeps ==
  ASSUME PartitionInv, CheckDevices
  PROVE  PartitionInv'
<1>0. /\ kind' = kind /\ request' = request /\ pc = "check"
      /\ UNCHANGED <<use, holds, seen, notes, next>>
      /\ \/ pc' = "write" /\ DOMAIN Layout(request) \subseteq seen
         \/ pc' = "idle" /\ outcome' = "failed"
  BY DEF CheckDevices, Goto, Fail, whole, disk, locals
<1>1. kind = "image"
  BY <1>0 DEF PartitionInv, RequestInv
<1>2. TableInv' /\ OthersAreKept'
  BY <1>0, DiskAlone
<1>3. RequestInv' /\ TargetInv' /\ DriveIsWritten'
  BY <1>0, <1>1 DEF PartitionInv, RequestInv, Preserving, TargetInv, DriveIsWritten
<1>4. WriteInv'
  <2>1. pc' = "write" => DOMAIN Layout(request) \subseteq DOMAIN use
    BY <1>0 DEF PartitionInv, WriteInv, TableInv
  <2>2. next \in 1 .. Len(Writes(request)) + 1 /\ 1 .. next - 1 = {}
    BY <1>0, Requests, WritesElements DEF PartitionInv, WriteInv
  <2> QED BY <1>0, <2>1, <2>2 DEF WriteInv
<1> QED BY <1>2, <1>3, <1>4 DEF PartitionInv

LEMMA WriteKeeps ==
  ASSUME PartitionInv, Write
  PROVE  PartitionInv'
<1> DEFINE W == Writes(request)
           p == Part(W[next][1])
<1>0. /\ kind' = kind /\ request' = request /\ pc = "write" /\ next <= Len(W)
      /\ UNCHANGED <<use, seen, notes>>
      /\ \/ /\ pc' = "write" /\ next' = next + 1
            /\ holds' = [holds EXCEPT ![p] = W[next][2]]
         \/ /\ pc' = "idle" /\ outcome' = "failed"
            /\ holds' \in {holds, [holds EXCEPT ![p] = "broken"]}
  BY DEF Write, Goto, Fail, whole
<1>1. kind = "image"
  BY <1>0 DEF PartitionInv, RequestInv
<1>2. /\ DOMAIN Layout(request) \subseteq DOMAIN use /\ next \in 1 .. Len(W) /\ Len(W) \in Nat
      /\ DOMAIN holds = DOMAIN use
  BY <1>0, Requests, WritesElements DEF PartitionInv, WriteInv, TableInv
<1>3. p \in DOMAIN holds /\ p # 0 /\ (request.preserve => W[next][1] # "ephemeral")
      /\ \A j \in 1 .. Len(W) : W[j][1] = W[next][1] => W[j][2] = W[next][2]
  BY <1>2, WritesFit DEF PartitionInv
<1>4. DOMAIN holds' = DOMAIN holds /\ \A n \in DOMAIN holds : n # p => holds'[n] = holds[n]
  BY <1>0, <1>3
<1>5. RequestInv' /\ TargetInv' /\ DriveIsWritten'
  BY <1>0, <1>1 DEF PartitionInv, RequestInv, Preserving, TargetInv, DriveIsWritten
<1>6. TableInv'
  BY <1>0, <1>1, <1>4 DEF PartitionInv, TableInv, Preserving
<1>7. WriteInv'
  <2>1. CASE pc' = "write" /\ next' = next + 1 /\ holds' = [holds EXCEPT ![p] = W[next][2]]
    <3>1. ASSUME NEW i \in 1 .. next
          PROVE  holds'[Part(W[i][1])] = W[i][2]
      <4>1. CASE W[i][1] = W[next][1]
        <5>1. W[i][2] = W[next][2]
          BY <4>1, <1>2, <1>3
        <5>2. holds'[p] = W[next][2]
          BY <2>1, <1>3
        <5> QED BY <4>1, <5>1, <5>2
      <4>2. CASE W[i][1] # W[next][1]
        <5>1. i \in 1 .. next - 1 /\ i \in 1 .. Len(W)
          BY <4>2, <1>2
        <5>2. Part(W[i][1]) \in DOMAIN holds /\ Part(W[i][1]) # 0
          BY <5>1, <1>2, WritesFit DEF PartitionInv
        <5>3. Part(W[i][1]) # p
          BY <4>2, <5>2, PartsDiffer DEF PartitionInv
        <5>4. holds[Part(W[i][1])] = W[i][2]
          BY <1>0, <5>1 DEF PartitionInv, WriteInv
        <5> QED BY <5>2, <5>3, <5>4, <1>4
      <4> QED BY <4>1, <4>2
    <3>2. next' - 1 = next /\ next' \in 1 .. Len(W) + 1
      BY <2>1, <1>2
    <3>3. \A i \in 1 .. next' - 1 :
            holds'[Part(Writes(request)[i][1])'] = Writes(request)[i][2]
      <4> TAKE i \in 1 .. next' - 1
      <4>1. i \in 1 .. next
        BY <3>2
      <4>2. Part(W[i][1])' = Part(W[i][1])
        BY <1>0 DEF Part
      <4> QED BY <3>1, <4>1, <4>2
    <3> QED BY <1>0, <1>2, <2>1, <3>2, <3>3 DEF WriteInv
  <2>2. CASE pc' = "idle"
    BY <2>2 DEF WriteInv
  <2> QED BY <1>0, <2>1, <2>2
<1>8. OthersAreKept'
  <2>1. ASSUME request.preserve, NEW n \in EarlierEphemeral, Part("ephemeral") = n
        PROVE  holds'[n] = "tenant"
    <3>1. n \in DOMAIN request.disk /\ n # 0 /\ n \in DOMAIN holds
      BY <1>1, <1>2, <2>1, Requests DEF EarlierEphemeral, PartitionInv, TableInv, Preserving, Uses0
    <3>2. n # p
      BY <2>1, <3>1, <1>3, PartsDiffer DEF PartitionInv
    <3>3. holds[n] = "tenant"
      BY <1>1, <2>1 DEF PartitionInv, OthersAreKept
    <3> QED BY <3>1, <3>2, <3>3, <1>4
  <2> QED BY <1>0, <1>1, <2>1, SamePart DEF OthersAreKept
<1> QED BY <1>5, <1>6, <1>7, <1>8 DEF PartitionInv

LEMMA FinishKeeps ==
  ASSUME PartitionInv, Finish
  PROVE  PartitionInv'
<1>0. /\ kind' = kind /\ request' = request /\ pc = "write" /\ pc' = "idle"
      /\ next > Len(Writes(request))
      /\ UNCHANGED <<use, holds, seen, notes>>
      /\ outcome' = "failed" \/ (outcome' = "done" /\ target' = Part("config"))
  BY DEF Finish, Fail, whole, disk
<1>1. kind = "image"
  BY <1>0 DEF PartitionInv, RequestInv
<1>2. TableInv' /\ OthersAreKept'
  BY <1>0, DiskAlone
<1>3. RequestInv' /\ WriteInv' /\ TargetInv'
  BY <1>0, <1>1 DEF PartitionInv, RequestInv, Preserving, WriteInv, TargetInv
<1>4. request.drive => Part("config") # 0 /\ holds[Part("config")] = "config"
  <2> SUFFICES ASSUME request.drive
               PROVE  Part("config") # 0 /\ holds[Part("config")] = "config"
    OBVIOUS
  <2>1. <<"config", "config">> \in Elements(Writes(request))
        /\ Writes(request) \in Seq(Uses \X Contents)
    BY Requests, WritesElements DEF PartitionInv
  <2>2. PICK i \in 1 .. Len(Writes(request)) : Writes(request)[i] = <<"config", "config">>
    BY <2>1 DEF Elements
  <2>3. i \in 1 .. next - 1
    BY <1>0, <2>1, <2>2 DEF PartitionInv, WriteInv
  <2>4. holds[Part(Writes(request)[i][1])] = Writes(request)[i][2]
    BY <1>0, <2>3 DEF PartitionInv, WriteInv
  <2>5. Part(Writes(request)[i][1]) # 0
    BY <2>2, WritesFit DEF PartitionInv
  <2> QED BY <2>2, <2>4, <2>5
<1>5. DriveIsWritten'
  BY <1>0, <1>4 DEF DriveIsWritten
<1> QED BY <1>2, <1>3, <1>5 DEF PartitionInv

(* get_labelled_partition finds no partition of the image.                 *)
LEMMA FindLabelledKeeps ==
  ASSUME PartitionInv, FindLabelled
  PROVE  PartitionInv'
<1>0. /\ kind' = kind /\ request' = request /\ pc = "find"
      /\ UNCHANGED <<use, holds, seen, notes, next, before>>
      /\ \/ pc' = "idle" /\ outcome' = "failed" /\ target' = target
         \/ /\ pc' = "fetch"
            /\ target' = 0 \/ Labelled(target')
  <2>1. ASSUME NEW found \in Labellings,
               target' = IF found = {} THEN 0 ELSE CHOOSE n \in found : TRUE
        PROVE  target' = 0 \/ Labelled(target')
    <3>1. \A n \in found : Labelled(n)
      BY <2>1 DEF Labellings
    <3> QED BY <2>1, <3>1
  <2>2. CASE target' = 0 \/ Labelled(target')
    BY <2>2 DEF FindLabelled, Goto, Fail, whole, disk, locals
  <2>3. CASE ~(target' = 0 \/ Labelled(target'))
    <3>1. Fail /\ UNCHANGED <<disk, mounts, notes>> /\ pc = "find"
      BY <2>1, <2>3 DEF FindLabelled
    <3> QED BY <3>1 DEF Fail, whole, disk, locals
  <2> QED BY <2>2, <2>3
<1>1. kind = "drive"
  BY <1>0 DEF PartitionInv, RequestInv
<1>2. TableInv' /\ OthersAreKept'
  BY <1>0, DiskAlone
<1>3. RequestInv' /\ WriteInv' /\ DriveIsWritten'
  BY <1>0, <1>1 DEF PartitionInv, RequestInv, Preserving, WriteInv, DriveIsWritten
<1>4. ASSUME NEW n, Labelled(n)
      PROVE  /\ n \in DOMAIN use
             /\ \/ "first of md" \in notes \/ n \notin DOMAIN request.disk
                \/ request.disk[n][2] = "old config"
  <2>1. n \in DOMAIN use /\ holds[n] \in {"config", "old config", "broken"}
    BY <1>4 DEF Labelled
  <2>2. CASE "first of md" \notin notes /\ n \in DOMAIN request.disk /\ request.disk[n][2] # "old config"
    <3>1. holds[n] = request.disk[n][2]
      BY <1>0, <1>1, <2>2 DEF PartitionInv, OthersAreKept
    <3>2. request.disk[n][2] \notin {"config", "broken"}
      BY <1>1, <2>2, Requests DEF PartitionInv
    <3> QED BY <2>1, <2>2, <3>1, <3>2
  <2> QED BY <2>1, <2>2
<1>5. TargetInv'
  BY <1>0, <1>1, <1>4 DEF PartitionInv, TargetInv
<1> QED BY <1>2, <1>3, <1>5 DEF PartitionInv

LEMMA FixGptKeeps ==
  ASSUME PartitionInv, FixGpt
  PROVE  PartitionInv'
<1>0. /\ kind' = kind /\ request' = request /\ pc = "fix"
      /\ UNCHANGED <<use, holds, seen, notes, next, before, target>>
      /\ \/ pc' = "idle" /\ outcome' = "failed"
         \/ pc' = IF target # 0 THEN "fill" ELSE "create"
  BY DEF FixGpt, Goto, Fail, whole, disk, locals
<1>1. kind = "drive"
  BY <1>0 DEF PartitionInv, RequestInv
<1>2. TableInv' /\ OthersAreKept'
  BY <1>0, DiskAlone
<1>3. RequestInv' /\ WriteInv' /\ DriveIsWritten'
  BY <1>0, <1>1 DEF PartitionInv, RequestInv, Preserving, WriteInv, DriveIsWritten
<1>4. TargetInv'
  BY <1>0, <1>1 DEF PartitionInv, TargetInv
<1> QED BY <1>2, <1>3, <1>4 DEF PartitionInv

(* While the end of the disk is free the next number is.                   *)
LEMMA FreeIsNext ==
  ASSUME PartitionInv, kind = "drive", EndIsFree
  PROVE  Free = Len(request.disk) + 1 /\ Free \notin DOMAIN use /\ Free \in Nat \ {0}
<1> DEFINE L == Len(request.disk)
<1>1. L \in 1 .. 8 /\ DOMAIN request.disk = 1 .. L
  BY Requests DEF PartitionInv
<1>2. DOMAIN use = 1 .. L
  BY <1>1 DEF PartitionInv, TableInv, EndIsFree
<1> HIDE DEF L
<1>3. L + 1 \in 1 .. 9 /\ L + 1 \notin DOMAIN use /\ \A m \in 1 .. L + 1 - 1 : m \in DOMAIN use
  BY <1>1, <1>2
<1>4. ASSUME NEW n \in 1 .. 9, n \notin DOMAIN use, \A m \in 1 .. n - 1 : m \in DOMAIN use
      PROVE  n = L + 1
  <2>1. CASE n > L + 1
    <3>1. L + 1 \in 1 .. n - 1
      BY <1>1, <2>1
    <3> QED BY <3>1, <1>2, <1>1, <1>4
  <2>2. CASE n < L + 1
    BY <2>2, <1>1, <1>2, <1>4
  <2> QED BY <2>1, <2>2, <1>1
<1>5. Free = L + 1
  BY <1>3, <1>4 DEF Free
<1> QED BY <1>1, <1>3, <1>5 DEF L

LEMMA CreatePartitionKeeps ==
  ASSUME PartitionInv, CreatePartition
  PROVE  PartitionInv'
<1>0. /\ kind' = kind /\ request' = request /\ pc = "create" /\ before' = DOMAIN use
      /\ UNCHANGED <<notes, next, target>> /\ seen' \in {seen, DOMAIN use'}
      /\ pc' = "locate" \/ (pc' = "idle" /\ outcome' = "failed")
      /\ \/ pc' = "idle" /\ use' = use /\ holds' = holds
         \/ /\ EndIsFree
            /\ use' = [n \in DOMAIN use \cup {Free} |-> IF n = Free THEN "config" ELSE use[n]]
            /\ holds' = [n \in DOMAIN use' |-> IF n = Free THEN "stale" ELSE holds[n]]
  BY DEF CreatePartition, Goto, Rescan, whole
<1>1. kind = "drive"
  BY <1>0 DEF PartitionInv, RequestInv
<1>2. RequestInv' /\ WriteInv' /\ DriveIsWritten'
  BY <1>0, <1>1 DEF PartitionInv, RequestInv, Preserving, WriteInv, DriveIsWritten
<1>3. CASE pc' = "idle" /\ use' = use /\ holds' = holds
  <2>0. /\ kind' = kind /\ request' = request /\ pc = "create" /\ notes' = notes
        /\ target' = target /\ seen' \in {seen, DOMAIN use}
    BY <1>0, <1>3
  <2>1. TableInv'
    BY <2>0, <1>1, <1>3 DEF PartitionInv, TableInv, Preserving
  <2>2. OthersAreKept'
    BY <2>0, <1>1, <1>3 DEF PartitionInv, OthersAreKept
  <2>3. TargetInv'
    BY <2>0, <1>1, <1>3 DEF PartitionInv, TargetInv
  <2> QED BY <1>2, <2>1, <2>2, <2>3 DEF PartitionInv
<1>4. CASE /\ EndIsFree
           /\ use' = [n \in DOMAIN use \cup {Free} |-> IF n = Free THEN "config" ELSE use[n]]
           /\ holds' = [n \in DOMAIN use' |-> IF n = Free THEN "stale" ELSE holds[n]]
  <2>1. Free \notin DOMAIN use /\ Free \in Nat \ {0}
    BY <1>1, <1>4, FreeIsNext
  <2>2. /\ DOMAIN use' = DOMAIN use \cup {Free} /\ DOMAIN holds' = DOMAIN use'
        /\ \A n \in DOMAIN use : holds'[n] = holds[n]
    BY <1>4, <2>1
  <2>3. DOMAIN request.disk \subseteq DOMAIN use
    BY <1>1 DEF PartitionInv, TableInv
  <2>4. TableInv'
    BY <1>0, <1>1, <2>1, <2>2, <2>3 DEF PartitionInv, TableInv, Preserving
  <2>5. OthersAreKept'
    BY <1>0, <1>1, <2>2, <2>3 DEF PartitionInv, OthersAreKept
  <2>6. TargetInv'
    BY <1>0, <1>1, <2>1, <2>2, <2>3 DEF PartitionInv, TargetInv
  <2> QED BY <1>2, <2>4, <2>5, <2>6 DEF PartitionInv
<1> QED BY <1>0, <1>3, <1>4

(* The new partition, or the first of an md device, which is noted.        *)
LEMMA LocateKeeps ==
  ASSUME PartitionInv, Locate
  PROVE  PartitionInv'
<1>0. /\ kind' = kind /\ request' = request /\ pc = "locate" /\ use' = use /\ holds' = holds
      /\ seen' \in {seen, DOMAIN use} /\ next' = next /\ before' = before
      /\ \/ pc' = "idle" /\ outcome' = "failed" /\ target' = target /\ notes' = notes
         \/ /\ pc' = "fill"
            /\ notes' = IF target' \in before THEN notes \cup {"first of md"} ELSE notes
            /\ \/ target' \in Found(CHOOSE n \in DOMAIN use \ before : TRUE, seen')
               \/ target' \in (DOMAIN use \ before) \cap seen'
  BY DEF Locate, Goto, Fail, Rescan, whole, locals
<1>1. kind = "drive"
  BY <1>0 DEF PartitionInv, RequestInv
<1>2. RequestInv' /\ WriteInv' /\ DriveIsWritten'
  BY <1>0, <1>1 DEF PartitionInv, RequestInv, Preserving, WriteInv, DriveIsWritten
<1>3. TableInv'
  BY <1>0, <1>1 DEF PartitionInv, TableInv, Preserving
<1>4. OthersAreKept'
  BY <1>0, <1>1 DEF PartitionInv, OthersAreKept
<1>5. pc' = "fill" => target' \in seen'
  BY <1>0 DEF Found
<1>6. seen' \subseteq DOMAIN use /\ DOMAIN use \subseteq Nat \ {0}
  BY <1>0, <1>1 DEF PartitionInv, TableInv
<1>7. DOMAIN request.disk \subseteq before
  BY <1>0, <1>1 DEF PartitionInv, TargetInv
<1>8. TargetInv'
  BY <1>0, <1>1, <1>5, <1>6, <1>7 DEF PartitionInv, TargetInv
<1> QED BY <1>2, <1>3, <1>4, <1>8 DEF PartitionInv

(* What is written to the config drive's partition spares the image's.     *)
LEMMA TargetWritten ==
  ASSUME PartitionInv, kind' = kind, request' = request, kind = "drive", target # 0,
         UNCHANGED <<use, seen, notes, target>>, pc' # "write", pc # "boot",
         NEW x, holds' = [holds EXCEPT ![target] = x]
  PROVE  TableInv' /\ OthersAreKept' /\ holds'[target] = x
<1>1. target \in DOMAIN holds /\ DOMAIN holds' = DOMAIN holds
      /\ holds'[target] = x /\ \A n \in DOMAIN holds : n # target => holds'[n] = holds[n]
  BY DEF PartitionInv, TargetInv, TableInv
<1>2. TableInv'
  BY <1>1 DEF PartitionInv, TableInv, Preserving
<1>3. /\ \/ "first of md" \in notes \/ target \notin DOMAIN request.disk
         \/ request.disk[target][2] = "old config"
      /\ DOMAIN request.disk \subseteq DOMAIN holds
  BY DEF PartitionInv, TargetInv, TableInv
<1>4. OthersAreKept'
  BY <1>1, <1>3 DEF PartitionInv, OthersAreKept
<1> QED BY <1>1, <1>2, <1>4

LEMMA FillKeeps ==
  ASSUME PartitionInv, Fill
  PROVE  PartitionInv'
<1>0. /\ kind' = kind /\ request' = request /\ pc = "fill"
      /\ UNCHANGED <<use, seen, notes, next, before, target>>
      /\ \/ pc' = "source" /\ request.rebuild /\ holds' = holds
         \/ pc' = "verify" /\ holds' = [holds EXCEPT ![target] = "config"]
         \/ pc' = "idle" /\ outcome' = "failed" /\ holds' \in {holds, [holds EXCEPT ![target] = "broken"]}
  BY DEF Fill, Goto, Fail, whole, locals
<1>1. kind = "drive"
  BY <1>0 DEF PartitionInv, RequestInv
<1>2. RequestInv' /\ WriteInv' /\ DriveIsWritten'
  BY <1>0, <1>1 DEF PartitionInv, RequestInv, Preserving, WriteInv, DriveIsWritten
<1>3. target # 0
  BY <1>0, <1>1 DEF PartitionInv, TargetInv
<1>4. TableInv' /\ OthersAreKept'
  BY <1>0, <1>1, <1>3, TargetWritten, DiskAlone
<1>5. pc' = "verify" => holds'[target] = "config"
  BY <1>0, <1>1, <1>3, TargetWritten
<1>6. TargetInv'
  BY <1>0, <1>1, <1>3, <1>5 DEF PartitionInv, TargetInv
<1> QED BY <1>2, <1>4, <1>6 DEF PartitionInv

LEMMA VerifyKeeps ==
  ASSUME PartitionInv, Verify
  PROVE  PartitionInv'
<1>0. /\ kind' = kind /\ request' = request /\ pc = "verify"
      /\ UNCHANGED <<use, holds, seen, next, before, target>>
      /\ notes \subseteq notes' /\ notes' \subseteq notes \cup {"stuck"}
      /\ pc' = "source" \/ pc' = "idle"
  BY DEF Verify, Goto, Succeed, whole, disk, locals
<1>1. kind = "drive"
  BY <1>0 DEF PartitionInv, RequestInv
<1>2. RequestInv' /\ WriteInv'
  BY <1>0, <1>1 DEF PartitionInv, RequestInv, Preserving, WriteInv
<1>3. TableInv' /\ OthersAreKept'
  BY <1>0, DiskAlone
<1>4. target # 0 /\ holds[target] = "config"
  BY <1>0, <1>1 DEF PartitionInv, TargetInv
<1>5. TargetInv' /\ DriveIsWritten'
  BY <1>0, <1>1, <1>4 DEF PartitionInv, TargetInv, DriveIsWritten
<1> QED BY <1>2, <1>3, <1>5 DEF PartitionInv

LEMMA MountSourceKeeps ==
  ASSUME PartitionInv, MountSource
  PROVE  PartitionInv'
<1>0. /\ kind' = kind /\ request' = request /\ pc = "source"
      /\ UNCHANGED <<use, holds, seen, next, before, target>>
      /\ \/ pc' = "rebuild" /\ notes' = notes
         \/ pc' = "idle" /\ notes' = notes \cup {"bypassed"}
  BY DEF MountSource, Goto, Succeed, whole, disk, locals
<1>1. kind = "drive"
  BY <1>0 DEF PartitionInv, RequestInv
<1>2. RequestInv' /\ WriteInv'
  BY <1>0, <1>1 DEF PartitionInv, RequestInv, Preserving, WriteInv
<1>3. TableInv' /\ OthersAreKept'
  BY <1>0, DiskAlone
<1>4. target # 0 /\ (~request.rebuild => holds[target] = "config")
  BY <1>0, <1>1 DEF PartitionInv, TargetInv
<1>5. TargetInv' /\ DriveIsWritten'
  BY <1>0, <1>1, <1>4 DEF PartitionInv, TargetInv, DriveIsWritten
<1> QED BY <1>2, <1>3, <1>5 DEF PartitionInv

LEMMA RebuildKeeps ==
  ASSUME PartitionInv, Rebuild
  PROVE  PartitionInv'
<1>0. /\ kind' = kind /\ request' = request /\ pc = "rebuild"
      /\ UNCHANGED <<use, seen, notes, next, before, target>>
      /\ \/ pc' = "release" /\ holds' = [holds EXCEPT ![target] = "config"]
         \/ pc' = "give up" /\ holds' \in {holds, [holds EXCEPT ![target] = "broken"]}
  BY DEF Rebuild, Goto, whole, locals
<1>1. kind = "drive"
  BY <1>0 DEF PartitionInv, RequestInv
<1>2. RequestInv' /\ WriteInv' /\ DriveIsWritten'
  BY <1>0, <1>1 DEF PartitionInv, RequestInv, Preserving, WriteInv, DriveIsWritten
<1>3. target # 0
  BY <1>0, <1>1 DEF PartitionInv, TargetInv
<1>4. TableInv' /\ OthersAreKept'
  BY <1>0, <1>1, <1>3, TargetWritten, DiskAlone
<1>5. pc' = "release" => holds'[target] = "config"
  BY <1>0, <1>1, <1>3, TargetWritten
<1>6. TargetInv'
  BY <1>0, <1>1, <1>3, <1>5 DEF PartitionInv, TargetInv
<1> QED BY <1>2, <1>4, <1>6 DEF PartitionInv

LEMMA ReleaseKeeps ==
  ASSUME PartitionInv, Release
  PROVE  PartitionInv'
<1>0. /\ kind' = kind /\ request' = request /\ pc \in {"release", "give up"} /\ pc' = "idle"
      /\ UNCHANGED <<use, holds, seen, next, before, target>>
      /\ notes \subseteq notes' /\ notes' \subseteq notes \cup {"stuck"}
      /\ pc = "give up" => outcome' = "failed"
  BY DEF Release, Goto, Fail, Succeed, whole, disk, locals
<1>1. kind = "drive"
  BY <1>0 DEF PartitionInv, RequestInv
<1>2. RequestInv' /\ WriteInv'
  BY <1>0, <1>1 DEF PartitionInv, RequestInv, Preserving, WriteInv
<1>3. TableInv' /\ OthersAreKept'
  BY <1>0, DiskAlone
<1>4. target # 0 /\ (pc = "release" => holds[target] = "config")
  BY <1>0, <1>1 DEF PartitionInv, TargetInv
<1>5. TargetInv' /\ DriveIsWritten'
  BY <1>0, <1>1, <1>4 DEF PartitionInv, TargetInv, DriveIsWritten
<1> QED BY <1>2, <1>3, <1>5 DEF PartitionInv

LEMMA PartitioningKeeps ==
  ASSUME DiskInv, PartitionNext, UNCHANGED bootVars
  PROVE  DiskInv'
<1>1. PartitionInv
  BY DEF DiskInv, PartitionInv
<1>2. PartitionInv'
  BY <1>1, CallKeeps, FetchKeeps, DestroyKeeps, MakePartitionsKeeps, CheckDevicesKeeps,
     WriteKeeps, FinishKeeps, FindLabelledKeeps, FixGptKeeps, CreatePartitionKeeps, LocateKeeps,
     FillKeeps, VerifyKeeps, MountSourceKeeps, RebuildKeeps, ReleaseKeeps
     DEF PartitionNext
<1> QED BY <1>2, StillPartitioning DEF DiskInv, PartitionInv

-----------------------------------------------------------------------------
(* The disk while the boot loader is installed *)

(* What every step of install_bootloader leaves of the partitioning.       *)
Settled == /\ UNCHANGED <<kind, request, calls, use, seen, next, target, before, file, outcome>>
           /\ pc' = "boot" /\ notes \subseteq notes'

LEMMA SettledKeeps ==
  ASSUME DiskInv, Settled, DOMAIN holds' = DOMAIN holds, EspInv',
         Preserving => \A n \in EarlierEphemeral : Part("ephemeral") = n => holds'[n] = holds[n]
  PROVE  DiskInv'
<1>1. RequestInv' /\ WriteInv' /\ DriveIsWritten'
  BY DEF Settled, DiskInv, RequestInv, Preserving, WriteInv, DriveIsWritten
<1>2. TableInv'
  BY DEF Settled, DiskInv, TableInv, Preserving
<1>3. TargetInv'
  <2>1. kind = "drive" /\ target # 0 =>
          /\ target \in DOMAIN use
          /\ \/ "first of md" \in notes \/ target \notin DOMAIN request.disk
             \/ request.disk[target][2] = "old config"
    BY DEF DiskInv, TargetInv
  <2> QED BY <2>1 DEF Settled, TargetInv
<1>4. OthersAreKept'
  BY SamePart DEF Settled, DiskInv, OthersAreKept, Preserving
<1> QED BY <1>1, <1>2, <1>3, <1>4 DEF DiskInv

LEMMA SameEsp ==
  ASSUME Settled
  PROVE  /\ Esps' = Esps /\ EspGiven' = EspGiven /\ HasEsp' = HasEsp
         /\ Part("esp")' = Part("esp") /\ Part("prep")' = Part("prep")
<1>1. kind' = kind /\ request' = request /\ use' = use
  BY DEF Settled
<1>2. Esps' = Esps
  BY <1>1 DEF Esps
<1>3. Part("esp")' = Part("esp") /\ Part("prep")' = Part("prep")
  BY <1>1 DEF Part
<1>4. EspGiven' = EspGiven
  BY <1>1, <1>3 DEF EspGiven
<1>5. HasEsp' = HasEsp
  BY <1>1, <1>4 DEF HasEsp
<1> QED BY <1>2, <1>3, <1>4, <1>5

(* A step that writes to no partition, and chooses none.                   *)
LEMMA PlainKeeps ==
  ASSUME DiskInv, Settled, esp' = esp, holds' = holds, at' # "preserve"
  PROVE  DiskInv'
<1>1. EspInv'
  BY SameEsp DEF Settled, DiskInv, EspInv
<1> QED BY <1>1, SettledKeeps

(* Boot loaders on the chosen partition leave the preserved one alone.     *)
LEMMA EspWriteKeeps ==
  ASSUME DiskInv, Settled, esp' = esp, at' # "preserve", ~request.md,
         NEW x, holds' = [holds EXCEPT ![esp] = x]
  PROVE  DiskInv'
<1>1. EspInv'
  BY SameEsp DEF Settled, DiskInv, EspInv
<1>2. ASSUME Preserving, NEW n \in EarlierEphemeral, Part("ephemeral") = n
      PROVE  holds'[n] = holds[n]
  <2>1. n \in DOMAIN request.disk /\ request.disk[n][1] = "ephemeral"
    BY DEF EarlierEphemeral
  <2>2. n # 0 /\ n \in DOMAIN use /\ use[n] = "ephemeral"
    BY <1>2, <2>1, Requests DEF DiskInv, TableInv, Uses0
  <2>3. n # esp
    <3>1. esp = 0 \/ esp \in Esps \/ esp = Part("esp")
      BY DEF DiskInv, EspInv
    <3>2. esp \in Esps => use[esp] = "esp"
      BY DEF Esps
    <3>3. Part("ephemeral") # 0 => Part("ephemeral") # Part("esp")
      BY PartsDiffer DEF DiskInv
    <3> QED BY <1>2, <2>2, <3>1, <3>2, <3>3
  <2>4. n \in DOMAIN holds
    BY <2>2 DEF DiskInv, TableInv
  <2> QED BY <2>3, <2>4
<1> QED BY <1>1, <1>2, SettledKeeps

LEMMA NowInstalling ==
  ASSUME DiskInv, at # "idle"
  PROVE  pc = "boot"
BY DEF DiskInv, EspInv

(* Found gives the partition of a number that the kernel knows, but for md *)
(* devices.                                                                *)
LEMMA FoundIs ==
  ASSUME DiskInv, NEW n, NEW m \in Found(n, seen)
  PROVE  m \in Nat \ {0} /\ (~request.md => m = n)
BY DEF Found, DiskInv, TableInv

LEMMA InstallSettled ==
  ASSUME InstallBootloader
  PROVE  Settled /\ esp' = 0 /\ holds' = holds /\ at' \in {"find esp", "choose"}
BY DEF InstallBootloader, Settled, fixed, whole, locals

LEMMA UefiSettled ==
  ASSUME DiskInv, ManageUefi
  PROVE  Settled /\ holds' = holds /\ at' # "preserve" /\ (at # "find esp" => esp' = esp)
<1>1. at # "idle" /\ pc' = pc
  BY DEF ManageUefi, FindEsp, MountEsp, UnmountEsp, RemountEsp, WriteEntry, EntriesWritten, LeaveUefi
<1>2. UNCHANGED fixed /\ holds' = holds /\ notes \subseteq notes'
  BY DEF ManageUefi, FindEsp, MountEsp, UnmountEsp, RemountEsp, WriteEntry, EntriesWritten,
         LeaveUefi, Keeps, Sticks, Umount
<1>3. at' # "preserve"
  BY DEF ManageUefi, FindEsp, MountEsp, UnmountEsp, RemountEsp, WriteEntry, EntriesWritten,
         LeaveUefi, EfiEnds, Step, Return
<1>4. at # "find esp" => esp' = esp
  BY DEF ManageUefi, FindEsp, MountEsp, UnmountEsp, RemountEsp, WriteEntry, EntriesWritten,
         LeaveUefi, efi
<1> QED BY <1>1, <1>2, <1>3, <1>4, NowInstalling DEF Settled, fixed, whole, locals

LEMMA RaidSettled ==
  ASSUME DiskInv, SoftRaid
  PROVE  Settled /\ holds' = holds /\ esp' = esp /\ at' # "preserve"
<1>1. at # "idle" /\ pc' = pc /\ UNCHANGED fixed /\ holds' = holds /\ esp' = esp
  BY DEF SoftRaid, FindEspRaid, CreateEspRaid, Relocate
<1>2. notes \subseteq notes'
  BY DEF SoftRaid, FindEspRaid, CreateEspRaid, Relocate, Keeps, Sticks
<1>3. at' # "preserve"
  BY DEF SoftRaid, FindEspRaid, CreateEspRaid, Relocate, PrepareFails, Prepared, Step
<1> QED BY <1>1, <1>2, <1>3, NowInstalling DEF Settled, fixed, whole, locals

LEMMA GrubSettled ==
  ASSUME DiskInv, Grub \/ Choose
  PROVE  Settled
<1>1. at # "idle" /\ pc' = pc /\ UNCHANGED fixed
  BY DEF Grub, BeginGrub, FindGrubEsp, MountRoot, Preserve, MountVfat, GrubOnEsp, CycleEsp,
         GrubOnDisks, Configure, CleanEsp, CleanRoot, Choose
<1>2. notes \subseteq notes'
  BY DEF Grub, BeginGrub, FindGrubEsp, MountRoot, Preserve, MountVfat, GrubOnEsp, CycleEsp,
         GrubOnDisks, Configure, CleanEsp, CleanRoot, Choose, Keeps, Sticks
<1> QED BY <1>1, <1>2, NowInstalling DEF Settled, fixed, whole, locals

LEMMA InstallKeepsDisk ==
  ASSUME DiskInv, InstallBootloader
  PROVE  DiskInv'
<1>1. EspInv'
  BY InstallSettled DEF EspInv, Settled
<1> QED BY <1>1, InstallSettled, SettledKeeps

LEMMA UefiKeepsDisk ==
  ASSUME DiskInv, ManageUefi
  PROVE  DiskInv'
<1>1. CASE at # "find esp"
  BY <1>1, UefiSettled, PlainKeeps
<1>2. CASE at = "find esp"
  <2>1. esp' = esp \/ \E m \in Esps : esp' \in Found(IF request.label = "gpt" THEN m ELSE 0, seen)
    BY <1>2 DEF ManageUefi, FindEsp, MountEsp, UnmountEsp, RemountEsp, WriteEntry,
                EntriesWritten, LeaveUefi
  <2>2. CASE esp' = esp
    BY <2>2, UefiSettled, PlainKeeps
  <2>3. CASE \E m \in Esps : esp' \in Found(IF request.label = "gpt" THEN m ELSE 0, seen)
    <3>1. ~request.md => esp' \in Esps
      BY <2>3, FoundIs
    <3>2. EspInv'
      BY <3>1, UefiSettled, SameEsp DEF EspInv, Settled
    <3> QED BY <3>2, UefiSettled, SettledKeeps
  <2> QED BY <2>1, <2>2, <2>3
<1> QED BY <1>1, <1>2

LEMMA RaidKeepsDisk ==
  ASSUME DiskInv, SoftRaid
  PROVE  DiskInv'
BY RaidSettled, PlainKeeps

LEMMA GrubKeepsDisk ==
  ASSUME DiskInv, Grub \/ Choose
  PROVE  DiskInv'
<1>0. Settled
  BY GrubSettled
<1>1. CASE BeginGrub \/ MountVfat \/ CycleEsp \/ GrubOnDisks \/ Configure \/ CleanEsp \/ CleanRoot
           \/ Choose
  <2>1. holds' = holds /\ esp' = esp
    BY <1>1 DEF BeginGrub, MountVfat, CycleEsp, GrubOnDisks, Configure, CleanEsp, CleanRoot,
                Choose, efi
  <2>2. at' # "preserve"
    BY <1>1 DEF BeginGrub, MountVfat, CycleEsp, GrubOnDisks, Configure, CleanEsp, CleanRoot,
                Choose, Step, Return, GrubFails
  <2> QED BY <1>0, <2>1, <2>2, PlainKeeps
<1>2. CASE FindGrubEsp
  <2>1. holds' = holds /\ at' # "preserve"
    BY <1>2 DEF FindGrubEsp, Step, GrubFails
  <2>2. esp' = esp \/ (EspGiven /\ esp' \in Found(Part("esp"), seen)) \/ esp' = 0
    BY <1>2 DEF FindGrubEsp
  <2>3. ~request.md /\ esp' # esp /\ esp' # 0 => EspGiven /\ esp' = Part("esp")
    BY <2>2, FoundIs
  <2>4. EspInv'
    <3>1. ~request.md => \/ esp' = 0 \/ (EspGiven /\ esp' = Part("esp"))
                         \/ esp' \in Esps
      BY <2>3 DEF DiskInv, EspInv
    <3> QED BY <1>0, <2>1, <3>1, SameEsp DEF EspInv, Settled
  <2> QED BY <1>0, <2>1, <2>4, SettledKeeps
<1>3. CASE MountRoot
  <2>1. holds' = holds /\ esp' = esp /\ (at' = "preserve" => HasEsp /\ ~request.md)
    BY <1>3 DEF MountRoot, Step, GrubFails, efi
  <2>2. EspInv'
    BY <1>0, <2>1, SameEsp DEF DiskInv, EspInv, Settled
  <2> QED BY <1>0, <2>1, <2>2, SettledKeeps
<1>4. CASE Preserve
  <2>1. esp' = esp /\ at' # "preserve" /\ ~request.md
    BY <1>4 DEF Preserve, Step, GrubFails, DiskInv, EspInv
  <2>2. \/ holds' = holds \/ holds' = [holds EXCEPT ![esp] = "loaders"]
        \/ holds' = [holds EXCEPT ![esp] = "broken"]
    BY <1>4 DEF Preserve
  <2> QED BY <1>0, <2>1, <2>2, PlainKeeps, EspWriteKeeps
<1>5. CASE GrubOnEsp
  <2>1. esp' = esp /\ at' # "preserve"
    BY <1>5 DEF GrubOnEsp, Step, GrubFails, efi
  <2>2. holds' = holds \/ (~request.md /\ holds' = [holds EXCEPT ![esp] = "loaders"])
    BY <1>5 DEF GrubOnEsp
  <2> QED BY <1>0, <2>1, <2>2, PlainKeeps, EspWriteKeeps
<1> QED BY <1>1, <1>2, <1>3, <1>4, <1>5 DEF Grub

LEMMA DiskSteps ==
  ASSUME DiskInv, [Next]_vars
  PROVE  DiskInv'
<1>1. CASE PartitionNext /\ UNCHANGED bootVars
  BY <1>1, PartitioningKeeps
<1>2. CASE InstallBootloader
  BY <1>2, InstallKeepsDisk
<1>3. CASE Choose \/ Grub
  BY <1>3, GrubKeepsDisk
<1>4. CASE ManageUefi
  BY <1>4, UefiKeepsDisk
<1>5. CASE SoftRaid
  BY <1>5, RaidKeepsDisk
<1>6. CASE UNCHANGED vars
  <2>1. UNCHANGED <<kind, request, use, holds, seen, pc, next, target, before, notes, outcome, at, esp>>
    BY <1>6 DEF vars, partitionVars, whole, disk, locals, bootVars, efi
  <2>2. RequestInv' /\ TableInv' /\ EspInv'
    BY <2>1 DEF DiskInv, RequestInv, TableInv, EspInv, Preserving, Uses0, Esps, EspGiven, HasEsp, Part
  <2>3. WriteInv'
    BY <2>1 DEF DiskInv, WriteInv, Preserving, Part
  <2>4. TargetInv' /\ OthersAreKept' /\ DriveIsWritten'
    BY <2>1, SamePart DEF DiskInv, TargetInv, OthersAreKept, DriveIsWritten
  <2> QED BY <2>2, <2>3, <2>4 DEF DiskInv
<1> QED BY <1>1, <1>2, <1>3, <1>4, <1>5, <1>6 DEF Next

LEMMA DiskHolds == Spec => []DiskInv
BY DiskStarts, DiskSteps, PTL DEF Spec

(* What an operation is to leave alone it leaves alone: the ephemeral      *)
(* partition that work_on_disk preserves, also while boot loaders are put  *)
(* on the ESP, and the image's partitions when a config drive is added     *)
(* (work_on_disk, create_config_drive_partition, install_bootloader).      *)
THEOREM OthersKept == Spec => []OthersAreKept
BY DiskHolds, PTL DEF DiskInv

(* When either operation reports success the config drive is on the        *)
(* partition made or found for it, unless it could not be rebuilt.         *)
THEOREM DriveWritten == Spec => []DriveIsWritten
BY DiskHolds, PTL DEF DiskInv

-----------------------------------------------------------------------------
(* Mounts *)

Unhindered == notes \cap {"stuck", "unbound"} = {}
Chroot == {"root"} \cup Binds

UefiSteps == {"find esp", "mount esp", "unmount esp", "remount esp", "entries", "leave"}
RaidSteps == {"find raid", "create raid", "relocate"}
GrubSteps == {"esp", "mount root", "preserve", "remount", "vfat", "install", "cycle",
              "configure", "clean", "unbind"}

(* Who called manage_uefi and the relocation of the ESP, and when the      *)
(* temporary directory is there.                                           *)
PathInv ==
  /\ at \in {"idle", "choose", "grub"} \cup UefiSteps \cup RaidSteps \cup GrubSteps
  /\ path \in {"none", "there", "removed"}
  /\ pc # "boot" => path = "none"
  /\ path = "removed" => at = "idle"
  /\ at \in {"choose", "grub", "unmount esp", "remount esp"} => path = "none"
  /\ at \in GrubSteps => path = "there"
  /\ at \in UefiSteps => caller = IF path = "there" THEN "preserve" ELSE "top"
  /\ at \in UefiSteps /\ path = "there" => ~request.md
  /\ at \in RaidSteps \cup {"unmount esp", "remount esp"} => request.md
  /\ at \in RaidSteps /\ path = "none" => caller = "top"

(* Nothing is mounted below a directory that is removed.                   *)
RemovedInv == path = "removed" => mounts \cap ({"root", "boot/efi"} \cup Binds) = {}

(* What is mounted while the disk is prepared, if no umount failed.        *)
SourceInv ==
  Unhindered =>
    /\ pc \in {"rebuild", "release", "give up"} => mounts \subseteq {"source", "new"}
    /\ pc \notin {"rebuild", "release", "give up", "boot"} => mounts = {}

(* And while the boot loader is installed.                                 *)
Below == IF path = "there" THEN Chroot ELSE {}
MountInv ==
  pc = "boot" /\ Unhindered =>
    /\ at \in {"idle", "choose", "grub", "esp", "mount root", "remount esp"} \cup RaidSteps
         => mounts = {}
    /\ at \in {"choose", "grub", "esp", "mount root", "remount esp", "preserve", "remount",
               "vfat", "find esp", "mount esp"} \cup RaidSteps => ~efi_mounted
    /\ at \in {"find esp", "mount esp"} => mounts = Below
    /\ at \in {"unmount esp", "entries"} => mounts = Below \cup {"esp"} /\ efi_mounted
    /\ at = "leave" => mounts = IF efi_mounted THEN Below \cup {"esp"} ELSE Below
    /\ at \in {"preserve", "remount", "vfat", "install", "cycle", "configure"}
         => mounts \in {Chroot, Chroot \cup {"boot/efi"}}
    /\ at = "preserve" => mounts = Chroot
    /\ at \in {"clean", "unbind"} => mounts \in {{}, Chroot, Chroot \cup {"boot/efi"}}

MountsInv == DiskInv /\ PathInv /\ RemovedInv /\ SourceInv /\ MountInv

LEMMA MountsStart == Init => MountsInv
<1>1. Init => PathInv /\ RemovedInv /\ SourceInv /\ MountInv
  BY DEF Init, PartitionInit, PathInv, RemovedInv, SourceInv, MountInv, UefiSteps, RaidSteps, GrubSteps
<1> QED BY <1>1, DiskStarts DEF MountsInv

LEMMA PartitioningMounts ==
  ASSUME MountsInv, PartitionNext, UNCHANGED bootVars
  PROVE  PathInv' /\ RemovedInv' /\ SourceInv' /\ MountInv'
<1>1. pc # "boot" /\ pc' # "boot"
  BY StillPartitioning DEF MountsInv
<1>2. path = "none" /\ path' = "none" /\ at = "idle" /\ at' = "idle"
  BY <1>1 DEF MountsInv, PathInv, DiskInv, EspInv, bootVars
<1>3. PathInv' /\ RemovedInv' /\ MountInv'
  BY <1>1, <1>2 DEF PathInv, RemovedInv, MountInv, UefiSteps, RaidSteps, GrubSteps
<1>4. notes \subseteq notes'
  BY DEF PartitionNext, Call, Fetch, Destroy, DestroyFails, MakePartitions, CheckDevices, Write,
         Finish, FindLabelled, FixGpt, CreatePartition, Locate, Fill, Verify, MountSource,
         Rebuild, Release
<1>5. SourceInv'
  <2>1. CASE Call \/ Fetch \/ Destroy \/ DestroyFails \/ MakePartitions \/ CheckDevices
             \/ Write \/ Finish \/ FindLabelled \/ FixGpt \/ CreatePartition \/ Locate \/ Fill
    <3>1. mounts' = mounts
      BY <2>1 DEF Call, Fetch, Destroy, DestroyFails, MakePartitions, CheckDevices, Write,
                  Finish, FindLabelled, FixGpt, CreatePartition, Locate, Fill
    <3>2. pc \notin {"rebuild", "release", "give up"} /\ pc' \notin {"rebuild", "release", "give up"}
      BY <2>1 DEF Call, Fetch, Destroy, DestroyFails, MakePartitions, CheckDevices, Write,
                  Finish, FindLabelled, FixGpt, CreatePartition, Locate, Fill, Goto, Fail
    <3> QED BY <1>1, <1>4, <3>1, <3>2 DEF MountsInv, SourceInv, Unhindered
  <2>2. CASE Verify
    BY <1>4, <2>2 DEF MountsInv, SourceInv, Unhindered, Verify, Goto, Succeed
  <2>3. CASE MountSource
    BY <1>4, <2>3 DEF MountsInv, SourceInv, Unhindered, MountSource, Goto, Succeed
  <2>4. CASE Rebuild
    BY <1>4, <2>4 DEF MountsInv, SourceInv, Unhindered, Rebuild, Goto
  <2>5. CASE Release
    BY <1>4, <2>5 DEF MountsInv, SourceInv, Unhindered, Release, Goto, Succeed, Fail
  <2> QED BY <2>1, <2>2, <2>3, <2>4, <2>5 DEF PartitionNext
<1> QED BY <1>3, <1>5

LEMMA InstallMounts ==
  ASSUME MountsInv, InstallBootloader
  PROVE  PathInv' /\ RemovedInv' /\ SourceInv' /\ MountInv'
<1>1. /\ pc \in {"idle", "boot"} /\ at = "idle" /\ pc' = "boot" /\ at' \in {"find esp", "choose"}
      /\ caller' = "top" /\ efi_mounted' = FALSE /\ path' = "none"
      /\ mounts' = mounts /\ notes' = notes
  BY DEF InstallBootloader
<1>2. PathInv' /\ RemovedInv' /\ SourceInv'
  BY <1>1 DEF PathInv, RemovedInv, SourceInv, UefiSteps, RaidSteps, GrubSteps
<1>3. Unhindered' => mounts' = {}
  BY <1>1 DEF MountsInv, SourceInv, MountInv, Unhindered
<1>4. MountInv'
  BY <1>1, <1>3 DEF MountInv, Below, RaidSteps
<1> QED BY <1>2, <1>4

LEMMA EfiEndsAt ==
  ASSUME NEW r \in {"true", "false", "raise"}, EfiEnds(r)
  PROVE  \/ caller = "preserve" /\ at' \in {"clean", "remount"}
         \/ caller # "preserve" /\ at' \in {"idle", "choose"}
BY DEF EfiEnds, Step, Return

LEMMA UefiPaths ==
  ASSUME MountsInv, ManageUefi
  PROVE  PathInv' /\ RemovedInv'
<1>0. path' = path /\ caller' = caller /\ pc' = "boot" /\ request' = request /\ at \in UefiSteps
      /\ path \in {"none", "there"}
  <2>1. path' = path /\ caller' = caller /\ at \in UefiSteps
    BY DEF ManageUefi, FindEsp, MountEsp, UnmountEsp, RemountEsp, WriteEntry, EntriesWritten,
           LeaveUefi, efi, UefiSteps
  <2> QED BY <2>1, UefiSettled DEF MountsInv, PathInv, Settled, UefiSteps
<1>1. RemovedInv'
  BY <1>0 DEF RemovedInv
<1>2. CASE at' \in UefiSteps \ {"unmount esp"}
  <2>1. at' # "remount esp"
    BY <1>2 DEF ManageUefi, FindEsp, MountEsp, UnmountEsp, RemountEsp, WriteEntry, EntriesWritten,
                LeaveUefi, EfiEnds, Step, Return, UefiSteps
  <2> QED BY <1>0, <1>1, <1>2, <2>1 DEF MountsInv, PathInv, UefiSteps, RaidSteps, GrubSteps
<1>3. CASE at' = "unmount esp"
  <2>1. request.md
    BY <1>3 DEF ManageUefi, FindEsp, MountEsp, UnmountEsp, RemountEsp, WriteEntry, EntriesWritten,
                LeaveUefi, EfiEnds, Step, Return
  <2> QED BY <1>0, <1>1, <1>3, <2>1 DEF MountsInv, PathInv, UefiSteps, RaidSteps, GrubSteps
<1>4. CASE at' \notin UefiSteps
  <2>1. \/ at = "unmount esp" /\ at' = "find raid"
        \/ caller = "preserve" /\ at' \in {"clean", "remount"}
        \/ caller # "preserve" /\ at' \in {"idle", "choose"}
    BY <1>4 DEF ManageUefi, FindEsp, MountEsp, UnmountEsp, RemountEsp, WriteEntry, EntriesWritten,
                LeaveUefi, EfiEnds, Step, Return, UefiSteps
  <2>2. CASE at = "unmount esp" /\ at' = "find raid"
    <3>1. request.md
      BY <2>2 DEF MountsInv, PathInv
    <3> QED BY <1>0, <1>1, <2>2, <3>1 DEF MountsInv, PathInv, UefiSteps, RaidSteps, GrubSteps
  <2>3. CASE caller = "preserve" /\ at' \in {"clean", "remount"}
    BY <1>0, <1>1, <2>3 DEF MountsInv, PathInv, UefiSteps, RaidSteps, GrubSteps
  <2>4. CASE caller # "preserve" /\ at' \in {"idle", "choose"}
    BY <1>0, <1>1, <2>4 DEF MountsInv, PathInv, UefiSteps, RaidSteps, GrubSteps
  <2> QED BY <2>1, <2>2, <2>3, <2>4
<1> QED BY <1>2, <1>3, <1>4

LEMMA UefiMounts ==
  ASSUME MountsInv, ManageUefi
  PROVE  SourceInv' /\ MountInv'
<1>0. /\ path' = path /\ pc = "boot" /\ pc' = "boot" /\ notes \subseteq notes' /\ at # "idle"
      /\ (Unhindered' => Unhindered) /\ Below' = Below
  <2>1. path' = path /\ at # "idle"
    BY DEF ManageUefi, FindEsp, MountEsp, UnmountEsp, RemountEsp, WriteEntry, EntriesWritten,
           LeaveUefi
  <2>2. pc = "boot" /\ pc' = "boot" /\ notes \subseteq notes'
    BY <2>1, UefiSettled, NowInstalling DEF MountsInv, Settled
  <2> QED BY <2>1, <2>2 DEF Unhindered, Below
<1>1. SourceInv'
  BY <1>0 DEF SourceInv
<1> SUFFICES MountInv'
  BY <1>1
<1>2. CASE FindEsp
  <2>1. /\ mounts' = mounts /\ efi_mounted' = efi_mounted /\ at = "find esp"
        /\ at' \in {"mount esp", "choose", "idle", "remount"}
        /\ (caller = "preserve" => at' \in {"mount esp", "remount"})
        /\ (caller # "preserve" => at' \in {"mount esp", "choose", "idle"})
    BY <1>2 DEF FindEsp, EfiEnds, Step, Return
  <2>2. Below = IF caller = "preserve" THEN Chroot ELSE {}
    BY <2>1 DEF Below, MountsInv, PathInv, UefiSteps
  <2>3. Unhindered' => mounts' = Below' /\ ~efi_mounted'
    BY <1>0, <2>1 DEF MountsInv, MountInv
  <2>4. CASE at' = "mount esp"
    BY <2>3, <2>4 DEF MountInv, RaidSteps
  <2>5. CASE caller = "preserve" /\ at' = "remount"
    BY <1>0, <2>2, <2>3, <2>5 DEF MountInv, RaidSteps
  <2>6. CASE caller # "preserve" /\ at' \in {"choose", "idle"}
    BY <1>0, <2>2, <2>3, <2>6 DEF MountInv, RaidSteps
  <2> QED BY <2>1, <2>4, <2>5, <2>6
<1>3. CASE MountEsp
  <2>1. Unhindered' => mounts = Below' /\ ~efi_mounted
    BY <1>0, <1>3 DEF MountsInv, MountInv, MountEsp
  <2>2. \/ mounts' = mounts \cup {"esp"} /\ efi_mounted' = TRUE /\ at' \in {"leave", "unmount esp", "entries"}
        \/ mounts' = mounts /\ efi_mounted' = efi_mounted /\ at' = "leave"
    BY <1>3 DEF MountEsp, Step
  <2>3. CASE mounts' = mounts \cup {"esp"} /\ efi_mounted' = TRUE /\ at' \in {"leave", "unmount esp", "entries"}
    BY <2>1, <2>3 DEF MountInv, RaidSteps
  <2>4. CASE mounts' = mounts /\ efi_mounted' = efi_mounted /\ at' = "leave"
    BY <2>1, <2>4 DEF MountInv, RaidSteps
  <2> QED BY <2>2, <2>3, <2>4
<1>4. CASE UnmountEsp
  <2>1. path = "none"
    BY <1>4 DEF MountsInv, PathInv, UnmountEsp
  <2>2. Unhindered' => mounts = {"esp"}
    BY <1>0, <1>4, <2>1 DEF MountsInv, MountInv, UnmountEsp, Below
  <2>3. \/ mounts' = mounts \ {"esp"} /\ efi_mounted' = FALSE /\ at' = "find raid"
        \/ at' = "leave" /\ ~Unhindered'
    BY <1>4 DEF UnmountEsp, Keeps, Sticks, Step, Unhindered
  <2>4. CASE mounts' = mounts \ {"esp"} /\ efi_mounted' = FALSE /\ at' = "find raid"
    <3>1. Unhindered' => mounts' = {}
      BY <2>2, <2>4
    <3> QED BY <2>4, <3>1 DEF MountInv, RaidSteps
  <2>5. CASE ~Unhindered'
    BY <2>5 DEF MountInv
  <2> QED BY <2>3, <2>4, <2>5
<1>5. CASE RemountEsp
  <2>1. path = "none"
    BY <1>5 DEF MountsInv, PathInv, RemountEsp
  <2>2. Unhindered' => mounts = {} /\ ~efi_mounted /\ Below' = {}
    BY <1>0, <1>5, <2>1 DEF MountsInv, MountInv, RemountEsp, Below
  <2>3. \/ mounts' = mounts \cup {"esp"} /\ efi_mounted' = TRUE /\ at' = "entries"
        \/ mounts' = mounts /\ efi_mounted' = efi_mounted /\ at' = "leave"
    BY <1>5 DEF RemountEsp, Step
  <2>4. CASE mounts' = mounts \cup {"esp"} /\ efi_mounted' = TRUE /\ at' = "entries"
    BY <2>2, <2>4 DEF MountInv, RaidSteps
  <2>5. CASE mounts' = mounts /\ efi_mounted' = efi_mounted /\ at' = "leave"
    BY <2>2, <2>5 DEF MountInv, RaidSteps
  <2> QED BY <2>3, <2>4, <2>5
<1>6. CASE WriteEntry \/ EntriesWritten
  <2>1. mounts' = mounts /\ efi_mounted' = efi_mounted /\ at = "entries" /\ at' \in {"entries", "leave"}
    BY <1>6 DEF WriteEntry, EntriesWritten, Step
  <2>2. Unhindered' => mounts' = Below' \cup {"esp"} /\ efi_mounted'
    BY <1>0, <2>1 DEF MountsInv, MountInv
  <2>3. CASE at' = "entries"
    BY <2>2, <2>3 DEF MountInv, RaidSteps
  <2>4. CASE at' = "leave"
    BY <2>2, <2>4 DEF MountInv, RaidSteps
  <2> QED BY <2>1, <2>3, <2>4
<1>7. CASE LeaveUefi
  <2>1. at = "leave" /\ efi_mounted' = FALSE
    BY <1>7 DEF LeaveUefi
  <2>2. Unhindered' => mounts' = IF efi_mounted THEN mounts \ {"esp"} ELSE mounts
    BY <1>7 DEF LeaveUefi, Umount, Keeps, Sticks, Unhindered
  <2>3. Unhindered' => mounts' = Below'
    BY <1>0, <2>1, <2>2 DEF MountsInv, MountInv, Below, Chroot, Binds
  <2>4. \/ caller = "preserve" /\ at' \in {"clean", "remount"}
        \/ caller # "preserve" /\ at' \in {"idle", "choose"}
    BY <1>7 DEF LeaveUefi, EfiEnds, Step, Return
  <2>5. Below' = IF caller = "preserve" THEN Chroot ELSE {}
    BY <1>0, <2>1 DEF Below, MountsInv, PathInv, UefiSteps
  <2>6. CASE caller = "preserve" /\ at' \in {"clean", "remount"}
    BY <1>0, <2>1, <2>3, <2>5, <2>6 DEF MountInv, RaidSteps
  <2>7. CASE caller # "preserve" /\ at' \in {"idle", "choose"}
    BY <1>0, <2>1, <2>3, <2>5, <2>7 DEF MountInv, RaidSteps
  <2> QED BY <2>4, <2>6, <2>7
<1> QED BY <1>2, <1>3, <1>4, <1>5, <1>6, <1>7 DEF ManageUefi

LEMMA RaidMounts ==
  ASSUME MountsInv, SoftRaid
  PROVE  PathInv' /\ RemovedInv' /\ SourceInv' /\ MountInv'
<1>0. /\ path' = path /\ caller' = caller /\ efi_mounted' = efi_mounted /\ request' = request
      /\ pc = "boot" /\ pc' = "boot" /\ at \in RaidSteps /\ notes \subseteq notes'
  <2>1. path' = path /\ caller' = caller /\ efi_mounted' = efi_mounted /\ at \in RaidSteps
        /\ at # "idle"
    BY DEF SoftRaid, FindEspRaid, CreateEspRaid, Relocate, RaidSteps
  <2> QED BY <2>1, RaidSettled, NowInstalling DEF MountsInv, Settled
<1>1. /\ request.md /\ path \in {"none", "there"} /\ (path = "none" => caller = "top")
  BY <1>0 DEF MountsInv, PathInv, RaidSteps
<1>2. \/ at' \in RaidSteps
      \/ path = "there" /\ at' \in {"clean", "mount root"}
      \/ path = "none" /\ at' \in {"leave", "remount esp"}
  BY <1>1 DEF SoftRaid, FindEspRaid, CreateEspRaid, Relocate, RaidSteps, PrepareFails, Prepared,
              InGrub, Step
<1>3. PathInv'
  <2>1. CASE at' \in RaidSteps
    BY <1>0, <1>1, <2>1 DEF PathInv, UefiSteps, RaidSteps, GrubSteps
  <2>2. CASE path = "there" /\ at' \in {"clean", "mount root"}
    BY <1>0, <1>1, <2>2 DEF PathInv, UefiSteps, RaidSteps, GrubSteps
  <2>3. CASE path = "none" /\ at' \in {"leave", "remount esp"}
    BY <1>0, <1>1, <2>3 DEF PathInv, UefiSteps, RaidSteps, GrubSteps
  <2> QED BY <1>2, <2>1, <2>2, <2>3
<1>4. RemovedInv' /\ SourceInv'
  BY <1>0, <1>1 DEF RemovedInv, SourceInv
<1>5. Unhindered' => mounts = {} /\ ~efi_mounted
  BY <1>0 DEF MountsInv, MountInv, Unhindered
<1>6. Unhindered' => mounts' = mounts
  BY DEF SoftRaid, FindEspRaid, CreateEspRaid, Relocate, Keeps, Sticks, Unhindered
<1>7. MountInv'
  BY <1>0, <1>2, <1>5, <1>6 DEF MountInv, Below, RaidSteps
<1> QED BY <1>3, <1>4, <1>7

(* What a step of _install_grub2 does to where it stands, and to the       *)
(* temporary directory.                                                    *)
LEMMA GrubPaths ==
  ASSUME MountsInv, Grub \/ Choose
  PROVE  PathInv'
<1>0. pc' = "boot" /\ request' = request
  BY GrubSettled DEF MountsInv, Settled
<1>1. CASE Choose
  <2>1. at = "choose" /\ at' \in {"idle", "grub"} /\ path' = path /\ caller' = caller
    BY <1>1 DEF Choose, Step, Return, efi
  <2> QED BY <1>0, <2>1 DEF MountsInv, PathInv, UefiSteps, RaidSteps, GrubSteps
<1>2. CASE BeginGrub
  <2>1. /\ at = "grub" /\ caller' = caller
        /\ (at' = "idle" /\ path' = path) \/ (at' = "esp" /\ path' = "there")
    BY <1>2 DEF BeginGrub, Step, Return, efi
  <2> QED BY <1>0, <2>1 DEF MountsInv, PathInv, UefiSteps, RaidSteps, GrubSteps
<1>3. CASE FindGrubEsp
  <2>1. /\ at = "esp" /\ caller' = caller /\ path' = path
        /\ at' \in {"mount root", "clean"} \/ (at' = "find raid" /\ request.md)
    BY <1>3 DEF FindGrubEsp, Step, GrubFails
  <2> QED BY <1>0, <2>1 DEF MountsInv, PathInv, UefiSteps, RaidSteps, GrubSteps
<1>4. CASE Preserve
  <2>1. /\ at = "preserve" /\ path' = path
        /\ at' \in {"remount", "clean"} \/ (at' = "find esp" /\ caller' = "preserve")
    BY <1>4 DEF Preserve, Step, GrubFails
  <2>2. ~request.md
    BY <2>1 DEF MountsInv, DiskInv, EspInv
  <2> QED BY <1>0, <2>1, <2>2 DEF MountsInv, PathInv, UefiSteps, RaidSteps, GrubSteps
<1>5. CASE MountRoot \/ MountVfat \/ GrubOnEsp \/ CycleEsp \/ GrubOnDisks \/ Configure
  <2>1. /\ at \in GrubSteps /\ caller' = caller /\ path' = path
        /\ at' \in GrubSteps
    BY <1>5 DEF MountRoot, MountVfat, GrubOnEsp, CycleEsp, GrubOnDisks, Configure, Step,
                GrubFails, efi, GrubSteps
  <2> QED BY <1>0, <2>1 DEF MountsInv, PathInv, UefiSteps, RaidSteps, GrubSteps
<1>6. CASE CleanEsp
  <2>1. at = "clean" /\ at' \in {"idle", "unbind"} /\ caller' = caller /\ path' = path
    BY <1>6 DEF CleanEsp, Step, Return, efi
  <2> QED BY <1>0, <2>1 DEF MountsInv, PathInv, UefiSteps, RaidSteps, GrubSteps
<1>7. CASE CleanRoot
  <2>1. at = "unbind" /\ at' = "idle" /\ caller' = caller /\ path' \in {"removed", path}
    BY <1>7 DEF CleanRoot, Return, efi
  <2> QED BY <1>0, <2>1 DEF MountsInv, PathInv, UefiSteps, RaidSteps, GrubSteps
<1> QED BY <1>1, <1>2, <1>3, <1>4, <1>5, <1>6, <1>7 DEF Grub

LEMMA GrubRemoved ==
  ASSUME MountsInv, Grub \/ Choose
  PROVE  RemovedInv'
<1>1. CASE CleanRoot
  <2>1. path' = path \/ path' = "removed"
    BY <1>1 DEF CleanRoot
  <2>2. path = "there"
    BY <1>1 DEF CleanRoot, MountsInv, PathInv, GrubSteps
  <2>3. path' = "removed" => mounts' = mounts \ ({"boot/efi", "root"} \cup Binds)
    BY <1>1, <2>2 DEF CleanRoot
  <2> QED BY <2>3 DEF RemovedInv
<1>2. CASE ~CleanRoot
  <2>1. at # "idle" /\ path' \in {path, "there"}
    BY <1>2 DEF Grub, BeginGrub, FindGrubEsp, MountRoot, Preserve, MountVfat, GrubOnEsp,
                CycleEsp, GrubOnDisks, Configure, CleanEsp, Choose
  <2> QED BY <2>1 DEF MountsInv, PathInv, RemovedInv
<1> QED BY <1>1, <1>2

LEMMA GrubMounts ==
  ASSUME MountsInv, Grub \/ Choose
  PROVE  SourceInv' /\ MountInv'
<1>0. /\ pc = "boot" /\ pc' = "boot" /\ (Unhindered' => Unhindered)
      /\ (at \in GrubSteps => path = "there" /\ Below = Chroot)
  <2>1. at # "idle"
    BY DEF Grub, BeginGrub, FindGrubEsp, MountRoot, Preserve, MountVfat, GrubOnEsp,
           CycleEsp, GrubOnDisks, Configure, CleanEsp, CleanRoot, Choose
  <2>2. pc = "boot" /\ pc' = "boot" /\ notes \subseteq notes'
    BY <2>1, GrubSettled, NowInstalling DEF MountsInv, Settled
  <2> QED BY <2>2 DEF Unhindered, Below, MountsInv, PathInv
<1>1. SourceInv'
  BY <1>0 DEF SourceInv
<1> SUFFICES ASSUME Unhindered'
             PROVE  MountInv'
  BY <1>1 DEF MountInv
<1>2. CASE Choose \/ BeginGrub \/ FindGrubEsp
  <2>1. /\ mounts' = mounts /\ efi_mounted' = efi_mounted /\ at \in {"choose", "grub", "esp"}
        /\ at' \in {"idle", "grub", "esp", "find raid", "mount root", "clean"}
    BY <1>2 DEF Choose, BeginGrub, FindGrubEsp, Step, Return, GrubFails
  <2>2. mounts' = {} /\ ~efi_mounted'
    BY <1>0, <2>1 DEF MountsInv, MountInv
  <2> QED BY <2>1, <2>2 DEF MountInv, RaidSteps
<1>3. CASE MountRoot
  <2>1. mounts = {} /\ ~efi_mounted
    BY <1>0, <1>3 DEF MountsInv, MountInv, MountRoot
  <2>2. \/ mounts' = Chroot /\ at' \in {"preserve", "vfat"}
        \/ mounts' = {} /\ at' = "clean"
    BY <1>3, <2>1 DEF MountRoot, Keeps, Step, GrubFails, Unhindered, Chroot
  <2>3. ~efi_mounted'
    BY <1>3, <2>1 DEF MountRoot
  <2>4. CASE mounts' = Chroot /\ at' \in {"preserve", "vfat"}
    BY <2>3, <2>4 DEF MountInv, RaidSteps
  <2>5. CASE mounts' = {} /\ at' = "clean"
    BY <2>5 DEF MountInv, RaidSteps
  <2> QED BY <2>2, <2>4, <2>5
<1>4. CASE Preserve
  <2>1. mounts = Chroot /\ ~efi_mounted /\ path' = "there" /\ path = "there"
    BY <1>0, <1>4 DEF MountsInv, MountInv, Preserve, GrubSteps
  <2>2. mounts' = mounts /\ efi_mounted' = efi_mounted /\ at' \in {"remount", "clean", "find esp"}
    BY <1>4 DEF Preserve, Keeps, Sticks, Step, GrubFails, Unhindered
  <2>3. Below' = Chroot
    BY <2>1 DEF Below
  <2> QED BY <2>1, <2>2, <2>3 DEF MountInv, RaidSteps
<1>5. CASE MountVfat
  <2>1. mounts \in {Chroot, Chroot \cup {"boot/efi"}}
    BY <1>0, <1>5 DEF MountsInv, MountInv, MountVfat
  <2>2. mounts' \in {mounts, mounts \cup {"boot/efi"}} /\ at' \in {"install", "clean"}
    BY <1>5 DEF MountVfat, Keeps, Step, GrubFails
  <2>3. mounts' \in {Chroot, Chroot \cup {"boot/efi"}}
    BY <2>1, <2>2
  <2> QED BY <2>2, <2>3 DEF MountInv, RaidSteps
<1>6. CASE GrubOnEsp \/ CycleEsp \/ GrubOnDisks \/ Configure
  <2>1. /\ mounts' \in {mounts, mounts \cup {"boot/efi"}, mounts \ {"boot/efi"}}
        /\ at \in {"install", "cycle", "configure"} /\ at' \in {"cycle", "configure", "clean"}
    BY <1>6 DEF GrubOnEsp, CycleEsp, GrubOnDisks, Configure, Keeps, Sticks, Step, GrubFails
  <2>2. mounts \in {Chroot, Chroot \cup {"boot/efi"}}
    BY <1>0, <2>1 DEF MountsInv, MountInv
  <2>3. "boot/efi" \notin Chroot
    BY DEF Chroot, Binds
  <2>4. mounts' \in {Chroot, Chroot \cup {"boot/efi"}}
    BY <2>1, <2>2, <2>3
  <2> QED BY <2>1, <2>4 DEF MountInv, RaidSteps
<1>7. CASE CleanEsp
  <2>1. mounts \in {{}, Chroot, Chroot \cup {"boot/efi"}}
    BY <1>0, <1>7 DEF MountsInv, MountInv, CleanEsp
  <2>2. mounts' \in {mounts, mounts \ {"boot/efi"}} /\ at' = "unbind"
    BY <1>7 DEF CleanEsp, Keeps, Sticks, Step, Return, Unhindered
  <2>3. "boot/efi" \notin Chroot
    BY DEF Chroot, Binds
  <2>4. mounts' \in {{}, Chroot, Chroot \cup {"boot/efi"}}
    BY <2>1, <2>2, <2>3
  <2> QED BY <2>2, <2>4 DEF MountInv, RaidSteps
<1>8. CASE CleanRoot
  <2>1. mounts \in {{}, Chroot, Chroot \cup {"boot/efi"}}
    BY <1>0, <1>8 DEF MountsInv, MountInv, CleanRoot
  <2>2. at' = "idle"
    BY <1>8 DEF CleanRoot, Return
  <2>3. PICK left \in SUBSET (mounts \cap ({"boot/efi", "root"} \cup Binds)) :
          /\ mounts' = (mounts \ ({"boot/efi", "root"} \cup Binds)) \cup left
          /\ IF Binds \cup {"root"} \subseteq mounts
             THEN notes' = IF left = {} THEN notes ELSE notes \cup {"stuck"}
             ELSE TRUE
    BY <1>8 DEF CleanRoot
  <2>4. CASE mounts = {}
    <3>1. mounts' = {}
      BY <2>3, <2>4
    <3> QED BY <2>2, <3>1 DEF MountInv, RaidSteps
  <2>5. CASE mounts # {}
    <3>1. Binds \cup {"root"} \subseteq mounts
      BY <2>1, <2>5 DEF Chroot
    <3>2. left = {}
      BY <2>3, <3>1 DEF Unhindered
    <3>3. mounts' = {}
      BY <2>1, <2>3, <3>2 DEF Chroot
    <3> QED BY <2>2, <3>3 DEF MountInv, RaidSteps
  <2> QED BY <2>4, <2>5
<1> QED BY <1>2, <1>3, <1>4, <1>5, <1>6, <1>7, <1>8 DEF Grub

LEMMA MountsSteps ==
  ASSUME MountsInv, [Next]_vars
  PROVE  MountsInv'
<1>0. DiskInv'
  BY DiskSteps DEF MountsInv
<1>1. CASE PartitionNext /\ UNCHANGED bootVars
  BY <1>0, <1>1, PartitioningMounts DEF MountsInv
<1>2. CASE InstallBootloader
  BY <1>0, <1>2, InstallMounts DEF MountsInv
<1>3. CASE Choose \/ Grub
  BY <1>0, <1>3, GrubPaths, GrubRemoved, GrubMounts DEF MountsInv
<1>4. CASE ManageUefi
  BY <1>0, <1>4, UefiPaths, UefiMounts DEF MountsInv
<1>5. CASE SoftRaid
  BY <1>0, <1>5, RaidMounts DEF MountsInv
<1>6. CASE UNCHANGED vars
  <2>1. UNCHANGED <<request, pc, notes, mounts, at, caller, efi_mounted, path>>
    BY <1>6 DEF vars, partitionVars, whole, disk, locals, bootVars, efi
  <2>2. PathInv' /\ RemovedInv'
    BY <2>1 DEF MountsInv, PathInv, RemovedInv
  <2>3. SourceInv' /\ MountInv'
    BY <2>1 DEF MountsInv, SourceInv, MountInv, Unhindered, Below
  <2> QED BY <1>0, <2>2, <2>3 DEF MountsInv
<1> QED BY <1>1, <1>2, <1>3, <1>4, <1>5, <1>6 DEF Next

LEMMA MountsHold == Spec => []MountsInv
BY MountsStart, MountsSteps, PTL DEF Spec

(* Between two calls nothing is left mounted, unless an umount or one of   *)
(* the bind mounts failed, and the temporary directory is removed only     *)
(* when nothing is mounted below it (the finally clauses of manage_uefi    *)
(* and _install_grub2).                                                    *)
THEOREM MountsReleased == Spec => []MountsAreReleased
<1>1. MountsInv => MountsAreReleased
  BY DEF MountsInv, SourceInv, MountInv, RemovedInv, Unhindered, MountsAreReleased
<1> QED BY <1>1, MountsHold, PTL

-----------------------------------------------------------------------------
(* Boot records and loaders *)

LEMMA LoadersAre ==
  ASSUME NEW what
  PROVE  /\ Loaders(what) = <<"shim">> \/ Loaders(what) = <<"ironic1", "ironic2">>
            \/ Loaders(what) = <<>>
         /\ Loaders("loaders") # <<>>
BY DEF Loaders

(* The labels that are written at once are as many as there are loaders,   *)
(* for each member of the RAID, and no two of them are the same.           *)
LEMMA LabelsDiffer ==
  ASSUME Loaders(holds[esp]) # <<>>
  PROVE  /\ Len(Labels) \in Nat \ {0} /\ DOMAIN Labels = 1 .. Len(Labels) /\ Labels # <<>>
         /\ \A i, j \in 1 .. Len(Labels) : Labels[i] = Labels[j] => i = j
         /\ 0 % Len(Loaders(holds[esp])) = 0
<1> DEFINE L == Loaders(holds[esp])
<1>1. /\ 0 % 1 = 0 /\ 1 % 1 = 0 /\ 0 % 2 = 0 /\ 1 % 2 = 1 /\ 2 % 2 = 0 /\ 3 % 2 = 1
      /\ 0 \div 1 = 0 /\ 1 \div 1 = 1
      /\ 0 \div 2 = 0 /\ 1 \div 2 = 0 /\ 2 \div 2 = 1 /\ 3 \div 2 = 1
  OBVIOUS
<1>2. CASE L = <<"shim">> /\ request.md
  <2>1. Labels = [i \in 1 .. 2 |-> <<L[1 + ((i - 1) % 1)], 1 + ((i - 1) \div 1)>>]
    BY <1>2 DEF Labels
  <2>2. Labels = <<<<"shim", 1>>, <<"shim", 2>>>>
    BY <1>1, <1>2, <2>1
  <2> QED BY <1>1, <1>2, <2>2
<1>3. CASE L = <<"shim">> /\ ~request.md
  <2>1. Labels = <<<<"shim", 0>>>>
    BY <1>3 DEF Labels
  <2> QED BY <1>1, <1>3, <2>1
<1>4. CASE L = <<"ironic1", "ironic2">> /\ request.md
  <2>1. Labels = [i \in 1 .. 4 |-> <<L[1 + ((i - 1) % 2)], 1 + ((i - 1) \div 2)>>]
    BY <1>4 DEF Labels
  <2>2. Labels = <<<<"ironic1", 1>>, <<"ironic2", 1>>, <<"ironic1", 2>>, <<"ironic2", 2>>>>
    BY <1>1, <1>4, <2>1
  <2> QED BY <1>1, <1>4, <2>2
<1>5. CASE L = <<"ironic1", "ironic2">> /\ ~request.md
  <2>1. Labels = <<<<"ironic1", 0>>, <<"ironic2", 0>>>>
    BY <1>5 DEF Labels
  <2> QED BY <1>1, <1>5, <2>1
<1> QED BY <1>2, <1>3, <1>4, <1>5, LoadersAre

(* The image's partitions are in the table when a boot loader is           *)
(* installed, and the call for it comes only after a success.              *)
LayoutInv ==
  /\ outcome = "done" => pc \in {"idle", "boot"}
  /\ kind = "image" /\ (pc = "boot" \/ outcome = "done")
       => DOMAIN Layout(request) \subseteq DOMAIN use

(* The steps of manage_uefi between the choice of an ESP with loaders and  *)
(* the first record.                                                       *)
Relocating == at \in {"unmount esp", "remount esp"} \/ (at \in RaidSteps /\ path = "none")

(* The ESP that was chosen, by manage_uefi and by _install_grub2.          *)
ChosenInv ==
  /\ DOMAIN raid = {"holds", "wiped"}
  /\ at = "mount esp" \/ Relocating => esp # 0 /\ entry = 1
  /\ at = "entries" => esp # 0
  /\ at = "entries" \/ Relocating => Loaders(holds[esp]) # <<>>
  /\ at \in {"remount esp", "entries"} /\ request.md
       => raid = [holds |-> holds[esp], wiped |-> TRUE]
  /\ HasEsp /\ ~request.md
       /\ (at \in {"mount root", "preserve", "remount", "vfat", "install"}
             \/ (at \in UefiSteps /\ path = "there"))
       => esp \in DOMAIN holds

(* The label has one record, and it is of this deployment.                 *)
Once(i) == \E r \in nvram : r.here /\ {s \in nvram : s.label = Labels[i]} = {r}

(* The records so far.  What was read of them for this member of the RAID  *)
(* lacks no more than the ones added since, and these have other labels.   *)
EntriesInv ==
  at = "entries" =>
    /\ entry \in 1 .. Len(Labels) + 1
    /\ \A i \in 1 .. entry - 1 : Once(i)
    /\ (entry - 1) % Len(Loaders(holds[esp])) # 0 =>
         \A r \in nvram : r \in boot_records \/ \E i \in 1 .. entry - 1 : r.label = Labels[i]

(* What a success is based on, from when it is certain.                    *)
Bootable == GrubBoots \/ (HasEsp /\ "grub ignored" \in notes)
HowInv ==
  /\ pc # "boot" => how = "unneeded"
  /\ at = "leave" /\ pending = "true" => RecordsBoot
  /\ how = "records" => RecordsBoot
  /\ how = "grub" /\ ~error => Bootable
  /\ how \in {"records", "grub"} => at \in {"clean", "unbind", "idle"}
  /\ at \in {"cycle", "configure"} => Bootable

BootInv == MountsInv /\ LayoutInv /\ ChosenInv /\ EntriesInv /\ HowInv

LEMMA BootStarts == Init => BootInv
<1>1. Init => LayoutInv /\ ChosenInv /\ EntriesInv /\ HowInv
  BY DEF Init, PartitionInit, LayoutInv, ChosenInv, EntriesInv, HowInv, Relocating, RaidSteps,
         UefiSteps
<1> QED BY <1>1, MountsStart DEF BootInv

LEMMA PartitioningBoot ==
  ASSUME BootInv, PartitionNext, UNCHANGED bootVars
  PROVE  LayoutInv' /\ ChosenInv' /\ EntriesInv' /\ HowInv'
<1>1. pc # "boot" /\ pc' # "boot" /\ kind' = kind /\ request' = request
  BY StillPartitioning, SameRequest DEF BootInv, MountsInv
<1>2. at = "idle" /\ at' = "idle" /\ how' = how /\ raid' = raid
  BY <1>1 DEF BootInv, MountsInv, DiskInv, EspInv, bootVars, machine
<1>3. ChosenInv' /\ EntriesInv' /\ HowInv'
  BY <1>1, <1>2 DEF BootInv, ChosenInv, EntriesInv, HowInv, Relocating, RaidSteps, UefiSteps
<1>4. outcome # "done"
  BY <1>1 DEF BootInv, LayoutInv, PartitionNext, Call, Fetch, Destroy, DestroyFails,
     MakePartitions, CheckDevices, Write, Finish, FindLabelled, FixGpt, CreatePartition, Locate,
     Fill, Verify, MountSource, Rebuild, Release
<1>5. outcome' = "done" => pc' = "idle"
  BY <1>4 DEF PartitionNext, Call, Fetch, Destroy, DestroyFails, MakePartitions, CheckDevices,
     Write, Finish, FindLabelled, FixGpt, CreatePartition, Locate, Fill, Verify, MountSource,
     Rebuild, Release, Goto, Fail, Succeed
<1>6. kind = "image" /\ outcome' = "done" => DOMAIN Layout(request) \subseteq DOMAIN use'
  <2>1. CASE Finish
    <3>1. use' = use /\ pc = "write"
      BY <2>1 DEF Finish, disk
    <3> QED BY <3>1 DEF BootInv, MountsInv, DiskInv, WriteInv
  <2>2. CASE Verify \/ MountSource \/ Release
    BY <2>2 DEF Verify, MountSource, Release, BootInv, MountsInv, DiskInv, RequestInv
  <2>3. CASE ~Finish /\ ~(Verify \/ MountSource \/ Release)
    BY <1>4, <2>3 DEF PartitionNext, Call, Fetch, Destroy, DestroyFails, MakePartitions,
       CheckDevices, Write, FindLabelled, FixGpt, CreatePartition, Locate, Fill, Rebuild, Goto, Fail
  <2> QED BY <2>1, <2>2, <2>3
<1>7. LayoutInv'
  BY <1>1, <1>5, <1>6 DEF LayoutInv
<1> QED BY <1>3, <1>7

LEMMA SettledLayout ==
  ASSUME BootInv, Settled, pc = "boot" \/ outcome = "done"
  PROVE  LayoutInv'
BY DEF Settled, BootInv, LayoutInv

LEMMA InstallBoot ==
  ASSUME BootInv, InstallBootloader
  PROVE  LayoutInv' /\ ChosenInv' /\ EntriesInv' /\ HowInv'
<1>1. /\ outcome = "done" /\ at' \in {"find esp", "choose"} /\ path' = "none"
      /\ raid' = raid /\ how' = "unneeded"
  BY DEF InstallBootloader
<1>2. LayoutInv'
  BY <1>1, InstallSettled, SettledLayout
<1>3. ChosenInv' /\ EntriesInv' /\ HowInv'
  BY <1>1 DEF BootInv, ChosenInv, EntriesInv, HowInv, Relocating, RaidSteps
<1> QED BY <1>2, <1>3

(* The labels, and what is found to boot from, when nothing is written.    *)
LEMMA MachineAlone ==
  ASSUME Settled, holds' = holds, esp' = esp
  PROVE  /\ Labels' = Labels
         /\ nvram' = nvram /\ raid' = raid => (RecordsBoot => RecordsBoot')
         /\ raid' = raid /\ grub' = grub => (GrubBoots => GrubBoots')
<1>1. request' = request
  BY DEF Settled
<1>2. Labels' = Labels
  BY <1>1 DEF Labels, Loaders
<1>3. ASSUME nvram' = nvram, raid' = raid, RecordsBoot
      PROVE  RecordsBoot'
  BY <1>1, <1>2, <1>3 DEF RecordsBoot
<1>4. ASSUME raid' = raid, grub' = grub, GrubBoots
      PROVE  GrubBoots'
  <2>1. HasEsp' = HasEsp /\ Holders' = Holders
    BY <1>1, SameEsp DEF Holders
  <2>2. CASE HasEsp
    BY <1>1, <1>4, <2>1, <2>2 DEF GrubBoots, Loaders
  <2>3. CASE ~HasEsp
    BY <1>1, <1>4, <2>1, <2>3 DEF GrubBoots
  <2> QED BY <2>2, <2>3
<1> QED BY <1>2, <1>3, <1>4

(* A step that decides nothing yet.                                        *)
LEMMA Undecided ==
  ASSUME BootInv, pc' = "boot", at \notin {"clean", "unbind", "idle"},
         how' \in {how, "present", "unneeded"},
         at' = "leave" /\ pending' = "true" => RecordsBoot',
         at' \in {"cycle", "configure"} => Bootable'
  PROVE  HowInv'
<1>1. how' \notin {"records", "grub"}
  BY DEF BootInv, HowInv
<1> QED BY <1>1 DEF HowInv

-----------------------------------------------------------------------------
(* Records: manage_uefi *)

LEMMA FindEspBoot ==
  ASSUME BootInv, FindEsp
  PROVE  ChosenInv' /\ EntriesInv' /\ HowInv'
<1>0. Settled /\ holds' = holds /\ at = "find esp"
  BY UefiSettled DEF ManageUefi, FindEsp, BootInv, MountsInv
<1>1. /\ path' = path /\ raid' = raid /\ entry' = 1
      /\ \/ /\ at' = "mount esp" /\ how' = how
            /\ \E m \in Esps : esp' \in Found(IF request.label = "gpt" THEN m ELSE 0, seen)
         \/ at' \in {"remount", "choose", "idle"} /\ how' = how /\ esp' = esp
  BY DEF FindEsp, EfiEnds, Step, Return, machine
<1>2. at' = "mount esp" => esp' # 0 /\ (~request.md => esp' \in DOMAIN holds)
  <2>1. ASSUME NEW m \in Esps, esp' \in Found(IF request.label = "gpt" THEN m ELSE 0, seen)
        PROVE  esp' # 0 /\ (~request.md => esp' \in DOMAIN holds)
    <3>1. esp' # 0 /\ (~request.md => esp' = IF request.label = "gpt" THEN m ELSE 0)
      BY <2>1, FoundIs DEF BootInv, MountsInv
    <3> QED BY <3>1 DEF Esps, BootInv, MountsInv, DiskInv, TableInv
  <2> QED BY <1>1, <2>1
<1>3. HasEsp' = HasEsp /\ request' = request
  BY <1>0, SameEsp DEF Settled
<1>4. at' # "mount esp" /\ HasEsp /\ ~request.md /\ path = "there" => esp \in DOMAIN holds
  BY <1>0 DEF BootInv, ChosenInv, UefiSteps
<1>5. at' \in {"choose", "idle"} \/ path = "there" \/ at' = "mount esp"
  BY <1>0, <1>1 DEF BootInv, MountsInv, PathInv, UefiSteps, FindEsp, EfiEnds, Step, Return
<1>6. ChosenInv'
  BY <1>0, <1>1, <1>2, <1>3, <1>4, <1>5
     DEF BootInv, ChosenInv, Relocating, RaidSteps, UefiSteps
<1>7. EntriesInv'
  BY <1>1 DEF EntriesInv
<1>8. HowInv'
  BY <1>0, <1>1, Undecided DEF Settled
<1> QED BY <1>6, <1>7, <1>8

(* What the other steps of manage_uefi leave as it is.                     *)
LEMMA UefiAlone ==
  ASSUME BootInv, ManageUefi, at # "find esp"
  PROVE  /\ Settled /\ holds' = holds /\ esp' = esp /\ path' = path /\ raid' = raid
         /\ request' = request /\ HasEsp' = HasEsp /\ grub' = grub
         /\ (HasEsp /\ ~request.md /\ path = "there" => esp \in DOMAIN holds)
         /\ (at' = "remount" => path = "there")
<1>1. Settled /\ holds' = holds /\ esp' = esp
  BY UefiSettled DEF BootInv, MountsInv
<1>2. path' = path /\ raid' = raid /\ grub' = grub /\ at \in UefiSteps
  BY DEF ManageUefi, FindEsp, MountEsp, UnmountEsp, RemountEsp, WriteEntry, EntriesWritten,
         LeaveUefi, machine, UefiSteps
<1>3. HasEsp' = HasEsp /\ request' = request
  BY <1>1, SameEsp DEF Settled
<1>4. HasEsp /\ ~request.md /\ path = "there" => esp \in DOMAIN holds
  BY <1>2 DEF BootInv, ChosenInv
<1>5. at' = "remount" => caller = "preserve"
  BY DEF ManageUefi, FindEsp, MountEsp, UnmountEsp, RemountEsp, WriteEntry, EntriesWritten,
         LeaveUefi, EfiEnds, Step, Return
<1>6. at' = "remount" => path = "there"
  BY <1>2, <1>5 DEF BootInv, MountsInv, PathInv
<1> QED BY <1>1, <1>2, <1>3, <1>4, <1>6

LEMMA MountEspBoot ==
  ASSUME BootInv, MountEsp \/ UnmountEsp \/ RemountEsp
  PROVE  ChosenInv' /\ EntriesInv' /\ HowInv'
<1>0. at \in {"mount esp", "unmount esp", "remount esp"}
  BY DEF MountEsp, UnmountEsp, RemountEsp
<1>1. /\ Settled /\ holds' = holds /\ esp' = esp /\ path' = path /\ raid' = raid
      /\ request' = request /\ HasEsp' = HasEsp
      /\ (HasEsp /\ ~request.md /\ path = "there" => esp \in DOMAIN holds)
      /\ (at' = "remount" => path = "there")
  BY <1>0, UefiAlone DEF ManageUefi
<1>2. /\ entry' = entry /\ how' = how
      /\ \/ at' = "leave" /\ pending' \in {"false", "raise"}
         \/ /\ at = "mount esp" /\ at' = (IF request.md THEN "unmount esp" ELSE "entries")
            /\ Loaders(holds[esp]) # <<>>
         \/ at = "unmount esp" /\ at' = "find raid"
         \/ at = "remount esp" /\ at' = "entries"
  BY DEF MountEsp, UnmountEsp, RemountEsp, Step
<1>3. esp # 0 /\ entry = 1 /\ (at # "mount esp" => Loaders(holds[esp]) # <<>>)
  BY <1>0 DEF BootInv, ChosenInv, Relocating
<1>4. at = "remount esp" /\ request.md => raid = [holds |-> holds[esp], wiped |-> TRUE]
  BY DEF BootInv, ChosenInv
<1>5. at' # "leave" => Loaders(holds[esp])' # <<>>
  BY <1>1, <1>2, <1>3 DEF Loaders
<1>6. (DOMAIN raid)' = {"holds", "wiped"}
  BY <1>1 DEF BootInv, ChosenInv
<1>7. ChosenInv'
  BY <1>1, <1>2, <1>3, <1>4, <1>5, <1>6 DEF ChosenInv, Relocating, RaidSteps, UefiSteps
<1>8. EntriesInv'
  <2> SUFFICES ASSUME at' = "entries"
               PROVE  EntriesInv'
    BY DEF EntriesInv
  <2>1. Loaders(holds[esp]) # <<>>
    BY <1>2, <1>3
  <2>2. Labels' = Labels /\ Loaders(holds[esp])' = Loaders(holds[esp])
    BY <1>1, MachineAlone DEF Loaders
  <2>3. entry' = 1
    BY <1>2, <1>3
  <2>4. Len(Labels) \in Nat /\ 0 % Len(Loaders(holds[esp])) = 0
    BY <2>1, LabelsDiffer
  <2>5. 1 \in 1 .. Len(Labels) + 1 /\ 1 .. 1 - 1 = {} /\ (1 - 1) % Len(Loaders(holds[esp])) = 0
    BY <2>4
  <2> QED BY <2>2, <2>3, <2>5 DEF EntriesInv
<1>9. HowInv'
  BY <1>0, <1>1, <1>2, Undecided DEF Settled
<1> QED BY <1>7, <1>8, <1>9

(* A label that is written again has one record afterwards, and the other  *)
(* labels keep theirs.                                                     *)
LEMMA WriteEntryBoot ==
  ASSUME BootInv, WriteEntry
  PROVE  ChosenInv' /\ EntriesInv' /\ HowInv'
<1>0. at = "entries" /\ entry <= Len(Labels)
  BY DEF WriteEntry
<1>1. /\ Settled /\ holds' = holds /\ esp' = esp /\ path' = path /\ raid' = raid
      /\ request' = request /\ HasEsp' = HasEsp
      /\ (HasEsp /\ ~request.md /\ path = "there" => esp \in DOMAIN holds)
  BY <1>0, UefiAlone DEF ManageUefi
<1>2. Labels' = Labels /\ Loaders(holds[esp])' = Loaders(holds[esp])
  BY <1>1, MachineAlone DEF Loaders
<1>3. /\ esp # 0 /\ Loaders(holds[esp]) # <<>> /\ DOMAIN raid = {"holds", "wiped"}
      /\ (request.md => raid = [holds |-> holds[esp], wiped |-> TRUE])
  BY <1>0 DEF BootInv, ChosenInv
<1>4. at' \in {"entries", "leave"} /\ how' = how /\ (at' = "leave" => pending' = "raise")
  BY DEF WriteEntry, Step
<1>5. ChosenInv'
  BY <1>1, <1>2, <1>3, <1>4 DEF ChosenInv, Relocating, RaidSteps, UefiSteps
<1>6. HowInv'
  BY <1>0, <1>1, <1>4, Undecided DEF Settled
<1>7. EntriesInv'
  <2> SUFFICES ASSUME at' = "entries"
               PROVE  EntriesInv'
    BY DEF EntriesInv
  <2> DEFINE read == IF (entry - 1) % Len(Loaders(holds[esp])) = 0 THEN nvram ELSE boot_records
             same == {r \in read : r.label = Labels[entry]}
             new == [num |-> FreeNumber, label |-> Labels[entry], here |-> TRUE]
  <2>1. boot_records' = read /\ nvram' = (nvram \ same) \cup {new} /\ entry' = entry + 1
    BY DEF WriteEntry, Step
  <2>2. Len(Labels) \in Nat /\ \A i, j \in 1 .. Len(Labels) : Labels[i] = Labels[j] => i = j
    BY <1>3, LabelsDiffer
  <2>3. /\ entry \in 1 .. Len(Labels) + 1 /\ \A i \in 1 .. entry - 1 : Once(i)
        /\ (entry - 1) % Len(Loaders(holds[esp])) # 0 =>
             \A r \in nvram : r \in boot_records \/ \E i \in 1 .. entry - 1 : r.label = Labels[i]
    BY <1>0 DEF BootInv, EntriesInv
  <2>4. entry \in 1 .. Len(Labels) /\ entry' \in 1 .. Len(Labels) + 1
    BY <1>0, <2>1, <2>2, <2>3
  <2>5. \A r \in nvram : r \in read \/ \E i \in 1 .. entry - 1 : r.label = Labels[i]
    BY <2>3
  <2>6. \A i \in 1 .. entry - 1 : i \in 1 .. Len(Labels) /\ Labels[i] # Labels[entry]
    BY <2>2, <2>4
  <2>7. new.label = Labels[entry] /\ new.here
    OBVIOUS
  <2> HIDE DEF new, read
  <2>8. \A r \in nvram \ same : r.label # Labels[entry]
    BY <2>5, <2>6
  <2>9. {r \in nvram' : r.label = Labels[entry]} = {new}
    BY <2>1, <2>7, <2>8
  <2>10. ASSUME NEW i \in 1 .. entry - 1
         PROVE  \E r \in nvram' : r.here /\ {t \in nvram' : t.label = Labels[i]} = {r}
    <3>1. PICK r \in nvram : r.here /\ {t \in nvram : t.label = Labels[i]} = {r}
      BY <2>3 DEF Once
    <3>2. Labels[i] # Labels[entry] /\ r.label = Labels[i]
      BY <2>6, <3>1
    <3>3. \A t : t.label = Labels[i] => (t \in nvram' <=> t \in nvram)
      BY <2>1, <2>7, <3>2
    <3>4. {t \in nvram' : t.label = Labels[i]} = {r} /\ r \in nvram'
      BY <3>1, <3>2, <3>3
    <3> QED BY <3>1, <3>4
  <2>11. \A i \in 1 .. entry' - 1 : i = entry \/ i \in 1 .. entry - 1
    BY <2>1, <2>4
  <2>12. \A i \in 1 .. entry' - 1 : Once(i)'
    <3>1. \E r \in nvram' : r.here /\ {t \in nvram' : t.label = Labels[entry]} = {r}
      BY <2>1, <2>7, <2>9
    <3> QED BY <1>2, <2>10, <2>11, <3>1 DEF Once
  <2>13. \A r \in nvram' : r \in boot_records' \/ \E i \in 1 .. entry' - 1 : r.label = Labels'[i]
    <3>1. 1 .. entry' - 1 = 1 .. entry
      BY <2>1, <2>4
    <3>2. entry \in 1 .. entry /\ \A i \in 1 .. entry - 1 : i \in 1 .. entry
      BY <2>4
    <3> QED BY <1>2, <2>1, <2>5, <2>7, <3>1, <3>2
  <2> QED BY <1>2, <2>4, <2>12, <2>13 DEF EntriesInv
<1> QED BY <1>5, <1>6, <1>7

LEMMA EntriesWrittenBoot ==
  ASSUME BootInv, EntriesWritten
  PROVE  ChosenInv' /\ EntriesInv' /\ HowInv'
<1>0. at = "entries" /\ entry > Len(Labels)
  BY DEF EntriesWritten
<1>1. /\ Settled /\ holds' = holds /\ esp' = esp /\ path' = path /\ raid' = raid
      /\ request' = request /\ HasEsp' = HasEsp
      /\ (HasEsp /\ ~request.md /\ path = "there" => esp \in DOMAIN holds)
  BY <1>0, UefiAlone DEF ManageUefi
<1>2. at' = "leave" /\ how' = how /\ nvram' = nvram
  BY DEF EntriesWritten, Step, machine
<1>3. /\ Loaders(holds[esp]) # <<>> /\ DOMAIN raid = {"holds", "wiped"}
      /\ (request.md => raid = [holds |-> holds[esp], wiped |-> TRUE])
  BY <1>0 DEF BootInv, ChosenInv
<1>4. ChosenInv' /\ EntriesInv'
  BY <1>1, <1>2, <1>3 DEF ChosenInv, EntriesInv, Relocating, RaidSteps
<1>5. RecordsBoot
  <2>1. entry \in 1 .. Len(Labels) + 1 /\ \A i \in 1 .. entry - 1 : Once(i)
    BY <1>0 DEF BootInv, EntriesInv
  <2>2. DOMAIN Labels = 1 .. Len(Labels) /\ Labels # <<>> /\ Len(Labels) \in Nat
    BY <1>3, LabelsDiffer
  <2>3. \A i \in DOMAIN Labels : Once(i)
    BY <1>0, <2>1, <2>2
  <2> QED BY <1>3, <2>2, <2>3 DEF RecordsBoot, Once
<1>6. RecordsBoot'
  BY <1>1, <1>2, <1>5, MachineAlone
<1>7. HowInv'
  BY <1>0, <1>1, <1>2, <1>6, Undecided DEF Settled
<1> QED BY <1>4, <1>7

LEMMA LeaveUefiBoot ==
  ASSUME BootInv, LeaveUefi
  PROVE  ChosenInv' /\ EntriesInv' /\ HowInv'
<1>0. at = "leave"
  BY DEF LeaveUefi
<1>1. /\ Settled /\ holds' = holds /\ esp' = esp /\ path' = path /\ raid' = raid
      /\ request' = request /\ HasEsp' = HasEsp
      /\ (HasEsp /\ ~request.md /\ path = "there" => esp \in DOMAIN holds)
      /\ (at' = "remount" => path = "there")
  BY <1>0, UefiAlone DEF ManageUefi
<1>2. /\ nvram' = nvram /\ at' \in {"clean", "remount", "choose", "idle"}
      /\ \/ how' = how \/ (how' = "records" /\ pending = "true" /\ at' \in {"clean", "idle"})
  BY DEF LeaveUefi, EfiEnds, Step, Return, machine
<1>3. ChosenInv' /\ EntriesInv'
  BY <1>1, <1>2 DEF BootInv, ChosenInv, EntriesInv, Relocating, RaidSteps, UefiSteps
<1>4. HowInv'
  <2>1. CASE how' = how
    BY <1>0, <1>1, <1>2, <2>1, Undecided DEF Settled
  <2>2. CASE how' = "records" /\ pending = "true" /\ at' \in {"clean", "idle"}
    <3>1. RecordsBoot
      BY <1>0, <2>2 DEF BootInv, HowInv
    <3>2. RecordsBoot'
      BY <1>1, <1>2, <3>1, MachineAlone
    <3> QED BY <1>1, <2>2, <3>2 DEF HowInv, Settled
  <2> QED BY <1>2, <2>1, <2>2
<1> QED BY <1>3, <1>4

LEMMA UefiBoot ==
  ASSUME BootInv, ManageUefi
  PROVE  LayoutInv' /\ ChosenInv' /\ EntriesInv' /\ HowInv'
<1>1. pc = "boot"
  <2>1. at # "idle"
    BY DEF ManageUefi, FindEsp, MountEsp, UnmountEsp, RemountEsp, WriteEntry, EntriesWritten,
           LeaveUefi
  <2> QED BY <2>1, NowInstalling DEF BootInv, MountsInv
<1>2. LayoutInv'
  BY <1>1, UefiSettled, SettledLayout DEF BootInv, MountsInv
<1> QED BY <1>2, FindEspBoot, MountEspBoot, WriteEntryBoot, EntriesWrittenBoot, LeaveUefiBoot
        DEF ManageUefi

-----------------------------------------------------------------------------
(* Records: the RAID of the ESP, and grub *)

LEMMA RaidBoot ==
  ASSUME BootInv, SoftRaid
  PROVE  LayoutInv' /\ ChosenInv' /\ EntriesInv' /\ HowInv'
<1>0. at \in RaidSteps /\ at # "idle" /\ path' = path /\ entry' = entry
  BY DEF SoftRaid, FindEspRaid, CreateEspRaid, Relocate, RaidSteps
<1>1. Settled /\ holds' = holds /\ esp' = esp /\ pc = "boot"
  BY <1>0, RaidSettled, NowInstalling DEF BootInv, MountsInv
<1>2. request' = request /\ HasEsp' = HasEsp /\ request.md
  BY <1>0, <1>1, SameEsp DEF Settled, BootInv, MountsInv, PathInv
<1>3. /\ how' = how
      /\ \/ at' \in RaidSteps
         \/ path = "there" /\ at' \in {"clean", "mount root"}
         \/ path # "there" /\ at' = "leave" /\ pending' = "raise"
         \/ path # "there" /\ at = "relocate" /\ at' = "remount esp"
  BY DEF SoftRaid, FindEspRaid, CreateEspRaid, Relocate, RaidSteps, PrepareFails, Prepared,
         InGrub, Step
<1>4. path = "none" => esp # 0 /\ entry = 1 /\ Loaders(holds[esp]) # <<>>
  BY <1>0 DEF BootInv, ChosenInv, Relocating
<1>5. path \in {"none", "there"}
  BY <1>0 DEF BootInv, MountsInv, PathInv, RaidSteps
<1>6. at' = "remount esp" => raid' = [holds |-> holds[esp], wiped |-> TRUE]
  <2> SUFFICES ASSUME at' = "remount esp"
               PROVE  raid' = [holds |-> holds[esp], wiped |-> TRUE]
    OBVIOUS
  <2>1. at = "relocate" /\ path = "none"
    BY <1>3, <1>5 DEF RaidSteps
  <2>2. Source = esp /\ esp # 0
    BY <1>4, <2>1 DEF Source
  <2>3. Relocate
    BY <2>1 DEF SoftRaid, FindEspRaid, CreateEspRaid
  <2> QED BY <2>2, <2>3 DEF Relocate, PrepareFails, Step
<1>7. (DOMAIN raid)' = {"holds", "wiped"}
  <2>1. DOMAIN raid = {"holds", "wiped"}
    BY DEF BootInv, ChosenInv
  <2>2. \/ raid' = raid \/ (\E x : raid' = [raid EXCEPT !.holds = x])
        \/ (\E x : raid' = [holds |-> x, wiped |-> TRUE])
    BY DEF SoftRaid, FindEspRaid, CreateEspRaid, Relocate, machine
  <2> QED BY <2>1, <2>2
<1>8. ChosenInv'
  <2>1. CASE path = "there"
    BY <1>0, <1>2, <1>3, <1>7, <2>1 DEF ChosenInv, Relocating, RaidSteps, UefiSteps
  <2>2. CASE path = "none"
    <3>1. Loaders(holds[esp])' # <<>>
      BY <1>1, <1>4, <2>2 DEF Loaders
    <3> QED BY <1>0, <1>1, <1>2, <1>3, <1>4, <1>6, <1>7, <2>2, <3>1
            DEF ChosenInv, Relocating, RaidSteps, UefiSteps
  <2> QED BY <1>5, <2>1, <2>2
<1>9. EntriesInv' /\ LayoutInv'
  BY <1>1, <1>3, SettledLayout DEF EntriesInv, RaidSteps
<1>10. HowInv'
  BY <1>0, <1>1, <1>3, Undecided DEF Settled, RaidSteps
<1> QED BY <1>8, <1>9, <1>10

LEMMA GrubChoiceBoot ==
  ASSUME BootInv, Choose \/ BeginGrub \/ FindGrubEsp
  PROVE  ChosenInv' /\ EntriesInv' /\ HowInv'
<1>0. /\ Settled /\ at \in {"choose", "grub", "esp"} /\ raid' = raid /\ holds' = holds
      /\ how' \in {how, "present", "unneeded"}
  BY GrubSettled DEF BootInv, MountsInv, Grub, Choose, BeginGrub, FindGrubEsp, Step, Return,
                     GrubFails, machine
<1>1. HasEsp' = HasEsp /\ request' = request
  BY <1>0, SameEsp DEF Settled
<1>2. \/ at' \in {"idle", "grub", "esp", "clean"}
      \/ at' = "find raid" /\ path' = "there"
      \/ at' = "mount root" /\ at = "esp" /\ ~(request.md /\ request.mode = "uefi")
  <2>1. at = "esp" => path = "there"
    BY DEF BootInv, MountsInv, PathInv, GrubSteps
  <2> QED BY <2>1 DEF Choose, BeginGrub, FindGrubEsp, Step, Return, GrubFails
<1>3. at' = "mount root" /\ HasEsp /\ ~request.md => esp' \in DOMAIN holds
  <2> SUFFICES ASSUME at' = "mount root", HasEsp, ~request.md
               PROVE  esp' \in DOMAIN holds
    OBVIOUS
  <2>1. EspGiven /\ FindGrubEsp
    BY DEF HasEsp, Choose, BeginGrub, Step, Return
  <2>2. esp' \in Found(Part("esp"), seen)
    BY <2>1 DEF FindGrubEsp, Step, GrubFails
  <2>3. esp' = Part("esp")
    BY <2>2, FoundIs DEF BootInv, MountsInv
  <2>4. Part("esp") \in DOMAIN Layout(request)
    BY <2>1, PartIs DEF EspGiven, BootInv, MountsInv, DiskInv
  <2>5. pc = "boot"
    BY <1>0, NowInstalling DEF BootInv, MountsInv
  <2>6. DOMAIN Layout(request) \subseteq DOMAIN holds
    BY <2>1, <2>5 DEF EspGiven, BootInv, LayoutInv, MountsInv, DiskInv, TableInv
  <2> QED BY <2>3, <2>4, <2>6
<1>4. ChosenInv'
  <2>1. (DOMAIN raid)' = {"holds", "wiped"}
    BY <1>0 DEF BootInv, ChosenInv
  <2> QED BY <1>0, <1>1, <1>2, <1>3, <2>1 DEF ChosenInv, Relocating, RaidSteps, UefiSteps
<1>5. EntriesInv' /\ HowInv'
  BY <1>0, <1>2, Undecided DEF EntriesInv, Settled
<1> QED BY <1>4, <1>5

LEMMA GrubChrootBoot ==
  ASSUME BootInv, MountRoot \/ Preserve \/ MountVfat
  PROVE  ChosenInv' /\ EntriesInv' /\ HowInv'
<1>0. /\ Settled /\ at \in {"mount root", "preserve", "remount", "vfat"} /\ raid' = raid
      /\ how' = how /\ esp' = esp /\ DOMAIN holds' = DOMAIN holds
  <2>1. Settled
    BY GrubSettled DEF BootInv, MountsInv, Grub
  <2>2. /\ at \in {"mount root", "preserve", "remount", "vfat"} /\ raid' = raid
        /\ how' = how /\ esp' = esp
    BY DEF MountRoot, Preserve, MountVfat, Step, GrubFails, efi, machine
  <2>3. holds' = holds \/ \E x : holds' = [holds EXCEPT ![esp] = x]
    BY DEF MountRoot, Preserve, MountVfat
  <2> QED BY <2>1, <2>2, <2>3
<1>1. HasEsp' = HasEsp /\ request' = request
  BY <1>0, SameEsp DEF Settled
<1>2. at' \in {"preserve", "vfat", "remount", "find esp", "install", "clean"}
  BY DEF MountRoot, Preserve, MountVfat, Step, GrubFails
<1>3. HasEsp /\ ~request.md => esp \in DOMAIN holds
  BY <1>0 DEF BootInv, ChosenInv
<1>4. ChosenInv'
  <2>1. (DOMAIN raid)' = {"holds", "wiped"}
    BY <1>0 DEF BootInv, ChosenInv
  <2> QED BY <1>0, <1>1, <1>2, <1>3, <2>1 DEF ChosenInv, Relocating, RaidSteps, UefiSteps
<1>5. EntriesInv' /\ HowInv'
  BY <1>0, <1>2, Undecided DEF EntriesInv, Settled
<1> QED BY <1>4, <1>5

(* grub-install has been run, for the ESP or on every disk, or it failed   *)
(* and that was ignored.                                                   *)
LEMMA GrubInstallBoot ==
  ASSUME BootInv, GrubOnEsp \/ GrubOnDisks
  PROVE  ChosenInv' /\ EntriesInv' /\ HowInv'
<1>0. /\ Settled /\ at = "install" /\ how' = how /\ esp' = esp
      /\ at' \in {"cycle", "configure", "clean"}
  BY GrubSettled DEF BootInv, MountsInv, Grub, GrubOnEsp, GrubOnDisks, Step, GrubFails, efi
<1>1. HasEsp' = HasEsp /\ request' = request /\ Holders' = Holders
  BY <1>0, SameEsp DEF Settled, Holders
<1>2. DOMAIN raid = {"holds", "wiped"}
  BY DEF BootInv, ChosenInv
<1>3. ChosenInv'
  <2>1. raid' = raid \/ raid' = [raid EXCEPT !.holds = "loaders"]
    BY DEF GrubOnEsp, GrubOnDisks
  <2> QED BY <1>0, <1>2, <2>1 DEF ChosenInv, Relocating, RaidSteps, UefiSteps
<1>4. at' \in {"cycle", "configure"} => Bootable'
  <2>1. CASE GrubOnEsp
    <3>1. HasEsp
      BY <2>1 DEF GrubOnEsp
    <3> SUFFICES ASSUME "grub ignored" \notin notes', at' = "cycle"
                 PROVE  GrubBoots'
      BY <1>1, <2>1, <3>1 DEF GrubOnEsp, Step, GrubFails, Bootable
    <3>2. IF request.md THEN raid' = [raid EXCEPT !.holds = "loaders"]
          ELSE holds' = [holds EXCEPT ![esp] = "loaders"]
      BY <2>1 DEF GrubOnEsp, Step, GrubFails
    <3>3. ~request.md => esp \in DOMAIN holds
      BY <1>0, <3>1 DEF BootInv, ChosenInv
    <3>4. IF request.md THEN raid'.holds = "loaders" ELSE holds'[esp] = "loaders"
      BY <1>2, <3>2, <3>3
    <3> QED BY <1>0, <1>1, <3>1, <3>4 DEF GrubBoots, Loaders
  <2>2. CASE GrubOnDisks
    <3> SUFFICES ASSUME at' = "configure"
                 PROVE  GrubBoots'
      BY <2>2 DEF GrubOnDisks, Step, GrubFails, Bootable
    <3>1. ~HasEsp /\ grub' = Holders
      BY <2>2 DEF GrubOnDisks, Step, GrubFails
    <3> QED BY <1>1, <3>1 DEF GrubBoots
  <2> QED BY <2>1, <2>2
<1>5. EntriesInv' /\ HowInv'
  BY <1>0, <1>4, Undecided DEF EntriesInv, Settled
<1> QED BY <1>3, <1>5

LEMMA GrubEndBoot ==
  ASSUME BootInv, CycleEsp \/ Configure \/ CleanEsp \/ CleanRoot
  PROVE  ChosenInv' /\ EntriesInv' /\ HowInv'
<1>0. /\ Settled /\ holds' = holds /\ esp' = esp /\ raid' = raid /\ nvram' = nvram /\ grub' = grub
      /\ at \in {"cycle", "configure", "clean", "unbind"}
      /\ at' \in {"configure", "clean", "unbind", "idle"}
  BY GrubSettled DEF BootInv, MountsInv, Grub, CycleEsp, Configure, CleanEsp, CleanRoot, Step,
                     Return, GrubFails, efi, machine
<1>1. ChosenInv' /\ EntriesInv'
  BY <1>0 DEF BootInv, ChosenInv, EntriesInv, Relocating, RaidSteps, UefiSteps
<1>2. (RecordsBoot => RecordsBoot') /\ (Bootable => Bootable')
  <2>1. notes \subseteq notes'
    BY <1>0 DEF Settled
  <2>2. (RecordsBoot => RecordsBoot') /\ (GrubBoots => GrubBoots')
    BY <1>0, MachineAlone
  <2>3. Bootable => Bootable'
    BY <1>0, <2>1, <2>2, SameEsp DEF Bootable, Settled
  <2> QED BY <2>2, <2>3
<1> SUFFICES HowInv'
  BY <1>1
<1>3. CASE CycleEsp
  <2>1. at = "cycle" /\ how' = how
    BY <1>3 DEF CycleEsp, Step, GrubFails
  <2>2. Bootable
    BY <2>1 DEF BootInv, HowInv
  <2> QED BY <1>0, <1>2, <2>1, <2>2, Undecided DEF Settled
<1>4. CASE Configure
  <2>1. /\ at = "configure" /\ at' = "clean"
        /\ how' = "grub" \/ how' = how
    BY <1>4 DEF Configure, Step, GrubFails
  <2>2. Bootable /\ how \notin {"records", "grub"}
    BY <2>1 DEF BootInv, HowInv
  <2> QED BY <1>0, <1>2, <2>1, <2>2 DEF HowInv, Settled
<1>5. CASE CleanEsp \/ CleanRoot
  <2>1. how' = how /\ error' = error /\ at' \in {"unbind", "idle"}
    BY <1>5 DEF CleanEsp, CleanRoot, Step, Return
  <2> QED BY <1>0, <1>2, <2>1 DEF BootInv, HowInv, Settled
<1> QED BY <1>3, <1>4, <1>5

LEMMA GrubBoot ==
  ASSUME BootInv, Grub \/ Choose
  PROVE  LayoutInv' /\ ChosenInv' /\ EntriesInv' /\ HowInv'
<1>1. pc = "boot"
  <2>1. at # "idle"
    BY DEF Grub, BeginGrub, FindGrubEsp, MountRoot, Preserve, MountVfat, GrubOnEsp,
           CycleEsp, GrubOnDisks, Configure, CleanEsp, CleanRoot, Choose
  <2> QED BY <2>1, NowInstalling DEF BootInv, MountsInv
<1>2. LayoutInv'
  BY <1>1, GrubSettled, SettledLayout DEF BootInv, MountsInv
<1> QED BY <1>2, GrubChoiceBoot, GrubChrootBoot, GrubInstallBoot, GrubEndBoot DEF Grub

LEMMA BootSteps ==
  ASSUME BootInv, [Next]_vars
  PROVE  BootInv'
<1>0. MountsInv'
  BY MountsSteps DEF BootInv
<1>1. CASE PartitionNext /\ UNCHANGED bootVars
  BY <1>0, <1>1, PartitioningBoot DEF BootInv
<1>2. CASE InstallBootloader
  BY <1>0, <1>2, InstallBoot DEF BootInv
<1>3. CASE Choose \/ Grub
  BY <1>0, <1>3, GrubBoot DEF BootInv
<1>4. CASE ManageUefi
  BY <1>0, <1>4, UefiBoot DEF BootInv
<1>5. CASE SoftRaid
  BY <1>0, <1>5, RaidBoot DEF BootInv
<1>6. CASE UNCHANGED vars
  <2>1. /\ UNCHANGED <<kind, request, use, holds, seen, pc, next, target, before, notes,
                       outcome, calls, file>>
        /\ UNCHANGED <<at, pending, esp, nvram, boot_records, entry, raid, grub, error, path, how>>
    BY <1>6 DEF vars, partitionVars, whole, disk, locals, bootVars, efi, machine
  <2>2. LayoutInv'
    BY <2>1 DEF BootInv, LayoutInv
  <2>3. Part("esp")' = Part("esp") /\ Labels' = Labels /\ Holders' = Holders
    BY <2>1 DEF Part, Labels, Loaders, Holders
  <2>4. HasEsp' = HasEsp
    BY <2>1, <2>3 DEF HasEsp, EspGiven
  <2>5. RecordsBoot' = RecordsBoot /\ GrubBoots' = GrubBoots
    BY <2>1, <2>3, <2>4 DEF RecordsBoot, GrubBoots, Loaders
  <2>6. ChosenInv'
    BY <2>1, <2>4 DEF BootInv, ChosenInv, Relocating, Loaders
  <2>7. EntriesInv'
    BY <2>1, <2>3 DEF BootInv, EntriesInv, Once, Loaders
  <2>8. HowInv'
    BY <2>1, <2>4, <2>5 DEF BootInv, HowInv, Bootable
  <2> QED BY <1>0, <2>2, <2>6, <2>7, <2>8 DEF BootInv
<1> QED BY <1>1, <1>2, <1>3, <1>4, <1>5, <1>6 DEF Next

(* What may be a success with neither records nor grub.  manage_uefi       *)
(* returns false only when it found no loaders, and an exception is not    *)
(* forgotten between the step that raises it and the end of the call.      *)
Excused ==
  \/ how \in {"records", "grub"}
  \/ how = "present" /\ env.sector /\ env.current = "bios" /\ ~request.md
  \/ how = "unneeded" /\ ((kind = "drive" /\ NothingFound) \/ env.ignore)

SkipInv ==
  /\ pc # "boot" => result = "none"
  /\ result = "ok" => at = "idle" /\ Excused
  /\ error => how = "unneeded" /\ at \in {"clean", "unbind", "idle"}
  /\ at \notin {"clean", "unbind", "idle"} => how = "unneeded"
  /\ at \in {"clean", "unbind"} => error \/ how \in {"records", "grub"}
  /\ at = "leave" => pending \in {"true", "raise"} \/ Loaders(holds[esp]) = <<>>
  /\ at = "choose" => env.ignore \/ NothingFound

LEMMA SkipStarts == Init => SkipInv
BY DEF Init, PartitionInit, SkipInv

(* A step on the way: an exception leads to the clean-up.                  *)
LEMMA SkipOnTheWay ==
  ASSUME SkipInv, pc' = "boot", result' = result, how' = how,
         at \notin {"clean", "unbind", "idle"}, at' \notin {"unbind", "idle", "choose"},
         at' = "leave" => pending' \in {"true", "raise"} \/ Loaders(holds[esp])' = <<>>,
         (at' = "clean" /\ error') \/ (at' # "clean" /\ ~error')
  PROVE  SkipInv'
BY DEF SkipInv

LEMMA SkipUefi ==
  ASSUME BootInv, SkipInv, ManageUefi
  PROVE  SkipInv'
<1>0. Settled /\ holds' = holds /\ pc' = "boot" /\ error' = error
  <2>1. Settled /\ holds' = holds
    BY UefiSettled DEF BootInv, MountsInv
  <2>2. error' = error
    BY DEF ManageUefi, FindEsp, MountEsp, UnmountEsp, RemountEsp, WriteEntry, EntriesWritten,
           LeaveUefi
  <2> QED BY <2>1, <2>2 DEF Settled
<1>1. at \in UefiSteps /\ ~error /\ result # "ok" /\ how = "unneeded"
  BY DEF ManageUefi, FindEsp, MountEsp, UnmountEsp, RemountEsp, WriteEntry, EntriesWritten,
         LeaveUefi, UefiSteps, SkipInv
<1>2. CASE MountEsp
  <2>1. /\ result' = result /\ how' = how /\ esp' = esp
        /\ at' \in {"leave", "unmount esp", "entries"}
        /\ at' = "leave" => pending' = "raise" \/ Loaders(holds[esp]) = <<>>
    BY <1>2 DEF MountEsp, Step
  <2>2. at = "mount esp"
    BY <1>2 DEF MountEsp
  <2>3. at' = "leave" => pending' \in {"true", "raise"} \/ Loaders(holds[esp])' = <<>>
    BY <1>0, <2>1 DEF Loaders
  <2> QED BY <1>0, <1>1, <2>1, <2>2, <2>3, SkipOnTheWay
<1>3. CASE UnmountEsp \/ RemountEsp \/ WriteEntry \/ EntriesWritten
  <2>1. /\ result' = result /\ how' = how
        /\ at' \in {"leave", "find raid", "entries"}
        /\ at' = "leave" => pending' \in {"true", "raise"}
    BY <1>3 DEF UnmountEsp, RemountEsp, WriteEntry, EntriesWritten, Step
  <2>2. at \in {"unmount esp", "remount esp", "entries"}
    BY <1>3 DEF UnmountEsp, RemountEsp, WriteEntry, EntriesWritten
  <2> QED BY <1>0, <1>1, <2>1, <2>2, SkipOnTheWay
<1>4. ASSUME NEW r, EfiEnds(r), esp' = esp, env' = env,
             r \in {"true", "raise"} \/ Loaders(holds[esp]) = <<>>
      PROVE  SkipInv'
  <2>1. CASE caller = "preserve"
    <3>1. /\ result' = result
          /\ \/ at' = "clean" /\ how' = "records"
             \/ at' = "remount" /\ how' = how
      BY <1>4, <2>1 DEF EfiEnds, Step
    <3> QED BY <1>0, <1>1, <3>1 DEF SkipInv
  <2>2. CASE caller # "preserve" /\ at' = "choose"
    <3>1. result' = result /\ how' = how /\ (env.ignore \/ r \notin {"true", "raise"})
      BY <1>4, <2>2 DEF EfiEnds, Step, Return
    <3>2. env'.ignore \/ NothingFound'
      BY <1>0, <1>4, <3>1 DEF NothingFound, Loaders
    <3> QED BY <1>0, <1>1, <2>2, <3>1, <3>2 DEF SkipInv
  <2>3. CASE caller # "preserve" /\ at' # "choose"
    <3>1. /\ at' = "idle"
          /\ \/ result' = "ok" /\ how' = "records"
             \/ result' = "failed" /\ how' = how
      <4>1. CASE r = "true"
        BY <1>4, <2>3, <4>1 DEF EfiEnds, Return
      <4>2. CASE r # "true"
        <5>1. Return(TRUE, how) /\ ~env.ignore
          BY <1>4, <2>3, <4>2 DEF EfiEnds, Step
        <5> QED BY <5>1 DEF Return
      <4> QED BY <4>1, <4>2
    <3> QED BY <1>0, <1>1, <3>1 DEF SkipInv, Excused
  <2> QED BY <2>1, <2>2, <2>3
<1>5. CASE FindEsp
  <2>1. CASE at' = "mount esp" /\ result' = result /\ how' = how
    BY <1>0, <1>1, <2>1 DEF SkipInv
  <2>2. CASE EfiEnds("raise") /\ esp' = esp
    <3>1. env' = env
      BY <2>2 DEF EfiEnds, Step, Return
    <3> QED BY <1>4, <2>2, <3>1
  <2> QED BY <1>5, <2>1, <2>2 DEF FindEsp, Step
<1>6. CASE LeaveUefi
  <2>1. EfiEnds(pending) /\ esp' = esp /\ at = "leave"
    BY <1>6 DEF LeaveUefi, efi
  <2>2. env' = env
    BY <2>1 DEF EfiEnds, Step, Return
  <2>3. pending \in {"true", "raise"} \/ Loaders(holds[esp]) = <<>>
    BY <2>1 DEF SkipInv
  <2> QED BY <1>4, <2>1, <2>2, <2>3
<1> QED BY <1>2, <1>3, <1>5, <1>6 DEF ManageUefi

LEMMA SkipRaid ==
  ASSUME BootInv, SkipInv, SoftRaid
  PROVE  SkipInv'
<1>1. /\ result' = result /\ how' = how /\ pc' = "boot"
      /\ at \in RaidSteps
      /\ \/ at' \in RaidSteps \cup {"mount root", "remount esp"} /\ error' = error
         \/ at' = "clean" /\ error'
         \/ at' = "leave" /\ pending' = "raise" /\ error' = error
  <2>1. pc' = "boot"
    BY RaidSettled DEF BootInv, MountsInv, Settled
  <2> QED BY <2>1 DEF SoftRaid, FindEspRaid, CreateEspRaid, Relocate, PrepareFails, Prepared, Step,
                      RaidSteps
<1>2. ~error
  BY <1>1 DEF SkipInv, RaidSteps
<1>3. (at' = "clean" /\ error') \/ (at' # "clean" /\ ~error')
  BY <1>1, <1>2 DEF RaidSteps
<1> QED BY <1>1, <1>3, SkipOnTheWay DEF RaidSteps

LEMMA SkipGrub ==
  ASSUME BootInv, SkipInv, Grub \/ Choose
  PROVE  SkipInv'
<1>0. Settled /\ pc' = "boot" /\ env' = env
  <2>1. Settled
    BY GrubSettled DEF BootInv, MountsInv
  <2>2. env' = env
    BY DEF Grub, BeginGrub, FindGrubEsp, MountRoot, Preserve, MountVfat, GrubOnEsp, CycleEsp,
           GrubOnDisks, Configure, CleanEsp, CleanRoot, Choose, Step, Return, GrubFails
  <2> QED BY <2>1, <2>2 DEF Settled
<1>1. CASE Choose
  <2>1. at = "choose" /\ error' = error /\ esp' = esp /\ holds' = holds
    BY <1>1 DEF Choose, efi
  <2>2. ~error /\ result # "ok" /\ how = "unneeded" /\ (env.ignore \/ NothingFound)
    BY <2>1 DEF SkipInv
  <2>3. NothingFound => NothingFound'
    BY <1>0, <2>1 DEF NothingFound, Loaders
  <2>4. CASE kind = "drive" /\ Return(FALSE, "unneeded")
    <3>1. at' = "idle" /\ how' = "unneeded" /\ kind' = kind
      BY <1>0, <2>4 DEF Return, Settled
    <3> QED BY <1>0, <2>1, <2>2, <2>3, <2>4, <3>1 DEF SkipInv, Excused
  <2>5. CASE Step("grub")
    BY <1>0, <2>1, <2>2, <2>5 DEF SkipInv, Step
  <2>6. CASE Return(TRUE, "unneeded")
    <3>1. at' = "idle" /\ how' = "unneeded" /\ (result' = "ok" => env.ignore)
      BY <2>6 DEF Return
    <3> QED BY <1>0, <2>1, <2>2, <3>1 DEF SkipInv, Excused
  <2> QED BY <1>1, <2>4, <2>5, <2>6 DEF Choose
<1>2. CASE BeginGrub
  <2>1. at = "grub" /\ error' = error
    BY <1>2 DEF BeginGrub
  <2>2. ~error /\ result # "ok" /\ how = "unneeded"
    BY <2>1 DEF SkipInv
  <2>3. CASE Step("esp")
    BY <1>0, <2>1, <2>2, <2>3 DEF SkipInv, Step
  <2>4. CASE Return(FALSE, "present") /\ ~request.md /\ env.sector /\ env.current = "bios"
    <3>1. at' = "idle" /\ how' = "present" /\ request' = request
      BY <1>0, <2>4 DEF Return, Settled
    <3> QED BY <1>0, <2>1, <2>2, <2>4, <3>1 DEF SkipInv, Excused
  <2>5. CASE Return(TRUE, "unneeded")
    <3>1. at' = "idle" /\ how' = "unneeded" /\ (result' = "ok" => env.ignore)
      BY <2>5 DEF Return
    <3> QED BY <1>0, <2>1, <2>2, <3>1 DEF SkipInv, Excused
  <2> QED BY <1>2, <2>3, <2>4, <2>5 DEF BeginGrub
<1>3. CASE FindGrubEsp \/ MountRoot \/ Preserve \/ MountVfat
  <2>1. /\ result' = result /\ how' = how
        /\ \/ at' \in {"find raid", "mount root", "preserve", "vfat", "remount", "find esp", "install"}
              /\ error' = error
           \/ at' = "clean" /\ error'
    BY <1>3 DEF FindGrubEsp, MountRoot, Preserve, MountVfat, Step, GrubFails
  <2>2. at \in {"esp", "mount root", "preserve", "remount", "vfat"}
    BY <1>3 DEF FindGrubEsp, MountRoot, Preserve, MountVfat
  <2>3. ~error
    BY <2>2 DEF SkipInv
  <2>4. (at' = "clean" /\ error') \/ (at' # "clean" /\ ~error')
    BY <2>1, <2>3
  <2> QED BY <1>0, <2>1, <2>2, <2>4, SkipOnTheWay
<1>4. CASE GrubOnEsp \/ CycleEsp \/ GrubOnDisks
  <2>1. /\ result' = result /\ how' = how
        /\ \/ at' \in {"cycle", "configure"} /\ error' = error
           \/ at' = "clean" /\ error'
    BY <1>4 DEF GrubOnEsp, CycleEsp, GrubOnDisks, Step, GrubFails
  <2>2. at \in {"install", "cycle"}
    BY <1>4 DEF GrubOnEsp, CycleEsp, GrubOnDisks
  <2>3. ~error
    BY <2>2 DEF SkipInv
  <2>4. (at' = "clean" /\ error') \/ (at' # "clean" /\ ~error')
    BY <2>1, <2>3
  <2> QED BY <1>0, <2>1, <2>2, <2>4, SkipOnTheWay
<1>5. CASE Configure
  <2>1. /\ at = "configure" /\ at' = "clean" /\ result' = result
        /\ \/ how' = "grub" /\ error' = error
           \/ how' = how /\ error'
    BY <1>5 DEF Configure, Step, GrubFails
  <2>2. ~error /\ result # "ok" /\ how = "unneeded"
    BY <2>1 DEF SkipInv
  <2> QED BY <1>0, <2>1, <2>2 DEF SkipInv
<1>6. CASE CleanEsp \/ CleanRoot
  <2>1. /\ at \in {"clean", "unbind"} /\ how' = how /\ error' = error
        /\ \/ at' = "unbind" /\ result' = result
           \/ at' = "idle" /\ (result' = "ok" => ~error \/ env.ignore)
    BY <1>6 DEF CleanEsp, CleanRoot, Step, Return
  <2>2. result # "ok" /\ (error => how = "unneeded") /\ (error \/ how \in {"records", "grub"})
    BY <2>1 DEF SkipInv
  <2> QED BY <1>0, <2>1, <2>2 DEF SkipInv, Excused
<1> QED BY <1>1, <1>2, <1>3, <1>4, <1>5, <1>6 DEF Grub

LEMMA SkipSteps ==
  ASSUME BootInv, SkipInv, [Next]_vars
  PROVE  SkipInv'
<1>1. CASE PartitionNext /\ UNCHANGED bootVars
  <2>1. pc # "boot" /\ at' = "idle" /\ error' = error /\ how' = how /\ result' = result /\ at = "idle"
    BY <1>1, StillPartitioning DEF BootInv, MountsInv, DiskInv, EspInv, bootVars
  <2>2. result' = "none"
    BY <2>1 DEF SkipInv
  <2> QED BY <2>1, <2>2 DEF SkipInv
<1>2. CASE InstallBootloader
  <2>1. /\ pc' = "boot" /\ at' \in {"find esp", "choose"} /\ result' = "none"
        /\ how' = "unneeded" /\ ~error' /\ esp' = 0
    BY <1>2 DEF InstallBootloader
  <2> QED BY <2>1 DEF SkipInv, NothingFound
<1>3. CASE UNCHANGED vars
  <2>1. /\ UNCHANGED <<kind, request, holds, pc, env, at, pending, esp, error, result, how>>
    BY <1>3 DEF vars, partitionVars, whole, disk, locals, bootVars, efi, machine
  <2>2. Excused' = Excused /\ NothingFound' = NothingFound
        /\ Loaders(holds[esp])' = Loaders(holds[esp])
    BY <2>1 DEF Excused, NothingFound, Loaders
  <2> QED BY <2>1, <2>2 DEF SkipInv
<1> QED BY <1>1, <1>2, <1>3, SkipUefi, SkipRaid, SkipGrub DEF Next

LEMMA BootHolds == Spec => []BootInv /\ []SkipInv
BY BootStarts, BootSteps, SkipStarts, SkipSteps, PTL DEF Spec

(* When install_bootloader succeeds, whatever an earlier call left half    *)
(* done, the machine has a record of this deployment for every loader,     *)
(* with the loaders where it points to, or grub on the ESP or on every     *)
(* disk, or its own BIOS boot loader; or it is a whole-disk image that is  *)
(* assumed to boot, or grub for UEFI or the whole call was to be allowed   *)
(* to fail (install_bootloader, manage_uefi, _install_grub2).              *)
THEOREM Boots == Spec => []SuccessBoots
<1>1. BootInv /\ SkipInv => SuccessBoots
  <2> SUFFICES ASSUME BootInv, SkipInv, result = "ok"
               PROVE  SuccessBoots
    BY DEF SuccessBoots
  <2>1. /\ Excused /\ (error => how = "unneeded")
        /\ how = "records" => RecordsBoot
        /\ how = "grub" /\ ~error => Bootable
    BY DEF BootInv, HowInv, SkipInv
  <2>2. how = "grub" => Bootable
    BY <2>1
  <2> QED BY <2>1, <2>2 DEF Bootable, Excused, SuccessBoots
<1> QED BY <1>1, BootHolds, PTL

=============================================================================
