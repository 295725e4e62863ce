--------------------------- MODULE DiskPartitioning ---------------------------
(***************************************************************************)
(* Partitions of the disk an instance is deployed to: work_on_disk, which  *)
(* makes and fills them for a partition image, and                         *)
(* create_config_drive_partition, which adds one to a whole-disk image     *)
(* (partition_utils.py, disk_utils.py, disk_partitioner.py).  Every tool   *)
(* these call may fail, the kernel may miss a change of the table, and the *)
(* conductor may ask again.                                                *)
(***************************************************************************)
EXTENDS Naturals, Sequences, FiniteSets

CONSTANTS PartitionRequests, \* calls of work_on_disk: RequestType
          DriveRequests,     \* calls of create_config_drive_partition
          MaxCalls           \* bound: calls for one deployment

\* What is on a partition: bytes of before, a half-written filesystem, an empty
\* one, the tenant's ephemeral data, the image, boot loaders or the CSV file
\* that points to one, a config drive, the one of an earlier deployment.
Contents == {"stale", "broken", "vfat", "swap", "fresh", "tenant", "image", "loaders",
             "csv", "config", "old config"}

Uses == {"esp", "bios", "prep", "ephemeral", "swap", "config", "root", "data"}

\* For work_on_disk "disk" is what an earlier deployment of the instance left,
\* for the other operation the image just written: uses and contents in the
\* order of the partitions' numbers.
RequestType ==
  [mode : {"bios", "uefi"}, label : {"gpt", "msdos"}, ppc : BOOLEAN, md : BOOLEAN,
   ephemeral : BOOLEAN, swap : BOOLEAN, drive : BOOLEAN, preserve : BOOLEAN,
   rebuild : BOOLEAN, disk : Seq(Uses \X Contents)]

\* An ephemeral partition of before holds the tenant's data, and an image does not
\* come with the config drive of this deployment.
ASSUME PartitioningAssumption ==
  /\ PartitionRequests \cup DriveRequests \subseteq RequestType
  /\ \A r \in PartitionRequests :
       /\ ~r.rebuild /\ (r.mode = "uefi" => r.label = "gpt")
       /\ \A n \in DOMAIN r.disk : r.disk[n][1] = "ephemeral" => r.disk[n][2] = "tenant"
  /\ \A r \in DriveRequests :
       /\ r.drive /\ Len(r.disk) \in 1 .. 8
       /\ \A n \in DOMAIN r.disk : r.disk[n][2] \notin {"config", "broken"}
  /\ MaxCalls \in Nat \ {0}

VARIABLES
  kind,     \* the operation, "image" or "drive"
  request,
  use,      \* the partition table: number -> use
  holds,    \* number -> what is on that partition
  seen,     \* the partitions the kernel knows
  pc,
  next,     \* work_on_disk: the next of its writes
  target,   \* config_drive_part, 0 for None
  before,   \* cur_parts
  file,     \* the temporary file of the config drive: "none", "there", "leaked"
  mounts,   \* mount points in use
  notes,    \* history of what went wrong: see the properties
  outcome,  \* of the call: "none", "done" or "failed"
  calls

disk == <<use, holds, seen>>
locals == <<next, target, before>>
whole == <<kind, request, calls>>
partitionVars == <<whole, disk, locals, pc, file, mounts, notes, outcome>>

-----------------------------------------------------------------------------
(* The layout *)

Optional(wanted, u) == IF wanted THEN <<u>> ELSE <<>>

\* The partitions in the order of their numbers; root is the last one.
Layout(r) ==
  Optional(r.mode = "uefi", "esp")
    \o Optional(r.mode = "bios" /\ r.label = "gpt" /\ ~r.ppc, "bios")
    \o Optional(r.mode = "bios" /\ r.ppc, "prep")
    \o Optional(r.ephemeral, "ephemeral")
    \o Optional(r.swap, "swap")
    \o Optional(r.drive, "config") \o <<"root">>

\* part_dict: where a use is expected on the disk, 0 if it is not wanted.
Part(u) == IF \E n \in DOMAIN Layout(request) : Layout(request)[n] = u
           THEN CHOOSE n \in DOMAIN Layout(request) : Layout(request)[n] = u ELSE 0

\* The writes of work_on_disk, in their order.
Writes(r) ==
  Optional(r.mode = "uefi", <<"esp", "vfat">>)
    \o Optional(r.drive, <<"config", "config">>)
    \o <<<<"root", "image">>>>
    \o Optional(r.swap, <<"swap", "swap">>)
    \o Optional(r.ephemeral /\ ~r.preserve, <<"ephemeral", "fresh">>)

\* An msdos table has room for four primary partitions.
Room == IF request.label = "msdos" THEN 4 ELSE 8

Uses0(r) == [n \in DOMAIN r.disk |-> r.disk[n][1]]
Holds0(r) == [n \in DOMAIN r.disk |-> r.disk[n][2]]

PartitionInit ==
  /\ kind \in {"image", "drive"}
  /\ request \in IF kind = "image" THEN PartitionRequests ELSE DriveRequests
  /\ use = Uses0(request) /\ holds = Holds0(request) /\ seen = DOMAIN use
  /\ pc = "idle" /\ next = 1 /\ target = 0 /\ before = {}
  /\ file = "none" /\ mounts = {} /\ notes = {}
  /\ outcome = "none" /\ calls = 0

-----------------------------------------------------------------------------
(* Calls and their ends *)

\* The conductor calls, again after a failure.
Call ==
  /\ pc = "idle" /\ outcome # "done" /\ calls < MaxCalls
  /\ calls' = calls + 1 /\ outcome' = "none"
  /\ next' = 1 /\ target' = 0 /\ before' = {}
  /\ pc' = IF kind = "drive" THEN "find" ELSE IF request.preserve THEN "fetch" ELSE "destroy"
  /\ UNCHANGED <<kind, request, disk, file, mounts, notes>>

\* Every way out removes the temporary file, unless its name is not known yet.
Removed == IF file = "there" THEN "none" ELSE file

Fail ==
  /\ pc' = "idle" /\ outcome' = "failed" /\ file' = Removed
  /\ UNCHANGED <<whole, locals>>

Goto(step) == pc' = step /\ UNCHANGED <<whole, outcome>>

\* A rescan that fails is logged; the kernel then still has the old table.  The
\* sync before it is not guarded.
Rescan == seen' \in {seen, DOMAIN use'}

-----------------------------------------------------------------------------
(* Both operations *)

\* get_configdrive: a download or decoding that fails leaves no file, except for
\* errors of the decompression that are no EnvironmentError.  A config drive of
\* more than 64 MiB is refused by create_config_drive_partition.
Fetch ==
  /\ pc = "fetch"
  /\ \/ /\ Goto(IF kind = "image" THEN "partition" ELSE "fix")
        /\ file' = IF request.drive THEN "there" ELSE file
        /\ UNCHANGED locals
     \/ /\ request.drive
        /\ pc' = "idle" /\ outcome' = "failed"
        /\ file' \in {file, "leaked"}
        /\ UNCHANGED <<whole, locals>>
  /\ UNCHANGED <<disk, mounts, notes>>

-----------------------------------------------------------------------------
(* work_on_disk *)

\* destroy_disk_metadata: wipefs, dd over both copies of the GPT, sgdisk -Z, and
\* the wait for other users of the disk; it may fail before or after the table
\* is gone.
Destroy ==
  /\ pc = "destroy"
  /\ use' = <<>> /\ holds' = <<>>
  /\ \/ Goto("fetch") /\ UNCHANGED <<locals, file>>
     \/ Fail
  /\ Rescan
  /\ UNCHANGED <<mounts, notes>>

DestroyFails ==
  /\ pc = "destroy"
  /\ Fail
  /\ UNCHANGED <<disk, mounts, notes>>

\* make_partitions writes the table unless the ephemeral partition is to be
\* kept.  parted may fail after any of its commands, and does when an msdos
\* table is full.
MakePartitions ==
  /\ pc = "partition"
  /\ \/ /\ request.preserve
        /\ Goto("check") /\ UNCHANGED <<disk, locals, file>>
     \/ /\ ~request.preserve
        /\ \E n \in 0 .. Len(Layout(request)) :
             /\ n <= Room
             /\ use' = SubSeq(Layout(request), 1, n)
             /\ holds' = [i \in DOMAIN use' |-> "stale"]
             /\ \/ /\ n = Len(Layout(request))
                   /\ Goto("check") /\ UNCHANGED <<locals, file>>
                \/ Fail
        /\ Rescan
  /\ UNCHANGED <<mounts, notes>>

\* is_block_device for root and the others wanted.
CheckDevices ==
  /\ pc = "check"
  /\ \/ DOMAIN Layout(request) \subseteq seen /\ Goto("write") /\ UNCHANGED <<locals, file>>
     \/ ~(DOMAIN Layout(request) \subseteq seen) /\ Fail
  /\ UNCHANGED <<disk, mounts, notes>>

\* mkfs, dd or qemu-img; the config drive's file is removed before the image is
\* written.
Write ==
  /\ pc = "write" /\ next <= Len(Writes(request))
  /\ LET w == Writes(request)[next] IN
       \/ /\ holds' = [holds EXCEPT ![Part(w[1])] = w[2]]
          /\ Goto("write") /\ next' = next + 1
          /\ file' = IF w[1] = "root" THEN Removed ELSE file
          /\ UNCHANGED <<target, before>>
       \/ /\ holds' \in {holds, [holds EXCEPT ![Part(w[1])] = "broken"]}
          /\ Fail
  /\ UNCHANGED <<use, seen, mounts, notes>>

\* The last rescan, and the UUIDs for the conductor.
Finish ==
  /\ pc = "write" /\ next > Len(Writes(request))
  /\ \/ /\ pc' = "idle" /\ outcome' = "done"
        /\ target' = Part("config")
        /\ UNCHANGED <<whole, next, before, file>>
     \/ Fail
  /\ UNCHANGED <<disk, mounts, notes>>

-----------------------------------------------------------------------------
(* create_config_drive_partition *)

\* The partitions that may have the label of a config drive.  One that an earlier
\* call wrote in part may have got as far as that.
Labelled(n) == n \in seen \cap DOMAIN use /\ holds[n] \in {"config", "old config", "broken"}
Labellings == {L \in SUBSET {n \in DOMAIN use : Labelled(n)} :
                 \A n \in DOMAIN use : Labelled(n) /\ holds[n] # "broken" => n \in L}

\* get_labelled_partition: two of them are an error.
FindLabelled ==
  /\ pc = "find"
  /\ \/ \E found \in Labellings :
          /\ Cardinality(found) <= 1
          /\ Goto("fetch")
          /\ target' = IF found = {} THEN 0 ELSE CHOOSE n \in found : TRUE
          /\ UNCHANGED <<next, before, file>>
     \/ Fail
  /\ UNCHANGED <<disk, mounts, notes>>

\* fix_gpt_partition, and the type of the table.
FixGpt ==
  /\ pc = "fix"
  /\ \/ /\ Goto(IF target # 0 THEN "fill" ELSE "create")
        /\ UNCHANGED <<locals, file>>
     \/ Fail
  /\ UNCHANGED <<disk, mounts, notes>>

\* The tools take the lowest free number.
Free == CHOOSE n \in 1 .. 9 : n \notin DOMAIN use /\ \A m \in 1 .. n - 1 : m \in DOMAIN use

\* The end of the disk is free unless an earlier call made a partition there.
EndIsFree == \A n \in DOMAIN use : n \in DOMAIN request.disk

\* sgdisk -n, or parted mkpart if there are at most three primary partitions;
\* then the rescan.  A tool may fail having made the partition.
CreatePartition ==
  /\ pc = "create"
  /\ before' = DOMAIN use
  /\ \/ /\ EndIsFree /\ Cardinality(DOMAIN use) < Room
        /\ use' = [n \in DOMAIN use \cup {Free} |-> IF n = Free THEN "config" ELSE use[n]]
        /\ holds' = [n \in DOMAIN use' |-> IF n = Free THEN "stale" ELSE holds[n]]
        /\ \/ Goto("locate") /\ UNCHANGED <<next, target, file>>
           \/ /\ pc' = "idle" /\ outcome' = "failed" /\ file' = Removed
              /\ UNCHANGED <<whole, next, target>>
     \/ /\ pc' = "idle" /\ outcome' = "failed" /\ file' = Removed
        /\ UNCHANGED <<whole, next, target, use, holds>>
  /\ Rescan
  /\ UNCHANGED <<mounts, notes>>

\* get_partition: by its UUID among the partitions the kernel knows after one
\* more rescan; of an md device, else, the first one.
Found(n, known) ==
  IF n \in known THEN {n} ELSE IF request.md THEN {1} \cap known ELSE {}

\* Mutant: the first partition is taken for the new one.
MutLocate ==
  /\ pc = "locate"
  /\ \E t \in seen :
       /\ target' = t /\ notes' = notes
       /\ Goto("fill") /\ UNCHANGED <<next, before, file>>
  /\ UNCHANGED <<use, holds, mounts, seen>>

\* The new partition: on GPT the one with the UUID given to sgdisk, else the one
\* that parted did not list before.  It has to appear within 15 attempts.
Locate ==
  /\ pc = "locate"
  /\ UNCHANGED <<use, holds, mounts>>
  /\ Rescan
  /\ \/ \E t \in IF request.label = "gpt"
                 THEN Found(CHOOSE n \in DOMAIN use \ before : TRUE, seen')
                 ELSE (DOMAIN use \ before) \cap seen' :
          /\ target' = t
          /\ notes' = IF t \in before THEN notes \cup {"first of md"} ELSE notes
          /\ Goto("fill") /\ UNCHANGED <<next, before, file>>
     \/ Fail /\ UNCHANGED notes

\* Mutant: a copy that fails is taken for a drive that cannot be mounted.
MutFill ==
  /\ pc = "fill"
  /\ \/ /\ request.rebuild
        /\ Goto("source") /\ UNCHANGED <<locals, file, holds>>
     \/ /\ ~request.rebuild
        /\ holds' \in {[holds EXCEPT ![target] = x] : x \in {"config", "broken"}}
        /\ Goto("verify") /\ UNCHANGED <<locals, file>>
  /\ UNCHANGED <<use, seen, mounts, notes>>

\* dd, unless config_drive_rebuild is set.
Fill ==
  /\ pc = "fill"
  /\ \/ /\ request.rebuild
        /\ Goto("source") /\ UNCHANGED <<locals, file, holds>>
     \/ /\ ~request.rebuild
        /\ holds' = [holds EXCEPT ![target] = "config"]
        /\ Goto("verify") /\ UNCHANGED <<locals, file>>
     \/ /\ ~request.rebuild
        /\ holds' \in {holds, [holds EXCEPT ![target] = "broken"]}
        /\ Fail
  /\ UNCHANGED <<use, seen, mounts, notes>>

Succeed == pc' = "idle" /\ outcome' = "done" /\ file' = Removed /\ UNCHANGED <<whole, locals>>

\* _does_config_drive_work: a mount that fails and an umount that fails both say
\* that it does not.
Verify ==
  /\ pc = "verify"
  /\ \/ Succeed /\ UNCHANGED <<mounts, notes>>
     \/ Goto("source") /\ UNCHANGED <<locals, file, mounts, notes>>
     \/ /\ mounts' = mounts \cup {"check"} /\ notes' = notes \cup {"stuck"}
        /\ Goto("source") /\ UNCHANGED <<locals, file>>
  /\ UNCHANGED disk

\* _try_build_fat32_config_drive: a source that cannot be mounted is left alone.
MountSource ==
  /\ pc = "source"
  /\ \/ /\ mounts' = mounts \cup {"source"}
        /\ Goto("rebuild") /\ UNCHANGED <<locals, file, notes>>
     \/ /\ notes' = notes \cup {"bypassed"}
        /\ Succeed /\ UNCHANGED mounts
  /\ UNCHANGED disk

\* mkfs, which refuses a mounted partition, then mount and copy.
Rebuild ==
  /\ pc = "rebuild"
  /\ \/ /\ "check" \notin mounts
        /\ \/ /\ holds' = [holds EXCEPT ![target] = "config"]
              /\ mounts' = mounts \cup {"new"}
              /\ Goto("release")
           \/ /\ holds' = [holds EXCEPT ![target] = "broken"]
              /\ mounts' \in {mounts, mounts \cup {"new"}}
              /\ Goto("give up")
     \/ /\ Goto("give up")
        /\ UNCHANGED <<holds, mounts>>
  /\ UNCHANGED <<use, seen, locals, file, notes>>

\* The finally clause: an umount that fails ends it, and is an error, as is one
\* of what is not mounted.
Release ==
  /\ pc \in {"release", "give up"}
  /\ \/ /\ mounts' = mounts \ {"source", "new"} /\ UNCHANGED notes
        /\ IF pc = "release" THEN Succeed ELSE Fail
     \/ /\ mounts' \in {mounts, mounts \ {"source"}}
        /\ notes' = notes \cup {"stuck"}
        /\ Fail
  /\ UNCHANGED disk

-----------------------------------------------------------------------------
PartitionNext ==
  \/ Call \/ Fetch \/ Destroy \/ DestroyFails \/ MakePartitions \/ CheckDevices
  \/ Write \/ Finish \/ FindLabelled \/ FixGpt \/ CreatePartition \/ Locate
  \/ Fill \/ Verify \/ MountSource \/ Rebuild \/ Release

-----------------------------------------------------------------------------
(* Properties *)

PartitionTypeOK ==
  /\ kind \in {"image", "drive"} /\ request \in PartitionRequests \cup DriveRequests
  /\ DOMAIN holds = DOMAIN use /\ DOMAIN use \subseteq 1 .. 8
  /\ \A n \in DOMAIN use : use[n] \in Uses /\ holds[n] \in Contents
  /\ seen \subseteq 1 .. 8 /\ before \subseteq 1 .. 8
  /\ next \in 1 .. 6 /\ target \in 0 .. 8
  /\ file \in {"none", "there", "leaked"} /\ calls \in 0 .. MaxCalls
  /\ notes \subseteq {"bypassed", "stuck", "unbound", "first of md", "grub ignored"}
  /\ outcome \in {"none", "done", "failed"}

EarlierEphemeral ==
  {n \in DOMAIN request.disk : request.disk[n][1] = "ephemeral"}

\* What an operation is to leave alone it leaves alone, not only when it fails
\* half-way: a deployment the ephemeral partition it is to preserve, whatever else
\* the new layout adds or leaves out behind it (what comes before it, and so its
\* number, depends on the boot mode, the label and the architecture alone); the
\* config drive the partitions of the image, unless the kernel missed the new
\* partition of an md device and get_partition took the first one for it.
OthersAreKept ==
  /\ kind = "image" /\ request.preserve
       => \A n \in EarlierEphemeral : Part("ephemeral") = n => holds[n] = "tenant"
  /\ kind = "drive" /\ pc # "boot" /\ "first of md" \notin notes
       => \A n \in DOMAIN request.disk :
            request.disk[n][2] # "old config" => holds[n] = request.disk[n][2]

\* When either operation reports success the config drive is on the partition
\* made or found for it, unless it was to be rebuilt and could not be read.
DriveIsWritten ==
  pc = "idle" /\ outcome = "done" /\ request.drive
    => \/ target # 0 /\ holds[target] = "config"
       \/ request.rebuild /\ "bypassed" \in notes

=============================================================================
