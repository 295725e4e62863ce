----------------------------- MODULE DeviceErasure -----------------------------
(***************************************************************************)
(* The cleaning steps that erase all the disks of a machine (hardware.py): *)
(* erase_devices, which hands every disk to a pool of threads,             *)
(* erase_devices_metadata and erase_devices_express, which walk over disks *)
(* and partitions, and the guard that is to keep clustered filesystems     *)
(* from being erased.  What happens to one disk in a thread of the pool is *)
(* BlockDeviceErase.                                                       *)
(***************************************************************************)
EXTENDS Naturals, Sequences, FiniteSets, SequencesExt

CONSTANTS DeviceCount, \* devices are numbered in the order of their names
          Disk,        \* the disk of each device; a disk is its own
          Methods,     \* the steps considered
          Filesystems, \* what devices may hold
          WipeOptions  \* values of driver_internal_info wipe_special_filesystems

Devices == 1 .. DeviceCount
Disks == {d \in Devices : Disk[d] = d}

ASSUME ErasureAssumption ==
  /\ DeviceCount \in Nat \ {0}
  /\ Disk \in [Devices -> Devices]
  /\ \A d \in Devices : Disk[Disk[d]] = Disk[d] /\ Disk[d] <= d
  /\ Methods \subseteq {"devices", "metadata", "express"}
  /\ Filesystems \subseteq {"plain", "vmfs", "gfs2"}
  /\ WipeOptions \subseteq {"absent", "true", "false"}

VARIABLES
  method,   \* the step of the command
  guard,    \* [DEFAULT]guard_special_filesystems
  wipe,     \* the node's wipe_special_filesystems
  fs,       \* what each device holds
  pool,     \* threads of the pool
  list,     \* the devices to erase, in their order
  next,     \* the position of the loop
  task,     \* the pool's task for each disk
  erased,   \* devices that were written to
  errors,   \* erase_errors
  command,  \* "looping", "joining", "collecting", "ok" or "failed"
  why       \* it failed

node == <<method, guard, wipe, fs, pool, list>>
vars == <<node, next, task, erased, errors, command, why>>

Listed == {list[i] : i \in 1 .. Len(list)}

\* The devices in S, in the order of their names.
InOrder(S) == CHOOSE s \in [1 .. Cardinality(S) -> S] :
                \A i, j \in 1 .. Cardinality(S) : i < j => s[i] < s[j]

\* Mutant: disks come before their partitions.
MutListFor(m) == IF m = "devices" THEN InOrder(Disks) ELSE InOrder(Devices)

\* erase_devices takes the disks; the other two take partitions too, the
\* greatest name first, so that a partition comes before its disk.  No device is
\* taken off the list here, as those of a skip list, members of arrays and
\* read-only devices are.
ListFor(m) == IF m = "devices" THEN InOrder(Disks) ELSE Reverse(InOrder(Devices))

Init ==
  /\ method \in Methods /\ guard \in BOOLEAN /\ wipe \in WipeOptions
  /\ fs \in [Devices -> Filesystems]
  /\ pool \in 1 .. Cardinality(Disks)
  /\ list = ListFor(method) /\ next = 1
  /\ task = [d \in Disks |-> "none"]
  /\ erased = {} /\ errors = {}
  /\ command = "looping" /\ why = "none"

Fails(reason) == command' = "failed" /\ why' = reason

-----------------------------------------------------------------------------
(* The guard *)

Current == list[next]
Looping == command = "looping" /\ next <= Len(list)

\* safety_check_block_device returns early for either setting.
Guarded == guard /\ wipe # "false"

\* A partition is known by its type.  Filesystem types are not asked of lsblk, so
\* GFS2 is never found; and only the device's own line is looked at, in which the
\* type of a disk is empty.
Identified(d) == fs[d] = "vmfs" /\ d \notin Disks

Passes(d) == ~(Guarded /\ Identified(d))

\* ProtectedDeviceError leaves the loop.
ProtectedFound ==
  /\ Looping /\ ~Passes(Current)
  /\ Fails("protected")
  /\ UNCHANGED <<node, next, task, erased, errors>>

\* lsblk fails, certainly so for a device that is gone.
CheckFails ==
  /\ Looping /\ Guarded
  /\ Fails("check")
  /\ UNCHANGED <<node, next, task, erased, errors>>

-----------------------------------------------------------------------------
(* erase_devices *)

Submit ==
  /\ Looping /\ method = "devices" /\ Passes(Current)
  /\ task' = [task EXCEPT ![Current] = "queued"]
  /\ next' = next + 1
  /\ UNCHANGED <<node, erased, errors, command, why>>

Running == {d \in Disks : task[d] = "running"}
Queued == {d \in Disks : task[d] = "queued"}

\* A free thread takes the first task that waits.
Take(d) ==
  /\ d \in Queued /\ Cardinality(Running) < pool
  /\ \A e \in Queued : d <= e
  /\ task' = [task EXCEPT ![d] = "running"]
  /\ UNCHANGED <<node, next, erased, errors, command, why>>

\* erase_block_device returns, or raises having written or not.
TaskEnds(d) ==
  /\ task[d] = "running"
  /\ \/ task' = [task EXCEPT ![d] = "done"] /\ erased' = erased \cup {d}
     \/ task' = [task EXCEPT ![d] = "raised"] /\ erased' \in {erased, erased \cup {d}}
  /\ UNCHANGED <<node, next, errors, command, why>>

AllSubmitted ==
  /\ command = "looping" /\ next > Len(list) /\ method = "devices"
  /\ command' = "joining"
  /\ UNCHANGED <<node, next, task, erased, errors, why>>

\* close() and join(): all tasks have come to an end.
Join ==
  /\ command = "joining" /\ Running \cup Queued = {}
  /\ command' = "collecting"
  /\ UNCHANGED <<node, next, task, erased, errors, why>>

\* get() raises what the first task that failed raised.
Collect ==
  /\ command = "collecting"
  /\ \/ /\ \A d \in Disks : task[d] # "raised"
        /\ command' = "ok" /\ why' = why
     \/ /\ \E d \in Disks : task[d] = "raised"
        /\ Fails("erase")
  /\ UNCHANGED <<node, next, task, erased, errors>>

-----------------------------------------------------------------------------
(* erase_devices_metadata and erase_devices_express *)

\* The metadata of the device is destroyed, or, in the express step, an NVMe
\* drive formatted.
Wipe ==
  /\ Looping /\ method # "devices" /\ Passes(Current)
  /\ erased' = erased \cup {Current}
  /\ next' = next + 1
  /\ UNCHANGED <<node, task, errors, command, why>>

\* It fails, in the express step after the secure erase failed or was not
\* tried: the error is noted and the next device taken.
WipeFails ==
  /\ Looping /\ method # "devices" /\ Passes(Current)
  /\ errors' = errors \cup {Current}
  /\ erased' \in {erased, erased \cup {Current}}
  /\ next' = next + 1
  /\ UNCHANGED <<node, task, command, why>>

Report ==
  /\ command = "looping" /\ next > Len(list) /\ method # "devices"
  /\ IF errors = {} THEN command' = "ok" /\ why' = why ELSE Fails("erase")
  /\ UNCHANGED <<node, next, task, erased, errors>>

-----------------------------------------------------------------------------
Loop == ProtectedFound \/ CheckFails \/ Submit \/ AllSubmitted \/ Join \/ Collect
          \/ Wipe \/ WipeFails \/ Report

Work == \E d \in Disks : Take(d) \/ TaskEnds(d)

Next == Loop \/ Work

Spec == Init /\ [][Next]_vars

-----------------------------------------------------------------------------
(* Properties *)

TypeOK ==
  /\ method \in Methods /\ guard \in BOOLEAN /\ wipe \in WipeOptions
  /\ fs \in [Devices -> Filesystems] /\ pool \in Nat \ {0}
  /\ list \in Seq(Devices) /\ next \in 1 .. Len(list) + 1
  /\ task \in [Disks -> {"none", "queued", "running", "done", "raised"}]
  /\ {erased, errors} \subseteq SUBSET Devices
  /\ command \in {"looping", "joining", "collecting", "ok", "failed"}
  /\ why \in {"none", "protected", "check", "erase"}

=============================================================================
