--------------------------- MODULE ImageDeployment ---------------------------
(***************************************************************************)
(* The standby extension (extensions/standby.py): prepare_image, which     *)
(* fetches an image (ImageFetch) and writes it unless it believes that it  *)
(* did so before, execute_bootc_install, and run_image and power_off.      *)
(*                                                                         *)
(* The executor runs one command at a time; Ironic may send any sequence   *)
(* of them.                                                                *)
(***************************************************************************)
EXTENDS Naturals, FiniteSets

CONSTANTS Images,          \* image ids
          PartitionImages, \* those with image_type "partition"
          Configdrives,    \* contents of config drives
          MaxCommands      \* bound: commands received

ASSUME DeploymentAssumption == /\ PartitionImages \subseteq Images
                               /\ MaxCommands \in Nat
                               /\ "none" \notin Images \cup Configdrives
                               /\ "other" \notin Images

VARIABLES
  phase,
  command,         \* the command being executed, or the last one
  outcome,         \* of that command
  skipped,         \* did it take the image to be cached?
  target, result,  \* the fetch, see ImageFetch
  disk,            \* image and config drive on the device, "other": neither
  cached_image_id,
  partition_uuids, \* the image they are of; "empty" for {}, "none" for None
  power,           \* "on", or "going" after an accepted shutdown command
  dirty,           \* data was written to the device and not flushed
  unflushed,       \* full_sync failed and was only warned about
  start_disk,      \* history: disk when the command began
  inspected,       \* history: the command's image passed the inspection
  written,         \* history: images written completely, after verification
  commands         \* history: commands received

fetching == <<target, result>>
records  == <<cached_image_id, partition_uuids>>
shutdown == <<power, dirty, unflushed>>
history  == <<start_disk, inspected, written, commands>>
vars == <<phase, command, outcome, skipped, fetching, disk, records,
          shutdown, history>>

INSTANCE ImageFetch

Phases == {"idle", "partitioning", "fetching", "inspecting", "writing",
           "validating", "configdrive", "fixing", "pulling", "installing",
           "clock", "flushing", "going", "sysrq"}

Requests ==
  [kind : {"image"}, id : Images, stream : BOOLEAN,
   configdrive : Configdrives \cup {"none"}]
Installs ==
  [kind : {"bootc"}, configdrive : Configdrives \cup {"none"}]
Shutdowns == [kind : {"shutdown"}]   \* or sync

Partition == command.kind = "image" /\ command.id \in PartitionImages

Init ==
  /\ phase = "idle" /\ outcome = "none" /\ skipped = FALSE
  /\ command = [kind |-> "none"]
  /\ target = "old" /\ result = "running"
  /\ disk = [image |-> "other", configdrive |-> "none"]
  /\ cached_image_id = "none" /\ partition_uuids = "none"
  /\ power = "on" /\ dirty = FALSE /\ unflushed = FALSE
  /\ start_disk = disk /\ inspected = FALSE
  /\ written = {} /\ commands = 0

-----------------------------------------------------------------------------

Receive(c) ==
  /\ phase = "idle" /\ commands < MaxCommands
  /\ commands' = commands + 1
  /\ command' = c
  /\ start_disk' = disk /\ inspected' = FALSE
  /\ UNCHANGED written

GoTo(p) == phase' = p /\ UNCHANGED <<command, outcome, skipped, history>>

End(o) ==
  /\ phase' = "idle" /\ outcome' = o
  /\ UNCHANGED <<command, skipped, history>>

Rewrite(d) == disk' = d /\ dirty' = TRUE /\ UNCHANGED <<power, unflushed>>

Junk == [image |-> "other", configdrive |-> "none"]

-----------------------------------------------------------------------------
(* prepare_image                                                           *)

(* Mutant: what is being fetched counts as cached.                         *)
MutPrepareImage(c) ==
  /\ Receive(c)
  /\ outcome' = "running" /\ skipped' = (cached_image_id = c.id)
  /\ cached_image_id' = IF c.stream THEN cached_image_id ELSE c.id
  /\ target' = "old" /\ result' = "running"
  /\ phase' = IF skipped' THEN "validating"
              ELSE IF c.stream /\ c.id \in PartitionImages THEN "partitioning"
              ELSE "fetching"
  /\ partition_uuids' = IF phase' = "fetching" /\ c.stream THEN "empty"
                                                          ELSE partition_uuids
  /\ UNCHANGED <<disk, shutdown>>

PrepareImage(c) ==
  /\ Receive(c)
  /\ outcome' = "running" /\ skipped' = (cached_image_id = c.id)
  /\ target' = "old" /\ result' = "running"
  /\ phase' = IF skipped' THEN "validating"
              ELSE IF c.stream /\ c.id \in PartitionImages THEN "partitioning"
              ELSE "fetching"
  /\ partition_uuids' = IF phase' = "fetching" /\ c.stream THEN "empty"
                                                          ELSE partition_uuids
  /\ UNCHANGED <<cached_image_id, disk, shutdown>>

(* No root device, or bootc is disabled.                                   *)
Refused(c) ==
  /\ Receive(c)
  /\ outcome' = "failed" /\ skipped' = FALSE
  /\ UNCHANGED <<phase, fetching, disk, records, shutdown>>

(* work_on_disk without an image: partitions and the config drive.         *)
CreatePartitions ==
  /\ phase = "partitioning"
  /\ \/ /\ GoTo("fetching")
        /\ Rewrite([Junk EXCEPT !.configdrive = command.configdrive])
        /\ partition_uuids' = command.id
     \/ /\ End("failed")
        /\ \/ UNCHANGED <<disk, shutdown>>
           \/ Rewrite(Junk)
        /\ UNCHANGED partition_uuids
  /\ UNCHANGED <<fetching, cached_image_id>>

(* A device that is streamed to changes with every chunk.                  *)
FetchProceeds ==
  /\ phase = "fetching" /\ Transfer
  /\ IF command.stream
       THEN Rewrite([image |-> IF target' = "complete" THEN command.id
                                                       ELSE "other",
                     configdrive |-> IF Partition THEN disk.configdrive
                                                  ELSE "none"])
       ELSE UNCHANGED <<disk, shutdown>>
  /\ UNCHANGED <<phase, command, outcome, skipped, records,
                 history>>

Fetched ==
  /\ phase = "fetching" /\ Succeed
  /\ IF command.stream
       THEN /\ phase' = "validating"
            /\ written' = written \cup {command.id}
            /\ partition_uuids' = command.id
       ELSE /\ phase' = "inspecting"
            /\ UNCHANGED <<written, partition_uuids>>
  /\ UNCHANGED <<command, outcome, skipped, disk, cached_image_id,
                 shutdown, start_disk, inspected, commands>>

FetchFails ==
  /\ phase = "fetching" /\ Fail
  /\ End("failed")
  /\ UNCHANGED <<disk, records, shutdown>>

(* get_and_validate_image_format, and the size of the root partition.      *)
Inspect ==
  /\ phase = "inspecting"
  /\ \/ /\ phase' = "writing" /\ inspected' = TRUE
        /\ UNCHANGED <<command, outcome, skipped, start_disk, written,
                       commands>>
     \/ End("failed")
  /\ UNCHANGED <<fetching, disk, records, shutdown>>

(* Mutant: metadata is destroyed while the image is still being inspected. *)
MutWriteBegins ==
  /\ phase \in {"inspecting", "writing"} /\ disk # Junk
  /\ Rewrite(Junk)
  /\ UNCHANGED <<phase, command, outcome, skipped, fetching, records,
                 history>>

(* Metadata is destroyed first, unless an ephemeral partition is kept.     *)
WriteBegins ==
  /\ phase = "writing" /\ disk # Junk
  /\ Rewrite(Junk)
  /\ UNCHANGED <<phase, command, outcome, skipped, fetching, records, history>>

WriteFails ==
  /\ phase = "writing"
  /\ \/ UNCHANGED <<disk, shutdown>>
     \/ Rewrite(Junk)
  /\ End("failed")
  /\ UNCHANGED <<fetching, records>>

(* Mutant: the UUIDs of the last image are kept.                           *)
MutWritten ==
  /\ phase = "writing"
  /\ Rewrite([image |-> command.id,
              configdrive |-> IF Partition THEN command.configdrive
                                           ELSE "none"])
  /\ cached_image_id' = command.id
  /\ written' = written \cup {command.id}
  /\ phase' = "validating"
  /\ UNCHANGED <<partition_uuids, command, outcome, skipped, fetching,
                 start_disk, inspected, commands>>

Written ==
  /\ phase = "writing"
  /\ Rewrite([image |-> command.id,
              configdrive |-> IF Partition THEN command.configdrive
                                           ELSE "none"])
  /\ partition_uuids' = IF Partition THEN command.id ELSE "empty"
  /\ cached_image_id' = command.id
  /\ written' = written \cup {command.id}
  /\ phase' = "validating"
  /\ UNCHANGED <<command, outcome, skipped, fetching, start_disk,
                 inspected, commands>>

(* _validate_partitioning needs a readable table with partitions.  A       *)
(* config drive partition is created here for whole disk images only.      *)
Validate ==
  /\ phase = "validating"
  /\ \/ End("failed")
     \/ IF command.configdrive # "none" /\ ~Partition
          THEN GoTo("configdrive")
          ELSE IF command.kind = "bootc" THEN End("succeeded")
                                         ELSE GoTo("fixing")
  /\ UNCHANGED <<fetching, disk, records, shutdown>>

CreateConfigdrive ==
  /\ phase = "configdrive"
  /\ \/ /\ Rewrite([disk EXCEPT !.configdrive = command.configdrive])
        /\ IF command.kind = "bootc" THEN End("succeeded")
                                     ELSE GoTo("fixing")
     \/ /\ End("failed")
        /\ Rewrite([disk EXCEPT !.configdrive = "none"])
           \/ UNCHANGED <<disk, shutdown>>
  /\ UNCHANGED <<fetching, records>>

(* _fix_up_partition_uuids reads the identifier of the disk, if it can.    *)
FixUpPartitionUuids ==
  /\ phase = "fixing"
  /\ partition_uuids' \in
       IF Partition THEN {partition_uuids}
       ELSE {disk.image, IF partition_uuids = "none" THEN "empty"
                                                     ELSE partition_uuids}
  /\ End("succeeded")
  /\ UNCHANGED <<fetching, disk, cached_image_id, shutdown>>

-----------------------------------------------------------------------------
(* execute_bootc_install                                                   *)

(* The credentials' file is written before and removed after the pull,     *)
(* failures to remove it being ignored; it plays no role for the disk.     *)
BootcInstall(c) ==
  /\ Receive(c)
  /\ phase' = "pulling" /\ outcome' = "running" /\ skipped' = FALSE
  /\ UNCHANGED <<fetching, disk, records, shutdown>>

Pull ==
  /\ phase = "pulling"
  /\ GoTo("installing") \/ End("failed")
  /\ UNCHANGED <<fetching, disk, records, shutdown>>

Install ==
  /\ phase = "installing"
  /\ \/ Rewrite([Junk EXCEPT !.image = "container"]) /\ GoTo("validating")
     \/ /\ Rewrite(Junk) \/ UNCHANGED <<disk, shutdown>>
        /\ End("failed")
  /\ UNCHANGED <<fetching, records>>

-----------------------------------------------------------------------------
(* sync, run_image, power_off                                              *)

Sync(c) ==
  /\ Receive(c)
  /\ skipped' = FALSE
  /\ \/ dirty' = FALSE /\ outcome' = "succeeded"
     \/ outcome' = "failed" /\ UNCHANGED dirty
  /\ UNCHANGED <<phase, fetching, disk, records, power,
                 unflushed>>

Shutdown(c) ==
  /\ Receive(c)
  /\ phase' = "clock" /\ outcome' = "running" /\ skipped' = FALSE
  /\ UNCHANGED <<fetching, disk, records, shutdown>>

(* Mutant: the command goes on to the shutdown directly.                   *)
MutSyncClock ==
  /\ phase = "clock"
  /\ GoTo("going") \/ End("failed")
  /\ UNCHANGED <<fetching, disk, records, shutdown>>

(* With fail_if_clock_not_set an error ends the command.                   *)
SyncClock ==
  /\ phase = "clock"
  /\ GoTo("flushing") \/ End("failed")
  /\ UNCHANGED <<fetching, disk, records, shutdown>>

Flush ==
  /\ phase = "flushing"
  /\ GoTo("going")
  /\ \/ dirty' = FALSE /\ UNCHANGED unflushed
     \/ unflushed' = TRUE /\ UNCHANGED dirty
  /\ UNCHANGED <<fetching, disk, records, power>>

RunShutdownCommand ==
  /\ phase = "going"
  /\ \/ power' = "going" /\ End("succeeded")
     \/ UNCHANGED power /\ GoTo("sysrq")   \* failed, or ignored the request
  /\ UNCHANGED <<fetching, disk, records, dirty, unflushed>>

Sysrq ==
  /\ phase = "sysrq"
  /\ \/ power' = "going" /\ End("succeeded")
     \/ UNCHANGED power /\ End("failed")
  /\ UNCHANGED <<fetching, disk, records, dirty, unflushed>>

-----------------------------------------------------------------------------

Step ==
  \/ CreatePartitions \/ FetchProceeds \/ Fetched \/ FetchFails \/ Inspect
  \/ WriteBegins \/ WriteFails \/ Written \/ Validate \/ CreateConfigdrive
  \/ FixUpPartitionUuids
  \/ Pull \/ Install
  \/ SyncClock \/ Flush \/ RunShutdownCommand \/ Sysrq

Next ==
  \/ \E c \in Requests : PrepareImage(c) \/ Refused(c)
  \/ \E c \in Installs : BootcInstall(c) \/ Refused(c)
  \/ \E c \in Shutdowns : Shutdown(c) \/ Sync(c)
  \/ Step

Spec == Init /\ [][Next]_vars

-----------------------------------------------------------------------------
(* Properties                                                              *)

(* Every variable holds a value of its type.                               *)
TypeOK ==
  /\ phase \in Phases
  /\ command \in Requests \cup Installs \cup Shutdowns \cup {[kind |-> "none"]}
  /\ outcome \in {"none", "running", "succeeded", "failed"}
  /\ skipped \in BOOLEAN
  /\ target \in Contents /\ result \in Results
  /\ disk.image \in Images \cup {"other", "container"}
  /\ disk.configdrive \in Configdrives \cup {"none"}
  /\ cached_image_id \in Images \cup {"none"}
  /\ partition_uuids \in Images \cup {"none", "empty", "other", "container"}
  /\ power \in {"on", "going"}
  /\ dirty \in BOOLEAN /\ unflushed \in BOOLEAN
  /\ inspected \in BOOLEAN
  /\ written \subseteq Images /\ commands \in 0..MaxCommands

(* An image that cannot be fetched, does not match its checksum or does    *)
(* not pass get_and_validate_image_format costs nothing: the device stays  *)
(* as it was until the file is verified and inspected.                     *)
UntouchedUntilVerified ==
  command.kind = "image" /\ ~command.stream /\ disk # start_disk =>
    skipped \/ (result = "ok" /\ inspected)

(* A prepare_image that wrote its image leaves on the device that image    *)
(* and its config drive, and in partition_uuids what belongs to it.        *)
WrittenAsRequested ==
  command.kind = "image" /\ outcome = "succeeded" /\ ~skipped =>
    /\ disk.image = command.id
    /\ partition_uuids \in {command.id} \cup
                           (IF Partition THEN {} ELSE {"empty"})
    /\ command.configdrive # "none" => disk.configdrive = command.configdrive

(* An image is taken to be cached only if it was verified and written by   *)
(* an earlier command, whatever failed in between.                         *)
CachedWasWritten == cached_image_id \in written \cup {"none"}

(* Power is cut only after the device was flushed, or flushing it failed.  *)
FlushedBeforeShutdown ==
  [][power = "on" /\ power' = "going" => ~dirty \/ unflushed]_vars

-----------------------------------------------------------------------------
(* What the docstring of prepare_image says, and the code does not do      *)

(* "'prepare' means make local machine completely ready to reboot to the   *)
(* image specified by image_info".                                         *)
PreparedImageIsOnDisk ==
  command.kind = "image" /\ outcome = "succeeded" => disk.image = command.id

=============================================================================
