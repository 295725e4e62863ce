------------------------- MODULE ImageDeploymentProofs -------------------------
(***************************************************************************)
(* Proofs about the standby extension, for every set of images and config  *)
(* drives and every sequence of commands: the disk stays as it was until   *)
(* the image is verified, holds what was asked for afterwards, and is      *)
(* flushed before power is cut.  And, at the end, about the download of an *)
(* image, for every number of URLs, retries and chunks: the checksum is    *)
(* the one of what was stored, and every step is a step of the abstract    *)
(* fetch, so success means that the verified image is there.               *)
(***************************************************************************)
EXTENDS ImageDeployment, ImageDownload, TLAPS

Commands == Requests \cup Installs \cup Shutdowns \cup {[kind |-> "none"]}
Disks == [image : Images \cup {"other", "container"}, configdrive : Configdrives \cup {"none"}]

(* Each phase belongs to one kind of command, and no command has succeeded *)
(* before it ends.                                                         *)
PhaseInv ==
  /\ command \in Commands /\ disk \in Disks /\ dirty \in BOOLEAN /\ unflushed \in BOOLEAN
  /\ phase \in Phases
  /\ phase = "partitioning" => command.kind = "image" /\ command.stream /\ Partition /\ target = "old"
  /\ phase = "fetching" => command.kind = "image"
  /\ phase \in {"inspecting", "writing"}
       => command.kind = "image" /\ ~command.stream /\ result = "ok"
  /\ phase = "writing" => inspected
  /\ phase \in {"validating", "configdrive"} => command.kind \in {"image", "bootc"}
  /\ phase = "configdrive" => ~Partition
  /\ phase = "fixing" => command.kind = "image"
  /\ phase \in {"pulling", "installing"} => command.kind = "bootc"
  /\ phase \in {"clock", "flushing", "going", "sysrq"} => command.kind = "shutdown"
  /\ phase \in {"partitioning", "fetching", "inspecting", "writing"} => ~skipped
  /\ phase # "idle" => outcome # "succeeded"

(* What is on the disk while an image is streamed to it, and when it has   *)
(* been written.                                                           *)
StreamInv ==
  phase = "fetching" /\ command.stream =>
    /\ target = "complete" => disk.image = command.id
    /\ Partition => disk.configdrive = command.configdrive

OnDisk ==
  phase \in {"validating", "configdrive", "fixing"}
    /\ command.kind = "image" /\ ~skipped =>
      /\ result = "ok" /\ (command.stream \/ inspected)
      /\ disk.image = command.id
      /\ partition_uuids \in {command.id} \cup (IF Partition THEN {} ELSE {"empty"})
      /\ Partition \/ (phase = "fixing" /\ command.configdrive # "none")
           => disk.configdrive = command.configdrive

(* The flush, or the warning that it failed, comes before the power is cut.*)
FlushInv == phase \in {"going", "sysrq"} => ~dirty \/ unflushed

IInv ==
  /\ PhaseInv /\ StreamInv /\ OnDisk /\ FlushInv
  /\ UntouchedUntilVerified /\ WrittenAsRequested /\ CachedWasWritten

-----------------------------------------------------------------------------

LEMMA CommandTypes ==
  /\ \A c \in Requests : /\ c.kind = "image" /\ c.id \in Images /\ c.stream \in BOOLEAN
                         /\ c.configdrive \in Configdrives \cup {"none"}
  /\ \A c \in Installs : /\ c.kind = "bootc"
                         /\ c.configdrive \in Configdrives \cup {"none"}
  /\ \A c \in Shutdowns : c.kind = "shutdown"
BY DEF Requests, Installs, Shutdowns

LEMMA CommandKinds ==
  ASSUME NEW c \in Commands
  PROVE  /\ c.kind \in {"image", "bootc", "shutdown", "none"}
         /\ c.kind = "image" => c \in Requests
         /\ c.kind = "bootc" => c \in Installs
BY CommandTypes DEF Commands

LEMMA Initial == Init => IInv
<1> SUFFICES ASSUME Init
             PROVE  IInv
  OBVIOUS
<1>1. command.kind = "none"
  BY DEF Init
<1>2. PhaseInv
  BY <1>1 DEF Init, PhaseInv, Commands, Disks, Phases
<1> QED
  BY <1>1, <1>2
     DEF Init, IInv, StreamInv, OnDisk, FlushInv, UntouchedUntilVerified,
         WrittenAsRequested, CachedWasWritten

(* What a device holds after it was written, or left alone.                *)
LEMMA Rewriting ==
  ASSUME PhaseInv
  PROVE  /\ UNCHANGED <<disk, shutdown>> =>
              disk' \in Disks /\ dirty' \in BOOLEAN /\ unflushed' \in BOOLEAN
         /\ \A d \in Disks : Rewrite(d) =>
              disk' \in Disks /\ dirty' \in BOOLEAN /\ unflushed' \in BOOLEAN
         /\ Junk \in Disks
         /\ \A i \in Images \cup {"other", "container"} :
              \A c \in Configdrives \cup {"none"} :
                [image |-> i, configdrive |-> c] \in Disks
         /\ [Junk EXCEPT !.image = "container"] \in Disks
<1>1. \A i \in Images \cup {"other", "container"} :
        \A c \in Configdrives \cup {"none"} : [image |-> i, configdrive |-> c] \in Disks
  BY DEF Disks
<1>2. Junk \in Disks
  BY DEF Junk, Disks
<1>3. [Junk EXCEPT !.image = "container"] = [image |-> "container", configdrive |-> "none"]
  BY DEF Junk
<1>4. [Junk EXCEPT !.image = "container"] \in Disks
  BY <1>3 DEF Disks
<1>5. UNCHANGED <<disk, shutdown>> =>
        disk' \in Disks /\ dirty' \in BOOLEAN /\ unflushed' \in BOOLEAN
  BY DEF PhaseInv, shutdown
<1>6. \A d \in Disks : Rewrite(d) =>
        disk' \in Disks /\ dirty' \in BOOLEAN /\ unflushed' \in BOOLEAN
  BY DEF PhaseInv, Rewrite
<1> QED BY <1>1, <1>2, <1>4, <1>5, <1>6

(* A command is received, between two others.                              *)
LEMMA ReceiveKeeps ==
  ASSUME IInv,
         \/ \E c \in Requests : PrepareImage(c) \/ Refused(c)
         \/ \E c \in Installs : BootcInstall(c) \/ Refused(c)
         \/ \E c \in Shutdowns : Shutdown(c) \/ Sync(c)
  PROVE  IInv'
<1> USE CommandTypes DEF IInv
<1>1. ASSUME NEW c \in Commands, Receive(c)
      PROVE  /\ command' \in Commands /\ command' = c /\ phase = "idle"
             /\ start_disk' = disk /\ written' = written
  BY <1>1 DEF Receive
<1>2. ASSUME NEW c \in Requests, PrepareImage(c)
      PROVE  IInv'
  <2>1. c \in Commands /\ c.kind = "image"
    BY <1>2 DEF Commands
  <2>2. phase' \in {"validating", "partitioning", "fetching"}
    BY <1>2 DEF PrepareImage
  <2>3. PhaseInv'
    BY <1>1, <1>2, <2>1, <2>2
       DEF PrepareImage, PhaseInv, Partition, Phases, shutdown
  <2>4. StreamInv' /\ OnDisk' /\ FlushInv'
    BY <1>1, <1>2, <2>1, <2>2
       DEF PrepareImage, PhaseInv, Partition, StreamInv, OnDisk, FlushInv
  <2>5. UntouchedUntilVerified' /\ WrittenAsRequested' /\ CachedWasWritten'
    BY <1>1, <1>2, <2>1
       DEF PrepareImage, UntouchedUntilVerified, WrittenAsRequested, CachedWasWritten
  <2> QED BY <2>3, <2>4, <2>5
<1>3. ASSUME NEW c \in Requests \cup Installs, Refused(c)
      PROVE  IInv'
  <2>1. c \in Commands
    BY DEF Commands
  <2> QED
    BY <1>1, <1>3, <2>1
       DEF Refused, shutdown, records, fetching, PhaseInv, StreamInv, OnDisk, FlushInv,
           UntouchedUntilVerified, WrittenAsRequested, CachedWasWritten
<1>4. ASSUME NEW c \in Installs, BootcInstall(c)
      PROVE  IInv'
  <2>1. c \in Commands /\ c.kind = "bootc"
    BY DEF Commands
  <2> QED
    BY <1>1, <1>4, <2>1
       DEF BootcInstall, shutdown, records, PhaseInv, StreamInv, OnDisk, FlushInv,
           Phases, Partition, UntouchedUntilVerified, WrittenAsRequested, CachedWasWritten
<1>5. ASSUME NEW c \in Shutdowns, Shutdown(c) \/ Sync(c)
      PROVE  IInv'
  <2>1. c \in Commands /\ c.kind = "shutdown"
    BY DEF Commands
  <2> QED
    BY <1>1, <1>5, <2>1
       DEF Shutdown, Sync, shutdown, records, PhaseInv, StreamInv, OnDisk, FlushInv,
           Phases, Partition, UntouchedUntilVerified, WrittenAsRequested, CachedWasWritten
<1> QED BY <1>2, <1>3, <1>4, <1>5

(* prepare_image, until the image is written.                              *)
LEMMA WritingKeeps ==
  ASSUME IInv,
         \/ CreatePartitions \/ FetchProceeds \/ Fetched \/ FetchFails \/ Inspect
         \/ WriteBegins \/ WriteFails \/ Written
  PROVE  IInv'
<1> USE CommandKinds, CommandTypes
    DEF IInv, PhaseInv, StreamInv, OnDisk, FlushInv, UntouchedUntilVerified,
        WrittenAsRequested, CachedWasWritten, Phases, Partition, history, shutdown, records,
        fetching
<1>1. CASE CreatePartitions
  <2>1. ASSUME GoTo("fetching"), Rewrite([Junk EXCEPT !.configdrive = command.configdrive])
        PROVE  IInv'
    <3>1. disk' = [image |-> "other", configdrive |-> command.configdrive]
      BY <2>1 DEF Rewrite, Junk
    <3>2. disk' \in Disks
      BY <1>1, <3>1 DEF CreatePartitions, Disks
    <3>3. PhaseInv'
      BY <1>1, <2>1, <3>2 DEF CreatePartitions, GoTo, Rewrite
    <3>4. StreamInv' /\ OnDisk' /\ FlushInv'
      BY <1>1, <2>1, <3>1 DEF CreatePartitions, GoTo
    <3>5. UntouchedUntilVerified' /\ WrittenAsRequested' /\ CachedWasWritten'
      BY <1>1, <2>1 DEF CreatePartitions, GoTo
    <3> QED BY <3>3, <3>4, <3>5
  <2>2. ASSUME End("failed"), UNCHANGED <<disk, shutdown>> \/ Rewrite(Junk)
        PROVE  IInv'
    <3>1. disk' \in Disks /\ dirty' \in BOOLEAN /\ unflushed' \in BOOLEAN
      BY ONLY PhaseInv, Rewriting, <2>2
    <3> QED BY <1>1, <2>2, <3>1 DEF CreatePartitions, End
  <2> QED BY <1>1, <2>1, <2>2 DEF CreatePartitions
<1>2. CASE FetchProceeds
  <2>1. CASE command.stream
    <3>1. /\ disk'.image = IF target' = "complete" THEN command.id ELSE "other"
          /\ disk'.configdrive = IF Partition THEN disk.configdrive ELSE "none"
      BY <1>2, <2>1 DEF FetchProceeds, Rewrite
    <3>2. disk' \in Disks
      BY <1>2, <2>1 DEF FetchProceeds, Rewrite, Disks
    <3> QED BY <1>2, <2>1, <3>1, <3>2 DEF FetchProceeds, Transfer, Rewrite
  <2>2. CASE ~command.stream
    BY <1>2, <2>2 DEF FetchProceeds, Transfer
  <2> QED BY <2>1, <2>2
<1>3. CASE Fetched
  BY <1>3 DEF Fetched, Succeed
<1>4. CASE FetchFails
  BY <1>4 DEF FetchFails, Fail, End
<1>5. CASE Inspect
  <2>1. PhaseInv'
    BY <1>5 DEF Inspect, End
  <2>2. StreamInv' /\ OnDisk' /\ FlushInv'
    BY <1>5 DEF Inspect, End
  <2>3. UntouchedUntilVerified' /\ WrittenAsRequested' /\ CachedWasWritten'
    BY <1>5 DEF Inspect, End
  <2> QED BY <2>1, <2>2, <2>3
<1>6. CASE WriteBegins
  <2>1. disk' \in Disks /\ dirty' \in BOOLEAN /\ unflushed' \in BOOLEAN
    BY ONLY PhaseInv, Rewriting, <1>6 DEF WriteBegins
  <2> QED BY <1>6, <2>1 DEF WriteBegins
<1>7. CASE WriteFails
  <2>1. disk' \in Disks /\ dirty' \in BOOLEAN /\ unflushed' \in BOOLEAN
    BY ONLY PhaseInv, Rewriting, <1>7 DEF WriteFails
  <2> QED BY <1>7, <2>1 DEF WriteFails, End
<1>8. CASE Written
  <2>1. /\ disk'.image = command.id
        /\ Partition => disk'.configdrive = command.configdrive
    BY <1>8 DEF Written, Rewrite
  <2>2. disk' \in Disks /\ dirty' = TRUE /\ unflushed' = unflushed
    BY <1>8 DEF Written, Rewrite, Disks
  <2>3. PhaseInv'
    BY <1>8, <2>2 DEF Written
  <2>4. StreamInv' /\ OnDisk' /\ FlushInv'
    BY <1>8, <2>1 DEF Written
  <2>5. UntouchedUntilVerified' /\ WrittenAsRequested' /\ CachedWasWritten'
    BY <1>8 DEF Written
  <2> QED BY <2>3, <2>4, <2>5
<1> QED BY <1>1, <1>2, <1>3, <1>4, <1>5, <1>6, <1>7, <1>8

(* What follows it, the same for a container.                              *)
LEMMA FinishingKeeps ==
  ASSUME IInv,
         \/ Validate \/ CreateConfigdrive \/ FixUpPartitionUuids \/ Pull
         \/ Install
  PROVE  IInv'
<1> USE CommandKinds, CommandTypes
    DEF IInv, PhaseInv, StreamInv, OnDisk, FlushInv, UntouchedUntilVerified,
        WrittenAsRequested, CachedWasWritten, Phases, Partition, history, shutdown, records,
        fetching
<1>1. CASE Validate
  BY <1>1 DEF Validate, GoTo, End
<1>2. CASE CreateConfigdrive
  <2>1. disk' \in {disk, [disk EXCEPT !.configdrive = command.configdrive],
                  [disk EXCEPT !.configdrive = "none"]}
    BY <1>2 DEF CreateConfigdrive, Rewrite
  <2>2. command.configdrive \in Configdrives \cup {"none"}
    BY <1>2 DEF CreateConfigdrive
  <2>3. disk' \in Disks
    BY <2>1, <2>2 DEF Disks
  <2>4. dirty' \in BOOLEAN /\ unflushed' \in BOOLEAN
    BY <1>2 DEF CreateConfigdrive, Rewrite
  <2>5. PhaseInv'
    BY <1>2, <2>3, <2>4 DEF CreateConfigdrive, GoTo, End
  <2>6. OnDisk'
    BY <1>2 DEF CreateConfigdrive, GoTo, End, Rewrite, Disks
  <2>7. StreamInv' /\ FlushInv'
    BY <1>2 DEF CreateConfigdrive, GoTo, End
  <2>8. UntouchedUntilVerified'
    BY <1>2 DEF CreateConfigdrive, GoTo, End
  <2>9. CachedWasWritten'
    BY <1>2 DEF CreateConfigdrive, GoTo, End
  <2>10. command' = command /\ (command.kind = "image" => outcome' # "succeeded")
    BY <1>2 DEF CreateConfigdrive, GoTo, End
  <2>11. WrittenAsRequested'
    BY <2>10
  <2> QED BY <2>3, <2>4, <2>5, <2>6, <2>7, <2>8, <2>9, <2>11
<1>3. CASE FixUpPartitionUuids
  BY <1>3 DEF FixUpPartitionUuids, End
<1>4. CASE Pull
  BY <1>4 DEF Pull, GoTo, End
<1>5. CASE Install
  <2>1. disk' \in Disks /\ dirty' \in BOOLEAN /\ unflushed' \in BOOLEAN
    BY ONLY PhaseInv, Rewriting, <1>5 DEF Install
  <2> QED BY <1>5, <2>1 DEF Install, GoTo, End
<1> QED BY <1>1, <1>2, <1>3, <1>4, <1>5

(* run_image and power_off.                                                *)
LEMMA ShutdownKeeps ==
  ASSUME IInv,
         SyncClock \/ Flush \/ RunShutdownCommand \/ Sysrq
  PROVE  IInv'
<1> USE CommandKinds, CommandTypes
    DEF IInv, PhaseInv, StreamInv, OnDisk, FlushInv, UntouchedUntilVerified,
        WrittenAsRequested, CachedWasWritten, Phases, Partition, history, shutdown, records,
        fetching
<1>1. CASE SyncClock
  BY <1>1 DEF SyncClock, GoTo, End
<1>2. CASE Flush
  BY <1>2 DEF Flush, GoTo
<1>3. CASE RunShutdownCommand
  BY <1>3 DEF RunShutdownCommand, GoTo, End
<1>4. CASE Sysrq
  BY <1>4 DEF Sysrq, End
<1> QED BY <1>1, <1>2, <1>3, <1>4

LEMMA Inductive == IInv /\ [Next]_vars => IInv'
<1> SUFFICES ASSUME IInv, [Next]_vars
             PROVE  IInv'
  OBVIOUS
<1>1. ASSUME NEW c \in Requests, PrepareImage(c) \/ Refused(c)
      PROVE  IInv'
  BY <1>1, ReceiveKeeps
<1>2. ASSUME NEW c \in Installs, BootcInstall(c) \/ Refused(c)
      PROVE  IInv'
  BY <1>2, ReceiveKeeps
<1>3. ASSUME NEW c \in Shutdowns, Shutdown(c) \/ Sync(c)
      PROVE  IInv'
  BY <1>3, ReceiveKeeps
<1>4. ASSUME Step
      PROVE  IInv'
  BY <1>4, WritingKeeps, FinishingKeeps, ShutdownKeeps DEF Step
<1>5. CASE UNCHANGED vars
  BY <1>5
     DEF vars, fetching, records, shutdown, history, IInv, PhaseInv, StreamInv, OnDisk,
         FlushInv, Partition, UntouchedUntilVerified, WrittenAsRequested, CachedWasWritten
<1> QED BY <1>1, <1>2, <1>3, <1>4, <1>5 DEF Next

LEMMA InvariantHolds == Spec => []IInv
BY Initial, Inductive, PTL DEF Spec

-----------------------------------------------------------------------------

(* Until the image of a prepare_image is verified and inspected, the       *)
(* device holds what it held when the command began.                       *)
THEOREM DeviceIsUntouched == Spec => []UntouchedUntilVerified
<1>1. IInv => UntouchedUntilVerified
  BY DEF IInv
<1> QED BY <1>1, InvariantHolds, PTL

(* A prepare_image that succeeds without taking its image to be cached     *)
(* leaves that image and its config drive on the device, and reports the   *)
(* UUIDs that belong to it.                                                *)
THEOREM ImageIsOnDisk == Spec => []WrittenAsRequested
<1>1. IInv => WrittenAsRequested
  BY DEF IInv
<1> QED BY <1>1, InvariantHolds, PTL

(* Whatever fails, an image counts as cached only if an earlier command    *)
(* wrote it completely.                                                    *)
THEOREM CacheIsTrue == Spec => []CachedWasWritten
<1>1. IInv => CachedWasWritten
  BY DEF IInv
<1> QED BY <1>1, InvariantHolds, PTL

(* run_image and power_off flush the device, or warn that they could not,  *)
(* before they have the power cut.                                         *)
THEOREM FlushComesFirst == Spec => FlushedBeforeShutdown
<1> DEFINE Cut == power = "on" /\ power' = "going"
<1>1. ASSUME NEW c \in Requests \cup Installs \cup Shutdowns,
             \/ PrepareImage(c) \/ Refused(c) \/ BootcInstall(c) \/ Shutdown(c) \/ Sync(c)
      PROVE  ~Cut
  BY <1>1 DEF PrepareImage, Refused, BootcInstall, Shutdown, Sync, shutdown
<1>2. ASSUME CreatePartitions \/ FetchProceeds \/ Fetched \/ FetchFails \/ Inspect
             \/ WriteBegins \/ WriteFails \/ Written
      PROVE  ~Cut
  BY <1>2 DEF CreatePartitions, FetchProceeds, Fetched, FetchFails, Inspect, WriteBegins,
              WriteFails, Written, Rewrite, shutdown
<1>3. ASSUME \/ Validate \/ CreateConfigdrive \/ FixUpPartitionUuids \/ Pull
             \/ Install \/ SyncClock \/ Flush
      PROVE  ~Cut
  BY <1>3 DEF Validate, CreateConfigdrive, FixUpPartitionUuids, Pull,
              Install, SyncClock, Flush, Rewrite, shutdown
<1>4. ASSUME RunShutdownCommand \/ Sysrq
      PROVE  phase \in {"going", "sysrq"}
  BY <1>4 DEF RunShutdownCommand, Sysrq
<1>5. IInv /\ [Next]_vars => [Cut => ~dirty \/ unflushed]_vars
  <2> SUFFICES ASSUME IInv, Next, Cut
               PROVE  ~dirty \/ unflushed
    BY DEF vars, shutdown
  <2>1. RunShutdownCommand \/ Sysrq
    BY <1>1, <1>2, <1>3 DEF Next, Step
  <2> QED BY <2>1, <1>4 DEF IInv, FlushInv
<1> QED BY <1>5, InvariantHolds, PTL DEF Spec, FlushedBeforeShutdown

-----------------------------------------------------------------------------
(* The download of an image                                                *)

(* What the running hash and the target are made of.                       *)
DataTypes ==
  /\ pc \in {"connecting", "reading", "verifying", "ok", "failed"}
  /\ hashed \in Seq(Kinds) /\ Len(hashed) <= Chunks
  /\ stored \in [1..Chunks -> Kinds \cup {"old", "none"}]

(* Every attempt begins with an empty hash, and ends well only when the    *)
(* hash is the one that is expected.                                       *)
HashInv ==
  /\ pc = "connecting" => hashed = <<>>
  /\ pc = "ok" => ChecksumMatches

DownloadInv == DataTypes /\ HashInv /\ HashMatchesTarget

-----------------------------------------------------------------------------

LEMMA DownloadConstants == Chunks \in Nat /\ Chunks >= 1
BY DownloadAssumption DEF DownloadAssumption

LEMMA DownloadStarts == DownloadInit => DownloadInv
BY DownloadConstants
   DEF DownloadInit, DownloadInv, DataTypes, HashInv, HashMatchesTarget,
       Kinds

(* The retries and the end of an attempt, which do not touch the target.   *)
LEMMA RetryKeeps ==
  ASSUME DownloadInv, NEW e, Retry(e) \/ GiveUp(e), UNCHANGED stored
  PROVE  DownloadInv'
<1>1. CASE GiveUp(e)
  BY <1>1 DEF GiveUp, DownloadInv, DataTypes, HashInv, HashMatchesTarget
<1>2. CASE NextAttempt
  BY <1>2, DownloadConstants DEF NextAttempt, DownloadInv, DataTypes, HashInv,
                                 HashMatchesTarget
<1> QED BY <1>1, <1>2 DEF Retry

LEMMA ConnectingKeeps ==
  ASSUME DownloadInv,
         \/ ConnectionFails \/ ServerError \/ ChecksumFetched
         \/ \E status \in {"odd", "4xx"} : FatalStatus(status)
         \/ DownloadOpened \/ OpenFails
  PROVE  DownloadInv'
<1>1. ASSUME NEW response, RetryRequest(response), UNCHANGED stored
      PROVE  DownloadInv'
  BY <1>1 DEF RetryRequest, DownloadInv, DataTypes, HashInv,
              HashMatchesTarget, ChecksumMatches
<1>2. ASSUME TryNextUrl, UNCHANGED stored
      PROVE  DownloadInv'
  BY <1>2 DEF TryNextUrl, DownloadInv, DataTypes, HashInv,
              HashMatchesTarget, ChecksumMatches
<1>3. CASE ConnectionFails
  BY <1>1, <1>3, RetryKeeps DEF ConnectionFails
<1>4. CASE ServerError
  BY <1>1, <1>2, <1>4, RetryKeeps DEF ServerError
<1>5. CASE ChecksumFetched
  BY <1>2, <1>5, RetryKeeps DEF ChecksumFetched
<1>6. CASE \E status \in {"odd", "4xx"} : FatalStatus(status)
  BY <1>1, <1>6, RetryKeeps DEF FatalStatus
<1>7. CASE DownloadOpened
  BY <1>7, DownloadConstants
     DEF DownloadOpened, Connecting, DownloadInv, DataTypes, HashInv,
         HashMatchesTarget
<1>8. CASE OpenFails
  BY <1>8, RetryKeeps DEF OpenFails
<1> QED BY <1>3, <1>4, <1>5, <1>6, <1>7, <1>8

(* A chunk goes into the hash and to the place that follows in the target. *)
LEMMA ChunkKeeps ==
  ASSUME DownloadInv, NEW kind \in Kinds, Chunk(kind)
  PROVE  DownloadInv'
<1>1. Len(hashed) \in Nat /\ Len(hashed) + 1 \in 1..Chunks
  BY DownloadConstants DEF Chunk, Reading, DownloadInv, DataTypes
<1>2. /\ hashed' \in Seq(Kinds) /\ Len(hashed') = Len(hashed) + 1
      /\ \A c \in 1..Len(hashed) : hashed'[c] = hashed[c]
      /\ hashed'[Len(hashed) + 1] = kind
  BY DEF Chunk, DownloadInv, DataTypes
<1>3. stored' \in [1..Chunks -> Kinds \cup {"old", "none"}]
  BY <1>1 DEF Chunk, DownloadInv, DataTypes
<1>4. \A c \in 1..Len(hashed') : stored'[c] = hashed'[c]
  BY <1>1, <1>2 DEF Chunk, Reading, DownloadInv, DataTypes,
                    HashMatchesTarget
<1> QED
  BY <1>1, <1>2, <1>3, <1>4
     DEF Chunk, Reading, DownloadInv, DataTypes, HashInv,
         HashMatchesTarget

LEMMA DownloadSteps == DownloadInv /\ [DownloadNext]_downloadVars => DownloadInv'
<1> SUFFICES ASSUME DownloadInv, [DownloadNext]_downloadVars
             PROVE  DownloadInv'
  OBVIOUS
<1>1. CASE \/ ConnectionFails \/ ServerError \/ ChecksumFetched
           \/ \E status \in {"odd", "4xx"} : FatalStatus(status)
           \/ DownloadOpened \/ OpenFails
  BY <1>1, ConnectingKeeps
<1>2. CASE \E kind \in Kinds : Chunk(kind)
  BY <1>2, ChunkKeeps
<1>3. CASE ReadFails \/ TimedOut \/ OutOfSpace
  BY <1>3, RetryKeeps DEF ReadFails, TimedOut, OutOfSpace
<1>4. CASE EndOfStream
  BY <1>4 DEF EndOfStream, DownloadInv, DataTypes, HashInv, HashMatchesTarget
<1>5. CASE VerifyImage
  <2>1. CASE ChecksumMatches
    BY <1>5, <2>1
       DEF VerifyImage, DownloadInv, DataTypes, HashInv, HashMatchesTarget,
           ChecksumMatches
  <2>2. CASE ~ChecksumMatches
    BY <1>5, <2>2, RetryKeeps DEF VerifyImage
  <2> QED BY <2>1, <2>2
<1>6. CASE BecomeOverdue \/ UNCHANGED downloadVars
  BY <1>6
     DEF BecomeOverdue, downloadVars, DownloadInv, DataTypes, HashInv,
         HashMatchesTarget, ChecksumMatches
<1> QED BY <1>1, <1>2, <1>3, <1>4, <1>5, <1>6 DEF DownloadNext, DownloadStep, Stopped

LEMMA DownloadHolds == DownloadSpec => []DownloadInv
BY DownloadStarts, DownloadSteps, PTL DEF DownloadSpec

(* The checksum that is compared is of what is at the target, whatever the *)
(* attempts before this one have left there.                               *)
THEOREM HashIsOfTarget ==
  DownloadSpec => []HashMatchesTarget
BY DownloadHolds, PTL DEF DownloadInv

-----------------------------------------------------------------------------
(* The refinement                                                          *)

(* An end of the download leaves the target alone; every other step can    *)
(* only transfer.                                                          *)
LEMMA DownloadShapes ==
  ASSUME DownloadNext
  PROVE  \/ UNCHANGED downloadVars
         \/ pc \notin {"ok", "failed"} /\ pc' \notin {"ok", "failed"}
         \/ pc \notin {"ok", "failed"} /\ pc' \in {"ok", "failed"} /\ UNCHANGED stored
<1>1. CASE \/ ConnectionFails \/ ServerError
           \/ ChecksumFetched \/ OpenFails
           \/ \E status \in {"odd", "4xx"} : FatalStatus(status)
  BY <1>1
     DEF ConnectionFails, ServerError, ChecksumFetched,
         OpenFails, FatalStatus, Connecting,
         RetryRequest, TryNextUrl, Retry, NextAttempt,
         GiveUp
<1>2. CASE \/ DownloadOpened \/ EndOfStream
           \/ \E kind \in Kinds : Chunk(kind)
  BY <1>2 DEF DownloadOpened, EndOfStream, Chunk,
              Connecting, Reading
<1>3. CASE ReadFails \/ TimedOut \/ OutOfSpace \/ VerifyImage
  BY <1>3
     DEF ReadFails, TimedOut, OutOfSpace, VerifyImage,
         Reading, Retry, NextAttempt, GiveUp
<1>4. CASE BecomeOverdue \/ Stopped
  BY <1>4 DEF BecomeOverdue, Stopped
<1> QED BY <1>1, <1>2, <1>3, <1>4 DEF DownloadNext, DownloadStep

(* The steps of the three levels of retries are steps of a fetch that      *)
(* either has the verified image at its target or has failed: the safety   *)
(* part of ImplementsFetch, whose liveness TLC checks.                     *)
THEOREM StepsOfFetch ==
  DownloadSpec
    => Fetch!FetchInit /\ [][Fetch!FetchNext]_(Fetch!fetchVars)
<1>1. DownloadInit => Fetch!FetchInit
  BY DEF DownloadInit, Fetch!FetchInit, Target, Result
<1>2. DownloadInv /\ DownloadInv' /\ [DownloadNext]_downloadVars
        => [Fetch!FetchNext]_(Fetch!fetchVars)
  <2> SUFFICES ASSUME DownloadInv, DownloadInv', [DownloadNext]_downloadVars
               PROVE  Fetch!FetchNext \/ UNCHANGED Fetch!fetchVars
    OBVIOUS
  <2>1. CASE UNCHANGED downloadVars
    BY <2>1 DEF downloadVars, Fetch!fetchVars, Target, Result
  <2>2. CASE pc \notin {"ok", "failed"} /\ pc' \notin {"ok", "failed"}
    <3>1. Target' \in Fetch!Contents
      BY DEF Target, Fetch!Contents
    <3>2. Result = "running" /\ Result' = "running"
      BY <2>2 DEF Result
    <3> QED BY <3>1, <3>2 DEF Fetch!FetchNext, Fetch!Transfer
  <2>3. CASE pc \notin {"ok", "failed"} /\ pc' \in {"ok", "failed"} /\ UNCHANGED stored
    <3>1. Target' = Target /\ Result = "running"
      BY <2>3 DEF Target, Result
    <3>2. CASE pc' = "failed"
      BY <3>1, <3>2 DEF Fetch!FetchNext, Fetch!Fail, Result
    <3>3. CASE pc' = "ok"
      <4>1. \A c \in 1..Chunks : stored'[c] = "good"
        BY <3>3, DownloadConstants DEF DownloadInv, DataTypes, HashInv,
                                       HashMatchesTarget, ChecksumMatches
      <4>2. 1 \in 1..Chunks
        BY DownloadConstants DEF DownloadInv
      <4>3. Target' = "complete"
        BY <4>1, <4>2 DEF Target
      <4> QED BY <3>1, <3>3, <4>3 DEF Fetch!FetchNext, Fetch!Succeed,
                                      Result
    <3> QED BY <2>3, <3>2, <3>3
  <2> QED BY <2>1, <2>2, <2>3, DownloadShapes
<1> QED BY <1>1, <1>2, DownloadHolds, PTL DEF DownloadSpec

=============================================================================
