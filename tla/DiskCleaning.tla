----------------------------- MODULE DiskCleaning -----------------------------
(***************************************************************************)
(* A node being cleaned, over several steps and restarts: the steps of     *)
(* DeviceErasure, in which the task of one disk, Detailed, runs the        *)
(* commands of BlockDeviceErase.  The power may fail while the threads of  *)
(* the pool are at work; the agent then starts anew, and is asked for an   *)
(* erasing step again.                                                     *)
(***************************************************************************)
EXTENDS DeviceErasure

CONSTANTS Detailed,   \* a disk
          Kinds,      \* kinds of device it may be
          MaxReboots, \* bound: power cycles
          MaxSteps    \* bound: erasing steps

VARIABLES kind, drive, password, data, null, opt, pc, lines, tries, recovering,
          reason, hiccup, outcome, reboots, \* see BlockDeviceErase
          steps,
          options \* of the node: the same for every disk and every attempt

Attempt == INSTANCE BlockDeviceErase
attemptVars == <<kind, drive, password, data, null, opt, pc, lines, tries, recovering,
                 reason, hiccup, outcome, reboots>>
cleaningVars == <<vars, attemptVars, steps, options>>

ASSUME CleaningAssumption ==
  /\ Detailed \in Disks
  /\ Kinds \subseteq Attempt!AllKinds
  /\ MaxReboots \in Nat /\ MaxSteps \in Nat \ {0}

CleaningInit == Init /\ Attempt!Init /\ options = opt /\ steps = 1

-----------------------------------------------------------------------------
\* The loop of the step, and the other threads.
Elsewhere ==
  /\ Loop \/ \E d \in Disks \ {Detailed} : Take(d) \/ TaskEnds(d)
  /\ UNCHANGED <<attemptVars, steps, options>>

\* A thread takes the disk up, and goes through its commands.
Start ==
  /\ Take(Detailed)
  /\ Attempt!Begin /\ opt' = options
  /\ UNCHANGED <<steps, options>>

Proceed ==
  /\ task[Detailed] = "running"
  /\ Attempt!Progress \/ Attempt!Unreadable
  /\ UNCHANGED <<vars, steps, options>>

End ==
  /\ pc = "idle" /\ outcome # "none"
  /\ TaskEnds(Detailed)
  /\ task'[Detailed] = IF outcome = "ok" THEN "done" ELSE "raised"
  /\ UNCHANGED <<attemptVars, steps, options>>

\* The agent is asked for a step, of the same node.
NewStep ==
  /\ steps < MaxSteps
  /\ steps' = steps + 1
  /\ method' \in Methods
  /\ list' = ListFor(method') /\ next' = 1
  /\ task' = [d \in Disks |-> "none"]
  /\ errors' = {}
  /\ command' = "looping" /\ why' = "none"
  /\ UNCHANGED <<guard, wipe, pool, options>>

\* The next step, when nothing of the one before is left.
Again ==
  /\ command \in {"ok", "failed"} /\ Running \cup Queued = {}
  /\ NewStep
  /\ erased' = {}
  /\ UNCHANGED <<fs, attemptVars>>

\* The power fails, at any point.
Restart ==
  /\ NewStep
  /\ erased' = {}
  /\ Attempt!PowerCycle
  /\ UNCHANGED fs

CleaningNext == Elsewhere \/ Start \/ Proceed \/ End \/ Again \/ Restart

CleaningSpec == CleaningInit /\ [][CleaningNext]_cleaningVars

-----------------------------------------------------------------------------
(* Properties *)

CleaningTypeOK ==
  /\ TypeOK /\ Attempt!TypeOK
  /\ options \in Attempt!Options /\ steps \in 1 .. MaxSteps

Skipped == kind \in {"virtual", "raid", "readonly"}

\* What a step reports is right, whatever the threads of the pool do and however
\* the commands for one disk fail.  A success means that every device listed was
\* erased, or is of a kind to be skipped; a failure of the steps that walk over
\* the devices leaves none of them untried; and with a result no thread is at
\* work any more (all three steps).
ReportIsRight ==
  /\ command = "ok" =>
       /\ Listed \subseteq erased /\ errors = {}
       /\ method = "devices" => data = "erased" \/ Skipped
  /\ why = "erase" /\ method # "devices" => Listed \subseteq erased \cup errors
  /\ command = "ok" \/ why = "erase" => Running \cup Queued = {}

\* A drive left locked by an earlier step, or by a power failure in the middle
\* of one, does not fail a later attempt: the password is found unless a command
\* fails or it was set by somebody else, or by a version of hdparm that read NULL
\* as this one does not (__attempt_unlock_drive).  Nor does a failed secure erase
\* leave the drive locked for the shred that follows it.
LockIsOpened ==
  /\ reason = "locked" =>
       hiccup \/ password = "foreign" \/ (password = "literal" /\ null = "empty")
  /\ pc = "shred" /\ reason = "erase" /\ password = null => ~drive.locked \/ hiccup

\* The steps that walk over disks and partitions write neither to a partition with
\* VMFS, while the guard is on, nor to the disk it is on: "to abort prior to
\* destroying the contents on the disk" (doc/source/admin/hardware_managers.rst:195)
\* takes the partition's turn to come first.  It is all of that promise that the
\* code keeps: erase_devices asks for disks only, none of which is ever identified,
\* and erases the disk of such a partition; nor does any step find VMFS on a whole
\* disk, or GFS2, or a partition that is hidden from it.
VmfsIsKept ==
  \A d \in Devices \ Disks :
    Guarded /\ fs[d] = "vmfs" /\ method # "devices" /\ d \in Listed =>
      {d, Disk[d]} \cap erased = {}

=============================================================================
