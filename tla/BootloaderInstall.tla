--------------------------- MODULE BootloaderInstall ---------------------------
(***************************************************************************)
(* install_bootloader, called once DiskPartitioning has prepared the disk  *)
(* (extensions/image.py, efi_utils.py, raid_utils.py): boot records for    *)
(* the loaders on the EFI system partition, its relocation to a RAID of    *)
(* its own when the instance is on software RAID, and grub-install in a    *)
(* chroot of the instance, with the mounts all of them need.  Any command  *)
(* may fail, and the conductor may call again after a failure.             *)
(***************************************************************************)
EXTENDS DiskPartitioning

CONSTANTS Environments, \* see EnvironmentType
          Records,      \* the firmware's boot records before the deployment
          MaxInstalls   \* bound: calls of install_bootloader

\* The ramdisk's boot mode, [DEFAULT]enable_bios_bootloader_install,
\* ignore_bootloader_failure, whether the root filesystem has /boot/efi/EFI, and
\* whether the image came with a BIOS boot loader.
EnvironmentType == [current : {"bios", "uefi"}, legacy : BOOLEAN, ignore : BOOLEAN,
                    assets : BOOLEAN, sector : BOOLEAN]

\* A boot record: its number, its label, and whether it is of this deployment.
\* Labels on software RAID end in the number of the RAID's member.
RecordType == [num : Nat, label : (STRING \X Nat), here : BOOLEAN]

ASSUME InstallAssumption ==
  /\ Environments \subseteq EnvironmentType /\ MaxInstalls \in Nat
  /\ \A R \in Records : R \subseteq RecordType

VARIABLES
  env,
  at,        \* the step of install_bootloader; "idle" between calls
  caller,    \* of _efi_boot_setup: "top" or "preserve"
  pending,   \* what manage_uefi is about to return: "true", "false" or "raise"
  esp,       \* efi_partition, 0 for None
  efi_mounted,
  nvram,
  boot_records, \* as read by _run_efibootmgr
  entry,     \* its position among the records to write
  raid,      \* the RAIDed ESP: what is on it, and whether the source was wiped
  grub,      \* disks grub-install was run on
  error,     \* _install_grub2 is being left by an exception
  path,      \* its temporary directory: "none", "there" or "removed"
  result,    \* of the call: "none", "ok" or "failed"
  how,       \* it succeeded: "records", "grub", "present" or "unneeded"
  installs

efi == <<caller, pending, esp>>
machine == <<nvram, raid, grub>>
bootVars == <<env, at, efi, efi_mounted, machine, boot_records, entry, error, path,
              result, how, installs>>
vars == <<partitionVars, bootVars>>

\* The ESP of the table; only whole-disk images come without UUIDs.
Esps == {n \in DOMAIN use : use[n] = "esp"}
EspGiven == kind = "image" /\ Part("esp") # 0
PrepGiven == kind = "image" /\ Part("prep") # 0
Root == CHOOSE n \in DOMAIN use : use[n] = "root"
Holders == IF request.md THEN {1, 2} ELSE {1}

Mountable(what) == what \notin {"absent", "stale", "broken", "blank", "swap"}

Init ==
  /\ PartitionInit
  /\ env \in Environments /\ nvram \in Records
  /\ at = "idle" /\ caller = "top" /\ pending = "false" /\ esp = 0
  /\ efi_mounted = FALSE /\ boot_records = {} /\ entry = 1
  /\ raid = [holds |-> "absent", wiped |-> FALSE] /\ grub = {}
  /\ error = FALSE /\ path = "none"
  /\ result = "none" /\ how = "unneeded" /\ installs = 0

-----------------------------------------------------------------------------
(* Steps and ends *)

Step(step) == at' = step /\ UNCHANGED <<env, result, how, installs>>

\* The command ends; a failure is swallowed when the conductor asks for that.
Return(failed, way) ==
  /\ at' = "idle" /\ how' = way
  /\ result' = IF failed /\ ~env.ignore THEN "failed" ELSE "ok"
  /\ UNCHANGED <<env, installs>>

\* What install_bootloader and _try_preserve_efi_assets do with the result of
\* _efi_boot_setup.
EfiEnds(r) ==
  IF caller = "preserve" THEN
    IF r = "true" THEN at' = "clean" /\ how' = "records" /\ UNCHANGED <<env, result, installs>>
    ELSE Step("remount")
  ELSE IF r = "true" THEN Return(FALSE, "records")
  ELSE IF r = "raise" /\ ~env.ignore THEN Return(TRUE, how)
  ELSE Step("choose")

Keeps(mounted) == mounts' = mounted /\ UNCHANGED notes
Sticks(mounted) == mounts' = mounted /\ notes' = notes \cup {"stuck"}

\* The umount of a mount point, which may fail for good.
Umount(point) == Keeps(mounts \ {point}) \/ (point \in mounts /\ Sticks(mounts))

\* What the steps below leave alone of the partitioning.
fixed == <<whole, use, seen, locals, file, outcome, calls>>

\* install_bootloader; _efi_boot_setup does nothing in BIOS mode and gives up
\* without efibootmgr.
InstallBootloader ==
  /\ at = "idle" /\ pc \in {"idle", "boot"} /\ outcome = "done"
  /\ result # "ok" /\ installs < MaxInstalls
  /\ pc' = "boot" /\ installs' = installs + 1
  /\ at' \in IF env.current = "uefi" THEN {"find esp", "choose"} ELSE {"choose"}
  /\ caller' = "top" /\ esp' = 0 /\ entry' = 1
  /\ efi_mounted' = FALSE /\ error' = FALSE /\ path' = "none"
  /\ result' = "none" /\ how' = "unneeded" /\ grub' = {}
  /\ UNCHANGED <<fixed, holds, mounts, notes, env, pending, nvram, raid, boot_records>>

-----------------------------------------------------------------------------
(* manage_uefi *)

\* find_efi_partition, then the path of the partition by its GPT number.
FindEsp ==
  /\ at = "find esp"
  /\ \/ \E n \in UNION {Found(IF request.label = "gpt" THEN m ELSE 0, seen) : m \in Esps} :
          /\ esp' = n
          /\ Step("mount esp")
     \/ EfiEnds("raise") /\ UNCHANGED esp
  /\ entry' = 1
  /\ UNCHANGED <<fixed, holds, pc, mounts, notes, caller, pending, efi_mounted, machine,
                 boot_records, error, path>>

\* _get_efi_bootloaders: a CSV file is the only one.
Loaders(what) == IF what = "csv" THEN <<"shim">>
                 ELSE IF what = "loaders" THEN <<"ironic1", "ironic2">> ELSE <<>>

\* Mount and look for loaders.  On software RAID the partition is unmounted
\* again to be relocated.
MountEsp ==
  /\ at = "mount esp"
  /\ \/ /\ Mountable(holds[esp])
        /\ mounts' = mounts \cup {"esp"} /\ efi_mounted' = TRUE
        /\ IF Loaders(holds[esp]) = <<>> THEN Step("leave") /\ pending' = "false"
           ELSE Step(IF request.md THEN "unmount esp" ELSE "entries") /\ UNCHANGED pending
     \/ /\ pending' = "raise"
        /\ Step("leave")
        /\ UNCHANGED <<mounts, efi_mounted>>
  /\ UNCHANGED <<fixed, holds, pc, notes, caller, esp, machine, boot_records, entry,
                 error, path>>

UnmountEsp ==
  /\ at = "unmount esp"
  /\ \/ Keeps(mounts \ {"esp"}) /\ efi_mounted' = FALSE /\ Step("find raid") /\ UNCHANGED pending
     \/ Sticks(mounts) /\ Step("leave") /\ pending' = "raise" /\ UNCHANGED efi_mounted
  /\ UNCHANGED <<fixed, holds, pc, caller, esp, machine, boot_records, entry, error, path>>

\* Mutant: the new mount is not noted for the finally clause.
MutRemountEsp ==
  /\ at = "remount esp"
  /\ \/ mounts' = mounts \cup {"esp"} /\ Step("entries") /\ UNCHANGED <<pending, efi_mounted>>
     \/ pending' = "raise" /\ Step("leave") /\ UNCHANGED <<mounts, efi_mounted>>
  /\ UNCHANGED <<fixed, holds, pc, notes, caller, esp, machine, boot_records, entry,
                 error, path>>

\* The source, wiped by now, is mounted again for what is left to read of it.
RemountEsp ==
  /\ at = "remount esp"
  /\ \/ mounts' = mounts \cup {"esp"} /\ efi_mounted' = TRUE /\ Step("entries") /\ UNCHANGED pending
     \/ pending' = "raise" /\ Step("leave") /\ UNCHANGED <<mounts, efi_mounted>>
  /\ UNCHANGED <<fixed, holds, pc, notes, caller, esp, machine, boot_records, entry,
                 error, path>>

\* The labels to write: one per loader, for each member of the RAID.
Labels ==
  LET L == Loaders(holds[esp]) IN
    IF request.md
    THEN [i \in 1 .. 2 * Len(L) |-> <<L[1 + ((i - 1) % Len(L))], 1 + ((i - 1) \div Len(L))>>]
    ELSE [i \in 1 .. Len(L) |-> <<L[i], 0>>]

FreeNumber == CHOOSE n \in 0 .. Cardinality(nvram) :
                ~\E r \in nvram : r.num = n

\* _run_efibootmgr for one loader: the records are read once for each member;
\* those with its label go, then it is added.  Any of these may fail.
WriteEntry ==
  /\ at = "entries" /\ entry <= Len(Labels)
  /\ LET read == IF (entry - 1) % Len(Loaders(holds[esp])) = 0 THEN nvram ELSE boot_records
         same == {r \in read : r.label = Labels[entry]} IN
       \/ /\ boot_records' = read
          /\ nvram' = (nvram \ same)
                        \cup {[num |-> FreeNumber, label |-> Labels[entry], here |-> TRUE]}
          /\ entry' = entry + 1
          /\ Step("entries") /\ UNCHANGED pending
       \/ /\ \E gone \in SUBSET same : nvram' = nvram \ gone
          /\ pending' = "raise" /\ Step("leave")
          /\ UNCHANGED <<boot_records, entry>>
  /\ UNCHANGED <<fixed, holds, pc, mounts, notes, caller, esp, efi_mounted, raid, grub,
                 error, path>>

EntriesWritten ==
  /\ at = "entries" /\ entry > Len(Labels)
  /\ pending' = "true"
  /\ Step("leave")
  /\ UNCHANGED <<fixed, holds, pc, mounts, notes, caller, esp, efi_mounted, machine,
                 boot_records, entry, error, path>>

\* The finally clause.  An umount that fails is only logged: sys.exc_info() is
\* never empty in the handler that asks it.
LeaveUefi ==
  /\ at = "leave"
  /\ IF efi_mounted THEN Umount("esp") ELSE Keeps(mounts)
  /\ efi_mounted' = FALSE
  /\ EfiEnds(pending)
  /\ UNCHANGED <<fixed, holds, pc, efi, machine, boot_records, entry, error, path>>

-----------------------------------------------------------------------------
(* prepare_boot_partitions_for_softraid, called by manage_uefi, or by *)
(* _install_grub2 when path is set                                    *)

InGrub == path = "there"

PrepareFails ==
  IF InGrub THEN error' = TRUE /\ Step("clean") /\ UNCHANGED pending
  ELSE pending' = "raise" /\ Step("leave") /\ UNCHANGED error

Prepared ==
  Step(IF InGrub THEN "mount root" ELSE "remount esp") /\ UNCHANGED <<pending, error>>

\* find_esp_raid: a RAID 1 with a vfat filesystem on it.
FindEspRaid ==
  /\ at = "find raid"
  /\ \/ Step(IF raid.holds \in {"vfat", "loaders", "csv"} THEN "relocate" ELSE "create raid")
        /\ UNCHANGED <<pending, error>>
     \/ PrepareFails
  /\ UNCHANGED <<fixed, holds, pc, mounts, notes, caller, esp, efi_mounted, machine,
                 boot_records, entry, path>>

\* A partition on each holder and a RAID of them; an earlier call may have made
\* some.
CreateEspRaid ==
  /\ at = "create raid"
  /\ \/ /\ raid' = [raid EXCEPT !.holds = "blank"]
        /\ Step("relocate") /\ UNCHANGED <<pending, error>>
     \/ PrepareFails /\ UNCHANGED raid
  /\ UNCHANGED <<fixed, holds, pc, mounts, notes, caller, esp, efi_mounted, nvram, grub,
                 boot_records, entry, path>>

Source == IF esp # 0 THEN esp ELSE IF Esps # {} THEN CHOOSE n \in Esps : TRUE ELSE 0

\* Mutant: a RAID that was found is taken to have the loaders already.
MutRelocate ==
  /\ at = "relocate"
  /\ Prepared
  /\ raid' = IF raid.holds = "blank" /\ Source # 0
             THEN [holds |-> holds[Source], wiped |-> TRUE] ELSE raid
  /\ Keeps(mounts)
  /\ UNCHANGED <<fixed, holds, pc, caller, esp, efi_mounted, nvram, grub, boot_records,
                 entry, path>>

\* The contents are copied, then the source loses its signature.  The umounts
\* of the copy are best effort; mkfs and wipefs refuse what is mounted.  Without
\* a source the RAID gets an empty filesystem.
Relocate ==
  /\ at = "relocate"
  /\ \/ /\ Source # 0 /\ Mountable(holds[Source]) /\ "copy" \notin mounts
        /\ raid' = [holds |-> holds[Source], wiped |-> TRUE]
        /\ Keeps(mounts) \/ Sticks(mounts \cup {"copy"})
        /\ Prepared
     \/ /\ Source = 0 /\ "copy" \notin mounts
        /\ raid' = [raid EXCEPT !.holds = "vfat"]
        /\ Keeps(mounts)
        /\ Prepared
     \/ /\ \/ raid' \in {raid, [raid EXCEPT !.holds = "broken"]}
           \/ Source # 0 /\ raid' = [raid EXCEPT !.holds = holds[Source]]
        /\ Keeps(mounts) \/ Sticks(mounts \cup {"copy"})
        /\ PrepareFails
  /\ UNCHANGED <<fixed, holds, pc, caller, esp, efi_mounted, nvram, grub, boot_records,
                 entry, path>>

-----------------------------------------------------------------------------
(* _install_grub2 *)

Binds == {"/dev", "/proc", "/run", "/sys"}

\* What is left of install_bootloader when no record was written.  The UUID of
\* a whole-disk image's root may be known on software RAID.
Choose ==
  /\ at = "choose"
  /\ \/ kind = "drive" /\ Return(FALSE, "unneeded")
     \/ (kind = "image" \/ request.md) /\ env.legacy /\ Step("grub")
     \/ (kind = "image" \/ request.md) /\ ~env.legacy /\ Return(TRUE, "unneeded")
  /\ UNCHANGED <<fixed, holds, pc, mounts, notes, efi, efi_mounted, machine,
                 boot_records, entry, error, path>>

\* The root partition; the restart of an md device; a boot loader that is there.
BeginGrub ==
  /\ at = "grub"
  /\ \/ /\ Found(Root, seen) # {}
        /\ IF ~request.md /\ env.sector /\ env.current = "bios" /\ ~EspGiven /\ ~PrepGiven
           THEN Return(FALSE, "present") /\ UNCHANGED path
           ELSE Step("esp") /\ path' = "there"
     \/ Return(TRUE, "unneeded") /\ UNCHANGED path
  /\ UNCHANGED <<fixed, holds, pc, mounts, notes, efi, efi_mounted, machine,
                 boot_records, entry, error>>

GrubFails == error' = TRUE /\ Step("clean")

\* The ESP of the deployment, and the boot partitions of software RAID; for BIOS
\* these are BIOS boot partitions on the holders.
FindGrubEsp ==
  /\ at = "esp"
  /\ \/ /\ \E n \in IF EspGiven THEN Found(Part("esp"), seen) ELSE {0} : esp' = n
        /\ Step(IF request.md /\ request.mode = "uefi" THEN "find raid" ELSE "mount root")
        /\ UNCHANGED error
     \/ GrubFails /\ UNCHANGED esp
  /\ UNCHANGED <<fixed, holds, pc, mounts, notes, caller, pending, efi_mounted, machine,
                 boot_records, entry, path>>

HasEsp == EspGiven \/ (request.md /\ request.mode = "uefi")

\* The root filesystem, then the bind mounts.
MountRoot ==
  /\ at = "mount root"
  /\ \/ /\ Keeps(mounts \cup {"root"} \cup Binds)
        /\ Step(IF HasEsp /\ ~request.md THEN "preserve" ELSE "vfat") /\ UNCHANGED error
     \/ Keeps(mounts) /\ GrubFails
     \/ /\ \E some \in {{}, {"/dev"}, {"/dev", "/proc", "/run"}} :
             mounts' = mounts \cup {"root"} \cup some
        /\ notes' = notes \cup {"unbound"}
        /\ GrubFails
  /\ UNCHANGED <<fixed, holds, pc, efi, efi_mounted, machine, boot_records, entry, path>>

\* _try_preserve_efi_assets and _preserve_efi_assets: the assets of the root
\* filesystem are copied to the ESP, unless it has some, and boot records
\* written for them.
Preserve ==
  /\ at = "preserve"
  /\ \/ /\ ~env.assets
        /\ Step("remount") /\ UNCHANGED <<error, caller, holds, mounts, notes>>
     \/ /\ env.assets
        /\ GrubFails /\ UNCHANGED <<caller, holds, mounts, notes>>
     \/ /\ env.assets /\ Mountable(holds[esp]) /\ Loaders(holds[esp]) = <<>>
        /\ holds' = [holds EXCEPT ![esp] = "loaders"]
        /\ caller' = "preserve"
        /\ Step(IF env.current = "uefi" THEN "find esp" ELSE "remount")
        /\ Keeps(mounts) /\ UNCHANGED error
     \/ /\ env.assets
        /\ holds' \in {holds, [holds EXCEPT ![esp] = "broken"], [holds EXCEPT ![esp] = "loaders"]}
        /\ Keeps(mounts) \/ (Mountable(holds[esp]) /\ Sticks(mounts \cup {"boot/efi"}))
        /\ Step("remount") /\ UNCHANGED <<error, caller>>
  /\ UNCHANGED <<fixed, pc, pending, esp, efi_mounted, machine, boot_records, entry, path>>

\* _mount_partition finds the root mounted, or tries to mount it again and trips
\* over the test for that; then the vfat partitions of the instance's fstab.
MountVfat ==
  /\ at \in {"remount", "vfat"}
  /\ \/ /\ \/ Keeps(mounts)
           \/ Mountable(IF request.md THEN raid.holds ELSE "vfat") /\ HasEsp
              /\ Keeps(mounts \cup {"boot/efi"})
        /\ Step("install") /\ UNCHANGED error
     \/ Keeps(mounts) /\ GrubFails
  /\ UNCHANGED <<fixed, holds, pc, efi, efi_mounted, machine, boot_records, entry, path>>

\* grub-install for UEFI, twice, with failures ignored.
GrubOnEsp ==
  /\ at = "install" /\ HasEsp
  /\ \/ /\ mounts' = mounts \cup {"boot/efi"} /\ efi_mounted' = TRUE
        /\ \/ /\ IF request.md THEN raid' = [raid EXCEPT !.holds = "loaders"] /\ UNCHANGED holds
                 ELSE holds' = [holds EXCEPT ![esp] = "loaders"] /\ UNCHANGED raid
              /\ UNCHANGED notes
           \/ notes' = notes \cup {"grub ignored"} /\ UNCHANGED <<holds, raid>>
        /\ Step("cycle") /\ UNCHANGED error
     \/ /\ "boot/efi" \notin mounts
        /\ GrubFails
        /\ UNCHANGED <<holds, raid, mounts, notes, efi_mounted>>
  /\ UNCHANGED <<fixed, pc, efi, nvram, grub, boot_records, entry, path>>

\* The ESP is unmounted to have it written, and mounted again for the
\* configuration.
CycleEsp ==
  /\ at = "cycle"
  /\ \/ Step("configure") /\ Keeps(mounts) /\ UNCHANGED <<efi_mounted, error>>
     \/ GrubFails /\ Sticks(mounts) /\ UNCHANGED efi_mounted
     \/ GrubFails /\ Keeps(mounts \ {"boot/efi"}) /\ efi_mounted' = FALSE
  /\ UNCHANGED <<fixed, holds, pc, efi, machine, boot_records, entry, path>>

\* grub-install on the disk, the PReP partition, or each holder in its turn.
GrubOnDisks ==
  /\ at = "install" /\ ~HasEsp
  /\ \/ grub' = Holders /\ Step("configure") /\ UNCHANGED error
     \/ grub' \in {{}, {1}} /\ GrubFails
  /\ UNCHANGED <<fixed, holds, pc, mounts, notes, efi, efi_mounted, nvram, raid,
                 boot_records, entry, path>>

Configure ==
  /\ at = "configure"
  /\ \/ at' = "clean" /\ how' = "grub" /\ UNCHANGED <<env, result, installs, error>>
     \/ GrubFails
  /\ UNCHANGED <<fixed, holds, pc, mounts, notes, efi, efi_mounted, machine,
                 boot_records, entry, path>>

\* The finally clause.  The ESP first, whose failure ends it.
CleanEsp ==
  /\ at = "clean"
  /\ \/ /\ efi_mounted
        /\ Sticks(mounts)
        /\ Return(TRUE, how)
     \/ /\ IF efi_mounted THEN Keeps(mounts \ {"boot/efi"}) ELSE Keeps(mounts)
        /\ Step("unbind")
  /\ UNCHANGED <<fixed, holds, pc, efi, efi_mounted, machine, boot_records, entry, error,
                 path>>

\* The vfat partitions and the bind mounts, as far as they let themselves be
\* unmounted; the root only when every bind mount went, and the directory only
\* when the root did.  An umount of what is not mounted fails too.
CleanRoot ==
  /\ at = "unbind"
  /\ \E left \in SUBSET (mounts \cap ({"boot/efi", "root"} \cup Binds)) :
       /\ left # {} => "root" \in left
       /\ mounts' = (mounts \ ({"boot/efi", "root"} \cup Binds)) \cup left
       /\ IF Binds \cup {"root"} \subseteq mounts
          THEN /\ notes' = IF left = {} THEN notes ELSE notes \cup {"stuck"}
               /\ path' = IF left = {} THEN "removed" ELSE path
          ELSE /\ "root" \in mounts => "root" \in left
               /\ notes' = IF left \subseteq {"root"} THEN notes ELSE notes \cup {"stuck"}
               /\ UNCHANGED path
  /\ Return(error, how)
  /\ UNCHANGED <<fixed, holds, pc, efi, efi_mounted, machine, boot_records, entry, error>>

-----------------------------------------------------------------------------
ManageUefi == FindEsp \/ MountEsp \/ UnmountEsp \/ RemountEsp \/ WriteEntry
                \/ EntriesWritten \/ LeaveUefi
SoftRaid == FindEspRaid \/ CreateEspRaid \/ Relocate
Grub == BeginGrub \/ FindGrubEsp \/ MountRoot \/ Preserve \/ MountVfat \/ GrubOnEsp
          \/ CycleEsp \/ GrubOnDisks \/ Configure \/ CleanEsp \/ CleanRoot

Next ==
  \/ PartitionNext /\ UNCHANGED bootVars
  \/ InstallBootloader \/ Choose \/ ManageUefi \/ SoftRaid \/ Grub

Spec == Init /\ [][Next]_vars

-----------------------------------------------------------------------------
(* Properties *)

TypeOK ==
  /\ PartitionTypeOK
  /\ env \in Environments /\ nvram \subseteq RecordType /\ boot_records \subseteq RecordType
  /\ caller \in {"top", "preserve"} /\ pending \in {"true", "false", "raise"}
  /\ esp \in 0 .. 8 /\ efi_mounted \in BOOLEAN /\ error \in BOOLEAN
  /\ raid.wiped \in BOOLEAN /\ grub \subseteq {1, 2}
  /\ path \in {"none", "there", "removed"} /\ result \in {"none", "ok", "failed"}
  /\ how \in {"records", "grub", "present", "unneeded"} /\ installs \in 0 .. MaxInstalls

\* A success that relied on boot records: one for each label, of this
\* deployment, and the loaders where the firmware will look for them; on
\* software RAID that is the RAIDed ESP, the other is wiped.
RecordsBoot ==
  /\ Labels # <<>>
  /\ \A i \in DOMAIN Labels :
       \E r \in nvram : r.here /\ {s \in nvram : s.label = Labels[i]} = {r}
  /\ request.md => raid = [holds |-> holds[esp], wiped |-> TRUE]

\* One that relied on grub-install: it ran for every disk, or for the ESP.
GrubBoots ==
  IF HasEsp THEN Loaders(IF request.md THEN raid.holds ELSE holds[esp]) # <<>>
  ELSE Holders \subseteq grub

\* Why a whole-disk image may need nothing: BIOS mode, no efibootmgr (the ESP was
\* then never looked for), or no loader on its ESP.
NothingFound == env.current = "bios" \/ esp = 0 \/ Loaders(holds[esp]) = <<>>

\* When install_bootloader succeeds, whatever an earlier call left half done, the
\* machine has boot records or a grub, or brings its own BIOS boot loader.  The
\* exceptions are all there are: a failed grub-install for UEFI, which the code
\* ignores on purpose; a whole-disk image without records or a known root, which
\* is assumed to boot by itself even in UEFI mode without loaders or efibootmgr;
\* and ignore_bootloader_failure.  The last two are successes where the docstring
\* (image.py:692) has CommandExecutionError.  No other failure becomes one.
SuccessBoots ==
  result = "ok" =>
    \/ how = "records" /\ RecordsBoot
    \/ how = "grub" /\ (GrubBoots \/ (HasEsp /\ "grub ignored" \in notes))
    \/ how = "present" /\ env.sector /\ env.current = "bios" /\ ~request.md
    \/ how = "unneeded" /\ ((kind = "drive" /\ NothingFound) \/ env.ignore)

\* Between calls nothing is mounted, unless an umount failed, or one of the bind
\* mounts: the clean-up then takes the ones that were never made for ones that
\* cannot be undone.  And the temporary directory is removed, with everything
\* below it, only when nothing is mounted there: the instance's files would be.
MountsAreReleased ==
  /\ at = "idle" /\ pc \in {"idle", "boot"} /\ mounts # {}
       => notes \cap {"stuck", "unbound"} # {}
  /\ path = "removed" => mounts \cap ({"root", "boot/efi"} \cup Binds) = {}

=============================================================================
