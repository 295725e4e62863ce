--------------------------- MODULE BlockDeviceErase ---------------------------
(***************************************************************************)
(* Erasing one block device (hardware.py, GenericHardwareManager):         *)
(* erase_block_device with the ATA security state machine that _ata_erase  *)
(* drives through hdparm, _nvme_erase, and the fallback to shred.  Any     *)
(* command may fail, the machine may lose power between any two of them,   *)
(* and Ironic may ask for the erasure again.                               *)
(***************************************************************************)
EXTENDS Naturals

CONSTANTS Kinds,      \* kinds of device considered, a subset of AllKinds
          MaxReboots  \* bound: power cycles

AllKinds == {"ata", "nvme", "virtual", "raid", "readonly"}

\* "NULL" on hdparm's command line is the literal string for versions before
\* 9.51 and the empty password for later ones.
NullReadings == {"literal", "empty"}
Passwords == {"none", "foreign"} \cup NullReadings

\* driver_internal_info: agent_enable_{ata,nvme}_secure_erase,
\* agent_continue_if_secure_erase_failed, agent_erase_skip_read_only.
Options == [secure : BOOLEAN, fallback : BOOLEAN, skipReadOnly : BOOLEAN]

\* What hdparm -I tells of a drive.
Security == [supported : BOOLEAN, enabled : BOOLEAN, locked : BOOLEAN,
             frozen : BOOLEAN]

VARIABLES
  kind,
  drive,      \* the security state of the drive itself
  password,   \* the user password it holds
  data,       \* "intact" or "erased"
  null,       \* how this ramdisk's hdparm reads NULL
  opt,        \* the options of the running attempt
  pc,
  lines,      \* security_lines, as last read
  tries,      \* passwords tried in the unlock loop
  recovering, \* the unlock loop runs after a failed erase, not before one
  reason,     \* what the BlockDeviceEraseError of this attempt says
  hiccup,     \* history: a command failed that the drive could have executed, other
              \* than security-erase
  outcome,    \* of the last attempt
  reboots

device == <<kind, drive, password, data, null>>
local == <<lines, tries, recovering>>
vars == <<device, opt, pc, local, reason, hiccup, outcome, reboots>>

AtPowerOn(d) ==
  {s \in Security : /\ s.supported = d.supported /\ s.enabled = d.enabled
                    /\ s.locked = d.enabled
                    /\ s.frozen => s.supported}

Unread == [supported |-> FALSE, enabled |-> FALSE, locked |-> FALSE, frozen |-> FALSE]

Init ==
  /\ kind \in Kinds
  /\ password \in Passwords
  /\ \E d \in Security :
       /\ d.enabled = (password # "none")
       /\ d.enabled => d.supported
       /\ d.supported => kind = "ata"
       /\ drive \in AtPowerOn(d)
  /\ data = "intact" /\ null \in NullReadings
  /\ opt \in Options
  /\ pc = "idle" /\ lines = Unread /\ tries = 0 /\ recovering = FALSE
  /\ reason = "none" /\ hiccup = FALSE /\ outcome = "none" /\ reboots = 0

-----------------------------------------------------------------------------
(* Ends of an attempt *)

Finish(result) ==
  /\ pc' = "idle" /\ outcome' = result
  /\ lines' = Unread /\ tries' = 0 /\ recovering' = FALSE
  /\ UNCHANGED <<opt, reboots>>

\* A BlockDeviceEraseError: shred instead, if the conductor allows that.
Refuse(why) ==
  /\ reason' = why
  /\ IF opt.fallback THEN pc' = "shred" /\ UNCHANGED <<outcome, opt, reboots, local>>
     ELSE Finish("failed")

\* A command fails, and nothing handles the error.
CommandFails ==
  /\ hiccup' = TRUE
  /\ Finish("failed")
  /\ UNCHANGED <<device, reason>>

-----------------------------------------------------------------------------
(* erase_block_device *)

\* Ironic asks for the device to be erased.  It may have been used since the
\* last time.
Begin ==
  /\ pc = "idle"
  /\ data' = "intact"
  /\ opt' \in Options
  /\ pc' = "look" /\ reason' = "none" /\ hiccup' = FALSE /\ outcome' = "none"
  /\ UNCHANGED <<kind, drive, password, null, local, reboots>>

Skip ==
  /\ pc = "look"
  /\ kind \in {"virtual", "raid"} \/ (kind = "readonly" /\ opt.skipReadOnly)
  /\ Finish("ok")
  /\ UNCHANGED <<device, reason, hiccup>>

RefuseReadOnly ==
  /\ pc = "look" /\ kind = "readonly" /\ ~opt.skipReadOnly
  /\ Finish("failed")
  /\ UNCHANGED <<device, reason, hiccup>>

Choose ==
  /\ pc = "look" /\ kind \in {"ata", "nvme"}
  /\ pc' = IF ~opt.secure THEN "shred"
           ELSE IF kind = "ata" THEN "read" ELSE "format"
  /\ UNCHANGED <<device, opt, local, reason, hiccup, outcome, reboots>>

\* Mutant: a failed format counts as done.
MutNvmeErase ==
  /\ pc = "format"
  /\ \/ data' = "erased" /\ UNCHANGED hiccup
     \/ hiccup' = TRUE /\ UNCHANGED data
  /\ Finish("ok")
  /\ UNCHANGED <<kind, drive, password, null, reason>>

\* nvme id-ctrl and nvme format, by the mode the controller supports.
NvmeErase ==
  /\ pc = "format"
  /\ \/ /\ data' = "erased"
        /\ Finish("ok")
        /\ UNCHANGED <<reason, hiccup>>
     \/ /\ hiccup' = TRUE
        /\ Refuse("format")
        /\ UNCHANGED data
  /\ UNCHANGED <<kind, drive, password, null>>

\* shred cannot write to a locked drive.
Shred ==
  /\ pc = "shred"
  /\ \/ /\ ~drive.locked
        /\ data' = "erased"
        /\ Finish("ok")
        /\ UNCHANGED <<kind, drive, password, null, reason, hiccup>>
     \/ (Finish("failed") /\ UNCHANGED <<device, reason, hiccup>>)

-----------------------------------------------------------------------------
(* _ata_erase *)

\* The first hdparm -I, and smartctl, which may find that the device does not
\* take ATA commands.
ReadSecurity ==
  /\ pc = "read"
  /\ lines' = drive
  /\ \/ /\ pc' = "shred"
        /\ UNCHANGED <<tries, opt, reason, outcome, reboots>>
     \/ /\ drive.supported /\ ~drive.frozen
        /\ pc' = "unlock" /\ tries' = 0
        /\ UNCHANGED <<opt, reason, outcome, reboots>>
  /\ UNCHANGED <<device, recovering, hiccup>>

RefuseFrozen ==
  /\ pc = "read" /\ drive.supported /\ drive.frozen
  /\ Refuse("frozen")
  /\ UNCHANGED <<device, hiccup>>

UnlockPasswords == <<null, "empty">>

\* The drive takes the password, or the command fails.
Unlock ==
  /\ pc = "unlock" /\ lines.locked /\ tries < 2
  /\ tries' = tries + 1
  /\ \/ /\ password = UnlockPasswords[tries']
        /\ drive' = [drive EXCEPT !.locked = FALSE]
        /\ UNCHANGED hiccup
     \/ /\ hiccup' = (hiccup \/ password = UnlockPasswords[tries'])
        /\ UNCHANGED drive
  /\ lines' = drive'
  /\ UNCHANGED <<kind, password, data, null, opt, pc, recovering, reason, outcome,
                 reboots>>

Unlocked == ~lines.locked \/ tries = 2

\* After a failed erase the error is raised whether the drive opened or not.
Recovered ==
  /\ pc = "unlock" /\ Unlocked /\ recovering
  /\ Refuse("erase")
  /\ UNCHANGED <<device, hiccup>>

\* Mutant: the unlock loop is left out.
MutRefuseLocked ==
  /\ pc = "unlock" /\ ~recovering /\ lines.locked
  /\ Refuse("locked")
  /\ UNCHANGED <<device, hiccup>>

RefuseLocked ==
  /\ pc = "unlock" /\ Unlocked /\ ~recovering /\ lines.locked
  /\ Refuse("locked")
  /\ UNCHANGED <<device, hiccup>>

\* The drive is open.  A password is set unless there is one.
SetPassword ==
  /\ pc = "unlock" /\ ~recovering /\ ~lines.locked
  /\ \/ /\ lines.enabled
        /\ pc' = "erase"
        /\ UNCHANGED <<device, opt, local, reason, hiccup, outcome, reboots>>
     \/ /\ ~lines.enabled
        /\ password' = null
        /\ drive' = [drive EXCEPT !.enabled = TRUE]
        /\ pc' = "erase"
        /\ UNCHANGED <<kind, data, null, opt, local, reason, hiccup, outcome, reboots>>
     \/ /\ ~lines.enabled
        /\ hiccup' = TRUE
        /\ Refuse("password")
        /\ UNCHANGED device

\* security-erase clears the password; when it fails it may lock the drive,
\* whose state is then read again to unlock it.
SecureErase ==
  /\ pc = "erase"
  /\ \/ /\ password = null
        /\ data' = "erased" /\ password' = "none"
        /\ drive' = [drive EXCEPT !.enabled = FALSE]
        /\ pc' = "verify"
        /\ UNCHANGED local
     \/ /\ \E l \in BOOLEAN : drive' = [drive EXCEPT !.locked = l]
        /\ pc' = "unlock" /\ lines' = drive' /\ tries' = 0 /\ recovering' = TRUE
        /\ UNCHANGED <<data, password>>
  /\ UNCHANGED <<kind, null, opt, reason, hiccup, outcome, reboots>>

Verify ==
  /\ pc = "verify"
  /\ \/ (~drive.enabled /\ Finish("ok") /\ UNCHANGED reason)
     \/ (drive.enabled /\ Refuse("unknown"))
  /\ UNCHANGED <<device, hiccup>>

\* Any hdparm -I may fail, which nothing catches.
Unreadable == pc \in {"read", "unlock", "verify"} /\ CommandFails

\* The power goes: the attempt is over, the drive locks if it has a password,
\* and another ramdisk may boot.
PowerCycle ==
  /\ reboots < MaxReboots
  /\ reboots' = reboots + 1
  /\ drive' \in AtPowerOn(drive)
  /\ null' \in NullReadings
  /\ pc' = "idle" /\ lines' = Unread /\ tries' = 0 /\ recovering' = FALSE
  /\ outcome' = IF pc = "idle" THEN outcome ELSE "none"
  /\ reason' = "none" /\ hiccup' = FALSE
  /\ UNCHANGED <<kind, password, data, opt>>

Progress ==
  \/ Skip \/ RefuseReadOnly \/ Choose \/ NvmeErase \/ Shred
  \/ ReadSecurity \/ RefuseFrozen \/ Unlock \/ Recovered \/ RefuseLocked
  \/ SetPassword \/ SecureErase \/ Verify

Next == Begin \/ Progress \/ Unreadable \/ PowerCycle

Spec == Init /\ [][Next]_vars

-----------------------------------------------------------------------------
(* Properties *)

TypeOK ==
  /\ kind \in Kinds /\ drive \in Security /\ password \in Passwords
  /\ drive.enabled = (password # "none")
  /\ drive.locked => drive.enabled
  /\ data \in {"intact", "erased"} /\ null \in NullReadings
  /\ opt \in Options /\ lines \in Security /\ tries \in 0 .. 2
  /\ recovering \in BOOLEAN /\ hiccup \in BOOLEAN
  /\ pc \in {"idle", "look", "read", "unlock", "erase", "verify", "format", "shred"}
  /\ reason \in {"none", "format", "frozen", "locked", "password", "erase", "unknown"}
  /\ outcome \in {"none", "ok", "failed"}
  /\ reboots \in 0 .. MaxReboots

=============================================================================
