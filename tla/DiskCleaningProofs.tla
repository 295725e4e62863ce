-------------------------- MODULE DiskCleaningProofs --------------------------
(***************************************************************************)
(* Proofs about DiskCleaning, for any number of devices, threads, steps    *)
(* and power cycles: no attempt to erase a drive locks the next one out,   *)
(* the walks over disks and partitions keep VMFS, and what a step reports  *)
(* is right.                                                               *)
(***************************************************************************)
EXTENDS DiskCleaning, TLAPS, FiniteSetTheorems, WellFoundedInduction

Security == Attempt!Security
Opened == {"look", "read", "unlock", "erase", "verify", "format"}

(* What the loop over the passwords knows: the drive is as it was last     *)
(* read, and a password that was tried does not fit, unless a command      *)
(* failed.                                                                 *)
TriedInv ==
  pc = "unlock" =>
    /\ lines = drive
    /\ drive.locked /\ tries \in {1, 2} /\ password = null => hiccup
    /\ drive.locked /\ tries = 2 /\ password = "empty" => hiccup

(* A drive is locked only by a password, and an attempt has a reason to    *)
(* fail only when it is over, or was left to shred.                        *)
DriveInv ==
  /\ drive \in Security /\ password \in Attempt!Passwords
  /\ null \in Attempt!NullReadings /\ tries \in 0 .. 2 /\ hiccup \in BOOLEAN
  /\ drive.enabled <=> password # "none"
  /\ drive.locked => drive.enabled
  /\ pc = "erase" => drive.enabled /\ ~drive.locked
  /\ pc \in Opened => reason = "none"

IInv == DriveInv /\ TriedInv /\ LockIsOpened

-----------------------------------------------------------------------------
(* How drives change                                                       *)

LEMMA Flags == \A d \in Security : d.enabled \in BOOLEAN /\ d.locked \in BOOLEAN
BY DEF Security, Attempt!Security

LEMMA Cycled ==
  ASSUME NEW d \in Security, NEW s \in Attempt!AtPowerOn(d)
  PROVE  s \in Security /\ s.enabled = d.enabled /\ s.locked = d.enabled
BY DEF Attempt!AtPowerOn, Security

LEMMA Changed ==
  ASSUME NEW d \in Security, NEW b \in BOOLEAN
  PROVE  /\ [d EXCEPT !.locked = b] \in Security
         /\ [d EXCEPT !.locked = b].locked = b
         /\ [d EXCEPT !.locked = b].enabled = d.enabled
         /\ [d EXCEPT !.enabled = b] \in Security
         /\ [d EXCEPT !.enabled = b].locked = d.locked
         /\ [d EXCEPT !.enabled = b].enabled = b
BY DEF Security, Attempt!Security

LEMMA Initial == CleaningInit => IInv
<1> SUFFICES ASSUME Attempt!Init
             PROVE  IInv
  BY DEF CleaningInit
<1>1. PICK d \in Security :
        /\ d.enabled = (password # "none")
        /\ drive \in Attempt!AtPowerOn(d)
  BY DEF Attempt!Init, Security
<1>2. drive \in Security /\ drive.enabled = d.enabled /\ drive.locked = d.enabled
  BY <1>1, Cycled
<1>3. /\ drive \in Security
      /\ drive.enabled <=> password # "none"
      /\ drive.locked => drive.enabled
  BY <1>1, <1>2, Flags
<1> QED
  <2>1. drive \in Security
    BY <1>3
  <2>2. password \in Attempt!Passwords /\ null \in Attempt!NullReadings
    BY DEF Attempt!Init
  <2>3. tries \in 0 .. 2 /\ pc = "idle" /\ reason = "none"
    BY DEF Attempt!Init
  <2>4. hiccup \in BOOLEAN
    BY DEF Attempt!Init
  <2>5. DriveInv
    BY <1>3, <2>1, <2>2, <2>3, <2>4 DEF DriveInv, Opened
  <2> QED BY <2>3, <2>5 DEF IInv, TriedInv, LockIsOpened

(* A new attempt, and the loss of power.                                   *)
LEMMA BeginKeeps == IInv /\ Attempt!Begin => IInv'
BY DEF IInv, DriveInv, TriedInv, LockIsOpened, Opened, Attempt!Begin, Attempt!local

LEMMA PowerCycleKeeps == IInv /\ Attempt!PowerCycle => IInv'
<1> SUFFICES ASSUME IInv, Attempt!PowerCycle
             PROVE  IInv'
  OBVIOUS
<1>1. /\ drive' \in Security /\ drive'.enabled = drive.enabled
      /\ drive'.locked = drive.enabled
  BY Cycled DEF Attempt!PowerCycle, IInv, DriveInv
<1>2. drive'.locked => drive'.enabled
  BY <1>1, Flags
<1>3. /\ pc' = "idle" /\ reason' = "none" /\ tries' \in 0 .. 2
      /\ UNCHANGED password /\ null' \in Attempt!NullReadings
  BY DEF Attempt!PowerCycle
<1>4. hiccup' \in BOOLEAN
  BY DEF Attempt!PowerCycle
<1>5. drive'.enabled <=> password' # "none"
  BY <1>1, <1>3, Flags DEF IInv, DriveInv
<1>6. DriveInv'
  BY <1>1, <1>2, <1>3, <1>4, <1>5 DEF IInv, DriveInv, Opened
<1> QED BY <1>3, <1>6 DEF IInv, TriedInv, LockIsOpened

(* The commands of an attempt.                                             *)
LEMMA ProgressKeeps == IInv /\ (Attempt!Progress \/ Attempt!Unreadable) => IInv'
<1> SUFFICES ASSUME IInv, Attempt!Progress \/ Attempt!Unreadable
             PROVE  IInv'
  OBVIOUS
<1> USE DEF IInv, DriveInv, TriedInv, LockIsOpened, Opened, Attempt!Finish,
            Attempt!Refuse, Attempt!device, Attempt!local
<1>1. CASE Attempt!Skip \/ Attempt!RefuseReadOnly \/ Attempt!Choose
  BY <1>1 DEF Attempt!Skip, Attempt!RefuseReadOnly, Attempt!Choose
<1>2. CASE Attempt!Shred
  BY <1>2 DEF Attempt!Shred
<1>3. CASE Attempt!ReadSecurity \/ Attempt!RefuseFrozen
  BY <1>3 DEF Attempt!ReadSecurity, Attempt!RefuseFrozen
<1>4. CASE Attempt!Unlock
  <2>1. tries \in {0, 1} /\ tries' = tries + 1 /\ pc' = pc /\ pc = "unlock"
    BY <1>4 DEF Attempt!Unlock
  <2>2. Attempt!UnlockPasswords[tries'] = IF tries = 0 THEN null ELSE "empty"
    BY <2>1 DEF Attempt!UnlockPasswords
  <2>3. CASE drive' = [drive EXCEPT !.locked = FALSE] /\ UNCHANGED hiccup
    <3>1. drive' \in Security /\ ~drive'.locked /\ drive'.enabled = drive.enabled
      BY <2>3, Changed
    <3> QED BY <1>4, <2>1, <3>1 DEF Attempt!Unlock
  <2>4. CASE /\ hiccup' = (hiccup \/ password = Attempt!UnlockPasswords[tries'])
             /\ UNCHANGED drive
    <3>1. hiccup' \in BOOLEAN /\ (hiccup => hiccup')
      BY <2>4
    <3>2. password = Attempt!UnlockPasswords[tries'] => hiccup'
      BY <2>4
    <3>3. lines' = drive /\ UNCHANGED <<password, null, reason>>
      BY <1>4, <2>4 DEF Attempt!Unlock
    <3>4. DriveInv'
      BY <2>1, <2>4, <3>1, <3>3
    <3>5. TriedInv'
      BY <2>1, <2>2, <2>4, <3>1, <3>2, <3>3
    <3> QED BY <2>1, <3>3, <3>4, <3>5
  <2> QED BY <1>4, <2>3, <2>4 DEF Attempt!Unlock
<1>5. CASE Attempt!Recovered \/ Attempt!RefuseLocked
  <2>1. /\ pc = "unlock" /\ reason = "none" /\ lines = drive /\ UNCHANGED hiccup
        /\ UNCHANGED <<drive, password, null>>
        /\ ~drive.locked \/ tries = 2
    BY <1>5 DEF Attempt!Recovered, Attempt!RefuseLocked, Attempt!Unlocked
  <2>2. drive.locked /\ tries = 2 /\ ~hiccup
          => password # null /\ password # "empty" /\ password # "none"
    BY <2>1
  <2>3. drive.locked /\ tries = 2 /\ ~hiccup
          => password = "foreign" \/ (password = "literal" /\ null = "empty")
    BY <2>2 DEF Attempt!Passwords, Attempt!NullReadings
  <2> QED
    BY <1>5, <2>1, <2>2, <2>3 DEF Attempt!Recovered, Attempt!RefuseLocked
<1>6. CASE Attempt!SetPassword
  <2>1. ASSUME lines.enabled, pc' = "erase",
               UNCHANGED <<drive, password, null, tries, hiccup, reason>>
        PROVE  IInv'
    <3>1. drive.enabled /\ ~drive.locked /\ reason = "none"
      BY <1>6, <2>1 DEF Attempt!SetPassword
    <3> QED BY <2>1, <3>1
  <2>2. ASSUME password' = null, drive' = [drive EXCEPT !.enabled = TRUE], pc' = "erase",
               UNCHANGED <<null, tries, hiccup, reason>>
        PROVE  IInv'
    <3>1. drive' \in Security /\ drive'.enabled /\ drive'.locked = drive.locked
      BY <2>2, Changed
    <3>2. password' \in Attempt!Passwords /\ password' # "none"
      BY <2>2 DEF Attempt!Passwords, Attempt!NullReadings
    <3>3. ~drive.locked /\ reason = "none"
      BY <1>6 DEF Attempt!SetPassword
    <3> QED BY <2>2, <3>1, <3>2, <3>3
  <2>3. ASSUME hiccup' = TRUE, Attempt!Refuse("password"), UNCHANGED Attempt!device
        PROVE  IInv'
    <3>1. hiccup' \in BOOLEAN
      BY <2>3
    <3> QED BY <2>3, <3>1
  <2> QED BY <1>6, <2>1, <2>2, <2>3 DEF Attempt!SetPassword
<1>7. CASE Attempt!SecureErase
  <2>1. CASE password' = "none" /\ drive' = [drive EXCEPT !.enabled = FALSE]
    <3>1. drive' \in Security /\ ~drive'.enabled /\ drive'.locked = drive.locked
      BY <2>1, Changed
    <3> QED BY <1>7, <2>1, <3>1 DEF Attempt!SecureErase, Attempt!Passwords
  <2>2. ASSUME NEW l \in BOOLEAN, drive' = [drive EXCEPT !.locked = l],
               UNCHANGED password
        PROVE  IInv'
    <3>1. drive' \in Security /\ drive'.locked = l /\ drive'.enabled = drive.enabled
      <4>1. CASE l = TRUE
        <5>1. drive' = [drive EXCEPT !.locked = TRUE]
          BY <2>2, <4>1
        <5> QED BY <4>1, <5>1, Changed
      <4>2. CASE l = FALSE
        <5>1. drive' = [drive EXCEPT !.locked = FALSE]
          BY <2>2, <4>2
        <5> QED BY <4>2, <5>1, Changed
      <4> QED BY <4>1, <4>2
    <3> QED BY <1>7, <2>2, <3>1 DEF Attempt!SecureErase
  <2> QED BY <1>7, <2>1, <2>2 DEF Attempt!SecureErase
<1>8. CASE Attempt!Verify
  BY <1>8 DEF Attempt!Verify
<1>9. CASE Attempt!Unreadable
  BY <1>9 DEF Attempt!Unreadable, Attempt!CommandFails
<1>10. CASE Attempt!NvmeErase
  <2>1. hiccup' \in BOOLEAN
    BY <1>10 DEF Attempt!NvmeErase
  <2> QED BY <1>10, <2>1 DEF Attempt!NvmeErase
<1> QED
  BY <1>1, <1>2, <1>3, <1>4, <1>5, <1>6, <1>7, <1>8, <1>9, <1>10 DEF Attempt!Progress

LEMMA Inductive == IInv /\ [CleaningNext]_cleaningVars => IInv'
<1> SUFFICES ASSUME IInv, [CleaningNext]_cleaningVars
             PROVE  IInv'
  OBVIOUS
<1>1. CASE Start
  BY <1>1, BeginKeeps DEF Start
<1>2. CASE Proceed
  BY <1>2, ProgressKeeps DEF Proceed
<1>3. CASE Restart
  BY <1>3, PowerCycleKeeps DEF Restart
<1>4. CASE Elsewhere \/ End \/ Again \/ UNCHANGED cleaningVars
  <2>1. UNCHANGED attemptVars
    BY <1>4 DEF Elsewhere, End, Again, cleaningVars
  <2> QED
    BY <2>1 DEF attemptVars, IInv, DriveInv, TriedInv, LockIsOpened, Opened
<1> QED BY <1>1, <1>2, <1>3, <1>4 DEF CleaningNext

(* Whatever was interrupted or failed before, an attempt that gives a      *)
(* drive up as locked has met a command that failed or a password it could *)
(* not know, and a failed secure erase leaves the drive open to shred      *)
(* (_ata_erase and __attempt_unlock_drive).                                *)
THEOREM PasswordIsFound == CleaningSpec => []LockIsOpened
<1>1. IInv => LockIsOpened
  BY DEF IInv
<1> QED BY <1>1, Initial, Inductive, PTL DEF CleaningSpec

-----------------------------------------------------------------------------
(* What the walk over the devices knows                                    *)

Reached == {list[i] : i \in 1 .. next - 1}

(* No device comes after its disk in the list.                             *)
OrderInv ==
  /\ list \in Seq(Devices) /\ next \in 1 .. Len(list) + 1
  /\ method = "devices" => Listed = Disks
  /\ \A i, j \in 1 .. Len(list) : list[j] = Disk[list[i]] => i <= j

(* Devices are written to, and tasks made, behind the loop only, where     *)
(* every device has passed the guard.                                      *)
ReachInv ==
  /\ task \in [Disks -> {"none", "queued", "running", "done", "raised"}]
  /\ \A d \in Reached : Passes(d)
  /\ erased \cup errors \subseteq Reached
  /\ \A d \in Disks : task[d] # "none" => d \in Reached

(* What the two kinds of step have done with the devices behind the loop.  *)
DoneInv ==
  IF method = "devices"
  THEN /\ errors = {}
       /\ \A d \in Reached : task[d] # "none"
       /\ \A d \in Disks : task[d] = "done" => d \in erased
  ELSE /\ Reached \subseteq erased \cup errors
       /\ \A d \in Disks : task[d] = "none"

(* When the loop is over, and the threads are.                             *)
EndInv ==
  /\ command \in {"joining", "collecting", "ok"} \/ why = "erase"
       => next = Len(list) + 1
  /\ command \in {"joining", "collecting"} => method = "devices"
  /\ command \in {"collecting", "ok"} \/ why = "erase"
       => Running \cup Queued = {}
  /\ command = "ok" => errors = {} /\ \A d \in Disks : task[d] # "raised"
  /\ why # "none" => command = "failed"

(* The disk whose commands are modelled.                                   *)
DataInv ==
  /\ pc = "verify" => data = "erased"
  /\ pc = "idle" /\ outcome = "ok" => data = "erased" \/ Skipped
  /\ task[Detailed] = "done" => data = "erased" \/ Skipped

WalkInv == OrderInv /\ ReachInv /\ DoneInv /\ EndInv /\ DataInv

-----------------------------------------------------------------------------
(* Lists in order                                                          *)

LEMMA LeastNat ==
  ASSUME NEW T \in SUBSET Nat, T # {} PROVE \E n \in T : \A m \in T : n <= m
<1> DEFINE R == OpToRel(<, Nat)
<1>1. IsWellFoundedOn(R, Nat)
  BY NatLessThanWellFounded
<1> HIDE DEF R
<1>2. PICK n \in T : \A m \in T : <<m, n>> \notin R
  BY <1>1, WFMin, Zenon
<1>3. \A m \in T : <<m, n>> \notin R => n <= m
  BY DEF R, OpToRel
<1> QED BY <1>2, <1>3

(* Induction over the natural numbers, for a set.                          *)
LEMMA UpFromZero ==
  ASSUME NEW T \in SUBSET Nat, 0 \in T, \A n \in T : n + 1 \in T
  PROVE  T = Nat
<1> DEFINE U == Nat \ T
<1>1. CASE U # {}
  <2> HIDE DEF U
  <2>1. U \in SUBSET Nat
    BY DEF U
  <2>2. PICK n \in U : \A m \in U : n <= m
    BY <1>1, <2>1, LeastNat
  <2>3. n # 0 /\ n - 1 \in Nat /\ n - 1 \notin U
    BY <2>2 DEF U
  <2> QED BY <2>2, <2>3 DEF U
<1> QED BY <1>1

Increasing(s, S) ==
  /\ s \in [1 .. Cardinality(S) -> S]
  /\ \A i, j \in 1 .. Cardinality(S) : i < j => s[i] < s[j]

(* The members of any set of numbers up to n can be put in order.          *)
LEMMA OrderExists ==
  \A n \in Nat : \A S \in SUBSET (1 .. n) : \E s : Increasing(s, S)
<1> DEFINE Good == {n \in Nat : \A S \in SUBSET (1 .. n) : \E s : Increasing(s, S)}
<1>1. 0 \in Good
  <2> SUFFICES ASSUME NEW S \in SUBSET (1 .. 0) PROVE \E s : Increasing(s, S)
    OBVIOUS
  <2>1. S = {}
    BY 1 .. 0 = {}
  <2>2. Cardinality(S) = 0
    BY <2>1, FS_EmptySet
  <2>3. Increasing([i \in 1 .. 0 |-> i], S)
    BY <2>1, <2>2 DEF Increasing
  <2> QED BY <2>3
<1>2. ASSUME NEW n \in Good PROVE n + 1 \in Good
  <2> SUFFICES ASSUME NEW S \in SUBSET (1 .. n + 1) PROVE \E s : Increasing(s, S)
    OBVIOUS
  <2>1. CASE n + 1 \notin S
    <3>1. S \in SUBSET (1 .. n)
      BY <2>1
    <3> QED BY <3>1
  <2>2. CASE n + 1 \in S
    <3> DEFINE S0 == S \ {n + 1}
               c == Cardinality(S0)
    <3>1. S0 \in SUBSET (1 .. n)
      BY <2>2
    <3>2. PICK s : Increasing(s, S0)
      BY <3>1
    <3>3. IsFiniteSet(S0)
      BY <3>1, FS_Interval, FS_Subset, n \in Int, 1 \in Int
    <3>4. S = S0 \cup {n + 1} /\ n + 1 \notin S0
      BY <2>2
    <3>5. Cardinality(S) = c + 1 /\ c \in Nat
      BY <3>3, <3>4, FS_AddElement, FS_CardinalityType
    <3> DEFINE t == [i \in 1 .. c + 1 |-> IF i <= c THEN s[i] ELSE n + 1]
    <3>6. Increasing(t, S)
      <4>1. /\ s \in [1 .. c -> S0]
            /\ \A i, j \in 1 .. c : i < j => s[i] < s[j]
        BY <3>2 DEF Increasing
      <4> HIDE DEF c, S0
      <4>0. n \in Nat /\ \A d \in S0 : d < n + 1
        BY <3>1
      <4>2. \A i \in 1 .. c : s[i] \in S0 /\ s[i] < n + 1
        BY <4>0, <4>1
      <4>3. t \in [1 .. c + 1 -> S]
        BY <3>4, <3>5, <4>2
      <4>4. ASSUME NEW i \in 1 .. c + 1, NEW j \in 1 .. c + 1, i < j
            PROVE  t[i] < t[j]
        BY <3>5, <4>1, <4>2, <4>4
      <4> HIDE DEF t
      <4> QED BY <3>5, <4>3, <4>4 DEF Increasing
    <3> QED BY <3>6
  <2> QED BY <2>1, <2>2
<1> HIDE DEF Good
<1>3. Good \in SUBSET Nat
  BY DEF Good
<1>4. Good = Nat
  BY <1>1, <1>2, <1>3, UpFromZero
<1> QED BY <1>4 DEF Good

(* InOrder lists a set of devices, each once, in the order of the names.   *)
LEMMA InOrderLists ==
  ASSUME NEW S \in SUBSET Devices
  PROVE  /\ InOrder(S) \in Seq(S)
         /\ {InOrder(S)[i] : i \in 1 .. Len(InOrder(S))} = S
         /\ \A i, j \in 1 .. Len(InOrder(S)) :
              i < j => InOrder(S)[i] < InOrder(S)[j]
<1> DEFINE c == Cardinality(S)
           s == InOrder(S)
<1>1. DeviceCount \in Nat /\ S \in SUBSET (1 .. DeviceCount)
  BY ErasureAssumption DEF Devices
<1>2. \E t : Increasing(t, S)
  BY <1>1, OrderExists
<1>3. Increasing(s, S)
  BY <1>2 DEF Increasing, InOrder
<1>4. IsFiniteSet(S) /\ c \in Nat
  BY <1>1, FS_Interval, FS_Subset, FS_CardinalityType, DeviceCount \in Int, 1 \in Int
<1> HIDE DEF c, s
<1>5. s \in [1 .. c -> S] /\ \A i, j \in 1 .. c : i < j => s[i] < s[j]
  BY <1>3 DEF Increasing, c
<1>6. s \in Seq(S) /\ Len(s) = c
  BY <1>4, <1>5
<1>7. s \in Injection(1 .. c, S)
  <2>0. \A d \in S : d \in Nat
    BY <1>1
  <2>1. \A i \in 1 .. c : s[i] \in Nat
    BY <1>5, <2>0
  <2>2. \A i, j \in 1 .. c : s[i] = s[j] => i = j
    BY <1>4, <1>5, <2>1
  <2> QED BY <1>5, <2>2 DEF Injection, IsInjective
<1>8. s \in Surjection(1 .. c, S)
  <2>1. IsFiniteSet(1 .. c) /\ Cardinality(1 .. c) = c
    <3>1. c \in Int /\ 1 \in Int /\ (IF 1 > c THEN 0 ELSE c - 1 + 1) = c
      BY <1>4
    <3> QED BY <3>1, FS_Interval
  <2>2. Cardinality(1 .. c) = Cardinality(S)
    <3>1. c = Cardinality(S)
      BY DEF c
    <3> QED BY <2>1, <3>1
  <2> QED BY <1>4, <1>7, <2>1, <2>2, FS_Injection
<1>9. \A d \in S : \E i \in 1 .. c : s[i] = d
  BY <1>8 DEF Surjection
<1>10. {s[i] : i \in 1 .. c} = S
  BY <1>5, <1>9
<1> QED BY <1>5, <1>6, <1>10 DEF s

(* In every step's list no device comes after its disk.                    *)
LEMMA ListInOrder ==
  ASSUME NEW m \in Methods
  PROVE  LET l == ListFor(m) IN
         /\ l \in Seq(Devices)
         /\ m = "devices" => {l[i] : i \in 1 .. Len(l)} = Disks
         /\ \A i, j \in 1 .. Len(l) : l[j] = Disk[l[i]] => i <= j
<1> DEFINE l == ListFor(m)
<1>1. /\ Disks \in SUBSET Devices /\ Devices \in SUBSET Devices
      /\ \A d \in Devices : d \in Nat /\ Disk[d] \in Nat /\ Disk[d] <= d
      /\ \A d \in Disks : Disk[d] = d
  BY ErasureAssumption DEF Disks, Devices
<1>2. CASE m = "devices"
  <2> DEFINE s == InOrder(Disks)
  <2>1. /\ s \in Seq(Disks) /\ {s[i] : i \in 1 .. Len(s)} = Disks
        /\ \A i, j \in 1 .. Len(s) : i < j => s[i] < s[j]
    BY <1>1, InOrderLists
  <2>2. l = s
    BY <1>2 DEF ListFor
  <2> HIDE DEF s, l
  <2>3. \A i \in 1 .. Len(s) : s[i] \in Disks
    BY <2>1
  <2>4. ASSUME NEW i \in 1 .. Len(s), NEW j \in 1 .. Len(s), s[j] = Disk[s[i]]
        PROVE  i <= j
    <3>1. s[j] = s[i] /\ s[i] \in Nat
      BY <1>1, <2>3, <2>4
    <3> QED BY <2>1, <3>1
  <2>5. s \in Seq(Devices)
    BY <1>1, <2>1
  <2> QED BY <2>1, <2>2, <2>4, <2>5 DEF l
<1>3. CASE m # "devices"
  <2> DEFINE s == InOrder(Devices)
             n == Len(s)
  <2>1. /\ s \in Seq(Devices)
        /\ \A i, j \in 1 .. n : i < j => s[i] < s[j]
    BY <1>1, InOrderLists
  <2>2. l = [i \in 1 .. n |-> s[(n - i) + 1]]
    BY <1>3 DEF ListFor, Reverse
  <2> HIDE DEF s, l
  <2>3. n \in Nat /\ \A i \in 1 .. n : s[i] \in Devices
    BY <2>1
  <2>4. \A i \in 1 .. n : (n - i) + 1 \in 1 .. n
    BY <2>3
  <2> HIDE DEF n
  <2>5. l \in Seq(Devices) /\ Len(l) = n
    BY <2>2, <2>3, <2>4
  <2>6. ASSUME NEW i \in 1 .. n, NEW j \in 1 .. n, l[j] = Disk[l[i]]
        PROVE  i <= j
    <3> DEFINE a == (n - i) + 1
               b == (n - j) + 1
    <3>1. a \in 1 .. n /\ b \in 1 .. n /\ s[b] = Disk[s[a]]
      BY <2>2, <2>4, <2>6
    <3>2. s[b] <= s[a] /\ s[a] \in Nat /\ s[b] \in Nat
      BY <1>1, <2>3, <3>1
    <3>3. ~(a < b)
      BY <2>1, <3>1, <3>2 DEF n
    <3> QED BY <2>3, <3>3
  <2> QED BY <1>3, <2>5, <2>6 DEF l
<1> QED BY <1>2, <1>3

-----------------------------------------------------------------------------
(* The loop and the threads                                                *)

(* What the loop reads does not change within a step.                      *)
LEMMA SetPoints ==
  ASSUME OrderInv
  PROVE  /\ Reached \subseteq Listed /\ Listed \subseteq Devices
         /\ next = Len(list) + 1 => Reached = Listed
         /\ Looping => /\ Current \in Listed /\ next \in 1 .. Len(list)
                       /\ next + 1 \in 1 .. Len(list) + 1
                       /\ {list[i] : i \in 1 .. next} = Reached \cup {Current}
<1> USE DEF OrderInv, Reached, Listed, Looping, Current
<1>1. Len(list) \in Nat /\ next \in Nat /\ \A i \in 1 .. Len(list) : list[i] \in Devices
  OBVIOUS
<1>2. Reached \subseteq Listed /\ Listed \subseteq Devices
  BY <1>1
<1>3. next = Len(list) + 1 => Reached = Listed
  BY <1>1
<1>4. ASSUME Looping
      PROVE  /\ Current \in Listed /\ next \in 1 .. Len(list)
             /\ next + 1 \in 1 .. Len(list) + 1
             /\ {list[i] : i \in 1 .. next} = Reached \cup {Current}
  <2>1. next \in 1 .. Len(list) /\ next + 1 \in 1 .. Len(list) + 1
    BY <1>1, <1>4
  <2>2. \A i : i \in 1 .. next <=> i \in 1 .. next - 1 \/ i = next
    BY <1>1
  <2> QED BY <2>1, <2>2
<1> QED BY <1>2, <1>3, <1>4

(* The loop takes one device more.                                         *)
LEMMA Advance ==
  ASSUME OrderInv, Looping, next' = next + 1, UNCHANGED node
  PROVE  OrderInv' /\ Reached' = Reached \cup {Current}
<1>1. /\ next + 1 \in 1 .. Len(list) + 1 /\ (next + 1) - 1 = next
      /\ {list[i] : i \in 1 .. next} = Reached \cup {Current}
  BY SetPoints DEF OrderInv
<1> QED BY <1>1 DEF OrderInv, Reached, Listed, node

LEMMA LoopKeeps ==
  ASSUME WalkInv, Loop, UNCHANGED attemptVars
  PROVE  WalkInv'
<1> USE DEF WalkInv, Fails
<1>1. Detailed \in Disks /\ Disks \subseteq Devices
  BY CleaningAssumption DEF Disks
<1>2. UNCHANGED <<pc, data, outcome, kind>>
  BY DEF attemptVars
<1>3. CASE Submit
  <2>1. /\ Looping /\ method = "devices" /\ Passes(Current)
        /\ task' = [task EXCEPT ![Current] = "queued"] /\ next' = next + 1
        /\ UNCHANGED <<node, erased, errors, command, why>>
    BY <1>3 DEF Submit
  <2>2. OrderInv' /\ Reached' = Reached \cup {Current} /\ Current \in Disks
    BY <2>1, Advance, SetPoints DEF OrderInv
  <2>3. \A d \in Disks : task'[d] = IF d = Current THEN "queued" ELSE task[d]
    BY <2>1 DEF ReachInv
  <2>4. \A d : Passes(d)' <=> Passes(d)
    BY <2>1 DEF Passes, Guarded, Identified, node
  <2>5. ReachInv'
    BY <2>1, <2>2, <2>3, <2>4 DEF ReachInv
  <2>6. DoneInv'
    BY <1>1, <2>1, <2>2, <2>3, SetPoints DEF DoneInv, node, Listed
  <2>7. EndInv'
    BY <2>1, SetPoints DEF EndInv, Looping, OrderInv
  <2>8. DataInv'
    BY <1>1, <1>2, <2>3 DEF DataInv, Skipped
  <2> QED BY <2>2, <2>5, <2>6, <2>7, <2>8
<1>4. CASE Wipe \/ WipeFails
  <2>1. /\ Looping /\ method # "devices" /\ Passes(Current)
        /\ next' = next + 1 /\ UNCHANGED <<node, task, command, why>>
        /\ \/ erased' = erased \cup {Current} /\ errors' = errors
           \/ /\ errors' = errors \cup {Current}
              /\ erased' \in {erased, erased \cup {Current}}
    BY <1>4 DEF Wipe, WipeFails
  <2>2. OrderInv' /\ Reached' = Reached \cup {Current}
    BY <2>1, Advance
  <2>3. \A d : Passes(d)' <=> Passes(d)
    BY <2>1 DEF Passes, Guarded, Identified, node
  <2>4. ReachInv'
    BY <2>1, <2>2, <2>3 DEF ReachInv
  <2>5. DoneInv'
    BY <2>1, <2>2 DEF DoneInv, node
  <2>6. EndInv'
    BY <2>1, SetPoints DEF EndInv, Looping, OrderInv
  <2>7. DataInv'
    BY <1>2, <2>1 DEF DataInv, Skipped
  <2> QED BY <2>2, <2>4, <2>5, <2>6, <2>7
<1>5. CASE ProtectedFound \/ CheckFails \/ AllSubmitted \/ Join \/ Collect \/ Report
  <2>1. /\ UNCHANGED <<node, next, task, erased, errors>>
        /\ \/ command = "looping" /\ command' = "failed"
              /\ why' \in {"protected", "check"}
           \/ /\ command = "looping" /\ next > Len(list)
              /\ \/ command' = "joining" /\ method = "devices" /\ why' = why
                 \/ command' = "ok" /\ errors = {} /\ method # "devices" /\ why' = why
                 \/ command' = "failed" /\ method # "devices" /\ why' = "erase"
           \/ /\ command = "joining" /\ Running \cup Queued = {}
              /\ command' = "collecting" /\ why' = why
           \/ /\ command = "collecting"
              /\ \/ command' = "ok" /\ why' = why /\ \A d \in Disks : task[d] # "raised"
                 \/ command' = "failed" /\ why' = "erase"
    BY <1>5 DEF ProtectedFound, CheckFails, Looping, AllSubmitted, Join, Collect,
       Report
  <2>2. OrderInv' /\ Reached' = Reached
    BY <2>1 DEF OrderInv, Reached, Listed, node
  <2>3. ReachInv'
    <3>1. \A d : Passes(d)' <=> Passes(d)
      BY <2>1 DEF Passes, Guarded, Identified, node
    <3> QED BY <2>1, <2>2, <3>1 DEF ReachInv
  <2>4. DoneInv'
    BY <2>1, <2>2 DEF DoneInv, node
  <2>5. EndInv'
    <3>1. next > Len(list) => next = Len(list) + 1
      BY DEF OrderInv
    <3>2. method # "devices" => Running \cup Queued = {}
      BY DEF DoneInv, Running, Queued
    <3>3. command = "collecting" => errors = {}
      BY DEF EndInv, DoneInv
    <3>4. method # "devices" => \A d \in Disks : task[d] # "raised"
      BY DEF DoneInv
    <3>5. UNCHANGED <<Running, Queued, method, list, next, errors, task>>
      BY <2>1 DEF Running, Queued, node
    <3> QED BY <2>1, <3>1, <3>2, <3>3, <3>4, <3>5 DEF EndInv
  <2>6. DataInv'
    BY <1>2, <2>1 DEF DataInv, Skipped
  <2> QED BY <2>2, <2>3, <2>4, <2>5, <2>6
<1> QED BY <1>3, <1>4, <1>5 DEF Loop

(* A thread takes a task up or ends it.                                    *)
LEMMA WorkKeeps ==
  ASSUME WalkInv, NEW d \in Disks, Take(d) \/ TaskEnds(d)
  PROVE  OrderInv' /\ ReachInv' /\ DoneInv' /\ EndInv'
<1> USE DEF WalkInv
<1>1. /\ UNCHANGED <<node, next, errors, command, why>>
      /\ task[d] \in {"queued", "running"}
      /\ \E t \in {"running", "done", "raised"} :
           /\ task' = [task EXCEPT ![d] = t]
           /\ t = "done" => erased' = erased \cup {d}
      /\ erased' \in {erased, erased \cup {d}}
  BY DEF Take, TaskEnds, Queued
<1>2. PICK t \in {"running", "done", "raised"} :
        /\ \A e \in Disks : task'[e] = IF e = d THEN t ELSE task[e]
        /\ task' \in [Disks -> {"none", "queued", "running", "done", "raised"}]
        /\ t = "done" => erased' = erased \cup {d}
  BY <1>1 DEF ReachInv
<1>3. d \in Reached /\ method = "devices"
  BY <1>1 DEF ReachInv, DoneInv
<1>4. OrderInv' /\ Reached' = Reached
  BY <1>1 DEF OrderInv, Reached, Listed, node
<1>5. ReachInv'
  <2>1. \A e : Passes(e)' <=> Passes(e)
    BY <1>1 DEF Passes, Guarded, Identified, node
  <2> QED BY <1>1, <1>2, <1>3, <1>4, <2>1 DEF ReachInv
<1>6. DoneInv'
  <2>1. \A e \in Reached : e \in Disks
    BY <1>3, SetPoints DEF OrderInv
  <2> QED BY <1>1, <1>2, <1>3, <1>4, <2>1 DEF DoneInv, node
<1>7. EndInv'
  <2>1. Running \cup Queued # {}
    BY <1>1 DEF Running, Queued
  <2> QED BY <1>1, <2>1 DEF EndInv, node
<1> QED BY <1>4, <1>5, <1>6, <1>7

-----------------------------------------------------------------------------
(* The steps                                                               *)

LEMMA WalkInitial == CleaningInit => WalkInv
<1> SUFFICES ASSUME CleaningInit
             PROVE  WalkInv
  OBVIOUS
<1>1. Detailed \in Disks /\ Disks \subseteq Devices
  BY CleaningAssumption DEF Disks
<1>2. /\ method \in Methods /\ list = ListFor(method) /\ next = 1
      /\ task = [d \in Disks |-> "none"] /\ erased = {} /\ errors = {}
      /\ command = "looping" /\ why = "none"
      /\ pc = "idle" /\ outcome = "none"
  BY DEF CleaningInit, Init, Attempt!Init
<1>3. OrderInv /\ Reached = {}
  BY <1>2, ListInOrder DEF OrderInv, Reached, Listed
<1>4. ReachInv /\ DoneInv /\ EndInv /\ DataInv
  BY <1>1, <1>2, <1>3 DEF ReachInv, DoneInv, EndInv, DataInv
<1> QED BY <1>3, <1>4 DEF WalkInv

LEMMA ElsewhereWalks == WalkInv /\ Elsewhere => WalkInv'
<1> SUFFICES ASSUME WalkInv, Elsewhere
             PROVE  WalkInv'
  OBVIOUS
<1>1. CASE Loop
  BY <1>1, LoopKeeps DEF Elsewhere
<1>2. ASSUME NEW d \in Disks \ {Detailed}, Take(d) \/ TaskEnds(d)
      PROVE  WalkInv'
  <2>1. OrderInv' /\ ReachInv' /\ DoneInv' /\ EndInv'
    BY <1>2, WorkKeeps
  <2>2. task'[Detailed] = task[Detailed]
    BY <1>2, CleaningAssumption DEF Take, TaskEnds, WalkInv, ReachInv
  <2>3. DataInv'
    BY <2>2 DEF Elsewhere, attemptVars, WalkInv, DataInv, Skipped
  <2> QED BY <2>1, <2>3 DEF WalkInv
<1> QED BY <1>1, <1>2 DEF Elsewhere

(* A thread takes the disk up.                                             *)
LEMMA StartWalks == WalkInv /\ Start => WalkInv'
<1> SUFFICES ASSUME WalkInv, Start
             PROVE  WalkInv'
  OBVIOUS
<1>1. OrderInv' /\ ReachInv' /\ DoneInv' /\ EndInv'
  BY CleaningAssumption, WorkKeeps DEF Start
<1>2. task'[Detailed] = "running"
  BY CleaningAssumption DEF Start, Take, WalkInv, ReachInv
<1>3. pc' = "look"
  BY DEF Start, Attempt!Begin
<1> QED BY <1>1, <1>2, <1>3 DEF WalkInv, DataInv

(* The commands succeed for a disk that was erased or is to be skipped.    *)
LEMMA ProceedWalks == WalkInv /\ Proceed => WalkInv'
<1> SUFFICES ASSUME WalkInv, Proceed
             PROVE  WalkInv'
  OBVIOUS
<1>1. UNCHANGED vars /\ task[Detailed] = "running"
  BY DEF Proceed
<1>2. OrderInv' /\ Reached' = Reached
  BY <1>1 DEF WalkInv, OrderInv, Reached, Listed, vars, node
<1>3. ReachInv'
  <2>1. \A d : Passes(d)' <=> Passes(d)
    BY <1>1 DEF Passes, Guarded, Identified, vars, node
  <2> QED BY <1>1, <1>2, <2>1 DEF WalkInv, ReachInv, vars
<1>4. DoneInv'
  BY <1>1, <1>2 DEF WalkInv, DoneInv, vars, node
<1>5. EndInv'
  <2>1. UNCHANGED <<Running, Queued>>
    BY <1>1 DEF Running, Queued, vars
  <2> QED BY <1>1, <2>1 DEF WalkInv, EndInv, vars, node
<1>6. DataInv'
  <2>1. task'[Detailed] # "done"
    BY <1>1 DEF vars
  <2> USE DEF Attempt!Finish, Attempt!Refuse, Attempt!device
  <2>2. pc = "verify" => data = "erased"
    BY DEF WalkInv, DataInv
  <2>3. CASE Attempt!Skip
    BY <2>1, <2>3 DEF Attempt!Skip, DataInv, Skipped
  <2>4. CASE Attempt!NvmeErase
    BY <2>1, <2>4 DEF Attempt!NvmeErase, DataInv
  <2>5. CASE Attempt!Shred
    BY <2>1, <2>5 DEF Attempt!Shred, DataInv
  <2>6. CASE Attempt!SecureErase
    BY <2>1, <2>6 DEF Attempt!SecureErase, DataInv
  <2>7. CASE Attempt!Verify
    BY <2>1, <2>2, <2>7 DEF Attempt!Verify, DataInv
  <2>8. CASE \/ Attempt!RefuseReadOnly \/ Attempt!Choose \/ Attempt!ReadSecurity
             \/ Attempt!RefuseFrozen \/ Attempt!Unlock \/ Attempt!Recovered
             \/ Attempt!RefuseLocked \/ Attempt!SetPassword \/ Attempt!Unreadable
    <3>1. pc' # "verify" /\ (pc' = "idle" => outcome' = "failed")
      BY <2>8 DEF Attempt!RefuseReadOnly, Attempt!Choose, Attempt!ReadSecurity,
         Attempt!RefuseFrozen, Attempt!Unlock, Attempt!Recovered,
         Attempt!RefuseLocked, Attempt!SetPassword, Attempt!Unreadable,
         Attempt!CommandFails
    <3> QED BY <2>1, <3>1 DEF DataInv
  <2> QED
    BY <2>3, <2>4, <2>5, <2>6, <2>7, <2>8 DEF Proceed, Attempt!Progress
<1> QED BY <1>2, <1>3, <1>4, <1>5, <1>6 DEF WalkInv

LEMMA EndWalks == WalkInv /\ End => WalkInv'
<1> SUFFICES ASSUME WalkInv, End
             PROVE  WalkInv'
  OBVIOUS
<1>1. OrderInv' /\ ReachInv' /\ DoneInv' /\ EndInv'
  BY CleaningAssumption, WorkKeeps DEF End
<1>2. pc = "idle" /\ (task'[Detailed] = "done" => outcome = "ok")
  BY DEF End
<1>3. UNCHANGED <<pc, data, outcome, kind>>
  BY DEF End, attemptVars
<1>4. DataInv'
  BY <1>2, <1>3 DEF WalkInv, DataInv, Skipped
<1> QED BY <1>1, <1>4 DEF WalkInv

(* A step begins with nothing reached.                                     *)
LEMMA NewStepWalks ==
  ASSUME WalkInv, NewStep, erased' = {}, UNCHANGED fs,
         UNCHANGED attemptVars \/ Attempt!PowerCycle
  PROVE  WalkInv'
<1>1. Detailed \in Disks /\ Disks \subseteq Devices
  BY CleaningAssumption DEF Disks
<1>2. /\ method' \in Methods /\ list' = ListFor(method') /\ next' = 1
      /\ task' = [d \in Disks |-> "none"] /\ errors' = {}
      /\ command' = "looping" /\ why' = "none"
  BY DEF NewStep
<1>3. OrderInv' /\ Reached' = {}
  BY <1>2, ListInOrder DEF OrderInv, Reached, Listed
<1>4. ReachInv' /\ DoneInv' /\ EndInv'
  BY <1>1, <1>2, <1>3 DEF ReachInv, DoneInv, EndInv
<1>5. DataInv'
  <2>1. task'[Detailed] = "none"
    BY <1>1, <1>2
  <2>2. CASE UNCHANGED attemptVars
    BY <2>1, <2>2 DEF WalkInv, DataInv, Skipped, attemptVars
  <2>3. CASE Attempt!PowerCycle
    BY <2>1, <2>3 DEF WalkInv, DataInv, Skipped, Attempt!PowerCycle
  <2> QED BY <2>2, <2>3
<1> QED BY <1>3, <1>4, <1>5 DEF WalkInv

LEMMA Walks == WalkInv /\ [CleaningNext]_cleaningVars => WalkInv'
<1> SUFFICES ASSUME WalkInv, [CleaningNext]_cleaningVars
             PROVE  WalkInv'
  OBVIOUS
<1>1. CASE Again \/ Restart
  BY <1>1, NewStepWalks DEF Again, Restart
<1>2. CASE UNCHANGED cleaningVars
  <2>1. UNCHANGED <<vars, attemptVars>>
    BY <1>2 DEF cleaningVars
  <2>2. UNCHANGED <<Reached, Listed, Running, Queued, Skipped>>
    BY <2>1 DEF Reached, Listed, Running, Queued, Skipped, vars, node, attemptVars
  <2>3. \A d : Passes(d)' <=> Passes(d)
    BY <2>1 DEF Passes, Guarded, Identified, vars, node
  <2>4. OrderInv' /\ DoneInv' /\ EndInv' /\ DataInv'
    BY <2>1, <2>2 DEF WalkInv, OrderInv, DoneInv, EndInv, DataInv, vars, node,
       attemptVars
  <2>5. ReachInv'
    BY <2>1, <2>2, <2>3 DEF WalkInv, ReachInv, vars, node
  <2> QED BY <2>4, <2>5 DEF WalkInv
<1> QED
  BY <1>1, <1>2, ElsewhereWalks, StartWalks, ProceedWalks, EndWalks
  DEF CleaningNext

-----------------------------------------------------------------------------
(* What follows                                                            *)

(* A partition with VMFS has not been reached, and so neither has its      *)
(* disk, which comes later in the list.                                    *)
LEMMA WalkKeepsVmfs == WalkInv => VmfsIsKept
<1> SUFFICES ASSUME WalkInv, NEW d \in Devices \ Disks, Guarded, fs[d] = "vmfs",
                    d \in Listed
             PROVE  {d, Disk[d]} \cap erased = {}
  BY DEF VmfsIsKept
<1> USE DEF WalkInv
<1>1. Len(list) \in Nat /\ next \in 1 .. Len(list) + 1
  BY DEF OrderInv
<1>2. erased \subseteq Reached
  BY DEF ReachInv
<1>3. d \notin Reached
  BY DEF ReachInv, Passes, Identified
<1>4. PICK i \in 1 .. Len(list) : list[i] = d
  BY DEF Listed
<1>5. i >= next
  BY <1>1, <1>3, <1>4 DEF Reached
<1>6. ASSUME Disk[d] \in Reached PROVE FALSE
  <2>1. PICK j \in 1 .. next - 1 : list[j] = Disk[d]
    BY <1>6 DEF Reached
  <2>2. j \in 1 .. Len(list) /\ j < next
    BY <1>1, <2>1
  <2>3. i <= j
    BY <1>4, <2>1, <2>2 DEF OrderInv
  <2> QED BY <1>1, <1>5, <2>2, <2>3
<1> QED BY <1>2, <1>3, <1>6

(* At the end of the loop every device has been reached, and with no       *)
(* thread at work every task has come to its end.                          *)
LEMMA WalkReports == WalkInv => ReportIsRight
<1> SUFFICES ASSUME WalkInv
             PROVE  ReportIsRight
  OBVIOUS
<1> USE DEF WalkInv
<1>1. command = "ok" \/ why = "erase" => Running \cup Queued = {} /\ Reached = Listed
  BY SetPoints DEF EndInv
<1>2. ASSUME command = "ok", method = "devices"
      PROVE  Listed \subseteq erased /\ (data = "erased" \/ Skipped)
  <2>1. Listed = Disks /\ Reached = Disks /\ Detailed \in Disks
    BY <1>1, <1>2, CleaningAssumption DEF OrderInv
  <2>2. \A d \in Disks : task[d] \notin {"none", "raised", "queued", "running"}
    BY <1>1, <1>2, <2>1 DEF DoneInv, EndInv, Running, Queued
  <2>3. \A d \in Disks : task[d] = "done"
    BY <2>2 DEF ReachInv
  <2> QED BY <1>2, <2>1, <2>3 DEF DoneInv, DataInv
<1>3. ASSUME command = "ok" PROVE errors = {} /\ Listed \subseteq erased
  <2>1. CASE method = "devices"
    BY <1>1, <1>3, <2>1, <1>2 DEF EndInv
  <2>2. CASE method # "devices"
    BY <1>1, <1>3, <2>2 DEF EndInv, DoneInv
  <2> QED BY <2>1, <2>2
<1>4. why = "erase" /\ method # "devices" => Listed \subseteq erased \cup errors
  BY <1>1 DEF DoneInv
<1> QED BY <1>1, <1>2, <1>3, <1>4 DEF ReportIsRight

(* However many threads work and whichever of them fail, a step that walks *)
(* over disks and partitions or hands disks to the pool reports success    *)
(* for devices that were all erased only, leaves none untried when it      *)
(* fails at the end, and leaves no thread at work (erase_devices,          *)
(* erase_devices_metadata and erase_devices_express).                      *)
THEOREM RightReport == CleaningSpec => []ReportIsRight
<1>1. CleaningSpec => []WalkInv
  BY WalkInitial, Walks, PTL DEF CleaningSpec
<1> QED BY <1>1, WalkReports, PTL

(* However many disks and partitions there are and whatever fails, the     *)
(* steps that walk over them leave a partition with VMFS alone, and the    *)
(* disk it is on (safety_check_block_device, and the reversed list of      *)
(* devices).  Of erase_devices this is not true, and the property does not *)
(* say it.                                                                 *)
THEOREM VmfsUntouched == CleaningSpec => []VmfsIsKept
<1>1. CleaningSpec => []WalkInv
  BY WalkInitial, Walks, PTL DEF CleaningSpec
<1> QED BY <1>1, WalkKeepsVmfs, PTL

=============================================================================
