--------------------------- MODULE InspectionDaemon ---------------------------
(***************************************************************************)
(* The loop that inspects the node and posts the inventory again and again *)
(* (inspect.py, the ironic-collect-introspection-data command): the first  *)
(* inspection, the jittered sleep, the backoff after errors and the        *)
(* recovery from them.  Inspection.tla composes it with the inspection that*)
(* each round runs.  Intervals are whole numbers of a small unit;          *)
(* random.uniform takes the two ends of its range and the middle.          *)
(***************************************************************************)
EXTENDS Integers

CONSTANTS PostInterval,     \* introspection_daemon_post_interval, as configured
          DefaultInterval,  \* its value when inspect.py is imported
          MaxRounds         \* bound: the inspections of a behaviour

ASSUME DaemonAssumption ==
  {PostInterval, DefaultInterval, MaxRounds} \subseteq Nat \ {0}

Jitter == {70, 100, 120}          \* percent
MaxDelay == 4 * DefaultInterval   \* max_delay, a class attribute

VARIABLES
  daemon,    \* [DEFAULT]introspection_daemon
  at,        \* "first", "inspected", "sleeping", "reported" or "ended"
  interval,  \* the local of _run
  failed,    \* exception_encountered
  waits,     \* the last two sleeps, the later one first
  failures,  \* history: the errors since the last success
  recovered, \* history: the last inspection succeeded after errors
  rounds

daemonVars == <<daemon, at, interval, failed, waits, failures, recovered, rounds>>

LesserOf(a, b) == IF a < b THEN a ELSE b

DaemonInit ==
  /\ daemon \in BOOLEAN
  /\ at = "first" /\ interval = PostInterval /\ failed = FALSE
  /\ waits = <<PostInterval, PostInterval>>
  /\ failures = 0 /\ recovered = FALSE /\ rounds = 0

\* Drawing the next interval from the last one, and sleeping for that long.
Sleep ==
  /\ at' = "sleeping"
  /\ \E j \in Jitter : interval' = (interval * j) \div 100
  /\ waits' = <<interval', waits[1]>>
  /\ UNCHANGED <<failed, failures, recovered, rounds>>

\* The first inspection, which ends the program when it fails.
FirstInspection(succeeds) ==
  /\ at = "first"
  /\ at' = IF succeeds THEN "inspected" ELSE "ended"
  /\ UNCHANGED <<interval, failed, waits, failures, recovered, rounds>>

\* Only a daemon goes on.
Enter ==
  /\ at = "inspected"
  /\ \/ daemon /\ Sleep
     \/ /\ ~daemon
        /\ at' = "ended"
        /\ UNCHANGED <<interval, failed, waits, failures, recovered, rounds>>

\* An inspection that succeeds ends the backoff.
Reported ==
  /\ at = "sleeping" /\ rounds < MaxRounds
  /\ rounds' = rounds + 1 /\ failures' = 0 /\ recovered' = failed
  /\ failed' = FALSE
  /\ interval' = IF failed THEN LesserOf(interval, PostInterval) ELSE interval
  /\ at' = "reported"
  /\ UNCHANGED waits

\* Mutant: the factor does not outweigh the jitter.
MutBackedOff(i) == LesserOf((i * 13) \div 10, MaxDelay)

\* The interval after an error.
BackedOff(i) == LesserOf((i * 27) \div 10, MaxDelay)

\* No error of an inspection, of whatever kind, ends the loop.
ReportFails ==
  /\ at = "sleeping" /\ rounds < MaxRounds
  /\ rounds' = rounds + 1 /\ failures' = failures + 1 /\ recovered' = FALSE
  /\ failed' = TRUE
  /\ interval' = BackedOff(interval)
  /\ at' = "reported"
  /\ UNCHANGED waits

Again == at = "reported" /\ Sleep

-----------------------------------------------------------------------------
(* Properties *)

DaemonTypeOK ==
  /\ daemon \in BOOLEAN
  /\ at \in {"first", "inspected", "sleeping", "reported", "ended"}
  /\ interval \in Nat /\ waits \in Nat \X Nat
  /\ failed \in BOOLEAN /\ failed = (failures > 0)
  /\ recovered \in BOOLEAN
  /\ failures \in 0 .. rounds /\ rounds \in 0 .. MaxRounds

\* While inspections keep failing each sleep is longer than the one before,
\* until the cap is reached, so the jitter never undoes the backoff; and the first
\* sleep after a recovery is no longer than the configured interval allows.  The
\* cap is reached up to the rounding of one unit, and a sleep of less than two
\* units, which rounding may keep from growing, is no sleep of the program's.
BackoffFollowsResults ==
  at = "sleeping" =>
    /\ failures > 1 => \/ waits[1] > waits[2] \/ waits[2] < 2
                       \/ (waits[1] + 1) * 100 > 70 * MaxDelay
    /\ recovered => waits[1] * 100 <= 120 * PostInterval

=============================================================================
