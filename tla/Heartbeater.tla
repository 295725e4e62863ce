----------------------------- MODULE Heartbeater -----------------------------
(***************************************************************************)
(* IronicPythonAgentHeartbeater (agent.py): the thread that heartbeats to  *)
(* Ironic at jittered intervals, earlier when a command thread calls       *)
(* force_heartbeat, and sooner after an error, until stop() is called.     *)
(*                                                                         *)
(* Time is discrete.  A thread whose timeout has run out acts before the   *)
(* clock goes on; a call of the API may take any time.                     *)
(***************************************************************************)
EXTENDS Naturals

CONSTANTS
  MinInterval,     \* min_heartbeat_interval, 5 seconds
  LoopSleep,       \* the 0.1 seconds run() sleeps between two rounds
  NormalIntervals, \* heartbeat_timeout times the jitter of 0.3 to 0.6: of any size
  ErrorIntervals,  \* min_heartbeat_interval times the jitter of 1 to 2
  Horizon,         \* bound: longer ages are not told apart
  MaxFailures      \* bound: failures are counted up to here

ASSUME TimesAssumption ==
  /\ MinInterval \in Nat /\ LoopSleep \in Nat \ {0}
  /\ NormalIntervals \subseteq Nat /\ NormalIntervals # {}
  /\ ErrorIntervals \subseteq MinInterval..(2 * MinInterval)
  /\ ErrorIntervals # {}
  /\ Horizon \in Nat /\ MaxFailures \in Nat
  /\ \A t \in NormalIntervals \cup ErrorIntervals : t + LoopSleep <= Horizon
  /\ MinInterval + LoopSleep < Horizon

VARIABLES
  phase,            \* where the thread is
  timer,            \* what is left of the wait or sleep it is in
  interval,         \* time planned between the last and the next heartbeat
  elapsed,          \* _time() - previous_heartbeat
  heartbeat_forced,
  forced_age,       \* time since heartbeat_forced became true
  stop_event,
  stopper,          \* the main thread: "running", "joining" or "joined"
  after_stop,       \* heartbeats begun since stop_event was set
  completion,       \* how far Ironic knows about one completed command
  failures,         \* history: since the last heartbeat that Ironic accepted
  idle              \* history: time since then, without the calls

vars == <<phase, timer, interval, elapsed, heartbeat_forced, forced_age,
          stop_event, stopper, after_stop, completion, failures, idle>>

stopVars   == <<stop_event, stopper>>
forcedVars == <<heartbeat_forced, forced_age>>
retryVars  == <<failures, idle>>

Phases == {"starting", "waiting", "checking", "sending", "sleeping", "dead"}

(* "covered": a heartbeat that began after the completion is under way.    *)
Completion == {"none", "requested", "covered", "announced"}

Smaller(a, b) == IF a <= b THEN a ELSE b

\* The age of the last heartbeat when there was none (previous_heartbeat = 0).
Never == Horizon + 1

Older(age) == IF age = Never THEN Never ELSE Smaller(age + 1, Horizon)

Init ==
  /\ phase = "starting" /\ timer = 0
  /\ interval = 0 /\ elapsed = Never
  /\ heartbeat_forced = FALSE /\ forced_age = 0
  /\ stop_event = FALSE /\ stopper = "running" /\ after_stop = 0
  /\ completion = "none"
  /\ failures = MaxFailures /\ idle = 0    \* nothing to count from yet

-----------------------------------------------------------------------------
(* The heartbeat thread                                                    *)

(* Mutant: the whole interval is slept, whatever may be forced meanwhile.  *)
MutPlannedWait == IF interval > elapsed THEN interval - elapsed ELSE 0

(* Mutant: every round waits the minimum interval.                         *)
MutFixedWait == MinInterval

PlannedWait ==
  Smaller(MinInterval, IF interval > elapsed THEN interval - elapsed ELSE 0)

BeginWait == phase' = "waiting" /\ timer' = PlannedWait

(* run: find the address to advertise, or end with LookupAgentIPError.     *)
SetAdvertiseAddress ==
  /\ phase = "starting"
  /\ BeginWait
  /\ UNCHANGED <<interval, elapsed, forcedVars, stopVars, after_stop,
                 completion, retryVars>>

AddressNotFound ==
  /\ phase = "starting"
  /\ phase' = "dead"
  /\ UNCHANGED <<timer, interval, elapsed, forcedVars, stopVars, after_stop,
                 completion, retryVars>>

(* Mutant: the wait ends, but the loop goes on.                            *)
MutStopSeen ==
  /\ phase = "waiting" /\ stop_event
  /\ phase' = "checking"
  /\ UNCHANGED <<timer, interval, elapsed, forcedVars, stopVars, after_stop,
                 completion, retryVars>>

StopSeen ==
  /\ phase = "waiting" /\ stop_event
  /\ phase' = "dead"
  /\ UNCHANGED <<timer, interval, elapsed, forcedVars, stopVars, after_stop,
                 completion, retryVars>>

WaitOver ==
  /\ phase = "waiting" /\ timer = 0 /\ ~stop_event
  /\ phase' = "checking"
  /\ UNCHANGED <<timer, interval, elapsed, forcedVars, stopVars, after_stop,
                 completion, retryVars>>

HeartbeatExpected ==
  \/ elapsed >= interval
  \/ heartbeat_forced /\ elapsed > MinInterval

Sleep == phase' = "sleeping" /\ timer' = LoopSleep

NotYet ==
  /\ phase = "checking" /\ ~HeartbeatExpected
  /\ Sleep
  /\ UNCHANGED <<interval, elapsed, forcedVars, stopVars, after_stop,
                 completion, retryVars>>

BeginHeartbeat ==
  /\ phase = "checking" /\ HeartbeatExpected
  /\ phase' = "sending"
  /\ after_stop' = IF stop_event THEN Smaller(after_stop + 1, 2) ELSE 0
  /\ completion' = IF completion = "requested" THEN "covered" ELSE completion
  /\ UNCHANGED <<timer, interval, elapsed, forcedVars, stopVars, retryVars>>

(* do_heartbeat returns without an exception.                              *)
HeartbeatSucceeds ==
  /\ phase = "sending"
  /\ heartbeat_forced' = FALSE /\ forced_age' = 0
  /\ interval' \in NormalIntervals
  /\ elapsed' = 0
  /\ Sleep
  /\ completion' = IF completion = "covered" THEN "announced" ELSE completion
  /\ failures' = 0 /\ idle' = 0
  /\ UNCHANGED <<stopVars, after_stop>>

Counted == failures' = Smaller(failures + 1, MaxFailures) /\ UNCHANGED idle

(* Mutant: the exception ends the thread.                                  *)
MutErrorEndsThread ==
  /\ phase = "sending"
  /\ phase' = "dead"
  /\ completion' = IF completion = "covered" THEN "requested" ELSE completion
  /\ Counted
  /\ UNCHANGED <<timer, interval, elapsed, forcedVars, stopVars, after_stop>>

(* Mutant: a heartbeat that failed is due again as if it had not.          *)
MutErrorKeepsPace ==
  /\ phase = "sending"
  /\ interval' \in NormalIntervals
  /\ elapsed' = 0
  /\ Sleep
  /\ completion' = IF completion = "covered" THEN "requested" ELSE completion
  /\ Counted
  /\ UNCHANGED <<forcedVars, stopVars, after_stop>>

HeartbeatFails ==
  /\ phase = "sending"
  /\ interval' \in ErrorIntervals
  /\ elapsed' = 0
  /\ Sleep
  /\ completion' = IF completion = "covered" THEN "requested" ELSE completion
  /\ Counted
  /\ UNCHANGED <<forcedVars, stopVars, after_stop>>

SleepOver ==
  /\ phase = "sleeping" /\ timer = 0
  /\ BeginWait
  /\ UNCHANGED <<interval, elapsed, forcedVars, stopVars, after_stop,
                 completion, retryVars>>

-----------------------------------------------------------------------------
(* Other threads and the clock                                             *)

SetForced ==
  /\ heartbeat_forced' = TRUE
  /\ forced_age' = IF heartbeat_forced THEN forced_age ELSE 0
  /\ UNCHANGED <<phase, timer, interval, elapsed, stopVars, after_stop, retryVars>>

(* force_heartbeat, called when any command ends ...                       *)
ForceHeartbeat == SetForced /\ UNCHANGED completion

(* ... and when the one command ends that completion is about.             *)
CommandCompletes ==
  /\ completion = "none"
  /\ completion' = "requested"
  /\ SetForced

(* stop(): the main thread joins the heartbeater if it is alive.           *)
Stop ==
  /\ stopper = "running" /\ phase # "dead"
  /\ stop_event' = TRUE
  /\ stopper' = "joining"
  /\ UNCHANGED <<phase, timer, interval, elapsed, forcedVars, after_stop,
                 completion, retryVars>>

Joined ==
  /\ stopper = "joining" /\ phase = "dead"
  /\ stopper' = "joined"
  /\ UNCHANGED <<phase, timer, interval, elapsed, forcedVars, stop_event,
                 after_stop, completion, retryVars>>

(* The thread is in a call or in a wait that has not run out.              *)
MayPass == \/ phase \in {"starting", "sending", "dead"}
           \/ phase = "waiting" /\ timer > 0 /\ ~stop_event
           \/ phase = "sleeping" /\ timer > 0

Tick ==
  /\ MayPass
  /\ timer' = IF timer > 0 THEN timer - 1 ELSE 0
  /\ elapsed' = Older(elapsed)
  /\ forced_age' = IF heartbeat_forced THEN Older(forced_age) ELSE 0
  /\ idle' = IF failures < MaxFailures /\ phase \in {"waiting", "sleeping"}
               THEN idle + 1 ELSE idle
  /\ UNCHANGED <<phase, interval, heartbeat_forced, stopVars, after_stop,
                 completion, failures>>

-----------------------------------------------------------------------------

Thread ==
  \/ SetAdvertiseAddress \/ AddressNotFound \/ StopSeen \/ WaitOver
  \/ NotYet \/ BeginHeartbeat \/ HeartbeatSucceeds \/ HeartbeatFails
  \/ SleepOver

Next ==
  \/ Thread
  \/ ForceHeartbeat \/ CommandCompletes
  \/ Stop \/ Joined
  \/ Tick

Spec == Init /\ [][Next]_vars

(* The thread is scheduled, time passes, a call of the API returns, and    *)
(* Ironic does not refuse every heartbeat for ever.                        *)
FairSpec == /\ Spec
            /\ WF_vars(Thread) /\ WF_vars(Tick) /\ WF_vars(Joined)
            /\ SF_vars(HeartbeatSucceeds)

-----------------------------------------------------------------------------
(* Properties                                                              *)

(* Every variable holds a value of its type.                               *)
TypeOK ==
  /\ phase \in Phases
  /\ timer \in 0..Horizon
  /\ interval \in {0} \cup NormalIntervals \cup ErrorIntervals
  /\ elapsed \in 0..Never /\ forced_age \in 0..Horizon
  /\ heartbeat_forced \in BOOLEAN /\ stop_event \in BOOLEAN
  /\ stopper \in {"running", "joining", "joined"}
  /\ after_stop \in 0..2
  /\ completion \in Completion
  /\ failures \in 0..MaxFailures /\ idle \in Nat

(* "Error retry between 5 and 10 seconds, at least 12 retries with the     *)
(* default ramdisk_heartbeat_timeout of 300 and the worst case interval    *)
(* jitter of 0.6": since the last heartbeat that Ironic accepted, the time *)
(* the thread let pass between its calls is at most the interval planned   *)
(* then, twice the minimum for each retry that failed, and a sleep of the  *)
(* loop for each.  (With 180, 5 and 0.1 seconds, 300 are reached after 12.)*)
RetriesKeepUp ==
  failures < MaxFailures =>
    \E n \in NormalIntervals :
      idle <= n + LoopSleep + failures * (2 * MinInterval + LoopSleep)

(* "do wait 5 to account for forced heartbeats": while the flag is set and *)
(* no heartbeat is under way, neither the request nor the last heartbeat   *)
(* is older than one round of the loop.                                    *)
ForcedIsPrompt ==
  heartbeat_forced /\ phase \in {"waiting", "checking", "sleeping"}
                   /\ elapsed # Never =>
    Smaller(forced_age, elapsed) <= MinInterval + LoopSleep

(* Without a request, heartbeats do not drift: the thread never waits past *)
(* the planned interval by more than one sleep of the loop.                *)
NoLateHeartbeat ==
  phase \in {"waiting", "checking"} /\ elapsed # Never
    => elapsed + timer <= interval + LoopSleep

(* The main thread may set stop_event between the wait and the check: one  *)
(* heartbeat at most is begun after that.                                  *)
OneHeartbeatAfterStop == after_stop <= 1

(* A completed command becomes known to Ironic, by a heartbeat that began  *)
(* after it completed, even if the request was lost or met errors.  (The   *)
(* thread may have died of LookupAgentIPError before its first heartbeat.) *)
CompletionIsAnnounced ==
  completion = "requested" /\ elapsed # Never ~>
    completion = "announced" \/ stop_event
=============================================================================
