----------------------------- MODULE AgentProofs -----------------------------
(***************************************************************************)
(* Proofs about the heartbeat thread, for every choice of the intervals    *)
(* that TimesAssumption allows: how soon a forced heartbeat follows, how   *)
(* late a regular one can be, how retries keep up with the time that       *)
(* passes, and how many heartbeats follow stop().                          *)
(*                                                                         *)
(* The thread sends its heartbeats through the client that lookups use     *)
(* too: the second part is about the client (ApiClient), for every list of *)
(* URLs and every choice of the times that ClientAssumption allows.        *)
(*                                                                         *)
(* The third part is about the life of the process that runs the thread    *)
(* (AgentLifecycle), for every set of interfaces and every number of       *)
(* restarts: its lockdown, the token its heartbeats carry, and the API     *)
(* after a rescue.                                                         *)
(***************************************************************************)
EXTENDS Heartbeater, ApiClient, AgentLifecycle, TLAPS

(* The first interval is 0, so that the first heartbeat is due at once.    *)
Planned == /\ interval \in 0..Horizon
           /\ elapsed = Never => interval = 0
           /\ phase = "starting" => elapsed = Never

(* A wait or sleep is never longer than it was when it began.              *)
TimerInv ==
  /\ phase = "sleeping" => timer <= LoopSleep
  /\ phase = "waiting" => timer <= MinInterval
  /\ phase = "checking" => timer = 0

(* A wait never ends too early to send a heartbeat that was forced before  *)
(* it began: a round that decides against a heartbeat finds the flag off.  *)
EnoughInv ==
  elapsed # Never =>
    /\ phase = "sleeping" => elapsed + timer >= LoopSleep
    /\ phase \in {"waiting", "checking"} =>
         \/ elapsed + timer >= interval
         \/ elapsed + timer >= MinInterval + LoopSleep

(* The flag, or the heartbeat before it, is young enough to be served by   *)
(* the end of the current wait.                                            *)
ForcedInv ==
  elapsed # Never /\ heartbeat_forced =>
    /\ phase = "sleeping" => \/ forced_age + timer <= LoopSleep
                             \/ elapsed + timer <= LoopSleep
    /\ phase \in {"waiting", "checking"} =>
         \/ forced_age + timer <= MinInterval + LoopSleep
         \/ elapsed + timer <= MinInterval + LoopSleep

LateInv ==
  elapsed # Never /\ phase \in {"sleeping", "waiting", "checking"} =>
    elapsed + timer <= interval + LoopSleep

(* The check that follows a wait which saw stop_event clear is the only    *)
(* one that can still send.                                                *)
StopInv ==
  /\ after_stop <= 1
  /\ ~stop_event => after_stop = 0
  /\ phase = "checking" => after_stop = 0

(* The idle time is that up to the last heartbeat, by which the interval   *)
(* that was planned at each of them bounds it, and what elapsed since.     *)
RetryInv ==
  failures < MaxFailures =>
    /\ elapsed # Never
    /\ \E n \in NormalIntervals :
         /\ idle <= n + LoopSleep + failures * (2 * MinInterval + LoopSleep)
         /\ phase \in {"sleeping", "waiting", "checking"} =>
              idle + interval <= elapsed + n + failures * (2 * MinInterval + LoopSleep)

IInv == /\ TypeOK /\ Planned /\ TimerInv /\ EnoughInv /\ ForcedInv
        /\ LateInv /\ StopInv

-----------------------------------------------------------------------------

(* What the wait of a round can be (_run_next).                            *)
LEMMA WaitBounds ==
  ASSUME TypeOK
  PROVE  /\ PlannedWait \in 0..MinInterval
         /\ interval > elapsed => elapsed + PlannedWait <= interval
         /\ interval <= elapsed => PlannedWait = 0
         /\ \/ elapsed + PlannedWait >= interval
            \/ PlannedWait = MinInterval
<1>1. interval \in Nat /\ elapsed \in Nat /\ MinInterval \in Nat
  BY TimesAssumption DEF TypeOK
<1> QED BY <1>1 DEF PlannedWait, Smaller

LEMMA OlderBounds ==
  /\ \A age \in 0..Horizon :
       /\ Older(age) \in 0..Horizon
       /\ Older(age) <= age + 1
       /\ Older(age) >= age
       /\ Older(age) = age + 1 \/ Older(age) = Horizon
  /\ Older(Never) = Never
BY TimesAssumption DEF Older, Smaller, Never

LEMMA Times ==
  /\ MinInterval \in Nat /\ LoopSleep \in Nat /\ LoopSleep >= 1
  /\ Horizon \in Nat /\ MinInterval + LoopSleep < Horizon
  /\ MaxFailures \in Nat /\ Never \in Nat /\ Never > Horizon
BY TimesAssumption DEF Never

LEMMA Intervals ==
  /\ \A t \in NormalIntervals \cup ErrorIntervals :
       t \in 0..Horizon /\ t + LoopSleep <= Horizon
  /\ \A t \in ErrorIntervals : t <= 2 * MinInterval
BY TimesAssumption

(* Every step keeps the types of what is counted of the retries.           *)
LEMMA CountsKept ==
  ASSUME TypeOK, [Next]_vars
  PROVE  failures' \in 0..MaxFailures /\ idle' \in Nat
<1>1. failures \in 0..MaxFailures /\ idle \in Nat
  BY DEF TypeOK
<1>2. CASE UNCHANGED retryVars
  BY <1>1, <1>2 DEF retryVars
<1>3. CASE HeartbeatSucceeds
  BY <1>3, Times DEF HeartbeatSucceeds
<1>4. CASE HeartbeatFails
  BY <1>1, <1>4, Times DEF HeartbeatFails, Counted, Smaller
<1>5. CASE Tick
  BY <1>1, <1>5 DEF Tick
<1> QED BY <1>2, <1>3, <1>4, <1>5
        DEF Next, Thread, vars, retryVars, SetAdvertiseAddress, AddressNotFound, StopSeen,
            WaitOver, NotYet, BeginHeartbeat, SleepOver, ForceHeartbeat, CommandCompletes,
            SetForced, Stop, Joined

LEMMA InitIInv == Init => IInv
<1> SUFFICES ASSUME Init PROVE IInv
  OBVIOUS
<1>1. TypeOK
  <2>1. heartbeat_forced \in BOOLEAN /\ stop_event \in BOOLEAN
    BY DEF Init
  <2>2. timer = 0 /\ interval = 0 /\ elapsed = Never /\ forced_age = 0
        /\ after_stop = 0 /\ failures = MaxFailures /\ idle = 0
    BY DEF Init
  <2>3. phase \in Phases /\ stopper \in {"running", "joining", "joined"}
        /\ completion \in Completion
    BY DEF Init, Phases, Completion
  <2> QED BY <2>1, <2>2, <2>3, Times DEF TypeOK
<1>2. Planned /\ TimerInv /\ EnoughInv /\ ForcedInv /\ LateInv /\ StopInv
  BY Times DEF Init, Planned, TimerInv, EnoughInv, ForcedInv, LateInv,
               StopInv
<1> QED BY <1>1, <1>2 DEF IInv

(* The rounds of the thread begin with a wait, from two places.            *)
LEMMA RoundBegins ==
  ASSUME IInv, SetAdvertiseAddress \/ SleepOver
  PROVE  IInv'
<1>0. TypeOK /\ interval \in Nat /\ elapsed \in Nat /\ timer \in Nat
  BY Times, Intervals DEF IInv, TypeOK
<1>1. phase' = "waiting" /\ timer' = PlannedWait
  BY DEF SetAdvertiseAddress, SleepOver, BeginWait
<1>2. /\ interval' = interval /\ elapsed' = elapsed
      /\ heartbeat_forced' = heartbeat_forced /\ forced_age' = forced_age
      /\ stop_event' = stop_event /\ stopper' = stopper
      /\ after_stop' = after_stop /\ completion' = completion
  BY DEF SetAdvertiseAddress, SleepOver, forcedVars, stopVars
<1>3. TypeOK'
  <2>1. failures' \in 0..MaxFailures /\ idle' \in Nat
    BY <1>0, CountsKept DEF Next, Thread
  <2> QED BY <2>1, <1>0, <1>1, <1>2, WaitBounds, Times DEF TypeOK, Phases
<1>4. CASE SetAdvertiseAddress
  <2> QED BY <1>0, <1>1, <1>2, <1>3, <1>4, WaitBounds, Times
          DEF IInv, TypeOK, SetAdvertiseAddress, Planned, TimerInv, EnoughInv,
              ForcedInv, LateInv, StopInv
<1>5. CASE SleepOver
  <2>1. phase = "sleeping" /\ timer = 0
    BY <1>5 DEF SleepOver
  <2>2. forced_age \in Nat
    BY Times DEF IInv, TypeOK
  <2>3. Planned' /\ TimerInv' /\ StopInv'
    BY <1>0, <1>1, <1>2, <2>1, WaitBounds, Times
    DEF IInv, Planned, TimerInv, StopInv
  <2>4. EnoughInv'
    BY <1>0, <1>1, <1>2, <2>1, WaitBounds, Times DEF IInv, EnoughInv
  <2>5. ForcedInv'
    BY <1>0, <1>1, <1>2, <2>1, <2>2, WaitBounds, Times DEF IInv, ForcedInv
  <2>6. LateInv'
    BY <1>0, <1>1, <1>2, <2>1, WaitBounds, Times DEF IInv, LateInv
  <2> QED BY <1>3, <2>3, <2>4, <2>5, <2>6 DEF IInv
<1> QED BY <1>4, <1>5

(* A call of the API ended, one way or the other.                          *)
LEMMA HeartbeatEnds ==
  ASSUME IInv, HeartbeatSucceeds \/ HeartbeatFails
  PROVE  IInv'
<1>1. phase' = "sleeping" /\ timer' = LoopSleep /\ elapsed' = 0
  BY DEF HeartbeatSucceeds, HeartbeatFails, Sleep
<1>2. interval' \in NormalIntervals \cup ErrorIntervals
  BY DEF HeartbeatSucceeds, HeartbeatFails
<1>3. interval' \in 0..Horizon
  BY <1>2, Intervals
<1>4. heartbeat_forced' \in BOOLEAN /\ forced_age' \in 0..Horizon
  <2>1. /\ \/ heartbeat_forced' = FALSE
           \/ heartbeat_forced' = heartbeat_forced
        /\ forced_age' = 0 \/ forced_age' = forced_age
    BY DEF HeartbeatSucceeds, HeartbeatFails, forcedVars
  <2>2. heartbeat_forced' \in BOOLEAN
    BY <2>1 DEF IInv, TypeOK
  <2>3. forced_age' \in 0..Horizon
    BY <2>1, Times DEF IInv, TypeOK
  <2> QED BY <2>2, <2>3
<1>5. /\ stop_event' = stop_event /\ stopper' = stopper
      /\ after_stop' = after_stop
  BY DEF HeartbeatSucceeds, HeartbeatFails, stopVars
<1>6. completion' \in Completion
  BY DEF HeartbeatSucceeds, HeartbeatFails, IInv, TypeOK, Completion
<1>7. TypeOK'
  <2>1. failures' \in 0..MaxFailures /\ idle' \in Nat
    BY CountsKept DEF IInv, Next, Thread
  <2> QED BY <2>1, <1>1, <1>2, <1>4, <1>5, <1>6, Times DEF IInv, TypeOK, Phases
<1>8. Planned' /\ TimerInv' /\ EnoughInv' /\ LateInv' /\ ForcedInv'
  <2>1. Planned' /\ TimerInv'
    BY <1>1, <1>3, Times DEF Planned, TimerInv
  <2>2. EnoughInv' /\ LateInv'
    <3>1. elapsed' + timer' = LoopSleep
      BY <1>1, Times
    <3>2. EnoughInv'
      BY <1>1, <3>1, Times DEF EnoughInv
    <3>3. interval' \in Nat
      BY <1>3, Times
    <3>4. LateInv'
      BY <3>1, <3>3, Times DEF LateInv
    <3> QED BY <3>2, <3>4
  <2>3. ForcedInv'
    BY <1>1, <1>3, <1>4, Times DEF ForcedInv
  <2> QED BY <2>1, <2>2, <2>3
<1>9. StopInv'
  BY <1>1, <1>5 DEF IInv, StopInv
<1> QED BY <1>7, <1>8, <1>9 DEF IInv

(* The flag is set, by whichever command thread (force_heartbeat).         *)
LEMMA FlagSet ==
  ASSUME IInv, ForceHeartbeat \/ CommandCompletes
  PROVE  IInv'
<1>1. /\ heartbeat_forced' = TRUE
      /\ forced_age' = IF heartbeat_forced THEN forced_age ELSE 0
      /\ phase' = phase /\ timer' = timer /\ interval' = interval
      /\ elapsed' = elapsed /\ after_stop' = after_stop
      /\ stop_event' = stop_event /\ stopper' = stopper
  BY DEF ForceHeartbeat, CommandCompletes, SetForced, stopVars
<1>2. completion' \in Completion
  BY DEF ForceHeartbeat, CommandCompletes, IInv, TypeOK, Completion
<1>3. TypeOK'
  <2>1. failures' \in 0..MaxFailures /\ idle' \in Nat
    BY CountsKept DEF IInv, Next
  <2> QED BY <2>1, <1>1, <1>2, Times DEF IInv, TypeOK
<1>4. ForcedInv'
  BY <1>1, Times DEF IInv, TypeOK, ForcedInv, TimerInv
<1> QED BY <1>1, <1>3, <1>4, Times
        DEF IInv, Planned, TimerInv, EnoughInv, LateInv, StopInv

(* Time passes for every age and runs off the timer alike.                 *)
LEMMA TimePasses ==
  ASSUME IInv, Tick
  PROVE  IInv'
<1>1. /\ phase' = phase /\ interval' = interval
      /\ heartbeat_forced' = heartbeat_forced /\ after_stop' = after_stop
      /\ stop_event' = stop_event /\ stopper' = stopper
      /\ completion' = completion
  BY DEF Tick, stopVars
<1>2. /\ timer' = IF timer > 0 THEN timer - 1 ELSE 0
      /\ elapsed' = Older(elapsed)
      /\ forced_age' = IF heartbeat_forced THEN Older(forced_age) ELSE 0
  BY DEF Tick
<1>3. /\ timer \in 0..Horizon /\ elapsed \in 0..Never
      /\ forced_age \in 0..Horizon /\ interval \in Nat
  BY Times, Intervals DEF IInv, TypeOK
<1>4. /\ elapsed' \in 0..Never /\ elapsed' <= elapsed + 1
      /\ elapsed' = Never <=> elapsed = Never
      /\ elapsed # Never => elapsed' = elapsed + 1 \/ elapsed' = Horizon
  <2>1. CASE elapsed = Never
    BY <1>2, <1>3, <2>1, OlderBounds, Times
  <2>2. CASE elapsed \in 0..Horizon
    BY <1>2, <2>2, OlderBounds, Times
  <2>3. elapsed = Never \/ elapsed \in 0..Horizon
    BY <1>3, Times DEF Never
  <2> QED BY <2>1, <2>2, <2>3
<1>5. /\ forced_age' \in 0..Horizon
      /\ heartbeat_forced => forced_age' <= forced_age + 1
  BY <1>2, <1>3, OlderBounds, Times
<1>6. TypeOK'
  <2>1. failures' \in 0..MaxFailures /\ idle' \in Nat
    BY CountsKept DEF IInv, Next
  <2> QED BY <2>1, <1>1, <1>2, <1>3, <1>4, <1>5, Times DEF IInv, TypeOK
<1>7. phase \in {"sleeping", "waiting"} => timer > 0 /\ timer' = timer - 1
  BY <1>2, <1>3 DEF Tick, MayPass
<1>8. phase # "checking"
  BY DEF Tick, MayPass
<1>9. TimerInv'
  BY <1>1, <1>3, <1>7, <1>8, Times DEF IInv, TimerInv
<1>10. EnoughInv'
  <2>1. interval <= Horizon
    BY Times DEF IInv, Planned
  <2> QED BY <2>1, <1>1, <1>3, <1>4, <1>7, <1>8, Times DEF IInv, EnoughInv
<1>11. ForcedInv'
  BY <1>1, <1>3, <1>4, <1>5, <1>7, <1>8, Times DEF IInv, ForcedInv
<1>12. LateInv'
  BY <1>1, <1>3, <1>4, <1>7, <1>8, Times DEF IInv, LateInv
<1>13. Planned'
  BY <1>1, <1>4 DEF IInv, Planned
<1> QED BY <1>1, <1>6, <1>9, <1>10, <1>11, <1>12, <1>13 DEF IInv, StopInv

LEMMA IInvStep == IInv /\ [Next]_vars => IInv'
<1> SUFFICES ASSUME IInv, [Next]_vars PROVE IInv'
  OBVIOUS
<1> USE Times
<1>0. failures' \in 0..MaxFailures /\ idle' \in Nat
  BY CountsKept DEF IInv
<1>1. CASE SetAdvertiseAddress \/ SleepOver
  BY <1>1, RoundBegins
<1>2. CASE AddressNotFound
  BY <1>0, <1>2 DEF AddressNotFound, IInv, TypeOK, Planned, TimerInv, EnoughInv,
              ForcedInv, LateInv, StopInv, forcedVars, stopVars, Phases
<1>3. CASE StopSeen
  BY <1>0, <1>3 DEF StopSeen, IInv, TypeOK, Planned, TimerInv, EnoughInv,
              ForcedInv, LateInv, StopInv, forcedVars, stopVars, Phases
<1>4. CASE WaitOver
  BY <1>0, <1>4 DEF WaitOver, IInv, TypeOK, Planned, TimerInv, EnoughInv,
              ForcedInv, LateInv, StopInv, forcedVars, stopVars, Phases
<1>5. CASE NotYet
  <2>1. /\ phase = "checking" /\ phase' = "sleeping" /\ timer' = LoopSleep
        /\ interval' = interval /\ elapsed' = elapsed
        /\ heartbeat_forced' = heartbeat_forced /\ forced_age' = forced_age
        /\ stop_event' = stop_event /\ stopper' = stopper
        /\ after_stop' = after_stop /\ completion' = completion
    BY <1>5 DEF NotYet, Sleep, forcedVars, stopVars
  <2>2. TypeOK'
    BY <1>0, <2>1 DEF IInv, TypeOK, Phases
  <2>3. elapsed < interval /\ (heartbeat_forced => elapsed <= MinInterval)
    BY <1>5 DEF NotYet, HeartbeatExpected, IInv, TypeOK
  <2>4. ~heartbeat_forced
    BY <2>1, <2>3 DEF IInv, TypeOK, EnoughInv, TimerInv
  <2> QED BY <2>1, <2>2, <2>3, <2>4
          DEF IInv, TypeOK, Planned, TimerInv, EnoughInv, ForcedInv, LateInv,
              StopInv
<1>6. CASE BeginHeartbeat
  <2>1. phase = "checking" /\ phase' = "sending"
    BY <1>6 DEF BeginHeartbeat
  <2>2. /\ timer' = timer /\ interval' = interval /\ elapsed' = elapsed
        /\ heartbeat_forced' = heartbeat_forced /\ forced_age' = forced_age
        /\ stop_event' = stop_event /\ stopper' = stopper
    BY <1>6 DEF BeginHeartbeat, forcedVars, stopVars
  <2>3. after_stop' \in 0..1 /\ (~stop_event => after_stop' = 0)
    BY <1>6, <2>1 DEF BeginHeartbeat, Smaller, IInv, TypeOK, StopInv
  <2>4. completion' \in Completion
    BY <1>6 DEF BeginHeartbeat, IInv, TypeOK, Completion
  <2> QED BY <1>0, <2>1, <2>2, <2>3, <2>4
          DEF IInv, TypeOK, Planned, TimerInv, EnoughInv, ForcedInv, LateInv,
              StopInv, Phases
<1>7. CASE HeartbeatSucceeds \/ HeartbeatFails
  BY <1>7, HeartbeatEnds
<1>8. CASE ForceHeartbeat \/ CommandCompletes
  BY <1>8, FlagSet
<1>9. CASE Stop
  BY <1>0, <1>9 DEF Stop, IInv, TypeOK, Planned, TimerInv, EnoughInv,
              ForcedInv, LateInv, StopInv, forcedVars
<1>10. CASE Joined
  BY <1>0, <1>10 DEF Joined, IInv, TypeOK, Planned, TimerInv, EnoughInv,
               ForcedInv, LateInv, StopInv, forcedVars
<1>11. CASE Tick
  BY <1>11, TimePasses
<1>12. CASE UNCHANGED vars
  BY <1>0, <1>12 DEF vars, IInv, TypeOK, Planned, TimerInv, EnoughInv, ForcedInv,
               LateInv, StopInv, forcedVars, stopVars
<1> QED BY <1>1, <1>2, <1>3, <1>4, <1>5, <1>6, <1>7, <1>8, <1>9, <1>10,
           <1>11, <1>12 DEF Next, Thread

LEMMA Invariance == Spec => []IInv
BY InitIInv, IInvStep, PTL DEF Spec

LEMMA InitRetry == Init => RetryInv
BY Times DEF Init, RetryInv

LEMMA RetryStep == IInv /\ RetryInv /\ [Next]_vars => RetryInv'
<1> SUFFICES ASSUME IInv, RetryInv, [Next]_vars, failures' < MaxFailures PROVE RetryInv'
  BY DEF RetryInv
<1> DEFINE Round == 2 * MinInterval + LoopSleep
<1>1. /\ failures \in Nat /\ idle \in Nat /\ interval \in Nat /\ elapsed \in Nat /\ timer \in Nat
      /\ failures' \in Nat /\ idle' \in Nat
      /\ \A n \in NormalIntervals : n \in Nat
  BY Times, Intervals, CountsKept DEF IInv, TypeOK
<1>2. Round \in Nat /\ failures * Round \in Nat /\ (failures + 1) * Round = failures * Round + Round
      /\ 0 * Round = 0
  BY <1>1, Times
<1>3. CASE HeartbeatSucceeds
  <2>1. /\ idle' = 0 /\ failures' = 0 /\ elapsed' = 0 /\ interval' \in NormalIntervals
    BY <1>3 DEF HeartbeatSucceeds
  <2> QED BY <1>1, <1>2, <2>1, Times DEF RetryInv
<1>4. ASSUME ~HeartbeatSucceeds PROVE RetryInv'
  <2>1. failures < MaxFailures
    BY <1>1, <1>4, Times
    DEF Next, Thread, vars, retryVars, SetAdvertiseAddress, AddressNotFound, StopSeen,
        WaitOver, NotYet, BeginHeartbeat, HeartbeatFails, Counted, Smaller, SleepOver,
        ForceHeartbeat, CommandCompletes, SetForced, Stop, Joined, Tick
  <2>2. elapsed # Never
    BY <2>1 DEF RetryInv
  <2>3. PICK n \in NormalIntervals :
          /\ idle <= n + LoopSleep + failures * Round
          /\ phase \in {"sleeping", "waiting", "checking"} =>
               idle + interval <= elapsed + n + failures * Round
    BY <2>1 DEF RetryInv
  <2> HIDE DEF Round
  <2>4. CASE HeartbeatFails
    <3>1. /\ idle' = idle /\ elapsed' = 0 /\ interval' \in ErrorIntervals
          /\ failures' = failures + 1
      BY <1>1, <2>1, <2>4, Times DEF HeartbeatFails, Counted, Smaller
    <3>2. /\ idle' + interval' <= elapsed' + n + failures' * Round
          /\ idle' <= n + LoopSleep + failures' * Round
      BY <1>1, <1>2, <2>3, <3>1, Intervals, Times DEF Round
    <3> QED BY <3>1, <3>2, Times DEF RetryInv, Round
  <2>5. CASE Tick
    <3>1. /\ failures' = failures /\ phase' = phase /\ interval' = interval
          /\ elapsed' = Older(elapsed) /\ phase # "checking"
          /\ phase \in {"waiting", "sleeping"} => timer > 0 /\ idle' = idle + 1
          /\ phase \notin {"waiting", "sleeping"} => idle' = idle
      BY <2>1, <2>5 DEF Tick, MayPass
    <3>2. elapsed' # Never /\ elapsed' \in Nat
      BY <1>1, <2>2, <3>1, OlderBounds, Times DEF Never, IInv, TypeOK
    <3>3. ASSUME phase \in {"waiting", "sleeping"}
          PROVE  idle' + interval <= elapsed' + n + failures * Round /\ idle' <= n + LoopSleep + failures * Round
      <4>1. elapsed + timer <= interval + LoopSleep /\ timer > 0 /\ idle' = idle + 1
        BY <2>2, <3>1, <3>3 DEF IInv, LateInv
      <4>2. interval = 0 \/ interval + LoopSleep <= Horizon
        BY Intervals DEF IInv, TypeOK
      <4>3. elapsed' = elapsed + 1
        <5>1. elapsed + 1 <= Horizon
          BY <1>1, <4>1, <4>2, Times
        <5> QED BY <1>1, <3>1, <5>1, Times DEF Older, Smaller, Never
      <4> QED BY <1>1, <1>2, <2>3, <3>3, <4>1, <4>3, Times
    <3> QED BY <2>3, <3>1, <3>2, <3>3 DEF RetryInv, Round
  <2>6. CASE NotYet \/ SleepOver \/ WaitOver \/ StopSeen \/ BeginHeartbeat
    <3>1. /\ failures' = failures /\ idle' = idle /\ interval' = interval /\ elapsed' = elapsed
          /\ phase' \in {"sleeping", "waiting", "checking"} =>
               phase \in {"sleeping", "waiting", "checking"}
      BY <2>6 DEF NotYet, SleepOver, WaitOver, StopSeen, BeginHeartbeat, retryVars, Sleep,
                  BeginWait
    <3> QED BY <2>2, <2>3, <3>1 DEF RetryInv, Round
  <2>7. CASE \/ AddressNotFound \/ ForceHeartbeat \/ CommandCompletes \/ Stop \/ Joined
             \/ UNCHANGED vars
    <3>1. /\ failures' = failures /\ idle' = idle /\ interval' = interval /\ elapsed' = elapsed
          /\ phase' = phase \/ phase' = "dead"
      BY <2>7 DEF AddressNotFound, ForceHeartbeat, CommandCompletes, SetForced, Stop, Joined,
                  vars, retryVars
    <3> QED BY <2>2, <2>3, <3>1 DEF RetryInv, Round
  <2>8. CASE SetAdvertiseAddress
    BY <2>2, <2>8 DEF SetAdvertiseAddress, IInv, Planned
  <2> QED BY <1>4, <2>4, <2>5, <2>6, <2>7, <2>8 DEF Next, Thread
<1> QED BY <1>3, <1>4

-----------------------------------------------------------------------------

(* No variable of the thread leaves its type, the intervals included: an   *)
(* error never makes the next interval grow without bound.                 *)
THEOREM TypeCorrect == Spec => []TypeOK
<1>1. IInv => TypeOK
  BY DEF IInv
<1> QED BY <1>1, Invariance, PTL

(* "Do wait 5 to account for forced heartbeats": a forced heartbeat leaves *)
(* at most one round of the loop after the minimum interval.               *)
THEOREM ForcedInTime == Spec => []ForcedIsPrompt
<1>1. IInv => ForcedIsPrompt
  BY Times DEF IInv, TypeOK, ForcedInv, ForcedIsPrompt, Smaller
<1> QED BY <1>1, Invariance, PTL

(* The thread never plans to wake up later than its interval and one sleep *)
(* of the loop.                                                            *)
THEOREM NeverLate == Spec => []NoLateHeartbeat
<1>1. IInv => NoLateHeartbeat
  BY DEF IInv, LateInv, NoLateHeartbeat
<1> QED BY <1>1, Invariance, PTL

(* stop() is followed by at most one more heartbeat.                       *)
THEOREM LastHeartbeat == Spec => []OneHeartbeatAfterStop
<1>1. IInv => OneHeartbeatAfterStop
  BY DEF IInv, StopInv, OneHeartbeatAfterStop
<1> QED BY <1>1, Invariance, PTL

(* "At least 12 retries": the time the thread lets pass between its calls  *)
(* since the last heartbeat that Ironic accepted is that of the interval   *)
(* planned then and of the retries that failed.                            *)
THEOREM RetriesInTime == Spec => []RetriesKeepUp
<1>1. RetryInv => RetriesKeepUp
  BY DEF RetryInv, RetriesKeepUp
<1> QED BY <1>1, InitRetry, RetryStep, Invariance, PTL DEF Spec

-----------------------------------------------------------------------------
(* The client of Ironic's API *)

Elements(s) == {s[i] : i \in 1 .. Len(s)}

(* No list of URLs ever loses, gains or repeats one: the client's, and the *)
(* one that each request walks.                                            *)
AllUrls(s) == s \in Seq(UrlSet) /\ Len(s) = Len(Urls) /\ Elements(s) = UrlSet

(* A request has missed every URL of its list up to where it is.           *)
WalkInv ==
  \A t \in Threads :
    /\ AllUrls(list[t]) /\ idx[t] \in 1 .. Len(list[t])
    /\ at[t] \in Requesting => tried[t] = {list[t][i] : i \in 1 .. idx[t] - 1}

(* The longest that k calls take.                                          *)
Calls(k) == k * CallTime

(* What a lookup can have taken by each point of its attempt.              *)
SpendInv ==
  LET k == idx["command"]
      last == Timeout + MaxWait
      walk == Calls(Len(Urls))
  IN /\ lookup_time \in Nat
     /\ at["command"] = "discover" => lookup_time < last + Calls(k - 1)
     /\ at["command"] = "discovered" => lookup_time < last + walk
     /\ at["command"] = "send" => lookup_time < last + walk + Calls(k - 1)
     /\ at["command"] = "sent" => lookup_time < last + walk + walk
     /\ lookup_time < last + walk + walk + 6

ClientInv ==
  /\ at \in [Threads -> Doing] /\ list \in [Threads -> Seq(UrlSet)]
  /\ idx \in [Threads -> Int] /\ tried \in [Threads -> SUBSET UrlSet]
  /\ AllUrls(apiUrls)
  /\ WalkInv
  /\ SpendInv

LEMMA RotatedKeeps ==
  ASSUME NEW S, NEW s \in Seq(S), NEW n \in 1 .. Len(s)
  PROVE  /\ Rotated(s, n) \in Seq(S)
         /\ Len(Rotated(s, n)) = Len(s)
         /\ Elements(Rotated(s, n)) = Elements(s)
<1> DEFINE a == SubSeq(s, n, Len(s))
           b == SubSeq(s, 1, n - 1)
           r == Rotated(s, n)
<1>0. Len(s) \in Nat /\ n \in Int /\ 1 <= n /\ n <= Len(s)
  OBVIOUS
<1>1. a \in Seq(S) /\ Len(a) = Len(s) - n + 1
      /\ \A i \in 1 .. Len(s) - n + 1 : a[i] = s[i + n - 1]
  BY <1>0
<1>2. b \in Seq(S) /\ Len(b) = n - 1 /\ \A i \in 1 .. n - 1 : b[i] = s[i]
  BY <1>0
<1>3. r = a \o b
  BY DEF Rotated
<1> HIDE DEF a, b, r
<1>4. r \in Seq(S) /\ Len(r) = Len(s)
  BY <1>0, <1>1, <1>2, <1>3
<1>5. /\ \A i \in 1 .. Len(s) - n + 1 : r[i] = s[i + n - 1]
      /\ \A i \in Len(s) - n + 2 .. Len(s) : r[i] = s[i - (Len(s) - n + 1)]
  <2>1. \A i \in 1 .. Len(s) - n + 1 : r[i] = a[i]
    BY <1>0, <1>1, <1>2, <1>3, <1>4
  <2>2. \A i \in Len(s) - n + 2 .. Len(s) : r[i] = b[i - (Len(s) - n + 1)]
    BY <1>0, <1>1, <1>2, <1>3, <1>4
  <2> QED BY <2>1, <2>2, <1>0, <1>1, <1>2
<1>6. \A i \in 1 .. Len(s) : r[i] \in Elements(s)
  <2> TAKE i \in 1 .. Len(s)
  <2>1. \E k \in 1 .. Len(s) : r[i] = s[k]
    <3>1. CASE i <= Len(s) - n + 1
      <4>1. i + n - 1 \in 1 .. Len(s) /\ i \in 1 .. Len(s) - n + 1
        BY <3>1, <1>0
      <4>2. r[i] = s[i + n - 1]
        BY <4>1, <1>5
      <4> QED BY <4>1, <4>2
    <3>2. CASE i > Len(s) - n + 1
      <4>1. /\ i - (Len(s) - n + 1) \in 1 .. Len(s)
            /\ i \in Len(s) - n + 2 .. Len(s)
        BY <3>2, <1>0
      <4>2. r[i] = s[i - (Len(s) - n + 1)]
        BY <4>1, <1>5
      <4> QED BY <4>1, <4>2
    <3> QED BY <1>0, <3>1, <3>2
  <2> QED BY <2>1 DEF Elements
<1>7. \A j \in 1 .. Len(s) : s[j] \in Elements(r)
  <2> TAKE j \in 1 .. Len(s)
  <2>1. CASE j >= n
    <3>1. j - n + 1 \in 1 .. Len(s) - n + 1 /\ (j - n + 1) + n - 1 = j
      BY <1>0, <2>1
    <3>2. r[j - n + 1] = s[j]
      BY <3>1, <1>5
    <3> QED BY <1>0, <3>1, <3>2, <1>4 DEF Elements
  <2>2. CASE j < n
    <3> DEFINE k == j + (Len(s) - n + 1)
    <3>1. k \in Len(s) - n + 2 .. Len(s) /\ k \in 1 .. Len(s) /\ k - (Len(s) - n + 1) = j
      BY <1>0, <2>2
    <3>2. r[k] = s[j]
      BY <3>1, <1>5
    <3> QED BY <3>1, <3>2, <1>4 DEF Elements
  <2> QED BY <1>0, <2>1, <2>2
<1>8. Elements(r) = Elements(s)
  BY <1>4, <1>6, <1>7 DEF Elements
<1> QED BY <1>4, <1>8 DEF r

LEMMA ReadyList ==
  /\ AllUrls(Urls) /\ Len(Urls) \in Nat \ {0}
  /\ "command" \in Threads
  /\ Timeout \in Nat /\ MaxWait \in Nat \ {0} /\ MinWait \in 0 .. MaxWait
  /\ CallTime \in Nat
BY ClientAssumption DEF ClientAssumption, AllUrls, Elements, UrlSet

(* The calls of a walk take no longer than the walk.                       *)
LEMMA CallsOfAWalk ==
  /\ Calls(0) = 0 /\ Calls(Len(Urls)) \in Nat
  /\ \A k \in 1 .. Len(Urls) : /\ Calls(k - 1) \in Nat
                               /\ Calls(k) = Calls(k - 1) + CallTime
                               /\ Calls(k) <= Calls(Len(Urls))
<1>0. Len(Urls) \in Nat /\ CallTime \in Nat
  BY ReadyList
<1>1. Calls(0) = 0
  BY <1>0 DEF Calls
<1>2. ASSUME NEW m \in Nat
      PROVE  Calls(m) \in Nat
  BY <1>0 DEF Calls
<1>3. ASSUME NEW k \in 1 .. Len(Urls)
      PROVE  /\ Calls(k) = Calls(k - 1) + CallTime
             /\ Calls(Len(Urls)) = Calls(k) + Calls(Len(Urls) - k)
  BY <1>0 DEF Calls
<1>4. ASSUME NEW k \in 1 .. Len(Urls)
      PROVE  /\ Calls(k - 1) \in Nat
             /\ Calls(k) = Calls(k - 1) + CallTime
             /\ Calls(k) <= Calls(Len(Urls))
  <2>1. k - 1 \in Nat /\ k \in Nat /\ Len(Urls) - k \in Nat
    BY <1>0
  <2>2. Calls(k - 1) \in Nat /\ Calls(k) \in Nat /\ Calls(Len(Urls) - k) \in Nat
    BY <2>1, <1>2
  <2> QED BY <2>2, <1>3
<1> QED BY <1>0, <1>1, <1>2, <1>4

LEMMA ListRotated ==
  ASSUME NEW s, AllUrls(s), NEW n \in 1 .. Len(s)
  PROVE  AllUrls(Rotated(s, n))
BY RotatedKeeps DEF AllUrls

LEMMA ClientStarts ==
  ASSUME ClientInit
  PROVE  ClientInv
<1>1. WalkInv
  BY ReadyList DEF ClientInit, WalkInv, Requesting, AllUrls
<1>2. SpendInv
  BY ReadyList, CallsOfAWalk DEF ClientInit, SpendInv
<1> QED BY <1>1, <1>2, ReadyList DEF ClientInit, ClientInv, Doing, Requesting, AllUrls

(* Entering or leaving the loop of _request keeps what is known of every   *)
(* walk.                                                                   *)
LEMMA Restarted ==
  ASSUME ClientInv, NEW t \in Threads,
         OpenRequest(t) \/ CloseRequest(t),
         \A u \in Threads \ {t} : at'[u] = at[u]
  PROVE  /\ list' \in [Threads -> Seq(UrlSet)]
         /\ idx' \in [Threads -> Int] /\ tried' \in [Threads -> SUBSET UrlSet]
         /\ idx'[t] = 1 /\ \A u \in Threads \ {t} : idx'[u] = idx[u]
         /\ WalkInv'
<1>1. PICK l : /\ AllUrls(l) /\ list' = [list EXCEPT ![t] = l]
               /\ idx' = [idx EXCEPT ![t] = 1] /\ tried' = [tried EXCEPT ![t] = {}]
  BY ReadyList DEF OpenRequest, CloseRequest, ClientInv
<1>2. /\ list' \in [Threads -> Seq(UrlSet)]
      /\ idx' \in [Threads -> Int] /\ tried' \in [Threads -> SUBSET UrlSet]
      /\ idx'[t] = 1 /\ list'[t] = l /\ tried'[t] = {}
      /\ \A u \in Threads \ {t} : idx'[u] = idx[u] /\ list'[u] = list[u] /\ tried'[u] = tried[u]
  BY <1>1 DEF ClientInv, AllUrls
<1>3. ASSUME NEW u \in Threads
      PROVE  /\ AllUrls(list'[u]) /\ idx'[u] \in 1 .. Len(list'[u])
             /\ at'[u] \in Requesting => tried'[u] = {list'[u][i] : i \in 1 .. idx'[u] - 1}
  <2>1. CASE u = t
    BY <2>1, <1>1, <1>2, ReadyList DEF AllUrls
  <2>2. CASE u # t
    <3>1. at'[u] = at[u] /\ idx'[u] = idx[u] /\ list'[u] = list[u] /\ tried'[u] = tried[u]
      BY <2>2, <1>2
    <3>2. /\ AllUrls(list[u]) /\ idx[u] \in 1 .. Len(list[u])
          /\ at[u] \in Requesting => tried[u] = {list[u][i] : i \in 1 .. idx[u] - 1}
      BY DEF ClientInv, WalkInv
    <3> QED BY <3>1, <3>2
  <2> QED BY <2>1, <2>2
<1>4. WalkInv'
  BY <1>3 DEF WalkInv, AllUrls, Elements, UrlSet, Requesting
<1> QED BY <1>2, <1>4

(* A step that leaves the walks alone only has to be about another place.  *)
LEMMA WalksStand ==
  ASSUME ClientInv, UNCHANGED <<list, idx, tried>>,
         \A u \in Threads : at'[u] \in Requesting => at'[u] = at[u]
  PROVE  /\ list' \in [Threads -> Seq(UrlSet)]
         /\ idx' \in [Threads -> Int] /\ tried' \in [Threads -> SUBSET UrlSet]
         /\ WalkInv'
<1>1. ASSUME NEW u \in Threads
      PROVE  /\ AllUrls(list'[u]) /\ idx'[u] \in 1 .. Len(list'[u])
             /\ at'[u] \in Requesting => tried'[u] = {list'[u][i] : i \in 1 .. idx'[u] - 1}
  <2>1. /\ AllUrls(list[u]) /\ idx[u] \in 1 .. Len(list[u])
        /\ at[u] \in Requesting => tried[u] = {list[u][i] : i \in 1 .. idx[u] - 1}
    BY DEF ClientInv, WalkInv
  <2>2. list' = list /\ idx' = idx /\ tried' = tried
    OBVIOUS
  <2> QED BY <2>1, <2>2
<1>2. WalkInv'
  BY <1>1 DEF WalkInv, AllUrls, Elements, UrlSet, Requesting
<1>3. /\ list' \in [Threads -> Seq(UrlSet)]
      /\ idx' \in [Threads -> Int] /\ tried' \in [Threads -> SUBSET UrlSet]
  BY DEF ClientInv
<1> QED BY <1>2, <1>3

(* The two requests of a thread start with an attempt (StartAttempt).      *)
LEMMA AttemptStarts ==
  ASSUME ClientInv, NEW t \in Threads, StartAttempt(t),
         apiUrls' = apiUrls
  PROVE  /\ at' \in [Threads -> Doing] /\ AllUrls(apiUrls') /\ WalkInv'
         /\ at'[t] \in {"discover", "send"} /\ \A u \in Threads \ {t} : at'[u] = at[u]
         /\ list' \in [Threads -> Seq(UrlSet)]
         /\ idx' \in [Threads -> Int] /\ tried' \in [Threads -> SUBSET UrlSet]
         /\ idx'[t] = 1 /\ \A u \in Threads \ {t} : idx'[u] = idx[u]
<1>1. /\ at' \in [Threads -> Doing]
      /\ at'[t] \in {"discover", "send"} /\ \A u \in Threads \ {t} : at'[u] = at[u]
  BY DEF StartAttempt, ClientInv, Doing, Requesting
<1>2. OpenRequest(t)
  BY DEF StartAttempt
<1>3. AllUrls(apiUrls')
  BY DEF ClientInv
<1> QED BY <1>1, <1>2, <1>3, Restarted

LEMMA BeganKeeps ==
  ASSUME ClientInv, NEW t \in Threads, Began(t)
  PROVE  ClientInv'
<1>1. apiUrls' = apiUrls /\ StartAttempt(t)
      /\ (t = "command" => lookup_time' = 0) /\ (t # "command" => lookup_time' = lookup_time)
  BY DEF Began, client
<1>2. SpendInv'
  <2>1. CASE t = "command"
    BY <2>1, <1>1, AttemptStarts, ReadyList, CallsOfAWalk DEF SpendInv
  <2>2. CASE t # "command"
    <3>1. at'["command"] = at["command"] /\ idx'["command"] = idx["command"]
      BY <2>2, <1>1, AttemptStarts, ReadyList
    <3> QED BY <3>1, <2>2, <1>1 DEF ClientInv, SpendInv
  <2> QED BY <2>1, <2>2
<1> QED BY <1>1, <1>2, AttemptStarts DEF ClientInv

LEMMA RetryKeeps ==
  ASSUME ClientInv, Retry
  PROVE  ClientInv'
<1>1. apiUrls' = apiUrls /\ StartAttempt("command") /\ lookup_time < Timeout
      /\ \E wait \in MinWait .. MaxWait : lookup_time' = lookup_time + wait
  BY DEF Retry, client
<1>2. SpendInv'
  <2>1. lookup_time' \in Nat /\ lookup_time' < Timeout + MaxWait
    BY <1>1, ReadyList DEF ClientInv, SpendInv
  <2>2. at'["command"] \in {"discover", "send"} /\ idx'["command"] = 1
    BY <1>1, AttemptStarts, ReadyList
  <2> QED BY <2>1, <2>2, ReadyList, CallsOfAWalk DEF SpendInv
<1> QED BY <1>1, <1>2, AttemptStarts, ReadyList DEF ClientInv

(* What the reply of a request leaves to do.                               *)
LEMMA ReachKeeps ==
  ASSUME ClientInv, NEW t \in Threads, Reach(t)
  PROVE  ClientInv'
<1>1. /\ at' = [at EXCEPT ![t] = IF at[t] = "discover" THEN "discovered" ELSE "sent"]
      /\ apiUrls' = Rotated(apiUrls, idx[t]) /\ CloseRequest(t)
      /\ Called(t) /\ at[t] \in {"discover", "send"}
  BY DEF Reach, Requesting
<1>2. at' \in [Threads -> Doing] /\ (\A u \in Threads \ {t} : at'[u] = at[u])
      /\ at'[t] = IF at[t] = "discover" THEN "discovered" ELSE "sent"
  BY <1>1 DEF ClientInv, Doing, Requesting
<1>3. AllUrls(apiUrls')
  <2>1. idx[t] \in 1 .. Len(apiUrls)
    BY DEF ClientInv, WalkInv, AllUrls
  <2> QED BY <2>1, <1>1, ListRotated DEF ClientInv
<1>4. SpendInv'
  <2>0. idx["command"] \in 1 .. Len(Urls)
    BY ReadyList DEF ClientInv, WalkInv, AllUrls
  <2>1. CASE t = "command"
    <3>1. PICK n \in 0 .. CallTime : lookup_time' = lookup_time + n
      BY <2>1, <1>1 DEF Called
    <3> QED BY <2>0, <2>1, <3>1, <1>1, <1>2, ReadyList, CallsOfAWalk DEF ClientInv, SpendInv
  <2>2. CASE t # "command"
    <3>1. at'["command"] = at["command"] /\ idx'["command"] = idx["command"]
      BY <2>2, <1>1, <1>2, Restarted, ReadyList
    <3>2. lookup_time' = lookup_time
      BY <2>2, <1>1 DEF Called
    <3> QED BY <3>1, <3>2 DEF ClientInv, SpendInv
  <2> QED BY <2>1, <2>2
<1> QED BY <1>1, <1>2, <1>3, <1>4, Restarted DEF ClientInv

(* An error that a request raises, at its last URL or at any other.        *)
LEMMA RaisesKeeps ==
  ASSUME ClientInv, NEW t \in Threads, Raises(t), Called(t)
  PROVE  ClientInv'
<1>1. (OpenRequest(t) \/ CloseRequest(t)) /\ apiUrls' = apiUrls
  BY DEF Raises, FallBack, client
<1>2. /\ at[t] \in {"discover", "send"}
      /\ at' = [at EXCEPT ![t] = IF at[t] = "discover" THEN "send"
                                ELSE IF t = "heartbeat" THEN "idle" ELSE "waiting"]
  BY DEF Raises, FallBack, Unsuccessful
<1>3. at' \in [Threads -> Doing] /\ (\A u \in Threads \ {t} : at'[u] = at[u])
      /\ at'[t] = IF at[t] = "discover" THEN "send"
                  ELSE IF t = "heartbeat" THEN "idle" ELSE "waiting"
  BY <1>2 DEF ClientInv, Doing, Requesting
<1>4. SpendInv'
  <2>0. idx["command"] \in 1 .. Len(Urls)
    BY ReadyList DEF ClientInv, WalkInv, AllUrls
  <2>1. CASE t = "command"
    <3>1. idx'["command"] = 1
      BY <2>1, <1>1, <1>3, Restarted
    <3>2. PICK n \in 0 .. CallTime : lookup_time' = lookup_time + n
      BY <2>1 DEF Called
    <3> QED BY <2>0, <2>1, <3>1, <3>2, <1>2, <1>3, ReadyList, CallsOfAWalk
            DEF ClientInv, SpendInv
  <2>2. CASE t # "command"
    <3>1. at'["command"] = at["command"] /\ idx'["command"] = idx["command"]
      BY <2>2, <1>1, <1>3, Restarted, ReadyList
    <3>2. lookup_time' = lookup_time
      BY <2>2 DEF Called
    <3> QED BY <3>1, <3>2 DEF ClientInv, SpendInv
  <2> QED BY <2>1, <2>2
<1>5. AllUrls(apiUrls')
  BY <1>1 DEF ClientInv
<1> QED BY <1>1, <1>3, <1>4, <1>5, Restarted DEF ClientInv

LEMMA MissKeeps ==
  ASSUME ClientInv, NEW t \in Threads, Miss(t)
  PROVE  ClientInv'
<1>1. Len(apiUrls) = Len(Urls) /\ Len(list[t]) = Len(Urls) /\ idx[t] \in 1 .. Len(Urls)
      /\ list[t] \in Seq(UrlSet)
  BY DEF ClientInv, WalkInv, AllUrls
<1>2. CASE idx[t] = Len(apiUrls) /\ Raises(t)
  BY <1>2, RaisesKeeps DEF Miss
<1>3. CASE /\ idx[t] < Len(apiUrls)
           /\ idx' = [idx EXCEPT ![t] = @ + 1]
           /\ tried' = [tried EXCEPT ![t] = @ \cup {list[t][idx[t]]}]
           /\ UNCHANGED <<client, at, list, header, beat>>
  <2>1. /\ apiUrls' = apiUrls /\ at' = at /\ list' = list /\ Called(t)
        /\ at[t] \in Requesting
    BY <1>3 DEF client, Miss
  <2>2. /\ idx' \in [Threads -> Int] /\ tried' \in [Threads -> SUBSET UrlSet]
        /\ idx'[t] = idx[t] + 1 /\ tried'[t] = tried[t] \cup {list[t][idx[t]]}
        /\ \A u \in Threads \ {t} : idx'[u] = idx[u] /\ tried'[u] = tried[u]
    <3>1. list[t][idx[t]] \in UrlSet
      BY <1>1
    <3> QED BY <3>1, <1>1, <1>3 DEF ClientInv
  <2>3. ASSUME NEW u \in Threads
        PROVE  /\ AllUrls(list'[u]) /\ idx'[u] \in 1 .. Len(list'[u])
               /\ at'[u] \in Requesting => tried'[u] = {list'[u][i] : i \in 1 .. idx'[u] - 1}
    <3>1. CASE u = t
      <4>1. tried[t] = {list[t][i] : i \in 1 .. idx[t] - 1}
        BY <2>1 DEF ClientInv, WalkInv
      <4>2. 1 .. idx'[t] - 1 = (1 .. idx[t] - 1) \cup {idx[t]}
        BY <1>1, <2>2
      <4>3. tried'[t] = {list[t][i] : i \in 1 .. idx'[t] - 1}
        BY <4>1, <4>2, <2>2
      <4> QED BY <3>1, <4>3, <1>1, <1>3, <2>1, <2>2 DEF ClientInv, WalkInv
    <3>2. CASE u # t
      BY <3>2, <2>1, <2>2 DEF ClientInv, WalkInv
    <3> QED BY <3>1, <3>2
  <2>4. WalkInv'
    BY <2>3 DEF WalkInv, AllUrls, Elements, UrlSet, Requesting
  <2>5. SpendInv'
    <3>1. CASE t = "command"
      <4>0. PICK n \in 0 .. CallTime : lookup_time' = lookup_time + n
        BY <3>1, <2>1 DEF Called
      <4>1. idx'["command"] = idx["command"] + 1
        BY <3>1, <2>2
      <4>2. at'["command"] = at["command"] /\ at["command"] \in {"discover", "send"}
        BY <3>1, <2>1 DEF Requesting
      <4>3. idx["command"] \in 1 .. Len(Urls) /\ idx["command"] < Len(Urls) /\ SpendInv
        BY <3>1, <1>1, <1>3 DEF ClientInv
      <4>4. Len(Urls) \in Nat /\ Timeout \in Nat /\ MaxWait \in Nat /\ CallTime \in Nat
        BY ReadyList
      <4>5. idx["command"] + 1 - 1 = idx["command"]
        BY <4>3
      <4> DEFINE k == idx["command"]
      <4>6. /\ Calls(k - 1) \in Nat /\ Calls(Len(Urls)) \in Nat
            /\ Calls(k' - 1) = Calls(k - 1) + CallTime
            /\ Calls(k' - 1) <= Calls(Len(Urls))
        BY <4>1, <4>3, <4>5, CallsOfAWalk
      <4>7. lookup_time \in Nat /\ lookup_time' \in Nat
        BY <4>0, <4>3, <4>4 DEF SpendInv
      <4>8. CASE at["command"] = "discover"
        <5>1. lookup_time < Timeout + MaxWait + Calls(k - 1)
          BY <4>3, <4>8 DEF SpendInv
        <5>2. lookup_time' < Timeout + MaxWait + Calls(k' - 1)
          BY <5>1, <4>0, <4>4, <4>6, <4>7
        <5> QED BY <5>2, <4>2, <4>4, <4>6, <4>7, <4>8 DEF SpendInv
      <4>9. CASE at["command"] = "send"
        <5>1. lookup_time < Timeout + MaxWait + Calls(Len(Urls)) + Calls(k - 1)
          BY <4>3, <4>9 DEF SpendInv
        <5>2. lookup_time' < Timeout + MaxWait + Calls(Len(Urls)) + Calls(k' - 1)
          BY <5>1, <4>0, <4>4, <4>6, <4>7
        <5> QED BY <5>2, <4>2, <4>4, <4>6, <4>7, <4>9 DEF SpendInv
      <4> QED BY <4>2, <4>8, <4>9
    <3>2. CASE t # "command"
      BY <3>2, <2>1, <2>2, ReadyList DEF ClientInv, SpendInv, Called
    <3> QED BY <3>1, <3>2
  <2>6. AllUrls(apiUrls')
    BY <2>1 DEF ClientInv
  <2> QED BY <2>1, <2>2, <2>4, <2>5, <2>6 DEF ClientInv
<1> QED BY <1>2, <1>3 DEF Miss

(* The request of an attempt follows the discovery, answered or not.       *)
LEMMA DiscoveredKeeps ==
  ASSUME ClientInv, NEW t \in Threads,
         Discover(t) \/ Undiscovered(t)
  PROVE  ClientInv'
<1>1. /\ at[t] = "discovered" /\ at' = [at EXCEPT ![t] = "send"]
      /\ OpenRequest(t) /\ apiUrls' = apiUrls /\ lookup_time' = lookup_time
  BY DEF Discover, Undiscovered, FallBack, client
<1>2. at' \in [Threads -> Doing] /\ (\A u \in Threads \ {t} : at'[u] = at[u])
      /\ at'[t] = "send"
  BY <1>1 DEF ClientInv, Doing, Requesting
<1>3. SpendInv'
  <2>1. CASE t = "command"
    <3>1. idx'["command"] = 1
      BY <2>1, <1>1, <1>2, Restarted
    <3> QED BY <2>1, <3>1, <1>1, <1>2, ReadyList, CallsOfAWalk DEF ClientInv, SpendInv
  <2>2. CASE t # "command"
    <3>1. at'["command"] = at["command"] /\ idx'["command"] = idx["command"]
      BY <2>2, <1>1, <1>2, Restarted, ReadyList
    <3> QED BY <3>1, <1>1 DEF ClientInv, SpendInv
  <2> QED BY <2>1, <2>2
<1>4. AllUrls(apiUrls')
  BY <1>1 DEF ClientInv
<1> QED BY <1>1, <1>2, <1>3, <1>4, Restarted DEF ClientInv

(* A reply to a heartbeat, or to a lookup, ends the attempt.               *)
LEMMA RepliedKeeps ==
  ASSUME ClientInv, NEW t \in Threads, NEW where \in {"idle", "waiting"},
         at' = [at EXCEPT ![t] = where], AllUrls(apiUrls'), UNCHANGED <<list, idx, tried>>,
         \/ lookup_time' = lookup_time
         \/ /\ t = "command" /\ at[t] = "sent"
            /\ lookup_time' \in lookup_time .. lookup_time + 6
  PROVE  ClientInv'
<1>1. at' \in [Threads -> Doing] /\ (\A u \in Threads \ {t} : at'[u] = at[u])
      /\ at'[t] = where
  BY DEF ClientInv, Doing, Requesting
<1>2. SpendInv'
  BY <1>1, ReadyList, CallsOfAWalk DEF ClientInv, SpendInv
<1>3. \A u \in Threads : at'[u] \in Requesting => at'[u] = at[u]
  BY <1>1 DEF Requesting
<1> QED BY <1>1, <1>2, <1>3, WalksStand DEF ClientInv

LEMMA ReplyKeeps ==
  ASSUME ClientInv, NEW t \in Threads,
         \/ t = "heartbeat" /\ HeartbeatReply
         \/ t = "command" /\ (LookupSucceeds \/ LookupRefused
                               \/ LookupLocked \/ GiveUp)
  PROVE  ClientInv'
<1>1. CASE t = "heartbeat" /\ HeartbeatReply
  BY <1>1, RepliedKeeps DEF HeartbeatReply, client, request, ClientInv
<1>2. CASE t = "command" /\ LookupSucceeds
  BY <1>2, RepliedKeeps DEF LookupSucceeds, request, ClientInv
<1>3. CASE t = "command" /\ LookupRefused
  BY <1>3, RepliedKeeps DEF LookupRefused, Unsuccessful, client, request, ClientInv
<1>4. CASE t = "command" /\ LookupLocked
  <2>1. /\ at["command"] = "sent" /\ apiUrls' = apiUrls /\ UNCHANGED <<list, idx, tried>>
        /\ at' = [at EXCEPT !["command"] = "waiting"]
        /\ lookup_time' = lookup_time + LongerPause
    BY <1>4 DEF LookupLocked, Unsuccessful, request
  <2>2. lookup_time' \in lookup_time .. lookup_time + 6
    BY <2>1 DEF ClientInv, SpendInv, LongerPause
  <2> QED BY <1>4, <2>1, <2>2, RepliedKeeps DEF ClientInv
<1>5. CASE t = "command" /\ GiveUp
  BY <1>5, RepliedKeeps, ReadyList DEF GiveUp, client, request, ClientInv
<1> QED BY <1>1, <1>2, <1>3, <1>4, <1>5

LEMMA Undisturbed ==
  ASSUME ClientInv, UNCHANGED <<apiUrls, at, list, idx, tried, lookup_time>>
  PROVE  ClientInv'
<1>1. /\ at' \in [Threads -> Doing] /\ AllUrls(apiUrls')
      /\ \A u \in Threads : at'[u] \in Requesting => at'[u] = at[u]
  BY DEF ClientInv
<1>2. SpendInv'
  BY DEF ClientInv, SpendInv
<1> QED BY <1>1, <1>2, WalksStand DEF ClientInv

LEMMA ClientSteps ==
  ASSUME ClientInv, [ClientNext]_clientVars
  PROVE  ClientInv'
<1>1. CASE Environment
  BY <1>1, Undisturbed DEF Environment, client, request
<1>2. ASSUME NEW t \in Threads, Began(t)
      PROVE  ClientInv'
  BY <1>2, BeganKeeps
<1>3. ASSUME NEW t \in Threads, Underway(t)
      PROVE  ClientInv'
  <2>1. CASE Reach(t)
    BY <2>1, ReachKeeps
  <2>2. CASE Miss(t)
    BY <2>2, MissKeeps
  <2>3. CASE Break(t)
    BY <2>3, RaisesKeeps DEF Break
  <2>4. CASE Discover(t) \/ Undiscovered(t)
    BY <2>4, DiscoveredKeeps
  <2>5. CASE \/ t = "heartbeat" /\ HeartbeatReply
             \/ t = "command" /\ (LookupSucceeds \/ LookupRefused
                                   \/ LookupLocked \/ GiveUp)
    BY <2>5, ReplyKeeps
  <2>6. CASE t = "command" /\ Retry
    BY <2>6, RetryKeeps
  <2> QED BY <1>3, <2>1, <2>2, <2>3, <2>4, <2>5, <2>6 DEF Underway
<1>4. CASE UNCHANGED clientVars
  BY <1>4, Undisturbed DEF clientVars, client, request
<1> QED BY <1>1, <1>2, <1>3, <1>4 DEF ClientNext

(* A lookup overruns its timeout by no more than its last wait, one walk   *)
(* for the version and one for the node, every call of which may take its  *)
(* longest, and the longest pause for a lock, for any list of URLs and any *)
(* times (lookup_node, _do_lookup).                                        *)
THEOREM LookupEnds == ClientSpec => []LookupOverrun
<1>1. ClientInit => ClientInv
  BY ClientStarts
<1>2. ClientInv /\ [ClientNext]_clientVars => ClientInv'
  BY ClientSteps
<1>3. ClientInv => LookupOverrun
  <2>1. 2 * Len(Urls) * CallTime = Calls(Len(Urls)) + Calls(Len(Urls))
    BY ReadyList DEF Calls
  <2>2. Calls(Len(Urls)) \in Nat /\ Timeout + MaxWait \in Nat
    BY ReadyList, CallsOfAWalk
  <2> QED BY <2>1, <2>2 DEF ClientInv, SpendInv, LookupOverrun
<1> QED BY <1>1, <1>2, <1>3, PTL DEF ClientSpec

(* A request that raises a connection error has tried every URL, however   *)
(* often the other thread rotates the list under it (_request).            *)
THEOREM TriesAll == ClientSpec => EveryUrlIsTried
<1> DEFINE Tries == \A t \in Threads :
             Miss(t) /\ at'[t] # at[t] =>
               tried[t] \cup {list[t][idx[t]]} = UrlSet
<1>1. ClientInit => ClientInv
  BY ClientStarts
<1>2. ClientInv /\ [ClientNext]_clientVars => ClientInv'
  BY ClientSteps
<1>3. ClientInv /\ [ClientNext]_clientVars => [Tries]_clientVars
  <2> SUFFICES ASSUME ClientInv, NEW t \in Threads,
                      Miss(t), at'[t] # at[t]
               PROVE  tried[t] \cup {list[t][idx[t]]} = UrlSet
    OBVIOUS
  <2>1. idx[t] = Len(apiUrls) /\ at[t] \in Requesting
    BY DEF Miss
  <2>2. /\ idx[t] = Len(list[t]) /\ Len(list[t]) \in Nat \ {0}
        /\ Elements(list[t]) = UrlSet
        /\ tried[t] = {list[t][i] : i \in 1 .. idx[t] - 1}
    BY <2>1, ReadyList DEF ClientInv, WalkInv, AllUrls
  <2>3. 1 .. Len(list[t]) = (1 .. idx[t] - 1) \cup {idx[t]}
    BY <2>2
  <2> QED BY <2>2, <2>3 DEF Elements
<1> QED BY <1>1, <1>2, <1>3, PTL DEF ClientSpec, EveryUrlIsTried

-----------------------------------------------------------------------------
(* The life of the process *)

(* Commands are accepted while the API is up, and only a command asks for  *)
(* a lockdown, with its first assignment.                                  *)
CommandInv ==
  /\ api_up => main \in {"listening", "serving"}
  /\ main \in {"boot", "lookup", "decide", "disabled"}
       => worker = "idle" /\ ~lockdown_asked
  /\ lockdown_asked => lockdown /\ main # "exited"

(* The heartbeat thread is gone before the main thread finishes.           *)
ThreadInv ==
  heartbeater = "alive" => Heartbeats /\ main \in {"serving", "stopped", "joining"}

(* An agent that looks its node up has one token from then on.             *)
TokenInv ==
  /\ main \in {"boot", "lookup"} => client_token = "none"
  /\ main \in {"decide", "listening", "serving", "stopped", "joining"} /\ Heartbeats
       => node /\ client_token = agent_token

(* A lookup may set lockdown, but then it has cleared serve_api and the    *)
(* API is never opened; a command is only accepted with a token on file,   *)
(* which no node data takes away.  So whoever is past that decision with   *)
(* lockdown set was asked by the command.                                  *)
Decided == {"listening", "serving", "stopped", "joining", "finish", "locking", "locked"}

AskedInv ==
  /\ lockdown => lockdown_asked \/ ~serve_api
  /\ main \in Decided /\ lockdown => lockdown_asked
  /\ worker # "idle" => agent_token # "none"
  /\ main \in {"locking", "locked"} => lockdown

LifecycleInv == LifecycleTypeOK /\ CommandInv /\ ThreadInv /\ TokenInv /\ AskedInv

-----------------------------------------------------------------------------

LEMMA Initial == LifecycleInit => LifecycleInv
<1> SUFFICES ASSUME LifecycleInit
             PROVE  LifecycleInv
  OBVIOUS
<1>1. LifecycleTypeOK
  <2>1. config \in Configs /\ agent_token \in Tokens /\ issued \in BOOLEAN
    BY DEF LifecycleInit, Configs, Tokens
  <2>2. restarts \in 0..MaxRestarts
    BY LifecycleAssumption DEF LifecycleInit
  <2> QED BY <2>1, <2>2 DEF LifecycleInit, LifecycleTypeOK, Tokens, MainStates, WorkerStates
<1>2. CommandInv /\ ThreadInv /\ TokenInv /\ AskedInv
  BY DEF LifecycleInit, CommandInv, ThreadInv, TokenInv, AskedInv, Decided
<1> QED BY <1>1, <1>2 DEF LifecycleInv

(* A lookup response, or the node's data from the conductor.               *)
LEMMA LookupDataTypes ==
  ASSUME LifecycleTypeOK, NEW token \in LookupTokens, process_lookup_data(token)
  PROVE  /\ node' = TRUE
         /\ agent_token' \in Tokens /\ client_token' \in Tokens
         /\ serve_api' \in BOOLEAN /\ lockdown' \in BOOLEAN
         /\ lockdown => lockdown'
         /\ lockdown' => lockdown \/ (agent_token = "none" /\ ~serve_api')
         /\ serve_api' => serve_api
         /\ agent_token # "none" => agent_token' # "none"
         /\ ~config.standalone /\ client_token = "none" => client_token' = agent_token'
<1>1. agent_token' \in Tokens
  BY DEF LifecycleTypeOK, process_lookup_data, Tokens
<1>2. client_token' \in Tokens
  BY <1>1 DEF LifecycleTypeOK, process_lookup_data, Tokens
<1>3. serve_api' \in BOOLEAN /\ lockdown' \in BOOLEAN /\ (lockdown => lockdown')
  BY DEF LifecycleTypeOK, process_lookup_data
<1>4. ~config.standalone /\ client_token = "none" => client_token' = agent_token'
  BY DEF process_lookup_data
<1>5. /\ lockdown' => lockdown \/ (agent_token = "none" /\ ~serve_api')
      /\ serve_api' => serve_api
      /\ agent_token # "none" => agent_token' # "none"
  BY DEF LifecycleTypeOK, process_lookup_data
<1> QED BY <1>1, <1>2, <1>3, <1>4, <1>5 DEF process_lookup_data

(* run(), one step of which is taken by the main thread.                   *)
LEMMA RunKeeps ==
  ASSUME LifecycleInv, Run
  PROVE  LifecycleInv'
<1> USE DEF LifecycleInv
<1>1. CASE Boot
  BY <1>1 DEF Boot, process, threads, machine, LifecycleTypeOK, MainStates, Heartbeats,
              CommandInv, ThreadInv, TokenInv, AskedInv, Decided
<1>2. CASE LookupAnswered
  <2>1. PICK token \in TokenFor : process_lookup_data(token) /\ issued' = (issued \/ token = "fresh")
    BY <1>2 DEF LookupAnswered
  <2>2. token \in LookupTokens
    BY DEF TokenFor, LookupTokens
  <2> QED
    BY <1>2, <2>1, <2>2, LookupDataTypes
       DEF LookupAnswered, threads, machine, LifecycleTypeOK, MainStates, Heartbeats, Configs,
           CommandInv, ThreadInv, TokenInv, AskedInv, Decided
<1>3. CASE LookupFails
  BY <1>3 DEF LookupFails, process, threads, machine, LifecycleTypeOK, MainStates, Heartbeats,
              CommandInv, ThreadInv, TokenInv, AskedInv, Decided
<1>4. CASE Disable
  BY <1>4 DEF Disable, threads, machine, LifecycleTypeOK, MainStates, Heartbeats,
              CommandInv, ThreadInv, TokenInv, AskedInv, Decided
<1>5. CASE StartApi
  BY <1>5 DEF StartApi, process, machine, LifecycleTypeOK, MainStates, Heartbeats,
              CommandInv, ThreadInv, TokenInv, AskedInv, Decided
<1>6. CASE AutoTlsFails
  BY <1>6 DEF AutoTlsFails, process, threads, machine, LifecycleTypeOK, MainStates, Heartbeats,
              CommandInv, ThreadInv, TokenInv, AskedInv, Decided
<1>7. CASE StartHeartbeater
  BY <1>7 DEF StartHeartbeater, process, machine, LifecycleTypeOK, MainStates, Heartbeats,
              CommandInv, ThreadInv, TokenInv, AskedInv, Decided
<1>8. CASE ServingEnds
  BY <1>8 DEF ServingEnds, StopApi, process, machine, LifecycleTypeOK, MainStates, Heartbeats,
              CommandInv, ThreadInv, TokenInv, AskedInv, Decided
<1>9. CASE StopHeartbeater
  BY <1>9 DEF StopHeartbeater, process, threads, machine, LifecycleTypeOK, MainStates, Heartbeats,
              CommandInv, ThreadInv, TokenInv, AskedInv, Decided
<1>10. CASE JoinHeartbeater
  BY <1>10 DEF JoinHeartbeater, process, threads, machine, LifecycleTypeOK, MainStates, Heartbeats,
               CommandInv, ThreadInv, TokenInv, AskedInv, Decided
<1>11. CASE Finish
  BY <1>11 DEF Finish, process, threads, machine, LifecycleTypeOK, MainStates, Heartbeats,
               CommandInv, ThreadInv, TokenInv, AskedInv, Decided
<1>12. CASE AllDown
  BY <1>12 DEF AllDown, process, threads, machine, LifecycleTypeOK, MainStates, Heartbeats,
               CommandInv, ThreadInv, TokenInv, AskedInv, Decided
<1>13. CASE \E i \in Interfaces : BringDown(i)
  BY <1>13 DEF BringDown, process, threads, machine, LifecycleTypeOK, MainStates, Heartbeats,
               CommandInv, ThreadInv, TokenInv, AskedInv, Decided
<1> QED
  BY <1>1, <1>2, <1>3, <1>4, <1>5, <1>6, <1>7, <1>8, <1>9, <1>10, <1>11, <1>12, <1>13
     DEF Run

(* A synchronous command, one step of which is taken by its thread.        *)
LEMMA CommandKeeps ==
  ASSUME LifecycleInv, Command
  PROVE  LifecycleInv'
<1> USE DEF LifecycleInv
<1>1. CASE SetLockdown
  BY <1>1 DEF SetLockdown, Running, machine, LifecycleTypeOK, WorkerStates, Heartbeats,
              CommandInv, ThreadInv, TokenInv, AskedInv, Decided
<1>2. CASE StopServing
  BY <1>2 DEF StopServing, Running, machine, LifecycleTypeOK, WorkerStates, Heartbeats,
              CommandInv, ThreadInv, TokenInv, AskedInv, Decided
<1>3. CASE WriteRescuePassword
  BY <1>3 DEF WriteRescuePassword, Running, process, machine, LifecycleTypeOK, WorkerStates,
              Heartbeats, CommandInv, ThreadInv, TokenInv, AskedInv, Decided
<1>4. CASE WriteMarker
  <2>1. LifecycleTypeOK'
    BY <1>4 DEF WriteMarker, process, LifecycleTypeOK, WorkerStates
  <2>2. CommandInv' /\ ThreadInv' /\ TokenInv' /\ AskedInv'
    BY <1>4 DEF WriteMarker, Running, process, Heartbeats, CommandInv, ThreadInv, TokenInv, AskedInv, Decided
  <2> QED BY <2>1, <2>2
<1>5. CASE SetNodeInfo
  <2>1. CASE ~config.standalone
    BY <1>5, <2>1 DEF SetNodeInfo, Running, process, machine, LifecycleTypeOK, WorkerStates,
                      Heartbeats, CommandInv, ThreadInv, TokenInv, AskedInv, Decided
  <2>2. CASE config.standalone
    <3>1. PICK token \in LookupTokens : process_lookup_data(token)
      BY <1>5, <2>2 DEF SetNodeInfo
    <3> QED
      BY <1>5, <2>2, <3>1, LookupDataTypes
         DEF SetNodeInfo, Running, machine, LifecycleTypeOK, WorkerStates, Heartbeats, CommandInv,
             ThreadInv, TokenInv, AskedInv, Decided
  <2> QED BY <2>1, <2>2
<1> QED BY <1>1, <1>2, <1>3, <1>4, <1>5 DEF Command

(* The rest of the steps: the heartbeat thread, the network, a user, the   *)
(* service manager and the API's clients.                                  *)
LEMMA OthersKeep ==
  ASSUME LifecycleInv,
         \/ HeartbeaterEnds \/ LookupResponseLost \/ Interrupt \/ Restart
         \/ \E first \in {"set_lockdown", "write_password", "set_node_info"} :
              BeginCommand(first)
  PROVE  LifecycleInv'
<1> USE DEF LifecycleInv
<1>1. CASE HeartbeaterEnds
  BY <1>1 DEF HeartbeaterEnds, process, machine, LifecycleTypeOK, Heartbeats, CommandInv,
              ThreadInv, TokenInv, AskedInv, Decided
<1>2. CASE LookupResponseLost
  BY <1>2 DEF LookupResponseLost, process, threads, machine, LifecycleTypeOK, Heartbeats,
              CommandInv, ThreadInv, TokenInv, AskedInv, Decided
<1>3. CASE Interrupt
  BY <1>3 DEF Interrupt, StopApi, process, machine, LifecycleTypeOK, MainStates, Heartbeats,
              CommandInv, ThreadInv, TokenInv, AskedInv, Decided
<1>4. CASE Restart
  <2>1. config.agent_token \in Tokens
    BY DEF LifecycleTypeOK, Configs, Tokens
  <2>2. restarts' \in 0..MaxRestarts
    BY <1>4, LifecycleAssumption DEF Restart, LifecycleTypeOK
  <2>3. LifecycleTypeOK'
    BY <1>4, <2>1, <2>2 DEF Restart, machine, LifecycleTypeOK, MainStates, WorkerStates, Tokens
  <2>4. CommandInv' /\ ThreadInv' /\ TokenInv' /\ AskedInv'
    BY <1>4 DEF Restart, CommandInv, ThreadInv, TokenInv, AskedInv, Decided
  <2> QED BY <2>3, <2>4
<1>5. CASE \E first \in {"set_lockdown", "write_password", "set_node_info"} :
             BeginCommand(first)
  BY <1>5 DEF BeginCommand, process, machine, LifecycleTypeOK, WorkerStates, Heartbeats,
              CommandInv, ThreadInv, TokenInv, AskedInv, Decided
<1> QED BY <1>1, <1>2, <1>3, <1>4, <1>5

LEMMA Inductive == LifecycleInv /\ [LifecycleNext]_lifecycleVars => LifecycleInv'
<1> SUFFICES ASSUME LifecycleInv, [LifecycleNext]_lifecycleVars
             PROVE  LifecycleInv'
  OBVIOUS
<1>1. CASE LifecycleNext
  BY <1>1, RunKeeps, CommandKeeps, OthersKeep DEF LifecycleNext
<1>2. CASE UNCHANGED lifecycleVars
  BY <1>2 DEF lifecycleVars, process, threads, machine, LifecycleInv, LifecycleTypeOK,
              Heartbeats, CommandInv,
              ThreadInv, TokenInv, AskedInv, Decided
<1> QED BY <1>1, <1>2

LEMMA InvariantHolds == LifecycleSpec => []LifecycleInv
BY Initial, Inductive, PTL DEF LifecycleSpec

(* The variables hold values of their types.                               *)
THEOREM LifecycleTypes == LifecycleSpec => []LifecycleTypeOK
BY InvariantHolds, PTL DEF LifecycleInv

(* A process that a lockdown was asked of never just exits, wherever the   *)
(* main thread was when the command set its two flags, and the interfaces  *)
(* go down only when the API and the heartbeat thread are gone.            *)
THEOREM LockdownHolds == LifecycleSpec => []LockdownIsHonoured
<1>1. LifecycleInv => LockdownIsHonoured
  BY DEF LifecycleInv, CommandInv, ThreadInv, LockdownIsHonoured
<1> QED BY <1>1, InvariantHolds, PTL

(* Whichever way the token came, from the configuration or from a lookup,  *)
(* and whatever was lost on the way, heartbeats carry it.                  *)
THEOREM TokenSent == LifecycleSpec => []HeartbeatsWithToken
<1>1. LifecycleInv => HeartbeatsWithToken
  BY DEF LifecycleInv, ThreadInv, TokenInv, HeartbeatsWithToken
<1> QED BY <1>1, InvariantHolds, PTL

(* Only a process that was given the lockdown command brings an interface  *)
(* down, so none that was started after the rescue marker was written.     *)
THEOREM RescueKeepsNetwork == LifecycleSpec => RescuedKeepsNetwork
<1>1. LifecycleInv /\ [LifecycleNext]_lifecycleVars
        => [marker /\ down' # down => lockdown_asked]_lifecycleVars
  <2> SUFFICES ASSUME LifecycleInv, LifecycleNext, down' # down
               PROVE  lockdown_asked
    OBVIOUS
  <2>1. main = "locking"
    BY DEF LifecycleNext, Run, Command, Boot, LookupAnswered, LookupFails, Disable, StartApi,
           AutoTlsFails, StartHeartbeater, ServingEnds, StopApi, StopHeartbeater,
           JoinHeartbeater, Finish, AllDown, BringDown, SetLockdown, StopServing,
           WriteRescuePassword, WriteMarker, SetNodeInfo, HeartbeaterEnds,
           LookupResponseLost, Interrupt, Restart, BeginCommand, machine
  <2> QED BY <2>1 DEF LifecycleInv, AskedInv, Decided
<1> QED BY <1>1, InvariantHolds, PTL DEF LifecycleSpec, RescuedKeepsNetwork

=============================================================================
