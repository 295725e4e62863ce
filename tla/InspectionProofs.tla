--------------------------- MODULE InspectionProofs ---------------------------
(***************************************************************************)
(* Proofs that no inspection ends quietly, for every list of collectors    *)
(* and every number of URLs and attempts, and that the daemon's backoff    *)
(* follows the results, for every interval and number of rounds.           *)
(***************************************************************************)
EXTENDS Inspection, TLAPS

\* Every collector before position n has left its data or its error, or collects
\* the logs.
AccountedUpTo(n) ==
  \A i \in DOMAIN Collectors :
    i < n => Collectors[i] \in collected \cup accumulated \cup {"logs"}

\* What is about to be posted: nothing but the error of loading the collectors, or
\* what all of them have left.
ReadyToPost ==
  IF raised THEN accumulated = {"load"} ELSE AccountedUpTo(Len(Collectors) + 1)

\* What has been taken so far is what is being posted.
TakenIsPosted ==
  received.accepted => received.data = collected /\ received.error = accumulated

\* While the URLs are tried, those before the current one have been.
PostInv ==
  doing = "post" =>
    /\ url \in 1 .. URLs /\ attempt \in 1 .. Attempts
    /\ tried = 1 .. url - 1
    /\ ReadyToPost /\ TakenIsPosted

\* Before that nothing was tried.
BeforeInv ==
  doing \in {"lookup", "load", "collect"} =>
    /\ url = 1 /\ attempt = 1 /\ tried = {} /\ received = Nothing
    /\ pos \in Nat /\ ~raised /\ AccountedUpTo(pos)
    /\ doing # "collect" => pos = 1
    /\ doing = "lookup" => callback = "mdns"

IInv ==
  /\ doing \in {"waiting", "lookup", "load", "collect", "post"}
  /\ raised \in BOOLEAN
  /\ BeforeInv /\ PostInv /\ ErrorsAreReported

-----------------------------------------------------------------------------

LEMMA Constants ==
  /\ URLs \in Nat /\ URLs >= 1 /\ Attempts \in Nat /\ Attempts >= 1
  /\ Len(Collectors) \in Nat /\ DOMAIN Collectors = 1 .. Len(Collectors)
BY InspectionAssumption

LEMMA Initial == Init => IInv
BY DEF Init, DaemonInit, IInv, BeforeInv, PostInv, ErrorsAreReported

\* What a collector leaves accounts for it.
LEMMA CollectorIsAccounted ==
  ASSUME NEW name, NEW result \in Results(name)
  PROVE  name \in result.found \cup result.failed \cup {"logs"}
BY DEF Results, Default, Logs, DataOrFailure

LEMMA CollectKeeps ==
  ASSUME IInv, Collect
  PROVE  IInv'
<1>1. PICK result \in Results(Collectors[pos]) :
        /\ collected' = collected \cup result.found
        /\ accumulated' = accumulated \cup result.failed
  BY DEF Collect
<1>2. AccountedUpTo(pos)'
  BY <1>1, CollectorIsAccounted, Constants
     DEF Collect, IInv, BeforeInv, AccountedUpTo, More
<1>3. BeforeInv'
  BY <1>2, Constants DEF Collect, IInv, BeforeInv, Within
<1> QED BY <1>3 DEF Collect, IInv, PostInv, ErrorsAreReported

\* An inspection that ends after it has posted was answered or has tried every URL,
\* and what was taken is all there was.
LEMMA Ends ==
  ASSUME doing' = "waiting", raised' \in BOOLEAN, ReadyToPost', TakenIsPosted',
         answered' \/ (tried' = 1 .. URLs /\ attempt' = Attempts),
         outcome' = "succeeded" => received'.accepted /\ received'.error = {}
  PROVE  IInv'
<1>1. ASSUME received'.accepted
      PROVE  /\ received'.error = accumulated'
             /\ "load" \in received'.error
                  \/ ToSet(Collectors) \subseteq received'.data \cup received'.error \cup {"logs"}
  <2>1. CASE raised'
    BY <1>1, <2>1 DEF ReadyToPost, TakenIsPosted
  <2>2. CASE ~raised'
    BY <1>1, <2>2, Constants DEF ReadyToPost, TakenIsPosted, AccountedUpTo, ToSet
  <2> QED BY <2>1, <2>2
<1>2. ErrorsAreReported'
  BY <1>1 DEF ErrorsAreReported
<1> QED BY <1>2 DEF IInv, BeforeInv, PostInv

\* Posting the same data again.
LEMMA GoesOn ==
  ASSUME IInv, doing = "post", UNCHANGED <<doing, collected, accumulated, raised>>,
         MayHaveIt, url' \in 1 .. URLs, attempt' \in 1 .. Attempts, tried' = 1 .. url' - 1
  PROVE  IInv'
<1>1. ReadyToPost' /\ TakenIsPosted'
  BY DEF IInv, PostInv, ReadyToPost, AccountedUpTo, TakenIsPosted, MayHaveIt, Posted
<1> QED BY <1>1 DEF IInv, BeforeInv, PostInv, ErrorsAreReported

\* What is to be posted, and what was taken of it, when doing "post".
LEMMA SameData ==
  ASSUME IInv, doing = "post", UNCHANGED <<collected, accumulated, raised>>,
         MayHaveIt \/ UNCHANGED received
  PROVE  ReadyToPost' /\ TakenIsPosted' /\ raised' \in BOOLEAN
BY DEF IInv, PostInv, ReadyToPost, AccountedUpTo, TakenIsPosted, MayHaveIt, Posted

\* A round of posts that failed, by the last URL or by an answer.
LEMMA RetryKeeps ==
  ASSUME IInv, doing = "post", Retry, MayHaveIt,
         UNCHANGED <<collected, accumulated, pos, raised>>,
         answered' \/ url = URLs
  PROVE  IInv'
<1>1. CASE attempt < Attempts /\ attempt' = attempt + 1 /\ url' = 1 /\ tried' = {}
           /\ UNCHANGED doing
  <2>1. url' \in 1 .. URLs /\ attempt' \in 1 .. Attempts /\ tried' = 1 .. url' - 1
    BY <1>1, Constants DEF IInv, PostInv
  <2> QED BY <1>1, <2>1, GoesOn
<1>2. CASE attempt = Attempts /\ tried' = tried \cup {url} /\ Fail /\ UNCHANGED <<attempt, url>>
  <2>1. answered' \/ (tried' = 1 .. URLs /\ attempt' = Attempts)
    BY <1>2, Constants DEF IInv, PostInv
  <2> QED BY <1>2, <2>1, Ends, SameData DEF Fail
<1> QED BY <1>1, <1>2 DEF Retry

LEMMA PostKeeps ==
  ASSUME IInv,
         ConnectionFails \/ LastConnectionFails \/ Busy \/ Rejected \/ TimedOut \/ Accepted
  PROVE  IInv'
<1>1. CASE ConnectionFails
  <2>1. url' \in 1 .. URLs /\ attempt' \in 1 .. Attempts /\ tried' = 1 .. url' - 1
    BY <1>1, Constants DEF ConnectionFails, IInv, PostInv
  <2> QED BY <1>1, <2>1, GoesOn DEF ConnectionFails
<1>2. CASE LastConnectionFails
  BY <1>2, RetryKeeps DEF LastConnectionFails
<1>3. CASE Busy
  BY <1>3, RetryKeeps DEF Busy
<1>4. CASE Rejected
  BY <1>4, Ends, SameData DEF Rejected, Fail
<1>5. CASE TimedOut
  BY <1>5, Ends, SameData DEF TimedOut, Fail
<1>6. CASE Accepted
  <2>1. MayHaveIt
    BY <1>6 DEF Accepted, MayHaveIt
  <2>2. outcome' = "succeeded" => received'.accepted /\ received'.error = {}
    BY <1>6 DEF Accepted, Succeed, Fail, Posted
  <2>3. doing' = "waiting"
    BY <1>6 DEF Accepted, Succeed, Fail
  <2> QED BY <1>6, <2>1, <2>2, <2>3, Ends, SameData DEF Accepted
<1> QED BY <1>1, <1>2, <1>3, <1>4, <1>5, <1>6

\* Up to the first collector.
LEMMA PreparationKeeps ==
  ASSUME IInv, Begin \/ Lookup \/ Load
  PROVE  IInv'
<1>1. CASE Begin
  <2>1. CASE callback = "none" /\ Succeed
    BY <1>1, <2>1 DEF Begin, Succeed, IInv, BeforeInv, PostInv, ErrorsAreReported
  <2>2. CASE callback = "url" /\ doing' = "load" /\ Within
    <3>1. AccountedUpTo(pos)'
      BY <1>1, Constants DEF Begin, AccountedUpTo
    <3>2. BeforeInv'
      BY <1>1, <2>2, <3>1 DEF Begin, Within, BeforeInv
    <3> QED BY <1>1, <2>2, <3>2 DEF Begin, IInv, PostInv, ErrorsAreReported
  <2>3. CASE callback = "mdns" /\ doing' = "lookup" /\ Within
    <3>1. AccountedUpTo(pos)'
      BY <1>1, Constants DEF Begin, AccountedUpTo
    <3>2. BeforeInv'
      BY <1>1, <2>3, <3>1 DEF Begin, Within, BeforeInv
    <3> QED BY <1>1, <2>3, <3>2 DEF Begin, IInv, PostInv, ErrorsAreReported
  <2> QED BY <1>1, <2>1, <2>2, <2>3 DEF Begin
<1>2. CASE Lookup
  <2>1. CASE Fail
    BY <1>2, <2>1 DEF Lookup, Fail, bodyVars, IInv, BeforeInv, PostInv, ErrorsAreReported
  <2>2. CASE callback' = "url" /\ doing' = "load"
    BY <1>2, <2>2
       DEF Lookup, bodyVars, IInv, BeforeInv, PostInv, ErrorsAreReported, AccountedUpTo
  <2> QED BY <1>2, <2>1, <2>2 DEF Lookup
<1>3. CASE Load
  <2>1. CASE doing' = "collect" /\ UNCHANGED <<accumulated, raised>>
    BY <1>3, <2>1
       DEF Load, IInv, BeforeInv, PostInv, ErrorsAreReported, AccountedUpTo
  <2>2. CASE doing' = "post" /\ accumulated' = {"load"} /\ raised' = TRUE
    BY <1>3, <2>2, Constants
       DEF Load, IInv, BeforeInv, PostInv, ErrorsAreReported, ReadyToPost, TakenIsPosted,
           Nothing
  <2> QED BY <1>3, <2>1, <2>2 DEF Load
<1> QED BY <1>1, <1>2, <1>3

LEMMA CollectedKeeps ==
  ASSUME IInv, Collected
  PROVE  IInv'
<1>1. ReadyToPost'
  BY Constants
     DEF Collected, bodyVars, IInv, BeforeInv, More, ReadyToPost, AccountedUpTo
<1> QED
  BY <1>1, Constants
     DEF Collected, bodyVars, IInv, BeforeInv, PostInv, ErrorsAreReported, TakenIsPosted,
         Nothing

\* Between inspections, and in a step that changes nothing, the body is left alone.
LEMMA RestKeeps ==
  ASSUME IInv, UNCHANGED <<callback, doing, outcome, bodyVars>>
  PROVE  IInv'
BY DEF bodyVars, IInv, BeforeInv, PostInv, ErrorsAreReported, ReadyToPost, TakenIsPosted,
       AccountedUpTo

LEMMA Inductive == IInv /\ [Next]_vars => IInv'
<1> SUFFICES ASSUME IInv, [Next]_vars
             PROVE  IInv'
  OBVIOUS
<1>1. CASE Begin \/ Lookup \/ Load
  BY <1>1, PreparationKeeps
<1>2. CASE Collect
  BY <1>2, CollectKeeps
<1>3. CASE Collected
  BY <1>3, CollectedKeeps
<1>4. CASE ConnectionFails \/ LastConnectionFails \/ Busy \/ Rejected \/ TimedOut \/ Accepted
  BY <1>4, PostKeeps
<1>5. CASE UNCHANGED <<callback, doing, outcome, bodyVars>>
  BY <1>5, RestKeeps
<1> QED BY <1>1, <1>2, <1>3, <1>4, <1>5 DEF Next, vars

\* Whatever the collectors do, wherever the service is out of reach, busy or too
\* slow, and however often the inspection is repeated, no inspection ends quietly
\* (inspect and call_inspector, under the loop of IronicInspection._run).
THEOREM NoQuietEnd == Spec => []ErrorsAreReported
<1>1. IInv => ErrorsAreReported
  BY DEF IInv
<1> QED BY <1>1, Initial, Inductive, PTL DEF Spec

-----------------------------------------------------------------------------
\* The backoff.  Between a result and the sleep that follows it the interval is
\* the one the result left: after a second failure in a row it was backed off from
\* the last sleep.
BackoffInv ==
  /\ at \in {"first", "inspected", "sleeping", "reported", "ended"}
  /\ interval \in Nat /\ waits \in Nat \X Nat /\ failures \in Nat
  /\ failed \in BOOLEAN /\ (failed <=> failures > 0)
  /\ recovered \in BOOLEAN /\ (recovered => ~failed)
  /\ at \in {"first", "inspected"} => failures = 0 /\ ~recovered
  /\ at = "sleeping" => interval = waits[1]
  /\ at = "reported" =>
       /\ failed => interval = BackedOff(waits[1])
       /\ recovered => interval <= PostInterval
  /\ BackoffFollowsResults

LEMMA Intervals ==
  /\ PostInterval \in Nat /\ MaxDelay \in Nat
  /\ \A i \in Nat : BackedOff(i) \in Nat
BY DaemonAssumption DEF MaxDelay, BackedOff, LesserOf

\* What the jitter makes of an interval.
LEMMA Jittered ==
  ASSUME NEW i \in Nat, NEW j \in Jitter
  PROVE  /\ (i * j) \div 100 \in Nat
         /\ ((i * j) \div 100) * 100 <= 120 * i
         /\ ((i * j) \div 100) * 100 + 99 >= 70 * i
<1>1. i * j \in Nat /\ i * j <= 120 * i /\ i * j >= 70 * i
  BY DEF Jitter
<1>2. \A n \in Nat : /\ n \div 100 \in Nat
                     /\ (n \div 100) * 100 <= n /\ (n \div 100) * 100 + 99 >= n
  OBVIOUS
<1> QED BY <1>1, <1>2

\* The factor outweighs the jitter.
LEMMA BackoffGrows ==
  ASSUME NEW w \in Nat, NEW j \in Jitter, NEW v,
         v = (BackedOff(w) * j) \div 100
  PROVE  v > w \/ w < 2 \/ (v + 1) * 100 > 70 * MaxDelay
<1>1. BackedOff(w) \in Nat /\ MaxDelay \in Nat
  BY Intervals
<1>2. v \in Nat /\ v * 100 + 99 >= 70 * BackedOff(w)
  BY <1>1, Jittered
<1>3. BackedOff(w) = MaxDelay \/ BackedOff(w) * 10 + 9 >= 27 * w
  <2>1. ((w * 27) \div 10) * 10 + 9 >= w * 27
    OBVIOUS
  <2> QED BY <2>1 DEF BackedOff, LesserOf
<1> QED BY <1>1, <1>2, <1>3

LEMMA BackoffInitial == Init => BackoffInv
<1> SUFFICES ASSUME DaemonInit
             PROVE  BackoffInv
  BY DEF Init
<1>1. /\ at = "first" /\ interval = PostInterval /\ failed = FALSE /\ recovered = FALSE
      /\ waits = <<PostInterval, PostInterval>> /\ failures = 0
  BY DEF DaemonInit
<1>2. BackoffFollowsResults
  BY <1>1 DEF BackoffFollowsResults
<1>3. failed <=> failures > 0
  BY <1>1
<1> QED BY <1>1, <1>2, <1>3, Intervals DEF BackoffInv

LEMMA SleepKeeps ==
  ASSUME BackoffInv, Sleep, at \in {"inspected", "reported"}
  PROVE  BackoffInv'
<1>1. PICK j \in Jitter : interval' = (interval * j) \div 100
  BY DEF Sleep
<1>2. /\ at' = "sleeping" /\ waits' = <<interval', waits[1]>>
      /\ UNCHANGED <<failed, failures, recovered>>
  BY DEF Sleep
<1>3. interval \in Nat /\ waits[1] \in Nat /\ failures \in Nat
  BY DEF BackoffInv
<1>4. interval' \in Nat /\ interval' * 100 <= 120 * interval
  BY <1>1, <1>3, Jittered
<1>5. waits' \in Nat \X Nat /\ waits'[1] = interval' /\ waits'[2] = waits[1]
  BY <1>2, <1>3, <1>4
<1>6. ASSUME recovered PROVE waits'[1] * 100 <= 120 * PostInterval
  <2>1. at = "reported" /\ interval <= PostInterval
    BY <1>6 DEF BackoffInv
  <2>2. interval \in Nat /\ PostInterval \in Nat /\ interval' \in Nat
    BY <1>3, <1>4, Intervals
  <2>3. \A i, v, p \in Nat : i <= p /\ v * 100 <= 120 * i => v * 100 <= 120 * p
    OBVIOUS
  <2>4. interval' * 100 <= 120 * PostInterval
    BY <1>4, <2>1, <2>2, <2>3
  <2> QED BY <1>5, <2>4
<1>7. failures > 1 => \/ waits'[1] > waits'[2] \/ waits'[2] < 2
                     \/ (waits'[1] + 1) * 100 > 70 * MaxDelay
  <2>1. failures > 1 => interval = BackedOff(waits[1])
    BY DEF BackoffInv
  <2> QED BY <1>1, <1>3, <1>5, <2>1, BackoffGrows
<1>8. BackoffFollowsResults'
  BY <1>2, <1>6, <1>7 DEF BackoffFollowsResults
<1> QED BY <1>2, <1>4, <1>5, <1>8 DEF BackoffInv

LEMMA ResultKeeps ==
  ASSUME BackoffInv,
         \/ \E succeeds \in BOOLEAN : FirstInspection(succeeds)
         \/ Reported \/ ReportFails
  PROVE  BackoffInv'
<1>1. CASE \E succeeds \in BOOLEAN : FirstInspection(succeeds)
  BY <1>1 DEF FirstInspection, BackoffInv, BackoffFollowsResults
<1>2. CASE Reported
  <2>1. interval' \in Nat /\ (failed => interval' <= PostInterval)
    BY <1>2, Intervals DEF Reported, BackoffInv, LesserOf
  <2>2. /\ at' = "reported" /\ failures' = 0 /\ failed' = FALSE /\ recovered' = failed
        /\ UNCHANGED waits
    BY <1>2 DEF Reported
  <2>3. failed' <=> failures' > 0
    BY <2>2
  <2>4. recovered' \in BOOLEAN /\ waits \in Nat \X Nat
    BY <2>2 DEF BackoffInv
  <2> QED BY <2>1, <2>2, <2>3, <2>4 DEF BackoffInv, BackoffFollowsResults
<1>3. CASE ReportFails
  <2>1. interval' = BackedOff(waits[1]) /\ interval' \in Nat
    BY <1>3, Intervals DEF ReportFails, BackoffInv
  <2>2. failures' \in Nat /\ failures' > 0
    BY <1>3 DEF ReportFails, BackoffInv
  <2> QED BY <1>3, <2>1, <2>2 DEF ReportFails, BackoffInv, BackoffFollowsResults
<1> QED BY <1>1, <1>2, <1>3

LEMMA BackoffInductive == BackoffInv /\ [Next]_vars => BackoffInv'
<1> SUFFICES ASSUME BackoffInv, [Next]_vars
             PROVE  BackoffInv'
  OBVIOUS
<1>1. CASE UNCHANGED daemonVars
  BY <1>1 DEF daemonVars, BackoffInv, BackoffFollowsResults
<1>2. CASE Succeed \/ Fail
  BY <1>2, ResultKeeps DEF Succeed, Fail
<1>3. CASE Enter \/ Again
  <2>1. CASE Sleep /\ at \in {"inspected", "reported"}
    BY <2>1, SleepKeeps
  <2>2. CASE at' = "ended" /\ UNCHANGED <<interval, failed, waits, failures, recovered>>
    BY <2>2 DEF BackoffInv, BackoffFollowsResults
  <2> QED BY <1>3, <2>1, <2>2 DEF Enter, Again
<1>4. Succeed \/ Fail \/ Enter \/ Again \/ UNCHANGED daemonVars
  <2>1. CASE UNCHANGED vars
    BY <2>1 DEF vars
  <2>2. CASE Begin
    BY <2>2 DEF Begin, Within
  <2>3. CASE Lookup \/ Load
    BY <2>3 DEF Lookup, Load, Within, daemonVars
  <2>4. CASE Collect \/ Collected \/ ConnectionFails
    BY <2>4 DEF Collect, Collected, ConnectionFails, Within
  <2>5. CASE LastConnectionFails \/ Busy
    BY <2>5 DEF LastConnectionFails, Busy, Retry, Within
  <2>6. CASE Rejected \/ TimedOut \/ Accepted
    BY <2>6 DEF Rejected, TimedOut, Accepted
  <2> QED BY <2>1, <2>2, <2>3, <2>4, <2>5, <2>6 DEF Next
<1> QED BY <1>1, <1>2, <1>3, <1>4

\* However inspections fail and succeed, the jitter does not undo the backoff of
\* failures in a row, and the first sleep after a recovery keeps to the configured
\* interval, for every interval and any number of rounds
\* (IronicInspection._run).
THEOREM BackoffIsKept == Spec => []BackoffFollowsResults
<1>1. BackoffInv => BackoffFollowsResults
  BY DEF BackoffInv
<1> QED BY <1>1, BackoffInitial, BackoffInductive, PTL DEF Spec

=============================================================================
