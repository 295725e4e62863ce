------------------------------ MODULE Inspection ------------------------------
(***************************************************************************)
(* One inspection of the node (inspector.py) and the loop that repeats it: *)
(* finding the service, loading the collectors, running them one after the *)
(* other while their errors are accumulated, and posting what they found   *)
(* together with the errors.  The service has several URLs; a URL that     *)
(* cannot be reached is passed over, and the whole round is tried again.   *)
(* Each collector's part of the data has the collector's name.             *)
(***************************************************************************)
EXTENDS InspectionDaemon, Sequences, SequencesExt

CONSTANTS Collectors,  \* the names of the collectors, in their order
          URLs,        \* the number of URLs, which are distinct
          Attempts     \* _RETRY_ATTEMPTS

ASSUME InspectionAssumption ==
  /\ Collectors \in Seq(STRING)
  /\ {URLs, Attempts} \subseteq Nat \ {0}

VARIABLES
  callback,     \* inspection_callback_url: "none", "url" or "mdns"
  doing,        \* "waiting", "lookup", "load", "collect" or "post"
  collected,    \* the keys of data
  accumulated,  \* AccumulatedFailures: the collectors that failed, or "load"
  pos,          \* the collector that runs next
  attempt,      \* of _post_to_inspector
  url,          \* the URL it posts to
  raised,       \* the collectors could not be loaded: raised after the post
  outcome,      \* of the last inspection: "none", "succeeded" or "failed"
  received,     \* history: what the service took in this inspection
  answered,     \* history: a URL has answered in this inspection
  tried         \* history: the URLs tried in this attempt

bodyVars == <<collected, accumulated, pos, attempt, url, raised, received, answered, tried>>
vars == <<daemonVars, callback, doing, outcome, bodyVars>>

Nothing == [accepted |-> FALSE, data |-> {}, error |-> {}]
Posted == [accepted |-> TRUE, data |-> collected, error |-> accumulated]

Init ==
  /\ DaemonInit
  /\ callback \in {"none", "url", "mdns"}
  /\ doing = "waiting" /\ outcome = "none"
  /\ collected = {} /\ accumulated = {} /\ pos = 1 /\ attempt = 1 /\ url = 1
  /\ raised = FALSE /\ received = Nothing
  /\ answered = FALSE /\ tried = {}

\* Where the loop goes on when inspect() has returned, and when it has raised.
Succeed ==
  /\ doing' = "waiting" /\ outcome' = "succeeded"
  /\ IF at = "first" THEN FirstInspection(TRUE) ELSE Reported
  /\ UNCHANGED <<daemon, callback>>

Fail ==
  /\ doing' = "waiting" /\ outcome' = "failed"
  /\ IF at = "first" THEN FirstInspection(FALSE) ELSE ReportFails
  /\ UNCHANGED <<daemon, callback>>

Within == UNCHANGED <<daemonVars, callback, outcome>>

\* inspect() begins; without a URL inspection is disabled, and succeeds.
Begin ==
  /\ doing = "waiting"
  /\ at = "first" \/ (at = "sleeping" /\ rounds < MaxRounds)
  /\ collected' = {} /\ accumulated' = {} /\ pos' = 1 /\ attempt' = 1 /\ url' = 1
  /\ raised' = FALSE /\ received' = Nothing
  /\ answered' = FALSE /\ tried' = {}
  /\ \/ callback = "none" /\ Succeed
     \/ /\ callback = "url"
        /\ doing' = "load" /\ Within
     \/ /\ callback = "mdns"
        /\ doing' = "lookup" /\ Within

\* The service is looked up over mDNS until it is found once: its URL then
\* replaces the one in the configuration.  Nothing is posted when it is not.
Lookup ==
  /\ doing = "lookup"
  /\ \/ Fail
     \/ /\ callback' = "url" /\ doing' = "load"
        /\ UNCHANGED <<daemonVars, outcome>>
  /\ UNCHANGED bodyVars

\* Loading the collectors.  A failure is posted before it is raised.
Load ==
  /\ doing = "load"
  /\ \/ doing' = "collect" /\ UNCHANGED <<accumulated, raised>>
     \/ /\ doing' = "post"
        /\ accumulated' = {"load"} /\ raised' = TRUE
  /\ Within
  /\ UNCHANGED <<collected, pos, attempt, url, received, answered, tried>>

More == pos <= Len(Collectors)

\* What a collector may leave: its data, or a failure that it adds or raises.
DataOrFailure(name) ==
  {[found |-> {name}, failed |-> {}], [found |-> {}, failed |-> {name}]}

\* The default collector puts the inventory in place before it is done: it may
\* fail with its data in place.
Default ==
  DataOrFailure("default") \cup {[found |-> {"default"}, failed |-> {"default"}]}

\* The command that reads the logs may fail unnoticed.
Logs == DataOrFailure("logs") \cup {[found |-> {}, failed |-> {}]}

Results(name) ==
  IF name = "default" THEN Default ELSE IF name = "logs" THEN Logs ELSE DataOrFailure(name)

\* Mutant: the first error of a collector ends the inspection.
MutCollect ==
  /\ doing = "collect" /\ More
  /\ \E result \in Results(Collectors[pos]) :
       /\ collected' = collected \cup result.found
       /\ accumulated' = accumulated \cup result.failed
       /\ \/ result.failed = {} /\ Within /\ UNCHANGED doing
          \/ result.failed # {} /\ Fail
  /\ pos' = pos + 1
  /\ UNCHANGED <<attempt, url, raised, received, answered, tried>>

\* One collector runs.  Its error is kept for later, and the next one runs.
Collect ==
  /\ doing = "collect" /\ More
  /\ \E result \in Results(Collectors[pos]) :
       /\ collected' = collected \cup result.found
       /\ accumulated' = accumulated \cup result.failed
  /\ pos' = pos + 1
  /\ Within
  /\ UNCHANGED <<doing, attempt, url, raised, received, answered, tried>>

Collected ==
  /\ doing = "collect" /\ ~More
  /\ doing' = "post"
  /\ Within /\ UNCHANGED bodyVars

\* A failed round of posts is tried again from the first URL, Attempts times.
Retry ==
  \/ /\ attempt < Attempts
     /\ attempt' = attempt + 1 /\ url' = 1 /\ tried' = {}
     /\ Within /\ UNCHANGED doing
  \/ /\ attempt = Attempts
     /\ tried' = tried \cup {url}
     /\ Fail
     /\ UNCHANGED <<attempt, url>>

\* Unless it answers that it did, the service may or may not have the data.
MayHaveIt == received' \in {received, Posted}

\* The connection to a URL cannot be made, or breaks: the next URL is tried.
ConnectionFails ==
  /\ doing = "post"
  /\ url < URLs
  /\ tried' = tried \cup {url}
  /\ url' = url + 1
  /\ MayHaveIt
  /\ Within
  /\ UNCHANGED <<doing, collected, accumulated, pos, attempt, raised, answered>>

\* The same of the last URL.
LastConnectionFails ==
  /\ doing = "post" /\ url = URLs
  /\ Retry
  /\ MayHaveIt
  /\ UNCHANGED <<collected, accumulated, pos, raised, answered>>

\* The service answers that it cannot take the data now (500 and up, 409).  The
\* URLs after this one are not tried in this round.
Busy ==
  /\ doing = "post"
  /\ Retry
  /\ MayHaveIt
  /\ answered' = TRUE
  /\ UNCHANGED <<collected, accumulated, pos, raised>>

\* The service rejects the data.
Rejected ==
  /\ doing = "post"
  /\ answered' = TRUE
  /\ Fail
  /\ UNCHANGED <<collected, accumulated, pos, attempt, url, raised, received, tried>>

\* The answer takes too long: no retry, and no other URL.
TimedOut ==
  /\ doing = "post"
  /\ MayHaveIt
  /\ answered' = TRUE
  /\ Fail
  /\ UNCHANGED <<collected, accumulated, pos, attempt, url, raised, tried>>

\* The service takes the data.  Only now are the errors raised; an answer that
\* is not JSON is one more.
Accepted ==
  /\ doing = "post"
  /\ received' = Posted
  /\ answered' = TRUE
  /\ \/ ~raised /\ accumulated = {} /\ Succeed
     \/ Fail
  /\ UNCHANGED <<collected, accumulated, pos, attempt, url, raised, tried>>

Next ==
  \/ Begin \/ Lookup \/ Load \/ Collect \/ Collected
  \/ ConnectionFails \/ LastConnectionFails \/ Busy \/ Rejected \/ TimedOut \/ Accepted
  \/ /\ doing = "waiting"
     /\ Enter \/ Again
     /\ UNCHANGED <<daemon, callback, doing, outcome, bodyVars>>

Spec == Init /\ [][Next]_vars

-----------------------------------------------------------------------------
(* Properties *)

TypeOK ==
  /\ DaemonTypeOK
  /\ callback \in {"none", "url", "mdns"}
  /\ doing \in {"waiting", "lookup", "load", "collect", "post"}
  /\ collected \subseteq ToSet(Collectors)
  /\ accumulated \subseteq ToSet(Collectors) \cup {"load"}
  /\ pos \in 1 .. Len(Collectors) + 1
  /\ attempt \in 1 .. Attempts /\ url \in 1 .. URLs /\ tried \subseteq 1 .. URLs
  /\ {raised, answered} \subseteq BOOLEAN
  /\ outcome \in {"none", "succeeded", "failed"}

\* Once the service has been found, no inspection ends quietly: when none of its
\* URLs answered, every one of them was tried in the last of the attempts; what it
\* took, perhaps more than once, accounts for every collector, with its data or its
\* error, but for the logs; and an inspection succeeds only when the service took
\* data without errors.
ErrorsAreReported ==
  doing = "waiting" /\ outcome # "none" /\ callback = "url" =>
    /\ ~answered => tried = 1 .. URLs /\ attempt = Attempts
    /\ received.accepted =>
         /\ received.error = accumulated
         /\ "load" \in received.error
              \/ ToSet(Collectors) \subseteq received.data \cup received.error \cup {"logs"}
    /\ outcome = "succeeded" => received.accepted /\ received.error = {}

=============================================================================
