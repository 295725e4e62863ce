------------------------------ MODULE ApiClient ------------------------------
(***************************************************************************)
(* The client of Ironic's API (ironic_api_client.py): the list of API      *)
(* URLs and how a request walks it, the discovery of the API version, the  *)
(* heartbeat request and the lookup with its retries.  One APIClient is    *)
(* shared by the heartbeat thread and by the thread that looks the node    *)
(* up: the main thread when the agent starts, later a command that         *)
(* refreshes the cached node (hardware.update_cached_node).                *)
(*                                                                         *)
(* Time is counted in units of five seconds, only while a lookup runs: a   *)
(* call of a URL takes up to CallTime, whether it is answered or not, and  *)
(* the pauses for a locked node are 0, 1, 2 and 6 units.  A step of a      *)
(* thread is what happens between two blocking calls; the rotation of the  *)
(* list is one step, which is what one bytecode-interpreter lock gives the *)
(* single line it is.                                                      *)
(***************************************************************************)
EXTENDS Integers, Sequences, FiniteSets

CONSTANTS Urls,         \* the API URLs the agent was given, in their order
          Threads,      \* a subset of {"heartbeat", "command"}
          RealVersion,  \* the minor version of the API that Ironic speaks
          Timeout,      \* [DEFAULT]lookup_timeout
          MinWait,      \* [DEFAULT]lookup_interval
          MaxWait,      \* max_interval of lookup_node
          CallTime      \* the longest a call takes: http_request_timeout to
                        \* connect, and again to be answered

UrlSet == {Urls[i] : i \in 1 .. Len(Urls)}

ASSUME ClientAssumption ==
  /\ Urls \in Seq(UrlSet) /\ Len(Urls) > 0
  /\ \A i, j \in 1 .. Len(Urls) : Urls[i] = Urls[j] => i = j
  /\ Threads \subseteq {"heartbeat", "command"} /\ "command" \in Threads
  /\ {RealVersion, Timeout, MaxWait, CallTime} \subseteq Nat
  /\ MinWait \in 0 .. MaxWait /\ MaxWait > 0

MinVersion == 31     \* MIN_IRONIC_VERSION
TokenVersion == 62   \* AGENT_TOKEN_IRONIC_VERSION
MaxVersion == 68     \* MAX_KNOWN_VERSION
Unknown == 0

VARIABLES
  apiUrls,     \* self.api_urls
  version,     \* self._ironic_api_version, Unknown while it is None
  pause,       \* self.lookup_lock_pause
  registered,  \* a lookup has succeeded: the heartbeat thread runs
  up,          \* the URLs that answer
  healthy,     \* Ironic answers well formed replies and the node is not locked
  at,          \* what each thread is doing
  list,        \* the list its request iterates over
  idx,         \* and how far it is
  tried,       \* the URLs that failed in this request
  header,      \* the API version its request speaks
  lookup_time, \* how long the running lookup has taken
  beat         \* what became of the last heartbeat

client == <<apiUrls, version, pause, registered>>
request == <<list, idx, tried>>
clientVars == <<client, up, healthy, at, request, header, lookup_time, beat>>

Requesting == {"discover", "send"}
Doing == Requesting \cup {"idle", "discovered", "sent", "waiting"}

LesserOf(a, b) == IF a < b THEN a ELSE b

\* The version a request of thread t asks for when the API's is v.
HeaderFor(t, v) ==
  LesserOf(v, IF t = "heartbeat" THEN MaxVersion ELSE TokenVersion)

Rotated(s, n) == SubSeq(s, n, Len(s)) \o SubSeq(s, 1, n - 1)

ClientInit ==
  /\ apiUrls = Urls /\ version = Unknown /\ pause = 0 /\ registered = FALSE
  /\ up \in SUBSET UrlSet
  /\ healthy \in BOOLEAN
  /\ at = [t \in Threads |-> "idle"]
  /\ list = [t \in Threads |-> Urls]
  /\ idx = [t \in Threads |-> 1]
  /\ tried = [t \in Threads |-> {}]
  /\ header = [t \in Threads |-> MinVersion]
  /\ lookup_time = 0
  /\ beat = "none"

-----------------------------------------------------------------------------
(* Requests *)

\* Entering the loop of _request: it iterates over the list as it is now.
OpenRequest(t) ==
  /\ list' = [list EXCEPT ![t] = apiUrls]
  /\ idx' = [idx EXCEPT ![t] = 1]
  /\ tried' = [tried EXCEPT ![t] = {}]

\* Leaving it, by a reply or an error: the locals are gone.
CloseRequest(t) ==
  /\ list' = [list EXCEPT ![t] = Urls]
  /\ idx' = [idx EXCEPT ![t] = 1]
  /\ tried' = [tried EXCEPT ![t] = {}]

\* A heartbeat or an attempt of a lookup asks for the version first, unless
\* an earlier answer is remembered.
StartAttempt(t) ==
  /\ at' = [at EXCEPT ![t] = IF version = Unknown THEN "discover" ELSE "send"]
  /\ header' = [header EXCEPT ![t] = HeaderFor(t, IF version = Unknown
                                                  THEN MinVersion ELSE version)]
  /\ OpenRequest(t)

Began(t) ==
  /\ at[t] = "idle"
  /\ t = "heartbeat" => registered
  /\ StartAttempt(t)
  /\ lookup_time' = IF t = "command" THEN 0 ELSE lookup_time
  /\ UNCHANGED <<client, up, healthy, beat>>

\* What an attempt that failed leaves: a heartbeat is over, a lookup is to be
\* tried again.
Unsuccessful(t) ==
  /\ at' = [at EXCEPT ![t] = IF t = "heartbeat" THEN "idle" ELSE "waiting"]
  /\ beat' = IF t = "heartbeat" THEN "refused" ELSE beat

\* Mutant: the fallback version is remembered.
MutRemember(t) ==
  /\ at' = [at EXCEPT ![t] = "send"]
  /\ header' = [header EXCEPT ![t] = MinVersion]
  /\ version' = MinVersion
  /\ OpenRequest(t)
  /\ UNCHANGED <<apiUrls, pause, registered, beat>>

\* The version discovery raised: this request goes on with the least version,
\* and the next one will ask again.
FallBack(t) ==
  /\ at' = [at EXCEPT ![t] = "send"]
  /\ header' = [header EXCEPT ![t] = MinVersion]
  /\ OpenRequest(t)
  /\ UNCHANGED <<client, beat>>

\* The request of thread t raised.
Raises(t) ==
  \/ at[t] = "discover" /\ FallBack(t)
  \/ /\ at[t] = "send"
     /\ Unsuccessful(t)
     /\ CloseRequest(t)
     /\ UNCHANGED <<client, header>>

\* A call of thread t came to its end.
Called(t) ==
  IF t = "command" THEN \E n \in 0 .. CallTime : lookup_time' = lookup_time + n
                   ELSE UNCHANGED lookup_time

\* Mutant: the list is rotated in place, under the other thread's iteration.
MutReach(t) ==
  /\ at[t] \in Requesting
  /\ list[t][idx[t]] \in up
  /\ apiUrls' = Rotated(apiUrls, idx[t])
  /\ at' = [at EXCEPT ![t] = IF @ = "discover" THEN "discovered" ELSE "sent"]
  /\ list' = [u \in Threads |-> apiUrls']
  /\ idx' = [idx EXCEPT ![t] = 1]
  /\ tried' = [tried EXCEPT ![t] = {}]
  /\ Called(t)
  /\ UNCHANGED <<version, pause, registered, up, healthy, header, beat>>

\* The URL answers: it is moved to the front, with those that followed it.
Reach(t) ==
  /\ at[t] \in Requesting
  /\ list[t][idx[t]] \in up
  /\ apiUrls' = Rotated(apiUrls, idx[t])
  /\ at' = [at EXCEPT ![t] = IF @ = "discover" THEN "discovered" ELSE "sent"]
  /\ CloseRequest(t)
  /\ Called(t)
  /\ UNCHANGED <<version, pause, registered, up, healthy, header, beat>>

\* A connection error: on to the next URL, or the error is raised.
Miss(t) ==
  /\ at[t] \in Requesting
  /\ list[t][idx[t]] \notin up
  /\ Called(t)
  /\ \/ /\ idx[t] < Len(apiUrls)
        /\ idx' = [idx EXCEPT ![t] = @ + 1]
        /\ tried' = [tried EXCEPT ![t] = @ \cup {list[t][idx[t]]}]
        /\ UNCHANGED <<client, at, list, header, beat>>
     \/ idx[t] = Len(apiUrls) /\ Raises(t)
  /\ UNCHANGED <<up, healthy>>

\* An error that is not about the connection ends the walk: no other URL is tried.
Break(t) ==
  /\ at[t] \in Requesting
  /\ ~healthy
  /\ Raises(t)
  /\ Called(t)
  /\ UNCHANGED <<up, healthy>>

-----------------------------------------------------------------------------
(* Version discovery and heartbeat *)

\* The reply to GET / names the version.
Discover(t) ==
  /\ at[t] = "discovered"
  /\ version' = RealVersion
  /\ header' = [header EXCEPT ![t] = HeaderFor(t, RealVersion)]
  /\ at' = [at EXCEPT ![t] = "send"]
  /\ OpenRequest(t)
  /\ UNCHANGED <<apiUrls, pause, registered, up, healthy, lookup_time, beat>>

\* The reply to GET / cannot be read.
Undiscovered(t) ==
  /\ at[t] = "discovered"
  /\ ~healthy
  /\ FallBack(t)
  /\ UNCHANGED <<up, healthy, lookup_time>>

\* Ironic refuses a heartbeat that carries no token, and may refuse any other
\* while the node is locked.
HeartbeatReply ==
  /\ at["heartbeat"] = "sent"
  /\ at' = [at EXCEPT !["heartbeat"] = "idle"]
  /\ \/ header["heartbeat"] >= TokenVersion /\ beat' = "accepted"
     \/ (header["heartbeat"] < TokenVersion \/ ~healthy) /\ beat' = "refused"
  /\ UNCHANGED <<client, up, healthy, request, header, lookup_time>>

-----------------------------------------------------------------------------
(* Lookup *)

\* A valid reply: the node is registered, or its cached record refreshed.
LookupSucceeds ==
  /\ at["command"] = "sent"
  /\ registered' = TRUE
  /\ at' = [at EXCEPT !["command"] = "idle"]
  /\ UNCHANGED <<apiUrls, version, pause, up, healthy, request, header,
                 lookup_time, beat>>

\* An error status, or a reply without a node.
LookupRefused ==
  /\ at["command"] = "sent"
  /\ ~healthy
  /\ Unsuccessful("command")
  /\ UNCHANGED <<client, up, healthy, request, header, lookup_time>>

LongerPause == IF pause = 0 THEN 1 ELSE IF pause = 1 THEN 2 ELSE 6

\* The node is locked: the thread sleeps, longer every time.
LookupLocked ==
  /\ at["command"] = "sent"
  /\ ~healthy
  /\ pause' = LongerPause
  /\ lookup_time' = lookup_time + LongerPause
  /\ Unsuccessful("command")
  /\ UNCHANGED <<apiUrls, version, registered, up, healthy, request, header>>

\* Mutant: nothing looks at the time.
MutRetry ==
  /\ at["command"] = "waiting"
  /\ \E wait \in MinWait .. MaxWait : lookup_time' = lookup_time + wait
  /\ StartAttempt("command")
  /\ UNCHANGED <<client, up, healthy, beat>>

\* An attempt failed and there is time left: wait and look up again.
Retry ==
  /\ at["command"] = "waiting"
  /\ lookup_time < Timeout
  /\ \E wait \in MinWait .. MaxWait : lookup_time' = lookup_time + wait
  /\ StartAttempt("command")
  /\ UNCHANGED <<client, up, healthy, beat>>

\* The time is over.  A refresh keeps the node it had; when the agent is
\* starting it exits, and its service starts it again.
GiveUp ==
  /\ at["command"] = "waiting"
  /\ lookup_time >= Timeout
  /\ at' = [at EXCEPT !["command"] = "idle"]
  /\ IF registered THEN UNCHANGED client
     ELSE apiUrls' = Urls /\ version' = Unknown /\ pause' = 0 /\ registered' = FALSE
  /\ UNCHANGED <<up, healthy, request, header, lookup_time, beat>>

-----------------------------------------------------------------------------
\* URLs go away and come back; Ironic has bad moments.
Environment ==
  /\ up' \in SUBSET UrlSet
  /\ healthy' \in BOOLEAN
  /\ UNCHANGED <<client, at, request, header, lookup_time, beat>>

Underway(t) ==
  \/ Reach(t) \/ Miss(t) \/ Break(t) \/ Discover(t) \/ Undiscovered(t)
  \/ t = "heartbeat" /\ HeartbeatReply
  \/ t = "command" /\ (LookupSucceeds \/ LookupRefused \/ LookupLocked
                       \/ Retry \/ GiveUp)

ClientNext == Environment \/ \E t \in Threads : Began(t) \/ Underway(t)

ClientSpec == ClientInit /\ [][ClientNext]_clientVars

\* A request goes on (every call has a timeout), heartbeats fall due, and a
\* starting agent looks its node up.  A refresh may never be asked for.
FairClientSpec ==
  /\ ClientSpec
  /\ \A t \in Threads : WF_clientVars(Underway(t))
  /\ "heartbeat" \in Threads => WF_clientVars(Began("heartbeat"))
  /\ WF_clientVars(~registered /\ Began("command"))

-----------------------------------------------------------------------------
(* Properties *)

\* What _request's "break at the last index" needs to be right.
ClientTypes ==
  /\ apiUrls \in Seq(UrlSet)
  /\ version \in {Unknown, RealVersion}
  /\ pause \in {0, 1, 2, 6}
  /\ registered \in BOOLEAN
  /\ up \subseteq UrlSet /\ healthy \in BOOLEAN
  /\ at \in [Threads -> Doing]
  /\ list \in [Threads -> Seq(UrlSet)]
  /\ \A t \in Threads : idx[t] \in 1 .. Len(list[t])
  /\ tried \in [Threads -> SUBSET UrlSet]
  /\ header \in [Threads -> {MinVersion} \cup MinVersion .. MaxVersion]
  /\ lookup_time \in Nat
  /\ beat \in {"none", "accepted", "refused"}

\* A request that raises a connection error has tried every URL, also when
\* the other thread rotated the list under it (_request).
EveryUrlIsTried ==
  [][\A t \in Threads :
       Miss(t) /\ at'[t] # at[t] => tried[t] \cup {list[t][idx[t]]} = UrlSet]_clientVars

\* A lookup overruns its timeout by no more than its last wait, one attempt (two
\* walks over the list, in which every call may take its longest) and one pause for
\* a lock, however the failures follow each other (lookup_node, _do_lookup).
LookupOverrun == lookup_time < Timeout + MaxWait + 2 * Len(Urls) * CallTime + 6

\* Once a URL keeps answering and Ironic is well, heartbeats end up accepted
\* for good, whatever failed before: the version the client fell back to,
\* which cannot carry the token, is not remembered (_get_ironic_api_version).
AcceptedAgain ==
  \A u \in UrlSet : <>[](u \in up /\ healthy) => <>[](beat = "accepted")

=============================================================================
