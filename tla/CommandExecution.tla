-------------------------- MODULE CommandExecution --------------------------
(***************************************************************************)
(* How the agent runs commands: the API worker threads that submit and     *)
(* read them (api/app.py), ExecuteCommandMixin.execute_command with its    *)
(* command_lock and ordered command_results, and AsyncCommandResult, whose *)
(* thread executes the command and publishes its outcome under             *)
(* command_state_lock (extensions/base.py).  flow.start_flow is itself an  *)
(* asynchronous command that runs further commands through an              *)
(* ExecuteCommandMixin of its own (extensions/flow.py), so a command       *)
(* thread may be a caller of execute_command too.                          *)
(***************************************************************************)
EXTENDS Naturals, Sequences, FiniteSets

CONSTANTS Clients,  \* the threads of the WSGI server that serve requests
          MaxPosts, \* bound: the first calls, which POST requests can make
          MaxCalls  \* bound: calls of execute_command in a behaviour

ASSUME CallsAssumption == /\ MaxCalls \in Nat \ {0} /\ MaxPosts \in Nat
                          /\ Clients # {}
                          /\ Clients \cap Nat = {}

Ids       == 1..MaxCalls     \* a call's number stands for its result's UUID
Callers   == Clients \cup Ids
Executors == {"agent", "flow"}
Free      == 0               \* command_lock is not held
Nobody    == 0               \* no call in hand

(* start_flow's thread calls FlowExtension.execute_command, every client   *)
(* the agent's: two objects, each with its own lock and results.           *)
ExecutorOf(x) == IF x \in Clients THEN "agent" ELSE "flow"

Kinds  == {"malformed", "unknown", "sync", "async", "flow"}

(* A flow is only accepted when every command of it is well formed and     *)
(* known (_validate_exts).                                                 *)
KindsFor(x) == IF x \in Clients THEN Kinds ELSE {"sync", "async", "flow"}

Final  == {"SUCCEEDED", "FAILED", "CLEAN_VERSION_MISMATCH"}
Status == Final \cup {"RUNNING", "NONE"}   \* NONE: no result object yet

(* What command_result and command_error hold.  "rest" is a RESTError,     *)
(* "raw" any other exception object, which has no serialize().             *)
Payload == {"none", "result", "rest", "mismatch", "raw"}
StatusFor(p) == CASE p = "result"   -> "SUCCEEDED"
                  [] p = "mismatch" -> "CLEAN_VERSION_MISMATCH"
                  [] OTHER          -> "FAILED"

(* How the body of a command, or its validator, can end when it fails.     *)
Failures == {"invalid", "key_error", "rest", "raw"}

VARIABLES
  command_lock,     \* holder of each executor's command_lock
  command_results,  \* each executor's OrderedDict, as ids in insertion order
  command_status,   \* status of each result object
  payload,          \* command_result or command_error of each result object
  kind,             \* which command each call asked for
  parent,           \* who made each call
  thread,           \* AsyncCommandResult.execution_thread of each result
  pc,               \* where each caller is in its request
  job,              \* the call each caller is working on
  listing,          \* results a list request still has to serialise
  running_shown,    \* results it has shown as RUNNING
  heartbeat_forced, \* IronicPythonAgentHeartbeater.heartbeat_forced
  next              \* number of the next call

vars == <<command_lock, command_results, command_status, payload, kind,
          parent, thread, pc, job, listing, running_shown,
          heartbeat_forced, next>>

resultVars == <<command_status, payload, thread>>
callVars   == <<kind, parent, next>>
listVars   == <<listing, running_shown>>

Phases == {"idle", "lock", "check", "dispatch", "body", "record", "join",
           "reply", "list"}
ThreadStates == {"none", "running", "publishing", "finally", "dead"}
Critical == {"check", "dispatch", "body", "record"}

Recorded(e) == {command_results[e][n] : n \in DOMAIN command_results[e]}
Done(i)     == command_status[i] \in Final
(* Mutant: serialize and is_done do not take command_state_lock.           *)
MutStateUnlocked(i) == FALSE

(* The thread is between its two assignments, inside command_state_lock.   *)
StateLocked(i) == thread[i] = "publishing"

Init ==
  /\ command_lock = [e \in Executors |-> Free]
  /\ command_results = [e \in Executors |-> <<>>]
  /\ command_status = [i \in Ids |-> "NONE"]
  /\ payload = [i \in Ids |-> "none"]
  /\ kind = [i \in Ids |-> "none"]
  /\ parent = [i \in Ids |-> Nobody]
  /\ thread = [i \in Ids |-> "none"]
  /\ pc = [x \in Callers |-> "idle"]
  /\ job = [x \in Callers |-> Nobody]
  /\ listing = [c \in Clients |-> <<>>]
  /\ running_shown = [c \in Clients |-> {}]
  /\ heartbeat_forced = FALSE
  /\ next = 1

-----------------------------------------------------------------------------
(* Requests                                                                *)

(* The response, of whatever code.  Requests that end before the agent is  *)
(* involved, for a wrong token, a missing parameter or an unknown id,      *)
(* change nothing and are left out.                                        *)
Answer(c) == pc' = [pc EXCEPT ![c] = "idle"]

(* x is about to call execute_command: a client for a POST, the thread of  *)
(* a flow for its next task.                                               *)
Call(x) ==
  /\ pc[x] = "idle"
  /\ next <= MaxCalls
  /\ \E k \in KindsFor(x) : kind' = [kind EXCEPT ![next] = k]
  /\ parent' = [parent EXCEPT ![next] = x]
  /\ pc' = [pc EXCEPT ![x] = "lock"]
  /\ job' = [job EXCEPT ![x] = next]
  /\ next' = next + 1
  /\ UNCHANGED <<command_lock, command_results, resultVars, listVars,
                 heartbeat_forced>>

PostCommand(c) == next <= MaxPosts /\ Call(c)

(* Bound: every POST takes a call from the flows.                          *)
Posts == Cardinality({i \in Ids : parent[i] \in Clients})

FlowTask(f) ==
  /\ kind[f] = "flow" /\ thread[f] = "running"
  /\ next + Posts <= MaxCalls + 1
  /\ Call(f)

(* GET /v1/commands/<id>: get_command_result reads the dict without the    *)
(* lock; with ?wait=true the request joins the result first.               *)
GetCommand(c, i) ==
  /\ pc[c] = "idle"
  /\ i \in Recorded("agent")
  /\ \E phase \in {"join", "reply"} : pc' = [pc EXCEPT ![c] = phase]
  /\ job' = [job EXCEPT ![c] = i]
  /\ UNCHANGED <<command_lock, command_results, resultVars, callVars,
                 listVars, heartbeat_forced>>

(* GET /v1/commands/: list_command_results copies the values first, then   *)
(* the encoder serialises them one after the other.                        *)
ListCommands(c) ==
  /\ pc[c] = "idle"
  /\ pc' = [pc EXCEPT ![c] = "list"]
  /\ listing' = [listing EXCEPT ![c] = command_results["agent"]]
  /\ UNCHANGED running_shown
  /\ UNCHANGED <<command_lock, command_results, resultVars, callVars, job,
                 heartbeat_forced>>

-----------------------------------------------------------------------------
(* execute_command, under command_lock                                     *)

Acquire(x) ==
  /\ pc[x] = "lock"
  /\ command_lock[ExecutorOf(x)] = Free
  /\ command_lock' = [command_lock EXCEPT ![ExecutorOf(x)] = x]
  /\ pc' = [pc EXCEPT ![x] = "check"]
  /\ UNCHANGED <<command_results, resultVars, callVars, job, listVars,
                 heartbeat_forced>>

(* execute_command raises: the lock is released and, for a client, the     *)
(* exception becomes the response.  In a flow it ends start_flow.  The     *)
(* call leaves no trace; its number is not used again.                     *)
Raise(x) ==
  /\ command_lock' = [command_lock EXCEPT ![ExecutorOf(x)] = Free]
  /\ pc' = [pc EXCEPT ![x] = "idle"]
  /\ IF x \in Clients
       THEN UNCHANGED <<thread, payload>>
       ELSE /\ thread' = [thread EXCEPT ![x] = "publishing"]
            /\ payload' = [payload EXCEPT ![x] = "rest"]
  /\ job' = [job EXCEPT ![x] = Nobody]
  /\ kind' = [kind EXCEPT ![job[x]] = "none"]
  /\ parent' = [parent EXCEPT ![job[x]] = Nobody]
  /\ UNCHANGED <<command_results, command_status, next, listVars,
                 heartbeat_forced>>

(* Mutant: the error is raised with command_lock still held.               *)
MutMalformed(x) ==
  /\ pc[x] = "check" /\ kind[job[x]] = "malformed"
  /\ x \in Clients /\ Answer(x)
  /\ job' = [job EXCEPT ![x] = Nobody]
  /\ UNCHANGED <<command_lock, command_results, resultVars, callVars,
                 listVars, heartbeat_forced>>

Malformed(x) ==
  /\ pc[x] = "check" /\ kind[job[x]] = "malformed"
  /\ Raise(x)

(* The most recent result of the executor, if there is one.                *)
LastCommand(e) == command_results[e][Len(command_results[e])]
LastIsReadable(e) == command_results[e] # <<>> => ~StateLocked(LastCommand(e))

(* Mutant: off by one in the test for an earlier command.                  *)
MutLastNotChecked(e) ==
  Len(command_results[e]) > 1 /\ ~Done(LastCommand(e))

LastIsRunning(e)  == command_results[e] # <<>> /\ ~Done(LastCommand(e))

Busy(x) ==
  /\ pc[x] = "check" /\ kind[job[x]] # "malformed"
  /\ LastIsReadable(ExecutorOf(x))
  /\ LastIsRunning(ExecutorOf(x))
  /\ Raise(x)

Proceed(x) ==
  /\ pc[x] = "check" /\ kind[job[x]] # "malformed"
  /\ LastIsReadable(ExecutorOf(x))
  /\ ~LastIsRunning(ExecutorOf(x))
  /\ pc' = [pc EXCEPT ![x] = "dispatch"]
  /\ UNCHANGED <<command_lock, command_results, resultVars, callVars, job,
                 listVars, heartbeat_forced>>

(* SyncCommandResult(False, e): a result object that is final at once.     *)
NewFailure(x, error) ==
  /\ command_status' = [command_status EXCEPT ![job[x]] = "FAILED"]
  /\ payload' = [payload EXCEPT ![job[x]] = error]
  /\ pc' = [pc EXCEPT ![x] = "record"]
  /\ UNCHANGED <<command_lock, command_results, thread, callVars, job,
                 listVars, heartbeat_forced>>

(* The except clauses of execute_command, by what the extension raised.    *)
Caught(x, failure) ==
  CASE failure = "key_error" -> Raise(x)
    [] failure = "invalid"   -> Raise(x)
    [] OTHER                 -> NewFailure(x, failure)

Dispatch(x) ==
  /\ pc[x] = "dispatch"
  /\ \/ /\ kind[job[x]] = "unknown"
        /\ \E failure \in {"key_error", "invalid"} : Caught(x, failure)
     \/ /\ kind[job[x]] \in {"sync", "async", "flow"}     \* the validator
        /\ \E failure \in Failures : Caught(x, failure)

(* Mutant: command_lock covers the checks only.                            *)
MutSyncUnlocked(x) ==
  /\ pc[x] = "dispatch" /\ kind[job[x]] = "sync"
  /\ command_lock' = [command_lock EXCEPT ![ExecutorOf(x)] = Free]
  /\ pc' = [pc EXCEPT ![x] = "body"]
  /\ UNCHANGED <<command_results, resultVars, callVars, job, listVars,
                 heartbeat_forced>>

(* A synchronous command's body runs in the caller, holding command_lock.  *)
StartSync(x) ==
  /\ pc[x] = "dispatch" /\ kind[job[x]] = "sync"
  /\ pc' = [pc EXCEPT ![x] = "body"]
  /\ UNCHANGED <<command_lock, command_results, resultVars, callVars, job,
                 listVars, heartbeat_forced>>

(* SyncCommandResult(True, result).                                        *)
NewSuccess(x) ==
  /\ command_status' = [command_status EXCEPT ![job[x]] = "SUCCEEDED"]
  /\ payload' = [payload EXCEPT ![job[x]] = "result"]
  /\ pc' = [pc EXCEPT ![x] = "record"]
  /\ UNCHANGED <<command_lock, command_results, thread, callVars, job,
                 listVars, heartbeat_forced>>

EndSync(x) ==
  /\ pc[x] = "body"
  /\ NewSuccess(x) \/ \E failure \in Failures : Caught(x, failure)

(* AsyncCommandResult(...).start(): the thread runs from here on, although *)
(* its result is recorded only in the next step.                           *)
StartAsync(x) ==
  /\ pc[x] = "dispatch" /\ kind[job[x]] \in {"async", "flow"}
  /\ command_status' = [command_status EXCEPT ![job[x]] = "RUNNING"]
  /\ thread' = [thread EXCEPT ![job[x]] = "running"]
  /\ pc' = [pc EXCEPT ![x] = "record"]
  /\ UNCHANGED <<command_lock, command_results, payload, callVars, job,
                 listVars, heartbeat_forced>>

(* The result enters command_results and the lock is released.  A flow     *)
(* always joins; a client joins when its request said ?wait=true.          *)
Record(x) ==
  /\ pc[x] = "record"
  /\ command_results' =
       [command_results EXCEPT ![ExecutorOf(x)] = Append(@, job[x])]
  /\ command_lock' = [command_lock EXCEPT ![ExecutorOf(x)] = Free]
  /\ \E phase \in IF x \in Clients THEN {"join", "reply"} ELSE {"join"} :
       pc' = [pc EXCEPT ![x] = phase]
  /\ UNCHANGED <<resultVars, callVars, job, listVars,
                 heartbeat_forced>>

-----------------------------------------------------------------------------
(* Reading results                                                         *)

(* join() waits for the end of the thread; a synchronous result has none.  *)
Joined(i) == thread[i] \in {"none", "dead"}

(* The encoder calls serialize(), which takes command_state_lock.          *)
ReplyResult(c) ==
  /\ \/ pc[c] = "join" /\ Joined(job[c])
     \/ pc[c] = "reply"
  /\ ~StateLocked(job[c])
  /\ Answer(c)
  /\ job' = [job EXCEPT ![c] = Nobody]
  /\ UNCHANGED <<command_lock, command_results, resultVars, callVars,
                 listVars, heartbeat_forced>>

ShowOne(c) ==
  /\ payload[Head(listing[c])] # "raw"
  /\ listing' = [listing EXCEPT ![c] = Tail(@)]
  /\ running_shown' = [running_shown EXCEPT ![c] =
                         @ \cup {i \in {Head(listing[c])} : ~Done(i)}]
  /\ UNCHANGED pc

ListFails(c) ==
  /\ payload[Head(listing[c])] = "raw"
  /\ Answer(c)
  /\ listing' = [listing EXCEPT ![c] = <<>>]
  /\ running_shown' = [running_shown EXCEPT ![c] = {}]

ListOne(c) ==
  /\ pc[c] = "list" /\ listing[c] # <<>>
  /\ ~StateLocked(Head(listing[c]))
  /\ ShowOne(c) \/ ListFails(c)
  /\ UNCHANGED <<command_lock, command_results, resultVars, callVars, job,
                 heartbeat_forced>>

(* Mutant: the dictionary is iterated live instead of being copied.        *)
MutListLive(c) ==
  /\ pc[c] = "list" /\ listing[c] = <<>>
  /\ LET newer == SelectSeq(command_results["agent"],
                            LAMBDA j : \A i \in running_shown[c] : j > i)
     IN  IF running_shown[c] # {} /\ newer # <<>>
           THEN /\ listing' = [listing EXCEPT ![c] = newer]
                /\ UNCHANGED <<pc, running_shown>>
           ELSE /\ Answer(c)
                /\ running_shown' = [running_shown EXCEPT ![c] = {}]
                /\ UNCHANGED listing
  /\ UNCHANGED <<command_lock, command_results, resultVars, callVars, job,
                 heartbeat_forced>>

ListEnd(c) ==
  /\ pc[c] = "list"
  /\ listing[c] = <<>>
  /\ Answer(c)
  /\ running_shown' = [running_shown EXCEPT ![c] = {}]
  /\ UNCHANGED <<command_lock, command_results, resultVars, callVars, job,
                 listing, heartbeat_forced>>

-----------------------------------------------------------------------------
(* AsyncCommandResult.run, in the command's own thread                     *)

(* The body ended: take command_state_lock and make the first assignment.  *)
FinishBody(i, outcome) ==
  /\ thread[i] = "running"
  /\ thread' = [thread EXCEPT ![i] = "publishing"]
  /\ payload' = [payload EXCEPT ![i] = outcome]

(* Errors that are no RESTError become a CommandExecutionError, "rest".    *)
EndAsync(i) ==
  /\ kind[i] = "async"
  /\ \E outcome \in {"result", "mismatch", "rest"} : FinishBody(i, outcome)
  /\ UNCHANGED <<command_lock, command_results, command_status, callVars,
                 pc, job, listVars, heartbeat_forced>>

(* Mutant: start_flow ignores the status of the command it joined.         *)
MutFlowIgnoresFailure(f) ==
  /\ pc[f] = "join" /\ Joined(job[f])
  /\ pc' = [pc EXCEPT ![f] = "idle"]
  /\ job' = [job EXCEPT ![f] = Nobody]
  /\ UNCHANGED <<command_lock, command_results, resultVars, callVars,
                 listVars, heartbeat_forced>>

(* start_flow after result.join(): only FAILED makes it raise.             *)
FlowJoin(f) ==
  /\ pc[f] = "join"
  /\ Joined(job[f])
  /\ pc' = [pc EXCEPT ![f] = "idle"]
  /\ job' = [job EXCEPT ![f] = Nobody]
  /\ IF command_status[job[f]] = "FAILED"
       THEN FinishBody(f, "rest")
       ELSE UNCHANGED <<thread, payload>>
  /\ UNCHANGED <<command_lock, command_results, command_status, callVars,
                 listVars, heartbeat_forced>>

FlowEnd(f) ==
  /\ kind[f] = "flow"
  /\ pc[f] = "idle"
  /\ FinishBody(f, "result")
  /\ UNCHANGED <<command_lock, command_results, command_status, callVars,
                 pc, job, listVars, heartbeat_forced>>

(* Mutant: force_heartbeat is called on success only.                      *)
MutForceOnSuccess(i) ==
  /\ thread[i] = "publishing"
  /\ command_status' = [command_status EXCEPT ![i] = StatusFor(payload[i])]
  /\ thread' = [thread EXCEPT ![i] =
                  IF payload[i] = "result" THEN "finally" ELSE "dead"]
  /\ UNCHANGED <<command_lock, command_results, payload, callVars, pc, job,
                 listVars, heartbeat_forced>>

(* The second assignment; command_state_lock is released.                  *)
Publish(i) ==
  /\ thread[i] = "publishing"
  /\ command_status' = [command_status EXCEPT ![i] = StatusFor(payload[i])]
  /\ thread' = [thread EXCEPT ![i] = "finally"]
  /\ UNCHANGED <<command_lock, command_results, payload, callVars, pc, job,
                 listVars, heartbeat_forced>>

(* The finally clause; the thread is then dead, which join() waits for.    *)
ForceHeartbeat(i) ==
  /\ thread[i] = "finally"
  /\ heartbeat_forced' = TRUE
  /\ thread' = [thread EXCEPT ![i] = "dead"]
  /\ UNCHANGED <<command_lock, command_results, command_status, payload,
                 callVars, pc, job, listVars>>

(* The heartbeater, modelled in Heartbeater, resets the flag on success.   *)
HeartbeatSent ==
  /\ heartbeat_forced
  /\ heartbeat_forced' = FALSE
  /\ UNCHANGED <<command_lock, command_results, resultVars, callVars, pc, job,
                 listVars>>

-----------------------------------------------------------------------------

ExecuteCommand(x) ==
  \/ Acquire(x) \/ Malformed(x) \/ Busy(x) \/ Proceed(x) \/ Dispatch(x)
  \/ StartSync(x) \/ EndSync(x) \/ StartAsync(x) \/ Record(x)

Request(c) ==
  \/ PostCommand(c) \/ ListCommands(c)
  \/ \E i \in Ids : GetCommand(c, i)

Answering(c) == ReplyResult(c) \/ ListOne(c) \/ ListEnd(c)

CommandThread(i) ==
  \/ EndAsync(i) \/ FlowTask(i) \/ FlowJoin(i) \/ FlowEnd(i)
  \/ Publish(i) \/ ForceHeartbeat(i)

Next ==
  \/ \E x \in Callers : ExecuteCommand(x)
  \/ \E c \in Clients : Request(c) \/ Answering(c)
  \/ \E i \in Ids : CommandThread(i)
  \/ HeartbeatSent

Spec == Init /\ [][Next]_vars

(* Threads are scheduled, the body of a command terminates, and a flow has *)
(* finitely many tasks.  Nothing obliges a client to send a request.       *)
Fairness ==
  /\ \A x \in Callers : WF_vars(ExecuteCommand(x))
  /\ \A c \in Clients : WF_vars(Answering(c))
  /\ \A i \in Ids : WF_vars(CommandThread(i))

FairSpec == Spec /\ Fairness
-----------------------------------------------------------------------------
(* Properties                                                              *)

(* Every variable holds a value of its type.                               *)
TypeOK ==
  /\ command_lock \in [Executors -> Callers \cup {Free}]
  /\ command_results \in [Executors -> Seq(Ids)]
  /\ command_status \in [Ids -> Status]
  /\ payload \in [Ids -> Payload]
  /\ kind \in [Ids -> Kinds \cup {"none"}]
  /\ parent \in [Ids -> Callers \cup {Nobody}]
  /\ thread \in [Ids -> ThreadStates]
  /\ pc \in [Callers -> Phases]
  /\ job \in [Callers -> Ids \cup {Nobody}]
  /\ listing \in [Clients -> Seq(Ids)]
  /\ running_shown \in [Clients -> SUBSET Ids]
  /\ heartbeat_forced \in BOOLEAN
  /\ next \in 1..(MaxCalls + 1)

(* execute_command looks at the newest result only, which is enough: every *)
(* older result is final, so no command is left running behind a newer one *)
(* however the requests and the command threads interleave.                *)
AtMostOneRunning ==
  \A e \in Executors : \A n \in 1..(Len(command_results[e]) - 1) :
    Done(command_results[e][n])

(* Code of at most one command works on the machine at a time: a body run  *)
(* by a request, or a command thread.  A flow's own thread only waits, but *)
(* the commands it runs through its second executor count.                 *)
Working == {job[x] : x \in {y \in Callers : pc[y] = "body"}}
             \cup {i \in Ids : kind[i] = "async" /\ thread[i] = "running"}
ExclusiveBodies == Cardinality(Working) <= 1

(* command_state_lock: whenever it is free, status and result or error of  *)
(* a command belong together, although its thread sets them one by one, so *)
(* no response mixes the running state with the outcome.  And a list       *)
(* response shows at most one command as RUNNING even if commands end and  *)
(* start while it is serialised result by result.                          *)
ReadsAreConsistent ==
  /\ \A i \in Ids : command_status[i] # "NONE" /\ ~StateLocked(i) =>
       command_status[i] = IF payload[i] = "none" THEN "RUNNING"
                           ELSE StatusFor(payload[i])
  /\ \A c \in Clients : Cardinality(running_shown[c]) <= 1

(* A failed command fails its flow, whose other commands are then not run: *)
(* none is called after it, although the flow learns of the failure only   *)
(* after joining another thread.                                           *)
FlowFailsWithCommand ==
  \A i \in Ids :
    parent[i] \in Ids /\ command_status[i] = "FAILED"
      => /\ command_status[parent[i]] # "SUCCEEDED"
         /\ \A k \in Ids : k > i => parent[k] # parent[i]

(* Every request is answered: no error path keeps command_lock or          *)
(* command_state_lock, and no flow waits for itself.                       *)
RequestsAreAnswered ==
  \A c \in Clients : pc[c] # "idle" ~> pc[c] = "idle"

(* The outcome of an asynchronous command is published, and an early       *)
(* heartbeat is requested once it can be read, on every path through run.  *)
CompletionForcesHeartbeat ==
  \A i \in Ids : thread[i] = "running" ~> Done(i) /\ heartbeat_forced
=============================================================================
