--------------------------- MODULE AgentLifecycle ---------------------------
(***************************************************************************)
(* The life of an agent process (agent.py: run, process_lookup_data,       *)
(* serve_ipa_api, _lockdown_system), the commands that end it              *)
(* (extensions/rescue.py, extensions/system.py) or reconfigure it          *)
(* (extensions/poll.py), and the restarts by the service manager that it   *)
(* must survive.                                                           *)
(*                                                                         *)
(* A process ends when run() returns or raises.  What survives it: the     *)
(* marker /etc/.rescued, the interfaces, and what the conductor remembers. *)
(***************************************************************************)
EXTENDS Naturals, FiniteSets

CONSTANTS Interfaces,  \* network interfaces of the machine
          MaxRestarts  \* bound: restarts of the agent process

ASSUME LifecycleAssumption == /\ Interfaces # {} /\ IsFiniteSet(Interfaces)
                              /\ MaxRestarts \in Nat

(* agent_token: none, the one in the configuration, or one from lookup.    *)
Tokens == {"none", "preset", "fresh"}
(* The token field of a lookup response; "******" is "masked", one of      *)
(* fewer than 32 characters "short".                                       *)
LookupTokens == {"none", "fresh", "masked", "short"}

Configs == [standalone : BOOLEAN, api_urls : BOOLEAN, auto_tls : BOOLEAN,
            agent_token : {"none", "preset"}]

VARIABLES
  config,       \* options of this agent, the same after a restart
  main,         \* where run() is
  serve_api, lockdown, agent_token,
  client_token, \* api_client.agent_token
  node,         \* has the node been looked up or set?
  api_up,       \* the API is listening
  heartbeater,  \* the heartbeat thread: "none", "alive" or "dead"
  worker,       \* the synchronous command being executed, and how far it is
  todo,         \* interfaces _lockdown_system still has to bring down
  marker,       \* /etc/.rescued exists
  down,         \* interfaces that are down
  issued,       \* the conductor has given out the node's token
  restarts,
  lockdown_asked \* the lockdown command has begun to act in this process

process == <<serve_api, lockdown, agent_token, client_token, node>>
threads == <<api_up, heartbeater, worker>>
machine == <<marker, down>>
lifecycleVars == <<config, main, process, threads, todo, machine, issued, restarts,
          lockdown_asked>>

MainStates == {"boot", "lookup", "decide", "listening", "serving", "stopped",
               "joining", "finish", "locking", "locked", "disabled", "exited"}
WorkerStates == {"idle", "set_lockdown", "stop_serving", "write_password",
                 "write_marker", "set_node_info"}

Heartbeats == ~config.standalone /\ config.api_urls

LifecycleInit ==
  /\ config \in Configs
  /\ main = "boot"
  /\ serve_api = TRUE /\ lockdown = FALSE
  /\ agent_token = config.agent_token /\ client_token = "none"
  /\ node = FALSE
  /\ api_up = FALSE /\ heartbeater = "none" /\ worker = "idle"
  /\ todo = {}
  /\ marker = FALSE /\ down = {}
  /\ issued = (config.agent_token = "preset")
  /\ restarts = 0
  /\ lockdown_asked = FALSE

-----------------------------------------------------------------------------
(* run(), up to the API                                                    *)

(* Clock, hardware managers, interfaces and inspection come first; what    *)
(* they raise, an InspectionError excepted, ends the process.              *)
Boot ==
  /\ main = "boot"
  /\ main' \in {"exited", IF Heartbeats THEN "lookup" ELSE "decide"}
  /\ UNCHANGED <<config, process, threads, todo, machine, issued, restarts,
                 lockdown_asked>>

(* Mutant: a preset token is not passed on to the API client.              *)
MutProcessLookupData(token) ==
  /\ node' = TRUE
  /\ agent_token' = IF token = "fresh" THEN "fresh" ELSE agent_token
  /\ client_token' = IF token = "fresh" THEN "fresh" ELSE client_token
  /\ LET fatal == token = "masked" /\ agent_token = "none" IN
     /\ serve_api' = (serve_api /\ ~fatal)
     /\ lockdown' = (lockdown \/ fatal)

process_lookup_data(token) ==
  /\ node' = TRUE
  /\ agent_token' = IF token = "fresh" THEN "fresh" ELSE agent_token
  /\ client_token' = IF agent_token' # "none" /\ ~config.standalone
                       THEN agent_token' ELSE client_token
  /\ LET fatal == token = "masked" /\ agent_token = "none" IN
     /\ serve_api' = (serve_api /\ ~fatal)
     /\ lockdown' = (lockdown \/ fatal)

(* The conductor hands the token out once; an old one, or one that does    *)
(* not use tokens, sends none.                                             *)
TokenFor == IF issued THEN {"masked", "none", "short"}
                      ELSE {"fresh", "none", "short"}

LookupAnswered ==
  /\ main = "lookup"
  /\ \E token \in TokenFor :
       /\ process_lookup_data(token)
       /\ issued' = (issued \/ token = "fresh")
  /\ main' = "decide"
  /\ UNCHANGED <<config, threads, todo, machine, restarts, lockdown_asked>>

(* lookup_node tries again after a response it did not get.                *)
LookupResponseLost ==
  /\ main = "lookup"
  /\ issued' = TRUE
  /\ UNCHANGED <<config, main, process, threads, todo, machine, restarts,
                 lockdown_asked>>

(* LookupNodeError: "uncaught, restart agent".                             *)
LookupFails ==
  /\ main = "lookup"
  /\ main' = "exited"
  /\ UNCHANGED <<config, process, threads, todo, machine, issued, restarts,
                 lockdown_asked>>

(* Mutant: the branch of the marker ends in the lockdown, like the other.  *)
MutDisable ==
  /\ main = "decide" /\ (marker \/ ~serve_api)
  /\ serve_api' = FALSE
  /\ main' = IF lockdown THEN "finish" ELSE "disabled"
  /\ UNCHANGED <<config, lockdown, agent_token, client_token, node, threads,
                 todo, machine, issued, restarts, lockdown_asked>>

(* One branch for the marker and for a lookup that set lockdown and        *)
(* cleared serve_api: it loops for ever.                                   *)
Disable ==
  /\ main = "decide" /\ (marker \/ ~serve_api)
  /\ serve_api' = FALSE
  /\ main' = "disabled"
  /\ UNCHANGED <<config, lockdown, agent_token, client_token, node, threads,
                 todo, machine, issued, restarts, lockdown_asked>>

StartApi ==
  /\ main = "decide" /\ ~marker /\ serve_api
  /\ api_up' = TRUE
  /\ main' = "listening"
  /\ UNCHANGED <<config, process, heartbeater, worker, todo, machine, issued,
                 restarts, lockdown_asked>>

(* _start_auto_tls: no address to put into the certificate.                *)
AutoTlsFails ==
  /\ main = "decide" /\ ~marker /\ serve_api
  /\ config.auto_tls /\ config.api_urls
  /\ main' = "exited"
  /\ UNCHANGED <<config, process, threads, todo, machine, issued, restarts,
                 lockdown_asked>>

StartHeartbeater ==
  /\ main = "listening"
  /\ heartbeater' = IF Heartbeats THEN "alive" ELSE heartbeater
  /\ main' = "serving"
  /\ UNCHANGED <<config, process, api_up, worker, todo, machine, issued,
                 restarts, lockdown_asked>>

-----------------------------------------------------------------------------
(* run(), after the API                                                    *)

(* The loop sees serve_api, or a KeyboardInterrupt, and stops the API.  A  *)
(* request that is being served goes on.                                   *)
StopApi ==
  /\ main = "serving"
  /\ api_up' = FALSE
  /\ main' = "stopped"
  /\ UNCHANGED <<config, process, heartbeater, worker, todo, machine, issued,
                 restarts, lockdown_asked>>

(* Mutant: the main thread joins the heartbeater instead of polling.       *)
MutServingEnds == ~serve_api /\ heartbeater # "alive" /\ StopApi

ServingEnds == ~serve_api /\ StopApi

Interrupt   == serve_api /\ StopApi

StopHeartbeater ==
  /\ main = "stopped"
  /\ main' = IF Heartbeats /\ heartbeater = "alive" THEN "joining"
                                                    ELSE "finish"
  /\ UNCHANGED <<config, process, threads, todo, machine, issued, restarts,
                 lockdown_asked>>

JoinHeartbeater ==
  /\ main = "joining" /\ heartbeater = "dead"
  /\ main' = "finish"
  /\ UNCHANGED <<config, process, threads, todo, machine, issued, restarts,
                 lockdown_asked>>

Finish ==
  /\ main = "finish"
  /\ IF lockdown THEN main' = "locking" /\ todo' = Interfaces
                 ELSE main' = "exited" /\ UNCHANGED todo
  /\ UNCHANGED <<config, process, threads, machine, issued, restarts,
                 lockdown_asked>>

(* An interface that cannot be brought down is passed over.                *)
BringDown(i) ==
  /\ main = "locking" /\ i \in todo
  /\ todo' = todo \ {i}
  /\ down' \in {down, down \cup {i}}
  /\ UNCHANGED <<config, main, process, threads, marker, issued, restarts,
                 lockdown_asked>>

AllDown ==
  /\ main = "locking" /\ todo = {}
  /\ main' = "locked"
  /\ UNCHANGED <<config, process, threads, todo, machine, issued, restarts,
                 lockdown_asked>>

(* The heartbeat thread saw stop_event, or found no address to advertise.  *)
HeartbeaterEnds ==
  /\ heartbeater = "alive"
  /\ heartbeater' = "dead"
  /\ UNCHANGED <<config, main, process, api_up, worker, todo, machine, issued,
                 restarts, lockdown_asked>>

(* The service manager starts the agent after it exited, or somebody       *)
(* restarts it at any other time.                                          *)
Restart ==
  /\ restarts < MaxRestarts
  /\ restarts' = restarts + 1
  /\ main' = "boot"
  /\ serve_api' = TRUE /\ lockdown' = FALSE
  /\ agent_token' = config.agent_token /\ client_token' = "none"
  /\ node' = FALSE
  /\ api_up' = FALSE /\ heartbeater' = "none" /\ worker' = "idle"
  /\ todo' = {}
  /\ lockdown_asked' = FALSE
  /\ UNCHANGED <<config, machine, issued>>

-----------------------------------------------------------------------------
(* Synchronous commands, run by a worker thread of the API server          *)

(* validate_agent_token: without a token on file no command is accepted.   *)
BeginCommand(first) ==
  /\ worker = "idle" /\ api_up /\ agent_token # "none"
  /\ worker' = first
  /\ UNCHANGED <<config, main, process, api_up, heartbeater, todo, machine,
                 issued, restarts, lockdown_asked>>

Running == main # "exited"

(* Mutant: serve_api is set before lockdown.                               *)
MutSetLockdown ==
  /\ Running /\ worker = "set_lockdown"
  /\ \/ serve_api /\ serve_api' = FALSE /\ lockdown_asked' = TRUE
        /\ UNCHANGED <<lockdown, worker>>
     \/ ~serve_api /\ lockdown' = TRUE /\ worker' = "idle"
        /\ UNCHANGED <<serve_api, lockdown_asked>>
  /\ UNCHANGED <<config, main, agent_token, client_token, node,
                 api_up, heartbeater, todo, machine, issued, restarts>>

(* system.lockdown: two assignments, in this order.                        *)
SetLockdown ==
  /\ Running /\ worker = "set_lockdown"
  /\ lockdown' = TRUE /\ lockdown_asked' = TRUE
  /\ worker' = "stop_serving"
  /\ UNCHANGED <<config, main, serve_api, agent_token, client_token, node,
                 api_up, heartbeater, todo, machine, issued, restarts>>

StopServing ==
  /\ Running /\ worker = "stop_serving"
  /\ serve_api' = FALSE
  /\ worker' = "idle"
  /\ UNCHANGED <<config, main, lockdown, agent_token, client_token, node,
                 api_up, heartbeater, todo, machine, issued, restarts,
                 lockdown_asked>>

(* rescue.finalize_rescue: an unwritable password file ends it.            *)
WriteRescuePassword ==
  /\ Running /\ worker = "write_password"
  /\ worker' \in {"idle", "write_marker"}
  /\ UNCHANGED <<config, main, process, api_up, heartbeater, todo, machine,
                 issued, restarts, lockdown_asked>>

(* An unwritable marker only causes a warning.                             *)
WriteMarker ==
  /\ Running /\ worker = "write_marker"
  /\ marker' \in {marker, TRUE}
  /\ worker' = "stop_serving"
  /\ UNCHANGED <<config, main, process, api_up, heartbeater, todo, down,
                 issued, restarts, lockdown_asked>>

(* poll.set_node_info is refused unless the agent is standalone.           *)
SetNodeInfo ==
  /\ Running /\ worker = "set_node_info"
  /\ worker' = "idle"
  /\ IF config.standalone
       THEN \E token \in LookupTokens : process_lookup_data(token)
       ELSE UNCHANGED process
  /\ UNCHANGED <<config, main, api_up, heartbeater, todo, machine, issued,
                 restarts, lockdown_asked>>

-----------------------------------------------------------------------------

Run ==
  \/ Boot \/ LookupAnswered \/ LookupFails \/ Disable \/ StartApi
  \/ AutoTlsFails \/ StartHeartbeater \/ ServingEnds \/ StopHeartbeater
  \/ JoinHeartbeater \/ Finish \/ AllDown
  \/ \E i \in Interfaces : BringDown(i)

Command ==
  \/ SetLockdown \/ StopServing \/ WriteRescuePassword \/ WriteMarker
  \/ SetNodeInfo

LifecycleNext ==
  \/ Run \/ Command \/ HeartbeaterEnds
  \/ LookupResponseLost \/ Interrupt \/ Restart
  \/ \E first \in {"set_lockdown", "write_password", "set_node_info"} :
       BeginCommand(first)

LifecycleSpec == LifecycleInit /\ [][LifecycleNext]_lifecycleVars

(* Threads are scheduled, and the heartbeat thread ends when it is joined. *)
FairLifecycleSpec == /\ LifecycleSpec /\ WF_lifecycleVars(Run) /\ WF_lifecycleVars(Command)
            /\ WF_lifecycleVars(main = "joining" /\ HeartbeaterEnds)

-----------------------------------------------------------------------------
(* Properties                                                              *)

(* Every variable holds a value of its type.                               *)
LifecycleTypeOK ==
  /\ config \in Configs /\ main \in MainStates
  /\ serve_api \in BOOLEAN /\ lockdown \in BOOLEAN /\ node \in BOOLEAN
  /\ agent_token \in Tokens /\ client_token \in Tokens
  /\ api_up \in BOOLEAN /\ heartbeater \in {"none", "alive", "dead"}
  /\ worker \in WorkerStates /\ todo \subseteq Interfaces
  /\ marker \in BOOLEAN /\ down \subseteq Interfaces /\ issued \in BOOLEAN
  /\ restarts \in 0..MaxRestarts /\ lockdown_asked \in BOOLEAN

(* The command thread of system.lockdown races the main thread: once it    *)
(* has begun to act, the process never just exits and gets restarted.  And *)
(* interfaces go down only when nothing of the agent uses them any more:   *)
(* the API is stopped and the heartbeat thread has ended.                  *)
LockdownIsHonoured ==
  /\ main = "exited" => ~lockdown_asked
  /\ main \in {"locking", "locked"} => ~api_up /\ heartbeater # "alive"

(* The interfaces of a rescued machine "should be preserved for rescue     *)
(* operations" (agent.py:664): an agent restarted after finalize_rescue    *)
(* looks its node up again, is told that the token has already been given  *)
(* out and sets lockdown, the flag for which the others bring the network  *)
(* down.  Only a lockdown command, in the process that wrote the marker,   *)
(* may do that to the tenant.                                              *)
RescuedKeepsNetwork == [][marker /\ down' # down => lockdown_asked]_lifecycleVars

(* The heartbeat thread runs for a node that is known, and sends the token *)
(* the API checks commands against, wherever that token came from.         *)
HeartbeatsWithToken ==
  heartbeater = "alive" => node /\ client_token = agent_token

(* A command that ended the service is followed by the end of the API.     *)
ServiceEnds == ~serve_api /\ api_up ~> ~api_up
=============================================================================
