----------------------------- MODULE StepExecution -----------------------------
(***************************************************************************)
(* How Ironic runs the steps of a cleaning, a deployment or a service on   *)
(* the hardware managers (extensions/clean.py, deploy.py and service.py,   *)
(* which share their code, and the dispatching half of hardware.py).       *)
(* Ironic asks for the steps, remembers them with the managers' versions   *)
(* and sends them one by one, while the machine may reboot at any point,   *)
(* and into another ramdisk.                                               *)
(***************************************************************************)
EXTENDS Naturals, Sequences, FiniteSets

CONSTANTS
  Managers,   \* a set of numbers, in the order in which stevedore lists them
  Name,       \* HARDWARE_MANAGER_NAME of each
  Steps, Nodes,
  Images,     \* ramdisks: the support, version, methods and steps of managers
  MaxReboots  \* bound: reboots

NotListed == 99
None == "none"
Image == [support : [Managers -> Nat], version : [Managers -> Nat],
          has : [Managers -> SUBSET Steps], priority : [Managers -> [Steps -> Nat]]]

ASSUME StepAssumption ==
  /\ Managers \subseteq Nat /\ IsFiniteSet(Managers)
  /\ MaxReboots \in Nat /\ Nodes # {} /\ None \notin Nodes
  /\ \A i \in Images :
       /\ i \in Image
       /\ \E m \in Managers : i.support[m] > 0
       /\ \A m \in Managers, s \in Steps :
            i.priority[m][s] # NotListed => s \in i.has[m]

NoVersions == <<>>
NoPlan == [steps |-> {}, versions |-> NoVersions]

VARIABLES
  image,    \* the ramdisk that runs
  cached,   \* NODE
  awaited,  \* history: nodes whose disks this process has waited for
  broken,   \* history: nodes for which the wait failed in this process
  plan,     \* Ironic: the steps and versions it was told
  planned,  \* history: the image that told them
  command,  \* the command that runs
  pc,
  at,       \* position in the list of managers
  called,   \* managers called by this command, and how that ended
  answer,
  reboots

process == <<cached, awaited, broken>>
ironic == <<plan, planned>>
vars == <<image, process, ironic, command, pc, at, called, answer, reboots>>

-----------------------------------------------------------------------------
(* Hardware managers *)

Loaded(i) == {m \in Managers : i.support[m] > 0}

\* get_managers_detail: a stable sort by support.
MoreSpecific(i, a, b) ==
  \/ i.support[a] > i.support[b]
  \/ i.support[a] = i.support[b] /\ a < b

ManagersOf(i) ==
  CHOOSE s \in [1 .. Cardinality(Loaded(i)) -> Loaded(i)] :
    \A k, l \in 1 .. Cardinality(Loaded(i)) : k < l => MoreSpecific(i, s[k], s[l])

Names(i) == {Name[m] : m \in Loaded(i)}

\* get_current_versions: keyed by name, a later manager replaces an earlier one.
CurrentVersions(i) ==
  [n \in Names(i) |->
     LET same == {m \in Loaded(i) : Name[m] = n}
     IN  i.version[CHOOSE m \in same : \A o \in same \ {m} : MoreSpecific(i, o, m)]]

\* check_versions: Ironic may have none.
VersionsMatch(given) == given \in {NoVersions, CurrentVersions(image)}

Listed(i) == {c \in Loaded(i) \X Steps : i.priority[c[1]][c[2]] # NotListed}

\* _step_sort_key, with the managers' names in the order of their numbers.
Before(i, a, b) ==
  \/ i.support[a[1]] > i.support[b[1]]
  \/ /\ i.support[a[1]] = i.support[b[1]]
     /\ \/ i.priority[a[1]][a[2]] > i.priority[b[1]][b[2]]
        \/ i.priority[a[1]][a[2]] = i.priority[b[1]][b[2]] /\ a[1] < b[1]

\* Mutant: the step of the first manager in the list is kept.
MutDeduplicateSteps(i) ==
  {CHOOSE c \in Listed(i) : c[2] = s /\ \A d \in Listed(i) : d[2] = s => c[1] <= d[1] :
     s \in {c[2] : c \in Listed(i)}}

\* deduplicate_steps: for each name the first of its steps, with its manager.
DeduplicateSteps(i) ==
  {CHOOSE c \in Listed(i) :
     c[2] = s /\ \A d \in Listed(i) \ {c} : d[2] = s => Before(i, c, d) :
     s \in {c[2] : c \in Listed(i)}}

-----------------------------------------------------------------------------
Init ==
  /\ image \in Images
  /\ cached = None /\ awaited = {} /\ broken = {}
  /\ plan = NoPlan /\ planned = image
  /\ command = [step |-> None, node |-> CHOOSE n \in Nodes : TRUE, version |-> NoVersions]
  /\ pc = "idle" /\ at = 1 /\ called = <<>> /\ answer = None /\ reboots = 0

Receive(step, node, version) ==
  /\ pc = "idle"
  /\ command' = [step |-> step, node |-> node, version |-> version]
  /\ pc' = "cache" /\ at' = 1 /\ called' = <<>> /\ answer' = None
  /\ UNCHANGED <<image, process, ironic, reboots>>

\* get_clean_steps, get_deploy_steps, get_service_steps.
GetSteps == \E n \in Nodes : Receive(None, n, NoVersions)

\* execute_clean_step and the like, for a step of the plan, with the versions
\* that came with it, or without versions on a first run.
ExecuteStep ==
  \E n \in Nodes :
    \/ \E c \in plan.steps : Receive(c[2], n, plan.versions)
    \/ \E s \in Steps : Receive(s, n, NoVersions)

Answer(result) == pc' = "idle" /\ answer' = result

Proceed == IF command.step = None THEN "list" ELSE "check"

\* Mutant: the node is cached for good once there is one.
MutCacheNode ==
  /\ pc = "cache"
  /\ cached' = command.node
  /\ pc' = IF cached = None THEN "wait" ELSE Proceed
  /\ UNCHANGED <<image, awaited, broken, ironic, command, at, called, answer, reboots>>

\* cache_node: a new node's disks are waited for, after it was stored.
CacheNode ==
  /\ pc = "cache"
  /\ cached' = command.node
  /\ pc' = IF cached # command.node THEN "wait" ELSE Proceed
  /\ UNCHANGED <<image, awaited, broken, ironic, command, at, called, answer, reboots>>

\* wait_for_disks: the root device is found, or the attempts are used up.
WaitForDisks ==
  /\ pc = "wait"
  /\ awaited' = awaited \cup {command.node}
  /\ pc' = Proceed
  /\ UNCHANGED <<image, cached, broken, ironic, command, at, called, answer, reboots>>

\* Listing the disks fails with something other than DeviceNotFound.
WaitFails ==
  /\ pc = "wait"
  /\ broken' = broken \cup {command.node}
  /\ Answer("failed")
  /\ UNCHANGED <<image, cached, awaited, ironic, command, at, called, reboots>>

\* dispatch_to_all_managers, deduplicate_steps, get_current_versions.
ListSteps ==
  /\ pc = "list"
  /\ plan' = [steps |-> DeduplicateSteps(image), versions |-> CurrentVersions(image)]
  /\ planned' = image
  /\ Answer("ok")
  /\ UNCHANGED <<image, process, command, at, called, reboots>>

\* A manager's get_*_steps raises.
ListFails ==
  /\ pc = "list"
  /\ Answer("failed")
  /\ UNCHANGED <<image, process, ironic, command, at, called, reboots>>

\* Mutant: only managers that Ironic knows are compared.
MutCheckVersions ==
  /\ pc = "check"
  /\ \A n \in Names(image) \cap DOMAIN command.version :
       command.version[n] = CurrentVersions(image)[n]
  /\ pc' = "dispatch"
  /\ UNCHANGED <<image, process, ironic, command, at, called, answer, reboots>>

CheckVersions ==
  /\ pc = "check" /\ VersionsMatch(command.version)
  /\ pc' = "dispatch"
  /\ UNCHANGED <<image, process, ironic, command, at, called, answer, reboots>>

\* VersionMismatch: Ironic drops the plan and starts over.
VersionMismatch ==
  /\ pc = "check" /\ ~VersionsMatch(command.version)
  /\ Answer("mismatch")
  /\ plan' = NoPlan
  /\ UNCHANGED <<image, process, planned, command, at, called, reboots>>

\* dispatch_to_managers
Candidate == ManagersOf(image)[at]
Dispatching == pc = "dispatch" /\ at <= Len(ManagersOf(image))
HasMethod == command.step \in image.has[Candidate]

Lacking ==
  /\ Dispatching /\ ~HasMethod
  /\ at' = at + 1
  /\ UNCHANGED <<image, process, ironic, command, pc, called, answer, reboots>>

Call(ending) == called' = Append(called, <<Candidate, ending>>)

\* IncompatibleHardwareMethodError
Incompatible ==
  /\ Dispatching /\ HasMethod
  /\ Call("incompatible")
  /\ at' = at + 1
  /\ UNCHANGED <<image, process, ironic, command, pc, answer, reboots>>

Returns ==
  /\ Dispatching /\ HasMethod
  /\ Call("returned")
  /\ Answer("ok")
  /\ UNCHANGED <<image, process, ironic, command, at, reboots>>

\* Any other exception, HardwareManagerConfigurationError included.
Raises ==
  /\ Dispatching /\ HasMethod
  /\ Call("raised")
  /\ Answer("failed")
  /\ UNCHANGED <<image, process, ironic, command, at, reboots>>

\* HardwareManagerMethodNotFound
MethodNotFound ==
  /\ pc = "dispatch" /\ ~Dispatching
  /\ Answer("notfound")
  /\ UNCHANGED <<image, process, ironic, command, at, called, reboots>>

\* A reboot, asked for by a step or not, into any ramdisk.
Reboot ==
  /\ reboots < MaxReboots
  /\ reboots' = reboots + 1
  /\ image' \in Images
  /\ cached' = None /\ awaited' = {} /\ broken' = {}
  /\ pc' = "idle" /\ at' = 1 /\ called' = <<>> /\ answer' = None
  /\ UNCHANGED <<ironic, command>>

Work ==
  \/ CacheNode \/ WaitForDisks \/ WaitFails \/ ListSteps \/ ListFails
  \/ CheckVersions \/ VersionMismatch
  \/ Lacking \/ Incompatible \/ Returns \/ Raises \/ MethodNotFound

Next == GetSteps \/ ExecuteStep \/ Work \/ Reboot

Spec == Init /\ [][Next]_vars

-----------------------------------------------------------------------------
(* Properties *)

TypeOK ==
  /\ image \in Images /\ planned \in Images
  /\ cached \in Nodes \cup {None}
  /\ awaited \subseteq Nodes /\ broken \subseteq Nodes
  /\ plan.steps \subseteq Managers \X Steps
  /\ plan.versions \in [DOMAIN plan.versions -> Nat]
  /\ command.step \in Steps \cup {None} /\ command.node \in Nodes
  /\ pc \in {"idle", "cache", "wait", "list", "check", "dispatch"}
  /\ at \in 1 .. Len(ManagersOf(image)) + 1
  /\ called \in Seq(Managers \X {"incompatible", "returned", "raised"})
  /\ Len(called) <= Len(ManagersOf(image))
  /\ answer \in {None, "ok", "failed", "mismatch", "notfound"}
  /\ reboots \in 0 .. MaxReboots

\* A step only runs when the managers it was planned with are the ones that
\* run it, all of them and in the same versions, whatever was rebooted in
\* between (check_versions); and a manager is called when all the more specific
\* ones that have the method were called before it and passed the call on, so at
\* most one does the work and none tries its hand after another has failed
\* (dispatch_to_managers).
RunAsPlanned ==
  /\ pc = "dispatch" /\ command.version # NoVersions =>
       /\ Loaded(image) = Loaded(planned)
       /\ \A m \in Loaded(image) : image.version[m] = planned.version[m]
  /\ \A k \in 1 .. Len(called) :
       /\ \A j \in 1 .. k - 1 : called[j][2] = "incompatible"
       /\ \A m \in Loaded(image) :
            /\ command.step \in image.has[m]
            /\ image.support[m] > image.support[called[k][1]]
            => \E j \in 1 .. k - 1 : called[j][1] = m

\* What Ironic is told contains each step that some manager lists exactly once,
\* and no manager lists it with more support, or the same and a higher priority
\* (doc/source/contributor/hardware_managers.rst).
PlanIsBest ==
  plan # NoPlan =>
    /\ {c[2] : c \in plan.steps} = {c[2] : c \in Listed(planned)}
    /\ \A c, d \in plan.steps : c[2] = d[2] => c = d
    /\ \A c \in plan.steps, d \in Listed(planned) :
         d[2] = c[2] =>
           \/ planned.support[c[1]] > planned.support[d[1]]
           \/ /\ planned.support[c[1]] = planned.support[d[1]]
              /\ planned.priority[c[1]][c[2]] >= planned.priority[d[1]][d[2]]

\* Disks have been waited for when a step runs, in this process and for this
\* node, unless that failed; also after Ironic went from one node to another
\* (cache_node).
AwaitedUnlessBroken ==
  pc \in {"dispatch", "list"} => command.node \in awaited \cup broken

=============================================================================
