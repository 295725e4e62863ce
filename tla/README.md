# TLA+ models of ironic-python-agent

Ironic Python Agent (IPA) is the program that runs in the deployment ramdisk of
a bare metal node. Ironic's conductor drives it over a small REST API: it cleans
and erases disks, configures RAID, partitions a disk, writes an image, makes it
bootable, and reports by heartbeats and inspections. These modules model its
control: threads and locks, retries and timeouts, commands that fail half-way,
what survives a crash or a restart, and the sequences of commands a conductor
may send. TLC checks them on small instances, and TLAPS proves the invariants of
most components for every value of the constants.

All source paths are relative to `src/`, and those without a directory to
`src/ironic_python_agent/`; `PROJECT.json` maps every definition to the lines it
models.

## 1. The system

| component | state | operations | talks to |
|---|---|---|---|
| Commands and API (`api/app.py`, `extensions/base.py`, `flow.py`) | `command_results`, `command_lock`, each result's status, result and error under `command_state_lock` | POST, GET (with `wait`), list; `execute_command`; command threads; flows | every extension; calls `force_heartbeat` when a command ends |
| Heartbeater (`agent.py`) | `interval`, `previous_heartbeat`, `heartbeat_forced`, `stop_event` | `run`, `do_heartbeat`, `force_heartbeat`, `stop` | API client; command threads; the main thread |
| Life cycle (`agent.py`, `rescue.py`, `system.py`, `poll.py`) | `serve_api`, `lockdown`, `agent_token`, `node`; on disk `/etc/.rescued` | `run`, lookup, serve, lock down; the commands `lockdown`, `finalize_rescue`, `set_node_info` | service manager, heartbeater, conductor |
| API client (`ironic_api_client.py`) | `api_urls`, `_ironic_api_version`, `lookup_lock_pause` | `_request`, version discovery, `heartbeat`, `lookup_node` | Ironic; shared by two threads |
| Image download (`standby.py`) | attempt, URL, connection attempt, running hash, target | `_download_with_proxy`, `ImageDownload`, `_download_image`, `_stream_raw_image_onto_device` | image server, disk |
| Image deployment (`standby.py`) | `cached_image_id`, `partition_uuids`, the disk, the container's credentials | `prepare_image`, `execute_bootc_install`, `sync`, `run_image`, `power_off` | download, partitioning, disk |
| Partitioning (`partition_utils.py`, `disk_utils.py`) | the partition table, the kernel's view of it, what is on each partition, the config drive's temporary file | `work_on_disk`, `create_config_drive_partition`, `destroy_disk_metadata`, `get_partition` | parted, mkfs, dd, mount |
| Bootloader (`extensions/image.py`, `efi_utils.py`) | mounts, the firmware's boot records, the temporary directory, the RAIDed ESP | `install_bootloader`, `_efi_boot_setup`, `manage_uefi`, `_install_grub2`, `prepare_boot_partitions_for_softraid` | the disk that partitioning leaves; efibootmgr, grub, mount, mdadm |
| Steps and dispatch (`clean.py`, `deploy.py`, `service.py`, `hardware.py`) | `NODE`, the loaded managers | `get_*_steps`, `execute_*_step`, `dispatch_to_managers`, `cache_node`, `check_versions` | hardware managers; the conductor remembers the plan |
| Software RAID (`hardware.py`, `raid_utils.py`) | superblocks, partition tables and running arrays; `_raid_root_device_mapping` | `validate_`, `create_`, `delete_` and `apply_configuration`, `get_os_install_device` | mdadm, parted, wipefs |
| Erasing all devices (`hardware.py`) | pool of threads, errors | `erase_devices`, `_metadata`, `_express`, `safety_check_block_device` | one-device erase |
| Erasing one device (`hardware.py`) | the drive's ATA security state and password | `erase_block_device`, `_ata_erase`, `_nvme_erase`, `_shred_block_device` | hdparm, nvme, shred |
| Inspection daemon (`inspect.py`) | interval, error flag | `_run` | inspector |
| Inspection (`inspector.py`) | data, accumulated failures, the callback URL | `inspect`, the collectors, `call_inspector` | mDNS, collectors, the inspection service |
| Not modelled | | mDNS protocol, block device listing and hints, container manager, vendor managers, burn-in, file injection, networking, metrics, TLS, utilities | |

What is hard in each of them, and what makes it correct:

* **Commands.** Request threads, command threads and flows interleave. Only the
  newest result is looked at to decide whether the agent is busy; result and
  status are two assignments; a flow executes commands through a second executor
  with a lock of its own. Correct means: at most one command works on the
  machine, no response is torn, every request is answered on every error path,
  a failed command ends its flow, and every completion is published and
  announced.
* **Heartbeater.** A wait, a sleep, jitter, a flag set by other threads and a
  stop event. Correct means never too late, retries that keep up with Ironic's
  timeout, prompt when forced, at most one heartbeat after a stop, and no
  completion left unannounced.
* **Life cycle.** A command thread sets flags that the main thread polls, the
  process may be restarted anywhere, and a token is handed out once. Correct
  means that a lockdown is not lost to a race, that nothing of the agent is
  active when interfaces go down, that a rescued machine keeps its network, and
  that heartbeats carry the token.
* **API client.** Two threads iterate over copies of one list and rotate the
  original. Correct means that an error was preceded by a try of every URL, that
  lookups stay near their timeout, and that a fallback version is not sticky.
* **Download and deployment.** Three nested levels of retries; broken,
  truncated, corrupted streams; failures at any step of any sequence of
  commands. Correct means that success implies the verified image is there, that
  a failed fetch does not cost the content of the disk, that records match the
  disk, and that data is flushed before power is cut.
* **Steps.** Planned in one ramdisk, executed in another, passed from manager to
  manager by exceptions. Correct means one version from plan to step, the most
  specific manager first and nobody after a failure, one step of each name, and
  disks that were waited for.
* **Partitioning and bootloader.** Every tool may fail between two others, the
  kernel may miss a new partition, mounts nest, and the conductor calls again on
  what a failed call left. Correct means that preserved partitions and the
  image's own stay, that a success has the config drive and, with three known
  exceptions, something to boot from, and that no path leaves a mount, or removes
  a directory with one below.
* **Software RAID.** Most failures are only logged, and what is left on a disk is
  assembled again by the next scan or boot. Correct means that safeguarded
  volumes survive every failure but that of asking mdadm about their disks, that
  success means the arrays asked for and no others, and that the right volume
  becomes the root device.
* **Erasure.** Threads, a guard, an order of partitions and disks, a security
  state machine that survives power failures. Correct means that a reported
  success is one, that a recognised filesystem stays, that one error hides
  nothing, and that no attempt locks a drive against the next.
* **Inspection.** Backoff, cap and jitter multiply; errors of collectors are
  carried past the post that reports them; URLs and attempts nest. Correct means
  that errors slow the daemon down and that it recovers at once, and that no
  inspection ends quietly.

## 2. Modules

| module | models | state and actions |
|---|---|---|
| `CommandExecution`, `MCCommandExecution` | commands and API | `pc[x]` is where a request thread or flow `x` is, `job[x]` the result it works on; `Acquire` to `Record` are the body of `execute_command`; `EndAsync`, `Publish`, `ForceHeartbeat` the three parts of `AsyncCommandResult.run`; `Flow*` is `start_flow`; `ListOne` is one `serialize()` |
| `Heartbeater` | heartbeater | `phase` is where the thread is, `timer` what is left of the current wait; `elapsed` is `_time() - previous_heartbeat`; `Tick` is the clock |
| `AgentLifecycle` | `run()`, and the commands that end it | `main` is where `run()` is, `worker` the synchronous command in progress; `Restart` is the service manager; `marker` and `down` survive it |
| `ApiClient`, `MCApiClient` | API client | `at[t]`, `list[t]`, `idx[t]` are the local state of a request of thread `t`; `Reach`, `Miss`, `Break` the three ends of one iteration of `_request`; `Environment` turns URLs and Ironic on and off |
| `ImageFetch` | what a fetch promises | abstract: a target and a result |
| `ImageDownload` | how it is done | `attempt`, `url`, `conn_attempt` are the three levels; `Chunk`, `ReadFails`, `TimedOut`, `OutOfSpace` the iterator; `VerifyImage` the check |
| `ImageDeployment` | standby extension | uses `ImageFetch` for the fetch (INSTANCE) and adds disk, records, credentials and power; one action for each step that may fail |
| `DiskPartitioning` | `work_on_disk`, `create_config_drive_partition` | `use` is the table and `holds` what is on each partition, `seen` what the kernel knows of; `next` is the write of `work_on_disk` that comes next, `target` is `config_drive_part` |
| `BootloaderInstall`, `MCBootloaderInstall` | `install_bootloader` | extends `DiskPartitioning`: its calls follow those; `at` is the step, `mounts`, `nvram`, `raid` the machine; `error` is an exception on its way through the clean-up |
| `StepExecution`, `MCStepExecution` | steps and dispatch | `pc`, `at`, `called` describe the running command; `plan` and `planned` are the conductor's; `image` is the ramdisk, exchanged by `Reboot` |
| `SoftwareRaid`, `MCSoftwareRaid` | RAID steps | `super`, `parts` are what is on the disks, `arrays` what runs; `pc` and `local` are a step and its variables; `Reboot` assembles what the disks hold; `unreliable` is the set of tools that fail |
| `DeviceErasure` | the three erasing steps | `Submit`, `Take`, `TaskEnds`, `Join`, `Collect` for the pool; `Wipe`, `WipeFails`, `Report` for the walks |
| `BlockDeviceErase` | one device | `drive` and `password` are the hardware, `lines` what hdparm last said; `PowerCycle` may come anywhere |
| `DiskCleaning`, `MCDiskCleaning` | both together | the task of one disk runs the commands of `BlockDeviceErase` (INSTANCE); `Restart` is a power failure at any point, `Again` the next step |
| `InspectionDaemon` | `IronicInspection._run` | `interval` is the local variable that jitter and backoff overwrite; it has no behaviour of its own |
| `Inspection`, `MCInspection` | `inspect()` in that loop | `doing` is where the inspection is; `collected` and `accumulated` are the data and the failures; `url`, `attempt` the two levels of the post |
| `...Proofs` | | proofs, section 5 |

Composition: `ImageDownload` implements `ImageFetch`, and `ImageDeployment` is
built on `ImageFetch`, so what is checked of deployments holds with the real
download in place of the abstract one. `BootloaderInstall` starts from every disk
that `DiskPartitioning` can leave. `DiskCleaning` puts `BlockDeviceErase` in
place of a task of `DeviceErasure`, and `Inspection` a whole inspection in place
of each round of `InspectionDaemon`. `CommandExecution` abstracts the
heartbeater to `HeartbeatSent`; `Heartbeater` abstracts command threads to
`ForceHeartbeat` and `CommandCompletes`. `AgentLifecycle` abstracts both.

Data is abstracted to what the properties tell apart: an exception is one of the
kinds the `except` clauses distinguish, an image is a model value, a chunk is
good or bad, a partition holds one of eleven kinds of content, time is counted in
coarse units. External tools (mdadm, parted, mount, efibootmgr, hdparm) are
modelled from how the code uses them: each may fail, and refuses what its manual
says it refuses. Every module has a type invariant, which is checked on its own
when the module changes. The operators named `Mut...` are variants with one
plausible mistake, used to confirm that each property can fail.

## 3. Runs

| run | checks | bounds, and why they are enough |
|---|---|---|
| `command` | `AtMostOneRunning`, `ExclusiveBodies`, `ReadsAreConsistent`, `FlowFailsWithCommand`, `RequestsAreAnswered`, `CompletionForcesHeartbeat` | two clients, two requests and three calls: a race needs two callers, and a flow a command that fails and one behind it; 315k states |
| `heartbeater` | `ForcedIsPrompt`, `NoLateHeartbeat`, `OneHeartbeatAfterStop`, `RetriesKeepUp`, `CompletionIsAnnounced` | a minimum of 4 units, retries of 4 to 8, and intervals of 2, 6 and 11: one shorter than the minimum, as a short `heartbeat_timeout` gives it, and none a multiple of it; three failures in a row are counted; ages above 14 are not told apart; 568k states |
| `agent_lifecycle` | `LockdownIsHonoured`, `HeartbeatsWithToken`, `RescuedKeepsNetwork`, `ServiceEnds` | all configurations, two interfaces, two restarts: one to lose a response or write a marker, one to come after it |
| `image_download` | `HashMatchesTarget`, `ImplementsFetch` | two URLs, two retries at each level, two chunks: every level can be exhausted, and a chunk can be left over |
| `image_deployment` | `UntouchedUntilVerified`, `WrittenAsRequested`, `CachedWasWritten`, `FlushedBeforeShutdown` | a whole-disk and a partition image, two config drives, four commands: write, overwrite, return, and one more behind a failure; 212k states |
| `deployment_stale_cache` | `PreparedImageIsOnDisk`, violated | as above, with three commands; section 7 |
| `api_client` | `EveryUrlIsTried`, `LookupOverrun`, `AcceptedAgain` | two URLs, two threads, a timeout of one unit and calls of up to two: rotations by different indices, and a lookup that overruns during a call; 318k states |
| `inspection` | `BackoffFollowsResults`, `ErrorsAreReported` | four inspections, jitter at both ends and the middle: the cap is reached after three errors, the interval configured is not the default one; two URLs, three attempts (the code: 5): a first, a middle and a last one; three collectors, of which the default one may fail with its data in place, the logs may stay silent, and the third stands for all others; 243k states |
| `step_execution` | `RunAsPlanned`, `PlanIsBest`, `AwaitedUnlessBroken` | three managers, two of them of equal support, four ramdisks that differ in one version or manager, two nodes, two reboots; 68k states |
| `disk_cleaning` | `ReportIsRight`, `LockIsOpened`, `VmfsIsKept` | a disk, and a disk with a partition whose task is the detailed one; ATA, NVMe and read-only devices; pools of one and two threads; two steps and a power cycle at any point: one attempt to leave something behind, one to find it. The walk of `erase_devices_express` has the shape of `_metadata`'s and is left out of this run; 4.8M states |
| `software_raid` | `DeletedForGood`, `CreatedAsRequested`, `ListedSurvive`, `StepEnds` | three disks of two partitions, five layouts (none, side by side, overlapping, a RAIDed ESP, unnamed), six nodes with and without skip lists and hints, seven sets of failing tools, `--detail` and `--examine` among them; two steps and one boot: delete and create, or a retry. A volume counts as safeguarded while it runs with all its members; `doubted` are the disks about which mdadm gave a wrong picture, which `ListedSurvive` excepts (section 7); 892k states |
| `local_boot` | `OthersAreKept`, `DriveIsWritten`, `SuccessBoots`, `MountsAreReleased` | every boot mode and label with and without optional partitions, layouts of earlier deployments that differ in mode or size, whole-disk images with and without ESP, loaders on it, config drive and full tables; each operation twice, since a retry meets what the first left; 4.6M states |

What the passing runs show is in the `about` of each in `PROJECT.json`.
`command`, `heartbeater`, `image_download`, `api_client` and `step_execution`
check for deadlock too. The others stop legitimately: a process that is locked
down loops for ever, a conductor may send no more commands, a step or a daemon
ends.

Bounds: `MaxCalls`, `MaxInstalls`, `MaxRestarts`, `MaxCommands`, `MaxReboots`,
`MaxSteps`, `MaxRounds` are in the guards of one action each and only end the
behaviour; `Horizon` saturates ages. They stand for nothing in the code.

## 4. Fairness

* Commands: request and command threads are scheduled and the body of a command
  ends (weak fairness of each thread). No client is obliged to send anything,
  and a flow is not obliged to run another task: its list is finite.
* Heartbeater: the thread is scheduled, time passes, and `stop` sees the end of
  the thread. Strong fairness of `HeartbeatSucceeds` says that Ironic does not
  refuse every heartbeat for ever; without it nothing could be announced.
* Life cycle: the main thread and the running command are scheduled; a heartbeat
  thread that is joined ends, because its waits are interrupted by the event and
  its requests have timeouts. Restarts, interrupts and commands are not fair.
* API client: a request goes on, since every call has a timeout; a heartbeat
  falls due while the node is registered; an agent that is not registered looks
  its node up. The rotation of the list is a single step: it is one statement
  of a thread under the interpreter's lock, except that its right-hand side is
  evaluated before the store. Two threads between those two points would lose
  one rotation, which only changes the order of the list.
* Download: a step that is possible is taken; requests and reads have timeouts.
* RAID: the one thread of the step goes on, whatever its commands answer
  (`WF_vars(Deleting \/ Creating)`); processes have timeouts or end. Requests and
  reboots are not fair.

## 5. Proofs

`CommandExecutionProofs` proves, for every finite or infinite set of clients and
every bound on calls:

* `TypeCorrect`: `Spec => []TypeOK`;
* `OneRunningCommand`: `Spec => []AtMostOneRunning`. Looking at the newest
  result is enough;
* `OneBodyAtATime` (`ExclusiveBodies`), `ConsistentReads` (`ReadsAreConsistent`)
  and `FailureEndsFlow` (`FlowFailsWithCommand`).

`AtMostOneRunning` is not inductive. The invariant `IInv` adds: `JobInv` (a
caller with a call in progress has the number of one), `LockInv` (a caller
inside `execute_command` holds its executor's lock, so there is one at most),
`QuietInv` (while a caller is past the busy test all recorded results of its
executor are final: the test establishes it and the lock keeps it), and
`NumberInv` (numbers are handed out once, no two callers work on the same one,
and none is recorded before its caller gets there). `Record` appends a result
that may be running; `QuietInv` says that all the others are final, and no step
turns a final result into a running one, since by `NumberInv` nobody else works
on a recorded number.

The other three need a wider invariant, `IInvWide`. `StageInv` says that
thread, status and payload of a result agree except while its thread holds
`command_state_lock`, `FreshInv` that a number without a result object is blank,
`FlowInv` and `LinkInv` that a flow in a call has its thread running and that each
recorded call is in its caller's list, `PlaceInv` that a running command is in a
list or about to be, `WaitInv` that a flow waits for its command's thread and takes
over its failure, `OrderInv` that of a flow's calls only the last is under way and
no earlier one failed. `OneRunning` and `Workers` draw the conclusion: two bodies at
work would be two running results of one executor. `ListInv` says that only the
last result of a copied list can still be running, so that what is read one after
the other cannot show two.

`AgentProofs` has three parts. The first is about `Heartbeater` and proves, for
every choice of intervals, those below the minimum included:

* `ForcedInTime`: `Spec => []ForcedIsPrompt`;
* `NeverLate`: `Spec => []NoLateHeartbeat`;
* `LastHeartbeat`: `Spec => []OneHeartbeatAfterStop`;
* `RetriesInTime`: `Spec => []RetriesKeepUp`.

`TimesAssumption` asks of the intervals only that they are whole numbers, of the
retries that they are between once and twice the minimum, as the jitter has it,
and of `Horizon` that it is above all of them. None of the four is inductive.
`IInv` adds: `Planned` (the interval is one of those, and zero before the first
heartbeat), `TimerInv` (what is left of a wait or sleep is bounded by its
length), `EnoughInv` (a wait lasts long enough for a request that was made before it to be served at its end, so a round
that decides against a heartbeat finds the flag off), `ForcedInv` (either the
flag or the heartbeat before it is young enough to be served by the end of the
current wait), `LateInv` (no wait reaches past the planned interval by more than
the sleep) and `StopInv` (only the check after a wait that saw the event clear
can still send). `RetryInv` adds up the waits since the last heartbeat that was
accepted: the interval planned then and, for each failure, the retry planned
after it. `NotYet` and `SleepOver` are where these bounds meet: the sleep
of the loop adds to what the wait has used up.

Heartbeats and lookups go through one client, so the second part of the module
is about `ApiClient`. For every list of URLs, set of threads and choice of times
that satisfies `ClientAssumption` it proves:

* `LookupEnds`: `ClientSpec => []LookupOverrun`;
* `TriesAll`: `ClientSpec => EveryUrlIsTried`.

The invariant `ClientInv` says that every list in use, the client's and that of
each request, is an arrangement of all URLs (`RotatedKeeps` is the lemma that a
rotation is one), `WalkInv` that a request has missed each URL of its list up to
where it is, whatever the other thread has done to the client's list, and
`SpendInv` what a lookup can have spent at each point of an attempt: `CallTime` for
each URL missed, twice over the list. `CallTime` is any number; with the default
`http_request_timeout` of 30 seconds and units of 5 it is 6, so with one URL a
lookup may overrun its timeout by the last wait, an attempt of 60 seconds and a
pause of 30.

The third part is about `AgentLifecycle`, the process around both. It proves,
for every set of interfaces and number of restarts, `LifecycleTypes`,
`LockdownHolds` (`LockdownIsHonoured`), `TokenSent` (`HeartbeatsWithToken`) and
`RescueKeepsNetwork` (`RescuedKeepsNetwork`). The invariant `LifecycleInv` adds
where a command may run at all (`CommandInv`: the API is up only while `main`
listens or serves, and a requested lockdown is remembered), where the heartbeat
thread may be alive (`ThreadInv`), how the two copies of the token relate (`TokenInv`),
and whose doing `lockdown` is (`AskedInv`): a lookup may set it too, when the token
has been handed out before, but only while it clears `serve_api`, which has
`run()` take the branch of the rescue marker and not the one that brings the network
down, unless a command asked for it.

The second part of `ImageDeploymentProofs`, which extends `ImageDownload` as
well, proves for every number of URLs, retries and chunks `HashIsOfTarget`
(`HashMatchesTarget`) and `StepsOfFetch`: every step of the download is a step
of `ImageFetch` or leaves its variables alone, so that success means the
verified image. This is the safety half of `ImplementsFetch`. `HashInv` says
that an attempt begins with an empty hash, whatever the one before it left in
the target.

`ImageDeploymentProofs` proves, for all images and sequences of commands,
`DeviceIsUntouched`, `ImageIsOnDisk`, `CacheIsTrue` and `FlushComesFirst` (the
four properties of the run). `PhaseInv` ties each phase to a kind of command;
`StreamInv` and `OnDisk` say what has reached the disk while a stream or the
steps behind the write are in progress; `FlushInv` that the flush was tried
before the power is touched.

`InspectionProofs` proves `NoQuietEnd` (`ErrorsAreReported`) and `BackoffIsKept`
(`BackoffFollowsResults`), for every list of collectors, number of URLs and
attempts, and every interval. `AccountedUpTo` says that each collector
that has run left its data or its error, `PostInv` that the URLs before the
current one have been tried, `TakenIsPosted` that what the service took is what
is being posted. The backoff is divided by whole numbers, each of which rounds, so
`BackoffFollowsResults` allows for one unit, and so does `BackoffInv`.

`DiskCleaningProofs` proves `PasswordIsFound` (`LockIsOpened`), for any number of
devices, steps and power cycles. `DriveInv` says that only a password locks a
drive; `TriedInv` that in the loop over the passwords one that was tried does not
fit, unless a command failed. Whatever else the pool does leaves the drive alone.

It also proves `RightReport` (`ReportIsRight`) and `VmfsUntouched`
(`VmfsIsKept`). Their invariant `WalkInv` is about the walks over the
devices: `OrderInv` says that the list is an ordering of the devices, `ReachInv`
that what lies before the position has been dealt with and what lies behind it
has not, `DoneInv` and `EndInv` that each device behind the loop is erased, an error or a
task, and that the report waits for all of them, `DataInv` what is on the disk
whose commands are modelled. A walk goes over a sorted
sequence; what is needed of it (`OrderExists`, `InOrderLists`, `ListInOrder`) is
proved from the least element of a set of numbers (`LeastNat`, `UpFromZero`).

`StepExecutionProofs` proves `DisksAwaited` (`AwaitedUnlessBroken`), for any
managers, nodes and ramdisks. A node is stored before its disks are waited for,
so `StoredInv` excepts the command that is waiting. It proves `BestPlan`
(`PlanIsBest`) with no assumption but the module's, and `PlannedRun`
(`RunAsPlanned`) under the hypothesis that no two managers of a ramdisk have one
name: versions are compared by name, so of two managers of one name an exchange
would go unnoticed. `PlanInv` says that what the conductor holds is the choice of
a ramdisk with the versions it was told, and `VersionsTell` that ramdisks with
equal versions have equal managers and so make the same choice.

`BootloaderInstallProofs` proves for every layout, image and request that the
assumptions of `DiskPartitioning` and `BootloaderInstall` allow, and any number
of calls:

* `OthersKept` (`OthersAreKept`) and `DriveWritten` (`DriveIsWritten`), from
  `DiskInv`: `RequestInv` and `TableInv` are what the request and the tables look
  like, `WriteInv` what the writes so far have left, `TargetInv` which partition
  has been found for the config drive, `EspInv` which one is the ESP;
* `MountsReleased` (`MountsAreReleased`), from `MountsInv`, which adds what is
  mounted at each step of each way through, while the disk is prepared
  (`SourceInv`) and while the loader is installed (`PathInv`, `MountInv`), and
  that nothing is mounted below a directory that is removed (`RemovedInv`);
* `Boots` (`SuccessBoots`), from `BootInv`, which adds how the partitions were
  recognised and chosen (`LayoutInv`, `ChosenInv`), what has been written to the NVRAM
  (`EntriesInv`) and how a loader got where it is (`HowInv`), and from `SkipInv`,
  which follows exceptions and empty results to the end of the call: nothing else
  is turned into a success than what the property names.

The hardest part of the last is that `boot_records` are read once and then
consulted while entries are added and removed. It works because what was read
lacks only labels written since, and the labels of two loaders differ
(`LabelsDiffer`, `WriteEntryBoot`).

`SoftwareRaidProofs` proves, for every machine, node and sequence of steps that
`RaidAssumption` allows:

* `NothingElseRuns` (`DeletedForGood`), whatever tools fail;
* `MembersAreDisjoint`, that no member belongs to two running arrays;
* `SafeguardedSurvive` (`ListedSurvive`), whatever tools fail;
* `CreationIsComplete`, the part of `CreatedAsRequested` that needs no hypothesis: a
  reported creation leaves each logical disk an array of its own, under its name and
  complete if it was made now;
* `RequestIsMet` (`CreatedAsRequested`), which adds the root volume, under the
  hypothesis `Told`.

`BaseInv` is enough for the first two. `DiskInv` says that each running array is
made of members that carry its volume's superblock and that a volume runs once
(what a boot or a scan assembles, a creation adds and a clearing leaves: the
lemmas `NamedArrays` to `ArrayKeepsDisk`); `TodoInv` that a pass works on what
runs, and `DecidedInv` that whatever it decided not to delete runs, with a listed
array on one of its disks. A last scan that finds nothing left to delete therefore
leaves only those, also when a stop failed or a volume came back.

`SafeInv` adds what the survival of listed volumes rests on: `KeptInv` (a listed
array is kept, and no array that is deleted shares a disk with one), `HolderInv`
(until its members are on the list of those to keep, a listed array is still to be
looked at or off all the disks whose tables will go), `KeepInv` (a pass leaves no
superblock but of what runs, so the next scan starts nothing), `NearInv` (a second
pass works away from listed arrays) and `LabelInv` (an md device comes behind its
first disk in a list that is relabelled in order, and parted stops at that disk).
These are about `Known` arrays, those on no disk in `doubted`: on the others the
code may take a listed array for another one. No tool is assumed to answer; which
disks become doubtful by a failure, and no others, is part of each action (`Doubt`,
`Swept`).

`CreateInv` is what the last two rest on. `GenInv` tells the volumes of this step
from older ones by their generation. `PlanInv` says that the logical disks still to
be made are in the order of the plan and that the others run under their names;
`MadeInv` that the arrays made so far in this step are whole and that the mapping
holds their flags. `CreatedInv` is what the last array leaves of both (`Outcome`).
`MapInv` bounds what earlier steps of the ramdisk can have left in
`_raid_root_device_mapping`: an entry of /dev/md1 has the flag of the second logical
disk, since both were then made, and so has one of /dev/md0 that of the first when
nothing is skipped.
`OutcomePresent` then gives each logical disk its array, and `OutcomeRoot` follows
the mapping to the root volume.

`Told` asks two things of a node. With a skip list, a logical disk without
`is_root_volume` is not made before the flagged root: it would leave in the mapping
the entry of a root volume that an earlier step made under the same device name
(`hardware.py:3391`, section 7).
And where a logical disk has no name, none is called "md0" or "md1", the names
mdadm gives it. All nodes of the run are `Told`.

The assumptions are those of the modules, evaluated by TLC in the runs. Every
safety property of the passing runs is stated by a theorem. Liveness, and what
refinement properties say of fairness, is only model-checked, since the prover
handles neither fairness nor ENABLED.

## 6. What is not modelled

The reasons are in `components` of `PROJECT.json`. In short: parsing of tool
output (lsblk, hdparm, mdadm, LLDP), matching of root device hints, formats and
wording, vendor tools, metrics, logging and configuration are left out for good;
they keep no state and run nothing concurrently, and a model of them would be
the code again. mDNS discovery appears as a lookup that succeeds or fails. File
injection is a sequence of mounts and writes whose clean-up is that of the
bootloader's mounts.

Inside modelled components these are abstract: in `ImageDeployment` the making of
partitions, the creation of a config drive and the check of an image's format are
one step each (`DiskPartitioning` has the first two); in `DiskPartitioning` sizes
are only whether there is room, and qemu-img is left out; in `SoftwareRaid` sizes,
alignment and RAID levels; in `BootloaderInstall` the files of a loader; in
`Inspection` what the collectors parse. `DeviceErasure` on its own takes one task
of the pool as a step that succeeds or fails.

What the models of external tools assume: mdadm does not clear the superblock of
a member in use; parted does not relabel or remove partitions in use; a boot or a
scan assembles every complete volume and may assemble an incomplete one; a tool
that fails has done its work on none, one or all of its targets; a next cleaning
step begins only when the pool of a failed one has run empty.

## 7. Where the code differs from what is said about it

One disagreement has a run. `deployment_stale_cache`: `prepare_image` compares
`cached_image_id` with the requested id and skips the write
(`extensions/standby.py:1035`), but neither streaming nor bootc nor a failed
write resets it. A is written, B streamed, A prepared again: success, and the
disk holds B. The docstring (`standby.py:1004`) promises a "local machine
completely ready to reboot to the image specified by image_info".

The following were met while modelling. The modules do what the code does:

* `extensions/base.py:269`: a KeyError out of a command's validator or body is
  answered as a missing extension (404) and leaves no result, though the comment
  at 280 says errors are recorded.
* `extensions/base.py:283`: a synchronous command that fails with an exception
  that is no RESTError leaves a result that cannot be serialised; every read of
  it, and of the whole list, answers 500.
* `extensions/flow.py:43`: a command that ends as CLEAN_VERSION_MISMATCH does
  not end its flow.
* `agent.py:108`: LookupAgentIPError ends the heartbeat thread, while the API is
  served without heartbeats.
* `agent.py:166`: a heartbeat forced while one is under way is dropped when that
  one returns.
* `agent.py:594`: a masked token with none on file asks for a lockdown; `run()`
  then takes the branch of the rescue marker and never brings interfaces down.
* `extensions/standby.py:234`: "do not retry 4xx" never applies, because a
  response of status 400 or more is false in a boolean context.
* `extensions/standby.py:639`: a connection error ends the loop over URLs,
  though the docstring says each URL is tried.
* `extensions/standby.py:773`: a download that exceeded its maximum duration is
  retried, though the release note calls the exception non-retryable.
* `extensions/standby.py:943`: a streamed image that does not fit is streamed
  again, though the release note says such errors fail fast.
* `extensions/standby.py:1066`: the config drive of a cached partition image is
  ignored.
* `ironic_api_client.py:95`: with two threads the URL that answered may not end
  up first.
* `ironic_api_client.py:254`: an unknown error of a lookup is retried, though
  the comment at 245 says it should not be.
* `inspector.py:178`, `:185`: with a URL listed twice a connection error of the
  first copy ends the attempt; an answer of 500 or 409 ends it too, and the URLs
  behind are not tried; a read timeout is neither retried nor failed over. The
  service may take the same data more than once.
* `inspect.py:82`: the handler of ServiceLookupFailure in the loop is dead: the
  first `inspect()` is outside the `try`, and a URL that was found once replaces
  the configured one, so an endpoint that moved is never looked up again.
* `inspect.py:68`, `:89`, `:39`: the jitter compounds from one sleep to the
  next; the cap is exceeded by the jitter; and the cap is computed from the
  default interval when the module is imported.
* `hardware.py:2476`: after a failed secure erase the drive keeps the password,
  also when shred succeeds, and is locked after the next power cycle.
* `hardware.py:4250`, `:4252`, `:4262`: the guard for special filesystems reads
  `wipe_special_filesystems` the wrong way round, does not ask lsblk for
  filesystem types (so gfs2 is never found), and looks at the device's own line
  only, on which a whole disk has no partition type. `erase_devices` asks for disks
  only, so it identifies nothing and erases a disk with a VMFS partition, though
  `doc/source/admin/hardware_managers.rst:195` says that it aborts "prior to
  destroying the contents on the disk". `Identified` and `Guarded` model the guard
  as it is, and `VmfsIsKept` states what is left of the promise: partitions, in the
  steps that walk over them. If it is asked of `erase_devices` too, TLC finds it
  violated.
* `hardware.py:1096`: a protected disk ends `erase_devices` while tasks
  submitted before it go on.
* `hardware.py:4126`: managers that share a name share one entry of the
  versions. `RunAsPlanned` is checked for distinct names.
* `hardware.py:4105`: a wait for disks that failed is not repeated, since the
  node was stored before. `AwaitedUnlessBroken` excepts it.

Software RAID (`hardware.py`, `raid_utils.py`):

* `raid_utils.py:303`: when `mdadm --detail` fails the volume has no name, and a
  safeguarded array is deleted (`doc/source/admin/hardware_managers.rst:176` says
  it is kept). `hardware.py:334`: when `mdadm --examine` fails, which is only
  a warning, a member of a safeguarded array is not among those to keep, and the
  table of its disk is wiped. The run has both fail. `ListedSurvive` excepts the
  disks concerned, and no other ones; without that exception TLC finds it violated
  with `Faults = {{"detail"}}` and with `{{"examine"}}`.
* With a skip list and another logical disk to create, the disks of a kept array
  are relabelled; parted refuses while it runs.
* An array that stands degraded after a failed creation is taken to be present
  when the creation is tried again; an array that is not assembled is not
  protected by the skip list; when the partitions cannot be listed, there are
  taken to be none.
* `_raid_root_device_mapping` lives in the process: after a reboot the flag that
  marked the root volume is forgotten. Without hints a disk under a kept array may
  be picked.
* `hardware.py:3391`: nothing is ever removed from that mapping, and a logical disk
  without `is_root_volume` does not replace the entry of its predecessor. When a
  step makes the root volume /dev/md0 because the other one is kept, and a later
  one, after a deletion for which `--detail` failed, makes both, the root volume
  /dev/md1, then the deployment is given /dev/md0. TLC finds `CreatedAsRequested`
  violated with four disks, `Faults = {{"detail"}}`, three steps, a boot and the
  logical disks data (no flag, disks 1 and 2, in the skip list) and root (flagged,
  disks 3 and 4). `RequestIsMet` therefore leaves such nodes out (`Told`).

Partitioning (`partition_utils.py`, `disk_utils.py`):

* `partition_utils.py:666`: on an md device whose new partition the kernel has not
  seen, `get_partition` returns the first one, and the config drive overwrites it.
  `OthersAreKept` excepts this case by name.
* With `config_drive_rebuild`, an old config drive that cannot be mounted is
  reported as rebuilt although nothing was written. `DriveIsWritten` excepts it.
* After a call that made the partition and failed, the end of the disk is taken,
  and later calls fail. `get_configdrive` leaves its temporary file behind for an
  error of decompression other than EnvironmentError.
* BIOS on msdos with PReP, ephemeral, swap and a config drive asks for five
  primary partitions: parted fails after the old table is gone.
* Preserving an ephemeral partition under another boot mode formats what was it
  (the docstring of `work_on_disk` asks callers not to change partitions).
* `disk_utils.py:557`: `gpt_sectors` is unbound for sectors of other sizes than 512
  and 4096 bytes.

Bootloader (`extensions/image.py`, `efi_utils.py`):

* `extensions/image.py:117`: bind mounts that were never made count as failed
  umounts, so a chroot that was half prepared leaves the root mounted.
  `MountsAreReleased` excepts it by name ("unbound"); likewise `:356`, where an
  ESP that cannot be unmounted leaves everything below mounted.
* `extensions/image.py:143`: the test for an ESP that is mounted already raises a
  TypeError.
* `extensions/image.py:276`: failures of grub-install for EFI are ignored, though
  the docstring promises a CommandExecutionError.
* `efi_utils.py:204`: inside an `except` block `sys.exc_info()[0] is None` is never
  true, so an umount that fails is only logged.
* `efi_utils.py:170`: on software RAID the ESP that was wiped is mounted again.
* `extensions/image.py:719`: `install_bootloader` succeeds for a whole-disk image for
  which no boot record was written: in UEFI mode without efibootmgr, or without a
  loader on the ESP, nothing is left to boot from. The docstring (`:692`) has a
  CommandExecutionError for that. With `ignore_bootloader_failure` any failure is a
  success. `SuccessBoots` names these cases, and says that there are no others.

## 8. Plan

Done: items 1 to 12.

1. `CommandExecution`, `Heartbeater`: the concurrency everything rests on.
2. `AgentLifecycle`, `ApiClient`: restarts, races and retries.
3. `ImageFetch`, `ImageDownload`, `ImageDeployment`: the main purpose, with an
   abstract specification and its implementation.
4. `StepExecution`, `DeviceErasure`, `BlockDeviceErase`: cleaning.
5. `SoftwareRaid`, with skip lists, failing tools and boots.
6. `DiskPartitioning` and `BootloaderInstall`: mounts and half-done work.
7. `Inspection` in the loop of `InspectionDaemon`; `BlockDeviceErase` as a task of
   `DeviceErasure` (`DiskCleaning`).
8. Proofs of `CommandExecution` and `Heartbeater`.
9. Proofs of `AgentLifecycle`, `ImageDownload`, `ImageDeployment`, `Inspection`,
   and of one property each of `DiskCleaning` and `StepExecution`.
10. Proofs of every other safety property of the passing runs but those of
    `SoftwareRaid`: the rest of `CommandExecution`, `Inspection`, `DiskCleaning` and
    `StepExecution`, all of `ApiClient`, `DiskPartitioning` and `BootloaderInstall`.
11. Proofs of `ListedSurvive` and `DeletedForGood` of `SoftwareRaid`.
12. A proof of `CreatedAsRequested` of `SoftwareRaid`, for the nodes that say where
    the root volume is.
13. Left: the waits before the lookup in `AgentLifecycle`; an abstract
    specification of a RAID step (skipped volumes survive, a success is complete)
    that `SoftwareRaid` implements.

## 9. Running

    tlc -config CommandExecution.cfg MCCommandExecution.tla
    tlc -config Inspection.cfg MCInspection.tla
    tlapm InspectionProofs.tla

Each run of section 3 takes at most three minutes with two workers; each proof
module a few minutes.
