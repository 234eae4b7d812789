# A TLA+ verification of knaller

knaller runs Firecracker microVMs from a library (`vm.go`) and a command line
(`knaller start | ls | stop | pause | resume | rm | snapshot`). It has **no
daemon**: every command is a process of its own, and processes that work on the
same VM meet only on the host, where they share

* `~/.local/share/knaller/sockets/<name>.socket`, the API socket of VM `<name>`,
* `~/.local/share/knaller/vms/<name>/`, its root disk and `ports.json`,
* the TCP ports of the host, one of which (SSH) is derived from the name,
* the Firecracker processes themselves.

Nothing is locked. What keeps VMs of the same name, or a VM and a concurrent
`rm`, apart is the order in which each process performs its system calls, and
that order is what these modules are about.

## 1. Inventory

| Component | State | Operations | Hard behaviour | What makes it correct |
|---|---|---|---|---|
| **VM lifecycle**: `Run`, its `cleanup`, the returned handle (`vm.go:66-388, 443-462, 608-619`) | the child process, the client's connection, socket path, data directory | `Run` (fresh and from a snapshot), `Wait`, `Stop`, `Kill`, `Cleanup` | some dozen failing steps after the spawn; two starts of one name; death of the starter | one VM per name; no process forgotten; a failed `Run` harms nobody; `Run` ends |
| **By-name commands** (`vm.go:464-519`) | none, they probe | `StopVM`, `PauseVM`, `ResumeVM`, `RemoveVM` | probe, then act: the answer is stale when used; a 2-second timeout counts as "stopped" | a VM that is up keeps its socket and its disk |
| **`knaller start`** (`internal/cli/start.go`) | a handle, a signal goroutine | attached and detached start | signal racing exit; socket removed after `Wait` | the wait ends; only its own socket goes |
| **`List` / `knaller ls`** (`vm.go:521-606`) | none | two directory scans with API calls in between | VMs move while it reads | what it reports was true; what it omits was absent |
| **Disk and remembered ports** (`disk.go`) | `rootfs.ext4`, `ports.json` | `prepareDisk`, `prepareDiskFromSnapshot`, `saveVMPorts`, `loadVMPorts`, `removeDisk` | partial copies; files of an earlier life | the copy under a running VM is its own |
| **API client** (`firecracker/client.go`) | a kept-alive connection | one method per request | the connection outlives the socket path | requests reach the process they are meant for |
| **Snapshots** (`snapshot.go`) | snapshot directories | create, raw create, list, delete | deferred recovery steps that fail; two creates of one VM | the VM runs on its own disk afterwards |
| **Network derivation** (`network.go`, parts of `vm_direct.go`) | none | addresses, subnets, SSH port from the name; merge of port lists | truncation to bytes, folding into a range | distinct VMs, distinct veth networks |
| **Direct mode** (`vm_direct.go`) | namespaces, veth pairs, the shared table `knaller_host` | `RunDirect`, `TeardownBoxNetns` | shared chains flushed and refilled concurrently; rules that are only ever appended; set-ups cut short | each VM reachable at its own ports; no leftover stops a set-up |
| **Adoption** (`vm.go:352-424`, `EscapeContainerCgroup` in `vm_direct.go`) | a PID, written down by a supervisor | `AdoptVM`, and `Wait` and `Kill` by number | PID reuse, restarts, zombies | what is adopted is the VM; `Wait` and `Kill` concern no other process |
| Configuration, DNS, CLI dispatch, guest image | none | pure functions, formatting, build files | none | not modelled |

How they interact: `start` calls `Run`, which calls the disk functions, spawns
pasta with Firecracker inside it, and drives Firecracker through the API client.
By-name commands, `List` and snapshots find the VM by its socket path, never by
a handle. `RemoveVM` and `List` take "does not answer" for "is not running".

`PROJECT.json` lists the hazards line by line, with the properties that cover
them.

## 2. Modules

| Module | Models | Kind |
|---|---|---|
| `Firecracker` | which request one Firecracker process accepts in which state, and what it changes | pure operators on a record; Firecracker itself is not in the repository |
| `Lifecycle` | `Run`, its cleanup, the handle, `knaller start`, `RemoveVM`, `StopVM`, `PauseVM`, `ResumeVM`, by any number of processes | state machine, with its safety and liveness properties and its invariants `IInv`, `XInv` |
| `VMRegistry` | what a user may see of a name: absent, stopped, unbooted, running, paused | abstract specification, refined by `Lifecycle` |
| `Discovery` | `List` interleaved with all of `Lifecycle` | composition |
| `Snapshots` | `CreateSnapshot`, `CreateSnapshotRaw`, `DeleteSnapshot` and restoring, by any number of processes | state machine over VMs identified by their names |
| `NetDerive` | addresses, /30 subnets, SSH ports, merged port lists | pure functions of the hash bits |
| `DirectNet` | set-up and tear-down of direct mode on the shared host table | state machine on top of `NetDerive` |
| `DirectDiscipline` | `DirectNet` with callers that refill one at a time, or keep host ports reserved | two restrictions of `DirectNet` |
| `Adoption` | a supervisor that restarts, `AdoptVM`, `Wait`, `Kill`, on a host that reuses PIDs | state machine |
| `LifecycleProofs`, `LifecycleExclusiveProofs`, `DiscoveryProofs`, `SnapshotsProofs`, `NetDeriveProofs`, `DirectNetProofs`, `DirectDisciplineProofs`, `AdoptionProofs` | theorems for all constants | TLAPS proofs (section 4) |
| `MCLifecycle`, `MCDiscovery`, `MCSnapshots`, `MCDirectNet` | instances for TLC | model values, symmetry |

`mutant:` comments mark definitions that are the code with one plausible bug in
it. No specification uses them; with one of them in place of the definition
below it, TLC finds the property that `PROJECT.json` pairs with it violated.

### `Lifecycle`: state

* `vmm[i]`: one Firecracker process (with its pasta), from `cmd.Start` to its
  exit. `state` is what `GetInfo` answers, preceded by `"spawned"` until the
  socket is bound. `disk` tells what file is behind the root drive *now*: the
  VM's own copy (`"intact"`), the same after somebody wrote over or unlinked it,
  or the snapshot's file. Two fields are history. `owner` says who answers for the
  process: the `Run` that started it, its user once that `Run` has returned, or
  nobody once that `Run` died. `given` says whether *some* `Run` has returned it as
  its VM: `Run` does not look at its own process again before it returns
  (`vm.go:329-342`), so what its user takes for the VM is whatever its client is
  connected to, which without exclusive use may be another `Run`'s process.
* `sock[n]`: absent, `Stale` (a file nobody listens on), or the process bound to
  it.
* `dir[n]`: whether the data directory, and in it `rootfs.ext4`, exist, and what
  `ports.json` holds.
* `call[p]`: where knaller process `p` is. `own` is `vm.cmd` (reset when the
  process has been reaped or may be), `conn` the client's kept-alive connection:
  as in Go's transport, the first request dials the path and later ones reuse
  that connection, so a request may reach a process that is no longer at the
  path, and the first may reach one that somebody else has started.

pasta and the Firecracker inside it are one process in the models: the code
signals and waits for pasta and counts on Firecracker to go with it.

### `Lifecycle`: actions

Every action is one system call or one API request with the branch taken on its
result. `RunBegin` removes the socket (`vm.go:94`); `RunDisk`/`RunDiskFails` copy
the disk, the latter without `cleanup`; `RunSpawn` starts pasta; `RunAwait` and
`RunAwaitTimeout` are the two ends of `waitForSocket`; `RunConfigure` and
`RunStart`, or `RunLoad`, `RunPatch`, `RunResume`, are the API requests of a fresh
and of a restored VM; `RunRefused` is any failing request (one that takes effect and
whose answer is lost is taken for a refused one: the cleanup that follows kills the
process); `RunKill`, `RunUnsock`,
`RunUndisk` are the three steps of `cleanup`; `RunSave` is `saveVMPorts` and the
return. `StartFinish` is what `knaller start` does after `Wait`; `CleanupSocket`
and `CleanupDisk` are what `vm.Cleanup` does. `RmProbe` to `RmDisk` are the steps
of `RemoveVM`. `VmmListen`, `VmmExit`, `GuestShutdown` and `Crash` happen by
themselves: pasta takes the host ports and Firecracker binds its socket (or the
process exits: port in use, a file at the path), a process exits, the guest
obeys Ctrl+Alt+Del, and a knaller process dies between two steps.

Two constants describe how knaller is *used*, since several properties hold
only under them:

* `Exclusive`: nobody starts a name that is being started, is being removed or
  is up, and nobody removes a name while a start of it is in progress. Without
  a lock knaller cannot enforce this; with it the by-name properties hold.
* `SlowAPI`: a live process may fail to answer `RemoveVM` or `List` within their
  two seconds.

### `Discovery`

`ls` is the `List` in progress: the sockets it has still to ask, and what it has
seen. `ListSockets` is the first directory scan, `ListProbe` one `GetInfo`,
`ListDirs` the second scan and the return. `was` (history) collects what there
has been to see of each name since the first scan: its status, and whether a process of
that name had lost the `Run` that started it (`Orphaned`).

### `Snapshots`

It stands on `Lifecycle` rather than beside it: under exclusive use a socket path
leads to the VM of its name (`Reachable`, proved), so a VM is its name here.
`vm[n]` has the state, the disk behind the drive, the TAP its device state refers
to, and what a snapshot or restore of it has failed to give back (`hurt`: its
drive, its run, or both); `snap[s]` has the files of
`snapshots/<id>/` and what is inside them; `job[p]` is the step a process is at.
The actions follow `CreateSnapshot` line by line: copy, pause, patch, dump,
metadata and the deferred unpatch and resume; raw snapshots skip copy and patch
and call the `whilePaused` hook after the dump. `SnapFails` is each error return,
which removes the directory and then runs the deferred steps; the failing request
may have taken effect (`AnswerLost`: the client's context was cancelled,
`client.go:83-86`), and when that is `PauseVM` the function returns before its defer
statement. `DeleteFile` removes
one file, in any order, as `RemoveAll` may. `RestoreBegin` to `RestoreResume` are
the steps of `Run` and `RunDirect` that concern the snapshot; `Boot` is a whole
fresh `Run`. `Alone` says that users do one thing at a time to a VM.

### `DirectNet`

`box[n]` is a name's namespace, its veth pair (made, guest end moved in, up) and
the nat rules inside; `chain[c]` is one of the two shared filter chains, as the
kinds of rules in it and those that ended up behind a reject; `dnat[h]` is the
target of the *first* rule for host port `h`, which is the one that matches, since
rules are appended and never removed; `vm[n]` is the Firecracker; `job[p]` is the
step a caller is at. `last` (history) is who flushed each chain last.

Each action is one `ip` or `nft` command, in the order of `setupBoxNetns`
(`vm_direct.go:387-560`): `DelNetns`, `DelVeth`, `AddNetns`, `AddVeth`, `Wire` (the
commands inside the caller's own namespace as one step, since nobody else looks
there; `WireFails` leaves any prefix of them), `FlushForward`, `FlushInput`,
`AddRule` one by one, `MapSSH`, `MapPort`; then `Spawn`, `Boot` and their failures,
and `TdNetns`, `TdVeth`. `SetupFails` is any other failing command, after which
`RunDirect` returns without tearing down (`vm_direct.go:115`); `Crash` is the death
of the caller. The API requests in `Boot` are those of `Lifecycle`. A name is used
by one caller at a time; what callers race on is the shared table.

### `DirectDiscipline`

Section 5 has two promises of direct mode that the code does not keep by itself.
Each holds if the program that calls `RunDirect` keeps to a discipline, which is
stated here as a restriction of `DirectNet`'s steps: `AloneSpec`, where one caller at
a time, of all processes, is between its flush and its last filter rule; and
`ReservedSpec`, where a host port is asked for by one name only, always for the same
guest port.

### `NetDerive`

The bits taken from the SHA-256 of a name stand for the name; shifts and masks
are written as arithmetic, and conversions to `byte` wrap at 256. A port list is a
sequence of host and guest ports, in any order and with repetitions;
`MergeUniquePorts` is the set of entries that the code's two loops keep, the first of
each host port. `MCDirectNet` has the loops as they are written and an assumption,
`MergeIsTheLoop`, that TLC evaluates: on all lists of up to two entries they give
those entries, each once.

### `Adoption`

`proc[i]` is the process with PID `i`: a VM or something else, moved out of the
container's control group or not, the supervisor's child or reparented, alive or a
zombie. `record[n]` is the PID the supervisor has written down (as the README of the
repository describes), `handle[n]` the `*VM` it holds. `same` and `pin` (history)
say whether the process that had the PID when the handle was made, or that `Wait`
has opened, has not been reaped. `Spawn` to `RunReturns` are `RunDirect` as far as the
process goes; `AdoptSignal` and `AdoptProbe` are the two checks of `AdoptVM`, with
`AdoptFails` for either; `WaitBegins`, `WaitChild`, `WaitAdopted` and `Kill` are both
kinds of `Wait` and `Kill`. `Restart` kills what is left in the control group and loses
all handles. The constant `Careful` says that the supervisor forgets the PID of a
name before it starts the VM anew; knaller leaves this to the supervisor.
`EscapeAndListen` is one step: the escape and the bind take milliseconds, and the
container takes longer to come back.

## 3. What TLC checks

| Run | Instance | Shows |
|---|---|---|
| `races` | `MCLifecycle`: 1 name, 2 callers, 2 processes, fresh boots, all commands, slow APIs, **not** exclusive, `FairSpec` (226 k states) | at most one Firecracker per name gets past its setup, however many starts race (`OnePerName`); no failure path of `Run` forgets a process (`NoOrphan`); a failed `Run` never kills a VM that another `Run` has started and returned itself (`FailedRunSparesOthers`); every `Run` ends (`RunTerminates`); a stop ends the wait unless the guest is paused (`StopEndsWait`); the inductive invariant `IInv` |
| `exclusive` | `MCLifecycle`: 2 names that may ask for one user port, 2 callers, 2 processes, fresh and restored, crashes, exclusive, timely answers (192 k states) | a VM that some `Run` has returned answers at its own path (`Reachable`), on its own disk (`DiskIntact`), with its ports, if it has any, remembered (`PortsKept`); no failing `Run` kills it (`FailedRunSparesReturned`); its socket is not taken away while it lives (`LiveSocketKept`) and `rm` spares it (`RmSparesRunning`); a failed `Run` leaves nothing (`FailureIsClean`); all steps together implement `VMRegistry` (`ImplementsRegistry`) |
| `listing` | `MCDiscovery`: `List` beside 2 callers, exclusive, crashes (63 k states) | what `List` reports was true at some moment of the call (`ReportedWasTrue`); a VM whose guest is up all the while is not omitted (`UpIsListed`); what is omitted was absent at some moment, or its process had lost its starter (`ListComplete`) |
| `snapshots` | `MCSnapshots`: 2 names, 1 snapshot id at a time, 2 callers, crashes, failing requests, lost answers, one thing at a time per VM (221 k states) | a listed snapshot is complete and refers to its own rootfs (`SelfContained`); disk and memory of a raw one are of one moment (`RawMatched`); no guest runs on another disk than its own (`OnOwnDisk`); whichever step between pause and resume fails, the VM is resumed (`NoneLeftPaused`); the exemptions of both are below |
| `direct` | `MCDirectNet`: 2 names whose veth indices differ only above bit 5, 2 callers, no or one user port, failures and crashes at every command (3.75 M states) | the SSH port of a VM that is up leads into its own namespace (`SshReaches`); overlapping refills lose no rule (`FilterComplete`); no leftover stops a set-up (`NothingLeft`); port lists are merged as by the code's loops (`MergeIsTheLoop`, an assumption) |
| `adoption` | `Adoption`: 2 names, 3 PIDs, restarts at any moment, a supervisor that is `Careful`, `FairSpec` (484 k states) | what `AdoptVM` returns is the VM (`AdoptedIsTheVM`); `Wait` returns when (`WaitEnds`) and only when (`WaitMeansGone`) the process is gone; `Kill` on a VM that `RunDirect` returned ends that VM or nothing (`ChildKillHitsItsVM`) |

The six runs that end in a counterexample are in section 5.

**Bounds.** Nothing in the models counts, so the only bounds are the sizes of the
sets. Two callers give every pairwise race of the code: all its check-then-act
sequences have one checker and one interferer. Process identities are reused
after exit, so two suffice for the process that is up and the one being started;
`adoption` has a third PID for a process that has nothing to do with knaller.
`OnePerName`, `NoOrphan` and `FailedRunSparesOthers` are about one name at a time, and
names interact only through ports and processes; `exclusive` has two names that
can collide on a user port. `races` leaves deaths and restores out to stay small
with liveness; the safety properties it checks are proved with both. `List`
treats each name on its own, so one is enough there. In `snapshots` one id is
taken, listed, restored into the other VM, deleted meanwhile and taken again; the
runs that look for counterexamples have two. The two indices of `direct` are 5 and
69, which agree in the byte that `network.go` would cut off.

**What the properties leave out.**

* The by-name properties of `exclusive` and `listing` assume exclusive use of names
  and timely answers. A start beside an old one that still waits, a start between
  `RemoveVM`'s probe and its removals, and a VM that `RemoveVM` takes for a stopped
  one are outside them. Only `races` has these.
* `OnOwnDisk` exempts a VM whose drive was never patched back, because the deferred
  `PatchDrive` failed or its caller died. `NoneLeftPaused` exempts three ways to be left
  paused: `ResumeVM` itself fails, the caller dies, or `PauseVM` took effect and its
  answer was lost. The run `resume_dropped` is about the first.
* `SelfContained` is about snapshots that nobody has begun to delete (`doomed`): a
  half-deleted one may still be listed.
* `FilterComplete` exempts a chain whose last refill was given up half way. The code
  has no recovery for this, nor for the exemptions above.
* `NothingLeft` assumes that `ip netns del` and `ip link del`, whose errors
  `setupBoxNetns` drops, succeed when there is something to delete.
* `AdoptedIsTheVM` assumes a supervisor that forgets the PID of a name before it starts
  the name anew (`Careful`): with it, a recorded PID and a socket never belong to
  different processes.
* A starter that dies before `Run` returns leaves a Firecracker that nobody answers
  for; if its guest is not booted, `rm` takes its directory while it lives on, and
  `List` may omit it. `ListComplete` therefore exempts names with such a process, and
  `UpIsListed` those whose process was `"unbooted"`; `Reachable` and `DiskIntact` speak
  of VMs that some `Run` has returned.

**Symmetry** permutes callers and processes, and names together with their SSH
ports (a name stands for its own port); in `direct` callers only. The runs with
liveness use none.

**Fairness.** In `Lifecycle` a knaller process that has begun an operation and can
take its next step eventually does (each step is a system call or an API request,
and requests are taken to be answered or to fail: the client has no timeout on
most of them, so a Firecracker that accepts a connection and never answers is
outside this assumption). A running guest that keeps having a Ctrl+Alt+Del pending
acts on it (`client.go:152-154`). Users are under no obligation, and a process is
never forced to exit by itself; `await` ends because of its own deadline. In
`Adoption` the goroutine that waits gets to run, and init reaps what it inherits.

**Deadlock** is checked in every run.

## 4. What TLAPS proves

The theorems hold for **every** set of names, callers, processes, ports,
snapshots and PIDs. The constants' assumptions are named `ASSUME`s in the modules
that declare them; TLC evaluates them in the runs.

**`LifecycleProofs`**, whatever the flags: `TypeCorrect`, `Invariance` (`IInv`),
`StartsOnePerName`, `RunForgetsNoProcess`, `CleanupSparesOthers`. `OnePerName` is not
inductive: one needs that every live process forwards the SSH port of its name
(`Named`), and then `VmmListen`'s competition for ports gives uniqueness. `NoOrphan`
is not either: the caller that holds a process must lose it only through a step
that kills it or hands it over. `Holds` says that the process a caller holds is
alive and that its owner agrees with where the caller is, `HoldsAlone` that no two
callers hold the same one, `Engaged` that a busy caller has a name. `IInv` is their
conjunction. `CleanupSparesOthers` is what holds of a failing `Run` without exclusive
use: it spares what another `Run` has started *and* returned.

**`LifecycleExclusiveProofs`**, for `Exclusive` and `~SlowAPI`, with crashes or
without: `ExclusiveInvariance` (`IInv /\ XInv`), and from it `ReturnsItsOwn` (what a `Run`
returns is what it has started, `ReturnedIsOwned`), with which `CleanupSparesOthers`
becomes `CleanupSparesReturned` (`FailedRunSparesReturned`), `HandedOverIsReachable`,
`HandedOverKeepsDisk`, `HandedOverKeepsPorts`, `HandedOverKeepsSocket`,
`RemoveSparesRunning`, `FailedRunLeavesNothing` and `LifecycleImplementsRegistry`.
`XInv` says that a name has one tenant at most and no `rm` beside a start
(`Tenancy`), that only the tenant's own process of that name lives (`OwnsAll`,
`OwnMatches`), that socket paths lead to processes of their name and booted ones
are at the end of one (`Bound`), that `rm` at work has a name that is not booted
(`RemovedAreDown`), how far a start has got (`Underway`) and what it hands over
(`HandedOver`). Most steps change little: `KeptStep` and `CalmStep` state once what
they leave alone, and the steps that remain (spawn, save, bind, exit, removal) have
a lemma each. For the refinement, `NextEffect` sorts all steps into six effects
on paths, processes and directories; `EffectPermitted` shows that each effect
shows as a stutter or as one move that `VMRegistry` permits.

**`DiscoveryProofs`**, for `Exclusive` and `~SlowAPI`, with crashes or without:
`ListInvariance`, `ListTypeCorrect`, `ListReportsTruth`, `ListShowsWhatIsUp`,
`ListMissesNothing`. While `List` probes, what there is to see and what was seen are
recorded in `was`; a name that did not answer was stopped at some moment or still has
no directory (`SeenBy`). That rests on directories appearing only for names without a
process (`DirAppears`). What a missing directory tells rests on two more invariants:
every process with a booted guest has the directory of its name (`Housed`), and so has
every process that somebody answers for (`Sheltered`), since directories go only from
names without such a process (`DirEffect`).

**`SnapshotsProofs`**: `SnapTypeCorrect` and `PausedAreResumed` (`NoneLeftPaused`)
without assumptions on the callers, with the exemptions of section 3;
`SnapshotsAreWhole`, `RawDisksMatch` and `GuestsKeepTheirDisk` for `Alone`. `SnapInv` says which VM and id each call works on (`JobInv`), that nobody
else works on its VM, which does not run while frozen (`HeldInv`), who has put a
VM on another disk (`DriveInv`), what an unfinished snapshot has so far (`TakenInv`)
and that deletion announces itself (`DeleteInv`).

**`NetDeriveProofs`**: the veth addresses of two indices differ and are in
different /30s (`VethAddressesDiffer`, `VethSubnetsDiffer`); the guest's link is one
/30 (`GuestLinkIsOneSubnet`), but indices that agree outside two bits share it
(`GuestSubnetsRepeat`); SSH ports are in range (`SSHPortRange`) and shared by
exactly the 15536 pairs of values that are 50000 apart (`SSHPortsShared`); and for all port lists, repetitions included,
the merged list maps no host port twice, loses none, and gives each the guest port of
its first entry, in the recorded list if it is there (`MergeKeepsRecorded`). That rests
on the least position of a host port in a list (`LeastIndex`).

**`DirectNetProofs`**: `DirectTypeCorrect`, `SetupFindsNothing`, `SshLeadsHome`,
`RefillsLoseNothing`, for names with distinct indices and SSH ports that no user asks
for (`IdxAssumption`, `HashAssumption`, `UserPortsAssumption`: the code checks none of
these). `DirectInv` says that only its own job touches a name's box and only while
it has no VM (`JobInv`, `VmInv`), what the box is like at each step (`BoxInv`), and that
the first rule of an SSH port is the right one or none (`DnatInv`).

**`DirectDisciplineProofs`**: `RefillsAloneKeepOrder` for `AloneSpec` and
`ReservedPortsLeadHome` for `ReservedSpec`. `OrderInv` says that the reject of a chain is not
in it before its turn: only the one who refills adds rules, and has flushed before.
`PortInv` says that a user's port has its own target or none, that a job past `MapSSH`
has mapped all it need not map any more, and that the ports of a VM are mapped: the
first rule stays, so with reserved ports it stays right. These two specifications have
no run in section 3: they are `DirectNet`'s with fewer steps.

**`AdoptionProofs`**: `AdoptionTypeCorrect`, `WaitReturnsLate` and `KillSparesOthers`
for every supervisor, `AdoptionIsSound` for a `Careful` one. `WaitInv` says that the
number of an unreaped process is taken and open in its `Wait` (`Tracked`) and that
nobody but its `Wait` reaps a child (`ChildTracked`); `AdoptInv` adds that a live
socket is bound by its name's VM (`SockBound`), which is the one written down
(`RecordFresh`).

Only model-checked: liveness (`RunTerminates`, `StopEndsWait`, `WaitEnds`), which is out
of the prover's reach.

## 5. Where the code and its words disagree

Each is a run that TLC answers with a counterexample.

| Run | The code's words | What happens |
|---|---|---|
| `snapshot_race` | `snapshot.go:51`: the snapshot is self-contained | two snapshots of one VM at once: both patch the drive before either dumps, and the state of one refers to the other's directory |
| `resume_dropped` | `snapshot.go:94`: always resume and restore the drive, even on error | `ResumeVM`'s error is assigned to a variable that `return` has already read, and `PatchDrive`'s is dropped: success is reported for a VM left paused (a cancelled context is enough) |
| `restored_tap` | `vm.go:109`: the TAP must match the one in the snapshot | the snapshot of a restored VM has the TAP of the first VM in its state and the second VM's name in its metadata; the next restore derives the wrong TAP |
| `chain_order` | `vm_direct.go:475`: flushed and refilled so that ordering stays correct | two set-ups flush and refill at once: both succeed, and an accepting rule stands behind a rejecting one |
| `stale_dnat` | `vm_direct.go:554`: old rules are harmless and will be replaced | a VM is started again with its host port mapped to another guest port, and the host port is dead: nothing replaces the first rule, which leads to a guest port that the rebuilt namespace (`vm_direct.go:458-463`) does not forward |
| `adopt_kill` | `vm.go:371`: `Kill` kills the firecracker process | through an adopted handle it kills whichever process has the number, also after `Wait` has returned |

`chain_order` and `stale_dnat` need callers that overlap, or that change what a port is
for: `DirectDisciplineProofs` proves that the promises hold otherwise (`AloneSpec`,
`ReservedSpec`).

Six smaller ones show in the models without a run of their own: a failing
`prepareDisk` returns without `cleanup` although `vm.go:64` promises it
(`RunDiskFails`, exempted from `FailureIsClean`); a VM that takes longer than two
seconds to answer counts as stopped for `RemoveVM` (`SlowAPI`); `saveVMPorts` leaves the
list of an earlier life when the new one is empty (`DirAfterSave`; `PortsKept` is about
lists that are not); a `resume` by name between load and patch lets a restored
guest run on the snapshot's disk (`DiskIntact` speaks of VMs that `Run` has returned);
when two starts of a name race, the one whose own process died on the SSH port may
configure, start and return the other's Firecracker, which the other's cleanup then
kills (`vm.go:329-342`; `FailedRunSparesReturned` is false in the configuration of
`races` for this reason, and true under exclusive use); and a `PauseVM` that takes
effect while its answer is lost returns from `CreateSnapshot` and `CreateSnapshotRaw`
before their defer statement (`snapshot.go:89-92, 209-212`), which leaves the VM paused
although `snapshot.go:94` says "always resume" (`AnswerLost`).
The SSH port is called unique (`network.go:108`, `vm.go:111`), which
`SSHPortsShared` refutes, and `GuestSubnetsRepeat` shows that far fewer guest subnets
exist than indices; the state machines take distinct SSH ports as an assumption
and do not need distinct guest subnets.

## 6. Not modelled, and why

* `WaitForSSH`: polls a TCP port and changes no state. CPU quota, rate limits,
  boot arguments and output pipes are data that no property distinguishes.
* PIDs, CPUs and memory in `List`: formatting of `/proc`.
* Configuration defaults and validation, DNS upstream parsing, CLI dispatch and
  formatting, the guest image: sequential functions or build files.
* A Firecracker that accepts a request and never answers.
* Recorded ports, CPUs and memory of a snapshot: data. Saving the ports is in
  `Lifecycle`, merging them in `NetDerive`.
* In direct mode: masquerade rules and sysctls (they repeat themselves
  harmlessly), the data directory beside a raw disk, a start of a name whose VM is
  up (it would tear down that VM's namespace; no document promises otherwise), and
  names whose indices or SSH ports collide.
* In `Adoption`: a restart between the escape from the control group and the bind.
* The hash itself, and device and MAC names formatted from it.

## 7. What is left

The components of section 1 whose state can go wrong are modelled, and every safety property of the
passing runs is proved. What would add most: raw disks and their missing data
directory in `DirectNet`; and a restart of a direct-mode VM composed with `Adoption`.
