----------------------------- MODULE Snapshots -----------------------------
(***************************************************************************)
(* Snapshots (snapshot.go): CreateSnapshot, CreateSnapshotRaw and          *)
(* DeleteSnapshot, and Run or RunDirect restoring one, by several knaller  *)
(* processes, while VMs run, exit and are paused and resumed by name.      *)
(*                                                                         *)
(* Names are used exclusively here (Lifecycle's Exclusive), so that, as    *)
(* Lifecycle's Reachable says, the socket path of a name leads to its VM:  *)
(* a VM is identified by its name.  A request fails when its VM is gone,   *)
(* and may fail for reasons of Firecracker's or because the caller's       *)
(* context was cancelled.                                                  *)
(***************************************************************************)
EXTENDS Firecracker

CONSTANTS
    Names,      \* the VM names
    Snaps,      \* snapshot ids; one stands for a new random id when reused
    Callers,    \* knaller processes
    Taps,       \* names of TAP devices
    Tap,        \* the TAP device derived from a VM name (tapDevName)
    Alone,      \* users do one thing at a time to a VM
    AllowCrash, \* a knaller process may die between two steps
    NoName, NoSnap, NoTap, NoDrive

ASSUME TapAssumption == Tap \in [Names -> Taps]
ASSUME SnapFlagsAssumption == Alone \in BOOLEAN /\ AllowCrash \in BOOLEAN
ASSUME SnapBlanksAssumption ==
    /\ Names \cap Snaps = {} /\ NoDrive \notin Names \cup Snaps
    /\ NoName \notin Names /\ NoSnap \notin Snaps /\ NoTap \notin Taps

VARIABLES
    vm,     \* the VM of each name
    snap,   \* ~/.local/share/knaller/snapshots/<id>/
    job     \* what each knaller process is doing

vars == <<vm, snap, job>>

-----------------------------------------------------------------------------
(* A disk is named after the VM it was prepared for (its rootfs copy or    *)
(* raw device) or after the snapshot it was copied into.  (history) by:    *)
(* who paused the VM; hurt: what a snapshot or restore of it did not get   *)
(* to give back, its "drive" or its run (the VM is left in "pause").       *)
Disks == Names \cup Snaps

VM == [state: {"gone", "paused", "running"}, drive: Disks \cup {NoDrive},
       tap: Taps \cup {NoTap}, by: {"nobody", "user", "job"},
       hurt: SUBSET {"drive", "pause"}]

Gone == [state |-> "gone", drive |-> NoDrive, tap |-> NoTap,
         by |-> "nobody", hurt |-> {}]

(* "disk" is rootfs.ext4, or what the whilePaused hook of a raw snapshot   *)
(* saves.  path and tap are inside the state file, vm is in metadata.json. *)
(* (history) matched: the disk is that of the moment of the memory dump;   *)
(* doomed: a DeleteSnapshot has begun.                                     *)
Files == {"disk", "state", "memory", "metadata"}

Snap == [dir: BOOLEAN, files: SUBSET Files, raw: BOOLEAN,
         path: Disks \cup {NoDrive}, tap: Taps \cup {NoTap},
         vm: Names \cup {NoName}, matched: BOOLEAN, doomed: BOOLEAN]

NoFiles == [dir |-> FALSE, files |-> {}, raw |-> FALSE, path |-> NoDrive,
            tap |-> NoTap, vm |-> NoName, matched |-> FALSE, doomed |-> FALSE]

(* Steps of a snapshot, in the Frozen ones of which the VM has been paused, *)
(* and of a restore; in the Held ones a VM waits to be resumed.            *)
Frozen == {"patch", "dump", "hook", "metadata", "unpatch", "resume"}
SnapPcs == {"copy", "pause"} \cup Frozen
RestorePcs == {"r-copy", "r-load", "r-patch", "r-resume"}
Held == Frozen \cup {"r-patch", "r-resume"}
Ready == {"idle", "ok", "failed"}

(* wrote (history): the guest wrote between disk copy and memory dump; err *)
(* is the error CreateSnapshot has so far; tap is what Run derives from    *)
(* the metadata it has read.                                               *)
Job == [pc: Ready \cup SnapPcs \cup RestorePcs \cup {"delete"},
        vm: Names \cup {NoName}, id: Snaps \cup {NoSnap}, raw: BOOLEAN,
        wrote: BOOLEAN, err: BOOLEAN, tap: Taps \cup {NoTap}]

Idle == [pc |-> "idle", vm |-> NoName, id |-> NoSnap, raw |-> FALSE,
         wrote |-> FALSE, err |-> FALSE, tap |-> NoTap]

Init ==
    /\ vm = [n \in Names |-> Gone]
    /\ snap = [s \in Snaps |-> NoFiles]
    /\ job = [p \in Callers |-> Idle]

-----------------------------------------------------------------------------
Goto(p, pc) == job' = [job EXCEPT ![p].pc = pc]

(* The call returns without or with an error. *)
Return(p, pc) == job' = [job EXCEPT ![p] = [Idle EXCEPT !.pc = pc]]

Change(n, v) == vm' = [vm EXCEPT ![n] = v]

(* Whoever pauses or resumes a VM settles who answers for its pause, and   *)
(* whoever patches its drive back ends what happened to the drive.         *)
PausedBy(v, who) == [Paused(v) EXCEPT !.by = who, !.hurt = @ \ {"pause"}]
GivenBack(v) == [Resumed(v) EXCEPT !.by = "nobody", !.hurt = @ \ {"pause"}]
OnDrive(v, n) == [v EXCEPT !.drive = n, !.hurt = @ \ {"drive"}]

(* Something that a snapshot or restore has changed of n is left so. *)
Harmed(n, how) ==
    Change(n, IF Booted(vm[n]) THEN [vm[n] EXCEPT !.hurt = @ \cup how] ELSE vm[n])

(* p has put its VM on another disk, and not yet back on its own. *)
Moves(p) ==
    \/ job[p].pc \in {"dump", "metadata", "unpatch"} /\ ~job[p].raw
    \/ job[p].pc = "r-patch"

(* GetSnapshot and ListSnapshots see what has a metadata.json. *)
Listed(s) == "metadata" \in snap[s].files

Unused(n) == \A q \in Callers : job[q].pc \notin Ready => job[q].vm # n
MayUse(n) == Alone => Unused(n)

-----------------------------------------------------------------------------
(* CreateSnapshot and CreateSnapshotRaw.                                   *)

(* The VM's socket answers GetVMConfig; the directory of a new id is made. *)
SnapBegin(p, n, s, raw) ==
    /\ job[p].pc \in Ready /\ MayUse(n)
    /\ Booted(vm[n])
    /\ ~snap[s].dir
    /\ \A m \in Names : vm[m].drive # s
    /\ \A q \in Callers : job[q].id # s
    /\ snap' = [snap EXCEPT ![s] = [NoFiles EXCEPT !.dir = TRUE, !.raw = raw]]
    /\ job' = [job EXCEPT ![p] =
                 [Idle EXCEPT !.pc = IF raw THEN "pause" ELSE "copy",
                              !.vm = n, !.id = s, !.raw = raw]]
    /\ UNCHANGED vm

(* cp of the rootfs, while the guest runs. *)
SnapCopy(p) ==
    /\ job[p].pc = "copy"
    /\ snap' = [snap EXCEPT ![job[p].id].files = @ \cup {"disk"}]
    /\ Goto(p, "pause")
    /\ UNCHANGED vm

(* mutant: the drive is not patched before the snapshot is taken *)
SnapPause_NoPatch(p) ==
    LET n == job[p].vm IN
    /\ job[p].pc = "pause" /\ Booted(vm[n])
    /\ Change(n, PausedBy(vm[n], "job"))
    /\ Goto(p, "dump")
    /\ UNCHANGED snap

SnapPause(p) ==
    LET n == job[p].vm IN
    /\ job[p].pc = "pause" /\ Booted(vm[n])
    /\ Change(n, PausedBy(vm[n], "job"))
    /\ Goto(p, IF job[p].raw THEN "dump" ELSE "patch")
    /\ UNCHANGED snap

SnapPatch(p) ==
    LET n == job[p].vm IN
    /\ job[p].pc = "patch" /\ Booted(vm[n])
    /\ Change(n, [vm[n] EXCEPT !.drive = job[p].id])
    /\ Goto(p, "dump")
    /\ UNCHANGED snap

(* mutant: the VM is resumed as soon as its memory is written *)
SnapDump_Resumes(p) ==
    LET n == job[p].vm IN
    /\ job[p].pc = "dump" /\ CanDump(vm[n])
    /\ snap' = [snap EXCEPT ![job[p].id].files = @ \cup {"state", "memory"},
                            ![job[p].id].path = vm[n].drive,
                            ![job[p].id].tap = vm[n].tap]
    /\ Change(n, GivenBack(vm[n]))
    /\ Goto(p, IF job[p].raw THEN "hook" ELSE "metadata")

(* Firecracker writes state and memory; the state names drive and TAP.     *)
SnapDump(p) ==
    LET n == job[p].vm IN
    /\ job[p].pc = "dump" /\ CanDump(vm[n])
    /\ snap' = [snap EXCEPT ![job[p].id].files = @ \cup {"state", "memory"},
                            ![job[p].id].path = vm[n].drive,
                            ![job[p].id].tap = vm[n].tap]
    /\ Goto(p, IF job[p].raw THEN "hook" ELSE "metadata")
    /\ UNCHANGED vm

(* whilePaused (here there always is one) saves the disk of a raw snapshot. *)
SnapHook(p) ==
    /\ job[p].pc = "hook"
    /\ snap' = [snap EXCEPT ![job[p].id].files = @ \cup {"disk"}]
    /\ Goto(p, "metadata")
    /\ UNCHANGED vm

(* mutant: the deferred function starts with a step that does not exist *)
Deferred_Unknown(p) == IF job[p].raw THEN "resume" ELSE "restore"

(* The step that the deferred function of each kind starts with. *)
Deferred(p) == IF job[p].raw THEN "resume" ELSE "unpatch"

SnapMetadata(p) ==
    /\ job[p].pc = "metadata"
    /\ snap' = [snap EXCEPT ![job[p].id].files = @ \cup {"metadata"},
                            ![job[p].id].vm = job[p].vm,
                            ![job[p].id].matched = ~job[p].wrote]
    /\ Goto(p, Deferred(p))
    /\ UNCHANGED vm

(* The client has given up (its context was cancelled) on a request that   *)
(* takes effect all the same: the VM is paused, or on the snapshot's disk. *)
AnswerLost(p) ==
    LET n == job[p].vm IN
    /\ Booted(vm[n])
    /\ \/ /\ job[p].pc = "pause"
          /\ Change(n, [PausedBy(vm[n], "job") EXCEPT !.hurt = @ \cup {"pause"}])
       \/ job[p].pc = "patch" /\ Change(n, [vm[n] EXCEPT !.drive = job[p].id])

(* mutant: an error returns before the VM is given back *)
SnapFails_NoDefer(p) ==
    /\ job[p].pc \in SnapPcs \ {"unpatch", "resume"}
    /\ snap' = [snap EXCEPT ![job[p].id] = NoFiles]
    /\ Return(p, "failed")
    /\ UNCHANGED vm \/ AnswerLost(p)

(* Any step up to the metadata fails: the directory goes; the deferred     *)
(* function runs if PauseVM has returned without an error, and so not when *)
(* the VM was paused and only the answer lost.                             *)
SnapFails(p) ==
    /\ job[p].pc \in SnapPcs \ {"unpatch", "resume"}
    /\ snap' = [snap EXCEPT ![job[p].id] = NoFiles]
    /\ IF job[p].pc \in {"copy", "pause"}
         THEN Return(p, "failed")
         ELSE job' = [job EXCEPT ![p].pc = Deferred(p), ![p].err = TRUE]
    /\ UNCHANGED vm \/ AnswerLost(p)

(* mutant: the VM is resumed on the snapshot's disk *)
SnapUnpatch_Forgotten(p) ==
    /\ job[p].pc = "unpatch"
    /\ Goto(p, "resume")
    /\ UNCHANGED <<vm, snap>>

(* PatchDrive back to the VM's own rootfs, ... *)
SnapUnpatch(p) ==
    LET n == job[p].vm IN
    /\ job[p].pc = "unpatch" /\ Booted(vm[n])
    /\ Change(n, OnDrive(vm[n], n))
    /\ Goto(p, "resume")
    /\ UNCHANGED snap

(* ... whose error is dropped, ... *)
SnapUnpatchFails(p) ==
    /\ job[p].pc = "unpatch"
    /\ Harmed(job[p].vm, {"drive"})
    /\ Goto(p, "resume")
    /\ UNCHANGED snap

(* ... and ResumeVM. *)
SnapResume(p) ==
    LET n == job[p].vm IN
    /\ job[p].pc = "resume" /\ Booted(vm[n])
    /\ Change(n, GivenBack(vm[n]))
    /\ Return(p, IF job[p].err THEN "failed" ELSE "ok")
    /\ UNCHANGED snap

(* The error of ResumeVM reaches the caller of CreateSnapshotRaw, whose    *)
(* results are named, and not the caller of CreateSnapshot.  If only the   *)
(* answer was lost the VM runs.                                            *)
SnapResumeFails(p) ==
    LET n == job[p].vm IN
    /\ job[p].pc = "resume"
    /\ \/ Harmed(n, {"pause"})
       \/ Booted(vm[n]) /\ Change(n, GivenBack(vm[n]))
    /\ Return(p, IF job[p].err \/ job[p].raw THEN "failed" ELSE "ok")
    /\ UNCHANGED snap

-----------------------------------------------------------------------------
(* Run and RunDirect with a SnapshotID.                                    *)

(* GetSnapshot; the TAP device is that of the VM named in the metadata.    *)
RestoreBegin(p, n, s) ==
    /\ job[p].pc \in Ready /\ Unused(n)
    /\ vm[n].state = "gone"
    /\ Listed(s)
    /\ job' = [job EXCEPT ![p] =
                 [Idle EXCEPT !.pc = IF snap[s].raw THEN "r-load" ELSE "r-copy",
                              !.vm = n, !.id = s, !.tap = Tap[snap[s].vm]]]
    /\ UNCHANGED <<vm, snap>>

RestoreCopy(p) ==
    /\ job[p].pc = "r-copy"
    /\ "disk" \in snap[job[p].id].files
    /\ Goto(p, "r-load")
    /\ UNCHANGED <<vm, snap>>

(* The new process opens the drive and the TAP that the state file names.  *)
(* (Without a TAP of that name it fails, or runs without a network.)       *)
RestoreLoad(p) ==
    LET s == snap[job[p].id] IN
    /\ job[p].pc = "r-load"
    /\ {"state", "memory"} \subseteq s.files
    /\ s.path \in Snaps => "disk" \in snap[s.path].files
    /\ Change(job[p].vm, [Gone EXCEPT !.state = "paused", !.by = "job",
                                      !.drive = s.path, !.tap = s.tap])
    /\ Goto(p, "r-patch")
    /\ UNCHANGED snap

RestorePatch(p) ==
    LET n == job[p].vm IN
    /\ job[p].pc = "r-patch" /\ Booted(vm[n])
    /\ Change(n, OnDrive(vm[n], n))
    /\ Goto(p, "r-resume")
    /\ UNCHANGED snap

RestoreResume(p) ==
    LET n == job[p].vm IN
    /\ job[p].pc = "r-resume" /\ Booted(vm[n])
    /\ Change(n, GivenBack(vm[n]))
    /\ Return(p, "ok")
    /\ UNCHANGED snap

(* A step fails: cleanup() kills the process if there is one. *)
RestoreFails(p) ==
    /\ job[p].pc \in RestorePcs
    /\ Change(job[p].vm, Gone)
    /\ Return(p, "failed")
    /\ UNCHANGED snap

-----------------------------------------------------------------------------
(* DeleteSnapshot: os.RemoveAll takes the files in any order.  The id of a  *)
(* snapshot that is being taken is not known before it is listed.          *)

DeleteBegin(p, s) ==
    /\ job[p].pc \in Ready
    /\ snap[s].dir
    /\ \A q \in Callers : (job[q].pc \in SnapPcs /\ job[q].id = s) => Listed(s)
    /\ snap' = [snap EXCEPT ![s].doomed = TRUE]
    /\ job' = [job EXCEPT ![p] = [Idle EXCEPT !.pc = "delete", !.id = s]]
    /\ UNCHANGED vm

DeleteFile(p) ==
    /\ job[p].pc = "delete"
    /\ \E f \in snap[job[p].id].files :
         snap' = [snap EXCEPT ![job[p].id].files = @ \ {f}]
    /\ UNCHANGED <<vm, job>>

DeleteEnd(p) ==
    /\ job[p].pc = "delete"
    /\ snap[job[p].id].files = {}
    /\ snap' = [snap EXCEPT ![job[p].id] = NoFiles]
    /\ Return(p, "ok")
    /\ UNCHANGED vm

-----------------------------------------------------------------------------
(* What else happens to VMs.                                               *)

(* A fresh Run of the name succeeds; its steps are those of Lifecycle. *)
Boot(n) ==
    /\ vm[n].state = "gone" /\ Unused(n)
    /\ Change(n, [Gone EXCEPT !.state = "running", !.drive = n, !.tap = Tap[n]])
    /\ UNCHANGED <<snap, job>>

(* The process exits. *)
Exit(n) ==
    /\ Booted(vm[n])
    /\ Change(n, Gone)
    /\ UNCHANGED <<snap, job>>

PauseVM(n) ==
    /\ MayUse(n) /\ Booted(vm[n])
    /\ Change(n, PausedBy(vm[n], "user"))
    /\ UNCHANGED <<snap, job>>

ResumeVM(n) ==
    /\ MayUse(n) /\ Booted(vm[n])
    /\ Change(n, GivenBack(vm[n]))
    /\ UNCHANGED <<snap, job>>

(* The guest writes to its disk: a snapshot that has one of disk and       *)
(* memory image and not yet the other becomes a mixture.                   *)
HalfTaken(p, n) ==
    /\ job[p].vm = n
    /\ job[p].pc \in IF job[p].raw THEN {"hook"} ELSE {"pause", "patch", "dump"}

GuestWrite(n) ==
    /\ vm[n].state = "running"
    /\ \E p \in Callers : HalfTaken(p, n)
    /\ job' = [p \in Callers |->
                 IF HalfTaken(p, n) THEN [job[p] EXCEPT !.wrote = TRUE] ELSE job[p]]
    /\ UNCHANGED <<vm, snap>>

(* A knaller process dies: nothing that it deferred is executed. *)
Crash(p) ==
    /\ AllowCrash
    /\ job[p].pc \notin Ready
    /\ job' = [job EXCEPT ![p] = Idle]
    /\ IF job[p].pc \in Held
         THEN Harmed(job[p].vm, IF Moves(p) THEN {"drive", "pause"} ELSE {"pause"})
         ELSE UNCHANGED vm
    /\ UNCHANGED snap

-----------------------------------------------------------------------------
SnapStep(p) ==
    \/ SnapCopy(p) \/ SnapPause(p) \/ SnapPatch(p) \/ SnapDump(p) \/ SnapHook(p)
    \/ SnapMetadata(p) \/ SnapFails(p)
    \/ SnapUnpatch(p) \/ SnapUnpatchFails(p) \/ SnapResume(p) \/ SnapResumeFails(p)

RestoreStep(p) ==
    \/ RestoreCopy(p) \/ RestoreLoad(p) \/ RestorePatch(p) \/ RestoreResume(p)
    \/ RestoreFails(p)

Next ==
    \/ \E p \in Callers :
         \/ \E n \in Names, s \in Snaps, raw \in BOOLEAN : SnapBegin(p, n, s, raw)
         \/ \E n \in Names, s \in Snaps : RestoreBegin(p, n, s)
         \/ \E s \in Snaps : DeleteBegin(p, s)
         \/ SnapStep(p) \/ RestoreStep(p) \/ DeleteFile(p) \/ DeleteEnd(p) \/ Crash(p)
    \/ \E n \in Names :
         Boot(n) \/ Exit(n) \/ PauseVM(n) \/ ResumeVM(n) \/ GuestWrite(n)

Spec == Init /\ [][Next]_vars

-----------------------------------------------------------------------------
(* Every variable has its type. *)
SnapTypeOK ==
    /\ vm \in [Names -> VM]
    /\ snap \in [Snaps -> Snap]
    /\ job \in [Callers -> Job]

(* A snapshot that is listed, and that nobody has begun to delete, has all *)
(* its files, and a full one refers to its own copy of the rootfs: it can  *)
(* be restored whatever becomes of the VM it was taken of                  *)
(* (snapshot.go:50-53, 109-111).                                           *)
SelfContained ==
    \A s \in Snaps :
        (Listed(s) /\ ~snap[s].doomed) =>
            /\ snap[s].files = Files
            /\ ~snap[s].raw => snap[s].path = s

(* What the whilePaused hook saves is the disk as it was when the memory   *)
(* was written (snapshot.go:175-178).                                      *)
RawMatched ==
    \A s \in Snaps : (Listed(s) /\ snap[s].raw) => snap[s].matched

(* A guest runs on no disk but its own: the drive is patched and patched   *)
(* back only while the VM is paused, whichever step in between fails       *)
(* (snapshot.go:94-112, vm.go:206-208).  Exempt is a VM whose drive was    *)
(* never patched back: the PatchDrive of the deferred function failed, its *)
(* error being dropped (snapshot.go:98), or the caller died before it.     *)
OnOwnDisk ==
    \A n \in Names :
        (vm[n].state = "running" /\ "drive" \notin vm[n].hurt) => vm[n].drive = n

(* A VM that a snapshot or a restore has paused stays paused only as long  *)
(* as that is at work: whichever step between the pause and the resume     *)
(* fails, the PatchDrive back included, the VM is resumed (snapshot.go:94).*)
(* Three ways to be left paused are exempt: the ResumeVM itself fails, the *)
(* caller dies, or PauseVM takes effect while the client gives up on its   *)
(* answer, upon which the function returns before the defer statement      *)
(* (snapshot.go:89-92, 209-212).                                           *)
NoneLeftPaused ==
    \A n \in Names :
        (vm[n].state = "paused" /\ vm[n].by = "job" /\ "pause" \notin vm[n].hurt) =>
            \E p \in Callers :
                job[p].vm = n /\ job[p].pc \in Held

(* What makes these inductive.  Of every call: what it works on, ...       *)
JobAt(p) ==
    /\ job[p].pc \in SnapPcs \cup RestorePcs => job[p].vm \in Names
    /\ job[p].pc \in Ready \cup {"delete"} => job[p].vm = NoName
    /\ job[p].id = NoSnap <=> job[p].pc \in Ready
    /\ job[p].pc \in {"copy", "patch", "unpatch"} => ~job[p].raw
    /\ job[p].pc = "hook" => job[p].raw

JobInv ==
    /\ \A p \in Callers : JobAt(p)
    /\ \A s \in Snaps : Listed(s) => snap[s].vm \in Names

(* ... (if users do one thing at a time to a VM) that nobody else works on *)
(* its VM, which does not run while it is frozen, ...                      *)
HeldInv ==
    /\ \A p, q \in Callers : (job[q].vm = job[p].vm /\ job[p].vm # NoName) => q = p
    /\ \A p \in Callers : job[p].pc \in Held => vm[job[p].vm].state # "running"

(* ... who puts a VM on another disk, ...                                  *)
DriveInv ==
    \A n \in Names :
        (vm[n].state # "gone" /\ "drive" \notin vm[n].hurt /\ vm[n].drive # n) =>
            \E p \in Callers : job[p].vm = n /\ Moves(p)

(* ... and what a snapshot has so far, of which nobody else has heard.     *)
Taking == {"copy", "pause", "patch", "dump", "hook", "metadata"}

Taken(p) ==
    LET s == job[p].id IN
    /\ ~Listed(s) /\ ~snap[s].doomed /\ snap[s].raw = job[p].raw
    /\ \A q \in Callers : job[q].id = s => q = p
    /\ (job[p].pc = "metadata" \/ (~job[p].raw /\ job[p].pc # "copy")) => "disk" \in snap[s].files
    /\ job[p].pc \in {"hook", "metadata"} =>
         {"state", "memory"} \subseteq snap[s].files /\ (~job[p].raw => snap[s].path = s)
    /\ (job[p].pc = "dump" /\ ~job[p].raw) =>
         vm[job[p].vm].state = "gone" \/ vm[job[p].vm].drive = s
    /\ job[p].raw => ~job[p].wrote

TakenInv == \A p \in Callers : job[p].pc \in Taking => Taken(p)

(* A deletion never ends the life of a complete snapshot unannounced. *)
DeleteInv ==
    \A p \in Callers :
        job[p].pc = "delete" => snap[job[p].id].doomed \/ snap[job[p].id].files = {}

SnapInv == JobInv /\ HeldInv /\ DriveInv /\ TakenInv /\ DeleteInv

(* The VM is resumed, on its original drive, when a full snapshot returns  *)
(* without an error ("always", snapshot.go:94).                            *)
SuccessGivesBack ==
    [][\A p \in Callers :
          (job[p].pc = "resume" /\ ~job[p].raw /\ job'[p].pc = "ok")
              => \/ vm[job[p].vm].state = "gone"
                 \/ /\ vm'[job[p].vm].state = "running"
                    /\ vm'[job[p].vm].drive = job[p].vm]_vars

(* The TAP device that a restore has created is the one to which the state *)
(* it has loaded refers ("must match", vm.go:109-111).                     *)
TapMatches ==
    \A p \in Callers :
        job[p].pc \in {"r-patch", "r-resume"} =>
            vm[job[p].vm].state = "gone" \/ vm[job[p].vm].tap = job[p].tap
=============================================================================
