-------------------------- MODULE SnapshotsProofs --------------------------
(***************************************************************************)
(* What holds of Snapshots for every set of names, snapshots and callers.  *)
(***************************************************************************)
EXTENDS Snapshots, TLAPS

-----------------------------------------------------------------------------
(* Types.                                                                  *)

(* The blank records are records of their types. *)
LEMMA SnapBlanksTyped == Gone \in VM /\ NoFiles \in Snap /\ Idle \in Job
  BY DEF Gone, VM, NoFiles, Snap, Files, Idle, Job, Ready

(* What a step of a job does to the jobs. *)
LEMMA GotoEffect ==
    ASSUME SnapTypeOK, NEW p \in Callers, NEW pc, Goto(p, pc)
    PROVE  \A q \in Callers :
              /\ job'[q].pc = IF q = p THEN pc ELSE job[q].pc
              /\ job'[q].vm = job[q].vm /\ job'[q].id = job[q].id
              /\ job'[q].raw = job[q].raw /\ job'[q].wrote = job[q].wrote
              /\ job'[q].err = job[q].err /\ job'[q].tap = job[q].tap
              /\ q # p => job'[q] = job[q]
  BY DEF SnapTypeOK, Goto, Job

LEMMA ReturnEffect ==
    ASSUME SnapTypeOK, NEW p \in Callers, NEW pc, Return(p, pc)
    PROVE  /\ \A q \in Callers : q # p => job'[q] = job[q]
           /\ job'[p].pc = pc /\ job'[p].vm = NoName /\ job'[p].id = NoSnap
  BY DEF SnapTypeOK, Return, Idle

LEMMA ChangeEffect ==
    ASSUME SnapTypeOK, NEW n \in Names, NEW v, Change(n, v)
    PROVE  \A m \in Names : vm'[m] = IF m = n THEN v ELSE vm[m]
  BY DEF SnapTypeOK, Change

LEMMA JobsTyped ==
    ASSUME SnapTypeOK, NEW p \in Callers,
           \/ \E pc \in Ready \cup SnapPcs \cup RestorePcs \cup {"delete"} : Goto(p, pc)
           \/ \E pc \in Ready : Return(p, pc)
    PROVE  job' \in [Callers -> Job]
  <1>1. ASSUME NEW pc \in Ready \cup SnapPcs \cup RestorePcs \cup {"delete"}, Goto(p, pc)
        PROVE  job' \in [Callers -> Job]
    BY <1>1 DEF SnapTypeOK, Goto, Job
  <1>2. ASSUME NEW pc \in Ready, Return(p, pc) PROVE job' \in [Callers -> Job]
    <2>1. [Idle EXCEPT !.pc = pc] \in Job
      BY SnapBlanksTyped DEF Job
    <2> QED BY <1>2, <2>1 DEF SnapTypeOK, Return
  <1> QED BY <1>1, <1>2

(* What the steps make of a VM's record is of its type. *)
LEMMA VmsTyped ==
    ASSUME NEW v \in VM
    PROVE  /\ GivenBack(v) \in VM
           /\ \A who \in {"job", "user"} :
                 /\ PausedBy(v, who) \in VM
                 /\ [PausedBy(v, who) EXCEPT !.hurt = @ \cup {"pause"}] \in VM
           /\ \A d \in Disks : [v EXCEPT !.drive = d] \in VM /\ OnDrive(v, d) \in VM
           /\ \A how \in SUBSET {"drive", "pause"} : [v EXCEPT !.hurt = @ \cup how] \in VM
  BY DEF VM, GivenBack, PausedBy, OnDrive, Paused, Resumed

(* What the steps write into a snapshot's record is of its type. *)
LEMMA SnapsTyped ==
    ASSUME NEW x \in Snap
    PROVE  /\ \A F \in SUBSET Files : [x EXCEPT !.files = F] \in Snap
           /\ \A F \in SUBSET Files, d \in Disks \cup {NoDrive}, t \in Taps \cup {NoTap} :
                [x EXCEPT !.files = F, !.path = d, !.tap = t] \in Snap
           /\ \A F \in SUBSET Files, n \in Names, b \in BOOLEAN :
                [x EXCEPT !.files = F, !.vm = n, !.matched = b] \in Snap
  BY DEF Snap

(* Whoever works on a VM or a snapshot knows which. *)
LEMMA BusyNamed ==
    ASSUME SnapTypeOK, JobInv, NEW p \in Callers
    PROVE  /\ job[p].pc \in SnapPcs \cup RestorePcs => job[p].vm \in Names /\ job[p].id \in Snaps
           /\ job[p].pc = "delete" => job[p].id \in Snaps
  BY DEF SnapTypeOK, JobInv, JobAt, Job, Ready, SnapPcs, RestorePcs, Frozen

(* Every step keeps the types. *)
LEMMA SnapTypeStep ==
    ASSUME SnapTypeOK, JobInv, [Next]_vars
    PROVE  SnapTypeOK'
  <1> USE SnapBlanksTyped
  <1>0. /\ vm \in [Names -> VM] /\ snap \in [Snaps -> Snap]
        /\ job \in [Callers -> Job]
    BY DEF SnapTypeOK
  <1>a. ASSUME NEW n \in Names, NEW v \in VM, Change(n, v) PROVE vm' \in [Names -> VM]
    BY <1>a, <1>0 DEF Change
  <1>b. ASSUME NEW n \in Names
        PROVE  /\ PausedBy(vm[n], "job") \in VM
               /\ [PausedBy(vm[n], "job") EXCEPT !.hurt = @ \cup {"pause"}] \in VM
               /\ PausedBy(vm[n], "user") \in VM
               /\ GivenBack(vm[n]) \in VM
               /\ \A d \in Disks : [vm[n] EXCEPT !.drive = d] \in VM /\ OnDrive(vm[n], d) \in VM
    <2>1. vm[n] \in VM
      BY <1>0
    <2> QED BY <2>1, VmsTyped
  <1>c. ASSUME NEW n \in Names, NEW how \in SUBSET {"drive", "pause"}, Harmed(n, how)
        PROVE  vm' \in [Names -> VM]
    <2>1. vm[n] \in VM
      BY <1>0
    <2>2. [vm[n] EXCEPT !.hurt = @ \cup how] \in VM
      BY <2>1, VmsTyped
    <2> QED BY <1>c, <1>a, <2>1, <2>2 DEF Harmed
  <1>1. ASSUME NEW p \in Callers, NEW n \in Names, NEW s \in Snaps, NEW raw \in BOOLEAN,
               SnapBegin(p, n, s, raw)
        PROVE  SnapTypeOK'
    <2>1. [NoFiles EXCEPT !.dir = TRUE, !.raw = raw] \in Snap
      BY DEF Snap, NoFiles
    <2>2. \A pc \in {"pause", "copy"} :
            [Idle EXCEPT !.pc = pc, !.vm = n, !.id = s, !.raw = raw] \in Job
      BY DEF Idle, Job, SnapPcs
    <2> QED BY <1>1, <1>0, <2>1, <2>2 DEF SnapBegin, SnapTypeOK
  <1>2. ASSUME NEW p \in Callers,
               SnapCopy(p) \/ SnapHook(p) \/ SnapDump(p) \/ SnapMetadata(p) \/ SnapFails(p)
        PROVE  SnapTypeOK'
    <2>1. job[p].vm \in Names /\ job[p].id \in Snaps
      BY <1>2, BusyNamed, Zenon DEF SnapCopy, SnapHook, SnapDump, SnapMetadata, SnapFails, SnapPcs, Frozen
    <2>2. snap' \in [Snaps -> Snap]
      <3>1. CASE SnapCopy(p) \/ SnapHook(p)
        BY <1>0, <3>1 DEF SnapCopy, SnapHook, Snap, Files
      <3>2. CASE SnapDump(p)
        <4>1. [snap[job[p].id] EXCEPT !.files = @ \cup {"state", "memory"},
                 !.path = vm[job[p].vm].drive, !.tap = vm[job[p].vm].tap] \in Snap
          <5> DEFINE x == snap[job[p].id]
                     v == vm[job[p].vm]
          <5>1. x \in Snap /\ v \in VM
            BY <1>0, <2>1
          <5>2. /\ x.files \cup {"state", "memory"} \in SUBSET Files
                /\ v.drive \in Disks \cup {NoDrive} /\ v.tap \in Taps \cup {NoTap}
            BY <5>1 DEF Snap, Files, VM
          <5> HIDE DEF x, v
          <5>3. [x EXCEPT !.files = x.files \cup {"state", "memory"},
                          !.path = v.drive, !.tap = v.tap] \in Snap
            BY <5>1, <5>2, SnapsTyped
          <5> QED BY <5>3 DEF x, v
        <4> QED BY <1>0, <3>2, <4>1 DEF SnapDump
      <3>3. CASE SnapMetadata(p)
        <4>1. [snap[job[p].id] EXCEPT !.files = @ \cup {"metadata"}, !.vm = job[p].vm,
                 !.matched = ~job[p].wrote] \in Snap
          <5> DEFINE x == snap[job[p].id]
                     j == job[p]
          <5>1. x \in Snap /\ j.vm \in Names
            BY <1>0, <2>1
          <5>2. x.files \cup {"metadata"} \in SUBSET Files
            BY <5>1 DEF Snap, Files
          <5>b. (~j.wrote) \in BOOLEAN
            OBVIOUS
          <5> HIDE DEF x, j
          <5>3. [x EXCEPT !.files = x.files \cup {"metadata"}, !.vm = j.vm,
                          !.matched = ~j.wrote] \in Snap
            BY <5>1, <5>2, <5>b, SnapsTyped
          <5> QED BY <5>3 DEF x, j
        <4> QED BY <1>0, <3>3, <4>1 DEF SnapMetadata
      <3>4. CASE SnapFails(p)
        BY <1>0, <3>4 DEF SnapFails
      <3> QED BY <1>2, <3>1, <3>2, <3>3, <3>4
    <2>4. vm' \in [Names -> VM]
      <3>1. CASE UNCHANGED vm
        BY <1>0, <3>1
      <3>2. CASE AnswerLost(p)
        BY <3>2, <1>a, <1>b, <2>1 DEF AnswerLost, Disks
      <3> QED BY <1>2, <3>1, <3>2 DEF SnapCopy, SnapHook, SnapDump, SnapMetadata, SnapFails
    <2>3. job' \in [Callers -> Job]
      <3>1. CASE SnapCopy(p) \/ SnapHook(p) \/ SnapDump(p) \/ SnapMetadata(p)
        BY <3>1, JobsTyped, Zenon DEF SnapCopy, SnapHook, SnapDump, SnapMetadata, SnapPcs, Frozen, Deferred
      <3>2. CASE SnapFails(p)
        <4>1. [job[p] EXCEPT !.pc = Deferred(p), !.err = TRUE] \in Job
          BY <1>0, Zenon DEF Job, Deferred, SnapPcs, Frozen
        <4> QED BY <3>2, <4>1, <1>0, JobsTyped DEF SnapFails, Ready
      <3> QED BY <1>2, <3>1, <3>2
    <2> QED BY <2>2, <2>3, <2>4 DEF SnapTypeOK
  <1>3. ASSUME NEW p \in Callers,
               SnapPause(p) \/ SnapPatch(p) \/ SnapUnpatch(p) \/ SnapUnpatchFails(p)
                 \/ SnapResume(p) \/ SnapResumeFails(p)
        PROVE  SnapTypeOK'
    <2>1. job[p].vm \in Names /\ job[p].id \in Snaps
      BY <1>3, BusyNamed
         DEF SnapPause, SnapPatch, SnapUnpatch, SnapUnpatchFails, SnapResume, SnapResumeFails,
             SnapPcs, Frozen
    <2>2. vm' \in [Names -> VM]
      BY <1>3, <1>a, <1>b, <1>c, <2>1
         DEF SnapPause, SnapPatch, SnapUnpatch, SnapUnpatchFails, SnapResume, SnapResumeFails, Disks
    <2>3. job' \in [Callers -> Job]
      BY <1>3, JobsTyped
         DEF SnapPause, SnapPatch, SnapUnpatch, SnapUnpatchFails, SnapResume, SnapResumeFails,
             SnapPcs, Frozen, Ready
    <2> QED BY <1>3, <1>0, <2>2, <2>3
        DEF SnapPause, SnapPatch, SnapUnpatch, SnapUnpatchFails, SnapResume, SnapResumeFails,
            SnapTypeOK
  <1>4. ASSUME NEW p \in Callers, NEW n \in Names, NEW s \in Snaps, RestoreBegin(p, n, s)
        PROVE  SnapTypeOK'
    <2>1. Tap[snap[s].vm] \in Taps
      BY <1>4, TapAssumption DEF RestoreBegin, JobInv
    <2>2. \A pc \in {"r-load", "r-copy"} :
            [Idle EXCEPT !.pc = pc, !.vm = n, !.id = s, !.tap = Tap[snap[s].vm]] \in Job
      BY <2>1 DEF Idle, Job, RestorePcs
    <2> QED BY <1>4, <1>0, <2>2 DEF RestoreBegin, SnapTypeOK
  <1>5. ASSUME NEW p \in Callers,
               RestoreCopy(p) \/ RestoreLoad(p) \/ RestorePatch(p) \/ RestoreResume(p)
                 \/ RestoreFails(p)
        PROVE  SnapTypeOK'
    <2>1. job[p].vm \in Names /\ job[p].id \in Snaps
      BY <1>5, BusyNamed
         DEF RestoreCopy, RestoreLoad, RestorePatch, RestoreResume, RestoreFails, RestorePcs
    <2>2. [Gone EXCEPT !.state = "paused", !.by = "job", !.drive = snap[job[p].id].path,
                       !.tap = snap[job[p].id].tap] \in VM
      BY <1>0, <2>1 DEF Gone, VM, Snap
    <2>3. vm' \in [Names -> VM]
      BY <1>5, <1>0, <1>a, <1>b, <2>1, <2>2
         DEF RestoreCopy, RestoreLoad, RestorePatch, RestoreResume, RestoreFails, Disks
    <2>4. job' \in [Callers -> Job]
      BY <1>5, JobsTyped
         DEF RestoreCopy, RestoreLoad, RestorePatch, RestoreResume, RestoreFails, RestorePcs, Ready
    <2> QED BY <1>5, <1>0, <2>3, <2>4
        DEF RestoreCopy, RestoreLoad, RestorePatch, RestoreResume, RestoreFails, SnapTypeOK
  <1>6. ASSUME NEW p \in Callers, NEW s \in Snaps, DeleteBegin(p, s) PROVE SnapTypeOK'
    <2>1. [Idle EXCEPT !.pc = "delete", !.id = s] \in Job
      BY DEF Idle, Job
    <2>2. [snap[s] EXCEPT !.doomed = TRUE] \in Snap
      BY <1>0 DEF Snap
    <2> QED BY <1>6, <1>0, <2>1, <2>2 DEF DeleteBegin, SnapTypeOK
  <1>7. ASSUME NEW p \in Callers, DeleteFile(p) \/ DeleteEnd(p) PROVE SnapTypeOK'
    <2>1. snap' \in [Snaps -> Snap]
      <3>1. job[p].id \in Snaps
        BY <1>7, BusyNamed DEF DeleteFile, DeleteEnd
      <3>2. \A f : [snap[job[p].id] EXCEPT !.files = snap[job[p].id].files \ {f}] \in Snap
        BY <1>0, <3>1 DEF Snap
      <3>3. CASE DeleteFile(p)
        <4>1. PICK f : snap' = [snap EXCEPT ![job[p].id] =
                                  [snap[job[p].id] EXCEPT !.files = snap[job[p].id].files \ {f}]]
          BY <3>3 DEF DeleteFile
        <4> QED BY <4>1, <1>0, <3>1, <3>2
      <3>4. CASE DeleteEnd(p)
        BY <3>4, <1>0, SnapBlanksTyped DEF DeleteEnd
      <3> QED BY <1>7, <3>3, <3>4
    <2>2. job' \in [Callers -> Job]
      BY <1>7, <1>0, JobsTyped DEF DeleteFile, DeleteEnd, Ready
    <2> QED BY <1>7, <1>0, <2>1, <2>2 DEF DeleteFile, DeleteEnd, SnapTypeOK
  <1>8. ASSUME NEW p \in Callers, Crash(p) PROVE SnapTypeOK'
    <2>1. vm' \in [Names -> VM]
      <3>1. CASE UNCHANGED vm
        BY <1>0, <3>1
      <3>2. ASSUME NEW how \in SUBSET {"drive", "pause"}, Harmed(job[p].vm, how),
                   job[p].pc \in Held
            PROVE  vm' \in [Names -> VM]
        BY <3>2, <1>c, BusyNamed DEF Held, SnapPcs, RestorePcs
      <3> QED BY <1>8, <3>1, <3>2 DEF Crash
    <2> QED BY <1>8, <1>0, <2>1 DEF Crash, SnapTypeOK
  <1>9. ASSUME NEW n \in Names, Boot(n) \/ Exit(n) \/ PauseVM(n) \/ ResumeVM(n)
        PROVE  SnapTypeOK'
    <2>1. [Gone EXCEPT !.state = "running", !.drive = n, !.tap = Tap[n]] \in VM
      BY TapAssumption DEF Gone, VM, Disks
    <2>2. vm' \in [Names -> VM]
      BY <1>9, <1>a, <1>b, <2>1 DEF Boot, Exit, PauseVM, ResumeVM
    <2> QED BY <1>9, <1>0, <2>2 DEF Boot, Exit, PauseVM, ResumeVM, SnapTypeOK
  <1>10. ASSUME NEW n \in Names, GuestWrite(n) PROVE SnapTypeOK'
    <2>1. \A p \in Callers : [job[p] EXCEPT !.wrote = TRUE] \in Job
      BY <1>0, Zenon DEF Job
    <2> QED BY <1>10, <1>0, <2>1 DEF GuestWrite, SnapTypeOK
  <1>11. CASE UNCHANGED vars
    BY <1>11, <1>0 DEF vars, SnapTypeOK
  <1> QED
    BY <1>1, <1>2, <1>3, <1>4, <1>5, <1>6, <1>7, <1>8, <1>9, <1>10, <1>11
    DEF Next, SnapStep, RestoreStep

-----------------------------------------------------------------------------
(* Jobs.                                                                   *)

(* A caller's step changes no other caller's job. *)
LEMMA OthersJobs ==
    ASSUME SnapTypeOK, NEW p \in Callers,
           \/ \E n \in Names, s \in Snaps, raw \in BOOLEAN : SnapBegin(p, n, s, raw)
           \/ \E n \in Names, s \in Snaps : RestoreBegin(p, n, s)
           \/ \E s \in Snaps : DeleteBegin(p, s)
           \/ SnapStep(p) \/ RestoreStep(p) \/ DeleteFile(p) \/ DeleteEnd(p) \/ Crash(p)
    PROVE  \A q \in Callers : q # p => job'[q] = job[q]
  <1> DEFINE Goal == \A q \in Callers : q # p => job'[q] = job[q]
  <1>1. \A pc : (Goto(p, pc) \/ Return(p, pc)) => Goal
    BY GotoEffect, ReturnEffect
  <1>2. \A j : job' = [job EXCEPT ![p] = j] => Goal
    BY DEF SnapTypeOK
  <1>3. (UNCHANGED job) => Goal
    OBVIOUS
  <1> HIDE DEF Goal
  <1>4. ASSUME SnapFails(p) PROVE Goal
    <2>1. (\E pc : Return(p, pc)) \/ \E j : job' = [job EXCEPT ![p] = j]
      BY <1>4 DEF SnapFails
    <2> QED BY <2>1, <1>1, <1>2
  <1>5. SnapStep(p) => Goal
    BY <1>1, <1>4, Zenon DEF SnapStep, SnapCopy, SnapPause, SnapPatch, SnapDump, SnapHook, SnapMetadata,
                SnapUnpatch, SnapUnpatchFails, SnapResume, SnapResumeFails
  <1>6. RestoreStep(p) => Goal
    BY <1>1 DEF RestoreStep, RestoreCopy, RestoreLoad, RestorePatch, RestoreResume, RestoreFails
  <1>7. DeleteFile(p) \/ DeleteEnd(p) \/ Crash(p) => Goal
    BY <1>1, <1>2, <1>3, Zenon DEF DeleteFile, DeleteEnd, Crash
  <1>8. \/ \E n \in Names, s \in Snaps, raw \in BOOLEAN : SnapBegin(p, n, s, raw)
        \/ \E n \in Names, s \in Snaps : RestoreBegin(p, n, s)
        \/ \E s \in Snaps : DeleteBegin(p, s)
        => Goal
    BY <1>2, Zenon DEF SnapBegin, RestoreBegin, DeleteBegin
  <1> QED BY <1>5, <1>6, <1>7, <1>8 DEF Goal

(* The guest changes nothing in a job but wrote. *)
LEMMA WriteEffect ==
    ASSUME SnapTypeOK, NEW n \in Names, GuestWrite(n)
    PROVE  \A q \in Callers :
              /\ job'[q].pc = job[q].pc /\ job'[q].vm = job[q].vm
              /\ job'[q].id = job[q].id /\ job'[q].raw = job[q].raw
              /\ job'[q].wrote # job[q].wrote => HalfTaken(q, n)
  BY Zenon DEF SnapTypeOK, GuestWrite, Job

(* A snapshot that has been listed keeps its metadata until it has none. *)
LEMMA ListedNamed ==
    ASSUME SnapTypeOK, JobInv, [Next]_vars
    PROVE  \A s \in Snaps : Listed(s)' => snap'[s].vm \in Names
  <1>0. snap \in [Snaps -> Snap]
    BY DEF SnapTypeOK
  <1>1. ASSUME NEW t \in Snaps, NEW r, snap' = [snap EXCEPT ![t] = r],
               "metadata" \in r.files => r.vm \in Names
        PROVE  \A s \in Snaps : Listed(s)' => snap'[s].vm \in Names
    BY <1>0, <1>1 DEF JobInv, Listed
  <1>2. NoFiles.files = {} /\ [NoFiles EXCEPT !.dir = TRUE].files = {}
    BY DEF NoFiles
  <1>3. ASSUME NEW p \in Callers, SnapStep(p) PROVE \A s \in Snaps : Listed(s)' => snap'[s].vm \in Names
    <2>0. CASE UNCHANGED snap
      BY <2>0 DEF JobInv, Listed
    <2>1. CASE SnapCopy(p) \/ SnapDump(p) \/ SnapHook(p)
      <3> DEFINE t == job[p].id
      <3>1. t \in Snaps
        BY <2>1, BusyNamed DEF SnapCopy, SnapDump, SnapHook, SnapPcs, Frozen
      <3>2. /\ \A u \in Snaps : u # t => snap'[u] = snap[u]
            /\ snap'[t].vm = snap[t].vm
            /\ "metadata" \in snap'[t].files => "metadata" \in snap[t].files
        <4>1. CASE SnapCopy(p)
          BY <1>0, <3>1, <4>1 DEF SnapCopy, Snap
        <4>2. CASE SnapDump(p)
          BY <1>0, <3>1, <4>2 DEF SnapDump, Snap
        <4>3. CASE SnapHook(p)
          BY <1>0, <3>1, <4>3 DEF SnapHook, Snap
        <4> QED BY <2>1, <4>1, <4>2, <4>3
      <3> QED BY <3>1, <3>2 DEF JobInv, Listed
    <2>2. CASE SnapMetadata(p)
      <3>1. job[p].id \in Snaps /\ job[p].vm \in Names
        BY <2>2, BusyNamed DEF SnapMetadata, SnapPcs, Frozen
      <3> QED BY <1>0, <2>2, <3>1 DEF SnapMetadata, JobInv, Listed, Snap
    <2>3. CASE SnapFails(p)
      <3>1. job[p].id \in Snaps
        BY <2>3, BusyNamed DEF SnapFails, SnapPcs, Frozen
      <3> QED BY <1>1, <1>2, <2>3, <3>1 DEF SnapFails
    <2> QED
      BY <1>3, <2>0, <2>1, <2>2, <2>3
      DEF SnapStep, SnapPause, SnapPatch, SnapUnpatch, SnapUnpatchFails, SnapResume, SnapResumeFails
  <1>4. ASSUME NEW p \in Callers, NEW n \in Names, NEW s \in Snaps, NEW raw \in BOOLEAN,
               SnapBegin(p, n, s, raw)
        PROVE  \A t \in Snaps : Listed(t)' => snap'[t].vm \in Names
    <2>1. [NoFiles EXCEPT !.dir = TRUE, !.raw = raw].files = {}
      BY DEF NoFiles
    <2> QED BY <1>1, <1>4, <2>1 DEF SnapBegin
  <1>5. ASSUME NEW p \in Callers, NEW s \in Snaps, DeleteBegin(p, s)
        PROVE  \A t \in Snaps : Listed(t)' => snap'[t].vm \in Names
    BY <1>0, <1>5 DEF DeleteBegin, JobInv, Listed, Snap
  <1>6. ASSUME NEW p \in Callers, DeleteFile(p) \/ DeleteEnd(p)
        PROVE  \A t \in Snaps : Listed(t)' => snap'[t].vm \in Names
    <2>1. job[p].id \in Snaps
      BY <1>6, BusyNamed DEF DeleteFile, DeleteEnd
    <2>2. CASE DeleteFile(p)
      BY <1>0, <2>1, <2>2 DEF DeleteFile, JobInv, Listed, Snap
    <2>3. CASE DeleteEnd(p)
      BY <1>1, <1>2, <2>1, <2>3 DEF DeleteEnd
    <2> QED BY <1>6, <2>2, <2>3
  <1>7. CASE UNCHANGED snap
    BY <1>7 DEF JobInv, Listed
  <1> QED
    BY <1>3, <1>4, <1>5, <1>6, <1>7, Zenon
    DEF Next, RestoreBegin, RestoreStep, RestoreCopy, RestoreLoad, RestorePatch, RestoreResume,
        RestoreFails, Crash, Boot, Exit, PauseVM, ResumeVM, GuestWrite, vars

(* What each step does to its own job. *)
LEMMA JobStep ==
    ASSUME SnapTypeOK, JobInv, [Next]_vars
    PROVE  JobInv'
  <1>0. job \in [Callers -> Job]
    BY DEF SnapTypeOK
  <1>a. ASSUME NEW p \in Callers, \A q \in Callers : q # p => job'[q] = job[q], JobAt(p)'
        PROVE  JobInv'
    <2>1. \A q \in Callers : JobAt(q)'
      BY <1>a DEF JobInv, JobAt
    <2> QED BY <2>1, ListedNamed DEF JobInv, Listed
  <1>b. ASSUME NEW p \in Callers, NEW pc \in Ready, Return(p, pc) PROVE JobInv'
    <2>1. JobAt(p)'
      BY <1>b, ReturnEffect DEF JobAt, Ready, SnapPcs, RestorePcs, Frozen
    <2> QED BY <1>a, <1>b, <2>1, ReturnEffect
  <1>c. ASSUME NEW p \in Callers, job[p].pc \in SnapPcs \cup RestorePcs,
               NEW pc \in SnapPcs \cup RestorePcs, Goto(p, pc),
               pc \in {"copy", "patch", "unpatch"} => ~job[p].raw,
               pc = "hook" => job[p].raw
        PROVE  JobInv'
    <2>1. job[p].vm \in Names /\ job[p].id # NoSnap
      BY <1>c, BusyNamed, SnapBlanksAssumption
    <2>2. JobAt(p)'
      BY <1>c, <2>1, GotoEffect DEF JobAt, Ready, SnapPcs, RestorePcs, Frozen
    <2> QED BY <1>a, <1>c, <2>2, GotoEffect
  <1>1. ASSUME NEW p \in Callers, NEW n \in Names, NEW s \in Snaps, NEW raw \in BOOLEAN,
               SnapBegin(p, n, s, raw)
        PROVE  JobInv'
    <2>1. /\ job'[p].pc = IF raw THEN "pause" ELSE "copy"
          /\ job'[p].vm = n /\ job'[p].id = s /\ job'[p].raw = raw
      BY <1>1, <1>0 DEF SnapBegin, Idle
    <2>2. JobAt(p)'
      BY <2>1, SnapBlanksAssumption DEF JobAt, Ready, SnapPcs, RestorePcs, Frozen
    <2> QED BY <1>1, <1>a, <2>2, OthersJobs
  <1>2. ASSUME NEW p \in Callers, NEW n \in Names, NEW s \in Snaps, RestoreBegin(p, n, s)
        PROVE  JobInv'
    <2>1. job'[p].pc \in {"r-load", "r-copy"} /\ job'[p].vm = n /\ job'[p].id = s
      BY <1>2, <1>0 DEF RestoreBegin, Idle
    <2>2. JobAt(p)'
      BY <2>1, SnapBlanksAssumption DEF JobAt, Ready, SnapPcs, RestorePcs, Frozen
    <2> QED BY <1>2, <1>a, <2>2, OthersJobs
  <1>3. ASSUME NEW p \in Callers, NEW s \in Snaps, DeleteBegin(p, s) PROVE JobInv'
    <2>1. job'[p].pc = "delete" /\ job'[p].vm = NoName /\ job'[p].id = s
      BY <1>3, <1>0 DEF DeleteBegin, Idle
    <2>2. JobAt(p)'
      BY <2>1, SnapBlanksAssumption DEF JobAt, Ready, SnapPcs, RestorePcs, Frozen
    <2> QED BY <1>3, <1>a, <2>2, OthersJobs
  <1>4. ASSUME NEW p \in Callers,
               SnapCopy(p) \/ SnapPause(p) \/ SnapPatch(p) \/ SnapDump(p) \/ SnapHook(p)
                 \/ SnapMetadata(p) \/ SnapUnpatch(p) \/ SnapUnpatchFails(p)
        PROVE  JobInv'
    <2>1. job[p].raw \in BOOLEAN
      BY <1>0 DEF Job
    <2>2. CASE SnapCopy(p)
      BY <2>2, <1>c DEF SnapCopy, SnapPcs, Frozen
    <2>3. CASE SnapPause(p)
      BY <2>3, <1>c, <2>1 DEF SnapPause, SnapPcs, Frozen
    <2>4. CASE SnapPatch(p) \/ SnapHook(p)
      BY <2>4, <1>c DEF SnapPatch, SnapHook, SnapPcs, Frozen
    <2>5. CASE SnapDump(p)
      BY <2>5, <1>c, <2>1 DEF SnapDump, SnapPcs, Frozen
    <2>6. CASE SnapMetadata(p)
      BY <2>6, <1>c, <2>1 DEF SnapMetadata, Deferred, SnapPcs, Frozen
    <2>7. CASE SnapUnpatch(p) \/ SnapUnpatchFails(p)
      BY <2>7, <1>c DEF SnapUnpatch, SnapUnpatchFails, SnapPcs, Frozen
    <2> QED BY <1>4, <2>2, <2>3, <2>4, <2>5, <2>6, <2>7
  <1>5. ASSUME NEW p \in Callers, SnapFails(p) PROVE JobInv'
    <2>1. CASE job[p].pc \in {"copy", "pause"}
      BY <1>5, <2>1, <1>b DEF SnapFails, Ready
    <2>2. CASE job[p].pc \notin {"copy", "pause"}
      <3>1. /\ job'[p].pc = Deferred(p) /\ job'[p].vm = job[p].vm /\ job'[p].id = job[p].id
            /\ job'[p].raw = job[p].raw
        BY <1>5, <2>2, <1>0 DEF SnapFails, Job
      <3>2. job[p].vm \in Names /\ job[p].id # NoSnap
        BY <1>5, BusyNamed, SnapBlanksAssumption DEF SnapFails
      <3>3. JobAt(p)'
        BY <3>1, <3>2 DEF JobAt, Deferred, Ready, SnapPcs, RestorePcs, Frozen
      <3> QED BY <1>5, <1>a, <3>3, OthersJobs DEF SnapStep
    <2> QED BY <2>1, <2>2
  <1>6. ASSUME NEW p \in Callers, RestoreCopy(p) \/ RestoreLoad(p) \/ RestorePatch(p) PROVE JobInv'
    BY <1>6, <1>c DEF RestoreCopy, RestoreLoad, RestorePatch, RestorePcs
  <1>7. ASSUME NEW p \in Callers,
               SnapResume(p) \/ SnapResumeFails(p) \/ RestoreResume(p) \/ RestoreFails(p)
                 \/ DeleteEnd(p)
        PROVE  JobInv'
    BY <1>7, <1>b
       DEF SnapResume, SnapResumeFails, RestoreResume, RestoreFails, DeleteEnd, Ready
  <1>8. ASSUME NEW p \in Callers, Crash(p) PROVE JobInv'
    <2>1. job'[p] = Idle
      BY <1>8, <1>0 DEF Crash
    <2>2. JobAt(p)'
      BY <2>1 DEF JobAt, Idle, Ready, SnapPcs, RestorePcs, Frozen
    <2> QED BY <1>8, <1>a, <2>2, OthersJobs
  <1>9. ASSUME NEW n \in Names, GuestWrite(n) PROVE JobInv'
    <2>1. \A q \in Callers : JobAt(q)'
      BY <1>9, WriteEffect DEF JobInv, JobAt
    <2> QED BY <2>1, ListedNamed DEF JobInv, Listed
  <1>10. CASE UNCHANGED job
    <2>1. \A q \in Callers : JobAt(q)'
      BY <1>10 DEF JobInv, JobAt
    <2> QED BY <2>1, ListedNamed DEF JobInv, Listed
  <1> QED
    BY <1>1, <1>2, <1>3, <1>4, <1>5, <1>6, <1>7, <1>8, <1>9, <1>10, Zenon
    DEF Next, SnapStep, RestoreStep, DeleteFile, Boot, Exit, PauseVM, ResumeVM, vars

LEMMA JobInvariance == Spec => [](SnapTypeOK /\ JobInv)
  <1>1. Init => SnapTypeOK /\ JobInv
    <2>1. ASSUME Init PROVE SnapTypeOK
      BY <2>1, SnapBlanksTyped DEF Init, SnapTypeOK
    <2>2. ASSUME Init PROVE JobInv
      BY <2>2 DEF Init, JobInv, JobAt, Idle, Ready, SnapPcs, RestorePcs, Frozen, Listed, NoFiles
    <2> QED BY <2>1, <2>2
  <1>2. SnapTypeOK /\ JobInv /\ [Next]_vars => (SnapTypeOK /\ JobInv)'
    BY SnapTypeStep, JobStep
  <1> QED BY <1>1, <1>2, PTL DEF Spec

(* Every variable keeps its type. *)
THEOREM SnapTypeCorrect == Spec => []SnapTypeOK
  BY JobInvariance, PTL

-----------------------------------------------------------------------------
(* Paused VMs.                                                             *)

(* Whom a call harms is marked, and whom it resumes is nobody's. *)
LEMMA HarmedEffect ==
    ASSUME SnapTypeOK, NEW n \in Names, NEW how, Harmed(n, how)
    PROVE  /\ \A m \in Names : m # n => vm'[m] = vm[m]
           /\ vm'[n].state = vm[n].state /\ vm'[n].drive = vm[n].drive
           /\ vm[n].hurt \subseteq vm'[n].hurt
           /\ Booted(vm[n]) => how \subseteq vm'[n].hurt
  <1>1. vm[n] \in VM
    BY DEF SnapTypeOK
  <1> QED BY <1>1, ChangeEffect DEF Harmed, VM

LEMMA ResumedEffect ==
    ASSUME SnapTypeOK, NEW n \in Names, Change(n, GivenBack(vm[n]))
    PROVE  /\ \A m \in Names : m # n => vm'[m] = vm[m]
           /\ vm'[n].state = "running" /\ vm'[n].by = "nobody"
           /\ vm'[n].drive = vm[n].drive /\ vm'[n].hurt = vm[n].hurt \ {"pause"}
  <1>1. vm[n] \in VM
    BY DEF SnapTypeOK
  <1> DEFINE v == GivenBack(vm[n])
  <1>2. /\ v.state = "running" /\ v.by = "nobody" /\ v.drive = vm[n].drive
        /\ v.hurt = vm[n].hurt \ {"pause"}
    BY <1>1 DEF GivenBack, Resumed, VM
  <1> HIDE DEF v
  <1>3. Change(n, v)
    BY DEF v
  <1> QED BY <1>2, <1>3, ChangeEffect

LEMMA PausedEffect ==
    ASSUME SnapTypeOK, NEW n \in Names, NEW by,
           Change(n, PausedBy(vm[n], by))
    PROVE  /\ \A m \in Names : m # n => vm'[m] = vm[m]
           /\ vm'[n].state = "paused" /\ vm'[n].by = by
           /\ vm'[n].drive = vm[n].drive /\ vm'[n].hurt = vm[n].hurt \ {"pause"}
  <1>1. vm[n] \in VM
    BY DEF SnapTypeOK
  <1> DEFINE v == PausedBy(vm[n], by)
  <1>2. /\ v.state = "paused" /\ v.by = by /\ v.drive = vm[n].drive
        /\ v.hurt = vm[n].hurt \ {"pause"}
    BY <1>1 DEF PausedBy, Paused, VM
  <1> HIDE DEF v
  <1>3. Change(n, v)
    BY DEF v
  <1> QED BY <1>2, <1>3, ChangeEffect

LEMMA DriveEffect ==
    ASSUME SnapTypeOK, NEW n \in Names, NEW d, Change(n, [vm[n] EXCEPT !.drive = d])
    PROVE  /\ \A m \in Names : m # n => vm'[m] = vm[m]
           /\ vm'[n].state = vm[n].state /\ vm'[n].by = vm[n].by
           /\ vm'[n].drive = d /\ vm'[n].hurt = vm[n].hurt
  <1>1. vm[n] \in VM
    BY DEF SnapTypeOK
  <1> QED BY <1>1, ChangeEffect DEF VM

LEMMA OnDriveEffect ==
    ASSUME SnapTypeOK, NEW n \in Names, NEW d, Change(n, OnDrive(vm[n], d))
    PROVE  /\ \A m \in Names : m # n => vm'[m] = vm[m]
           /\ vm'[n].state = vm[n].state /\ vm'[n].drive = d
  <1>1. vm[n] \in VM
    BY DEF SnapTypeOK
  <1> DEFINE v == OnDrive(vm[n], d)
  <1>2. v.state = vm[n].state /\ v.drive = d
    BY <1>1 DEF OnDrive, VM
  <1>3. Change(n, v)
    OBVIOUS
  <1> HIDE DEF v
  <1> QED BY <1>2, <1>3, ChangeEffect

(* A PauseVM whose answer was lost leaves the VM paused for nobody, a      *)
(* PatchDrive leaves it on the disk of the snapshot.                       *)
LEMMA AnswerLostEffect ==
    ASSUME SnapTypeOK, JobInv, NEW p \in Callers, AnswerLost(p)
    PROVE  /\ job[p].vm \in Names /\ Booted(vm[job[p].vm])
           /\ \A m \in Names : m # job[p].vm => vm'[m] = vm[m]
           /\ \/ /\ job[p].pc = "pause"
                 /\ vm'[job[p].vm].state = "paused"
                 /\ vm'[job[p].vm].drive = vm[job[p].vm].drive
                 /\ vm'[job[p].vm].hurt = vm[job[p].vm].hurt \cup {"pause"}
              \/ /\ job[p].pc = "patch"
                 /\ vm'[job[p].vm].state = vm[job[p].vm].state
  <1> DEFINE n == job[p].vm
  <1>1. job[p].pc \in {"pause", "patch"} /\ Booted(vm[n])
    BY DEF AnswerLost
  <1>2. n \in Names
    BY <1>1, BusyNamed DEF SnapPcs, Frozen
  <1>3. vm[n] \in VM
    BY <1>2 DEF SnapTypeOK
  <1>4. CASE /\ job[p].pc = "pause"
             /\ Change(n, [PausedBy(vm[n], "job") EXCEPT !.hurt = @ \cup {"pause"}])
    <2> DEFINE v == [PausedBy(vm[n], "job") EXCEPT !.hurt = @ \cup {"pause"}]
    <2>1. /\ v.state = "paused" /\ v.drive = vm[n].drive
          /\ v.hurt = vm[n].hurt \cup {"pause"}
      BY <1>3 DEF PausedBy, Paused, VM
    <2>2. Change(n, v)
      BY <1>4
    <2> HIDE DEF v
    <2> QED BY <1>1, <1>2, <1>4, <2>1, <2>2, ChangeEffect
  <1>5. CASE job[p].pc = "patch" /\ Change(n, [vm[n] EXCEPT !.drive = job[p].id])
    BY <1>1, <1>2, <1>5, DriveEffect
  <1> QED BY <1>4, <1>5 DEF AnswerLost

(* A call's step changes no VM but the one it works on. *)
LEMMA OthersVms ==
    ASSUME SnapTypeOK, JobInv, NEW p \in Callers,
           SnapStep(p) \/ RestoreStep(p) \/ DeleteFile(p) \/ DeleteEnd(p) \/ Crash(p)
    PROVE  \A m \in Names : m = job[p].vm \/ vm'[m] = vm[m]
  <1>1. ASSUME NEW n \in Names, NEW how, Harmed(n, how)
        PROVE  \A m \in Names : m # n => vm'[m] = vm[m]
    BY <1>1, HarmedEffect
  <1>2. ASSUME NEW n \in Names, NEW v, Change(n, v)
        PROVE  \A m \in Names : m # n => vm'[m] = vm[m]
    BY <1>2, ChangeEffect
  <1>3. CASE job[p].vm \in Names
    <2>1. \/ UNCHANGED vm \/ \E how : Harmed(job[p].vm, how)
          \/ \E v : Change(job[p].vm, v)
      BY Zenon DEF SnapStep, RestoreStep, DeleteFile, DeleteEnd, Crash,
           SnapCopy, SnapPause, SnapPatch, SnapDump, SnapHook, SnapMetadata, SnapFails, AnswerLost,
           SnapUnpatch, SnapUnpatchFails, SnapResume, SnapResumeFails,
           RestoreCopy, RestoreLoad, RestorePatch, RestoreResume, RestoreFails
    <2> QED BY <1>1, <1>2, <1>3, <2>1, Zenon
  <1>4. CASE job[p].vm \notin Names
    <2>1. job[p].pc \notin SnapPcs \cup RestorePcs
      BY <1>4, BusyNamed
    <2> QED BY <2>1, Zenon
            DEF SnapStep, RestoreStep, DeleteFile, DeleteEnd, Crash,
                SnapCopy, SnapPause, SnapPatch, SnapDump, SnapHook, SnapMetadata, SnapFails,
                AnswerLost,
                SnapUnpatch, SnapUnpatchFails, SnapResume, SnapResumeFails, RestoreCopy,
                RestoreLoad, RestorePatch, RestoreResume, RestoreFails,
                Held, SnapPcs, RestorePcs, Frozen
  <1> QED BY <1>3, <1>4

(* A VM that a call has paused stays so only as long as the call lasts.    *)
LEMMA PausedStep ==
    ASSUME SnapTypeOK, JobInv, NoneLeftPaused, [Next]_vars
    PROVE  NoneLeftPaused'
  <1> DEFINE Stuck(v) == v.state = "paused" /\ v.by = "job" /\ "pause" \notin v.hurt
  <1>0. job \in [Callers -> Job] /\ vm \in [Names -> VM]
    BY DEF SnapTypeOK
  <1>a. ASSUME NEW p \in Callers, \A q \in Callers : q # p => job'[q] = job[q],
               \A m \in Names : Stuck(vm'[m]) =>
                  \/ job'[p].vm = m /\ job'[p].pc \in Held
                  \/ vm'[m] = vm[m] /\ (job[p].vm # m \/ job[p].pc \notin Held)
        PROVE  NoneLeftPaused'
    <2>1. ASSUME NEW m \in Names, Stuck(vm'[m])
          PROVE  \E q \in Callers : job'[q].vm = m /\ job'[q].pc \in Held
      <3>1. CASE job'[p].vm = m /\ job'[p].pc \in Held
        BY <3>1
      <3>2. CASE vm'[m] = vm[m] /\ (job[p].vm # m \/ job[p].pc \notin Held)
        <4>1. PICK q \in Callers : job[q].vm = m /\ job[q].pc \in Held
          BY <2>1, <3>2 DEF NoneLeftPaused
        <4> QED BY <1>a, <3>2, <4>1
      <3> QED BY <1>a, <2>1, <3>1, <3>2
    <2> QED BY <2>1 DEF NoneLeftPaused
  <1>1. ASSUME NEW p \in Callers,
               \/ \E n \in Names, s \in Snaps, raw \in BOOLEAN : SnapBegin(p, n, s, raw)
               \/ \E n \in Names, s \in Snaps : RestoreBegin(p, n, s)
               \/ \E s \in Snaps : DeleteBegin(p, s)
               \/ SnapCopy(p) \/ RestoreCopy(p) \/ DeleteFile(p) \/ DeleteEnd(p)
        PROVE  NoneLeftPaused'
    <2>1. UNCHANGED vm /\ job[p].pc \notin Held
      BY <1>1, Zenon DEF SnapBegin, RestoreBegin, DeleteBegin, SnapCopy, RestoreCopy, DeleteFile,
                  DeleteEnd, Held, Frozen, Ready
    <2>2. \A q \in Callers : q # p => job'[q] = job[q]
      BY <1>1, OthersJobs DEF SnapStep, RestoreStep
    <2> QED BY <1>a, <2>1, <2>2, Zenon
  <1>2. ASSUME NEW p \in Callers,
               SnapDump(p) \/ SnapHook(p) \/ SnapMetadata(p) \/ SnapUnpatchFails(p)
                 \/ SnapPause(p) \/ SnapPatch(p) \/ SnapUnpatch(p) \/ RestorePatch(p)
        PROVE  NoneLeftPaused'
    <2>1. /\ job[p].vm \in Names
          /\ \A q \in Callers : q # p => job'[q] = job[q]
          /\ job'[p].vm = job[p].vm /\ job'[p].pc \in Held
      <3>1. \E pc \in Held : Goto(p, pc)
        BY <1>2, Zenon
           DEF SnapDump, SnapHook, SnapMetadata, SnapUnpatchFails, SnapPause, SnapPatch,
               SnapUnpatch, RestorePatch, Deferred, Held, Frozen
      <3>2. job[p].pc \in SnapPcs \cup RestorePcs
        BY <1>2, Zenon
           DEF SnapDump, SnapHook, SnapMetadata, SnapUnpatchFails, SnapPause, SnapPatch,
               SnapUnpatch, RestorePatch, Frozen, SnapPcs, RestorePcs
      <3> QED BY <3>1, <3>2, GotoEffect, BusyNamed
    <2>2. \A m \in Names : m # job[p].vm => vm'[m] = vm[m]
      BY <1>2, OthersVms, Zenon DEF SnapStep, RestoreStep
    <2> QED BY <1>a, <2>1, <2>2
  <1>3. ASSUME NEW p \in Callers, RestoreLoad(p) PROVE NoneLeftPaused'
    <2>1. /\ job[p].vm \in Names
          /\ \A q \in Callers : q # p => job'[q] = job[q]
          /\ job'[p].vm = job[p].vm /\ job'[p].pc \in Held
      BY <1>3, GotoEffect, BusyNamed DEF RestoreLoad, Held, RestorePcs
    <2>2. \A m \in Names : m # job[p].vm => vm'[m] = vm[m]
      BY <1>3, <2>1, ChangeEffect DEF RestoreLoad
    <2> QED BY <1>a, <2>1, <2>2
  <1>4. ASSUME NEW p \in Callers, SnapFails(p) PROVE NoneLeftPaused'
    <2>1. \A q \in Callers : q # p => job'[q] = job[q]
      BY <1>4, OthersJobs DEF SnapStep
    <2>4. \A m \in Names : m # job[p].vm => vm'[m] = vm[m]
      BY <1>4, OthersVms, Zenon DEF SnapStep
    <2>2. CASE job[p].pc \in {"copy", "pause"}
      <3>1. job[p].pc \notin Held
        BY <2>2 DEF Held, Frozen
      <3>2. CASE UNCHANGED vm
        BY <1>a, <2>1, <3>1, <3>2
      <3>3. CASE AnswerLost(p)
        <4>1. ~Stuck(vm'[job[p].vm])
          BY <2>2, <3>3, AnswerLostEffect
        <4> QED BY <1>a, <2>1, <2>4, <3>1, <4>1
      <3> QED BY <1>4, <3>2, <3>3 DEF SnapFails
    <2>3. CASE job[p].pc \notin {"copy", "pause"}
      <3>1. job'[p].vm = job[p].vm /\ job'[p].pc \in Held
        BY <1>4, <2>3, <1>0 DEF SnapFails, Deferred, Job, Held, Frozen
      <3> QED BY <1>a, <2>1, <2>4, <3>1
    <2> QED BY <2>2, <2>3
  <1>5. ASSUME NEW p \in Callers,
               SnapResume(p) \/ SnapResumeFails(p) \/ RestoreResume(p) \/ RestoreFails(p)
        PROVE  NoneLeftPaused'
    <2>1. /\ job[p].vm \in Names
          /\ \A q \in Callers : q # p => job'[q] = job[q]
      BY <1>5, BusyNamed, OthersJobs
         DEF SnapStep, RestoreStep, SnapResume, SnapResumeFails, RestoreResume, RestoreFails,
             Frozen, SnapPcs, RestorePcs
    <2>2. \A m \in Names : m # job[p].vm => vm'[m] = vm[m]
      BY <1>5, OthersVms, Zenon DEF SnapStep, RestoreStep
    <2>3. ~Stuck(vm'[job[p].vm])
      <3>1. CASE Change(job[p].vm, GivenBack(vm[job[p].vm]))
        BY <2>1, <3>1, ResumedEffect
      <3>2. CASE Harmed(job[p].vm, {"pause"})
        BY <2>1, <3>2, HarmedEffect DEF Booted
      <3>3. CASE RestoreFails(p)
        BY <2>1, <3>3, ChangeEffect DEF RestoreFails, Gone
      <3> QED BY <1>5, <3>1, <3>2, <3>3, Zenon DEF SnapResume, SnapResumeFails, RestoreResume
    <2> QED BY <1>a, <2>1, <2>2, <2>3
  <1>6. ASSUME NEW p \in Callers, Crash(p) PROVE NoneLeftPaused'
    <2>1. \A q \in Callers : q # p => job'[q] = job[q]
      BY <1>6, OthersJobs
    <2>2. CASE job[p].pc \in Held
      <3>1. job[p].vm \in Names
        BY <2>2, BusyNamed DEF Held, SnapPcs, RestorePcs
      <3>2. PICK how : Harmed(job[p].vm, how) /\ "pause" \in how
        BY <1>6, <2>2 DEF Crash
      <3>3. ~Stuck(vm'[job[p].vm])
        BY <3>1, <3>2, HarmedEffect DEF Booted
      <3> QED BY <1>a, <2>1, <3>1, <3>2, <3>3, HarmedEffect
    <2>3. CASE job[p].pc \notin Held
      BY <1>6, <1>a, <2>1, <2>3 DEF Crash
    <2> QED BY <2>2, <2>3
  <1>7. ASSUME NEW n \in Names, Boot(n) \/ Exit(n) \/ PauseVM(n) \/ ResumeVM(n)
        PROVE  NoneLeftPaused'
    <2>1. UNCHANGED job /\ \A m \in Names : m # n => vm'[m] = vm[m]
      BY <1>7, ChangeEffect DEF Boot, Exit, PauseVM, ResumeVM
    <2>2. ~Stuck(vm'[n])
      <3>1. CASE Boot(n)
        <4>1. [Gone EXCEPT !.state = "running", !.drive = n, !.tap = Tap[n]].state = "running"
          BY DEF Gone
        <4> QED BY <3>1, <4>1, ChangeEffect DEF Boot
      <3>2. CASE Exit(n)
        BY <3>2, ChangeEffect DEF Exit, Gone
      <3>3. CASE PauseVM(n)
        <4>1. Change(n, PausedBy(vm[n], "user")) /\ "user" # "job"
          BY <3>3 DEF PauseVM
        <4>2. vm'[n].by = "user"
          BY <4>1, PausedEffect
        <4> QED BY <4>1, <4>2
      <3>4. CASE ResumeVM(n)
        BY <3>4, ResumedEffect DEF ResumeVM
      <3> QED BY <1>7, <3>1, <3>2, <3>3, <3>4
    <2> QED BY <2>1, <2>2 DEF NoneLeftPaused
  <1>8. ASSUME NEW n \in Names, GuestWrite(n) PROVE NoneLeftPaused'
    BY <1>8, WriteEffect DEF NoneLeftPaused, GuestWrite
  <1>9. CASE UNCHANGED <<vm, job>>
    BY <1>9 DEF NoneLeftPaused
  <1> QED
    BY <1>1, <1>2, <1>3, <1>4, <1>5, <1>6, <1>7, <1>8, <1>9
    DEF Next, SnapStep, RestoreStep, vars

(* No VM stays paused for a snapshot or restore that is over, whichever of *)
(* its steps between the pause and the resume has failed and whoever else  *)
(* uses the VM.  As NoneLeftPaused says, three ways to be left paused are  *)
(* exempt: the ResumeVM itself failed, the caller died, or PauseVM took    *)
(* effect and its answer was lost.                                         *)
THEOREM PausedAreResumed == Spec => []NoneLeftPaused
  <1>1. Init => NoneLeftPaused
    BY DEF Init, NoneLeftPaused, Gone
  <1>2. SnapTypeOK /\ JobInv /\ NoneLeftPaused /\ [Next]_vars => NoneLeftPaused'
    BY PausedStep
  <1> QED BY <1>1, <1>2, JobInvariance, PTL DEF Spec

-----------------------------------------------------------------------------
(* The disk of a running guest.                                            *)

(* A VM that is in use is used by nobody else. *)
LEMMA UnusedMeans ==
    ASSUME SnapTypeOK, JobInv, NEW n \in Names, Unused(n)
    PROVE  \A q \in Callers : job[q].vm # n
  BY SnapBlanksAssumption DEF Unused, JobInv, JobAt, Ready

(* A VM that is held for a snapshot or a restore does not run. *)
LEMMA HeldStep ==
    ASSUME Alone, SnapTypeOK, JobInv, HeldInv, [Next]_vars
    PROVE  HeldInv'
  <1>0. job \in [Callers -> Job] /\ vm \in [Names -> VM]
    BY DEF SnapTypeOK
  <1>a. ASSUME NEW p \in Callers, \A q \in Callers : q # p => job'[q] = job[q],
               \/ job'[p].vm \in {job[p].vm, NoName}
               \/ \A q \in Callers : q # p => job[q].vm # job'[p].vm,
               \A m \in Names : vm'[m].state = "running" =>
                  vm[m].state = "running" \/ m = job[p].vm,
               job'[p].pc \in Held => vm'[job'[p].vm].state # "running"
        PROVE  HeldInv'
    <2>1. ASSUME NEW q \in Callers, NEW r \in Callers, job'[q].vm = job'[r].vm,
                 job'[r].vm # NoName
          PROVE  q = r
      BY <1>a, <2>1 DEF HeldInv
    <2>2. ASSUME NEW q \in Callers, job'[q].pc \in Held
          PROVE  vm'[job'[q].vm].state # "running"
      <3>1. CASE q = p
        BY <1>a, <2>2, <3>1
      <3>2. CASE q # p
        <4>1. job'[q] = job[q] /\ job[q].vm \in Names
          BY <1>a, <2>2, <3>2, BusyNamed DEF Held, SnapPcs, RestorePcs
        <4>2. job[q].vm # job[p].vm
          BY <3>2, <4>1, SnapBlanksAssumption DEF HeldInv
        <4> QED BY <1>a, <2>2, <4>1, <4>2 DEF HeldInv
      <3> QED BY <3>1, <3>2
    <2> QED BY <2>1, <2>2 DEF HeldInv
  <1>1. ASSUME NEW p \in Callers, NEW n \in Names,
               \/ \E s \in Snaps, raw \in BOOLEAN : SnapBegin(p, n, s, raw)
               \/ \E s \in Snaps : RestoreBegin(p, n, s)
        PROVE  HeldInv'
    <2>1. Unused(n) /\ UNCHANGED vm
      BY <1>1, Zenon DEF SnapBegin, RestoreBegin, MayUse
    <2>2. job'[p].vm = n /\ job'[p].pc \notin Held
      <3>1. CASE \E s \in Snaps, raw \in BOOLEAN : SnapBegin(p, n, s, raw)
        BY <3>1, <1>0 DEF SnapBegin, Idle, Held, Frozen
      <3>2. CASE \E s \in Snaps : RestoreBegin(p, n, s)
        BY <3>2, <1>0 DEF RestoreBegin, Idle, Held, Frozen
      <3> QED BY <1>1, <3>1, <3>2
    <2>3. \A q \in Callers : q # p => job'[q] = job[q]
      BY <1>1, OthersJobs
    <2> QED BY <1>a, <2>1, <2>2, <2>3, UnusedMeans
  <1>2. ASSUME NEW p \in Callers,
               DeleteFile(p) \/ DeleteEnd(p) \/ (\E s \in Snaps : DeleteBegin(p, s))
        PROVE  HeldInv'
    <2>1. UNCHANGED vm /\ \A q \in Callers : q # p => job'[q] = job[q]
      BY <1>2, OthersJobs, Zenon DEF DeleteFile, DeleteEnd, DeleteBegin
    <2>2. UNCHANGED job \/ (job'[p].vm = NoName /\ job'[p].pc \notin Held)
      <3>1. CASE DeleteFile(p)
        BY <3>1 DEF DeleteFile
      <3>2. CASE DeleteEnd(p)
        BY <3>2, ReturnEffect DEF DeleteEnd, Held, Frozen
      <3>3. CASE \E s \in Snaps : DeleteBegin(p, s)
        BY <3>3, <1>0 DEF DeleteBegin, Idle, Held, Frozen
      <3> QED BY <1>2, <3>1, <3>2, <3>3
    <2> QED BY <1>a, <2>1, <2>2, Zenon DEF HeldInv
  <1>3. ASSUME NEW p \in Callers, SnapCopy(p) \/ RestoreCopy(p) PROVE HeldInv'
    <2>1. job'[p].vm = job[p].vm /\ job'[p].pc \notin Held /\ UNCHANGED vm
      BY <1>3, GotoEffect DEF SnapCopy, RestoreCopy, Held, Frozen
    <2> QED BY <1>3, <1>a, <2>1, OthersJobs DEF SnapStep, RestoreStep
  <1>4. ASSUME NEW p \in Callers,
               SnapPause(p) \/ SnapPatch(p) \/ SnapDump(p) \/ SnapHook(p) \/ SnapMetadata(p)
                 \/ SnapUnpatch(p) \/ SnapUnpatchFails(p) \/ RestoreLoad(p) \/ RestorePatch(p)
        PROVE  HeldInv'
    <2>1. /\ job[p].vm \in Names /\ job'[p].vm = job[p].vm
          /\ \A q \in Callers : q # p => job'[q] = job[q]
      <3>1. \E pc : Goto(p, pc)
        BY <1>4, Zenon
           DEF SnapPause, SnapPatch, SnapDump, SnapHook, SnapMetadata, SnapUnpatch,
               SnapUnpatchFails, RestoreLoad, RestorePatch
      <3>2. job[p].pc \in SnapPcs \cup RestorePcs
        BY <1>4, Zenon
           DEF SnapPause, SnapPatch, SnapDump, SnapHook, SnapMetadata, SnapUnpatch,
               SnapUnpatchFails, RestoreLoad, RestorePatch, Frozen, SnapPcs, RestorePcs
      <3> QED BY <3>1, <3>2, GotoEffect, BusyNamed
    <2>2. \A m \in Names : m # job[p].vm => vm'[m] = vm[m]
      BY <1>4, OthersVms, Zenon DEF SnapStep, RestoreStep
    <2>3. vm'[job[p].vm].state # "running"
      <3>1. CASE SnapPause(p)
        BY <2>1, <3>1, PausedEffect DEF SnapPause
      <3>2. CASE RestoreLoad(p)
        <4>1. \A d, t : [Gone EXCEPT !.state = "paused", !.by = "job",
                                     !.drive = d, !.tap = t].state = "paused"
          BY DEF Gone
        <4>2. PICK v : Change(job[p].vm, v) /\ v.state = "paused"
          BY <3>2, <4>1 DEF RestoreLoad
        <4> QED BY <2>1, <4>2, ChangeEffect
      <3>3. CASE ~SnapPause(p) /\ ~RestoreLoad(p)
        <4>1. job[p].pc \in Held
          BY <1>4, <3>3, Zenon
             DEF SnapPatch, SnapDump, SnapHook, SnapMetadata, SnapUnpatch, SnapUnpatchFails,
                 RestorePatch, Held, Frozen
        <4>2. vm'[job[p].vm].state = vm[job[p].vm].state
          BY <1>4, <2>1, <3>3, HarmedEffect, DriveEffect, OnDriveEffect, Zenon
             DEF SnapPatch, SnapDump, SnapHook, SnapMetadata, SnapUnpatch, SnapUnpatchFails,
                 RestorePatch
        <4> QED BY <4>1, <4>2 DEF HeldInv
      <3> QED BY <3>1, <3>2, <3>3
    <2> QED BY <1>a, <2>1, <2>2, <2>3, Zenon
  <1>5. ASSUME NEW p \in Callers, SnapFails(p) PROVE HeldInv'
    <2>1. \A q \in Callers : q # p => job'[q] = job[q]
      BY <1>5, OthersJobs DEF SnapStep
    <2>4. \A m \in Names :
             vm'[m].state = vm[m].state \/ (vm'[m].state = "paused" /\ m = job[p].vm)
      <3>1. CASE UNCHANGED vm
        BY <3>1
      <3>2. CASE AnswerLost(p)
        BY <3>2, AnswerLostEffect
      <3> QED BY <1>5, <3>1, <3>2 DEF SnapFails
    <2>2. CASE job[p].pc \in {"copy", "pause"}
      <3>1. job'[p].vm = NoName /\ job'[p].pc \notin Held
        BY <1>5, <2>2, ReturnEffect DEF SnapFails, Held, Frozen
      <3> QED BY <1>a, <2>1, <2>4, <3>1
    <2>3. CASE job[p].pc \notin {"copy", "pause"}
      <3>1. job'[p].vm = job[p].vm /\ job[p].pc \in Held
        BY <1>5, <2>3, <1>0 DEF SnapFails, Job, Held, SnapPcs
      <3>2. vm[job[p].vm].state # "running" /\ job[p].vm \in Names
        BY <3>1, BusyNamed DEF HeldInv, Held, SnapPcs, RestorePcs
      <3> QED BY <1>a, <2>1, <2>4, <3>1, <3>2
    <2> QED BY <2>2, <2>3
  <1>6. ASSUME NEW p \in Callers,
               SnapResume(p) \/ SnapResumeFails(p) \/ RestoreResume(p) \/ RestoreFails(p)
        PROVE  HeldInv'
    <2>1. /\ job[p].vm \in Names /\ job'[p].vm = NoName /\ job'[p].pc \notin Held
          /\ \A q \in Callers : q # p => job'[q] = job[q]
      BY <1>6, BusyNamed, ReturnEffect
         DEF SnapResume, SnapResumeFails, RestoreResume, RestoreFails,
             Held, Frozen, SnapPcs, RestorePcs
    <2>2. \A m \in Names : m # job[p].vm => vm'[m] = vm[m]
      BY <1>6, OthersVms, Zenon DEF SnapStep, RestoreStep
    <2> QED BY <1>a, <2>1, <2>2
  <1>7. ASSUME NEW p \in Callers, Crash(p) PROVE HeldInv'
    <2>1. /\ job'[p] = Idle /\ Idle.vm = NoName /\ Idle.pc \notin Held
          /\ \A q \in Callers : q # p => job'[q] = job[q]
      BY <1>7, <1>0 DEF Crash, Idle, Held, Frozen
    <2>2. \A m \in Names : vm'[m].state = vm[m].state
      <3>1. CASE job[p].pc \in Held
        <4>1. job[p].vm \in Names
          BY <3>1, BusyNamed DEF Held, SnapPcs, RestorePcs
        <4> QED BY <1>7, <3>1, <4>1, HarmedEffect DEF Crash
      <3>2. CASE job[p].pc \notin Held
        BY <1>7, <3>2 DEF Crash
      <3> QED BY <3>1, <3>2
    <2> QED BY <1>a, <2>1, <2>2
  <1>8. ASSUME NEW n \in Names, Boot(n) \/ Exit(n) \/ PauseVM(n) \/ ResumeVM(n)
        PROVE  HeldInv'
    <2>1. UNCHANGED job /\ \A m \in Names : m # n => vm'[m] = vm[m]
      BY <1>8, ChangeEffect DEF Boot, Exit, PauseVM, ResumeVM
    <2>2. Unused(n) \/ vm'[n].state # "running"
      <3>1. CASE Boot(n) \/ ResumeVM(n)
        BY <3>1 DEF Boot, ResumeVM, MayUse
      <3>2. CASE Exit(n)
        BY <3>2, ChangeEffect DEF Exit, Gone
      <3>3. CASE PauseVM(n)
        BY <3>3, PausedEffect DEF PauseVM
      <3> QED BY <1>8, <3>1, <3>2, <3>3
    <2>3. ASSUME NEW q \in Callers, job[q].pc \in Held PROVE vm'[job[q].vm].state # "running"
      <3>1. job[q].vm \in Names
        BY <2>3, BusyNamed DEF Held, SnapPcs, RestorePcs
      <3>2. vm[job[q].vm].state # "running"
        BY <2>3 DEF HeldInv
      <3> QED BY <2>1, <2>2, <3>1, <3>2, UnusedMeans
    <2> QED BY <2>1, <2>3 DEF HeldInv
  <1>9. ASSUME NEW n \in Names, GuestWrite(n) PROVE HeldInv'
    BY <1>9, WriteEffect DEF HeldInv, GuestWrite
  <1>10. CASE UNCHANGED vars
    BY <1>10 DEF HeldInv, vars
  <1> QED
    BY <1>1, <1>2, <1>3, <1>4, <1>5, <1>6, <1>7, <1>8, <1>9, <1>10
    DEF Next, SnapStep, RestoreStep

(* A VM that is not on its own disk is in the hands of a call. *)
LEMMA DriveStep ==
    ASSUME SnapTypeOK, JobInv, DriveInv, [Next]_vars
    PROVE  DriveInv'
  <1> DEFINE Off(v, m) == v.state # "gone" /\ "drive" \notin v.hurt /\ v.drive # m
  <1>0. job \in [Callers -> Job] /\ vm \in [Names -> VM]
    BY DEF SnapTypeOK
  <1>a. ASSUME NEW p \in Callers, \A q \in Callers : q # p => job'[q] = job[q],
               \A m \in Names : Off(vm'[m], m) =>
                  \/ job'[p].vm = m /\ Moves(p)'
                  \/ Off(vm[m], m) /\ (job[p].vm # m \/ ~Moves(p))
        PROVE  DriveInv'
    <2>1. ASSUME NEW m \in Names, Off(vm'[m], m)
          PROVE  \E q \in Callers : job'[q].vm = m /\ Moves(q)'
      <3>1. CASE job'[p].vm = m /\ Moves(p)'
        BY <3>1
      <3>2. CASE Off(vm[m], m) /\ (job[p].vm # m \/ ~Moves(p))
        <4>1. PICK q \in Callers : job[q].vm = m /\ Moves(q)
          BY <3>2 DEF DriveInv
        <4>2. q # p
          BY <3>2, <4>1
        <4> QED BY <1>a, <4>1, <4>2 DEF Moves
      <3> QED BY <1>a, <2>1, <3>1, <3>2
    <2> QED BY <2>1 DEF DriveInv
  <1>1. ASSUME NEW p \in Callers,
               \/ \E n \in Names, s \in Snaps, raw \in BOOLEAN : SnapBegin(p, n, s, raw)
               \/ \E n \in Names, s \in Snaps : RestoreBegin(p, n, s)
               \/ \E s \in Snaps : DeleteBegin(p, s)
               \/ SnapCopy(p) \/ RestoreCopy(p) \/ DeleteFile(p) \/ DeleteEnd(p)
        PROVE  DriveInv'
    <2>1. UNCHANGED vm /\ ~Moves(p)
      BY <1>1, Zenon DEF SnapBegin, RestoreBegin, DeleteBegin, SnapCopy, RestoreCopy, DeleteFile,
                  DeleteEnd, Moves, Ready
    <2>2. \A q \in Callers : q # p => job'[q] = job[q]
      BY <1>1, OthersJobs DEF SnapStep, RestoreStep
    <2> QED BY <1>a, <2>1, <2>2, Zenon
  <1>2. ASSUME NEW p \in Callers,
               SnapDump(p) \/ SnapHook(p) \/ SnapMetadata(p) \/ (SnapFails(p) /\ UNCHANGED vm)
        PROVE  DriveInv'
    <2>1. UNCHANGED vm /\ \A q \in Callers : q # p => job'[q] = job[q]
      BY <1>2, OthersJobs, Zenon DEF SnapStep, SnapDump, SnapHook, SnapMetadata
    <2>2. job[p].pc = "hook" => job[p].raw
      BY DEF JobInv, JobAt
    <2>3. CASE ~Moves(p)
      BY <1>a, <2>1, <2>3
    <2>4. CASE Moves(p)
      <3>1. /\ ~job[p].raw /\ job'[p].vm = job[p].vm /\ ~job'[p].raw
            /\ job'[p].pc \in {"dump", "metadata", "unpatch"}
        <4>1. CASE SnapFails(p)
          BY <4>1, <2>4, <1>0 DEF SnapFails, Moves, Deferred, Job, SnapPcs, Frozen
        <4>2. CASE SnapDump(p)
          BY <2>4, <4>2, GotoEffect DEF SnapDump, Moves
        <4>3. CASE SnapHook(p)
          BY <2>2, <2>4, <4>3 DEF SnapHook, Moves
        <4>4. CASE SnapMetadata(p)
          BY <2>4, <4>4, GotoEffect DEF SnapMetadata, Moves, Deferred
        <4> QED BY <1>2, <4>1, <4>2, <4>3, <4>4, Zenon
      <3>2. Moves(p)'
        BY <3>1 DEF Moves
      <3> QED BY <1>a, <2>1, <3>1, <3>2
    <2> QED BY <2>3, <2>4
  <1>b. ASSUME NEW p \in Callers, job[p].vm \in Names, \A q \in Callers : q # p => job'[q] = job[q],
               \A m \in Names : m # job[p].vm => vm'[m] = vm[m],
               \/ vm'[job[p].vm].state = "gone" \/ "drive" \in vm'[job[p].vm].hurt
               \/ vm'[job[p].vm].drive = job[p].vm
               \/ job'[p].vm = job[p].vm /\ Moves(p)'
               \/ ~Moves(p) /\ (Off(vm'[job[p].vm], job[p].vm) => Off(vm[job[p].vm], job[p].vm))
        PROVE  DriveInv'
    BY <1>a, <1>b
  <1>11. ASSUME NEW p \in Callers, SnapFails(p), AnswerLost(p) PROVE DriveInv'
    <2>1. \A q \in Callers : q # p => job'[q] = job[q]
      BY <1>11, OthersJobs DEF SnapStep
    <2>2. CASE job[p].pc = "pause"
      <3>1. ~Moves(p)
        BY <2>2 DEF Moves
      <3>2. Off(vm'[job[p].vm], job[p].vm) => Off(vm[job[p].vm], job[p].vm)
        BY <1>11, <2>2, AnswerLostEffect DEF Booted
      <3> QED BY <1>b, <1>11, <2>1, <3>1, <3>2, AnswerLostEffect
    <2>3. CASE job[p].pc = "patch"
      <3>1. job'[p].vm = job[p].vm /\ job'[p].pc = "unpatch" /\ ~job'[p].raw
        BY <1>11, <1>0, <2>3 DEF SnapFails, Deferred, Job, JobInv, JobAt
      <3>2. Moves(p)'
        BY <3>1 DEF Moves
      <3> QED BY <1>b, <1>11, <2>1, <3>1, <3>2, AnswerLostEffect
    <2> QED BY <1>11, <2>2, <2>3 DEF AnswerLost
  <1>3. ASSUME NEW p \in Callers,
               SnapPause(p) \/ SnapResume(p) \/ SnapResumeFails(p) \/ RestoreResume(p)
        PROVE  DriveInv'
    <2>1. /\ job[p].vm \in Names /\ ~Moves(p)
          /\ \A q \in Callers : q # p => job'[q] = job[q]
      BY <1>3, BusyNamed, OthersJobs
         DEF SnapStep, RestoreStep, SnapPause, SnapResume, SnapResumeFails, RestoreResume,
             Moves, Frozen, SnapPcs, RestorePcs
    <2>2. \A m \in Names : m # job[p].vm => vm'[m] = vm[m]
      BY <1>3, OthersVms, Zenon DEF SnapStep, RestoreStep
    <2>3. Off(vm'[job[p].vm], job[p].vm) => Off(vm[job[p].vm], job[p].vm)
      <3>1. CASE Booted(vm[job[p].vm]) /\ Change(job[p].vm, PausedBy(vm[job[p].vm], "job"))
        BY <2>1, <3>1, PausedEffect DEF Booted
      <3>2. CASE Booted(vm[job[p].vm]) /\ Change(job[p].vm, GivenBack(vm[job[p].vm]))
        BY <2>1, <3>2, ResumedEffect DEF Booted
      <3>3. CASE Harmed(job[p].vm, {"pause"})
        BY <2>1, <3>3, HarmedEffect
      <3> QED BY <1>3, <3>1, <3>2, <3>3, Zenon
              DEF SnapPause, SnapResume, SnapResumeFails, RestoreResume
    <2> QED BY <1>b, <2>1, <2>2, <2>3
  <1>4. ASSUME NEW p \in Callers, SnapPatch(p) \/ SnapUnpatch(p) \/ RestorePatch(p)
        PROVE  DriveInv'
    <2>1. /\ job[p].vm \in Names /\ job'[p].vm = job[p].vm
          /\ \A q \in Callers : q # p => job'[q] = job[q]
      BY <1>4, BusyNamed, GotoEffect
         DEF SnapPatch, SnapUnpatch, RestorePatch, Frozen, SnapPcs, RestorePcs
    <2>2. \A m \in Names : m # job[p].vm => vm'[m] = vm[m]
      BY <1>4, <2>1, ChangeEffect DEF SnapPatch, SnapUnpatch, RestorePatch
    <2>3. CASE SnapPatch(p)
      <3>1. job'[p].pc = "dump" /\ ~job'[p].raw
        BY <2>3, GotoEffect DEF SnapPatch, JobInv, JobAt
      <3>2. Moves(p)'
        BY <3>1 DEF Moves
      <3> QED BY <1>b, <2>1, <2>2, <3>2
    <2>4. CASE SnapUnpatch(p) \/ RestorePatch(p)
      <3>1. vm'[job[p].vm].drive = job[p].vm
        BY <2>1, <2>4, OnDriveEffect DEF SnapUnpatch, RestorePatch
      <3> QED BY <1>b, <2>1, <2>2, <3>1
    <2> QED BY <1>4, <2>3, <2>4
  <1>5. ASSUME NEW p \in Callers, RestoreLoad(p) PROVE DriveInv'
    <2>1. /\ job[p].vm \in Names /\ job'[p].vm = job[p].vm /\ job'[p].pc = "r-patch"
          /\ \A q \in Callers : q # p => job'[q] = job[q]
      BY <1>5, BusyNamed, GotoEffect DEF RestoreLoad, RestorePcs
    <2>2. \A m \in Names : m # job[p].vm => vm'[m] = vm[m]
      BY <1>5, <2>1, ChangeEffect DEF RestoreLoad
    <2>3. Moves(p)'
      BY <2>1 DEF Moves
    <2> QED BY <1>b, <2>1, <2>2, <2>3
  <1>6. ASSUME NEW p \in Callers, SnapUnpatchFails(p) \/ RestoreFails(p)
        PROVE  DriveInv'
    <2>1. /\ job[p].vm \in Names
          /\ \A q \in Callers : q # p => job'[q] = job[q]
      BY <1>6, BusyNamed, OthersJobs
         DEF SnapStep, RestoreStep, SnapUnpatchFails, RestoreFails,
             Frozen, SnapPcs, RestorePcs
    <2>2. \A m \in Names : m # job[p].vm => vm'[m] = vm[m]
      BY <1>6, OthersVms, Zenon DEF SnapStep, RestoreStep
    <2>3. vm'[job[p].vm].state = "gone" \/ "drive" \in vm'[job[p].vm].hurt
      <3>1. CASE RestoreFails(p)
        BY <2>1, <3>1, ChangeEffect DEF RestoreFails, Gone
      <3>2. CASE SnapUnpatchFails(p)
        <4>1. Harmed(job[p].vm, {"drive"}) /\ vm[job[p].vm] \in VM
          BY <1>0, <2>1, <3>2 DEF SnapUnpatchFails
        <4> QED BY <2>1, <4>1, HarmedEffect DEF Booted, VM
      <3> QED BY <1>6, <3>1, <3>2
    <2> QED BY <1>b, <2>1, <2>2, <2>3
  <1>7. ASSUME NEW p \in Callers, Crash(p) PROVE DriveInv'
    <2>1. \A q \in Callers : q # p => job'[q] = job[q]
      BY <1>7, OthersJobs
    <2>2. CASE job[p].pc \in Held
      <3>1. job[p].vm \in Names
        BY <2>2, BusyNamed DEF Held, SnapPcs, RestorePcs
      <3>2. PICK how : Harmed(job[p].vm, how) /\ (Moves(p) => "drive" \in how)
        <4>1. CASE Moves(p)
          BY <1>7, <2>2, <4>1 DEF Crash
        <4>2. CASE ~Moves(p)
          BY <1>7, <2>2, <4>2 DEF Crash
        <4> QED BY <4>1, <4>2
      <3>3. vm[job[p].vm] \in VM
        BY <1>0, <3>1
      <3>4. CASE Moves(p)
        <4>1. vm'[job[p].vm].state = "gone" \/ "drive" \in vm'[job[p].vm].hurt
          BY <3>1, <3>2, <3>3, <3>4, HarmedEffect DEF Booted, VM
        <4> QED BY <1>b, <2>1, <3>1, <3>2, <4>1, HarmedEffect
      <3>5. CASE ~Moves(p)
        <4>1. Off(vm'[job[p].vm], job[p].vm) => Off(vm[job[p].vm], job[p].vm)
          BY <3>1, <3>2, HarmedEffect
        <4> QED BY <1>b, <2>1, <3>1, <3>2, <3>5, <4>1, HarmedEffect
      <3> QED BY <3>4, <3>5
    <2>3. CASE job[p].pc \notin Held
      <3>1. ~Moves(p) /\ UNCHANGED vm
        BY <1>7, <2>3 DEF Crash, Moves, Held, Frozen
      <3> QED BY <1>a, <2>1, <3>1
    <2> QED BY <2>2, <2>3
  <1>8. ASSUME NEW n \in Names, Boot(n) \/ Exit(n) \/ PauseVM(n) \/ ResumeVM(n)
        PROVE  DriveInv'
    <2>1. UNCHANGED job /\ \A m \in Names : m # n => vm'[m] = vm[m]
      BY <1>8, ChangeEffect DEF Boot, Exit, PauseVM, ResumeVM
    <2>2. Off(vm'[n], n) => Off(vm[n], n)
      <3>1. CASE Boot(n)
        <4>1. [Gone EXCEPT !.state = "running", !.drive = n, !.tap = Tap[n]].drive = n
          BY DEF Gone
        <4> QED BY <3>1, <4>1, ChangeEffect DEF Boot
      <3>2. CASE Exit(n)
        BY <3>2, ChangeEffect DEF Exit, Gone
      <3>3. CASE PauseVM(n)
        BY <3>3, PausedEffect DEF PauseVM, Booted
      <3>4. CASE ResumeVM(n)
        BY <3>4, ResumedEffect DEF ResumeVM, Booted
      <3> QED BY <1>8, <3>1, <3>2, <3>3, <3>4
    <2> QED BY <2>1, <2>2 DEF DriveInv, Moves
  <1>9. ASSUME NEW n \in Names, GuestWrite(n) PROVE DriveInv'
    BY <1>9, WriteEffect DEF DriveInv, Moves, GuestWrite
  <1>10. CASE UNCHANGED vars
    BY <1>10 DEF DriveInv, Moves, vars
  <1>12. ASSUME NEW p \in Callers, SnapFails(p) PROVE DriveInv'
    BY <1>2, <1>11, <1>12 DEF SnapFails
  <1> QED
    BY <1>1, <1>2, <1>3, <1>4, <1>5, <1>6, <1>7, <1>8, <1>9, <1>10, <1>12
    DEF Next, SnapStep, RestoreStep

-----------------------------------------------------------------------------
(* The files of a snapshot.                                                *)

(* A call changes the files of its own snapshot only. *)
LEMMA OtherSnaps ==
    ASSUME SnapTypeOK, NEW p \in Callers,
           SnapStep(p) \/ RestoreStep(p) \/ DeleteFile(p) \/ DeleteEnd(p) \/ Crash(p)
    PROVE  \A t \in Snaps : t # job[p].id => snap'[t] = snap[t]
  BY Zenon DEF SnapTypeOK, SnapStep, RestoreStep, DeleteFile, DeleteEnd, Crash,
         SnapCopy, SnapPause, SnapPatch, SnapDump, SnapHook, SnapMetadata, SnapFails,
         SnapUnpatch, SnapUnpatchFails, SnapResume, SnapResumeFails,
         RestoreCopy, RestoreLoad, RestorePatch, RestoreResume, RestoreFails

(* Nobody who has it will add to a snapshot that is being deleted. *)
LEMMA DeleteStep ==
    ASSUME SnapTypeOK, JobInv, TakenInv, DeleteInv, [Next]_vars
    PROVE  DeleteInv'
  <1> DEFINE Dead(r) == r.doomed \/ r.files = {}
  <1>0. job \in [Callers -> Job] /\ snap \in [Snaps -> Snap]
    BY DEF SnapTypeOK
  <1>a. ASSUME NEW p \in Callers, \A q \in Callers : q # p => job'[q] = job[q],
               \A t \in Snaps : Dead(snap[t]) =>
                  Dead(snap'[t]) \/ (job[p].pc \in Taking /\ job[p].id = t),
               job'[p].pc = "delete" => Dead(snap'[job'[p].id])
        PROVE  DeleteInv'
    <2>1. ASSUME NEW q \in Callers, q # p, job[q].pc = "delete"
          PROVE  Dead(snap'[job[q].id])
      <3>1. job[q].id \in Snaps /\ Dead(snap[job[q].id])
        BY <2>1, BusyNamed DEF DeleteInv
      <3>2. ~(job[p].pc \in Taking /\ job[p].id = job[q].id)
        BY <2>1 DEF TakenInv, Taken
      <3> QED BY <1>a, <3>1, <3>2
    <2> QED BY <1>a, <2>1 DEF DeleteInv
  <1>1. ASSUME NEW p \in Callers, SnapStep(p) PROVE DeleteInv'
    <2>1. \A q \in Callers : q # p => job'[q] = job[q]
      BY <1>1, OthersJobs
    <2>2. job'[p].pc # "delete"
      <3>1. CASE SnapFails(p)
        <4>1. CASE job[p].pc \in {"copy", "pause"}
          BY <3>1, <4>1, ReturnEffect DEF SnapFails
        <4>2. CASE job[p].pc \notin {"copy", "pause"}
          BY <3>1, <4>2, <1>0 DEF SnapFails, Deferred, Job
        <4> QED BY <4>1, <4>2
      <3>2. CASE SnapResume(p) \/ SnapResumeFails(p)
        BY <3>2, ReturnEffect DEF SnapResume, SnapResumeFails
      <3>3. CASE \E pc : pc # "delete" /\ Goto(p, pc)
        BY <3>3, GotoEffect
      <3>4. CASE SnapCopy(p) \/ SnapPause(p) \/ SnapPatch(p) \/ SnapDump(p) \/ SnapHook(p)
                   \/ SnapMetadata(p) \/ SnapUnpatch(p) \/ SnapUnpatchFails(p)
        BY <3>3, <3>4, Zenon
           DEF SnapCopy, SnapPause, SnapPatch, SnapDump, SnapHook, SnapMetadata, SnapUnpatch,
               SnapUnpatchFails, Deferred
      <3> QED BY <1>1, <3>1, <3>2, <3>4, Zenon DEF SnapStep
    <2>3. UNCHANGED snap \/ job[p].pc \in Taking
      BY <1>1, Zenon DEF SnapStep, SnapCopy, SnapPause, SnapPatch, SnapDump, SnapHook, SnapMetadata,
                  SnapFails, SnapUnpatch, SnapUnpatchFails, SnapResume, SnapResumeFails,
                  Taking, SnapPcs, Frozen
    <2> QED BY <1>1, <1>a, <2>1, <2>2, <2>3, OtherSnaps
  <1>2. ASSUME NEW p \in Callers, RestoreStep(p) \/ Crash(p) PROVE DeleteInv'
    <2>1. UNCHANGED snap /\ \A q \in Callers : q # p => job'[q] = job[q]
      BY <1>2, OthersJobs, Zenon DEF RestoreStep, RestoreCopy, RestoreLoad, RestorePatch, RestoreResume,
                              RestoreFails, Crash
    <2>2. job'[p].pc # "delete"
      <3>1. CASE Crash(p)
        BY <3>1, <1>0 DEF Crash, Idle
      <3>2. CASE RestoreStep(p)
        BY <3>2, GotoEffect, ReturnEffect
           DEF RestoreStep, RestoreCopy, RestoreLoad, RestorePatch, RestoreResume, RestoreFails
      <3> QED BY <1>2, <3>1, <3>2
    <2> QED BY <1>a, <2>1, <2>2, Zenon
  <1>3. ASSUME NEW p \in Callers, NEW n \in Names, NEW s \in Snaps, NEW raw \in BOOLEAN,
               SnapBegin(p, n, s, raw)
        PROVE  DeleteInv'
    <2>1. /\ \A t \in Snaps : snap'[t].files = IF t = s THEN {} ELSE snap[t].files
          /\ \A t \in Snaps : t # s => snap'[t] = snap[t]
      BY <1>3, <1>0 DEF SnapBegin, NoFiles
    <2>2. job'[p].pc # "delete"
      BY <1>3, <1>0 DEF SnapBegin, Idle
    <2> QED BY <1>3, <1>a, <2>1, <2>2, OthersJobs
  <1>4. ASSUME NEW p \in Callers, NEW n \in Names, NEW s \in Snaps, RestoreBegin(p, n, s)
        PROVE  DeleteInv'
    <2>1. job'[p].pc # "delete" /\ UNCHANGED snap
      BY <1>4, <1>0 DEF RestoreBegin, Idle
    <2> QED BY <1>4, <1>a, <2>1, OthersJobs
  <1>5. ASSUME NEW p \in Callers, NEW s \in Snaps, DeleteBegin(p, s) PROVE DeleteInv'
    <2>1. job'[p].id = s
      BY <1>5, <1>0 DEF DeleteBegin, Idle
    <2>2. \A t \in Snaps : snap'[t] = snap[t] \/ snap'[t].doomed
      BY <1>5, <1>0 DEF DeleteBegin, Snap
    <2>3. snap'[s].doomed
      BY <1>5, <1>0 DEF DeleteBegin, Snap
    <2> QED BY <1>5, <1>a, <2>1, <2>2, <2>3, OthersJobs
  <1>6. ASSUME NEW p \in Callers, DeleteFile(p) \/ DeleteEnd(p) PROVE DeleteInv'
    <2>1. /\ job[p].id \in Snaps /\ Dead(snap[job[p].id])
          /\ \A q \in Callers : q # p => job'[q] = job[q]
          /\ \A t \in Snaps : t # job[p].id => snap'[t] = snap[t]
      BY <1>6, BusyNamed, OthersJobs, OtherSnaps DEF DeleteFile, DeleteEnd, DeleteInv
    <2>2. CASE DeleteFile(p)
      <3>1. snap'[job[p].id].doomed = snap[job[p].id].doomed /\ snap[job[p].id].files # {}
        BY <1>0, <2>1, <2>2 DEF DeleteFile, Snap
      <3> QED BY <1>a, <2>1, <2>2, <3>1 DEF DeleteFile
    <2>3. CASE DeleteEnd(p)
      <3>1. snap'[job[p].id].files = {} /\ job'[p].pc # "delete"
        BY <1>0, <2>1, <2>3, ReturnEffect DEF DeleteEnd, NoFiles
      <3> QED BY <1>a, <2>1, <3>1
    <2> QED BY <1>6, <2>2, <2>3
  <1>7. ASSUME NEW n \in Names, GuestWrite(n) PROVE DeleteInv'
    BY <1>7, WriteEffect DEF DeleteInv, GuestWrite
  <1>8. CASE UNCHANGED <<snap, job>>
    BY <1>8 DEF DeleteInv
  <1> QED
    BY <1>1, <1>2, <1>3, <1>4, <1>5, <1>6, <1>7, <1>8
    DEF Next, Boot, Exit, PauseVM, ResumeVM, vars

(* A snapshot that is being taken has what its steps so far have written.  *)
LEMMA TakenStep ==
    ASSUME Alone, SnapTypeOK, JobInv, HeldInv, TakenInv, [Next]_vars
    PROVE  TakenInv'
  <1>0. /\ job \in [Callers -> Job] /\ snap \in [Snaps -> Snap]
        /\ vm \in [Names -> VM]
    BY DEF SnapTypeOK
  <1>a. ASSUME NEW p \in Callers, \A q \in Callers : q # p => job'[q] = job[q],
               \/ job'[p].id \in {job[p].id, NoSnap}
               \/ \A q \in Callers : job[q].id = job'[p].id => job[q].pc \notin Taking,
               \A t \in Snaps :
                  \/ t = job[p].id \/ snap'[t] = snap[t]
                  \/ \A q \in Callers : job[q].id = t => job[q].pc \notin Taking,
               \A m \in Names : m = job[p].vm \/ vm'[m] = vm[m],
               job'[p].pc \in Taking => Taken(p)'
        PROVE  TakenInv'
    <2>1. ASSUME NEW q \in Callers, q # p, job[q].pc \in Taking PROVE Taken(q)'
      <3>1. /\ job'[q] = job[q] /\ Taken(q)
            /\ job[q].id \in Snaps /\ job[q].vm \in Names /\ job[q].id # NoSnap
        BY <1>a, <2>1, BusyNamed, SnapBlanksAssumption DEF TakenInv, Taking, SnapPcs, Frozen
      <3>2. job[p].id # job[q].id
        BY <2>1, <3>1 DEF Taken
      <3>3. snap'[job[q].id] = snap[job[q].id]
        BY <1>a, <2>1, <3>1, <3>2
      <3>4. \A r \in Callers : job'[r].id = job[q].id => r = q
        BY <1>a, <2>1, <3>1, <3>2 DEF Taken
      <3>5. vm'[job[q].vm] = vm[job[q].vm]
        BY <1>a, <2>1, <3>1, SnapBlanksAssumption DEF HeldInv
      <3> QED BY <3>1, <3>3, <3>4, <3>5 DEF Taken, Listed
    <2> QED BY <1>a, <2>1 DEF TakenInv
  <1>b. ASSUME NEW p \in Callers, SnapStep(p) \/ RestoreStep(p) \/ DeleteFile(p) \/ DeleteEnd(p)
                                    \/ Crash(p),
               job'[p].id \in {job[p].id, NoSnap},
               job'[p].pc \in Taking => Taken(p)'
        PROVE  TakenInv'
    <2>1. \A m \in Names : m = job[p].vm \/ vm'[m] = vm[m]
      BY <1>b, OthersVms
    <2> QED BY <1>a, <1>b, <2>1, OthersJobs, OtherSnaps
  <1>1. ASSUME NEW p \in Callers, NEW n \in Names, NEW s \in Snaps, NEW raw \in BOOLEAN,
               SnapBegin(p, n, s, raw)
        PROVE  TakenInv'
    <2>1. /\ \A t \in Snaps : t # s => snap'[t] = snap[t]
          /\ snap'[s] = [NoFiles EXCEPT !.dir = TRUE, !.raw = raw]
          /\ UNCHANGED vm
      BY <1>1, <1>0 DEF SnapBegin
    <2>2. /\ job'[p].pc = IF raw THEN "pause" ELSE "copy"
          /\ job'[p].id = s /\ job'[p].raw = raw /\ ~job'[p].wrote
          /\ \A q \in Callers : q # p => job'[q] = job[q]
          /\ \A q \in Callers : job[q].id # s
      BY <1>1, <1>0 DEF SnapBegin, Idle
    <2>3. snap'[s].files = {} /\ ~snap'[s].doomed /\ snap'[s].raw = raw
      BY <2>1 DEF NoFiles
    <2>4. Taken(p)'
      BY <2>2, <2>3 DEF Taken, Listed
    <2> QED BY <1>a, <2>1, <2>2, <2>4
  <1>2. ASSUME NEW p \in Callers, NEW n \in Names, NEW s \in Snaps, RestoreBegin(p, n, s)
        PROVE  TakenInv'
    <2>1. /\ job'[p].pc \notin Taking /\ job'[p].id = s /\ UNCHANGED <<vm, snap>>
          /\ Listed(s)
      BY <1>2, <1>0 DEF RestoreBegin, Idle, Taking
    <2>2. \A q \in Callers : job[q].id = s => job[q].pc \notin Taking
      BY <2>1 DEF TakenInv, Taken
    <2> QED BY <1>2, <1>a, <2>1, <2>2, OthersJobs
  <1>3. ASSUME NEW p \in Callers, NEW s \in Snaps, DeleteBegin(p, s) PROVE TakenInv'
    <2>1. /\ job'[p].pc \notin Taking /\ job'[p].id = s /\ UNCHANGED vm
          /\ \A t \in Snaps : t # s => snap'[t] = snap[t]
      BY <1>3, <1>0 DEF DeleteBegin, Idle, Taking
    <2>2. \A q \in Callers : job[q].id = s => job[q].pc \notin Taking
      BY <1>3 DEF DeleteBegin, TakenInv, Taken, Taking, SnapPcs, Frozen
    <2> QED BY <1>3, <1>a, <2>1, <2>2, OthersJobs
  <1>4. ASSUME NEW p \in Callers,
               SnapUnpatch(p) \/ SnapUnpatchFails(p) \/ SnapResume(p) \/ SnapResumeFails(p)
                 \/ RestoreStep(p) \/ DeleteFile(p) \/ DeleteEnd(p) \/ Crash(p)
        PROVE  TakenInv'
    <2>1. job'[p].id \in {job[p].id, NoSnap} /\ job'[p].pc \notin Taking
      <3>1. CASE Crash(p)
        BY <3>1, <1>0 DEF Crash, Idle, Taking
      <3>2. CASE DeleteFile(p)
        BY <3>2 DEF DeleteFile, Taking
      <3>3. CASE SnapResume(p) \/ SnapResumeFails(p) \/ RestoreResume(p) \/ RestoreFails(p)
                   \/ DeleteEnd(p)
        BY <3>3, ReturnEffect
           DEF SnapResume, SnapResumeFails, RestoreResume, RestoreFails, DeleteEnd, Taking
      <3>4. CASE SnapUnpatch(p) \/ SnapUnpatchFails(p) \/ RestoreCopy(p) \/ RestoreLoad(p)
                   \/ RestorePatch(p)
        BY <3>4, GotoEffect
           DEF SnapUnpatch, SnapUnpatchFails, RestoreCopy, RestoreLoad, RestorePatch, Taking
      <3> QED BY <1>4, <3>1, <3>2, <3>3, <3>4 DEF RestoreStep
    <2> QED BY <1>4, <1>b, <2>1 DEF SnapStep
  <1>5. ASSUME NEW p \in Callers, SnapFails(p) PROVE TakenInv'
    <2>1. job'[p].id \in {job[p].id, NoSnap} /\ job'[p].pc \notin Taking
      <3>1. CASE job[p].pc \in {"copy", "pause"}
        BY <1>5, <3>1, ReturnEffect DEF SnapFails, Taking
      <3>2. CASE job[p].pc \notin {"copy", "pause"}
        BY <1>5, <3>2, <1>0 DEF SnapFails, Deferred, Job, Taking
      <3> QED BY <3>1, <3>2
    <2> QED BY <1>5, <1>b, <2>1 DEF SnapStep
  <1>6. ASSUME NEW p \in Callers,
               SnapCopy(p) \/ SnapPause(p) \/ SnapPatch(p) \/ SnapDump(p) \/ SnapHook(p)
                 \/ SnapMetadata(p)
        PROVE  TakenInv'
    <2>1. /\ Taken(p) /\ job[p].id \in Snaps /\ job[p].vm \in Names
          /\ snap[job[p].id] \in Snap /\ job[p] \in Job
      BY <1>6, <1>0, BusyNamed
         DEF TakenInv, Taking, SnapPcs, Frozen, SnapCopy, SnapPause, SnapPatch, SnapDump, SnapHook,
             SnapMetadata
    <2>2. /\ \A q \in Callers : job'[q].id = job[q].id
          /\ job'[p].vm = job[p].vm /\ job'[p].raw = job[p].raw /\ job'[p].wrote = job[p].wrote
      BY <1>6, GotoEffect, Zenon
         DEF SnapCopy, SnapPause, SnapPatch, SnapDump, SnapHook, SnapMetadata
    <2>3. JobAt(p)
      BY DEF JobInv
    <2>4. job'[p].pc \in Taking => Taken(p)'
      <3>1. CASE SnapCopy(p)
        <4>1. job'[p].pc = "pause"
          BY <3>1, GotoEffect DEF SnapCopy
        <4>2. /\ snap'[job[p].id].files = snap[job[p].id].files \cup {"disk"}
              /\ snap'[job[p].id].doomed = snap[job[p].id].doomed
              /\ snap'[job[p].id].raw = snap[job[p].id].raw
          BY <3>1, <1>0, <2>1 DEF SnapCopy, Snap
        <4> QED BY <2>1, <2>2, <4>1, <4>2 DEF Taken, Listed
      <3>2. CASE SnapPause(p)
        <4>1. /\ job[p].pc = "pause" /\ UNCHANGED snap
              /\ job'[p].pc = IF job[p].raw THEN "dump" ELSE "patch"
          BY <3>2, GotoEffect DEF SnapPause
        <4> QED BY <2>1, <2>2, <4>1 DEF Taken, Listed
      <3>3. CASE SnapPatch(p)
        <4>1. job[p].pc = "patch" /\ job'[p].pc = "dump" /\ UNCHANGED snap
          BY <3>3, GotoEffect DEF SnapPatch
        <4>2. vm'[job[p].vm].drive = job[p].id
          BY <3>3, <2>1, DriveEffect DEF SnapPatch
        <4> QED BY <2>1, <2>2, <4>1, <4>2 DEF Taken, Listed
      <3>4. CASE SnapDump(p)
        <4>1. /\ job[p].pc = "dump" /\ vm[job[p].vm].state # "gone" /\ UNCHANGED vm
              /\ job'[p].pc = IF job[p].raw THEN "hook" ELSE "metadata"
          BY <3>4, GotoEffect DEF SnapDump, CanDump
        <4>2. /\ snap'[job[p].id].files = snap[job[p].id].files \cup {"state", "memory"}
              /\ snap'[job[p].id].path = vm[job[p].vm].drive
              /\ snap'[job[p].id].doomed = snap[job[p].id].doomed
              /\ snap'[job[p].id].raw = snap[job[p].id].raw
          BY <3>4, <1>0, <2>1 DEF SnapDump, Snap
        <4> QED BY <2>1, <2>2, <4>1, <4>2 DEF Taken, Listed
      <3>5. CASE SnapHook(p)
        <4>1. job[p].pc = "hook" /\ job[p].raw /\ job'[p].pc = "metadata" /\ UNCHANGED vm
          BY <3>5, <2>3, GotoEffect DEF SnapHook, JobAt
        <4>2. /\ snap'[job[p].id].files = snap[job[p].id].files \cup {"disk"}
              /\ snap'[job[p].id].doomed = snap[job[p].id].doomed
              /\ snap'[job[p].id].raw = snap[job[p].id].raw
          BY <3>5, <1>0, <2>1 DEF SnapHook, Snap
        <4> QED BY <2>1, <2>2, <4>1, <4>2 DEF Taken, Listed
      <3>6. CASE SnapMetadata(p)
        BY <3>6, GotoEffect DEF SnapMetadata, Deferred, Taking
      <3> QED BY <1>6, <3>1, <3>2, <3>3, <3>4, <3>5, <3>6
    <2> QED BY <1>6, <1>b, <2>2, <2>4 DEF SnapStep
  <1>c. ASSUME NEW n \in Names, \A m \in Names : m # n => vm'[m] = vm[m], UNCHANGED <<snap, job>>,
               (\A q \in Callers : job[q].vm # n) \/ vm'[n].state = "gone" \/ vm'[n].drive = vm[n].drive,
               vm[n].state = "gone" => \A q \in Callers : job[q].vm # n
        PROVE  TakenInv'
    <2>1. ASSUME NEW q \in Callers, job[q].pc \in Taking PROVE Taken(q)'
      <3>1. Taken(q) /\ job[q].vm \in Names
        BY <2>1, BusyNamed DEF TakenInv, Taking, SnapPcs, Frozen
      <3> QED BY <1>c, <3>1 DEF Taken, Listed
    <2> QED BY <1>c, <2>1 DEF TakenInv
  <1>7. ASSUME NEW n \in Names, Boot(n) \/ Exit(n) \/ PauseVM(n) \/ ResumeVM(n)
        PROVE  TakenInv'
    <2>1. UNCHANGED <<snap, job>> /\ \A m \in Names : m # n => vm'[m] = vm[m]
      BY <1>7, ChangeEffect DEF Boot, Exit, PauseVM, ResumeVM
    <2>2. Boot(n) \/ Booted(vm[n])
      BY <1>7 DEF Exit, PauseVM, ResumeVM
    <2>3. Boot(n) => \A q \in Callers : job[q].vm # n
      BY UnusedMeans DEF Boot
    <2>4. Boot(n) \/ vm'[n].state = "gone" \/ vm'[n].drive = vm[n].drive
      <3>1. CASE Exit(n)
        BY <3>1, ChangeEffect DEF Exit, Gone
      <3>2. CASE PauseVM(n)
        BY <3>2, PausedEffect DEF PauseVM
      <3>3. CASE ResumeVM(n)
        BY <3>3, ResumedEffect DEF ResumeVM
      <3> QED BY <1>7, <3>1, <3>2, <3>3
    <2> QED BY <1>c, <2>1, <2>2, <2>3, <2>4 DEF Booted
  <1>8. ASSUME NEW n \in Names, GuestWrite(n) PROVE TakenInv'
    <2>1. ASSUME NEW q \in Callers, job[q].pc \in Taking PROVE Taken(q)'
      <3>1. Taken(q)
        BY <2>1 DEF TakenInv
      <3>2. vm[n].state = "running" /\ UNCHANGED <<vm, snap>>
        BY <1>8 DEF GuestWrite
      <3>3. job[q].raw => job'[q].wrote = job[q].wrote
        BY <1>8, <3>2, WriteEffect DEF HalfTaken, HeldInv, Held, Frozen
      <3> QED BY <1>8, <3>1, <3>2, <3>3, WriteEffect DEF Taken, Listed
    <2> QED BY <1>8, <2>1, WriteEffect DEF TakenInv
  <1>9. CASE UNCHANGED vars
    BY <1>9, Zenon DEF TakenInv, Taken, Listed, vars
  <1> QED
    BY <1>1, <1>2, <1>3, <1>4, <1>5, <1>6, <1>7, <1>8, <1>9
    DEF Next, SnapStep

(* A listed snapshot stays complete, and of one moment, until it is        *)
(* deleted.                                                                *)
LEMMA ListedStep ==
    ASSUME SnapTypeOK, JobInv, TakenInv, DeleteInv, SelfContained, RawMatched, [Next]_vars
    PROVE  SelfContained' /\ RawMatched'
  <1>0. snap \in [Snaps -> Snap] /\ job \in [Callers -> Job]
    BY DEF SnapTypeOK
  <1> DEFINE Whole(r, s) == /\ (~r.doomed /\ "metadata" \in r.files) =>
                                  r.files = Files /\ (~r.raw => r.path = s)
                            /\ ("metadata" \in r.files /\ r.raw) => r.matched
  <1>1. \A s \in Snaps : Whole(snap[s], s)
    BY DEF SelfContained, RawMatched, Listed
  <1>2. SUFFICES ASSUME NEW s \in Snaps PROVE Whole(snap'[s], s)
    BY DEF SelfContained, RawMatched, Listed
  <1>3. CASE snap'[s] = snap[s]
    BY <1>1, <1>3
  <1>4. CASE "metadata" \notin snap'[s].files
    BY <1>4
  <1>5. ASSUME NEW p \in Callers, SnapStep(p) PROVE Whole(snap'[s], s)
    <2>1. CASE job[p].id # s
      BY <1>3, <1>5, <2>1, OtherSnaps
    <2>2. CASE job[p].id = s /\ SnapMetadata(p)
      <3>1. /\ Taken(p) /\ job[p].pc = "metadata"
        BY <2>2 DEF SnapMetadata, TakenInv, Taking
      <3>2. /\ snap'[s].files = snap[s].files \cup {"metadata"}
            /\ snap'[s].matched = ~job[p].wrote
            /\ snap'[s].path = snap[s].path /\ snap'[s].raw = snap[s].raw
        BY <2>2, <1>0 DEF SnapMetadata, Snap
      <3>3. {"disk", "state", "memory"} \subseteq snap[s].files /\ snap[s].files \subseteq Files
        BY <2>2, <3>1, <1>0 DEF Taken, Snap
      <3>4. snap'[s].files = Files
        BY <3>2, <3>3 DEF Files
      <3> QED BY <2>2, <3>1, <3>2, <3>4 DEF Taken
    <2>3. CASE job[p].id = s /\ (SnapCopy(p) \/ SnapDump(p) \/ SnapHook(p))
      <3>1. "metadata" \notin snap[s].files
        BY <2>3 DEF SnapCopy, SnapDump, SnapHook, TakenInv, Taken, Taking, Listed
      <3>2. "metadata" \notin snap'[s].files
        BY <2>3, <3>1, <1>0 DEF SnapCopy, SnapDump, SnapHook, Snap
      <3> QED BY <1>4, <3>2
    <2>4. CASE job[p].id = s /\ SnapFails(p)
      <3>1. "metadata" \notin snap'[s].files
        BY <2>4, <1>0 DEF SnapFails, NoFiles
      <3> QED BY <1>4, <3>1
    <2> QED BY <1>3, <1>5, <2>1, <2>2, <2>3, <2>4
            DEF SnapStep, SnapPause, SnapPatch, SnapUnpatch, SnapUnpatchFails, SnapResume,
                SnapResumeFails
  <1>6. ASSUME NEW p \in Callers, NEW n \in Names, NEW t \in Snaps, NEW raw \in BOOLEAN,
               SnapBegin(p, n, t, raw)
        PROVE  Whole(snap'[s], s)
    <2>1. snap'[s] = snap[s] \/ snap'[s].files = {}
      BY <1>6, <1>0 DEF SnapBegin, NoFiles
    <2> QED BY <1>3, <1>4, <2>1
  <1>7. ASSUME NEW p \in Callers, NEW t \in Snaps, DeleteBegin(p, t) PROVE Whole(snap'[s], s)
    <2>1. \/ snap'[s] = snap[s]
          \/ /\ snap'[s].doomed /\ snap'[s].files = snap[s].files
             /\ snap'[s].raw = snap[s].raw /\ snap'[s].matched = snap[s].matched
      BY <1>7, <1>0 DEF DeleteBegin, Snap
    <2> QED BY <1>1, <1>3, <2>1
  <1>8. ASSUME NEW p \in Callers, DeleteFile(p) PROVE Whole(snap'[s], s)
    <2>1. CASE job[p].id # s
      BY <1>3, <1>8, <2>1, OtherSnaps
    <2>2. CASE job[p].id = s
      <3>1. snap[s].doomed
        BY <1>8, <2>2 DEF DeleteFile, DeleteInv
      <3>2. /\ snap'[s].doomed /\ snap'[s].files \subseteq snap[s].files
            /\ snap'[s].raw = snap[s].raw /\ snap'[s].matched = snap[s].matched
        BY <1>8, <2>2, <3>1, <1>0 DEF DeleteFile, Snap
      <3> QED BY <1>1, <3>2
    <2> QED BY <2>1, <2>2
  <1>9. ASSUME NEW p \in Callers, DeleteEnd(p) PROVE Whole(snap'[s], s)
    <2>1. snap'[s] = snap[s] \/ snap'[s].files = {}
      BY <1>9, <1>0 DEF DeleteEnd, NoFiles
    <2> QED BY <1>3, <1>4, <2>1
  <1> QED
    BY <1>3, <1>5, <1>6, <1>7, <1>8, <1>9, Zenon
    DEF Next, RestoreBegin, RestoreStep, RestoreCopy, RestoreLoad, RestorePatch, RestoreResume,
        RestoreFails, Crash, Boot, Exit, PauseVM, ResumeVM, GuestWrite, vars

-----------------------------------------------------------------------------
(* The inductive invariant, if users do one thing at a time to a VM. *)
LEMMA SnapInvariance ==
    ASSUME Alone
    PROVE  Spec => [](SnapTypeOK /\ SnapInv /\ SelfContained /\ RawMatched)
  <1>1. ASSUME Init PROVE SnapInv /\ SelfContained /\ RawMatched
    <2>1. \A p \in Callers : job[p].pc = "idle" /\ job[p].vm = NoName
      BY <1>1 DEF Init, Idle
    <2>2. (\A n \in Names : vm[n].state = "gone") /\ (\A s \in Snaps : snap[s].files = {})
      BY <1>1 DEF Init, Gone, NoFiles
    <2>3. JobInv
      BY <1>1, <2>1, <2>2 DEF Init, JobInv, JobAt, Idle, Ready, SnapPcs, RestorePcs, Frozen, Listed
    <2>4. HeldInv /\ DriveInv /\ TakenInv /\ DeleteInv
      BY <2>1, <2>2 DEF HeldInv, DriveInv, TakenInv, DeleteInv, Held, Frozen, Taking
    <2> QED BY <2>2, <2>3, <2>4 DEF SnapInv, SelfContained, RawMatched, Listed
  <1>2. ASSUME SnapTypeOK, SnapInv, SelfContained, RawMatched, [Next]_vars
        PROVE  SnapInv' /\ SelfContained' /\ RawMatched'
    BY <1>2, JobStep, HeldStep, DriveStep, TakenStep, DeleteStep, ListedStep DEF SnapInv
  <1> QED BY <1>1, <1>2, SnapTypeCorrect, PTL DEF Spec

(* A snapshot that is listed and that nobody has begun to delete can be    *)
(* restored whatever becomes of its VM.                                    *)
THEOREM SnapshotsAreWhole == ASSUME Alone PROVE Spec => []SelfContained
  BY SnapInvariance, PTL

(* The disk of a raw snapshot is that of the moment of its memory dump.    *)
THEOREM RawDisksMatch == ASSUME Alone PROVE Spec => []RawMatched
  BY SnapInvariance, PTL

(* A guest runs on no disk but its own: the windows in which its drive is  *)
(* that of a snapshot are those in which a call holds it paused.  Exempt,  *)
(* as OnOwnDisk says, is a VM whose drive was never patched back, because  *)
(* that PatchDrive failed or the caller died before it.                    *)
THEOREM GuestsKeepTheirDisk == ASSUME Alone PROVE Spec => []OnOwnDisk
  <1>1. ASSUME SnapInv PROVE OnOwnDisk
    <2>1. \A p \in Callers : Moves(p) => job[p].pc \in Held
      BY DEF Moves, Held, Frozen
    <2> QED BY <1>1, <2>1 DEF SnapInv, HeldInv, DriveInv, OnOwnDisk
  <1> QED BY <1>1, SnapInvariance, PTL
=============================================================================
