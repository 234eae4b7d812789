---------------------------- MODULE Firecracker ----------------------------
(***************************************************************************)
(* One Firecracker process inside its pasta namespace, as knaller sees it  *)
(* through firecracker/client.go: pure operators on a record.  Firecracker *)
(* and pasta are external to the repository; each operator states which    *)
(* request is accepted in which state and what it changes.                 *)
(*                                                                         *)
(*   state   "gone" before the process exists and after it has exited,     *)
(*           "spawned" until its API socket is bound, "unbooted" until     *)
(*           InstanceStart or a snapshot load, then "running" or "paused"  *)
(*   name    the VM name whose socket path is on its command line          *)
(*   ports   the host ports pasta forwards for it                          *)
(*   conf    the boot resources configured so far                          *)
(*   disk    the file behind the root drive: "none", the "snapshot"'s own  *)
(*           rootfs, or the per-VM copy, which is "intact" until somebody  *)
(*           has "overwritten" it or "unlinked" it under the process       *)
(*   cad     a Ctrl+Alt+Del is pending in the guest                        *)
(*   owner   (history) who answers for the process: the "run" that started *)
(*           it, the "user" once that Run has returned, "none" after that  *)
(*           Run died half way                                             *)
(*   given   (history) a Run has returned to its user the VM its requests  *)
(*           reached here, whether or not that Run started the process     *)
(***************************************************************************)

ConfigItems == {"boot-source", "drive", "network", "machine"}

VmmStates == {"gone", "spawned", "unbooted", "running", "paused"}
DiskStates == {"none", "snapshot", "intact", "overwritten", "unlinked"}
Owners == {"run", "user", "none"}

(* The process is there. *)
Live(v) == v.state # "gone"

(* The process has bound its API socket and its host ports. *)
Listening(v) == v.state \in {"unbooted", "running", "paused"}

(* A guest has been started or loaded. *)
Booted(v) == v.state \in {"running", "paused"}

(* PUT /boot-source, /drives, /network-interfaces, /machine-config: only   *)
(* before the guest is started.                                            *)
CanConfigure(v) == v.state = "unbooted"
Configured(v, item) ==
    [v EXCEPT !.conf = @ \cup {item},
              !.disk = IF item = "drive" THEN "intact" ELSE @]

(* PUT /actions InstanceStart: needs at least a kernel. *)
CanStart(v) == v.state = "unbooted" /\ "boot-source" \in v.conf
Started(v) == [v EXCEPT !.state = "running"]

(* PUT /snapshot/load with resume_vm false: only into an unconfigured      *)
(* process; the drive is the file whose path is recorded in the snapshot.  *)
CanLoad(v) == v.state = "unbooted" /\ v.conf = {}
Loaded(v) ==
    [v EXCEPT !.state = "paused", !.conf = ConfigItems, !.disk = "snapshot"]

(* PATCH /drives/rootfs: only after the guest is started or loaded. *)
Patched(v) == [v EXCEPT !.disk = "intact"]

(* PATCH /vm. *)
Paused(v) == [v EXCEPT !.state = "paused"]
Resumed(v) == [v EXCEPT !.state = "running"]

(* PUT /snapshot/create: only while paused. *)
CanDump(v) == v.state = "paused"

(* PUT /actions SendCtrlAltDel. *)
Signalled(v) == [v EXCEPT !.cad = TRUE]

(* The guest acts on the pending Ctrl+Alt+Del and the process exits. *)
CanShutDown(v) == v.state = "running" /\ v.cad
=============================================================================
