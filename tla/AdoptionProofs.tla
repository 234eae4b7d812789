--------------------------- MODULE AdoptionProofs ---------------------------
(***************************************************************************)
(* What holds of Adoption for every set of names and process ids.          *)
(***************************************************************************)
EXTENDS Adoption, TLAPS

-----------------------------------------------------------------------------
(* Types.                                                                  *)

(* The blank records are records of their type. *)
LEMMA AdoptionBlanksTyped == NoProc \in Proc /\ NoHandle \in Handle
  BY DEF NoProc, Proc, NoHandle, Handle, HandleKinds

(* The end of a process keeps all types. *)
LEMMA EndsTyped ==
    ASSUME AdoptionTypeOK, NEW i
    PROVE  /\ ProcAfterExit(i) \in [Pids -> Proc]
           /\ ProcAfterReap(i) \in [Pids -> Proc]
           /\ SockAfterExit(i) \in [Names -> Pids \cup {NoPid, Stale}]
           /\ HandleAfterExit(i) \in [Names -> Handle]
           /\ HandleAfterReap(i) \in [Names -> Handle]
  <1>1. ProcAfterExit(i) \in [Pids -> Proc]
    BY Zenon DEF AdoptionTypeOK, ProcAfterExit, Proc
  <1>2. ProcAfterReap(i) \in [Pids -> Proc]
    BY AdoptionBlanksTyped DEF AdoptionTypeOK, ProcAfterReap
  <1>3. SockAfterExit(i) \in [Names -> Pids \cup {NoPid, Stale}]
    BY DEF AdoptionTypeOK, SockAfterExit
  <1>4. HandleAfterExit(i) \in [Names -> Handle]
    BY DEF AdoptionTypeOK, HandleAfterExit, Handle
  <1>5. HandleAfterReap(i) \in [Names -> Handle]
    BY Zenon DEF AdoptionTypeOK, HandleAfterReap, Handle
  <1> QED BY <1>1, <1>2, <1>3, <1>4, <1>5

(* Every step keeps the types. *)
LEMMA AdoptionTypeStep ==
    ASSUME AdoptionTypeOK, [Next]_vars
    PROVE  AdoptionTypeOK'
  <1> USE AdoptionBlanksTyped
  <1>1. ASSUME NEW n \in Names, NEW i \in Pids, Spawn(n, i) PROVE AdoptionTypeOK'
    <2>1. [NoProc EXCEPT !.kind = "vm", !.name = n, !.child = TRUE] \in Proc
      BY DEF NoProc, Proc
    <2>2. [NoHandle EXCEPT !.kind = "spawned", !.pid = i, !.same = TRUE] \in Handle
      BY DEF NoHandle, Handle, HandleKinds
    <2> QED BY <1>1, <2>1, <2>2 DEF AdoptionTypeOK, Spawn, SetHandle
  <1>2. ASSUME NEW n \in Names, EscapeAndListen(n) PROVE AdoptionTypeOK'
    <2>1. [handle[n] EXCEPT !.kind = "listening"] \in Handle
      BY DEF AdoptionTypeOK, Handle, HandleKinds
    <2>2. \A e \in BOOLEAN :
            [proc EXCEPT ![handle[n].pid].escaped = e] \in [Pids -> Proc]
      BY DEF AdoptionTypeOK, Proc
    <2>3. handle[n].pid \in Pids \cup {NoPid} /\ Alive(handle[n].pid)
      BY <1>2 DEF EscapeAndListen, AdoptionTypeOK, Handle
    <2> QED BY <1>2, <2>1, <2>2, <2>3 DEF AdoptionTypeOK, EscapeAndListen, SetHandle
  <1>3. ASSUME NEW n \in Names, RunReturns(n) PROVE AdoptionTypeOK'
    <2>1. [handle[n] EXCEPT !.kind = "child", !.conn = sock[n]] \in Handle
      BY <1>3 DEF RunReturns, AdoptionTypeOK, Handle, HandleKinds
    <2> QED BY <1>3, <2>1 DEF AdoptionTypeOK, RunReturns, SetHandle
  <1>4. ASSUME NEW n \in Names, RunFails(n) PROVE AdoptionTypeOK'
    BY <1>4, EndsTyped DEF AdoptionTypeOK, RunFails, SetHandle
  <1>5. ASSUME NEW n \in Names, Persist(n) PROVE AdoptionTypeOK'
    BY <1>5 DEF AdoptionTypeOK, Persist, Handle
  <1>6. ASSUME NEW n \in Names, AdoptSignal(n) PROVE AdoptionTypeOK'
    <2>1. [NoHandle EXCEPT !.kind = "adopting", !.pid = record[n], !.same = TRUE] \in Handle
      BY <1>6 DEF AdoptSignal, NoHandle, Handle, HandleKinds
    <2> QED BY <1>6, <2>1 DEF AdoptionTypeOK, AdoptSignal, SetHandle
  <1>7. ASSUME NEW n \in Names, AdoptProbe(n) PROVE AdoptionTypeOK'
    <2>1. [handle[n] EXCEPT !.kind = "adopted", !.conn = sock[n]] \in Handle
      BY <1>7 DEF AdoptProbe, AdoptionTypeOK, Handle, HandleKinds
    <2> QED BY <1>7, <2>1 DEF AdoptionTypeOK, AdoptProbe, SetHandle
  <1>8. ASSUME NEW n \in Names, AdoptFails(n) PROVE AdoptionTypeOK'
    BY <1>8 DEF AdoptionTypeOK, AdoptFails, SetHandle
  <1>9. ASSUME NEW n \in Names, WaitBegins(n) PROVE AdoptionTypeOK'
    <2>1. \A b \in BOOLEAN : [handle[n] EXCEPT !.wait = "polling", !.pin = b] \in Handle
      BY DEF AdoptionTypeOK, Handle
    <2> QED BY <1>9, <2>1 DEF AdoptionTypeOK, WaitBegins, SetHandle
  <1>10. ASSUME NEW n \in Names, WaitChild(n) PROVE AdoptionTypeOK'
    <2> DEFINE i == handle[n].pid
    <2>1. [HandleAfterReap(i) EXCEPT ![n].wait = "done"] \in [Names -> Handle]
      BY EndsTyped DEF Handle
    <2> QED BY <1>10, <2>1, EndsTyped DEF AdoptionTypeOK, WaitChild
  <1>11. ASSUME NEW n \in Names, WaitAdopted(n) PROVE AdoptionTypeOK'
    <2>1. [handle[n] EXCEPT !.wait = "done"] \in Handle
      BY DEF AdoptionTypeOK, Handle
    <2> QED BY <1>11, <2>1 DEF AdoptionTypeOK, WaitAdopted, SetHandle
  <1>12. ASSUME NEW n \in Names, Kill(n) PROVE AdoptionTypeOK'
    BY <1>12, EndsTyped DEF AdoptionTypeOK, Kill, Exits
  <1>13. ASSUME NEW n \in Names, Release(n) PROVE AdoptionTypeOK'
    BY <1>13 DEF AdoptionTypeOK, Release, SetHandle
  <1>14. ASSUME NEW i \in Pids, Exit(i) PROVE AdoptionTypeOK'
    BY <1>14, EndsTyped DEF AdoptionTypeOK, Exit, Exits
  <1>15. ASSUME NEW i \in Pids, Reap(i) PROVE AdoptionTypeOK'
    BY <1>15, EndsTyped DEF AdoptionTypeOK, Reap
  <1>16. ASSUME NEW i \in Pids, OtherStarts(i) PROVE AdoptionTypeOK'
    <2>1. [NoProc EXCEPT !.kind = "other"] \in Proc
      BY DEF NoProc, Proc
    <2> QED BY <1>16, <2>1 DEF AdoptionTypeOK, OtherStarts
  <1>17. ASSUME Restart PROVE AdoptionTypeOK'
    <2>1. \A i \in Pids : [proc[i] EXCEPT !.child = FALSE] \in Proc
      BY DEF AdoptionTypeOK, Proc
    <2> QED BY <1>17, <2>1 DEF AdoptionTypeOK, Restart
  <1>18. CASE UNCHANGED vars
    BY <1>18 DEF AdoptionTypeOK, vars
  <1> QED
    BY <1>1, <1>2, <1>3, <1>4, <1>5, <1>6, <1>7, <1>8, <1>9, <1>10, <1>11, <1>12,
       <1>13, <1>14, <1>15, <1>16, <1>17, <1>18 DEF Next, HandleStep

(* Every variable keeps its type. *)
THEOREM AdoptionTypeCorrect == Spec => []AdoptionTypeOK
  <1>1. Init => AdoptionTypeOK
    BY AdoptionBlanksTyped DEF Init, AdoptionTypeOK
  <1>2. AdoptionTypeOK /\ [Next]_vars => AdoptionTypeOK'
    BY AdoptionTypeStep
  <1> QED BY <1>1, <1>2, PTL DEF Spec

-----------------------------------------------------------------------------
(* Wait and Kill, whatever care the supervisor takes.                      *)

(* An exit changes nobody's kind, name or parent, and of a handle only the *)
(* connection.                                                             *)
LEMMA ExitEffect ==
    ASSUME AdoptionTypeOK, NEW i \in Pids
    PROVE  /\ \A j \in Pids :
                /\ ProcAfterExit(i)[j].kind = proc[j].kind
                /\ ProcAfterExit(i)[j].name = proc[j].name
                /\ ProcAfterExit(i)[j].child = proc[j].child
                /\ ProcAfterExit(i)[j].dead = IF j = i THEN TRUE ELSE proc[j].dead
           /\ \A n \in Names :
                /\ HandleAfterExit(i)[n].kind = handle[n].kind
                /\ HandleAfterExit(i)[n].pid = handle[n].pid
                /\ HandleAfterExit(i)[n].same = handle[n].same
                /\ HandleAfterExit(i)[n].wait = handle[n].wait
                /\ HandleAfterExit(i)[n].pin = handle[n].pin
                /\ HandleAfterExit(i)[n].conn =
                     IF handle[n].conn = i THEN NoPid ELSE handle[n].conn
  <1>1. (\A j \in Pids : proc[j] \in Proc) /\ (\A n \in Names : handle[n] \in Handle)
    BY DEF AdoptionTypeOK
  <1> QED BY <1>1 DEF AdoptionTypeOK, ProcAfterExit, HandleAfterExit, Proc, Handle

(* The reaping of a process frees its number; the handles that have it are *)
(* told apart from the others.                                             *)
LEMMA ReapEffect ==
    ASSUME AdoptionTypeOK, NEW i \in Pids
    PROVE  /\ \A j \in Pids :
                ProcAfterReap(i)[j] = IF j = i THEN NoProc ELSE proc[j]
           /\ \A n \in Names :
                /\ handle[n].pid # i => /\ HandleAfterReap(i)[n].same = handle[n].same
                                      /\ HandleAfterReap(i)[n].pin = handle[n].pin
                /\ handle[n].pid = i => ~HandleAfterReap(i)[n].same
                /\ HandleAfterReap(i)[n].kind = handle[n].kind
                /\ HandleAfterReap(i)[n].pid = handle[n].pid
                /\ HandleAfterReap(i)[n].conn = handle[n].conn
                /\ HandleAfterReap(i)[n].wait = handle[n].wait
  <1>1. (\A j \in Pids : proc[j] \in Proc) /\ (\A n \in Names : handle[n] \in Handle)
    BY DEF AdoptionTypeOK
  <1> QED BY <1>1, Zenon DEF AdoptionTypeOK, ProcAfterReap, HandleAfterReap, Proc, Handle

(* An exit leaves what Wait relies on as it is, ... *)
LEMMA ExitWait ==
    ASSUME WaitInv, NEW i \in Pids,
           proc' = ProcAfterExit(i), handle' = HandleAfterExit(i)
    PROVE  Tracked' /\ ChildTracked' /\ WaitMeansGone'
  <1>1. AdoptionTypeOK /\ Tracked /\ ChildTracked /\ WaitMeansGone
    BY DEF WaitInv
  <1>2. \A j \in Pids : /\ proc'[j].kind = proc[j].kind
                        /\ proc'[j].name = proc[j].name
                        /\ proc'[j].child = proc[j].child
    BY <1>1, ExitEffect, Zenon
  <1>3. \A n \in Names : /\ handle'[n].kind = handle[n].kind
                         /\ handle'[n].pid = handle[n].pid
                         /\ handle'[n].same = handle[n].same
                         /\ handle'[n].wait = handle[n].wait
                         /\ handle'[n].pin = handle[n].pin
    BY <1>1, ExitEffect, Zenon
  <1> QED BY <1>1, <1>2, <1>3 DEF Tracked, ChildTracked, WaitMeansGone, IsVM

(* ... and so does the reaping of a process that is nobody's child.        *)
LEMMA ReapWait ==
    ASSUME WaitInv, NEW i \in Pids, ~proc[i].child,
           proc' = ProcAfterReap(i), handle' = HandleAfterReap(i)
    PROVE  Tracked' /\ ChildTracked' /\ WaitMeansGone'
  <1>1. AdoptionTypeOK /\ Tracked /\ ChildTracked /\ WaitMeansGone
    BY DEF WaitInv
  <1>2. \A j \in Pids : proc'[j] = IF j = i THEN NoProc ELSE proc[j]
    BY <1>1, ReapEffect
  <1>3. \A n \in Names : /\ handle[n].pid # i => /\ handle'[n].same = handle[n].same
                                                  /\ handle'[n].pin = handle[n].pin
                         /\ handle[n].pid = i => ~handle'[n].same
                         /\ handle'[n].kind = handle[n].kind
                         /\ handle'[n].pid = handle[n].pid
                         /\ handle'[n].wait = handle[n].wait
    BY <1>1, ReapEffect
  <1>4. Tracked'
    BY <1>1, <1>2, <1>3 DEF Tracked
  <1>5. ChildTracked'
    BY <1>1, <1>2, <1>3 DEF ChildTracked, IsVM
  <1>6. WaitMeansGone'
    BY <1>1, <1>3 DEF WaitMeansGone
  <1> QED BY <1>4, <1>5, <1>6

(* Wait begins: nothing but the handle's wait and pin changes. *)
LEMMA WaitBeginsEffect ==
    ASSUME AdoptionTypeOK, NEW n \in Names, WaitBegins(n)
    PROVE  /\ UNCHANGED <<proc, sock, record>>
           /\ \A m \in Names :
                 /\ handle'[m].kind = handle[m].kind /\ handle'[m].pid = handle[m].pid
                 /\ handle'[m].conn = handle[m].conn /\ handle'[m].same = handle[m].same
                 /\ m # n => handle'[m] = handle[m]
           /\ handle[n].wait = "no" /\ handle'[n].wait = "polling"
           /\ handle'[n].pin = (proc[handle[n].pid].kind # "none")
  <1> DEFINE pin == proc[handle[n].pid].kind # "none"
  <1>1. handle \in [Names -> Handle]
    BY DEF AdoptionTypeOK
  <1>2. handle' = [handle EXCEPT ![n] = [handle[n] EXCEPT !.wait = "polling", !.pin = pin]]
    BY DEF WaitBegins, SetHandle
  <1>3. UNCHANGED <<proc, sock, record>> /\ handle[n].wait = "no"
    BY DEF WaitBegins
  <1> HIDE DEF pin
  <1>4. /\ \A m \in Names : m # n => handle'[m] = handle[m]
        /\ handle'[n] = [handle[n] EXCEPT !.wait = "polling", !.pin = pin]
    BY <1>1, <1>2
  <1>5. /\ handle'[n].kind = handle[n].kind /\ handle'[n].pid = handle[n].pid
        /\ handle'[n].conn = handle[n].conn /\ handle'[n].same = handle[n].same
        /\ handle'[n].wait = "polling" /\ handle'[n].pin = pin
    BY <1>1, <1>4 DEF Handle
  <1> QED BY <1>3, <1>4, <1>5, Zenon DEF pin

(* Every step keeps what Wait relies on. *)
LEMMA WaitStep ==
    ASSUME WaitInv, [Next]_vars
    PROVE  WaitInv'
  <1>1. AdoptionTypeOK /\ AdoptionTypeOK'
    BY AdoptionTypeStep DEF WaitInv
  <1> DEFINE Rest == Tracked /\ ChildTracked /\ WaitMeansGone
  <1> SUFFICES Rest'
    BY <1>1 DEF WaitInv
  <1>2. \A n \in Names : handle[n] \in Handle
    BY <1>1 DEF AdoptionTypeOK
  <1>3. \A n \in Names, k \in Handle : SetHandle(n, k) =>
          \A m \in Names : handle'[m] = IF m = n THEN k ELSE handle[m]
    BY <1>1 DEF AdoptionTypeOK, SetHandle
  <1>4. ASSUME NEW n \in Names, NEW i \in Pids, Spawn(n, i) PROVE Rest'
    BY <1>1, <1>2, <1>4 DEF WaitInv, AdoptionTypeOK, Handle, Proc, Tracked, ChildTracked,
       WaitMeansGone, IsVM, Spawn, SetHandle, NoHandle, NoProc
  <1>5. ASSUME NEW n \in Names, EscapeAndListen(n) PROVE Rest'
    BY <1>1, <1>2, <1>5 DEF WaitInv, AdoptionTypeOK, Handle, Proc, Tracked, ChildTracked,
       WaitMeansGone, IsVM, EscapeAndListen, SetHandle, Alive
  <1>6. ASSUME NEW n \in Names, RunReturns(n) PROVE Rest'
    BY <1>1, <1>2, <1>6 DEF WaitInv, AdoptionTypeOK, Handle, Proc, Tracked, ChildTracked,
       WaitMeansGone, IsVM, RunReturns, SetHandle
  <1>7. ASSUME NEW n \in Names, RunFails(n) PROVE Rest'
    BY <1>1, <1>2, <1>7 DEF WaitInv, AdoptionTypeOK, Handle, Proc, Tracked, ChildTracked,
       WaitMeansGone, IsVM, RunFails, ProcAfterExit, SetHandle, NoHandle
  <1>8. ASSUME NEW n \in Names, Persist(n) PROVE Rest'
    BY <1>1, <1>2, <1>8 DEF WaitInv, AdoptionTypeOK, Handle, Proc, Tracked, ChildTracked,
       WaitMeansGone, IsVM, Persist
  <1>9. ASSUME NEW n \in Names, AdoptSignal(n) PROVE Rest'
    BY <1>1, <1>2, <1>9 DEF WaitInv, AdoptionTypeOK, Handle, Proc, Tracked, ChildTracked,
       WaitMeansGone, IsVM, AdoptSignal, SetHandle, NoHandle
  <1>10. ASSUME NEW n \in Names, AdoptProbe(n) PROVE Rest'
    BY <1>1, <1>2, <1>10 DEF WaitInv, AdoptionTypeOK, Handle, Proc, Tracked, ChildTracked,
       WaitMeansGone, IsVM, AdoptProbe, SetHandle
  <1>11. ASSUME NEW n \in Names, AdoptFails(n) PROVE Rest'
    BY <1>1, <1>2, <1>11 DEF WaitInv, AdoptionTypeOK, Handle, Proc, Tracked, ChildTracked,
       WaitMeansGone, IsVM, AdoptFails, SetHandle, NoHandle
  <1>12. ASSUME NEW n \in Names, WaitBegins(n) PROVE Rest'
    <2>1. Tracked'
      <3>1. ASSUME NEW m \in Names, handle'[m].same
            PROVE  /\ handle'[m].pid \in Pids /\ proc'[handle'[m].pid].kind # "none"
                   /\ handle'[m].wait = "polling" => handle'[m].pin
        <4>1. /\ handle[m].pid \in Pids /\ proc[handle[m].pid].kind # "none"
              /\ handle[m].wait = "polling" => handle[m].pin
          BY <1>1, <1>12, <3>1, WaitBeginsEffect DEF WaitInv, Tracked
        <4>2. CASE m = n
          BY <1>1, <1>12, <4>1, <4>2, WaitBeginsEffect
        <4>3. CASE m # n
          BY <1>1, <1>12, <4>1, <4>3, WaitBeginsEffect
        <4> QED BY <4>2, <4>3
      <3> QED BY <3>1, Zenon DEF Tracked
    <2>2. ChildTracked'
      BY <1>1, <1>12, WaitBeginsEffect DEF WaitInv, ChildTracked, IsVM
    <2>3. WaitMeansGone'
      BY <1>1, <1>12, WaitBeginsEffect DEF WaitInv, WaitMeansGone
    <2> QED BY <2>1, <2>2, <2>3
  <1>13. ASSUME NEW n \in Names, WaitChild(n) PROVE Rest'
    <2> DEFINE i == handle[n].pid
    <2>1. Tracked /\ ChildTracked /\ WaitMeansGone
      BY DEF WaitInv
    <2>2. /\ handle[n].kind = "child" /\ handle[n].wait = "polling"
          /\ i \in Pids /\ IsVM(i, n)
      BY <2>1, <1>13 DEF WaitChild, ChildTracked
    <2>3. \A j \in Pids : proc'[j] = IF j = i THEN NoProc ELSE proc[j]
      BY <1>1, <2>2, <1>13, ReapEffect DEF WaitChild
    <2>4. \A m \in Names : /\ handle[m].pid # i => /\ handle'[m].same = handle[m].same
                                                    /\ handle'[m].pin = handle[m].pin
                           /\ handle[m].pid = i => ~handle'[m].same
                           /\ handle'[m].kind = handle[m].kind
                           /\ handle'[m].pid = handle[m].pid
                           /\ handle'[m].wait = IF m = n THEN "done" ELSE handle[m].wait
      <3> DEFINE h == HandleAfterReap(i)
      <3>1. h \in [Names -> Handle]
        BY <1>1, EndsTyped
      <3>2. handle' = [h EXCEPT ![n].wait = "done"]
        BY <1>13 DEF WaitChild
      <3>3. \A m \in Names :
              /\ handle[m].pid # i => h[m].same = handle[m].same /\ h[m].pin = handle[m].pin
              /\ handle[m].pid = i => ~h[m].same
              /\ h[m].kind = handle[m].kind /\ h[m].pid = handle[m].pid
              /\ h[m].wait = handle[m].wait
        BY <1>1, <2>2, ReapEffect
      <3> HIDE DEF h
      <3> QED BY <3>1, <3>2, <3>3 DEF Handle
    <2>6. Tracked'
      BY <2>1, <2>2, <2>3, <2>4 DEF Tracked
    <2>7. ChildTracked'
      BY <2>1, <2>2, <2>3, <2>4 DEF ChildTracked, IsVM
    <2>8. WaitMeansGone'
      BY <2>1, <2>2, <2>4 DEF WaitMeansGone
    <2> QED BY <2>6, <2>7, <2>8
  <1>14. ASSUME NEW n \in Names, WaitAdopted(n) PROVE Rest'
    BY <1>1, <1>2, <1>14 DEF WaitInv, AdoptionTypeOK, Handle, Proc, Tracked, ChildTracked,
       WaitMeansGone, IsVM, WaitAdopted, SetHandle
  <1>15. ASSUME NEW n \in Names, Kill(n) PROVE Rest'
    BY <1>15, ExitWait DEF Kill, Exits
  <1>16. ASSUME NEW n \in Names, Release(n) PROVE Rest'
    BY <1>1, <1>2, <1>16 DEF WaitInv, AdoptionTypeOK, Handle, Proc, Tracked, ChildTracked,
       WaitMeansGone, IsVM, Release, SetHandle, NoHandle
  <1>17. ASSUME NEW i \in Pids, Exit(i) PROVE Rest'
    BY <1>17, ExitWait DEF Exit, Exits
  <1>18. ASSUME NEW i \in Pids, Reap(i) PROVE Rest'
    BY <1>18, ReapWait DEF Reap
  <1>19. ASSUME NEW i \in Pids, OtherStarts(i) PROVE Rest'
    BY <1>1, <1>2, <1>19 DEF WaitInv, AdoptionTypeOK, Handle, Proc, Tracked, ChildTracked,
       WaitMeansGone, IsVM, OtherStarts, NoProc
  <1>20. ASSUME Restart PROVE Rest'
    BY <1>1, <1>2, <1>20 DEF WaitInv, AdoptionTypeOK, Handle, Proc, Tracked, ChildTracked,
       WaitMeansGone, IsVM, Restart, NoHandle
  <1>21. CASE UNCHANGED vars
    BY <1>1, <1>21 DEF WaitInv, Tracked, ChildTracked, WaitMeansGone, IsVM, vars
  <1> QED
    BY <1>4, <1>5, <1>6, <1>7, <1>8, <1>9, <1>10, <1>11, <1>12, <1>13,
       <1>14, <1>15, <1>16, <1>17, <1>18, <1>19, <1>20, <1>21 DEF Next, HandleStep

(* What Wait relies on is there from the beginning. *)
THEOREM WaitInvariance == Spec => []WaitInv
  <1>1. Init => WaitInv
    <2> SUFFICES ASSUME Init PROVE WaitInv
      OBVIOUS
    <2>1. AdoptionTypeOK
      BY AdoptionBlanksTyped DEF Init, AdoptionTypeOK
    <2>2. \A n \in Names :
            /\ ~handle[n].same /\ handle[n].kind = "none" /\ handle[n].wait = "no"
      BY DEF Init, NoHandle
    <2> QED BY <2>1, <2>2 DEF WaitInv, Tracked, ChildTracked, WaitMeansGone
  <1>2. WaitInv /\ [Next]_vars => WaitInv'
    BY WaitStep
  <1> QED BY <1>1, <1>2, PTL DEF Spec

(* When Wait has returned, the process is gone: for every number of names  *)
(* and processes, and of a child as well as of an adopted VM.              *)
THEOREM WaitReturnsLate == Spec => []WaitMeansGone
  BY WaitInvariance, PTL DEF WaitInv

(* Kill, through the handle that RunDirect returned, ends that VM or       *)
(* nothing: nobody else can have its number before Wait has reaped it.     *)
THEOREM KillSparesOthers == Spec => ChildKillHitsItsVM
  <1>1. WaitInv /\ [Next]_vars =>
          [\A n \in Names :
             (Kill(n) /\ handle[n].kind = "child") =>
                handle[n].same /\ IsVM(handle[n].pid, n)]_vars
    <2> SUFFICES ASSUME WaitInv, NEW n \in Names, Kill(n), handle[n].kind = "child"
                 PROVE  handle[n].same /\ IsVM(handle[n].pid, n)
      OBVIOUS
    <2>1. handle[n].wait # "done"
      BY AdoptionBlanksAssumption DEF Kill, KillTarget
    <2> QED BY <2>1 DEF WaitInv, ChildTracked
  <1> QED BY <1>1, WaitInvariance, PTL DEF Spec, ChildKillHitsItsVM

-----------------------------------------------------------------------------
(* AdoptVM, of a careful supervisor.                                       *)

(* An exit closes the sockets and connections of the process, and of no    *)
(* other.                                                                  *)
LEMMA ExitAdopt ==
    ASSUME AdoptInv, NEW i \in Pids,
           proc' = ProcAfterExit(i), sock' = SockAfterExit(i),
           handle' = HandleAfterExit(i), record' = record
    PROVE  SockBound' /\ RecordFresh' /\ AdoptedIsTheVM'
  <1>1. /\ AdoptionTypeOK /\ SockBound /\ RecordFresh /\ AdoptedIsTheVM
        /\ Tracked
    BY DEF AdoptInv, WaitInv
  <1>2. \A j \in Pids : /\ proc'[j].kind = proc[j].kind
                        /\ proc'[j].name = proc[j].name
                        /\ j # i => proc'[j].dead = proc[j].dead
    BY <1>1, ExitEffect, Zenon
  <1>3. \A n \in Names : /\ handle'[n].kind = handle[n].kind
                         /\ handle'[n].pid = handle[n].pid
                         /\ handle'[n].same = handle[n].same
                         /\ handle'[n].conn = IF handle[n].conn = i THEN NoPid ELSE handle[n].conn
    BY <1>1, ExitEffect, Zenon
  <1>4. \A n \in Names : sock'[n] = IF sock[n] = i THEN Stale ELSE sock[n]
    BY DEF SockAfterExit
  <1>5. SockBound'
    BY <1>1, <1>2, <1>4, AdoptionBlanksAssumption DEF SockBound, IsVM
  <1>6. RecordFresh'
    BY <1>1, <1>3, <1>4, AdoptionBlanksAssumption DEF RecordFresh
  <1>7. AdoptedIsTheVM'
    BY <1>1, <1>2, <1>3 DEF AdoptedIsTheVM, IsVM, Tracked
  <1> QED BY <1>5, <1>6, <1>7

(* The number of a process that is dead and reaped was nobody's socket. *)
LEMMA ReapAdopt ==
    ASSUME AdoptInv, NEW i \in Pids, proc[i].dead,
           proc' = ProcAfterReap(i), sock' = sock, record' = record,
           \A n \in Names :
              /\ handle[n].pid # i => handle'[n].same = handle[n].same
              /\ handle[n].pid = i => ~handle'[n].same
              /\ handle'[n].kind = handle[n].kind
              /\ handle'[n].pid = handle[n].pid
              /\ handle'[n].conn = handle[n].conn
    PROVE  SockBound' /\ RecordFresh' /\ AdoptedIsTheVM'
  <1>1. /\ AdoptionTypeOK /\ SockBound /\ RecordFresh /\ AdoptedIsTheVM
        /\ Tracked
    BY DEF AdoptInv, WaitInv
  <1>2. \A j \in Pids : proc'[j] = IF j = i THEN NoProc ELSE proc[j]
    BY <1>1, ReapEffect
  <1>3. SockBound'
    BY <1>1, <1>2 DEF SockBound, IsVM
  <1>4. RecordFresh'
    BY <1>1 DEF RecordFresh
  <1>5. AdoptedIsTheVM'
    BY <1>1, <1>2 DEF AdoptedIsTheVM, IsVM, Tracked
  <1> QED BY <1>3, <1>4, <1>5

(* Every step of a careful supervisor keeps what AdoptVM relies on. *)
LEMMA AdoptStep ==
    ASSUME Careful, AdoptInv, [Next]_vars
    PROVE  AdoptInv'
  <1>1. WaitInv /\ WaitInv'
    BY WaitStep DEF AdoptInv
  <1>2. AdoptionTypeOK /\ AdoptionTypeOK' /\ Tracked /\ ChildTracked
    BY <1>1 DEF WaitInv
  <1> DEFINE Rest == SockBound /\ RecordFresh /\ AdoptedIsTheVM
  <1> SUFFICES Rest'
    BY <1>1 DEF AdoptInv
  <1>3. Rest
    BY DEF AdoptInv
  <1>4. ASSUME NEW n \in Names, NEW i \in Pids, Spawn(n, i) PROVE Rest'
    BY <1>2, <1>3, <1>4, AdoptionBlanksAssumption
       DEF AdoptionTypeOK, Handle, Proc, Tracked, ChildTracked,
           SockBound, RecordFresh, AdoptedIsTheVM, IsVM,
           Spawn, SetHandle, NoHandle, NoProc
  <1>5. ASSUME NEW n \in Names, EscapeAndListen(n) PROVE Rest'
    <2> DEFINE i == handle[n].pid
    <2>1. /\ i \in Pids /\ IsVM(i, n) /\ ~proc[i].dead
      BY <1>2, <1>5 DEF EscapeAndListen, Alive, ChildTracked
    <2>2. \A j \in Pids : /\ proc'[j].kind = proc[j].kind
                          /\ proc'[j].name = proc[j].name
                          /\ proc'[j].dead = proc[j].dead
      BY <1>2, <1>5 DEF EscapeAndListen, AdoptionTypeOK, Proc
    <2>3. \A m \in Names : sock'[m] = IF m = n THEN i ELSE sock[m]
      BY <1>2, <1>5 DEF EscapeAndListen, AdoptionTypeOK
    <2>4. \A m \in Names : /\ handle'[m].kind = IF m = n THEN "listening" ELSE handle[m].kind
                           /\ handle'[m].pid = handle[m].pid
                           /\ handle'[m].same = handle[m].same
                           /\ handle'[m].conn = handle[m].conn
      BY <1>2, <1>5 DEF EscapeAndListen, SetHandle, AdoptionTypeOK, Handle
    <2>5. record' = record /\ handle[n].kind = "spawned"
      BY <1>5 DEF EscapeAndListen
    <2>6. SockBound'
      BY <1>3, <2>1, <2>2, <2>3 DEF SockBound, IsVM
    <2>7. RecordFresh'
      BY <1>3, <2>1, <2>3, <2>4, <2>5, AdoptionBlanksAssumption DEF RecordFresh
    <2>8. AdoptedIsTheVM'
      BY <1>2, <1>3, <2>2, <2>4 DEF AdoptedIsTheVM, IsVM, Tracked
    <2> QED BY <2>6, <2>7, <2>8
  <1>6. ASSUME NEW n \in Names, RunReturns(n) PROVE Rest'
    BY <1>2, <1>3, <1>6, AdoptionBlanksAssumption
       DEF AdoptionTypeOK, Handle, Proc, Tracked, ChildTracked,
           SockBound, RecordFresh, AdoptedIsTheVM, IsVM,
           RunReturns, SetHandle
  <1>7. ASSUME NEW n \in Names, RunFails(n) PROVE Rest'
    <2> DEFINE i == handle[n].pid
    <2>1. handle[n].kind \in {"spawned", "listening"} /\ record' = record
      BY <1>7 DEF RunFails
    <2>2. i \in Pids /\ IsVM(i, n)
      BY <2>1, <1>2 DEF ChildTracked
    <2>3. \A j \in Pids : /\ proc'[j].kind = proc[j].kind
                          /\ proc'[j].name = proc[j].name
                          /\ j # i => proc'[j].dead = proc[j].dead
      BY <1>2, <2>2, <1>7, ExitEffect, Zenon DEF RunFails
    <2>4. \A m \in Names : sock'[m] = IF m = n THEN NoPid ELSE sock[m]
      BY <1>2, <1>7 DEF RunFails, AdoptionTypeOK
    <2>5. \A m \in Names : handle'[m] = IF m = n THEN NoHandle ELSE handle[m]
      BY <1>2, <1>7 DEF RunFails, SetHandle, AdoptionTypeOK
    <2>6. SockBound'
      BY <1>3, <2>2, <2>3, <2>4, AdoptionBlanksAssumption DEF SockBound, IsVM
    <2>7. RecordFresh'
      BY <1>3, <2>1, <2>4, <2>5, AdoptionBlanksAssumption DEF RecordFresh, NoHandle
    <2>8. AdoptedIsTheVM'
      BY <1>2, <1>3, <2>3, <2>5 DEF AdoptedIsTheVM, IsVM, Tracked, NoHandle
    <2> QED BY <2>6, <2>7, <2>8
  <1>8. ASSUME NEW n \in Names, Persist(n) PROVE Rest'
    BY <1>2, <1>3, <1>8, AdoptionBlanksAssumption
       DEF AdoptionTypeOK, Handle, Proc, Tracked, ChildTracked,
           SockBound, RecordFresh, AdoptedIsTheVM, IsVM,
           Persist
  <1>9. ASSUME NEW n \in Names, AdoptSignal(n) PROVE Rest'
    BY <1>2, <1>3, <1>9, AdoptionBlanksAssumption
       DEF AdoptionTypeOK, Handle, Proc, Tracked, ChildTracked,
           SockBound, RecordFresh, AdoptedIsTheVM, IsVM,
           AdoptSignal, SetHandle, NoHandle
  <1>10. ASSUME NEW n \in Names, AdoptProbe(n) PROVE Rest'
    BY <1>2, <1>3, <1>10, AdoptionBlanksAssumption
       DEF AdoptionTypeOK, Handle, Proc, Tracked, ChildTracked,
           SockBound, RecordFresh, AdoptedIsTheVM, IsVM,
           AdoptProbe, SetHandle
  <1>11. ASSUME NEW n \in Names, AdoptFails(n) PROVE Rest'
    BY <1>2, <1>3, <1>11, AdoptionBlanksAssumption
       DEF AdoptionTypeOK, Handle, Proc, Tracked, ChildTracked,
           SockBound, RecordFresh, AdoptedIsTheVM, IsVM,
           AdoptFails, SetHandle, NoHandle
  <1>12. ASSUME NEW n \in Names, WaitBegins(n) PROVE Rest'
    <2>1. SockBound' /\ RecordFresh'
      BY <1>2, <1>3, <1>12, WaitBeginsEffect DEF SockBound, RecordFresh, IsVM
    <2>2. AdoptedIsTheVM'
      BY <1>2, <1>3, <1>12, WaitBeginsEffect DEF AdoptedIsTheVM, IsVM
    <2> QED BY <2>1, <2>2
  <1>13. ASSUME NEW n \in Names, WaitChild(n) PROVE Rest'
    <2> DEFINE i == handle[n].pid
    <2>1. i \in Pids
      BY <1>2, <1>13 DEF WaitChild, ChildTracked
    <2>2. \A m \in Names : /\ handle[m].pid # i => handle'[m].same = handle[m].same
                           /\ handle[m].pid = i => ~handle'[m].same
                           /\ handle'[m].kind = handle[m].kind
                           /\ handle'[m].pid = handle[m].pid
                           /\ handle'[m].conn = handle[m].conn
      <3> DEFINE h == HandleAfterReap(i)
      <3>1. h \in [Names -> Handle]
        BY <1>2, EndsTyped
      <3>2. handle' = [h EXCEPT ![n].wait = "done"]
        BY <1>13 DEF WaitChild
      <3>3. \A m \in Names :
              /\ handle[m].pid # i => h[m].same = handle[m].same
              /\ handle[m].pid = i => ~h[m].same
              /\ h[m].kind = handle[m].kind /\ h[m].pid = handle[m].pid
              /\ h[m].conn = handle[m].conn
        BY <1>2, <2>1, ReapEffect
      <3> HIDE DEF h
      <3> QED BY <3>1, <3>2, <3>3 DEF Handle
    <2> QED BY <2>1, <2>2, <1>13, ReapAdopt DEF WaitChild
  <1>14. ASSUME NEW n \in Names, WaitAdopted(n) PROVE Rest'
    BY <1>2, <1>3, <1>14, AdoptionBlanksAssumption
       DEF AdoptionTypeOK, Handle, Proc, Tracked, ChildTracked,
           SockBound, RecordFresh, AdoptedIsTheVM, IsVM,
           WaitAdopted, SetHandle
  <1>15. ASSUME NEW n \in Names, Kill(n) PROVE Rest'
    BY <1>15, ExitAdopt DEF Kill, Exits
  <1>16. ASSUME NEW n \in Names, Release(n) PROVE Rest'
    BY <1>2, <1>3, <1>16, AdoptionBlanksAssumption
       DEF AdoptionTypeOK, Handle, Proc, Tracked, ChildTracked,
           SockBound, RecordFresh, AdoptedIsTheVM, IsVM,
           Release, SetHandle, NoHandle
  <1>17. ASSUME NEW i \in Pids, Exit(i) PROVE Rest'
    BY <1>17, ExitAdopt DEF Exit, Exits
  <1>18. ASSUME NEW i \in Pids, Reap(i) PROVE Rest'
    BY <1>18, <1>2, ReapEffect, ReapAdopt DEF Reap
  <1>19. ASSUME NEW i \in Pids, OtherStarts(i) PROVE Rest'
    BY <1>2, <1>3, <1>19, AdoptionBlanksAssumption
       DEF AdoptionTypeOK, Handle, Proc, Tracked, ChildTracked,
           SockBound, RecordFresh, AdoptedIsTheVM, IsVM,
           OtherStarts, NoProc
  <1>20. ASSUME Restart PROVE Rest'
    <2>1. \A m \in Names : handle'[m].kind = "none" /\ ~handle'[m].same
      BY <1>20 DEF Restart, NoHandle
    <2>2. \A i \in Pids : ~Dies(i) => /\ proc'[i].kind = proc[i].kind
                                     /\ proc'[i].name = proc[i].name
                                     /\ proc'[i].dead = proc[i].dead
      BY <1>2, <1>20 DEF Restart, AdoptionTypeOK, Proc
    <2>3. /\ record' = record
          /\ \A m \in Names : sock'[m] \in Pids => sock'[m] = sock[m] /\ ~Dies(sock[m])
      BY <1>20, AdoptionBlanksAssumption DEF Restart
    <2>4. SockBound'
      BY <1>3, <2>2, <2>3 DEF SockBound, IsVM
    <2>5. RecordFresh' /\ AdoptedIsTheVM'
      BY <1>3, <2>1, <2>3 DEF RecordFresh, AdoptedIsTheVM
    <2> QED BY <2>4, <2>5
  <1>21. CASE UNCHANGED vars
    BY <1>3, <1>21 DEF SockBound, RecordFresh, AdoptedIsTheVM, IsVM, vars
  <1> QED
    BY <1>4, <1>5, <1>6, <1>7, <1>8, <1>9, <1>10, <1>11, <1>12,
       <1>13, <1>14, <1>15, <1>16, <1>17, <1>18, <1>19, <1>20, <1>21 DEF Next, HandleStep

(* If the supervisor forgets a PID before it starts the VM anew, then what *)
(* AdoptVM returns is one VM, for every number of names and processes:     *)
(* neither a reused PID nor another's socket passes for it.                *)
THEOREM AdoptionIsSound ==
    ASSUME Careful
    PROVE  Spec => []AdoptedIsTheVM
  <1>1. Init => AdoptInv
    <2> SUFFICES ASSUME Init PROVE AdoptInv
      OBVIOUS
    <2>1. AdoptionTypeOK
      BY AdoptionBlanksTyped DEF Init, AdoptionTypeOK
    <2>2. \A n \in Names :
            /\ ~handle[n].same /\ handle[n].kind = "none" /\ handle[n].wait = "no"
            /\ sock[n] \notin Pids
      BY AdoptionBlanksAssumption DEF Init, NoHandle
    <2> QED
      BY <2>1, <2>2 DEF AdoptInv, WaitInv, Tracked, ChildTracked, WaitMeansGone,
                        SockBound, RecordFresh, AdoptedIsTheVM
  <1>2. AdoptInv /\ [Next]_vars => AdoptInv'
    BY AdoptStep
  <1>3. AdoptInv => AdoptedIsTheVM
    BY DEF AdoptInv
  <1> QED BY <1>1, <1>2, <1>3, PTL DEF Spec
=============================================================================
