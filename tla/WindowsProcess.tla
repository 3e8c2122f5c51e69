--------------------------- MODULE WindowsProcess ---------------------------
(***************************************************************************)
(* The Process functions of libpsutil/arch/windows/psutil_windows.c, and   *)
(* the process table they see.  Here a process that has exited keeps its   *)
(* entry ("zombie") until nobody has a HANDLE to it; nothing collects it,  *)
(* and a HANDLE stays with the process it was opened on.  So a function    *)
(* that opens, asks and closes takes one step: what it asks is about the   *)
(* process it has opened.  That OpenProcess is tried with fewer rights     *)
(* when it fails with more makes no difference to the outcomes.            *)
(* An exit code of STILL_ACTIVE (259) is left out.                         *)
(***************************************************************************)
EXTENDS ProcessSteps

\* The last HANDLE to a process that has exited is closed.
WindowsDeletes(q) == ReapedByParent(q) /\ \A c \in Caller : fp[c] # q

\* No process changes its program, and none is anybody's to collect.
WindowsEnvironment ==
  /\ \/ \E q \in Proc, p \in Pid : Fork(q, p, FALSE)
     \/ \E q \in Proc : Exit(q) \/ WindowsDeletes(q)
  /\ UNCHANGED <<handleVars, pc, op, fp, elapsed, limit, ret>>
  /\ Observe

\* psutil_windows_process_new calls five getters one after the other, each of
\* which opens the pid anew; cwd is known of the own process only.
WindowsNew(c, p) == NewReadsFrom(c, p, "name")

WindowsNewAfter == [name |-> "exe", exe |-> "username", username |-> "create_time",
                    create_time |-> "cwd", cwd |-> NoCall]

\* What the system tells of the process at the pid: its modules and directory
\* while it lives, its user and times while it has an entry.
WindowsTold(c, f) ==
  CASE f \in {"name", "exe"} -> {q \in At(hpid[c]) : Alive(q)}
    [] f = "cwd"             -> At(hpid[c]) \cap {Self}
    [] OTHER                 -> At(hpid[c])

WindowsNewReads(c) ==
  /\ pc[c] = "new"
  /\ NewTurnsTo(c, WindowsNewAfter[op[c]])
  /\ NewStores(c, op[c], WindowsTold(c, op[c]))
  /\ Observe

\* A getter that keeps what it has read.
WindowsGet(c, f) ==
  /\ MayCall(c, f) /\ ~Cached(c, f)
  /\ \/ \E q \in WindowsTold(c, f) : Fill(c, f, q)
     \/ WindowsTold(c, f) = {} /\ Fail(c, f, {})
     \/ Fail(c, f, Refused)
  /\ Observe

\* psutil_windows_process_get_name, ..._exe, ..._username, ..._create_time, ..._cwd
WindowsGetName(c)       == WindowsGet(c, "name") \/ ReturnCached(c, "name")
WindowsGetExe(c)        == WindowsGet(c, "exe") \/ ReturnCached(c, "exe")
WindowsGetUsername(c)   == WindowsGet(c, "username") \/ ReturnCached(c, "username")
WindowsGetCreateTime(c) == WindowsGet(c, "create_time") \/ ReturnCached(c, "create_time")
WindowsGetCwd(c)        == WindowsGet(c, "cwd") \/ ReturnCached(c, "cwd")

\* psutil_windows_process_get_ppid keeps the answer in the handle.
WindowsGetPpid(c) ==
  /\ MayCall(c, "get_ppid")
  /\ \/ /\ Cached(c, "ppid")
        /\ Return(c, "get_ppid", 1, cache[c]["ppid"].of, {}) /\ UNCHANGED cache
     \/ /\ ~Cached(c, "ppid")
        /\ \E q \in At(hpid[c]) : Store(c, "ppid", q) /\ Return(c, "get_ppid", 1, q, {})
     \/ /\ ~Cached(c, "ppid")
        /\ Return(c, "get_ppid", 0, None, IF At(hpid[c]) = {} THEN {} ELSE Refused)
        /\ UNCHANGED cache
  /\ UNCHANGED <<kernelVars, hpid, birth, lent, struck>>
  /\ Observe

\* psutil_windows_process_get_status: a process that cannot be opened is dead.
WindowsGetStatus(c) ==
  /\ MayCall(c, "get_status")
  /\ \/ \E q \in At(hpid[c]) :
          Return(c, "get_status", IF Alive(q) THEN STATUS_RUNNING ELSE STATUS_DEAD, q, {})
     \/ At(hpid[c]) = {} /\ Return(c, "get_status", STATUS_DEAD, None, {})
     \/ Return(c, "get_status", STATUS_DEAD, None, Refused)
  /\ UNCHANGED <<kernelVars, handleVars>>
  /\ Observe

\* psutil_windows_process_suspend; psutil_windows_process_resume, which leaves
\* a process suspended that has been suspended more often than resumed.
WindowsSuspend(c) == Suspend(c)
WindowsResume(c) ==
  \/ Resume(c)
  \/ /\ MayCall(c, "CONT") /\ hpid[c] # SelfPid
     /\ \E q \in At(hpid[c]) :
          life[q] = "stopped" /\ struck' = [struck EXCEPT ![c] = @ \cup {q}]
     /\ UNCHANGED <<kernelVars, hpid, cache, birth, lent, callVars>>

\* psutil_windows_process_terminate, psutil_windows_process_kill: the same.
WindowsTerminate(c) ==
  /\ \E o \in {"TERM", "KILL"} : MayCall(c, o)
  /\ hpid[c] # SelfPid
  /\ \E q \in At(hpid[c]) :
       /\ Deliver(q, "KILL")
       /\ struck' = [struck EXCEPT ![c] = @ \cup {q}]
  /\ UNCHANGED <<hpid, cache, birth, lent, pc, op, fp, elapsed, limit, ret>>
  /\ Observe

\* psutil_windows_process_send_signal calls one of these.
WindowsSignals(c) == WindowsSuspend(c) \/ WindowsResume(c) \/ WindowsTerminate(c)

\* psutil_windows_process_wait: OpenProcess.
WindowsWaitBegin(c, t) ==
  /\ MayCall(c, "wait")
  /\ \/ /\ \E q \in At(hpid[c]) : Goto(c, "waiting", "wait", q)
        /\ limit' = [limit EXCEPT ![c] = t]
        /\ UNCHANGED elapsed
     \/ Return(c, "wait", -1, None, IF At(hpid[c]) = {} THEN {} ELSE Refused)
  /\ UNCHANGED <<kernelVars, handleVars>>
  /\ Observe

\* WaitForSingleObject: the process has exited, or the time is up before.
WindowsWaitEnds(c) ==
  /\ pc[c] = "waiting"
  /\ \/ ~Alive(fp[c]) /\ Return(c, "wait", 0, fp[c], {})
     \/ Alive(fp[c]) /\ limit[c] >= 0 /\ Return(c, "wait", 1, fp[c], {})
  /\ UNCHANGED <<kernelVars, handleVars>>
  /\ Observe

\* psutil_windows_process_is_running: a process that it may not open runs.
WindowsIsRunning(c) ==
  /\ MayCall(c, "is_running")
  /\ \/ \E q \in At(hpid[c]) : Return(c, "is_running", IF Alive(q) THEN 1 ELSE 0, q, {})
     \/ \E q \in At(hpid[c]) : Return(c, "is_running", 1, q, Refused)
     \/ At(hpid[c]) = {} /\ Return(c, "is_running", 0, None, {})
     \/ Return(c, "is_running", 0, None, Refused)
  /\ UNCHANGED <<kernelVars, handleVars>>
  /\ Observe

WindowsBegin(c) ==
  \/ \E p \in Pid \cup {0} : WindowsNew(c, p)
  \/ ProcessFree(c)
  \/ WindowsGetName(c) \/ WindowsGetExe(c) \/ WindowsGetUsername(c)
  \/ WindowsGetCreateTime(c) \/ WindowsGetCwd(c)
  \/ WindowsGetPpid(c) \/ WindowsGetStatus(c) \/ WindowsIsRunning(c)
  \/ WindowsSignals(c)
  \/ \E t \in Timeouts : WindowsWaitBegin(c, t)

WindowsContinue(c) == WindowsNewReads(c) \/ WindowsWaitEnds(c)

WindowsTrueIsRunning(a) ==
  Shows(a, IF a.val = 1 THEN {"running", "stopped", "refused"}
           ELSE {"zombie", "absent", "refused"})

WindowsTrueStatus(a) ==
  Shows(a, IF a.val = STATUS_DEAD THEN {"zombie", "absent", "refused"}
           ELSE {"running", "stopped"})

WindowsTrueWait(a) ==
  CASE a.val = 0  -> a.of \in Proc /\ life[a.of] \in {"zombie", "gone"} /\ Shows(a, {"zombie"})
    [] a.val = 1  -> Shows(a, {"running", "stopped"})
    [] a.val = -1 -> Shows(a, {"absent", "refused"})
=============================================================================
