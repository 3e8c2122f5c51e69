----------------------------- MODULE MacProcess -----------------------------
(***************************************************************************)
(* The Process functions of libpsutil/arch/macos/psutil_macos.c.  A getter *)
(* is one sysctl or one proc_pid... call; process_is_running is a waitpid. *)
(***************************************************************************)
EXTENDS ProcessSteps

\* psutil_macos_process_new reads nothing yet.
MacHandles(c) == (\E p \in Pid \cup {0} : ProcessNew(c, p)) \/ ProcessFree(c)

\* psutil_macos_process_get_name, ..._username, ..._create_time: sysctl.
MacGetName(c)       == FillIfPresent(c, "name") \/ ReturnCached(c, "name")
MacGetUsername(c)   == FillIfPresent(c, "username") \/ ReturnCached(c, "username")
MacGetCreateTime(c) == FillIfPresent(c, "create_time") \/ ReturnCached(c, "create_time")

\* psutil_macos_process_get_exe, ..._cwd: proc_pidpath and proc_pidinfo.
MacGetExe(c) == FillIfAlive(c, "exe") \/ ReturnCached(c, "exe")
MacGetCwd(c) == FillIfAlive(c, "cwd") \/ ReturnCached(c, "cwd")

\* psutil_macos_process_get_ppid: a sysctl at every call.
MacGetPpid(c) ==
  /\ MayCall(c, "get_ppid")
  /\ \/ \E q \in At(hpid[c]) : Return(c, "get_ppid", 1, q, {})
     \/ At(hpid[c]) = {} /\ Return(c, "get_ppid", 0, None, {})
     \/ Return(c, "get_ppid", 0, None, Refused)
  /\ UNCHANGED <<kernelVars, handleVars>>
  /\ Observe

\* p_stat of struct kinfo_proc, as psutil.h numbers it.
MacStatusCode(q) ==
  CASE life[q] = "stopped" -> STATUS_STOPPED
    [] life[q] = "zombie"  -> STATUS_ZOMBIE
    [] OTHER               -> STATUS_RUNNING

\* psutil_macos_process_get_status
MacGetStatus(c) ==
  /\ MayCall(c, "get_status")
  /\ \/ \E q \in At(hpid[c]) : Return(c, "get_status", MacStatusCode(q), q, {})
     \/ At(hpid[c]) = {} /\ Return(c, "get_status", STATUS_RUNNING, None, {})
     \/ Return(c, "get_status", STATUS_RUNNING, None, Refused)
  /\ UNCHANGED <<kernelVars, handleVars>>
  /\ Observe

\* psutil_macos_process_suspend, resume, terminate, kill
MacSignals(c) == Suspend(c) \/ Resume(c) \/ Terminate(c) \/ Kill(c)

\* psutil_macos_process_wait: how it begins and goes on.
MacWaitBegins(c) == (\E t \in Timeouts : WaitBegin(c, t)) \/ WaitInterrupted(c)
MacWaits(c) ==
  \/ WaitCollects(c) \/ WaitNoChild(c)
  \/ WaitPolls(c) \/ WaitSleeps(c) \/ WaitTimesOut(c)

\* psutil_macos_process_is_running: waitpid(WNOHANG) collects a child that has
\* exited, and knows nothing of a process that is no child.
MacIsRunning(c) ==
  /\ MayCall(c, "is_running")
  /\ \/ /\ \E q \in Kid(hpid[c]) : Alive(q) /\ Return(c, "is_running", 1, q, {})
        /\ UNCHANGED kernelVars
     \/ \E q \in Kid(hpid[c]) : Reap(q) /\ Return(c, "is_running", 0, q, {})
     \/ /\ Kid(hpid[c]) = {} /\ Return(c, "is_running", 0, None, {})
        /\ UNCHANGED kernelVars
  /\ UNCHANGED handleVars
  /\ Observe

MacBegin(c) ==
  \/ MacHandles(c)
  \/ MacGetName(c) \/ MacGetUsername(c) \/ MacGetCreateTime(c)
  \/ MacGetExe(c) \/ MacGetCwd(c) \/ MacGetPpid(c) \/ MacGetStatus(c)
  \/ MacSignals(c) \/ MacWaitBegins(c) \/ MacIsRunning(c)

MacTrueIsRunning(a) ==
  Shows(a, IF a.val = 1 THEN {"running", "stopped"} ELSE {"zombie", "nochild"})
=============================================================================
