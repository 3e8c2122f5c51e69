---------------------------- MODULE LinuxProcess ----------------------------
(***************************************************************************)
(* The Process functions of libpsutil/arch/linux/psutil_linux.c: the       *)
(* getters that read files of /proc, process_is_running, and the steps of  *)
(* ProcessSteps.                                                           *)
(***************************************************************************)
EXTENDS ProcessSteps

\* fopen("/proc/<pid>/..."): the open file stays with the process it was
\* opened on, whoever gets the pid later.
OpenProcFile(c, o) ==
  /\ \/ /\ \E q \in At(hpid[c]) : Goto(c, "reading", o, q)
        /\ UNCHANGED <<kernelVars, handleVars, elapsed, limit>>
     \/ At(hpid[c]) = {} /\ Fail(c, o, {})
     \/ Fail(c, o, Refused)
  /\ Observe

\* Slip: the getter reads the file again and replaces what it had stored.
OpenAlways(c, f) == MayCall(c, f) /\ OpenProcFile(c, f)

OpenUncached(c, f) == MayCall(c, f) /\ ~Cached(c, f) /\ OpenProcFile(c, f)

\* psutil_linux_process_get_exe, ..._get_cwd
GetExe(c) == FillIfAlive(c, "exe") \/ ReturnCached(c, "exe")
GetCwd(c) == FillIfAlive(c, "cwd") \/ ReturnCached(c, "cwd")

\* psutil_linux_process_get_name (comm), ..._get_username (status),
\* ..._get_create_time (stat): up to the fopen.
GetName(c)       == OpenUncached(c, "name") \/ ReturnCached(c, "name")
GetUsername(c)   == OpenUncached(c, "username") \/ ReturnCached(c, "username")
GetCreateTime(c) == OpenUncached(c, "create_time") \/ ReturnCached(c, "create_time")

\* psutil_linux_process_get_ppid, ..._get_status: read afresh at every call.
GetPpid(c)   == MayCall(c, "get_ppid") /\ OpenProcFile(c, "get_ppid")
GetStatus(c) == MayCall(c, "get_status") /\ OpenProcFile(c, "get_status")

\* fgets of a caching getter: the process of the open file answers if it still
\* has an entry; getpwuid or strdup may fail, and then nothing is stored.
ReadField(c) ==
  /\ pc[c] = "reading" /\ op[c] \in Field
  /\ \/ Present(fp[c]) /\ Fill(c, op[c], fp[c])
     \/ ~Present(fp[c]) /\ Fail(c, op[c], {})
     \/ Fail(c, op[c], Refused)
  /\ Observe

\* Slip: two letters swapped.
StatusCodeSwapped(q) ==
  CASE life[q] = "stopped" -> STATUS_ZOMBIE
    [] life[q] = "zombie"  -> STATUS_STOPPED
    [] OTHER               -> STATUS_RUNNING

\* The letter of the state in /proc/<pid>/stat, as psutil.h numbers it.  The
\* letters of a process that runs or sleeps (R, S, D, I) are one state of the
\* model, and so are their codes.
StatusCode(q) ==
  CASE life[q] = "stopped" -> STATUS_STOPPED
    [] life[q] = "zombie"  -> STATUS_ZOMBIE
    [] OTHER               -> STATUS_RUNNING

ReadPpid(c) ==
  /\ pc[c] = "reading" /\ op[c] = "get_ppid"
  /\ \/ Present(fp[c]) /\ Return(c, "get_ppid", 1, fp[c], {})
     \/ ~Present(fp[c]) /\ Return(c, "get_ppid", 0, None, {})
  /\ UNCHANGED <<kernelVars, handleVars>>
  /\ Observe

ReadStatus(c) ==
  /\ pc[c] = "reading" /\ op[c] = "get_status"
  /\ \/ Present(fp[c]) /\ Return(c, "get_status", StatusCode(fp[c]), fp[c], {})
     \/ ~Present(fp[c]) /\ Return(c, "get_status", STATUS_RUNNING, None, {})
  /\ UNCHANGED <<kernelVars, handleVars>>
  /\ Observe

-----------------------------------------------------------------------------
(***************************************************************************)
(* psutil_linux_process_is_running: stat of the directory, then fopen and  *)
(* fgets of its stat file.                                                 *)
(***************************************************************************)
IsRunningStat(c) ==
  /\ MayCall(c, "is_running")
  /\ \/ /\ At(hpid[c]) # {}
        /\ Goto(c, "stat_done", "is_running", None)
        /\ UNCHANGED <<kernelVars, handleVars, elapsed, limit>>
     \/ At(hpid[c]) = {} /\ Fail(c, "is_running", {})
  /\ Observe

IsRunningOpen(c) == pc[c] = "stat_done" /\ OpenProcFile(c, "is_running")

\* Slip: a zombie counts as running.
IsRunningReadZombie(c) ==
  /\ pc[c] = "reading" /\ op[c] = "is_running"
  /\ Return(c, "is_running", IF Present(fp[c]) THEN 1 ELSE 0, fp[c], {})
  /\ UNCHANGED <<kernelVars, handleVars>>
  /\ Observe

IsRunningRead(c) ==
  /\ pc[c] = "reading" /\ op[c] = "is_running"
  /\ IF Present(fp[c]) /\ life[fp[c]] # "zombie"
     THEN Return(c, "is_running", 1, fp[c], {})
     ELSE Return(c, "is_running", 0, fp[c], {})
  /\ UNCHANGED <<kernelVars, handleVars>>
  /\ Observe

-----------------------------------------------------------------------------
\* What a thread does by running the library's code, once it is in a call.
Continue(c) ==
  \/ ReadField(c) \/ ReadPpid(c) \/ ReadStatus(c)
  \/ IsRunningOpen(c) \/ IsRunningRead(c)
  \/ WaitCollects(c) \/ WaitNoChild(c) \/ WaitPolls(c) \/ WaitSleeps(c)
  \/ WaitTimesOut(c)

\* What a thread may begin to do, or suffer.
Begin(c) ==
  \/ \E p \in Pid \cup {0} : ProcessNew(c, p)
  \/ ProcessFree(c)
  \/ GetName(c) \/ GetExe(c) \/ GetCwd(c) \/ GetUsername(c) \/ GetCreateTime(c)
  \/ GetPpid(c) \/ GetStatus(c)
  \/ IsRunningStat(c)
  \/ Suspend(c) \/ Resume(c) \/ Terminate(c) \/ Kill(c)
  \/ \E t \in Timeouts : WaitBegin(c, t)
  \/ WaitInterrupted(c)

Next ==
  \/ Environment
  \/ \E c \in Caller : Begin(c) \/ Continue(c)

Spec == Init /\ [][Next]_vars

-----------------------------------------------------------------------------
\* The inductive invariant of the handles and of the calls in progress.
CallsSound ==
  /\ PidUnique
  /\ \A c \in Caller : HandleSound(c) /\ LentSound(c) /\ FileSound(c)
=============================================================================
