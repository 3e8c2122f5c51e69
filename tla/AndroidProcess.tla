--------------------------- MODULE AndroidProcess ---------------------------
(***************************************************************************)
(* The Process functions of libpsutil/arch/android/psutil_android.c.  They *)
(* read the files of /proc in the steps of LinuxProcess, but process_new   *)
(* reads two of them at once, process_wait has a timeout of its own kind,  *)
(* and process_is_running is pid_exists.                                   *)
(***************************************************************************)
EXTENDS LinuxProcess

\* psutil_android_process_new reads the stat file twice, for the name and for
\* the creation time; whether it succeeds makes no difference to what follows.
AndroidNew(c, p) == NewReadsFrom(c, p, "name")

AndroidNewAfter == [name |-> "create_time", create_time |-> NoCall]

\* read_file: fopen, or the next field.
AndroidNewOpens(c) ==
  /\ pc[c] = "new"
  /\ \/ /\ \E q \in At(hpid[c]) : Goto(c, "new_reading", op[c], q)
        /\ UNCHANGED <<kernelVars, handleVars, elapsed, limit>>
     \/ NewTurnsTo(c, AndroidNewAfter[op[c]]) /\ UNCHANGED cache
  /\ Observe

\* read_file: fread, and what is made of its text.
AndroidNewReads(c) ==
  /\ pc[c] = "new_reading"
  /\ NewTurnsTo(c, AndroidNewAfter[op[c]])
  /\ NewStores(c, op[c], {q \in {fp[c]} : Present(q)})
  /\ Observe

\* psutil_android_process_get_name (comm), ..._username (status): up to the
\* fopen.  The uids that get_username asks for first are not used.
AndroidGetName(c)     == OpenUncached(c, "name") \/ ReturnCached(c, "name")
AndroidGetUsername(c) == OpenUncached(c, "username") \/ ReturnCached(c, "username")

\* psutil_android_process_get_exe, ..._cwd: readlink.
AndroidGetExe(c) == FillIfAlive(c, "exe") \/ ReturnCached(c, "exe")
AndroidGetCwd(c) == FillIfAlive(c, "cwd") \/ ReturnCached(c, "cwd")

\* psutil_android_process_get_create_time returns what process_new has stored,
\* which is 0.0 if it could not read the file then.
AndroidGetCreateTime(c) ==
  \/ ReturnCached(c, "create_time")
  \/ /\ MayCall(c, "create_time") /\ ~Cached(c, "create_time")
     /\ Fail(c, "create_time", {})
     /\ Observe

\* psutil_android_process_get_ppid, ..._status: up to the fopen.
AndroidGetPpid(c)   == MayCall(c, "get_ppid") /\ OpenProcFile(c, "get_ppid")
AndroidGetStatus(c) == MayCall(c, "get_status") /\ OpenProcFile(c, "get_status")

\* psutil_android_process_suspend, resume, terminate, kill
AndroidSignals(c) == Suspend(c) \/ Resume(c) \/ Terminate(c) \/ Kill(c)

\* psutil_android_process_wait: a timeout of 0 is none, too.  Timeouts between
\* 0 and a millisecond, with which it asks nothing, are left out.
AndroidWaitBegin(c, t) ==
  /\ MayCall(c, "wait")
  /\ Goto(c, IF t <= 0 THEN "blocked" ELSE "poll", "wait", None)
  /\ limit' = [limit EXCEPT ![c] = t]
  /\ UNCHANGED <<kernelVars, handleVars, elapsed>>
  /\ Observe

\* The loop of psutil_android_process_wait ends like an error.
AndroidWaitTimesOut(c) ==
  /\ pc[c] = "poll" /\ elapsed[c] >= limit[c]
  /\ Return(c, "wait", -1, None, {})
  /\ UNCHANGED <<kernelVars, handleVars>>
  /\ Observe

\* psutil_android_process_is_running
AndroidIsRunning(c) ==
  /\ MayCall(c, "is_running")
  /\ \/ \E q \in At(hpid[c]) : Return(c, "is_running", 1, q, {})
     \/ At(hpid[c]) = {} /\ Return(c, "is_running", 0, None, {})
  /\ UNCHANGED <<kernelVars, handleVars>>
  /\ Observe

AndroidBegin(c) ==
  \/ \E p \in Pid \cup {0} : AndroidNew(c, p)
  \/ ProcessFree(c)
  \/ AndroidGetName(c) \/ AndroidGetUsername(c) \/ AndroidGetExe(c)
  \/ AndroidGetCwd(c) \/ AndroidGetCreateTime(c)
  \/ AndroidGetPpid(c) \/ AndroidGetStatus(c)
  \/ AndroidSignals(c) \/ AndroidIsRunning(c)
  \/ \E t \in Timeouts : AndroidWaitBegin(c, t)
  \/ WaitInterrupted(c)

AndroidContinue(c) ==
  \/ AndroidNewOpens(c) \/ AndroidNewReads(c)
  \/ ReadField(c) \/ ReadPpid(c) \/ ReadStatus(c)
  \/ WaitCollects(c) \/ WaitNoChild(c) \/ WaitPolls(c) \/ WaitSleeps(c)
  \/ AndroidWaitTimesOut(c)

AndroidTrueIsRunning(a) ==
  Shows(a, IF a.val = 1 THEN {"running", "stopped", "zombie"} ELSE {"absent"})

AndroidTrueWait(a) ==
  IF a.val = 0 THEN Collected(a)
  ELSE Shows(a, {"running", "stopped", "nochild", "refused"})
=============================================================================
