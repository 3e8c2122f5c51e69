----------------------------- MODULE BsdProcess -----------------------------
(***************************************************************************)
(* The Process functions of libpsutil/arch/bsd/psutil_bsd.c.  No field is  *)
(* kept for a later call: a getter frees the string it stored before.      *)
(***************************************************************************)
EXTENDS ProcessSteps

\* psutil_bsd_process_new reads nothing yet.
BsdHandles(c) == (\E p \in Pid \cup {0} : ProcessNew(c, p)) \/ ProcessFree(c)

\* What stays lent when field f is replaced: its own earlier string is freed.
BsdStillLent(c, f) == {l \in lent[c] : l[1] # f}

\* A getter asks one of the processes Q that the system can describe.  The old
\* string is freed before strdup, which may fail and leave NULL behind.
BsdReplace(c, f, Q) ==
  /\ MayCall(c, f)
  /\ \/ \E q \in Q :
          LET s == [of |-> q, image |-> image[q]] IN
          /\ cache' = [cache EXCEPT ![c][f] = s]
          /\ lent' = [lent EXCEPT ![c] = BsdStillLent(c, f) \cup {<<f, s>>}]
          /\ Return(c, f, 1, q, {})
          /\ UNCHANGED <<kernelVars, hpid, birth, struck>>
     \/ /\ Q # {}
        /\ cache' = [cache EXCEPT ![c][f] = NoSnapshot]
        /\ lent' = [lent EXCEPT ![c] = BsdStillLent(c, f)]
        /\ Return(c, f, 0, None, Refused)
        /\ UNCHANGED <<kernelVars, hpid, birth, struck>>
     \/ Q = {} /\ Fail(c, f, {})
     \/ Fail(c, f, Refused)
  /\ Observe

\* The processes that /proc/<pid>/exe and cwd lead to.
BsdLinked(c) == {q \in At(hpid[c]) : Alive(q)}

\* psutil_bsd_process_get_name, ..._username: sysctl; ..._exe, ..._cwd: readlink.
BsdGetName(c)     == BsdReplace(c, "name", At(hpid[c]))
BsdGetUsername(c) == BsdReplace(c, "username", At(hpid[c]))
BsdGetExe(c)      == BsdReplace(c, "exe", BsdLinked(c))
BsdGetCwd(c)      == BsdReplace(c, "cwd", BsdLinked(c))

\* A sysctl whose answer v(q) is not stored, and fails with the value none.
BsdAsk(c, o, v, none) ==
  /\ MayCall(c, o)
  /\ \/ \E q \in At(hpid[c]) : Return(c, o, v[q], q, {})
     \/ At(hpid[c]) = {} /\ Return(c, o, none, None, {})
     \/ Return(c, o, none, None, Refused)
  /\ UNCHANGED <<kernelVars, handleVars>>
  /\ Observe

\* psutil_bsd_process_get_create_time, ..._ppid
BsdGetCreateTime(c) == BsdAsk(c, "create_time", [q \in Proc |-> 1], 0)
BsdGetPpid(c)       == BsdAsk(c, "get_ppid", [q \in Proc |-> 1], 0)

\* ki_stat: a stopped process counts as a sleeping one.
BsdStatusCode(q) ==
  CASE life[q] = "stopped" -> STATUS_SLEEPING
    [] life[q] = "zombie"  -> STATUS_ZOMBIE
    [] OTHER               -> STATUS_RUNNING

\* psutil_bsd_process_get_status
BsdGetStatus(c) ==
  BsdAsk(c, "get_status", [q \in Proc |-> BsdStatusCode(q)], STATUS_RUNNING)

\* psutil_bsd_process_suspend, resume, terminate, kill
BsdSignals(c) == Suspend(c) \/ Resume(c) \/ Terminate(c) \/ Kill(c)

\* psutil_bsd_process_wait asks once, whatever the timeout; a child that goes
\* on running is answered like an error.
BsdWait(c) ==
  /\ MayCall(c, "wait")
  /\ \/ \E q \in Kid(hpid[c]) : Reap(q) /\ Return(c, "wait", 0, q, {})
     \/ /\ \A q \in Kid(hpid[c]) : Alive(q)
        /\ Return(c, "wait", -1, None, {}) /\ UNCHANGED kernelVars
  /\ UNCHANGED handleVars
  /\ Observe

\* psutil_bsd_process_is_running is pid_exists: stat of /proc/<pid>, which fails
\* for every process where /proc is not mounted.
BsdIsRunning(c) ==
  /\ MayCall(c, "is_running")
  /\ \/ \E q \in At(hpid[c]) : Return(c, "is_running", 1, q, {})
     \/ At(hpid[c]) = {} /\ Return(c, "is_running", 0, None, {})
     \/ Return(c, "is_running", 0, None, Refused)
  /\ UNCHANGED <<kernelVars, handleVars>>
  /\ Observe

BsdBegin(c) ==
  \/ BsdHandles(c)
  \/ BsdGetName(c) \/ BsdGetUsername(c) \/ BsdGetExe(c) \/ BsdGetCwd(c)
  \/ BsdGetCreateTime(c) \/ BsdGetPpid(c) \/ BsdGetStatus(c)
  \/ BsdSignals(c) \/ BsdWait(c) \/ BsdIsRunning(c)

BsdTrueIsRunning(a) ==
  Shows(a, IF a.val = 1 THEN {"running", "stopped", "zombie"} ELSE {"absent", "refused"})

BsdTrueStatus(a) ==
  Shows(a, CASE a.val = STATUS_SLEEPING -> {"stopped"}
             [] a.val = STATUS_ZOMBIE   -> {"zombie"}
             [] OTHER -> {"running", "absent", "refused"})

BsdTrueWait(a) ==
  IF a.val = 0 THEN Collected(a) ELSE Shows(a, {"running", "stopped", "nochild"})
=============================================================================
