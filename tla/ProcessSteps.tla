---------------------------- MODULE ProcessSteps ----------------------------
(***************************************************************************)
(* Steps of the Process functions that several platforms have in common:   *)
(* making and freeing a handle, the fields a getter keeps, signals, and    *)
(* process_wait.  They are translated from the Linux file; the module of   *)
(* another platform says which functions of its own file take them.        *)
(***************************************************************************)
EXTENDS ProcessApi

(***************************************************************************)
(* Handles.                                                                *)
(***************************************************************************)

\* Slip: process_new leaves the fields as malloc found them.
ProcessNewUncleared(c, p) ==
  LET target == IF p = 0 THEN SelfPid ELSE p IN
  /\ pc[c] = "idle" /\ hpid[c] = None
  /\ hpid' = [hpid EXCEPT ![c] = target]
  /\ \E b \in IF At(target) = {} THEN {None} ELSE At(target) :
       birth' = [birth EXCEPT ![c] = b]
  /\ UNCHANGED <<kernelVars, cache, lent, struck, pc, op, fp, elapsed, limit, ret>>
  /\ Observe

\* psutil_linux_process_new: nothing is read yet, and a pid without a process
\* is accepted; 0 stands for the caller's own pid.
ProcessNew(c, p) ==
  LET target == IF p = 0 THEN SelfPid ELSE p IN
  /\ pc[c] = "idle" /\ hpid[c] = None
  /\ hpid' = [hpid EXCEPT ![c] = target]
  /\ cache' = [cache EXCEPT ![c] = Empty]
  /\ \E b \in IF At(target) = {} THEN {None} ELSE At(target) :
       birth' = [birth EXCEPT ![c] = b]
  /\ UNCHANGED <<kernelVars, lent, struck, pc, op, fp, elapsed, limit, ret>>
  /\ Observe

\* psutil_linux_process_free: every string of the handle is freed with it.  The
\* memory keeps its contents, and malloc may give it to the next handle.
ProcessFree(c) ==
  /\ pc[c] = "idle" /\ hpid[c] # None
  /\ hpid' = [hpid EXCEPT ![c] = None]
  /\ birth' = [birth EXCEPT ![c] = None]
  /\ lent' = [lent EXCEPT ![c] = {}]
  /\ struck' = [struck EXCEPT ![c] = {}]
  /\ ret' = [ret EXCEPT ![c] = NoAnswer]
  /\ UNCHANGED <<kernelVars, cache, pc, op, fp, elapsed, limit>>
  /\ Observe

\* process_new of a platform that reads some fields at once, the first being f.
\* The program has its handle when the last of them has been tried.
NewReadsFrom(c, p, f) ==
  LET target == IF p = 0 THEN SelfPid ELSE p IN
  /\ pc[c] = "idle" /\ hpid[c] = None
  /\ hpid' = [hpid EXCEPT ![c] = target]
  /\ cache' = [cache EXCEPT ![c] = Empty]
  /\ \E b \in IF At(target) = {} THEN {None} ELSE At(target) :
       birth' = [birth EXCEPT ![c] = b]
  /\ Goto(c, "new", f, None)
  /\ UNCHANGED <<kernelVars, lent, struck, elapsed, limit>>
  /\ Observe

\* The next field of process_new is f; without one it is done.
NewTurnsTo(c, f) ==
  /\ Goto(c, IF f = NoCall THEN "idle" ELSE "new", f, None)
  /\ UNCHANGED <<kernelVars, hpid, birth, lent, struck, elapsed, limit>>

\* A field is stored, and nothing is handed out.
Store(c, f, q) == cache' = [cache EXCEPT ![c][f] = [of |-> q, image |-> image[q]]]

\* process_new stores a field, or fails to read it.  What it stores in a field
\* that the program never asks for is not followed.
NewStores(c, f, Q) ==
  \/ f \in Calls /\ \E q \in Q : Store(c, f, q)
  \/ UNCHANGED cache

-----------------------------------------------------------------------------
(***************************************************************************)
(* Getters that keep what they have read.                                  *)
(***************************************************************************)

Cached(c, f) == cache[c][f] # NoSnapshot

\* Slip: a filled field is noticed, but NULL is returned.
ReturnCachedLost(c, f) ==
  /\ MayCall(c, f) /\ Cached(c, f)
  /\ Return(c, f, 0, None, {})
  /\ UNCHANGED <<kernelVars, handleVars>>
  /\ Observe

\* The early return of a getter whose field is filled already.
ReturnCached(c, f) ==
  /\ MayCall(c, f) /\ Cached(c, f)
  /\ lent' = [lent EXCEPT ![c] = @ \cup {<<f, cache[c][f]>>}]
  /\ Return(c, f, 1, cache[c][f].of, {})
  /\ UNCHANGED <<kernelVars, hpid, cache, birth, struck>>
  /\ Observe

\* The field is filled from process q and handed to the caller.
Fill(c, f, q) ==
  LET s == [of |-> q, image |-> image[q]] IN
  /\ cache' = [cache EXCEPT ![c][f] = s]
  /\ lent' = [lent EXCEPT ![c] = @ \cup {<<f, s>>}]
  /\ Return(c, f, 1, q, {})
  /\ UNCHANGED <<kernelVars, hpid, birth, struck>>

Fail(c, o, why) ==
  /\ Return(c, o, 0, None, why)
  /\ UNCHANGED <<kernelVars, handleVars>>

\* The field is read in one system call that needs the process's memory or its
\* files and is refused for a zombie: readlink("/proc/<pid>/<f>").
FillIfAlive(c, f) ==
  /\ MayCall(c, f) /\ ~Cached(c, f)
  /\ \/ \E q \in At(hpid[c]) : Alive(q) /\ Fill(c, f, q)
     \/ ~(\E q \in At(hpid[c]) : Alive(q)) /\ Fail(c, f, {})
     \/ Fail(c, f, Refused)
  /\ Observe

\* The field is read in one system call that describes a zombie too.
FillIfPresent(c, f) ==
  /\ MayCall(c, f) /\ ~Cached(c, f)
  /\ \/ \E q \in At(hpid[c]) : Fill(c, f, q)
     \/ At(hpid[c]) = {} /\ Fail(c, f, {})
     \/ Fail(c, f, Refused)
  /\ Observe

-----------------------------------------------------------------------------
(***************************************************************************)
(* Signals: kill(proc->pid, sig), with no look at who has the pid now.     *)
(* The model leaves out signals of the program to itself.                  *)
(***************************************************************************)
SendSignal(c, sig) ==
  /\ MayCall(c, sig) /\ hpid[c] # SelfPid
  /\ \E q \in At(hpid[c]) :
       /\ Deliver(q, sig)
       /\ struck' = [struck EXCEPT ![c] = @ \cup {q}]
  /\ UNCHANGED <<hpid, cache, birth, lent, pc, op, fp, elapsed, limit, ret>>
  /\ Observe

\* psutil_linux_process_suspend, resume, terminate, kill
Suspend(c)   == SendSignal(c, "STOP")
Resume(c)    == SendSignal(c, "CONT")
Terminate(c) == SendSignal(c, "TERM")
Kill(c)      == SendSignal(c, "KILL")

-----------------------------------------------------------------------------
(***************************************************************************)
(* psutil_linux_process_wait.                                              *)
(***************************************************************************)
PollInterval == 10

\* timeout < 0 enters waitpid and stays there; otherwise the loop begins.
WaitBegin(c, t) ==
  /\ MayCall(c, "wait")
  /\ Goto(c, IF t < 0 THEN "blocked" ELSE "poll", "wait", None)
  /\ elapsed' = [elapsed EXCEPT ![c] = 0]
  /\ limit' = [limit EXCEPT ![c] = t]
  /\ UNCHANGED <<kernelVars, handleVars>>
  /\ Observe

\* The caller is in waitpid, with WNOHANG or without.
Asking(c) == pc[c] = "blocked" \/ (pc[c] = "poll" /\ elapsed[c] < limit[c])

\* Slip: the child is looked at without being collected (WNOWAIT).
WaitPeeks(c) ==
  /\ Asking(c)
  /\ \E q \in Kid(hpid[c]) : life[q] = "zombie" /\ Return(c, "wait", 0, q, {})
  /\ UNCHANGED <<kernelVars, handleVars>>
  /\ Observe

\* waitpid returns the pid: the child has exited and is collected.
WaitCollects(c) ==
  /\ Asking(c)
  /\ \E q \in Kid(hpid[c]) : Reap(q) /\ Return(c, "wait", 0, q, {})
  /\ UNCHANGED handleVars
  /\ Observe

\* Slips: an error counts as an exit; an error is retried in the blocking wait.
WaitNoChildIsExit(c) ==
  /\ Asking(c) /\ Kid(hpid[c]) = {}
  /\ Return(c, "wait", 0, None, {})
  /\ UNCHANGED <<kernelVars, handleVars>>
  /\ Observe
WaitNoChildRetried(c) ==
  /\ Asking(c) /\ pc[c] = "poll" /\ Kid(hpid[c]) = {}
  /\ Return(c, "wait", -1, None, {})
  /\ UNCHANGED <<kernelVars, handleVars>>
  /\ Observe

\* waitpid returns -1: ECHILD.
WaitNoChild(c) ==
  /\ Asking(c) /\ Kid(hpid[c]) = {}
  /\ Return(c, "wait", -1, None, {})
  /\ UNCHANGED <<kernelVars, handleVars>>
  /\ Observe

\* waitpid without WNOHANG returns -1 when a signal handler has run: EINTR.
WaitInterrupted(c) ==
  /\ pc[c] = "blocked"
  /\ Return(c, "wait", -1, None, Refused)
  /\ UNCHANGED <<kernelVars, handleVars>>
  /\ Observe

\* waitpid with WNOHANG returns 0: the child is alive; go to sleep.
WaitPolls(c) ==
  /\ pc[c] = "poll" /\ elapsed[c] < limit[c]
  /\ \E q \in Kid(hpid[c]) : Alive(q)
  /\ pc' = [pc EXCEPT ![c] = "sleep"]
  /\ UNCHANGED <<kernelVars, handleVars, op, fp, elapsed, limit, ret>>
  /\ Observe

\* Slips: microseconds are added to milliseconds; the time is not counted.
WaitSleepsMicros(c) ==
  /\ pc[c] = "sleep"
  /\ pc' = [pc EXCEPT ![c] = "poll"]
  /\ elapsed' = [elapsed EXCEPT ![c] = @ + PollInterval * 1000]
  /\ UNCHANGED <<kernelVars, handleVars, op, fp, limit, ret>>
  /\ Observe
WaitSleepsUncounted(c) ==
  /\ pc[c] = "sleep"
  /\ pc' = [pc EXCEPT ![c] = "poll"]
  /\ UNCHANGED <<kernelVars, handleVars, op, fp, elapsed, limit, ret>>
  /\ Observe

\* usleep returns and the time is counted.
WaitSleeps(c) ==
  /\ pc[c] = "sleep"
  /\ pc' = [pc EXCEPT ![c] = "poll"]
  /\ elapsed' = [elapsed EXCEPT ![c] = @ + PollInterval]
  /\ UNCHANGED <<kernelVars, handleVars, op, fp, limit, ret>>
  /\ Observe

\* The loop ends; what the child did during the last sleep is not looked at.
WaitTimesOut(c) ==
  /\ pc[c] = "poll" /\ elapsed[c] >= limit[c]
  /\ Return(c, "wait", 1, None, IF limit[c] = 0 THEN NoTime ELSE {})
  /\ UNCHANGED <<kernelVars, handleVars>>
  /\ Observe

-----------------------------------------------------------------------------
\* The loop of process_wait never counts past the timeout by a whole interval.
WaitIsBounded ==
  \A c \in Caller : pc[c] \in {"poll", "sleep"} =>
    /\ limit[c] >= 0
    /\ elapsed[c] < limit[c] + PollInterval
    /\ elapsed[c] % PollInterval = 0

\* Part of the inductive invariant: whoever sleeps in process_wait, or has
\* slept there, has seen the child alive.
WaitSound(c) ==
  /\ pc[c] = "sleep" => elapsed[c] < limit[c]
  /\ pc[c] = "sleep" \/ (pc[c] = "poll" /\ elapsed[c] > 0) =>
       saw[c] \cap {"running", "stopped"} # {}
=============================================================================
