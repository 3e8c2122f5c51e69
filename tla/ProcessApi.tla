----------------------------- MODULE ProcessApi -----------------------------
(***************************************************************************)
(* What every platform's implementation of the Process functions shares:   *)
(* the handle (struct Process of psutil.h), the call a thread has in       *)
(* progress, what it answered last, and the promises about these answers.  *)
(* A platform's module EXTENDS this one and adds the steps of its calls.   *)
(*                                                                         *)
(* Each member of Caller is a thread of the program that uses the library, *)
(* with a handle of its own; the process table is what the threads share.  *)
(* A system call is one step, and between two of them anything may happen  *)
(* to the table.                                                           *)
(***************************************************************************)
EXTENDS ProcTable, Integers

CONSTANTS
  Caller,    \* threads that call the library
  Calls,     \* the API functions this program uses (bounds a run)
  Timeouts,  \* timeouts given to process_wait, in ms; negative waits forever
  NoCall     \* the operation of a thread that has made no call yet

(***************************************************************************)
(* The fields of struct Process that a getter fills and keeps.  Only       *)
(* Windows keeps ppid; no platform uses the field status.                  *)
(***************************************************************************)
Field == {"name", "exe", "cwd", "username", "create_time", "ppid"}

\* A string or a number read about a process, with the image it was read from.
Snapshot == [of : Proc, image : 0..MaxExec]
NoSnapshot == [of |-> None, image |-> 0]

\* Status codes of psutil.h the table can produce.
STATUS_RUNNING  == 0
STATUS_SLEEPING == 2
STATUS_STOPPED  == 4
STATUS_ZOMBIE   == 6
STATUS_DEAD     == 7

Wait == {"wait"}
Read == {"get_ppid", "get_status", "is_running"}
Op   == Field \cup Read \cup Wait

ASSUME ProcessApiAssumption ==
  /\ Timeouts \subseteq Int
  /\ NoCall \notin Op /\ None \notin Op

VARIABLES
  hpid,     \* proc->pid of the caller's handle, None without a handle
  cache,    \* the fields of the handle, NoSnapshot where they are NULL or 0.0
  pc,       \* where the caller is in a call, "idle" outside
  op,       \* the operation in progress
  fp,       \* the process whose /proc file, or HANDLE, the caller has open
  elapsed,  \* elapsed of psutil_..._process_wait, in ms
  limit,    \* timeout_ms of the same
  ret,      \* the last answer (see Answer)
  \* History variables, read by the properties only.
  birth,    \* the process that had the pid when the handle was made, or None
  lent,     \* the strings the getters have handed out since then
  struck,   \* the processes this handle's signals have reached since then
  saw       \* what was true of the pid at some moment of the call in progress

handleVars == <<hpid, cache, birth, lent, struck>>
callVars   == <<pc, op, fp, elapsed, limit, ret, saw>>
vars       == <<kernelVars, handleVars, callVars>>

\* An answer: val is the int returned (for a getter, 1 if it returned a value),
\* of is the process it is about, saw what was true during the call.
Seen   == Life \cup {"absent", "nochild", "refused", "notime"}
Answer == [op : Op \cup {NoCall}, val : {-1, 0, 1, 2, 4, 6, 7},
           of : Proc \cup {None}, saw : SUBSET Seen]
NoAnswer == [op |-> NoCall, val |-> 0, of |-> None, saw |-> {}]

\* "new" and "new_reading" are inside a process_new that reads at once,
\* "waiting" is inside WaitForSingleObject.
Pc == {"idle", "stat_done", "reading", "poll", "sleep", "blocked",
       "new", "new_reading", "waiting"}

\* The places at which a file or a HANDLE is open.
Holding == {"reading", "new_reading", "waiting"}

TypeOK ==
  /\ KernelTypeOK
  /\ hpid \in [Caller -> Pid \cup {None}]
  /\ cache \in [Caller -> [Field -> Snapshot \cup {NoSnapshot}]]
  /\ pc \in [Caller -> Pc]
  /\ op \in [Caller -> Op \cup {NoCall}]
  /\ fp \in [Caller -> Proc \cup {None}]
  /\ elapsed \in [Caller -> Nat]
  /\ limit \in [Caller -> Int]
  /\ ret \in [Caller -> Answer]
  /\ birth \in [Caller -> Proc \cup {None}]
  /\ lent \in [Caller -> SUBSET (Field \X Snapshot)]
  /\ struck \in [Caller -> SUBSET Proc]
  /\ saw \in [Caller -> SUBSET Seen]
  \* Nothing stays open between two calls.
  /\ \A c \in Caller : pc[c] \in Holding <=> fp[c] # None

Empty == [f \in Field |-> NoSnapshot]

Init ==
  /\ KernelInit
  /\ hpid = [c \in Caller |-> None]
  /\ cache = [c \in Caller |-> Empty]
  /\ pc = [c \in Caller |-> "idle"]
  /\ op = [c \in Caller |-> NoCall]
  /\ fp = [c \in Caller |-> None]
  /\ elapsed = [c \in Caller |-> 0]
  /\ limit = [c \in Caller |-> 0]
  /\ ret = [c \in Caller |-> NoAnswer]
  /\ birth = [c \in Caller |-> None]
  /\ lent = [c \in Caller |-> {}]
  /\ struck = [c \in Caller |-> {}]
  /\ saw = [c \in Caller |-> {}]

(***************************************************************************)
(* Beginning, continuing and ending a call.                                *)
(***************************************************************************)

\* A caller with a handle and no call in progress may call o.
MayCall(c, o) == pc[c] = "idle" /\ hpid[c] # None /\ o \in Calls

\* Conjoined to every step: while a call is in progress, remember what its pid
\* looked like before and after the step.
Observe ==
  saw' = [c \in Caller |->
            IF pc'[c] = "idle" THEN {}
            ELSE saw[c] \cup Look(hpid[c]) \cup Look(hpid[c])']

Goto(c, label, o, q) ==
  /\ pc' = [pc EXCEPT ![c] = label]
  /\ op' = [op EXCEPT ![c] = o]
  /\ fp' = [fp EXCEPT ![c] = q]
  /\ ret' = [ret EXCEPT ![c] = NoAnswer]

\* The call ends with value v about process q; why adds "refused" when the
\* system refused a call for a reason of its own (memory, descriptors, rights,
\* a signal) and "notime" when the caller gave no time to wait.
Return(c, o, v, q, why) ==
  /\ pc' = [pc EXCEPT ![c] = "idle"]
  /\ op' = [op EXCEPT ![c] = NoCall]
  /\ fp' = [fp EXCEPT ![c] = None]
  /\ elapsed' = [elapsed EXCEPT ![c] = 0]
  /\ limit' = [limit EXCEPT ![c] = 0]
  /\ ret' = [ret EXCEPT ![c] =
       [op |-> o, val |-> v, of |-> q, saw |-> saw[c] \cup Look(hpid[c]) \cup why]]

Refused == {"refused"}
NoTime  == {"notime"}

\* The system acts while the callers' calls are where they are.
Environment ==
  /\ \/ \E q \in Proc, p \in Pid, mine \in BOOLEAN : Fork(q, p, mine)
     \/ \E q \in Proc : Exec(q) \/ Exit(q) \/ ReapedByParent(q)
  /\ UNCHANGED <<handleVars, pc, op, fp, elapsed, limit, ret>>
  /\ Observe
-----------------------------------------------------------------------------
(***************************************************************************)
(* What the interface promises.                                            *)
(***************************************************************************)

\* "Create a new Process object for the given PID": while the process that had
\* the pid then is still in the table, even as a zombie, everything the handle
\* has stored and every process its signals have reached is that process.
HandleIdentity ==
  \A c \in Caller :
    birth[c] # None /\ Present(birth[c]) =>
      /\ \A f \in Field : cache[c][f].of \in {None, birth[c]}
      /\ struck[c] \subseteq {birth[c]}

\* A const char* that a getter has returned stays what it was until
\* process_free: no later call frees it or writes over it.  On the BSDs it does
\* so until the next call of the same getter, which takes it out of lent.
LentStringsLive ==
  \A c \in Caller : \A l \in lent[c] : cache[c][l[1]] = l[2]

\* What makes an answer a true one: something that was so during the call.
Shows(a, what) == a.saw \cap what # {}

TrueIsRunning(a) ==
  Shows(a, IF a.val = 1 THEN {"running", "stopped"} ELSE {"zombie", "absent", "refused"})

TrueStatus(a) ==
  Shows(a, CASE a.val = STATUS_STOPPED -> {"stopped"}
             [] a.val = STATUS_ZOMBIE  -> {"zombie"}
             [] OTHER -> {"running", "absent", "refused"})

\* The process has exited and nobody else can collect it any more.
Collected(a) == a.of \in Proc /\ life[a.of] = "gone" /\ Shows(a, {"zombie"})

TrueWait(a) ==
  CASE a.val = 0  -> Collected(a)
    [] a.val = 1  -> Shows(a, {"running", "stopped", "notime"})
    [] a.val = -1 -> Shows(a, {"nochild", "refused"})

\* is_running: 1 only if the process was alive, 0 only if it was a zombie or
\* was missing, at some moment between the call and the return.
IsRunningWitnessed ==
  \A c \in Caller : ret[c].op = "is_running" => TrueIsRunning(ret[c])

-----------------------------------------------------------------------------
(***************************************************************************)
(* Why they hold: what is true of one caller between any two steps.  These *)
(* are the parts of the platforms' inductive invariants.                   *)
(***************************************************************************)

\* The process the handle was made for keeps its pid until it is gone, and as
\* long as it is there nothing else can be found at that pid.
HandleSound(c) ==
  /\ hpid[c] = None =>
       birth[c] = None /\ pc[c] = "idle" /\ lent[c] = {} /\ struck[c] = {}
  /\ birth[c] # None => life[birth[c]] # "unborn" /\ pidOf[birth[c]] = hpid[c]
  /\ birth[c] # None /\ Present(birth[c]) =>
       /\ \A f \in Field : cache[c][f].of \in {None, birth[c]}
       /\ struck[c] \subseteq {birth[c]}
       /\ fp[c] \in {None, birth[c]}

\* A field is read from a file only while it is empty.
LentSound(c) ==
  /\ \A l \in lent[c] : cache[c][l[1]] = l[2]
  /\ pc[c] = "reading" /\ op[c] \in Field => cache[c][op[c]] = NoSnapshot

\* The open file is that of a process which had the pid; if its process is
\* gone, then there was a moment of this call at which nobody had the pid.
FileSound(c) ==
  /\ pc[c] # "idle" => Look(hpid[c]) \subseteq saw[c]
  /\ fp[c] # None =>
       /\ life[fp[c]] # "unborn" /\ pidOf[fp[c]] = hpid[c]
       /\ Present(fp[c]) \/ "absent" \in saw[c]
=============================================================================
