------------------------------ MODULE ProcTable ------------------------------
(***************************************************************************)
(* The operating system's process table as the library sees it: which      *)
(* process occupies which pid, and in which state it is.  None of this is  *)
(* code of the library; it is modelled from the calls the library makes    *)
(* (readdir and stat of /proc, fopen of /proc/<pid>/stat, kill, waitpid).  *)
(*                                                                         *)
(* A member of Proc is one process from its fork until it has been reaped; *)
(* a pid is a name that several of them may carry one after the other.     *)
(* Telling the two apart is what makes a stale handle visible.             *)
(***************************************************************************)
EXTENDS Naturals

CONSTANTS
  Pid,      \* process numbers, 0 excluded
  SelfPid,  \* what getpid() returns
  Proc,     \* processes that exist at some time (bounds the forks)
  Self,     \* the process that has the library loaded
  None,     \* neither a process nor a pid
  MaxExec   \* bound on the execve calls of one process

ASSUME ProcTableAssumption ==
  /\ SelfPid \in Pid /\ Self \in Proc
  /\ 0 \notin Pid /\ None \notin Pid /\ None \notin Proc
  /\ MaxExec \in Nat

VARIABLES
  life,    \* where each process is in its life
  pidOf,   \* the pid it carries (None before its fork)
  ours,    \* whether it is a child of Self, so that only Self can reap it
  image,   \* how often it has changed its name, program, directory or user
  doomed   \* processes that SIGKILL has been delivered to

kernelVars == <<life, pidOf, ours, image, doomed>>

Life == {"unborn", "running", "stopped", "zombie", "gone"}

\* The processes that have an entry in the table: a zombie still has one.
Present(q) == life[q] \in {"running", "stopped", "zombie"}
Alive(q)   == life[q] \in {"running", "stopped"}
At(p)      == {q \in Proc : Present(q) /\ pidOf[q] = p}

\* The children of Self at a pid, the only ones waitpid(pid) looks at.
Kid(p) == {q \in At(p) : ours[q]}

(***************************************************************************)
(* What an observer of pid p would say at this moment.                     *)
(***************************************************************************)
Look(p) ==
  (IF At(p) = {} THEN {"absent"} ELSE {life[q] : q \in At(p)})
    \cup (IF Kid(p) = {} THEN {"nochild"} ELSE {})

KernelTypeOK ==
  /\ life \in [Proc -> Life]
  /\ pidOf \in [Proc -> Pid \cup {None}]
  /\ ours \in [Proc -> BOOLEAN]
  /\ image \in [Proc -> 0..MaxExec]
  /\ doomed \in SUBSET Proc

KernelInit ==
  /\ life = [q \in Proc |-> IF q = Self THEN "running" ELSE "unborn"]
  /\ pidOf = [q \in Proc |-> IF q = Self THEN SelfPid ELSE None]
  /\ ours = [q \in Proc |-> FALSE]
  /\ image = [q \in Proc |-> 0]
  /\ doomed = {}

(***************************************************************************)
(* Steps the system takes on its own.                                      *)
(***************************************************************************)

\* A fork gives the new process a pid that no entry of the table carries; it
\* may be one that an earlier process has carried.
Fork(q, p, mine) ==
  /\ life[q] = "unborn" /\ At(p) = {}
  /\ life' = [life EXCEPT ![q] = "running"]
  /\ pidOf' = [pidOf EXCEPT ![q] = p]
  /\ ours' = [ours EXCEPT ![q] = mine]
  /\ UNCHANGED <<image, doomed>>

\* execve, prctl(PR_SET_NAME), chdir, setuid: what the getters report changes.
Exec(q) ==
  /\ q # Self /\ life[q] = "running" /\ image[q] < MaxExec
  /\ image' = [image EXCEPT ![q] = @ + 1]
  /\ UNCHANGED <<life, pidOf, ours, doomed>>

\* A running process may exit at any time; a stopped one only when killed.
Exit(q) ==
  /\ q # Self
  /\ life[q] = "running" \/ (life[q] = "stopped" /\ q \in doomed)
  /\ life' = [life EXCEPT ![q] = "zombie"]
  /\ UNCHANGED <<pidOf, ours, image, doomed>>

\* A zombie that is no child of Self is reaped by its own parent.
ReapedByParent(q) ==
  /\ life[q] = "zombie" /\ ~ours[q]
  /\ life' = [life EXCEPT ![q] = "gone"]
  /\ UNCHANGED <<pidOf, ours, image, doomed>>

(***************************************************************************)
(* Effects of the library's system calls.                                  *)
(***************************************************************************)

\* waitpid collects a zombie child: the entry and the pid become free.
Reap(q) ==
  /\ life[q] = "zombie" /\ ours[q]
  /\ life' = [life EXCEPT ![q] = "gone"]
  /\ UNCHANGED <<pidOf, ours, image, doomed>>

\* kill on a process: a zombie takes the signal without effect.  SIGTERM and
\* the others may make the process exit, which Exit allows at any time.
Deliver(q, sig) ==
  /\ life' = [life EXCEPT ![q] =
       CASE sig = "STOP" /\ @ = "running" -> "stopped"
         [] sig = "CONT" /\ @ = "stopped" -> "running"
         [] OTHER -> @]
  /\ doomed' = IF sig = "KILL" /\ Alive(q) THEN doomed \cup {q} ELSE doomed
  /\ UNCHANGED <<pidOf, ours, image>>

\* Two entries of the table never carry the same pid.
PidUnique ==
  \A q, r \in Proc : Present(q) /\ Present(r) /\ pidOf[q] = pidOf[r] => q = r
=============================================================================
