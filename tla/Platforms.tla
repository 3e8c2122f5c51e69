----------------------------- MODULE Platforms ------------------------------
(***************************************************************************)
(* The Process functions as the program sees them: psutil.c maps each to   *)
(* the one of the platform it is compiled for.  The model chooses the      *)
(* platform at the beginning, and states what the functions promise on     *)
(* all of them, and what an answer means on each.                          *)
(***************************************************************************)
EXTENDS MacProcess, BsdProcess, AndroidProcess, WindowsProcess

CONSTANT Platform  \* the platforms of a run

ASSUME PlatformAssumption ==
  Platform \subseteq {"linux", "macos", "bsd", "android", "windows"}

VARIABLE platform

platformVars == <<vars, platform>>

PlatformInit == Init /\ platform \in Platform

\* What a thread does by running the library's code, once it is in a call.
GoesOn(c) ==
  /\ \/ platform = "linux" /\ Continue(c)
     \/ platform = "macos" /\ MacWaits(c)
     \/ platform = "android" /\ AndroidContinue(c)
     \/ platform = "windows" /\ WindowsContinue(c)
  /\ UNCHANGED platform

Begins(c) ==
  \/ platform = "linux" /\ Begin(c)
  \/ platform = "macos" /\ MacBegin(c)
  \/ platform = "bsd" /\ BsdBegin(c)
  \/ platform = "android" /\ AndroidBegin(c)
  \/ platform = "windows" /\ WindowsBegin(c)

PlatformNext ==
  \/ platform # "windows" /\ Environment /\ UNCHANGED platform
  \/ platform = "windows" /\ WindowsEnvironment /\ UNCHANGED platform
  \/ \E c \in Caller : Begins(c) /\ UNCHANGED platform
  \/ \E c \in Caller : GoesOn(c)

PlatformSpec == PlatformInit /\ [][PlatformNext]_platformVars

(***************************************************************************)
(* A thread in a call goes on running, and SIGKILL ends its target.        *)
(***************************************************************************)
DoomedExits(q) ==
  /\ q \in doomed /\ Exit(q)
  /\ UNCHANGED <<handleVars, pc, op, fp, elapsed, limit, ret, platform>>
  /\ Observe

Fairness ==
  /\ \A c \in Caller : WF_platformVars(GoesOn(c))
  /\ \A q \in Proc : WF_platformVars(DoomedExits(q))

FairPlatformSpec == PlatformSpec /\ Fairness
-----------------------------------------------------------------------------
\* A getter that fails had a reason: the process was missing or a zombie
\* during the call, or the system refused.  Two getters do not ask during the
\* call: create_time on Android, and cwd of another process on Windows.
GetterWitnessed ==
  \A c \in Caller :
    /\ ret[c].op \in Field \cup {"get_ppid"} /\ ret[c].val = 0
    /\ <<platform, ret[c].op>> \notin {<<"android", "create_time">>, <<"windows", "cwd">>}
    => Shows(ret[c], {"absent", "zombie", "refused"})

\* get_status: what it says was so at some moment of the call, or the process
\* could not be read and the answer is RUNNING (DEAD on Windows).
StatusWitnessed ==
  \A c \in Caller : ret[c].op = "get_status" =>
    CASE platform = "bsd"     -> BsdTrueStatus(ret[c])
      [] platform = "windows" -> WindowsTrueStatus(ret[c])
      [] OTHER                -> TrueStatus(ret[c])

\* is_running: what it says was so at some moment of the call, as far as each
\* platform's function looks: at children on macOS, at entries of /proc,
\* zombies included, on the BSDs and Android.
RunningWitnessed ==
  \A c \in Caller : ret[c].op = "is_running" =>
    CASE platform = "linux"   -> TrueIsRunning(ret[c])
      [] platform = "macos"   -> MacTrueIsRunning(ret[c])
      [] platform = "bsd"     -> BsdTrueIsRunning(ret[c])
      [] platform = "android" -> AndroidTrueIsRunning(ret[c])
      [] platform = "windows" -> WindowsTrueIsRunning(ret[c])

\* process_wait: 0 only if the process has exited, and but for Windows has been
\* collected by this call; 1 only if it was alive during the call or no time
\* was given; -1 only if the pid was no child at some moment of the call or the
\* call was interrupted, or, on the BSDs and Android, the child was alive.
WaitWitnessed ==
  \A c \in Caller : ret[c].op = "wait" =>
    CASE platform = "bsd"     -> BsdTrueWait(ret[c])
      [] platform = "android" -> AndroidTrueWait(ret[c])
      [] platform = "windows" -> WindowsTrueWait(ret[c])
      [] OTHER                -> TrueWait(ret[c])

\* The exit of one child is reported to one wait only.  On Windows nothing is
\* collected, and everybody who waits is told.
OneWaitPerExit ==
  platform # "windows" =>
    \A c, d \in Caller :
      /\ ret[c].op = "wait" /\ ret[c].val = 0
      /\ ret[d].op = "wait" /\ ret[d].val = 0
      => c = d \/ ret[c].of # ret[d].of

\* Every call but a wait without timeout returns, whatever the system does.
CallsReturn ==
  \A c \in Caller :
    \/ pc[c] \in {"new", "new_reading", "stat_done", "reading", "poll", "sleep"}
    \/ pc[c] = "waiting" /\ limit[c] >= 0
    ~> pc[c] = "idle"

\* A wait without timeout on a child that has been killed returns.  On Windows
\* it need not be a child.
KilledWaitReturns ==
  \A c \in Caller :
    \/ pc[c] = "blocked" /\ Kid(hpid[c]) \cap doomed # {}
    \/ pc[c] = "waiting" /\ fp[c] \in doomed
    ~> pc[c] = "idle"
=============================================================================
