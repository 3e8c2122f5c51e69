------------------------------ MODULE Startup ------------------------------
(***************************************************************************)
(* psutil_init, and calls that come before it, while it runs, or after it  *)
(* has failed.  Windows sets pointers to functions of the system, one      *)
(* after the other, and stops at the first mandatory one that is missing;  *)
(* Android sets the number of clock ticks in a second.                     *)
(*                                                                         *)
(* Optional functions are represented by those named here; the others are  *)
(* loaded and checked like GetTickCount64.                                 *)
(***************************************************************************)
EXTENDS Integers, Sequences

CONSTANTS
  Starts,   \* how often psutil_init is called (bounds a run)
  CallsOf   \* the platforms, and the functions of each that a program calls

\* Those that use what psutil_init sets, on Windows and on Android.
WindowsCalls ==
  {"suspend", "users", "boot_time", "num_ctx_switches", "open_files", "ppid", "cmdline",
   "environ", "cpu_count"}
AndroidCalls == {"cpu_times", "create_time"}

ASSUME StartupAssumption ==
  /\ Starts \in Nat
  /\ \A p \in DOMAIN CallsOf :
       CallsOf[p] \subseteq (IF p = "windows" THEN WindowsCalls ELSE AndroidCalls)

VARIABLES
  startOn,   \* the platform
  set,       \* the globals that are set
  starting,  \* how far psutil_init has come, what it has answered, how often it was called
  user,      \* a call of another function
  misuse     \* the last use of globals: whether one was not set, and when that was

startVars == <<startOn, set, starting, user, misuse>>

Mandatory ==
  <<"NtQuerySystemInformation", "NtQueryInformationProcess", "NtSetInformationProcess",
    "NtQueryObject", "RtlGetVersion">>
Optional ==
  <<"NtSuspendProcess", "GetTickCount64", "WTSEnumerateSessionsW",
    "WTSQuerySessionInformationW", "WTSFreeMemory">>
WTS == {"WTSEnumerateSessionsW", "WTSQuerySessionInformationW", "WTSFreeMemory"}

\* The globals, in the order in which psutil_init sets them.
Globals ==
  IF startOn = "windows" THEN Mandatory \o Optional \o <<"SYSTEM_INFO">> ELSE <<"SC_CLK_TCK">>

IsMandatory(g) == \E i \in DOMAIN Mandatory : Mandatory[i] = g
IsOptional(g)  == \E i \in DOMAIN Optional : Optional[i] = g

NoMisuse == [is |-> FALSE, fn |-> "none", result |-> "none", times |-> 0]

StartInit ==
  /\ startOn \in DOMAIN CallsOf
  /\ set = {} /\ misuse = NoMisuse
  /\ starting = [next |-> 0, result |-> "none", times |-> 0]
  /\ user = [fn |-> "none", pc |-> "idle"]

(***************************************************************************)
(* psutil_init.                                                            *)
(***************************************************************************)
Starting == starting.next > 0

CallsInit ==
  /\ ~Starting /\ starting.times < Starts
  /\ starting' = [next |-> 1, result |-> "none", times |-> starting.times + 1]
  /\ UNCHANGED <<startOn, set, user, misuse>>

Ends(result) == starting' = [starting EXCEPT !.next = 0, !.result = result]

\* Slip: a mandatory function that is missing is passed over.
SetsNextAnyway(found) ==
  LET g == Globals[starting.next]
  IN  /\ Starting
      /\ found \/ IsMandatory(g) \/ IsOptional(g)
      /\ set' = IF found THEN set \cup {g} ELSE set \ {g}
      /\ IF starting.next = Len(Globals) THEN Ends("ok")
         ELSE starting' = [starting EXCEPT !.next = @ + 1]
      /\ UNCHANGED <<startOn, user, misuse>>

\* A function may be missing from the library, or the library may not be loaded.
SetsNext(found) ==
  LET g == Globals[starting.next]
  IN  /\ Starting
      /\ found \/ IsMandatory(g) \/ IsOptional(g)
      /\ set' = IF found THEN set \cup {g} ELSE set \ {g}
      /\ CASE ~found /\ IsMandatory(g)         -> Ends("failed")
           [] starting.next = Len(Globals)     -> Ends("ok")
           [] OTHER                            -> starting' = [starting EXCEPT !.next = @ + 1]
      /\ UNCHANGED <<startOn, user, misuse>>

(***************************************************************************)
(* Calls.                                                                  *)
(***************************************************************************)

\* What a function uses.
Uses(f) ==
  CASE f = "suspend"                  -> {"NtSuspendProcess"}
    [] f = "users"                    -> WTS
    [] f = "boot_time"                -> {"GetTickCount64"}
    [] f = "num_ctx_switches"         -> {"NtQuerySystemInformation"}
    [] f = "open_files"               -> {"NtQuerySystemInformation", "NtQueryObject"}
    [] f \in {"ppid", "cmdline", "environ"} -> {"NtQueryInformationProcess"}
    [] f = "cpu_count"                -> {"SYSTEM_INFO"}
    [] OTHER                          -> {"SC_CLK_TCK"}

\* What it uses without a look at whether it is set.  To ask whether a process is
\* a 32-bit one, cmdline and environ do look; to ask for its parameters, they
\* do not.
Unchecked == {"cmdline", "environ", "cpu_count", "cpu_times", "create_time"}

CallsFunction(f) ==
  /\ user.pc = "idle"
  /\ user' = [fn |-> f, pc |-> "looks"] /\ misuse' = NoMisuse
  /\ UNCHANGED <<startOn, set, starting>>

\* A function that finds something missing answers that it cannot, or, in
\* boot_time, takes the tick count of 32 bits.
Looks ==
  /\ user.pc = "looks"
  /\ user' = [user EXCEPT !.pc = IF user.fn \in Unchecked \/ Uses(user.fn) \subseteq set
                                  THEN "uses" ELSE "idle"]
  /\ UNCHANGED <<startOn, set, starting, misuse>>

UsesGlobals ==
  /\ user.pc = "uses"
  /\ user' = [user EXCEPT !.pc = "idle"]
  /\ misuse' = [is |-> ~(Uses(user.fn) \subseteq set), fn |-> user.fn,
                 result |-> starting.result, times |-> starting.times]
  /\ UNCHANGED <<startOn, set, starting>>

StartNext ==
  \/ CallsInit \/ \E found \in BOOLEAN : SetsNext(found)
  \/ \E f \in CallsOf[startOn] : CallsFunction(f)
  \/ Looks \/ UsesGlobals
-----------------------------------------------------------------------------
(***************************************************************************)
(* Properties.                                                             *)
(***************************************************************************)

\* No call goes through a pointer that is not set, or uses a number that is not,
\* whatever is missing on the system, as soon as psutil_init has answered 0 once
\* and has not been called again; before that, only those functions do that do
\* not look.  If psutil_init is called again, it may take away what a call in
\* progress has found.
NothingUnset ==
  misuse.is =>
    \/ misuse.result # "ok" /\ misuse.fn \in Unchecked
    \/ misuse.times > 1
=============================================================================
