------------------------------ MODULE Niceness ------------------------------
(***************************************************************************)
(* The nice value of a process.  Unix stores the number, within its range. *)
(* Windows has six priority classes: set_nice maps ranges of numbers to    *)
(* them, and get_nice gives one number for each.                           *)
(***************************************************************************)
EXTENDS Integers

CONSTANT NiceValues  \* the numbers that are asked for

ASSUME NicenessAssumption == NiceValues \subseteq Int

VARIABLES
  niceOn,     \* the platform
  priority,   \* what the system has: on Unix a number, on Windows a class
  niceWish,   \* the number that was set last, while nothing else has set one
  niceRead,   \* the last number read, and what the system had then
  niceBack    \* the number read was set again, and nothing has happened since

niceVars == <<niceOn, priority, niceWish, niceRead, niceBack>>

\* The classes, and the number that get_nice gives for each.
Class == {"idle", "below", "normal", "above", "high", "realtime"}
NiceOf ==
  [c \in Class |->
     CASE c = "idle" -> 19 [] c = "below" -> 10 [] c = "normal" -> 0
       [] c = "above" -> -10 [] c = "high" -> -15 [] c = "realtime" -> -20]

\* A priority is a number and, on Windows, a class.
Priority(class, n) == [class |-> class, nice |-> n]

\* Slip: the two tables differ at -15.
ClassForStrictly(v) ==
  CASE v <= -20 -> "realtime" [] v \in -19..-16 -> "high" [] v \in -15..-10 -> "above"
    [] v \in -9..0 -> "normal" [] v \in 1..10 -> "below" [] OTHER -> "idle"

\* The class that set_nice asks for.
ClassFor(v) ==
  CASE v <= -20 -> "realtime" [] v \in -19..-15 -> "high" [] v \in -14..-10 -> "above"
    [] v \in -9..0 -> "normal" [] v \in 1..10 -> "below" [] OTHER -> "idle"

\* The numbers of setpriority, and what it makes of any other.
Lowest == IF niceOn \in {"bsd", "macos"} THEN 20 ELSE 19
Clamped(v) == IF v < -20 THEN -20 ELSE IF v > Lowest THEN Lowest ELSE v

\* What the system may have after a call that has succeeded.  Windows gives
\* "high" to those who may not have "realtime", and says nothing.
Becomes(v) ==
  IF niceOn # "windows" THEN {Priority("unix", Clamped(v))}
  ELSE {Priority(c, 0) : c \in {ClassFor(v)} \cup (IF ClassFor(v) = "realtime" THEN {"high"} ELSE {})}

NoWish == [is |-> FALSE, value |-> 0]
NoRead == [is |-> FALSE, value |-> 0, failed |-> FALSE, was |-> Priority("none", 0)]

NiceInit ==
  /\ niceOn \in {"linux", "macos", "bsd", "android", "windows"}
  /\ priority \in Becomes(0)
  /\ niceWish = NoWish /\ niceRead = NoRead /\ niceBack = FALSE

\* What get_nice answers; if the system does not, -1 on Linux and macOS, where
\* getpriority is handed through, and 0 elsewhere.
Reading(ok) ==
  CASE ok /\ niceOn = "windows"       -> NiceOf[priority.class]
    [] ok /\ niceOn # "windows"       -> priority.nice
    [] ~ok /\ niceOn \in {"linux", "macos"} -> -1
    [] OTHER                          -> 0

GetNice(ok) ==
  /\ niceRead' = [is |-> TRUE, value |-> Reading(ok), failed |-> ~ok, was |-> priority]
  /\ niceBack' = FALSE
  /\ UNCHANGED <<niceOn, priority, niceWish>>

\* A call that fails changes nothing.
SetNice(v) ==
  /\ priority' \in Becomes(v)
  /\ niceWish' = [is |-> TRUE, value |-> v]
  /\ niceBack' = (niceRead.is /\ v = niceRead.value)
  /\ UNCHANGED <<niceOn, niceRead>>

\* Somebody else sets it.
SetNiceByOthers ==
  /\ \E v \in NiceValues : priority' \in Becomes(v)
  /\ niceWish' = NoWish /\ niceBack' = FALSE
  /\ UNCHANGED <<niceOn, niceRead>>

NiceNext ==
  \/ \E ok \in BOOLEAN : GetNice(ok)
  \/ \E v \in NiceValues : SetNice(v)
  \/ niceRead.is /\ SetNice(niceRead.value)
  \/ SetNiceByOthers
-----------------------------------------------------------------------------
(***************************************************************************)
(* Properties.                                                             *)
(***************************************************************************)
Given == IF niceOn = "windows" THEN {NiceOf[c] : c \in Class} ELSE -20..Lowest

\* A number that was set reads as itself, if the platform can give it, otherwise
\* as the next one that it can give and that favours the process less, or as the
\* last; only "realtime" may read as "high".  Setting what was read gives back
\* the priority that the process had then, whatever was set in between, unless
\* reading it had failed, or it was "realtime".
NiceKept ==
  /\ niceWish.is =>
       \/ Reading(TRUE) = -15 /\ niceOn = "windows" /\ niceWish.value <= -20
       \/ /\ Reading(TRUE) \in Given
          /\ Reading(TRUE) >= niceWish.value \/ \A g \in Given : g <= Reading(TRUE)
          /\ \A g \in Given : g >= niceWish.value => Reading(TRUE) <= g
  /\ niceBack => priority = niceRead.was \/ niceRead.failed \/ niceRead.was.class = "realtime"
=============================================================================
