------------------------------- MODULE Clocks -------------------------------
(***************************************************************************)
(* boot_time, and the times that Windows gives in units since 1601.        *)
(*                                                                         *)
(* Linux, Android and Windows read the clock and the time since the start  *)
(* of the system one after the other and subtract.  Somebody may set the   *)
(* clock.  Time is counted in parts of a second, of which Linux and        *)
(* Android see whole seconds only: sysinfo rounds the time since the start *)
(* up, and time rounds the clock down.  (That time may lag behind the      *)
(* clock by a tick of the kernel is left out.)  macOS and the BSDs ask the *)
(* kernel for the time of the start, and what asks the kernel can fail.    *)
(***************************************************************************)
EXTENDS Integers

CONSTANTS
  PartsOfSecond,  \* parts in a second
  LastPart,       \* how far time goes (bounds a run)
  TickWrap,       \* where the tick count of 32 bits starts again
  Boots,          \* times at which the system may have been started
  Epoch,          \* the distance from 1601 to 1970
  FileTimes       \* the values of a FILETIME (2^64 in the code)

\* No date of a run is beyond the last FILETIME.
ASSUME ClocksAssumption ==
  /\ PartsOfSecond \in Nat \ {0} /\ LastPart \in Nat /\ TickWrap \in Nat \ {0} /\ Boots \subseteq Nat
  /\ Epoch \in Nat \ {0} /\ FileTimes \in Nat /\ FileTimes > Epoch
  /\ \A b \in Boots : Epoch + b + LastPart < FileTimes

VARIABLES
  clockOn,  \* the platform
  up,       \* the time since the start
  boot,     \* the time of the start, by the clock as it is set
  cached,   \* Android: boot_time_val
  reading,  \* the local variables of a call
  told      \* the last answer

clockVars == <<clockOn, up, boot, cached, reading, told>>

\* set: the clock was set since the call began, or for Android since the value
\* that it keeps was read.
NotReading == [pc |-> "idle", first |-> 0, began |-> 0, set |-> FALSE]
NoValue == [is |-> FALSE, value |-> 0, took |-> 0, set |-> FALSE]
NotTold == [is |-> "none", value |-> 0, right |-> 0, took |-> 0, set |-> FALSE, wrapped |-> FALSE,
            failed |-> FALSE]

ClockInit ==
  /\ clockOn \in {"linux", "android", "windows_xp", "windows", "macos", "bsd"}
  /\ up = 0 /\ boot \in Boots
  /\ cached = NoValue /\ reading = NotReading /\ told = NotTold

TimePasses ==
  /\ up < LastPart /\ up' = up + 1
  /\ UNCHANGED <<clockOn, boot, cached, reading, told>>

SetsClock ==
  /\ boot' \in Boots \ {boot}
  /\ reading' = [reading EXCEPT !.set = reading.pc # "idle"]
  /\ cached' = [cached EXCEPT !.set = cached.is]
  /\ UNCHANGED <<clockOn, up, told>>

Seconds(n) == n \div PartsOfSecond
SecondsUp(n) == Seconds(n + PartsOfSecond - 1)

(***************************************************************************)
(* boot_time.                                                              *)
(***************************************************************************)

Telling(value, took, wasSet) ==
  /\ told' = [is |-> "boot", value |-> value, right |-> boot, took |-> took,
              set |-> wasSet, wrapped |-> clockOn = "windows_xp" /\ up >= TickWrap,
              failed |-> FALSE]
  /\ reading' = NotReading
  /\ UNCHANGED <<clockOn, up, boot>>

\* Slip: the tick count, in parts of a second, is subtracted from seconds.
TellUnscaled(value, took, wasSet) == Telling(Seconds(value), took, wasSet)

Tell(value, took, wasSet) == Telling(value, took, wasSet)

\* The first of the two: the time since the start for Linux and Android, the
\* clock for Windows.
ReadsFirst ==
  /\ reading.pc = "idle"
  /\ clockOn \notin {"macos", "bsd"} /\ ~(clockOn = "android" /\ cached.is)
  /\ reading' = [pc |-> "second", began |-> up, set |-> FALSE,
                 first |-> IF clockOn \in {"linux", "android"} THEN SecondsUp(up) ELSE boot + up]
  /\ told' = NotTold
  /\ UNCHANGED <<clockOn, up, boot, cached>>

\* sysinfo (Linux, Android) or sysctl (macOS, the BSDs) fails: the answer is 0, and
\* Android, which keeps nothing then, asks again in the next call.
TellsFailure ==
  /\ reading.pc = "idle"
  /\ clockOn \notin {"windows_xp", "windows"} /\ ~(clockOn = "android" /\ cached.is)
  /\ told' = [NotTold EXCEPT !.is = "boot", !.right = boot, !.failed = TRUE]
  /\ UNCHANGED <<clockOn, up, boot, cached, reading>>

\* The other of the two, and the difference.  Without GetTickCount64 Windows
\* counts in 32 bits.  Android keeps the value, if it is not 0.
ReadsSecond ==
  /\ reading.pc = "second"
  /\ LET value == CASE clockOn \in {"linux", "android"} ->
                         (Seconds(boot + up) - reading.first) * PartsOfSecond
                    [] clockOn = "windows_xp" -> reading.first - (up % TickWrap)
                    [] OTHER -> reading.first - up
         took == up - reading.began
     IN  /\ Tell(value, took, reading.set)
         /\ cached' = IF clockOn # "android" THEN cached
                      ELSE [is |-> value # 0, value |-> value, took |-> took, set |-> reading.set]

\* What the kernel keeps (macOS, the BSDs), or what Android has kept.
TellsKept ==
  /\ reading.pc = "idle"
  /\ \/ clockOn \in {"macos", "bsd"} /\ Tell(boot, 0, FALSE)
     \/ clockOn = "android" /\ cached.is /\ Tell(cached.value, cached.took, cached.set)
  /\ UNCHANGED cached

(***************************************************************************)
(* FiletimeToUnixTime.                                                     *)
(***************************************************************************)

\* Slip: the epochs are not subtracted.
FiletimeToUnixTimeRaw(ft) == ft

\* The subtraction is unsigned.
FiletimeToUnixTime(ft) == (ft - Epoch) % FileTimes

\* GetProcessTimes gives the date at which a process was created, which is 0 for
\* those of the system; GetThreadTimes gives for how long a thread has run.
TellsFiletime ==
  /\ reading.pc = "idle" /\ clockOn = "windows"
  /\ \E what \in {"created", "created_by_system", "ran"} :
       LET right == CASE what = "created" -> boot + up
                      [] what = "created_by_system" -> 0
                      [] OTHER -> up
           ft == IF what = "created" THEN Epoch + right ELSE right
       IN  told' = [NotTold EXCEPT !.is = what, !.right = right, !.value = FiletimeToUnixTime(ft)]
  /\ UNCHANGED <<clockOn, up, boot, cached, reading>>

ClockNext ==
  \/ TimePasses \/ SetsClock
  \/ ReadsFirst \/ ReadsSecond \/ TellsFailure \/ TellsKept
  \/ TellsFiletime
-----------------------------------------------------------------------------
(***************************************************************************)
(* Properties.                                                             *)
(***************************************************************************)

\* boot_time is the time of the start by the clock as it is set: exactly on macOS
\* and the BSDs; on Windows it is early by no more than what passes between the two
\* readings; on Linux and Android it is late by no more than that, and early by
\* less than two seconds, one for each reading.  It is 0 if the system call failed.
\* Nothing is said if the clock was set in between, which on Android means at any
\* time since the first call that succeeded, or if the tick count of 32 bits has
\* started again.
BootTimeRight ==
  told.is = "boot" /\ ~told.set /\ ~told.wrapped =>
    LET error == told.value - told.right
    IN  CASE told.failed -> told.value = 0 /\ clockOn \notin {"windows_xp", "windows"}
          [] ~told.failed /\ clockOn \in {"linux", "android"} ->
               told.took - 2 * PartsOfSecond < error /\ error <= told.took
          [] ~told.failed /\ clockOn \notin {"linux", "android"} ->
               -told.took <= error /\ error <= 0

\* A date before 1970 comes out as one in the far future: that of the processes of
\* the system, and the time for which a thread has run, which is not a date.  Any
\* other date is right.
FiletimeRight ==
  /\ told.is = "created" => told.value = told.right
  /\ told.is \in {"created_by_system", "ran"} /\ told.right < Epoch =>
       told.value = told.right + (FileTimes - Epoch)
=============================================================================
