------------------------------ MODULE Answers ------------------------------
(***************************************************************************)
(* The functions that answer neither with a list of what comes and goes    *)
(* nor from a handle: command lines and environments, percentages, CPU     *)
(* affinity, nice values, terminals, psutil_init and the time of the       *)
(* start.  They share no state, so a behaviour is one of a single part.    *)
(***************************************************************************)
EXTENDS StringVector, CpuTimes, Affinity, Niceness, Terminal, Startup, Clocks

CONSTANT Parts  \* the parts that a behaviour may be one of

VARIABLE part

otherThanStrings  == <<part, cpuVars, affinityVars, niceVars, ttyVars, startVars, clockVars>>
otherThanCpu      == <<part, stringVars, affinityVars, niceVars, ttyVars, startVars, clockVars>>
otherThanAffinity == <<part, stringVars, cpuVars, niceVars, ttyVars, startVars, clockVars>>
otherThanNice     == <<part, stringVars, cpuVars, affinityVars, ttyVars, startVars, clockVars>>
otherThanTty      == <<part, stringVars, cpuVars, affinityVars, niceVars, startVars, clockVars>>
otherThanStart    == <<part, stringVars, cpuVars, affinityVars, niceVars, ttyVars, clockVars>>
otherThanClock    == <<part, stringVars, cpuVars, affinityVars, niceVars, ttyVars, startVars>>

vars == <<stringVars, otherThanStrings>>

\* The parts that do not run stay in one of their initial states.
Init ==
  /\ part \in Parts
  /\ StringsInit
  /\ CpuInit      /\ (part # "cpu" => ticks.idle = 0)
  /\ AffinityInit /\ (part # "affinity" => online = Cpu /\ mask = Cpu)
  /\ NiceInit     /\ (part # "nice" => niceOn = "linux")
  /\ TtyInit      /\ (part # "tty" => ttyOn = "linux" /\ \A p \in Process : ttyOf[p].dev = NoTty /\ ~ttyOf[p].paren)
  /\ StartInit    /\ (part # "start" => startOn = "windows")
  /\ ClockInit    /\ (part # "clock" => clockOn = "linux" /\ \A b \in Boots : boot <= b)

Next ==
  \/ part = "strings"  /\ StringsNext  /\ UNCHANGED otherThanStrings
  \/ part = "cpu"      /\ CpuNext      /\ UNCHANGED otherThanCpu
  \/ part = "affinity" /\ AffinityNext /\ UNCHANGED otherThanAffinity
  \/ part = "nice"     /\ NiceNext     /\ UNCHANGED otherThanNice
  \/ part = "tty"      /\ TtyNext      /\ UNCHANGED otherThanTty
  \/ part = "start"    /\ StartNext    /\ UNCHANGED otherThanStart
  \/ part = "clock"    /\ ClockNext    /\ UNCHANGED otherThanClock

Spec == Init /\ [][Next]_vars
=============================================================================
