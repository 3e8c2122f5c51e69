---------------------------- MODULE MCPlatforms -----------------------------
(***************************************************************************)
(* Platforms on small instances.  The .cfg files choose the calls the      *)
(* program makes; this module gives the sets they share.                   *)
(***************************************************************************)
EXTENDS Platforms, TLC

AllPlatforms == {"linux", "macos", "bsd", "android", "windows"}

\* The platforms whose calls take several steps, each in a way of its own.
Stepping == {"linux", "android", "windows"}

\* Processes other than Self are interchangeable.
Interchangeable == Permutations(Proc \ {Self})

\* So are the threads.
InterchangeableToo == Interchangeable \cup Permutations(Caller)

\* Timeouts of the runs, in ms: none is a multiple of 10 but 0, so that the
\* last turn of the polling loop oversteps.
Forever     == {-1}
AllTimeouts == {-1, 0, 15}
WaitOrPoll  == {-1, 5}
=============================================================================
