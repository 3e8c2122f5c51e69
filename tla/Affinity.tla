------------------------------ MODULE Affinity ------------------------------
(***************************************************************************)
(* The CPUs that a process may use, read into a list and set from one,     *)
(* while CPUs go offline and come back.  Linux asks first how many are     *)
(* online, and takes that for the bound of their numbers.                  *)
(***************************************************************************)
EXTENDS Integers, FiniteSets

CONSTANT NCpu  \* CPUs, which one word of a mask can hold

ASSUME AffinityAssumption == NCpu \in Nat \ {0}

VARIABLES
  online,   \* the CPUs that are online
  mask,     \* those that the process may use
  binding,  \* the local variables of the call in progress
  bound     \* the last answer

affinityVars == <<online, mask, binding, bound>>

Cpu == 0..(NCpu - 1)

\* The numbers a program may ask for include some that are no CPU's.
Asked == -1..NCpu

Getters == {"linux_get", "android_get", "windows_get", "macos_get", "bsd_get"}
Setters == {"linux_set", "android_set", "windows_set", "macos_set", "bsd_set"}

\* What has happened during a call: the CPUs that were offline at some time, and
\* for a getter those that the process could use at some time and all the time.
NoBinding == [fn |-> "none", pc |-> "idle", asked |-> {}, count |-> 0,
              ever |-> {}, stayed |-> {}, offline |-> {}]
NoBound   == [fn |-> "none", ok |-> FALSE, list |-> {}, now |-> {},
              ever |-> {}, stayed |-> {}, offline |-> {}]

AffinityInit ==
  /\ online \in SUBSET Cpu /\ mask \in SUBSET Cpu /\ online \cap mask # {}
  /\ binding = NoBinding /\ bound = NoBound

BindingAt(p) == binding.pc = p

Witness(b, on, m) ==
  [b EXCEPT !.ever = IF b.fn \in Getters THEN @ \cup (m \cap on) ELSE {},
            !.stayed = IF b.fn \in Getters THEN @ \cap m \cap on ELSE {},
            !.offline = @ \cup (Cpu \ on)]

\* A CPU goes offline or comes back.  A process that loses its last one may use
\* all again.  Between calls nothing of this matters to the next one.
Hotplug ==
  /\ ~BindingAt("idle")
  /\ \E c \in Cpu : online' = IF c \in online THEN online \ {c} ELSE online \cup {c}
  /\ online' # {}
  /\ mask' = IF mask \cap online' = {} THEN Cpu ELSE mask
  /\ binding' = Witness(binding, online', mask')
  /\ UNCHANGED bound

\* Somebody else sets the mask of the process.
SetByOthers ==
  /\ ~BindingAt("idle") /\ binding.fn \in Getters
  /\ mask' \in {m \in SUBSET Cpu : m \cap online # {}}
  /\ binding' = Witness(binding, online, mask')
  /\ UNCHANGED <<online, bound>>

AffinityCall(f, asked) ==
  /\ BindingAt("idle")
  /\ binding' = Witness([NoBinding EXCEPT !.fn = f, !.pc = "called", !.asked = asked,
                                          !.stayed = Cpu], online, mask)
  /\ bound' = NoBound
  /\ UNCHANGED <<online, mask>>

Bind(ok, list) ==
  /\ binding' = NoBinding
  /\ bound' = [fn |-> binding.fn, ok |-> ok, list |-> list, now |-> mask', ever |-> binding.ever,
               stayed |-> binding.stayed, offline |-> binding.offline]
  /\ UNCHANGED online

\* sysconf(_SC_NPROCESSORS_ONLN), which only Linux asks before the mask.
CountsOnline ==
  /\ BindingAt("called") /\ binding.fn \in {"linux_get", "linux_set"}
  /\ binding' = [binding EXCEPT !.pc = "counted", !.count = Cardinality(online)]
  /\ UNCHANGED <<online, mask, bound>>

\* The process is gone or may not be touched, or there is no memory; the BSDs
\* answer so in any case.
AffinityFails ==
  /\ ~BindingAt("idle")
  /\ UNCHANGED mask /\ Bind(FALSE, {})

(***************************************************************************)
(* Reading.                                                                *)
(***************************************************************************)
\* Slip: Android and Windows as well stop at the number of CPUs online.
ReadsMaskToCount ==
  LET usable == mask \cap online
  IN  /\ BindingAt(IF binding.fn = "linux_get" THEN "counted" ELSE "called")
      /\ binding.fn \in {"linux_get", "android_get", "windows_get"}
      /\ UNCHANGED mask
      /\ Bind(TRUE, {c \in usable : c < Cardinality(online)})

\* The system answers the CPUs that are online and in the mask.
ReadsMask ==
  LET usable == mask \cap online
  IN  /\ UNCHANGED mask
      /\ \/ BindingAt("counted") /\ binding.fn = "linux_get"
            /\ Bind(TRUE, {c \in usable : c < binding.count})
         \/ BindingAt("called") /\ binding.fn \in {"android_get", "windows_get"}
            /\ Bind(TRUE, usable)

\* macOS does not look at the process, and lists as many as are online.
ListsAll ==
  /\ BindingAt("called") /\ binding.fn = "macos_get"
  /\ UNCHANGED mask /\ Bind(TRUE, 0..(Cardinality(online) - 1))

(***************************************************************************)
(* Setting.                                                                *)
(***************************************************************************)
\* Slip: the numbers are taken to start at 1.
TakenFromOne == {c - 1 : c \in binding.asked} \cap Cpu

\* What goes into the mask.  Numbers out of range are left out.
Taken ==
  IF binding.fn = "linux_set" THEN {c \in binding.asked : 0 <= c /\ c < binding.count}
  ELSE binding.asked \cap Cpu

\* Android alone refuses negative numbers.  Linux and Android want one CPU that
\* is online, Windows wants no other.  The list must not be empty.
Accepted ==
  /\ binding.asked # {} /\ Taken \cap online # {}
  /\ binding.fn = "android_set" => -1 \notin binding.asked
  /\ binding.fn = "windows_set" => Taken \subseteq online

SetsMask ==
  /\ \/ BindingAt("counted") /\ binding.fn = "linux_set"
     \/ BindingAt("called") /\ binding.fn \in {"android_set", "windows_set"}
  /\ Accepted /\ mask' = Taken
  /\ Bind(TRUE, binding.asked)

\* macOS says that it has set the mask, and does not.
SetsNothing ==
  /\ BindingAt("called") /\ binding.fn = "macos_set" /\ binding.asked # {}
  /\ UNCHANGED mask /\ Bind(TRUE, binding.asked)

AffinityNext ==
  \/ Hotplug \/ SetByOthers
  \/ \E f \in Getters : AffinityCall(f, {})
  \/ \E f \in Setters, a \in SUBSET Asked : AffinityCall(f, a)
  \/ CountsOnline \/ AffinityFails
  \/ ReadsMask \/ ListsAll \/ SetsMask \/ SetsNothing
-----------------------------------------------------------------------------
(***************************************************************************)
(* Properties.                                                             *)
(***************************************************************************)

\* A list that was read has no CPU that the process could at no time use, and
\* lacks one that it could use all the time only on Linux, when one with a lower
\* number was offline.  On macOS it has nothing to do with the process.
AffinityListed ==
  bound.ok /\ bound.fn \in Getters \ {"macos_get"} =>
    /\ bound.list \subseteq bound.ever
    /\ \A c \in bound.stayed \ bound.list :
         bound.fn = "linux_get" /\ \E d \in 0..(c - 1) : d \in bound.offline

\* When an affinity was set, the process may use no CPU that is not in the list,
\* and some that is.  One that is in the list is dropped, without a word, only on
\* Linux, when it was offline or one with a lower number was.  On macOS nothing
\* was set.
AffinityAsSet ==
  bound.ok /\ bound.fn \in Setters \ {"macos_set"} =>
    /\ bound.now \subseteq bound.list /\ bound.now # {}
    /\ \A c \in (bound.list \cap Cpu) \ bound.now :
         bound.fn = "linux_set" /\ \E d \in 0..c : d \in bound.offline
=============================================================================
