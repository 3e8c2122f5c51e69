------------------------------ MODULE CpuTimes ------------------------------
(***************************************************************************)
(* cpu_percent and cpu_times_percent: the counters of the system are read, *)
(* the caller sleeps, they are read again, and the difference is divided   *)
(* by the interval that was asked for, or by the whole of the difference.  *)
(*                                                                         *)
(* A quotient is kept as its two numbers; the factor of 100 is left out.   *)
(***************************************************************************)
EXTENDS Integers, FiniteSets

CONSTANTS
  Cpus,      \* CPUs, each of which adds one tick to one counter at a time
  Wrap,      \* the values of a counter of macOS (2^32 in the code)
  LastTick,  \* how far the clock goes (bounds a run)
  Intervals  \* the intervals that are asked for, in ticks

\* A counter does not wrap twice between two samples.
ASSUME CpuTimesAssumption ==
  /\ Cpus \in Nat \ {0} /\ LastTick \in Nat /\ Intervals \subseteq Int
  /\ Wrap \in Nat /\ Wrap > Cpus * LastTick

VARIABLES
  clock,    \* the time
  ticks,    \* the counters of the system
  sampling, \* the local variables of the call in progress
  percents  \* the last answer

cpuVars == <<clock, ticks, sampling, percents>>

MacCpu     == {"macos_cpu_percent", "macos_cpu_times_percent"}
WindowsCpu == {"windows_cpu_percent", "windows_cpu_times_percent"}
AndroidCpu == {"android_cpu_percent", "android_cpu_times_percent"}
BsdCpu     == {"bsd_cpu_percent", "bsd_cpu_times_percent"}
LinuxCpu   == {"linux_cpu_percent", "linux_cpu_times_percent"}
CpuCalls   == MacCpu \cup WindowsCpu \cup AndroidCpu \cup BsdCpu \cup LinuxCpu

\* The functions that divide by the interval; the others divide by ticks.
ByInterval == AndroidCpu \cup BsdCpu \cup {"linux_cpu_percent"}

Counter    == {"user", "nice", "system", "idle"}
NoTimes    == [user |-> 0, system |-> 0, idle |-> 0]
NoSample   == [fn |-> "none", pc |-> "idle", interval |-> 0, first |-> NoTimes,
               began |-> 0, was |-> [c \in Counter |-> 0], failed |-> FALSE]

\* An answer, with what has really happened since the first sample.
NoPercents == [fn |-> "none", user |-> 0, system |-> 0, of |-> 1, interval |-> 0, slept |-> 0,
               ran |-> [c \in Counter |-> 0], failed |-> FALSE, wrapped |-> FALSE]

\* The counter of the idle time may be about to wrap.
CpuInit ==
  /\ clock = 0
  /\ \E i \in {0, Wrap - 1} : ticks = [c \in Counter |-> IF c = "idle" THEN i ELSE 0]
  /\ sampling = NoSample /\ percents = NoPercents

\* Each CPU has run something, or nothing.
Tick ==
  /\ clock < LastTick /\ clock' = clock + 1
  /\ \E did \in [1..Cpus -> Counter] :
       ticks' = [c \in Counter |-> ticks[c] + Cardinality({k \in 1..Cpus : did[k] = c})]
  /\ UNCHANGED <<sampling, percents>>

SamplingAt(p) == sampling.pc = p

CpuCall(f, interval) ==
  /\ SamplingAt("idle")
  /\ sampling' = [NoSample EXCEPT !.fn = f, !.pc = "called", !.interval = interval]
  /\ percents' = NoPercents
  /\ UNCHANGED <<clock, ticks>>

(***************************************************************************)
(* The samples.                                                            *)
(***************************************************************************)

\* Slip: the kernel time of Windows is used with the idle time that it includes.
TimesOfKernel(t) ==
  [user |-> t.user + t.nice, system |-> t.system + t.idle, idle |-> t.idle]

\* What the code takes from the counters.  Linux, the BSDs and macOS leave nice
\* out; Android and Windows add it to user.  macOS counts in 32 bits.
Times(t) ==
  LET known(n) == IF sampling.fn \in MacCpu THEN n % Wrap ELSE n
      user == IF sampling.fn \in AndroidCpu \cup WindowsCpu THEN t.user + t.nice ELSE t.user
  IN  [user |-> known(user), system |-> known(t.system), idle |-> known(t.idle)]

\* A file that cannot be opened, or a call that fails, leaves zeros.
Sample(ok) == IF ok THEN Times(ticks) ELSE NoTimes

\* interval <= 0 is refused by most.
CpuReturnsZero ==
  /\ \/ SamplingAt("called") /\ sampling.interval <= 0
        /\ sampling.fn \notin MacCpu \cup {"bsd_cpu_times_percent"}
     \/ SamplingAt("called") /\ sampling.fn \in WindowsCpu
     \/ SamplingAt("asleep") /\ sampling.fn \in WindowsCpu
  /\ sampling' = NoSample
  /\ percents' = [NoPercents EXCEPT !.fn = sampling.fn, !.interval = sampling.interval,
                                    !.failed = sampling.interval > 0]
  /\ UNCHANGED <<clock, ticks>>

FirstSample(ok) ==
  /\ SamplingAt("called")
  /\ sampling.interval > 0 \/ sampling.fn \in MacCpu \cup {"bsd_cpu_times_percent"}
  /\ ok \/ sampling.fn \notin WindowsCpu
  /\ sampling' = [sampling EXCEPT !.pc = "asleep", !.first = Sample(ok),
                                  !.began = clock, !.was = ticks, !.failed = ~ok]
  /\ UNCHANGED <<clock, ticks, percents>>

(***************************************************************************)
(* The difference.                                                         *)
(***************************************************************************)
Difference(second) ==
  [c \in {"user", "system", "idle"} |-> second[c] - sampling.first[c]]

\* Slip: on macOS as on Windows and Linux, only an interval is checked.
ZeroUnlessAsked(d) == sampling.interval <= 0

\* When there is nothing to divide, or nothing to divide by.
Zero(d) ==
  LET busy  == d.user + d.system
      total == busy + d.idle
      f     == sampling.fn
  IN  \/ f = "linux_cpu_percent" /\ busy = 0
      \/ f \in BsdCpu \cup {"linux_cpu_times_percent"} /\ busy <= 0
      \/ f = "android_cpu_percent" /\ busy < 0
      \/ f \in MacCpu /\ total = 0
      \/ f \in WindowsCpu /\ total <= 0

Divisor(d) ==
  LET f == sampling.fn
  IN  IF f \in ByInterval THEN sampling.interval
      ELSE d.user + d.system + (IF f = "linux_cpu_times_percent" THEN 0 ELSE d.idle)

\* usleep ends early if a signal comes, Sleep does not.  Either may last longer.
SecondSample(ok) ==
  LET d == Difference(Sample(ok))
  IN  /\ SamplingAt("asleep")
      /\ sampling.fn \in WindowsCpu => ok /\ clock >= sampling.began + sampling.interval
      /\ sampling' = NoSample
      /\ percents' =
           [fn       |-> sampling.fn,
            user     |-> IF Zero(d) THEN 0 ELSE d.user,
            system   |-> IF Zero(d) THEN 0 ELSE d.system,
            of       |-> IF Zero(d) THEN 1 ELSE Divisor(d),
            interval |-> sampling.interval,
            slept    |-> clock - sampling.began,
            ran      |-> [c \in Counter |-> ticks[c] - sampling.was[c]],
            failed   |-> sampling.failed \/ ~ok,
            wrapped  |-> ok /\ \E c \in DOMAIN d : d[c] < 0]
      /\ UNCHANGED <<clock, ticks>>

CpuNext ==
  \/ Tick
  \/ \E f \in CpuCalls, i \in Intervals : CpuCall(f, i)
  \/ CpuReturnsZero
  \/ \E ok \in BOOLEAN : FirstSample(ok) \/ SecondSample(ok)
-----------------------------------------------------------------------------
(***************************************************************************)
(* Properties.                                                             *)
(***************************************************************************)

\* No function divides by zero or answers less than nothing, more than all that
\* was used, or, where it divides by ticks, more than 100.  There are these
\* exceptions.  cpu_times_percent of the BSDs divides by any interval.  If a
\* sample has failed, the other is taken for a difference, which is too large,
\* or negative on Linux and Android; Windows alone answers zeros then.  On macOS
\* a counter may have wrapped.
PercentInRange ==
  LET f == percents.fn
      busy == percents.user + percents.system
  IN  \/ percents.failed /\ f \notin WindowsCpu
      \/ f \in MacCpu /\ percents.wrapped
      \/ f = "bsd_cpu_times_percent" /\ percents.interval <= 0
      \/ /\ percents.of > 0 /\ percents.user >= 0 /\ percents.system >= 0
         /\ IF f \in ByInterval THEN busy <= Cpus * percents.slept ELSE busy <= percents.of

\* A percentage is the share of their time for which the CPUs have run
\* something, if both samples were read: of all CPUs together where ticks are
\* divided, of one of them where the interval divides, and then only if the
\* sleep has neither been cut short nor lasted longer.  Processes that are nice
\* are left out by Linux, macOS and the BSDs, and on macOS from the whole as
\* well.  cpu_times_percent of Linux divides by the busy time alone.
PercentIsShare ==
  LET f     == percents.fn
      r     == percents.ran
      nice  == IF f \in AndroidCpu \cup WindowsCpu THEN r.nice ELSE 0
      used  == r.user + r.system + nice
      whole == CASE f = "linux_cpu_times_percent" -> used
                 [] f \in MacCpu                  -> used + r.idle
                 [] f \in ByInterval              -> percents.slept
                 [] OTHER                         -> Cpus * percents.slept
  IN  \/ f = "none" \/ percents.failed \/ percents.wrapped
      \/ percents.interval <= 0 /\ f \notin MacCpu
      \/ f \in ByInterval /\ percents.slept # percents.interval
      \/ /\ (percents.user + percents.system) * whole = used * percents.of
         /\ percents.system * whole = r.system * percents.of
=============================================================================
