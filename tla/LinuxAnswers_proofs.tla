------------------------ MODULE LinuxAnswers_proofs ------------------------
(***************************************************************************)
(* Proofs about the answers of the process functions on Linux: what they   *)
(* say was so at some moment of the call, whatever happens between the     *)
(* system calls from which they are made.                                  *)
(***************************************************************************)
EXTENDS Platforms, LinuxProcess_proofs

\* What the answer a says was so at some moment of the call.
SaysTrue(a) ==
  /\ a.op \in Field \cup {"get_ppid"} /\ a.val = 0 => Shows(a, {"absent", "zombie", "refused"})
  /\ a.op = "get_status" => TrueStatus(a)
  /\ a.op = "is_running" => TrueIsRunning(a)
  /\ a.op = "wait" =>
       \/ a.val = 0 /\ a.of \in Proc /\ Shows(a, {"zombie"})
       \/ a.val = 1 /\ Shows(a, {"running", "stopped", "notime"})
       \/ a.val = -1 /\ Shows(a, {"nochild", "refused"})

Reports(a) == a.op = "wait" /\ a.val = 0

\* An exit that is reported has been collected, and stays so.
Answered ==
  \A c \in Caller : SaysTrue(ret[c]) /\ (Reports(ret[c]) => life[ret[c].of] = "gone")

\* What the calls in progress have seen, from LinuxProcess_proofs.
Watched == TypeOK /\ CallsSound /\ \A c \in Caller : InWait(c)

-----------------------------------------------------------------------------
(***************************************************************************)
(* Answers that are given stay true.                                       *)
(***************************************************************************)
LEMMA SameAnswers ==
  ASSUME Answered, TableStep, UNCHANGED ret
  PROVE  Answered'
<1> SUFFICES ASSUME NEW c \in Caller
             PROVE  SaysTrue(ret'[c]) /\ (Reports(ret'[c]) => life'[ret'[c].of] = "gone")
  BY DEF Answered
<1>1. SaysTrue(ret[c]) /\ (Reports(ret[c]) => life[ret[c].of] = "gone")
  BY DEF Answered
<1>2. Reports(ret[c]) => ret[c].of \in Proc
  BY <1>1 DEF SaysTrue, Reports
<1>3. Reports(ret[c]) => life'[ret[c].of] = "gone"
  BY <1>1, <1>2 DEF TableStep
<1> QED BY <1>1, <1>3

LEMMA OthersKeep ==
  ASSUME Answered, TableStep, TypeOK, NEW c \in Caller, NEW a, ret' = [ret EXCEPT ![c] = a],
         SaysTrue(a), Reports(a) => life'[a.of] = "gone"
  PROVE  Answered'
<1> SUFFICES ASSUME NEW d \in Caller
             PROVE  SaysTrue(ret'[d]) /\ (Reports(ret'[d]) => life'[ret'[d].of] = "gone")
  BY DEF Answered
<1>1. SaysTrue(ret[d]) /\ (Reports(ret[d]) => life[ret[d].of] = "gone")
  BY DEF Answered
<1>2. ret'[d] = IF d = c THEN a ELSE ret[d]
  BY DEF TypeOK
<1>3. Reports(ret[d]) => ret[d].of \in Proc
  BY <1>1 DEF SaysTrue, Reports
<1>4. Reports(ret[d]) => life'[ret[d].of] = "gone"
  BY <1>1, <1>3 DEF TableStep
<1> QED BY <1>1, <1>2, <1>4

\* A call that goes on has no answer yet.
LEMMA NoAnswerYet == SaysTrue(NoAnswer) /\ ~Reports(NoAnswer)
  BY ProcessApiAssumption DEF SaysTrue, Reports, NoAnswer, Op, Field, Read, Wait

LEMMA GotoAnswers ==
  ASSUME Answered, TableStep, TypeOK, NEW c \in Caller, NEW label, NEW o, NEW q,
         Goto(c, label, o, q)
  PROVE  Answered'
  BY NoAnswerYet, OthersKeep DEF Goto

-----------------------------------------------------------------------------
(***************************************************************************)
(* What a look at the table shows.                                         *)
(***************************************************************************)
LEMMA LookAbsent == ASSUME NEW p, At(p) = {} PROVE "absent" \in Look(p)
  BY DEF Look

LEMMA LookNoChild == ASSUME NEW p, Kid(p) = {} PROVE "nochild" \in Look(p)
  BY DEF Look

\* The process of an open file is what a look at the pid shows, or the call has
\* seen the pid without a process.
LEMMA FileShows ==
  ASSUME Watched, NEW c \in Caller, pc[c] = "reading"
  PROVE  /\ fp[c] \in Proc
         /\ Present(fp[c]) => life[fp[c]] \in Look(hpid[c])
         /\ ~Present(fp[c]) => "absent" \in saw[c]
<1>1. fp[c] # None /\ fp[c] \in Proc /\ FileSound(c)
  BY DEF Watched, TypeOK, Holding, CallsSound
<1>2. Present(fp[c]) => fp[c] \in At(hpid[c])
  BY <1>1 DEF FileSound, At
<1> QED BY <1>1, <1>2, LookShows DEF FileSound

LEMMA ReturnAnswers ==
  ASSUME Answered, TableStep, TypeOK, NEW c \in Caller, NEW o, NEW v, NEW q, NEW why,
         Return(c, o, v, q, why),
         \A S : S = saw[c] \cup Look(hpid[c]) \cup why =>
                 SaysTrue([op |-> o, val |-> v, of |-> q, saw |-> S]),
         o = "wait" /\ v = 0 => life'[q] = "gone"
  PROVE  Answered'
<1>1. PICK S : S = saw[c] \cup Look(hpid[c]) \cup why
  OBVIOUS
<1>2. PICK a : a = [op |-> o, val |-> v, of |-> q, saw |-> S]
  OBVIOUS
<1>3. ret' = [ret EXCEPT ![c] = a]
  BY <1>1, <1>2 DEF Return
<1>4. SaysTrue(a)
  BY <1>1, <1>2
<1>5. Reports(a) => life'[a.of] = "gone"
  BY <1>2 DEF Reports
<1> QED BY <1>3, <1>4, <1>5, OthersKeep

\* A getter that fails, for a reason that the call has seen.
LEMMA FailAnswers ==
  ASSUME Answered, TableStep, TypeOK, NEW c \in Caller,
         NEW o \in Field \cup {"get_ppid", "get_status", "is_running"}, NEW why, Fail(c, o, why),
         (saw[c] \cup Look(hpid[c]) \cup why) \cap
           (IF o \in Field \cup {"get_ppid"} THEN {"absent", "zombie", "refused"}
            ELSE {"absent", "refused"}) # {}
  PROVE  Answered'
<1>1. ASSUME NEW S, S = saw[c] \cup Look(hpid[c]) \cup why
      PROVE  SaysTrue([op |-> o, val |-> 0, of |-> None, saw |-> S])
  <2>1. S \cap (IF o \in Field \cup {"get_ppid"} THEN {"absent", "zombie", "refused"}
                ELSE {"absent", "refused"}) # {}
    BY <1>1
  <2> QED BY <2>1 DEF SaysTrue, TrueStatus, TrueIsRunning, Shows, Field,
                      STATUS_RUNNING, STATUS_STOPPED, STATUS_ZOMBIE
<1>2. o # "wait"
  BY DEF Field
<1> QED BY <1>1, <1>2, ReturnAnswers DEF Fail

LEMMA ValueAnswers ==
  ASSUME Answered, TableStep, TypeOK, NEW c \in Caller,
         NEW o \in Field \cup {"get_ppid"}, NEW q, NEW why, Return(c, o, 1, q, why)
  PROVE  Answered'
<1>1. ASSUME NEW S PROVE SaysTrue([op |-> o, val |-> 1, of |-> q, saw |-> S])
  BY DEF SaysTrue, Field
<1>2. o # "wait"
  BY DEF Field
<1> QED BY <1>1, <1>2, ReturnAnswers

-----------------------------------------------------------------------------
(***************************************************************************)
(* The functions.                                                          *)
(***************************************************************************)
LEMMA OpenAnswers ==
  ASSUME Answered, TableStep, Watched, NEW c \in Caller,
         NEW o \in Field \cup {"get_ppid", "get_status", "is_running"}, OpenProcFile(c, o)
  PROVE  Answered'
<1>1. TypeOK
  BY DEF Watched
<1>2. CASE \E q \in At(hpid[c]) : Goto(c, "reading", o, q)
  BY <1>1, <1>2, GotoAnswers
<1>3. CASE At(hpid[c]) = {} /\ Fail(c, o, {})
  BY <1>1, <1>3, LookAbsent, FailAnswers
<1>4. CASE Fail(c, o, Refused)
  BY <1>1, <1>4, FailAnswers DEF Refused
<1> QED BY <1>2, <1>3, <1>4 DEF OpenProcFile

LEMMA GetterAnswers ==
  ASSUME Answered, TableStep, Watched, NEW c \in Caller, NEW f \in Field,
         FillIfAlive(c, f) \/ ReturnCached(c, f) \/ OpenUncached(c, f)
  PROVE  Answered'
<1>1. TypeOK
  BY DEF Watched
<1>2. CASE FillIfAlive(c, f)
  <2>1. CASE \E q : Fill(c, f, q)
    BY <1>1, <2>1, ValueAnswers DEF Fill
  <2>2. CASE ~(\E q \in At(hpid[c]) : Alive(q)) /\ Fail(c, f, {})
    <3>1. CASE At(hpid[c]) = {}
      BY <1>1, <2>2, <3>1, LookAbsent, FailAnswers
    <3>2. ASSUME NEW q \in At(hpid[c]) PROVE Answered'
      <4>1. life[q] = "zombie" /\ life[q] \in Look(hpid[c])
        BY <2>2, <3>2, LookShows DEF Alive, Present
      <4> QED BY <1>1, <2>2, <4>1, FailAnswers
    <3> QED BY <3>1, <3>2
  <2>3. CASE Fail(c, f, Refused)
    BY <1>1, <2>3, FailAnswers DEF Refused
  <2> QED BY <1>2, <2>1, <2>2, <2>3 DEF FillIfAlive
<1>3. CASE ReturnCached(c, f)
  BY <1>1, <1>3, ValueAnswers DEF ReturnCached
<1>4. CASE OpenUncached(c, f)
  BY <1>4, OpenAnswers DEF OpenUncached
<1> QED BY <1>2, <1>3, <1>4

LEMMA ReadAnswers ==
  ASSUME Answered, TableStep, Watched, NEW c \in Caller,
         ReadField(c) \/ ReadPpid(c) \/ ReadStatus(c) \/ IsRunningRead(c)
  PROVE  Answered'
<1>1. TypeOK /\ pc[c] = "reading"
  BY DEF Watched, ReadField, ReadPpid, ReadStatus, IsRunningRead
<1>2. /\ fp[c] \in Proc
      /\ Present(fp[c]) => life[fp[c]] \in Look(hpid[c])
      /\ ~Present(fp[c]) => "absent" \in saw[c]
  BY <1>1, FileShows
<1>3. CASE ReadField(c)
  <2>1. op[c] \in Field
    BY <1>3 DEF ReadField
  <2>2. CASE Fill(c, op[c], fp[c])
    BY <1>1, <2>1, <2>2, ValueAnswers DEF Fill
  <2>3. CASE ~Present(fp[c]) /\ Fail(c, op[c], {})
    BY <1>1, <1>2, <2>1, <2>3, FailAnswers
  <2>4. CASE Fail(c, op[c], Refused)
    BY <1>1, <2>1, <2>4, FailAnswers DEF Refused
  <2> QED BY <1>3, <2>2, <2>3, <2>4 DEF ReadField
<1>4. CASE ReadPpid(c)
  <2>1. CASE Present(fp[c]) /\ Return(c, "get_ppid", 1, fp[c], {})
    BY <1>1, <2>1, ValueAnswers
  <2>2. CASE ~Present(fp[c]) /\ Return(c, "get_ppid", 0, None, {})
    BY <1>1, <1>2, <1>4, <2>2, FailAnswers DEF Fail, ReadPpid
  <2> QED BY <1>4, <2>1, <2>2 DEF ReadPpid
<1>5. CASE ReadStatus(c)
  <2>1. CASE Present(fp[c]) /\ Return(c, "get_status", StatusCode(fp[c]), fp[c], {})
    <3>1. ASSUME NEW S, S = saw[c] \cup Look(hpid[c]) \cup {}
          PROVE  SaysTrue([op |-> "get_status", val |-> StatusCode(fp[c]), of |-> fp[c], saw |-> S])
      <4>1. life[fp[c]] \in S /\ life[fp[c]] \in {"running", "stopped", "zombie"}
        BY <1>2, <2>1, <3>1 DEF Present
      <4>2. PICK v : v = StatusCode(fp[c])
        OBVIOUS
      <4>3. \/ v = 4 /\ life[fp[c]] = "stopped"
            \/ v = 6 /\ life[fp[c]] = "zombie"
            \/ v = 0 /\ life[fp[c]] = "running"
        BY <4>1, <4>2 DEF StatusCode, STATUS_STOPPED, STATUS_ZOMBIE, STATUS_RUNNING
      <4>4. SaysTrue([op |-> "get_status", val |-> v, of |-> fp[c], saw |-> S])
        BY <4>1, <4>3 DEF SaysTrue, TrueStatus, Shows, Field, STATUS_STOPPED, STATUS_ZOMBIE
      <4> QED BY <4>2, <4>4
    <3> QED BY <1>1, <2>1, <3>1, ReturnAnswers
  <2>2. CASE ~Present(fp[c]) /\ Return(c, "get_status", STATUS_RUNNING, None, {})
    BY <1>1, <1>2, <1>5, <2>2, FailAnswers DEF Fail, ReadStatus, STATUS_RUNNING
  <2> QED BY <1>5, <2>1, <2>2 DEF ReadStatus
<1>6. CASE IsRunningRead(c)
  <2>1. CASE Present(fp[c]) /\ life[fp[c]] # "zombie"
    <3>1. ASSUME NEW S, S = saw[c] \cup Look(hpid[c]) \cup {}
          PROVE  SaysTrue([op |-> "is_running", val |-> 1, of |-> fp[c], saw |-> S])
      <4>1. S \cap {"running", "stopped"} # {}
        BY <1>2, <2>1, <3>1 DEF Present
      <4> QED BY <4>1 DEF SaysTrue, TrueIsRunning, Shows, Field
    <3> QED BY <1>1, <1>6, <2>1, <3>1, ReturnAnswers DEF IsRunningRead
  <2>2. CASE ~(Present(fp[c]) /\ life[fp[c]] # "zombie")
    <3>1. ASSUME NEW S, S = saw[c] \cup Look(hpid[c]) \cup {}
          PROVE  SaysTrue([op |-> "is_running", val |-> 0, of |-> fp[c], saw |-> S])
      <4>1. S \cap {"zombie", "absent", "refused"} # {}
        BY <1>2, <2>2, <3>1 DEF Present
      <4> QED BY <4>1 DEF SaysTrue, TrueIsRunning, Shows, Field
    <3> QED BY <1>1, <1>6, <2>2, <3>1, ReturnAnswers DEF IsRunningRead
  <2> QED BY <2>1, <2>2
<1> QED BY <1>3, <1>4, <1>5, <1>6

\* process_wait.
LEMMA WaitReturnAnswers ==
  ASSUME Answered, TableStep, TypeOK, NEW c \in Caller, NEW v, NEW q, NEW why,
         Return(c, "wait", v, q, why),
         LET S == saw[c] \cup Look(hpid[c]) \cup why
         IN  \/ v = 0 /\ q \in Proc /\ life'[q] = "gone" /\ "zombie" \in S
             \/ v = 1 /\ S \cap {"running", "stopped", "notime"} # {}
             \/ v = -1 /\ S \cap {"nochild", "refused"} # {}
  PROVE  Answered'
<1>1. ASSUME NEW S, S = saw[c] \cup Look(hpid[c]) \cup why
      PROVE  SaysTrue([op |-> "wait", val |-> v, of |-> q, saw |-> S])
  <2>1. \/ v = 0 /\ q \in Proc /\ "zombie" \in S
        \/ v = 1 /\ S \cap {"running", "stopped", "notime"} # {}
        \/ v = -1 /\ S \cap {"nochild", "refused"} # {}
    BY <1>1
  <2> QED BY <2>1 DEF SaysTrue, Shows, Field
<1> QED BY <1>1, ReturnAnswers

LEMMA WaitAnswers ==
  ASSUME Answered, TableStep, Watched, NEW c \in Caller,
         \/ WaitCollects(c) \/ WaitNoChild(c) \/ WaitInterrupted(c)
         \/ WaitPolls(c) \/ WaitSleeps(c) \/ WaitTimesOut(c)
  PROVE  Answered'
<1>1. TypeOK
  BY DEF Watched
<1>2. CASE WaitCollects(c)
  <2>1. PICK q \in Kid(hpid[c]) : Reap(q) /\ Return(c, "wait", 0, q, {})
    BY <1>2 DEF WaitCollects
  <2>2. q \in Proc /\ life[q] = "zombie" /\ life[q] \in Look(hpid[c])
    BY <2>1, LookShows DEF Kid, Reap
  <2>3. life'[q] = "gone"
    BY <1>1, <2>1, <2>2 DEF Reap, TypeOK, KernelTypeOK
  <2> QED BY <1>1, <2>1, <2>2, <2>3, WaitReturnAnswers
<1>3. CASE WaitNoChild(c)
  BY <1>1, <1>3, LookNoChild, WaitReturnAnswers DEF WaitNoChild
<1>4. CASE WaitInterrupted(c)
  BY <1>1, <1>4, WaitReturnAnswers DEF WaitInterrupted, Refused
<1>5. CASE WaitPolls(c) \/ WaitSleeps(c)
  BY <1>5, SameAnswers DEF WaitPolls, WaitSleeps
<1>6. CASE WaitTimesOut(c)
  <2>1. elapsed[c] \in Nat /\ limit[c] \in Int /\ limit[c] >= 0 /\ WaitSound(c) /\ pc[c] = "poll"
    BY <1>1, <1>6 DEF TypeOK, Watched, InWait, WaitTimesOut
  <2>2. CASE limit[c] = 0
    BY <1>1, <1>6, <2>2, WaitReturnAnswers DEF WaitTimesOut, NoTime
  <2>3. CASE limit[c] # 0
    <3>1. saw[c] \cap {"running", "stopped"} # {}
      BY <1>6, <2>1, <2>3 DEF WaitTimesOut, WaitSound
    <3> QED BY <1>1, <1>6, <2>3, <3>1, WaitReturnAnswers DEF WaitTimesOut
  <2> QED BY <2>2, <2>3
<1> QED BY <1>2, <1>3, <1>4, <1>5, <1>6

LEMMA AnsweredStep == Watched /\ Answered /\ [Next]_vars => Answered'
<1> SUFFICES ASSUME Watched, Answered, [Next]_vars PROVE Answered'
  OBVIOUS
<1>1. TypeOK /\ TableStep
  BY StepTable DEF Watched, CallsSound
<1>2. CASE Environment \/ UNCHANGED vars
  BY <1>1, <1>2, SameAnswers DEF Environment, vars, callVars
<1>3. ASSUME NEW c \in Caller, Begin(c) PROVE Answered'
  <2>1. CASE GetName(c) \/ GetExe(c) \/ GetCwd(c) \/ GetUsername(c) \/ GetCreateTime(c)
    BY <1>1, <2>1, GetterAnswers
       DEF GetName, GetExe, GetCwd, GetUsername, GetCreateTime, Field
  <2>2. CASE GetPpid(c) \/ GetStatus(c)
    BY <1>1, <2>2, OpenAnswers DEF GetPpid, GetStatus
  <2>3. CASE IsRunningStat(c)
    <3>1. CASE \E label, o, q : Goto(c, label, o, q)
      BY <1>1, <3>1, GotoAnswers
    <3>2. CASE At(hpid[c]) = {} /\ Fail(c, "is_running", {})
      BY <1>1, <3>2, LookAbsent, FailAnswers
    <3> QED BY <2>3, <3>1, <3>2 DEF IsRunningStat
  <2>4. CASE (\E p \in Pid \cup {0} : ProcessNew(c, p)) \/ \E sig : SendSignal(c, sig)
    BY <1>1, <2>4, SameAnswers DEF ProcessNew, SendSignal
  <2>5. CASE ProcessFree(c)
    BY <1>1, <2>5, NoAnswerYet, OthersKeep DEF ProcessFree
  <2>6. CASE \E t \in Timeouts : WaitBegin(c, t)
    BY <1>1, <2>6, GotoAnswers DEF WaitBegin
  <2> QED BY <1>1, <1>3, <2>1, <2>2, <2>3, <2>4, <2>5, <2>6, WaitAnswers
          DEF Begin, Suspend, Resume, Terminate, Kill
<1>4. ASSUME NEW c \in Caller, Continue(c) PROVE Answered'
  <2>1. CASE IsRunningOpen(c)
    BY <1>1, <2>1, OpenAnswers DEF IsRunningOpen
  <2> QED BY <1>1, <1>4, <2>1, ReadAnswers, WaitAnswers DEF Continue
<1> QED BY <1>2, <1>3, <1>4 DEF Next

LEMMA AnswersTrue == Spec => []Answered
<1>1. Init => Answered
  BY NoAnswerYet DEF Init, Answered
<1>2. Spec => []Watched
  BY TypeCorrect, CallsSoundCorrect, WaitLoopCorrect, PTL DEF Watched
<1> QED BY <1>1, <1>2, AnsweredStep, PTL DEF Spec

-----------------------------------------------------------------------------
(***************************************************************************)
(* The library on Linux.                                                   *)
(***************************************************************************)

\* Where Linux is the only platform, Platforms is LinuxProcess.
LEMMA LinuxOnly ==
  ASSUME Platform \subseteq {"linux"}
  PROVE  PlatformSpec => Spec /\ [](platform = "linux")
<1>1. PlatformInit => Init /\ platform = "linux"
  BY DEF PlatformInit
<1>2. platform = "linux" /\ [PlatformNext]_platformVars => [Next]_vars /\ (platform = "linux")'
  BY DEF PlatformNext, Begins, GoesOn, Next, platformVars
<1> QED BY <1>1, <1>2, PTL DEF PlatformSpec, Spec

LEMMA LinuxAnswered ==
  ASSUME Platform \subseteq {"linux"}
  PROVE  PlatformSpec => [](Answered /\ platform = "linux")
  BY LinuxOnly, AnswersTrue, PTL

\* A getter fails only for a reason there was during the call, although it opens
\* its file in one step and reads it in another.
THEOREM LinuxGettersWitnessed ==
  ASSUME Platform \subseteq {"linux"}
  PROVE  PlatformSpec => []GetterWitnessed
<1>1. Answered => GetterWitnessed
  BY DEF Answered, SaysTrue, GetterWitnessed
<1> QED BY <1>1, LinuxAnswered, PTL

\* The status that get_status answers is one that the process had during the call.
THEOREM LinuxStatusWitnessed ==
  ASSUME Platform \subseteq {"linux"}
  PROVE  PlatformSpec => []StatusWitnessed
<1>1. Answered /\ platform = "linux" => StatusWitnessed
  BY DEF Answered, SaysTrue, StatusWitnessed
<1> QED BY <1>1, LinuxAnswered, PTL

\* is_running says what was so during the call, though it looks three times.
THEOREM LinuxRunningWitnessed ==
  ASSUME Platform \subseteq {"linux"}
  PROVE  PlatformSpec => []RunningWitnessed
<1>1. Answered /\ platform = "linux" => RunningWitnessed
  BY DEF Answered, SaysTrue, RunningWitnessed
<1> QED BY <1>1, LinuxAnswered, PTL

\* process_wait answers 0 only for an exit that it has collected, 1 only if the
\* child was alive or no time was given, -1 only without a child or interrupted.
THEOREM LinuxWaitWitnessed ==
  ASSUME Platform \subseteq {"linux"}
  PROVE  PlatformSpec => []WaitWitnessed
<1>1. ASSUME Answered, platform = "linux", NEW c \in Caller, ret[c].op = "wait"
      PROVE  TrueWait(ret[c])
  <2>1. SaysTrue(ret[c]) /\ (Reports(ret[c]) => life[ret[c].of] = "gone")
    BY <1>1 DEF Answered
  <2>2. \/ ret[c].val = 0 /\ Collected(ret[c])
        \/ ret[c].val = 1 /\ Shows(ret[c], {"running", "stopped", "notime"})
        \/ ret[c].val = -1 /\ Shows(ret[c], {"nochild", "refused"})
    BY <1>1, <2>1 DEF SaysTrue, Reports, Collected, Field
  <2>3. TrueWait(ret[c]) <=>
          CASE ret[c].val = 0  -> Collected(ret[c])
            [] ret[c].val = 1  -> Shows(ret[c], {"running", "stopped", "notime"})
            [] ret[c].val = -1 -> Shows(ret[c], {"nochild", "refused"})
    BY Zenon DEF TrueWait
  <2>4. CASE ret[c].val = 0 /\ Collected(ret[c])
    BY <2>3, <2>4
  <2>5. CASE ret[c].val = 1 /\ Shows(ret[c], {"running", "stopped", "notime"})
    BY <2>3, <2>5
  <2>6. CASE ret[c].val = -1 /\ Shows(ret[c], {"nochild", "refused"})
    BY <2>3, <2>6
  <2> QED BY <2>2, <2>4, <2>5, <2>6
<1>2. Answered /\ platform = "linux" => WaitWitnessed
  BY <1>1 DEF WaitWitnessed
<1> QED BY <1>2, LinuxAnswered, PTL
=============================================================================
