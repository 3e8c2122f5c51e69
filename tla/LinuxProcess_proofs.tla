------------------------ MODULE LinuxProcess_proofs ------------------------
(***************************************************************************)
(* Proofs about LinuxProcess for every set of processes, pids, threads and *)
(* timeouts.                                                               *)
(***************************************************************************)
EXTENDS LinuxProcess, TLAPS

\* What a look at the table can show is always a set of known observations.
LEMMA LookType ==
  ASSUME KernelTypeOK, NEW p
  PROVE  Look(p) \subseteq Seen
BY DEF KernelTypeOK, Look, At, Kid, Present, Seen, Life

LEMMA InitTypeOK == Init => TypeOK
BY ProcTableAssumption
   DEF Holding, Init, KernelInit, TypeOK, KernelTypeOK, Life, Empty, NoSnapshot, Snapshot,
       NoAnswer, Answer, Pc, Seen, Op, Field, Read, Wait

\* The history of the calls in progress keeps its type in every step.
LEMMA ObserveType ==
  ASSUME TypeOK, KernelTypeOK', Observe
  PROVE  saw' \in [Caller -> SUBSET Seen]
<1>1. \A c \in Caller : Look(hpid[c]) \subseteq Seen
  BY LookType DEF TypeOK
<1>2. \A c \in Caller : Look(hpid[c])' \subseteq Seen
  BY DEF KernelTypeOK, Look, At, Kid, Present, Seen, Life
<1>. QED  BY <1>1, <1>2 DEF Observe, TypeOK

LEMMA ReturnType ==
  ASSUME TypeOK, NEW c \in Caller, NEW o \in Op, NEW v \in {-1, 0, 1, 2, 4, 6, 7},
         NEW q \in Proc \cup {None}, NEW why \in SUBSET Seen, Return(c, o, v, q, why)
  PROVE  /\ pc' \in [Caller -> Pc]
         /\ op' \in [Caller -> Op \cup {NoCall}]
         /\ fp' \in [Caller -> Proc \cup {None}]
         /\ elapsed' \in [Caller -> Nat]
         /\ limit' \in [Caller -> Int]
         /\ ret' \in [Caller -> Answer]
         /\ \A d \in Caller : pc'[d] \in Holding <=> fp'[d] # None
<1>1. saw[c] \cup Look(hpid[c]) \cup why \in SUBSET Seen
  BY LookType DEF TypeOK
<1>2. [op |-> o, val |-> v, of |-> q, saw |-> saw[c] \cup Look(hpid[c]) \cup why] \in Answer
  BY <1>1 DEF Answer
<1>3. "idle" \in Pc  BY DEF Pc
<1>. QED  BY <1>2, <1>3 DEF Holding, Return, TypeOK

\* The steps of the table keep its type.
LEMMA ForkType ==
  ASSUME KernelTypeOK, NEW q \in Proc, NEW p \in Pid, NEW mine \in BOOLEAN,
         Fork(q, p, mine)
  PROVE  KernelTypeOK'
<1>1. life' \in [Proc -> Life]  BY DEF KernelTypeOK, Fork, Life
<1>2. pidOf' \in [Proc -> Pid \cup {None}]  BY DEF KernelTypeOK, Fork
<1>3. ours' \in [Proc -> BOOLEAN]  BY DEF KernelTypeOK, Fork
<1>. QED  BY <1>1, <1>2, <1>3 DEF KernelTypeOK, Fork

LEMMA LifeStepType ==
  ASSUME KernelTypeOK, NEW q \in Proc,
         Exec(q) \/ Exit(q) \/ ReapedByParent(q) \/ Reap(q) \/ (\E sig : Deliver(q, sig))
  PROVE  KernelTypeOK'
<1>1. CASE Exec(q)
  BY <1>1, ProcTableAssumption DEF KernelTypeOK, Exec
<1>2. CASE Exit(q) \/ ReapedByParent(q) \/ Reap(q)
  BY <1>2 DEF KernelTypeOK, Exit, ReapedByParent, Reap, Life
<1>3. CASE \E sig : Deliver(q, sig)
  BY <1>3 DEF KernelTypeOK, Deliver, Life
<1>. QED  BY <1>1, <1>2, <1>3

LEMMA EnvironmentType ==
  ASSUME TypeOK, Environment
  PROVE  TypeOK'
<1>1. KernelTypeOK'
  <2>1. ASSUME NEW q \in Proc, NEW p \in Pid, NEW mine \in BOOLEAN, Fork(q, p, mine)
        PROVE  KernelTypeOK'
    BY <2>1, ForkType DEF TypeOK
  <2>2. ASSUME NEW q \in Proc, Exec(q) \/ Exit(q) \/ ReapedByParent(q)
        PROVE  KernelTypeOK'
    BY <2>2, LifeStepType DEF TypeOK
  <2>. QED  BY <2>1, <2>2 DEF Environment
<1>2. saw' \in [Caller -> SUBSET Seen]
  BY <1>1, ObserveType DEF Environment
<1>3. UNCHANGED <<handleVars, pc, op, fp, elapsed, limit, ret>>
  BY DEF Environment
<1>. QED
  BY <1>1, <1>2, <1>3 DEF TypeOK, handleVars

\* A call that ends and leaves the table alone keeps the type if the handle does.
LEMMA EndType ==
  ASSUME TypeOK, NEW c \in Caller, NEW o \in Op, NEW v \in {-1, 0, 1, 2, 4, 6, 7},
         NEW q \in Proc \cup {None}, NEW why \in SUBSET Seen, Return(c, o, v, q, why),
         KernelTypeOK',
         UNCHANGED <<hpid, birth, struck>>,
         cache' \in [Caller -> [Field -> Snapshot \cup {NoSnapshot}]],
         lent' \in [Caller -> SUBSET (Field \X Snapshot)],
         Observe
  PROVE  TypeOK'
<1>1. saw' \in [Caller -> SUBSET Seen]  BY ObserveType
<1>2. /\ pc' \in [Caller -> Pc]
      /\ op' \in [Caller -> Op \cup {NoCall}]
      /\ fp' \in [Caller -> Proc \cup {None}]
      /\ elapsed' \in [Caller -> Nat]
      /\ limit' \in [Caller -> Int]
      /\ ret' \in [Caller -> Answer]
      /\ \A d \in Caller : pc'[d] \in Holding <=> fp'[d] # None
  BY ReturnType
<1>3. UNCHANGED <<hpid, birth, struck>> /\ TypeOK
  OBVIOUS
<1>. QED  BY <1>1, <1>2, <1>3 DEF TypeOK

LEMMA FillType ==
  ASSUME TypeOK, NEW c \in Caller, NEW f \in Field, NEW q \in Proc, Fill(c, f, q), Observe
  PROVE  TypeOK'
<1>. DEFINE s == [of |-> q, image |-> image[q]]
<1>1. s \in Snapshot  BY DEF TypeOK, KernelTypeOK, Snapshot
<1>2. cache' \in [Caller -> [Field -> Snapshot \cup {NoSnapshot}]]
  BY <1>1 DEF TypeOK, Fill
<1>3. lent' \in [Caller -> SUBSET (Field \X Snapshot)]
  BY <1>1 DEF TypeOK, Fill
<1>4. KernelTypeOK'  BY DEF Fill, TypeOK, KernelTypeOK, kernelVars
<1>. QED  BY <1>2, <1>3, <1>4, EndType DEF Fill, Op, Seen, Life

LEMMA FailType ==
  ASSUME TypeOK, NEW c \in Caller, NEW o \in Op, NEW why \in SUBSET Seen,
         Fail(c, o, why), Observe
  PROVE  TypeOK'
<1>1. KernelTypeOK'  BY DEF Fail, TypeOK, KernelTypeOK, kernelVars
<1>2. cache' = cache /\ lent' = lent /\ UNCHANGED <<hpid, birth, struck>>
  BY DEF Fail, handleVars
<1>. QED  BY <1>1, <1>2, EndType DEF Fail, TypeOK

\* A call that goes on to another of its steps keeps the type.
LEMMA GotoType ==
  ASSUME TypeOK, NEW c \in Caller, NEW label \in Pc, NEW o \in Op,
         NEW q \in Proc \cup {None}, Goto(c, label, o, q), label \in Holding <=> q # None,
         UNCHANGED <<kernelVars, handleVars>>,
         elapsed' \in [Caller -> Nat], limit' \in [Caller -> Int], Observe
  PROVE  TypeOK'
<1>1. KernelTypeOK'  BY DEF TypeOK, KernelTypeOK, kernelVars
<1>2. saw' \in [Caller -> SUBSET Seen]  BY <1>1, ObserveType
<1>3. NoAnswer \in Answer  BY DEF NoAnswer, Answer
<1>. QED  BY <1>1, <1>2, <1>3 DEF TypeOK, Goto, handleVars

LEMMA OpenType ==
  ASSUME TypeOK, NEW c \in Caller, NEW o \in Op, OpenProcFile(c, o)
  PROVE  TypeOK'
<1>1. CASE Fail(c, o, {}) \/ Fail(c, o, Refused)
  BY <1>1, FailType DEF OpenProcFile, Refused, Seen
<1>2. CASE /\ \E q \in At(hpid[c]) : Goto(c, "reading", o, q)
           /\ UNCHANGED <<kernelVars, handleVars, elapsed, limit>>
  BY <1>2, GotoType, ProcTableAssumption DEF Holding, OpenProcFile, At, Pc, TypeOK
<1>. QED  BY <1>1, <1>2 DEF OpenProcFile

LEMMA GetterType ==
  ASSUME TypeOK, NEW c \in Caller, NEW f \in Field,
         FillIfAlive(c, f) \/ ReturnCached(c, f) \/ OpenUncached(c, f)
  PROVE  TypeOK'
<1>. f \in Op  BY DEF Op
<1>1. CASE FillIfAlive(c, f)
  <2>1. CASE \E q \in At(hpid[c]) : Alive(q) /\ Fill(c, f, q)
    BY <1>1, <2>1, FillType DEF FillIfAlive, At
  <2>2. CASE Fail(c, f, {}) \/ Fail(c, f, Refused)
    BY <1>1, <2>2, FailType DEF FillIfAlive, Refused, Seen
  <2>. QED  BY <1>1, <2>1, <2>2 DEF FillIfAlive
<1>2. CASE ReturnCached(c, f)
  <2>1. cache[c][f] \in Snapshot
    BY <1>2 DEF ReturnCached, Cached, TypeOK
  <2>2. cache[c][f].of \in Proc  BY <2>1 DEF Snapshot
  <2>3. lent' \in [Caller -> SUBSET (Field \X Snapshot)]
    BY <1>2, <2>1 DEF TypeOK, ReturnCached
  <2>4. KernelTypeOK'  BY <1>2 DEF ReturnCached, TypeOK, KernelTypeOK, kernelVars
  <2>5. Return(c, f, 1, cache[c][f].of, {}) /\ Observe
    BY <1>2 DEF ReturnCached
  <2>6. UNCHANGED <<hpid, cache, birth, struck>>
    BY <1>2 DEF ReturnCached
  <2>7. cache' \in [Caller -> [Field -> Snapshot \cup {NoSnapshot}]]
    BY <2>6 DEF TypeOK
  <2>. QED  BY <2>2, <2>3, <2>4, <2>5, <2>6, <2>7, EndType
<1>3. CASE OpenUncached(c, f)
  BY <1>3, OpenType DEF OpenUncached
<1>. QED  BY <1>1, <1>2, <1>3

LEMMA BeginType ==
  ASSUME TypeOK, NEW c \in Caller, Begin(c)
  PROVE  TypeOK'
<1>1. ASSUME NEW p \in Pid \cup {0}, ProcessNew(c, p)  PROVE TypeOK'
  <2>1. KernelTypeOK'  BY <1>1 DEF ProcessNew, TypeOK, KernelTypeOK, kernelVars
  <2>2. saw' \in [Caller -> SUBSET Seen]  BY <1>1, <2>1, ObserveType DEF ProcessNew
  <2>3. Empty \in [Field -> Snapshot \cup {NoSnapshot}]  BY DEF Empty
  <2>4. birth' \in [Caller -> Proc \cup {None}]
    BY <1>1 DEF ProcessNew, TypeOK, At
  <2>5. hpid' \in [Caller -> Pid \cup {None}]
    BY <1>1, ProcTableAssumption DEF ProcessNew, TypeOK
  <2>. QED  BY <1>1, <2>1, <2>2, <2>3, <2>4, <2>5 DEF ProcessNew, TypeOK
<1>2. CASE ProcessFree(c)
  <2>1. KernelTypeOK'  BY <1>2 DEF ProcessFree, TypeOK, KernelTypeOK, kernelVars
  <2>2. saw' \in [Caller -> SUBSET Seen]  BY <1>2, <2>1, ObserveType DEF ProcessFree
  <2>3. NoAnswer \in Answer  BY DEF NoAnswer, Answer
  <2>. QED  BY <1>2, <2>1, <2>2, <2>3 DEF ProcessFree, TypeOK
<1>3. CASE GetName(c) \/ GetExe(c) \/ GetCwd(c) \/ GetUsername(c) \/ GetCreateTime(c)
  BY <1>3, GetterType DEF GetName, GetExe, GetCwd, GetUsername, GetCreateTime, Field
<1>4. CASE GetPpid(c) \/ GetStatus(c)
  BY <1>4, OpenType DEF GetPpid, GetStatus, Op, Read
<1>5. CASE IsRunningStat(c)
  <2>. "is_running" \in Op /\ "stat_done" \in Pc /\ None \in Proc \cup {None}
    BY DEF Op, Read, Pc
  <2>1. CASE /\ Goto(c, "stat_done", "is_running", None)
             /\ UNCHANGED <<kernelVars, handleVars, elapsed, limit>>
    BY <1>5, <2>1, GotoType DEF Holding, IsRunningStat, TypeOK
  <2>2. CASE Fail(c, "is_running", {})
    BY <1>5, <2>2, FailType DEF IsRunningStat
  <2>. QED  BY <1>5, <2>1, <2>2 DEF IsRunningStat
<1>6. ASSUME NEW sig, SendSignal(c, sig)  PROVE TypeOK'
  <2>1. PICK q \in At(hpid[c]) :
           Deliver(q, sig) /\ struck' = [struck EXCEPT ![c] = @ \cup {q}]
    BY <1>6 DEF SendSignal
  <2>2. q \in Proc  BY DEF At
  <2>3. KernelTypeOK'
    BY <2>1, <2>2, LifeStepType DEF TypeOK
  <2>4. saw' \in [Caller -> SUBSET Seen]  BY <1>6, <2>3, ObserveType DEF SendSignal
  <2>5. struck' \in [Caller -> SUBSET Proc]  BY <2>1, <2>2 DEF TypeOK
  <2>. QED  BY <1>6, <2>3, <2>4, <2>5 DEF SendSignal, TypeOK
<1>7. ASSUME NEW t \in Timeouts, WaitBegin(c, t)  PROVE TypeOK'
  <2>1. elapsed' \in [Caller -> Nat] /\ limit' \in [Caller -> Int]
    BY <1>7, ProcessApiAssumption DEF WaitBegin, TypeOK
  <2>2. "wait" \in Op /\ (IF t < 0 THEN "blocked" ELSE "poll") \in Pc
    BY DEF Op, Wait, Pc
  <2>. QED  BY <1>7, <2>1, <2>2, GotoType DEF Holding, WaitBegin
<1>8. CASE WaitInterrupted(c)
  <2>1. KernelTypeOK'  BY <1>8 DEF WaitInterrupted, TypeOK, KernelTypeOK, kernelVars
  <2>. QED
    BY <1>8, <2>1, EndType DEF WaitInterrupted, handleVars, TypeOK, Op, Wait, Refused, Seen
<1>. QED
  BY <1>1, <1>2, <1>3, <1>4, <1>5, <1>6, <1>7, <1>8
     DEF Begin, Suspend, Resume, Terminate, Kill

LEMMA ContinueType ==
  ASSUME TypeOK, NEW c \in Caller, Continue(c)
  PROVE  TypeOK'
<1>. "wait" \in Op /\ "is_running" \in Op /\ "get_ppid" \in Op /\ "get_status" \in Op
  BY DEF Op, Wait, Read
<1>. Refused \in SUBSET Seen /\ NoTime \in SUBSET Seen  BY DEF Refused, NoTime, Seen
<1>1. CASE ReadField(c)
  <2>1. op[c] \in Field /\ op[c] \in Op  BY <1>1 DEF ReadField, Op
  <2>2. CASE Present(fp[c]) /\ Fill(c, op[c], fp[c])
    <3>1. fp[c] \in Proc
      BY <1>1 DEF Holding, ReadField, TypeOK
    <3>. QED  BY <1>1, <2>1, <2>2, <3>1, FillType DEF ReadField
  <2>3. CASE Fail(c, op[c], {}) \/ Fail(c, op[c], Refused)
    BY <1>1, <2>1, <2>3, FailType DEF ReadField
  <2>. QED  BY <1>1, <2>2, <2>3 DEF ReadField
<1>2. CASE ReadPpid(c) \/ ReadStatus(c) \/ IsRunningRead(c)
  <2>1. KernelTypeOK' /\ UNCHANGED handleVars /\ Observe
    BY <1>2 DEF ReadPpid, ReadStatus, IsRunningRead, TypeOK, KernelTypeOK, kernelVars
  <2>2. fp[c] \in Proc
    BY <1>2 DEF Holding, ReadPpid, ReadStatus, IsRunningRead, TypeOK
  <2>3. PICK o \in Op, v \in {-1, 0, 1, 2, 4, 6, 7}, q \in Proc \cup {None} :
            Return(c, o, v, q, {})
    BY <1>2, <2>2 DEF ReadPpid, ReadStatus, IsRunningRead, StatusCode,
                      STATUS_RUNNING, STATUS_STOPPED, STATUS_ZOMBIE
  <2>4. UNCHANGED <<hpid, cache, birth, struck, lent>>  BY <2>1 DEF handleVars
  <2>5. {} \in SUBSET Seen  OBVIOUS
  <2>6. /\ cache' \in [Caller -> [Field -> Snapshot \cup {NoSnapshot}]]
        /\ lent' \in [Caller -> SUBSET (Field \X Snapshot)]
    BY <2>4 DEF TypeOK
  <2>. QED  BY <2>1, <2>3, <2>4, <2>5, <2>6, EndType
<1>3. CASE IsRunningOpen(c)
  BY <1>3, OpenType DEF IsRunningOpen
<1>4. CASE WaitCollects(c) \/ WaitNoChild(c) \/ WaitTimesOut(c)
  <2>1. KernelTypeOK'
    <3>1. CASE WaitCollects(c)
      BY <3>1, LifeStepType DEF WaitCollects, Kid, At, TypeOK
    <3>2. CASE WaitNoChild(c) \/ WaitTimesOut(c)
      BY <3>2 DEF WaitNoChild, WaitTimesOut, TypeOK, KernelTypeOK, kernelVars
    <3>. QED  BY <1>4, <3>1, <3>2
  <2>2. UNCHANGED handleVars /\ Observe
    BY <1>4 DEF WaitCollects, WaitNoChild, WaitTimesOut
  <2>3. \E v \in {-1, 0, 1, 2, 4, 6, 7}, q \in Proc \cup {None}, why \in SUBSET Seen :
           Return(c, "wait", v, q, why)
    <3>1. CASE WaitCollects(c)
      <4>1. PICK q \in Proc : Return(c, "wait", 0, q, {})
        BY <3>1 DEF WaitCollects, Kid, At
      <4>. QED  BY <4>1
    <3>2. CASE WaitNoChild(c)
      BY <3>2 DEF WaitNoChild
    <3>3. CASE WaitTimesOut(c)
      <4>1. (IF limit[c] = 0 THEN NoTime ELSE {}) \in SUBSET Seen  BY DEF Seen, NoTime
      <4>. QED  BY <3>3, <4>1 DEF WaitTimesOut
    <3>. QED  BY <1>4, <3>1, <3>2, <3>3
  <2>4. UNCHANGED <<hpid, birth, struck>>  BY <2>2 DEF handleVars
  <2>5. /\ cache' \in [Caller -> [Field -> Snapshot \cup {NoSnapshot}]]
        /\ lent' \in [Caller -> SUBSET (Field \X Snapshot)]
    BY <2>2 DEF handleVars, TypeOK
  <2>6. PICK v \in {-1, 0, 1, 2, 4, 6, 7}, q \in Proc \cup {None}, why \in SUBSET Seen :
           Return(c, "wait", v, q, why)
    BY <2>3
  <2>7. "wait" \in Op  BY DEF Op
  <2>. QED  BY <2>1, <2>2, <2>4, <2>5, <2>6, <2>7, EndType
<1>5. CASE WaitPolls(c) \/ WaitSleeps(c)
  <2>1. KernelTypeOK'
    BY <1>5 DEF WaitPolls, WaitSleeps, TypeOK, KernelTypeOK, kernelVars
  <2>2. saw' \in [Caller -> SUBSET Seen]
    BY <1>5, <2>1, ObserveType DEF WaitPolls, WaitSleeps
  <2>3. pc' \in [Caller -> Pc]
    BY <1>5 DEF WaitPolls, WaitSleeps, TypeOK, Pc
  <2>5. elapsed' \in [Caller -> Nat]
    <3>1. elapsed[c] + 10 \in Nat  BY DEF TypeOK
    <3>. QED  BY <1>5, <3>1 DEF WaitPolls, WaitSleeps, TypeOK, PollInterval
  <2>4. \A d \in Caller : pc'[d] \in Holding <=> fp'[d] # None
    BY <1>5 DEF Holding, WaitPolls, WaitSleeps, TypeOK
  <2>. QED
    BY <1>5, <2>1, <2>2, <2>3, <2>4, <2>5 DEF WaitPolls, WaitSleeps, TypeOK, handleVars
<1>. QED
  BY <1>1, <1>2, <1>3, <1>4, <1>5 DEF Continue

\* TypeOK holds in every reachable state, whatever the constants are.
THEOREM TypeCorrect == Spec => []TypeOK
<1>1. TypeOK /\ [Next]_vars => TypeOK'
  <2>1. ASSUME TypeOK, UNCHANGED vars  PROVE TypeOK'
    BY <2>1 DEF TypeOK, KernelTypeOK, vars, kernelVars, handleVars, callVars
  <2>. QED  BY <2>1, EnvironmentType, BeginType, ContinueType DEF Next
<1>. QED  BY <1>1, InitTypeOK, PTL DEF Spec
-----------------------------------------------------------------------------
(***************************************************************************)
(* What any step may do to the table.                                      *)
(***************************************************************************)

\* A process keeps its pid, does not come back, and a step that forks one
\* process does nothing to the others.
TableStep ==
  /\ \A q \in Proc : life[q] # "unborn" =>
       /\ life'[q] # "unborn" /\ pidOf'[q] = pidOf[q]
       /\ (life'[q] \in {"running", "stopped", "zombie"} => Present(q))
       /\ (life[q] = "gone" => life'[q] = "gone")
  /\ \A q, r \in Proc : life[r] = "unborn" /\ life'[r] # "unborn" /\ q # r => life'[q] = life[q]

LEMMA ForkTable ==
  ASSUME KernelTypeOK, PidUnique, NEW q \in Proc, NEW p \in Pid, NEW mine, Fork(q, p, mine)
  PROVE  TableStep /\ PidUnique'
<1>1. TableStep  BY DEF KernelTypeOK, Fork, TableStep, Present
<1>2. PidUnique'  BY DEF KernelTypeOK, Fork, PidUnique, Present, At
<1>. QED  BY <1>1, <1>2

LEMMA LifeTable ==
  ASSUME KernelTypeOK, PidUnique, NEW q \in Proc,
         Exec(q) \/ Exit(q) \/ ReapedByParent(q) \/ Reap(q) \/ (\E sig : Deliver(q, sig))
  PROVE  TableStep /\ PidUnique'
<1>1. CASE Exec(q)
  BY <1>1 DEF KernelTypeOK, Exec, TableStep, PidUnique, Present
<1>2. CASE Exit(q) \/ ReapedByParent(q) \/ Reap(q)
  BY <1>2 DEF KernelTypeOK, Exit, ReapedByParent, Reap, TableStep, PidUnique, Present
<1>3. CASE \E sig : Deliver(q, sig)
  BY <1>3 DEF KernelTypeOK, Deliver, TableStep, PidUnique, Present
<1>. QED  BY <1>1, <1>2, <1>3

LEMMA SameTable ==
  ASSUME KernelTypeOK, PidUnique, UNCHANGED kernelVars
  PROVE  TableStep /\ PidUnique'
BY DEF KernelTypeOK, kernelVars, TableStep, PidUnique, Present

LEMMA StepTable ==
  ASSUME TypeOK, PidUnique, [Next]_vars
  PROVE  TableStep /\ PidUnique'
<1>. KernelTypeOK  BY DEF TypeOK
<1>1. CASE Environment
  BY <1>1, ForkTable, LifeTable DEF Environment
<1>2. ASSUME NEW c \in Caller, Begin(c)  PROVE TableStep /\ PidUnique'
  <2>1. ASSUME NEW sig, SendSignal(c, sig)  PROVE TableStep /\ PidUnique'
    BY <2>1, LifeTable DEF SendSignal, At
  <2>2. CASE UNCHANGED kernelVars
    BY <2>2, SameTable
  <2>. QED
    BY <1>2, <2>1, <2>2
       DEF Begin, Suspend, Resume, Terminate, Kill, ProcessNew, ProcessFree, GetName, GetExe,
           GetCwd, GetUsername, GetCreateTime, GetPpid, GetStatus, IsRunningStat, WaitBegin,
           WaitInterrupted, FillIfAlive, ReturnCached, OpenUncached, OpenProcFile, Fill, Fail
<1>3. ASSUME NEW c \in Caller, Continue(c)  PROVE TableStep /\ PidUnique'
  <2>1. CASE WaitCollects(c)
    BY <2>1, LifeTable DEF WaitCollects, Kid, At
  <2>2. CASE UNCHANGED kernelVars
    BY <2>2, SameTable
  <2>. QED
    BY <1>3, <2>1, <2>2
       DEF Continue, ReadField, ReadPpid, ReadStatus, IsRunningOpen, IsRunningRead, WaitNoChild,
           WaitPolls, WaitSleeps, WaitTimesOut, OpenProcFile, Fill, Fail
<1>4. CASE UNCHANGED vars
  BY <1>4, SameTable DEF vars
<1>. QED  BY <1>1, <1>2, <1>3, <1>4 DEF Next

-----------------------------------------------------------------------------
(***************************************************************************)
(* A step leaves sound what it does not touch.                             *)
(***************************************************************************)
LEMMA LookAfterObserve ==
  ASSUME TypeOK, Observe, NEW d \in Caller, pc'[d] # "idle"
  PROVE  /\ Look(hpid[d])' \subseteq saw'[d]
         /\ Look(hpid[d]) \subseteq saw'[d]
         /\ saw[d] \subseteq saw'[d]
BY DEF Observe

LEMMA UntouchedHandle ==
  ASSUME TypeOK, TableStep, NEW d \in Caller, HandleSound(d),
         UNCHANGED <<hpid[d], birth[d], cache[d], lent[d], struck[d], fp[d], pc[d]>>
  PROVE  HandleSound(d)'
BY DEF TypeOK, TableStep, HandleSound, Present

LEMMA UntouchedLent ==
  ASSUME NEW d \in Caller, LentSound(d), UNCHANGED <<cache[d], lent[d], pc[d], op[d]>>
  PROVE  LentSound(d)'
BY DEF LentSound

LEMMA UntouchedFile ==
  ASSUME TypeOK, PidUnique, TableStep, Observe, NEW d \in Caller, FileSound(d),
         UNCHANGED <<hpid[d], fp[d], pc[d]>>
  PROVE  FileSound(d)'
<1>1. CASE fp[d] = None
  BY <1>1, LookAfterObserve DEF FileSound
<1>2. CASE fp[d] # None
  <2>1. fp[d] \in Proc /\ pc[d] # "idle" /\ pc'[d] # "idle"
    BY <1>2 DEF Holding, TypeOK
  <2>2. Look(hpid[d])' \subseteq saw'[d] /\ saw[d] \subseteq saw'[d]
    BY <2>1, LookAfterObserve
  <2>3. life'[fp[d]] # "unborn" /\ pidOf'[fp[d]] = hpid'[d]
    BY <1>2, <2>1 DEF FileSound, TableStep
  <2>4. CASE Present(fp[d]) /\ ~Present(fp[d])'
    <3>1. \A r \in Proc : ~(Present(r)' /\ pidOf'[r] = hpid[d])
      BY <1>2, <2>1, <2>4 DEF FileSound, TableStep, PidUnique, Present
    <3>2. At(hpid[d])' = {}
      BY <3>1 DEF At
    <3>3. "absent" \in Look(hpid[d])'
      BY <3>2 DEF Look
    <3>. QED  BY <2>2, <2>3, <3>3 DEF FileSound
  <2>. QED  BY <1>2, <2>2, <2>3, <2>4 DEF FileSound
<1>. QED  BY <1>1, <1>2
-----------------------------------------------------------------------------
(***************************************************************************)
(* The inductive invariant of handles and calls.                           *)
(***************************************************************************)
Sound(d) == HandleSound(d) /\ LentSound(d) /\ FileSound(d)

LEMMA UntouchedCaller ==
  ASSUME TypeOK, PidUnique, TableStep, Observe, NEW d \in Caller, Sound(d),
         UNCHANGED <<hpid[d], birth[d], cache[d], lent[d], struck[d], fp[d], pc[d], op[d]>>
  PROVE  Sound(d)'
BY UntouchedHandle, UntouchedLent, UntouchedFile DEF Sound

\* Whoever is at the pid of a handle is the process the handle was made for, if
\* that one is still in the table.
LEMMA OccupantIsBirth ==
  ASSUME TypeOK, PidUnique, NEW c \in Caller, HandleSound(c), NEW q \in At(hpid[c]),
         birth[c] # None, Present(birth[c])
  PROVE  q = birth[c]
<1>1. birth[c] \in Proc  BY DEF TypeOK
<1>2. pidOf[birth[c]] = hpid[c]  BY DEF HandleSound
<1>3. q \in Proc /\ Present(q) /\ pidOf[q] = hpid[c]  BY DEF At
<1>. QED  BY <1>1, <1>2, <1>3 DEF PidUnique

\* A call that ends and leaves the handle as it was.
LEMMA EndSound ==
  ASSUME TypeOK, CallsSound, TableStep, PidUnique', Observe, NEW c \in Caller,
         NEW o, NEW v, NEW q, NEW why, Return(c, o, v, q, why), UNCHANGED handleVars
  PROVE  CallsSound'
<1>1. ASSUME NEW d \in Caller, d # c  PROVE Sound(d)'
  <2>1. UNCHANGED <<hpid[d], birth[d], cache[d], lent[d], struck[d], fp[d], pc[d], op[d]>>
    BY <1>1 DEF Return, handleVars, TypeOK
  <2>. QED  BY <1>1, <2>1, UntouchedCaller DEF CallsSound, Sound
<1>2. Sound(c)'
  <2>1. pc'[c] = "idle" /\ fp'[c] = None  BY DEF Return, TypeOK
  <2>2. HandleSound(c)'
    BY <2>1 DEF handleVars, TypeOK, CallsSound, HandleSound, TableStep, Present
  <2>3. LentSound(c)'
    BY <2>1 DEF handleVars, CallsSound, LentSound
  <2>4. FileSound(c)'
    BY <2>1 DEF FileSound
  <2>. QED  BY <2>2, <2>3, <2>4 DEF Sound
<1>. QED  BY <1>1, <1>2 DEF CallsSound, Sound

\* A getter that fills an empty field from a process: if the one the handle was
\* made for is still there, it must be that one.
LEMMA FillSound ==
  ASSUME TypeOK, CallsSound, Observe, NEW c \in Caller, NEW f \in Field, NEW q \in Proc,
         Fill(c, f, q), cache[c][f] = NoSnapshot, hpid[c] # None,
         birth[c] # None /\ Present(birth[c]) => q = birth[c]
  PROVE  CallsSound'
<1>1. TableStep /\ PidUnique'
  BY SameTable DEF Fill, CallsSound, TypeOK
<1>2. ASSUME NEW d \in Caller, d # c  PROVE Sound(d)'
  <2>1. UNCHANGED <<hpid[d], birth[d], cache[d], lent[d], struck[d], fp[d], pc[d], op[d]>>
    BY <1>2 DEF Fill, Return, TypeOK
  <2>. QED  BY <1>1, <1>2, <2>1, UntouchedCaller DEF CallsSound, Sound
<1>. DEFINE s == [of |-> q, image |-> image[q]]
<1>3. /\ pc'[c] = "idle" /\ fp'[c] = None
      /\ cache'[c] = [cache[c] EXCEPT ![f] = s]
      /\ lent'[c] = lent[c] \cup {<<f, s>>}
      /\ UNCHANGED <<hpid, birth, struck>>
  BY DEF Fill, Return, TypeOK
<1>4. HandleSound(c)'
  <2>1. \A g \in Field : cache'[c][g].of = (IF g = f THEN q ELSE cache[c][g].of)
    BY <1>3 DEF TypeOK
  <2>2. birth'[c] # None /\ Present(birth[c])' => Present(birth[c]) /\ birth[c] # None
    BY <1>3 DEF Fill, kernelVars, Present
  <2>3. birth'[c] # None /\ Present(birth[c])' =>
           \A g \in Field : cache'[c][g].of \in {None, birth'[c]}
    BY <1>3, <2>1, <2>2 DEF CallsSound, HandleSound
  <2>. QED
    BY <1>3, <2>2, <2>3 DEF TypeOK, CallsSound, HandleSound, Fill, kernelVars
<1>5. LentSound(c)'
  <2>1. \A l \in lent[c] : l[1] \in Field /\ l[1] # f /\ cache[c][l[1]] = l[2]
    BY ProcTableAssumption DEF TypeOK, CallsSound, LentSound, Snapshot, NoSnapshot
  <2>2. \A l \in lent'[c] : cache'[c][l[1]] = l[2]
    BY <1>3, <2>1 DEF TypeOK
  <2>. QED  BY <1>3, <2>2 DEF LentSound
<1>6. FileSound(c)'
  BY <1>3 DEF FileSound
<1>. QED  BY <1>1, <1>2, <1>4, <1>5, <1>6 DEF CallsSound, Sound

LEMMA FailSound ==
  ASSUME TypeOK, CallsSound, Observe, NEW c \in Caller, NEW o, NEW why, Fail(c, o, why)
  PROVE  CallsSound'
<1>1. TableStep /\ PidUnique'  BY SameTable DEF Fail, CallsSound, TypeOK
<1>. QED  BY <1>1, EndSound DEF Fail

\* A call that goes on without an open file.
LEMMA GotoSound ==
  ASSUME TypeOK, CallsSound, Observe, NEW c \in Caller, NEW label, NEW o,
         Goto(c, label, o, None), label \notin Holding \cup {"idle"}, hpid[c] # None,
         UNCHANGED <<kernelVars, handleVars>>
  PROVE  CallsSound'
<1>1. TableStep /\ PidUnique'  BY SameTable DEF CallsSound, TypeOK
<1>2. ASSUME NEW d \in Caller, d # c  PROVE Sound(d)'
  <2>1. UNCHANGED <<hpid[d], birth[d], cache[d], lent[d], struck[d], fp[d], pc[d], op[d]>>
    BY <1>2 DEF Goto, handleVars, TypeOK
  <2>. QED  BY <1>1, <1>2, <2>1, UntouchedCaller DEF CallsSound, Sound
<1>3. pc'[c] = label /\ fp'[c] = None  BY DEF Goto, TypeOK
<1>4. HandleSound(c)'
  <2>1. UNCHANGED <<hpid[c], birth[c], cache[c], lent[c], struck[c]>> /\ birth[c] \in Proc \cup {None}
    BY DEF handleVars, TypeOK
  <2>2. HandleSound(c)  BY DEF CallsSound, Sound
  <2>3. birth[c] # None => birth[c] \in Proc  BY <2>1
  <2>. QED  BY <1>1, <1>3, <2>1, <2>2, <2>3 DEF HandleSound, TableStep, Present
<1>5. LentSound(c)'  BY <1>3 DEF Holding, handleVars, CallsSound, LentSound
<1>6. FileSound(c)'  BY <1>3, LookAfterObserve DEF FileSound
<1>. QED  BY <1>1, <1>2, <1>4, <1>5, <1>6 DEF CallsSound, Sound

\* Opening a file: whoever is at the pid is the process the handle was made
\* for, if that one is still there.
LEMMA OpenSound ==
  ASSUME TypeOK, CallsSound, NEW c \in Caller, NEW o \in Op, hpid[c] # None,
         o \in Field => cache[c][o] = NoSnapshot, OpenProcFile(c, o)
  PROVE  CallsSound'
<1>1. CASE Fail(c, o, {}) \/ Fail(c, o, Refused)
  BY <1>1, FailSound DEF OpenProcFile
<1>2. ASSUME NEW q \in At(hpid[c]), Goto(c, "reading", o, q),
             UNCHANGED <<kernelVars, handleVars, elapsed, limit>>, Observe
      PROVE  CallsSound'
  <2>1. TableStep /\ PidUnique'  BY <1>2, SameTable DEF CallsSound, TypeOK
  <2>2. ASSUME NEW d \in Caller, d # c  PROVE Sound(d)'
    <3>1. UNCHANGED <<hpid[d], birth[d], cache[d], lent[d], struck[d], fp[d], pc[d], op[d]>>
      BY <1>2, <2>2 DEF Goto, handleVars, TypeOK
    <3>. QED  BY <1>2, <2>1, <2>2, <3>1, UntouchedCaller DEF CallsSound, Sound
  <2>3. pc'[c] = "reading" /\ fp'[c] = q /\ op'[c] = o
    BY <1>2 DEF Goto, TypeOK
  <2>4. q \in Proc /\ Present(q) /\ pidOf[q] = hpid[c]  BY DEF At
  <2>5. birth[c] # None /\ Present(birth[c]) => q = birth[c]
    BY OccupantIsBirth DEF CallsSound
  <2>6. HandleSound(c)'
    BY <1>2, <2>1, <2>3, <2>5 DEF handleVars, kernelVars, TypeOK, CallsSound, HandleSound, Present
  <2>7. LentSound(c)'
    BY <1>2, <2>3 DEF handleVars, CallsSound, LentSound
  <2>8. FileSound(c)'
    BY <1>2, <2>3, <2>4, LookAfterObserve DEF FileSound, handleVars, kernelVars, Present
  <2>. QED  BY <2>1, <2>2, <2>6, <2>7, <2>8 DEF CallsSound, Sound
<1>. QED  BY <1>1, <1>2 DEF OpenProcFile

LEMMA GetterSound ==
  ASSUME TypeOK, CallsSound, NEW c \in Caller, NEW f \in Field,
         FillIfAlive(c, f) \/ ReturnCached(c, f) \/ OpenUncached(c, f)
  PROVE  CallsSound'
<1>1. CASE FillIfAlive(c, f)
  <2>1. ASSUME NEW q \in At(hpid[c]), Fill(c, f, q)  PROVE CallsSound'
    <3>1. q \in Proc /\ Present(q) /\ pidOf[q] = hpid[c]  BY DEF At
    <3>2. birth[c] # None /\ Present(birth[c]) => q = birth[c]
      BY OccupantIsBirth DEF CallsSound
    <3>. QED  BY <1>1, <2>1, <3>1, <3>2, FillSound DEF FillIfAlive, MayCall, Cached
  <2>2. CASE Fail(c, f, {}) \/ Fail(c, f, Refused)
    BY <1>1, <2>2, FailSound DEF FillIfAlive
  <2>. QED  BY <1>1, <2>1, <2>2 DEF FillIfAlive
<1>2. CASE ReturnCached(c, f)
  <2>1. TableStep /\ PidUnique'  BY <1>2, SameTable DEF ReturnCached, CallsSound, TypeOK
  <2>2. ASSUME NEW d \in Caller, d # c  PROVE Sound(d)'
    <3>1. UNCHANGED <<hpid[d], birth[d], cache[d], lent[d], struck[d], fp[d], pc[d], op[d]>>
      BY <1>2, <2>2 DEF ReturnCached, Return, TypeOK
    <3>. QED  BY <1>2, <2>1, <2>2, <3>1, UntouchedCaller DEF ReturnCached, CallsSound, Sound
  <2>3. /\ pc'[c] = "idle" /\ fp'[c] = None /\ UNCHANGED <<hpid, cache, birth, struck>>
        /\ lent'[c] = lent[c] \cup {<<f, cache[c][f]>>} /\ hpid[c] # None
    BY <1>2 DEF ReturnCached, Return, MayCall, TypeOK
  <2>4. HandleSound(c)'
    BY <2>1, <2>3 DEF TypeOK, CallsSound, HandleSound, TableStep, Present
  <2>5. LentSound(c)'  BY <2>3 DEF CallsSound, LentSound
  <2>6. FileSound(c)'  BY <2>3 DEF FileSound
  <2>. QED  BY <2>1, <2>2, <2>4, <2>5, <2>6 DEF CallsSound, Sound
<1>3. CASE OpenUncached(c, f)
  BY <1>3, OpenSound DEF OpenUncached, MayCall, Cached, Op
<1>. QED  BY <1>1, <1>2, <1>3
LEMMA BeginSound ==
  ASSUME TypeOK, CallsSound, NEW c \in Caller, Begin(c)
  PROVE  CallsSound'
<1>1. ASSUME NEW p \in Pid \cup {0}, ProcessNew(c, p)  PROVE CallsSound'
  <2>1. TableStep /\ PidUnique'  BY <1>1, SameTable DEF ProcessNew, CallsSound, TypeOK
  <2>2. ASSUME NEW d \in Caller, d # c  PROVE Sound(d)'
    <3>1. UNCHANGED <<hpid[d], birth[d], cache[d], lent[d], struck[d], fp[d], pc[d], op[d]>>
      BY <1>1, <2>2 DEF ProcessNew, TypeOK
    <3>. QED  BY <1>1, <2>1, <2>2, <3>1, UntouchedCaller DEF ProcessNew, CallsSound, Sound
  <2>. DEFINE target == IF p = 0 THEN SelfPid ELSE p
  <2>3. PICK b \in IF At(target) = {} THEN {None} ELSE At(target) :
           birth' = [birth EXCEPT ![c] = b]
    BY <1>1 DEF ProcessNew
  <2>4. b # None => b \in Proc /\ Present(b) /\ pidOf[b] = target
    BY <2>3 DEF At
  <2>5. /\ pc'[c] = "idle" /\ fp'[c] = None /\ hpid'[c] = target /\ cache'[c] = Empty
        /\ birth'[c] = b /\ lent'[c] = {} /\ struck'[c] = {} /\ UNCHANGED kernelVars
    BY <1>1, <2>3 DEF Holding, ProcessNew, CallsSound, HandleSound, TypeOK
  <2>6. target # None  BY ProcTableAssumption
  <2>7. HandleSound(c)'
    BY <2>4, <2>5, <2>6 DEF HandleSound, Empty, NoSnapshot, kernelVars, Present
  <2>8. LentSound(c)' /\ FileSound(c)'  BY <2>5 DEF LentSound, FileSound
  <2>. QED  BY <2>1, <2>2, <2>7, <2>8 DEF CallsSound, Sound
<1>2. CASE ProcessFree(c)
  <2>1. TableStep /\ PidUnique'  BY <1>2, SameTable DEF ProcessFree, CallsSound, TypeOK
  <2>2. ASSUME NEW d \in Caller, d # c  PROVE Sound(d)'
    <3>1. UNCHANGED <<hpid[d], birth[d], cache[d], lent[d], struck[d], fp[d], pc[d], op[d]>>
      BY <1>2, <2>2 DEF ProcessFree, TypeOK
    <3>. QED  BY <1>2, <2>1, <2>2, <3>1, UntouchedCaller DEF ProcessFree, CallsSound, Sound
  <2>3. /\ pc'[c] = "idle" /\ fp'[c] = None /\ hpid'[c] = None
        /\ birth'[c] = None /\ lent'[c] = {} /\ struck'[c] = {}
    BY <1>2 DEF Holding, ProcessFree, TypeOK
  <2>4. HandleSound(c)' /\ LentSound(c)' /\ FileSound(c)'
    BY <2>3 DEF HandleSound, LentSound, FileSound
  <2>. QED  BY <2>1, <2>2, <2>4 DEF CallsSound, Sound
<1>3. CASE GetName(c) \/ GetExe(c) \/ GetCwd(c) \/ GetUsername(c) \/ GetCreateTime(c)
  BY <1>3, GetterSound DEF GetName, GetExe, GetCwd, GetUsername, GetCreateTime, Field
<1>4. CASE GetPpid(c) \/ GetStatus(c)
  BY <1>4, OpenSound DEF GetPpid, GetStatus, MayCall, Op, Read, Field
<1>5. CASE IsRunningStat(c)
  <2>1. CASE Fail(c, "is_running", {})
    BY <1>5, <2>1, FailSound DEF IsRunningStat
  <2>2. CASE Goto(c, "stat_done", "is_running", None) /\ UNCHANGED <<kernelVars, handleVars>>
    BY <1>5, <2>2, GotoSound DEF Holding, IsRunningStat, MayCall
  <2>. QED  BY <1>5, <2>1, <2>2 DEF IsRunningStat
<1>6. ASSUME NEW sig, SendSignal(c, sig)  PROVE CallsSound'
  <2>1. PICK q \in At(hpid[c]) :
           Deliver(q, sig) /\ struck' = [struck EXCEPT ![c] = @ \cup {q}]
    BY <1>6 DEF SendSignal
  <2>2. q \in Proc /\ Present(q) /\ pidOf[q] = hpid[c]  BY DEF At
  <2>3. TableStep /\ PidUnique'  BY <2>1, <2>2, LifeTable DEF CallsSound, TypeOK
  <2>4. birth[c] # None /\ Present(birth[c]) => q = birth[c]
    BY OccupantIsBirth DEF CallsSound
  <2>5. ASSUME NEW d \in Caller, d # c  PROVE Sound(d)'
    <3>1. UNCHANGED <<hpid[d], birth[d], cache[d], lent[d], struck[d], fp[d], pc[d], op[d]>>
      BY <1>6, <2>1, <2>5 DEF SendSignal, TypeOK
    <3>. QED  BY <1>6, <2>3, <2>5, <3>1, UntouchedCaller DEF SendSignal, CallsSound, Sound
  <2>6. /\ UNCHANGED <<hpid, cache, birth, lent, pc, op, fp>> /\ Observe
        /\ struck'[c] = struck[c] \cup {q} /\ pc[c] = "idle" /\ hpid[c] # None
    BY <1>6, <2>1 DEF SendSignal, MayCall, TypeOK
  <2>7. HandleSound(c)'
    BY <2>3, <2>4, <2>6 DEF TypeOK, CallsSound, HandleSound, TableStep, Present
  <2>8. LentSound(c)'  BY <2>6 DEF CallsSound, LentSound
  <2>9. FileSound(c)'  BY <2>6 DEF Holding, FileSound, TypeOK
  <2>. QED  BY <2>3, <2>5, <2>7, <2>8, <2>9 DEF CallsSound, Sound
<1>7. ASSUME NEW t \in Timeouts, WaitBegin(c, t)  PROVE CallsSound'
  BY <1>7, GotoSound DEF Holding, WaitBegin, MayCall
<1>8. CASE WaitInterrupted(c)
  BY <1>8, EndSound, SameTable DEF WaitInterrupted, CallsSound, TypeOK
<1>. QED
  BY <1>1, <1>2, <1>3, <1>4, <1>5, <1>6, <1>7, <1>8
     DEF Begin, Suspend, Resume, Terminate, Kill

LEMMA ContinueSound ==
  ASSUME TypeOK, CallsSound, NEW c \in Caller, Continue(c)
  PROVE  CallsSound'
<1>1. CASE ReadField(c)
  <2>1. /\ op[c] \in Field /\ pc[c] = "reading" /\ fp[c] # None /\ fp[c] \in Proc
        /\ cache[c][op[c]] = NoSnapshot /\ hpid[c] # None
    BY <1>1 DEF Holding, ReadField, TypeOK, CallsSound, LentSound, HandleSound
  <2>2. CASE Present(fp[c]) /\ Fill(c, op[c], fp[c])
    <3>1. birth[c] # None /\ Present(birth[c]) => fp[c] = birth[c]
      BY <2>1 DEF CallsSound, HandleSound
    <3>. QED  BY <1>1, <2>1, <2>2, <3>1, FillSound DEF ReadField
  <2>3. CASE Fail(c, op[c], {}) \/ Fail(c, op[c], Refused)
    BY <1>1, <2>3, FailSound DEF ReadField
  <2>. QED  BY <1>1, <2>2, <2>3 DEF ReadField
<1>2. CASE \/ ReadPpid(c) \/ ReadStatus(c) \/ IsRunningRead(c) \/ WaitNoChild(c)
           \/ WaitTimesOut(c)
  <2>1. /\ UNCHANGED <<kernelVars, handleVars>> /\ Observe
        /\ \E o, v, q, why : Return(c, o, v, q, why)
    BY <1>2 DEF ReadPpid, ReadStatus, IsRunningRead, WaitNoChild, WaitTimesOut
  <2>. QED  BY <2>1, EndSound, SameTable DEF CallsSound, TypeOK
<1>3. CASE IsRunningOpen(c)
  <2>1. hpid[c] # None  BY <1>3 DEF IsRunningOpen, CallsSound, HandleSound
  <2>. QED  BY <1>3, <2>1, OpenSound DEF IsRunningOpen, Op, Read, Field
<1>4. CASE WaitCollects(c)
  <2>1. TableStep /\ PidUnique'
    BY <1>4, LifeTable DEF WaitCollects, Kid, At, CallsSound, TypeOK
  <2>. QED  BY <1>4, <2>1, EndSound DEF WaitCollects
<1>5. CASE WaitPolls(c) \/ WaitSleeps(c)
  <2>1. TableStep /\ PidUnique'
    BY <1>5, SameTable DEF WaitPolls, WaitSleeps, CallsSound, TypeOK
  <2>2. /\ UNCHANGED <<kernelVars, handleVars, op, fp>> /\ Observe
        /\ \A d \in Caller : d # c => pc'[d] = pc[d]
        /\ pc[c] \in {"poll", "sleep"} /\ pc'[c] \in {"poll", "sleep"}
    BY <1>5 DEF WaitPolls, WaitSleeps, TypeOK
  <2>3. ASSUME NEW d \in Caller, d # c  PROVE Sound(d)'
    BY <2>1, <2>2, <2>3, UntouchedCaller DEF handleVars, CallsSound, Sound
  <2>4. fp[c] = None /\ fp'[c] = None  BY <2>2 DEF Holding, TypeOK
  <2>5. HandleSound(c)'
    BY <2>1, <2>2, <2>4 DEF handleVars, TypeOK, CallsSound, HandleSound, TableStep, Present
  <2>6. LentSound(c)'  BY <2>2 DEF handleVars, CallsSound, LentSound
  <2>7. FileSound(c)'  BY <2>2, <2>4, LookAfterObserve DEF FileSound
  <2>. QED  BY <2>1, <2>3, <2>5, <2>6, <2>7 DEF CallsSound, Sound
<1>. QED  BY <1>1, <1>2, <1>3, <1>4, <1>5 DEF Continue

LEMMA EnvironmentSound ==
  ASSUME TypeOK, CallsSound, Environment
  PROVE  CallsSound'
<1>1. TableStep /\ PidUnique'  BY StepTable DEF CallsSound, Next
<1>2. UNCHANGED <<handleVars, pc, op, fp>> /\ Observe  BY DEF Environment
<1>3. ASSUME NEW d \in Caller  PROVE Sound(d)'
  BY <1>1, <1>2, UntouchedCaller DEF handleVars, CallsSound, Sound
<1>. QED  BY <1>1, <1>3 DEF CallsSound, Sound

LEMMA CallsSoundCorrect == Spec => []CallsSound
<1>1. Init => CallsSound
  BY ProcTableAssumption
     DEF Init, KernelInit, CallsSound, PidUnique, Present, HandleSound, LentSound, FileSound
<1>2. TypeOK /\ CallsSound /\ [Next]_vars => CallsSound'
  <2>1. ASSUME TypeOK, CallsSound, UNCHANGED vars  PROVE CallsSound'
    <3>1. TableStep /\ PidUnique'  BY <2>1, SameTable DEF vars, CallsSound, TypeOK
    <3>. QED
      BY <2>1, <3>1 DEF vars, kernelVars, handleVars, callVars, CallsSound, HandleSound,
                        LentSound, FileSound, Present, Look, At, Kid
  <2>. QED  BY <2>1, EnvironmentSound, BeginSound, ContinueSound DEF Next
<1>. QED  BY <1>1, <1>2, TypeCorrect, PTL DEF Spec

\* While the process a handle was made for is in the table, the handle caches
\* and signals no other process, whatever the pids are reused for.
THEOREM HandlesKeepIdentity == Spec => []HandleIdentity
<1>1. CallsSound => HandleIdentity
  BY DEF CallsSound, HandleSound, HandleIdentity
<1>. QED  BY <1>1, CallsSoundCorrect, PTL

\* A string returned by a getter stays valid until process_free.
THEOREM StringsStayLent == Spec => []LentStringsLive
<1>1. CallsSound => LentStringsLive
  BY DEF CallsSound, LentSound, LentStringsLive
<1>. QED  BY <1>1, CallsSoundCorrect, PTL
-----------------------------------------------------------------------------
(***************************************************************************)
(* The loop of process_wait.                                               *)
(***************************************************************************)
InWait(c) ==
  /\ WaitSound(c)
  /\ pc[c] \in {"poll", "sleep"} =>
       /\ limit[c] >= 0 /\ elapsed[c] < limit[c] + PollInterval
       /\ elapsed[c] % PollInterval = 0

\* A caller that is not in the loop, or has not moved in it.
LEMMA WaitUntouched ==
  ASSUME TypeOK, Observe, NEW d \in Caller, InWait(d),
         pc'[d] \in {"poll", "sleep"} => UNCHANGED <<pc[d], elapsed[d], limit[d]>>
  PROVE  InWait(d)'
<1>1. CASE pc'[d] \in {"poll", "sleep"}
  <2>1. saw[d] \subseteq saw'[d]  BY <1>1, LookAfterObserve
  <2>. QED  BY <1>1, <2>1 DEF InWait, WaitSound
<1>2. CASE pc'[d] \notin {"poll", "sleep"}
  BY <1>2 DEF InWait, WaitSound
<1>. QED  BY <1>1, <1>2

LEMMA LookShows ==
  ASSUME NEW p, NEW q \in At(p)
  PROVE  life[q] \in Look(p) /\ q \in Proc /\ Present(q)
BY DEF Look, At

LEMMA WaitStep ==
  ASSUME TypeOK, \A d \in Caller : InWait(d), [Next]_vars
  PROVE  \A d \in Caller : InWait(d)'
<1>1. CASE Environment
  BY <1>1, WaitUntouched DEF Environment
<1>2. ASSUME NEW c \in Caller, Begin(c)  PROVE \A d \in Caller : InWait(d)'
  <2>1. ASSUME NEW t \in Timeouts, WaitBegin(c, t)  PROVE \A d \in Caller : InWait(d)'
    <3>1. ASSUME NEW d \in Caller, d # c  PROVE InWait(d)'
      BY <2>1, <3>1, WaitUntouched DEF WaitBegin, Goto, TypeOK
    <3>2. InWait(c)'
      <4>1. pc'[c] = (IF t < 0 THEN "blocked" ELSE "poll") /\ elapsed'[c] = 0 /\ limit'[c] = t
        BY <2>1 DEF WaitBegin, Goto, TypeOK
      <4>2. t \in Int  BY ProcessApiAssumption
      <4>. QED  BY <4>1, <4>2 DEF InWait, WaitSound, PollInterval
    <3>. QED  BY <3>1, <3>2
  <2>2. CASE \/ \E p \in Pid \cup {0} : ProcessNew(c, p)
             \/ ProcessFree(c) \/ \E sig : SendSignal(c, sig)
    BY <2>2, WaitUntouched DEF ProcessNew, ProcessFree, SendSignal
  <2>3. CASE \/ \E o, q : Goto(c, "reading", o, q) \/ Goto(c, "stat_done", o, q)
             \/ \E o, v, q, why : Return(c, o, v, q, why)
    <3>1. Observe
      BY <1>2, SMTT(20)
         DEF Begin, Suspend, Resume, Terminate, Kill, SendSignal, ProcessNew, ProcessFree,
             GetName, GetExe, GetCwd, GetUsername, GetCreateTime, GetPpid, GetStatus,
             IsRunningStat, WaitBegin, WaitInterrupted, FillIfAlive, ReturnCached,
             OpenUncached, OpenProcFile
    <3>2. pc'[c] \notin {"poll", "sleep"}
      BY <2>3 DEF Goto, Return, TypeOK
    <3>3. \A d \in Caller : d # c => pc'[d] = pc[d]
      BY <2>3 DEF Goto, Return, TypeOK
    <3>4. \A d \in Caller : d # c => elapsed'[d] = elapsed[d] /\ limit'[d] = limit[d]
      BY <1>2 DEF Begin, Suspend, Resume, Terminate, Kill, SendSignal, ProcessNew, ProcessFree,
           GetName, GetExe, GetCwd, GetUsername, GetCreateTime, GetPpid, GetStatus, IsRunningStat,
           WaitBegin, WaitInterrupted, FillIfAlive, ReturnCached, OpenUncached, OpenProcFile, Fill,
           Fail, Return, TypeOK
    <3>. QED  BY <3>1, <3>2, <3>3, <3>4, WaitUntouched
  <2>. QED
    BY <1>2, <2>1, <2>2, <2>3
       DEF Begin, Suspend, Resume, Terminate, Kill, GetName, GetExe, GetCwd, GetUsername,
           GetCreateTime, GetPpid, GetStatus, IsRunningStat, WaitInterrupted, FillIfAlive,
           ReturnCached, OpenUncached, OpenProcFile, Fill, Fail
<1>3. ASSUME NEW c \in Caller, Continue(c)  PROVE \A d \in Caller : InWait(d)'
  <2>1. CASE WaitPolls(c)
    <3>1. ASSUME NEW d \in Caller, d # c  PROVE InWait(d)'
      BY <2>1, <3>1, WaitUntouched DEF WaitPolls, TypeOK
    <3>2. PICK q \in Kid(hpid[c]) : Alive(q)  BY <2>1 DEF WaitPolls
    <3>3. life[q] \in Look(hpid[c]) /\ life[q] \in {"running", "stopped"}
      BY <3>2, LookShows DEF Kid, Alive
    <3>4. pc'[c] = "sleep" /\ pc[c] = "poll" /\ elapsed[c] < limit[c]
          /\ UNCHANGED <<elapsed, limit>> /\ Observe
      BY <2>1 DEF WaitPolls, TypeOK
    <3>5. Look(hpid[c]) \subseteq saw'[c]  BY <3>4, LookAfterObserve
    <3>6. InWait(c)'
      BY <3>3, <3>4, <3>5 DEF InWait, WaitSound
    <3>. QED  BY <3>1, <3>6
  <2>2. CASE WaitSleeps(c)
    <3>1. ASSUME NEW d \in Caller, d # c  PROVE InWait(d)'
      BY <2>2, <3>1, WaitUntouched DEF WaitSleeps, TypeOK
    <3>2. pc'[c] = "poll" /\ pc[c] = "sleep" /\ elapsed'[c] = elapsed[c] + 10
          /\ UNCHANGED limit /\ Observe
      BY <2>2 DEF WaitSleeps, PollInterval, TypeOK
    <3>3. saw[c] \subseteq saw'[c]  BY <3>2, LookAfterObserve
    <3>4. elapsed[c] \in Nat /\ limit[c] \in Int  BY DEF TypeOK
    <3>5. (elapsed[c] + 10) % 10 = elapsed[c] % 10  BY <3>4
    <3>6. InWait(c)'
      BY <3>2, <3>3, <3>4, <3>5 DEF InWait, WaitSound, PollInterval
    <3>. QED  BY <3>1, <3>6
  <2>3. CASE \/ ReadField(c) \/ ReadPpid(c) \/ ReadStatus(c) \/ IsRunningOpen(c)
             \/ IsRunningRead(c) \/ WaitCollects(c) \/ WaitNoChild(c) \/ WaitTimesOut(c)
    <3>1. \/ \E o, q : Goto(c, "reading", o, q)
          \/ \E o, v, q, why : Return(c, o, v, q, why)
      BY <2>3 DEF ReadField, ReadPpid, ReadStatus, IsRunningOpen, IsRunningRead, WaitCollects,
                  WaitNoChild, WaitTimesOut, OpenProcFile, Fill, Fail
    <3>2. Observe
      BY <2>3 DEF ReadField, ReadPpid, ReadStatus, IsRunningOpen, IsRunningRead, WaitCollects,
                  WaitNoChild, WaitTimesOut, OpenProcFile
    <3>3. pc'[c] \notin {"poll", "sleep"} /\ \A d \in Caller : d # c => pc'[d] = pc[d]
      BY <3>1 DEF Goto, Return, TypeOK
    <3>4. \A d \in Caller : d # c => elapsed'[d] = elapsed[d] /\ limit'[d] = limit[d]
      BY <2>3 DEF ReadField, ReadPpid, ReadStatus, IsRunningOpen, IsRunningRead, WaitCollects,
                  WaitNoChild, WaitTimesOut, OpenProcFile, Fill, Fail, Return, TypeOK
    <3>. QED  BY <3>2, <3>3, <3>4, WaitUntouched
  <2>. QED  BY <1>3, <2>1, <2>2, <2>3 DEF Continue
<1>4. CASE UNCHANGED vars
  BY <1>4 DEF vars, callVars, InWait, WaitSound
<1>. QED  BY <1>1, <1>2, <1>3, <1>4 DEF Next

LEMMA WaitLoopCorrect == Spec => [](\A c \in Caller : InWait(c))
<1>1. Init => \A c \in Caller : InWait(c)
  BY DEF Init, InWait, WaitSound
<1>2. TypeOK /\ (\A c \in Caller : InWait(c)) /\ [Next]_vars => (\A c \in Caller : InWait(c))'
  BY WaitStep
<1>. QED  BY <1>1, <1>2, TypeCorrect, PTL DEF Spec

\* The polling loop counts in whole intervals and stops within one interval of
\* the timeout, for every timeout.
THEOREM WaitStaysBounded == Spec => []WaitIsBounded
<1>1. (\A c \in Caller : InWait(c)) => WaitIsBounded
  BY DEF InWait, WaitIsBounded
<1>. QED  BY <1>1, WaitLoopCorrect, PTL
=============================================================================
