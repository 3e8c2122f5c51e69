--------------------------- MODULE Handles_proofs ---------------------------
(***************************************************************************)
(* Proofs about the handles on every platform, for every set of processes, *)
(* pids and threads.  The invariant is that of LinuxProcess_proofs, which  *)
(* the steps of the other platforms keep as well, and a part for a         *)
(* process_new that reads several fields.  At the end, the exit of a child *)
(* is reported once.                                                       *)
(***************************************************************************)
EXTENDS Platforms, LinuxProcess_proofs

\* The fields that process_new reads: name and create_time on Android, all but
\* ppid on Windows.
NewFields == IF platform = "android" THEN {"name", "create_time"}
             ELSE {"name", "exe", "username", "create_time", "cwd"}

\* While process_new reads, nothing has been handed out.
NewSound ==
  \A c \in Caller : pc[c] \in {"new", "new_reading"} => lent[c] = {} /\ op[c] \in NewFields

HandleInv == TypeOK /\ CallsSound /\ NewSound

\* A step of c that is not one of process_new.
Plain(c) ==
  /\ pc'[c] \notin {"new", "new_reading"}
  /\ \A d \in Caller : d # c => UNCHANGED <<pc[d], op[d], lent[d]>>
  /\ UNCHANGED platform

LEMMA PlainKeepsNew ==
  ASSUME NewSound, NEW c \in Caller, Plain(c)
  PROVE  NewSound'
  BY DEF NewSound, Plain, NewFields

-----------------------------------------------------------------------------
(***************************************************************************)
(* Steps that are those of Linux.                                          *)
(***************************************************************************)
LEMMA BeginKeeps ==
  ASSUME HandleInv, NEW c \in Caller, Begin(c), UNCHANGED platform
  PROVE  HandleInv'
<1>1. TypeOK' /\ CallsSound'
  BY BeginType, BeginSound DEF HandleInv
<1>2. Plain(c)
  <2>1. ASSUME NEW p \in Pid \cup {0}, ProcessNew(c, p)  PROVE Plain(c)
    BY <2>1 DEF ProcessNew, Plain, HandleInv, TypeOK
  <2>2. CASE ProcessFree(c)
    BY <2>2 DEF ProcessFree, Plain, HandleInv, TypeOK
  <2>3. ASSUME NEW f, FillIfAlive(c, f) \/ ReturnCached(c, f) \/ OpenUncached(c, f)
        PROVE  Plain(c)
    <3>1. \E o, v, q, why : Return(c, o, v, q, why) \/ Goto(c, "reading", o, q)
      BY <2>3 DEF FillIfAlive, Fill, Fail, ReturnCached, OpenUncached, OpenProcFile
    <3>2. \A d \in Caller : d # c => lent'[d] = lent[d]
      BY <2>3 DEF FillIfAlive, Fill, Fail, ReturnCached, OpenUncached, OpenProcFile, handleVars,
                  HandleInv, TypeOK
    <3> QED BY <3>1, <3>2 DEF Return, Goto, Plain, HandleInv, TypeOK
  <2>4. CASE GetPpid(c) \/ GetStatus(c) \/ IsRunningStat(c)
    BY <2>4 DEF GetPpid, GetStatus, IsRunningStat, OpenProcFile, Fail, Return, Goto,
                handleVars, Plain, HandleInv, TypeOK
  <2>5. ASSUME NEW sig, SendSignal(c, sig)  PROVE Plain(c)
    BY <2>5 DEF SendSignal, MayCall, Plain, HandleInv, TypeOK
  <2>6. ASSUME NEW t \in Timeouts, WaitBegin(c, t)  PROVE Plain(c)
    BY <2>6 DEF WaitBegin, Goto, handleVars, Plain, HandleInv, TypeOK
  <2>7. CASE WaitInterrupted(c)
    BY <2>7 DEF WaitInterrupted, Return, handleVars, Plain, HandleInv, TypeOK
  <2> QED BY <2>1, <2>2, <2>3, <2>4, <2>5, <2>6, <2>7
          DEF Begin, GetName, GetExe, GetCwd, GetUsername, GetCreateTime,
              Suspend, Resume, Terminate, Kill
<1> QED BY <1>1, <1>2, PlainKeepsNew DEF HandleInv

LEMMA ContinueKeeps ==
  ASSUME HandleInv, NEW c \in Caller, Continue(c), UNCHANGED platform
  PROVE  HandleInv'
<1>1. TypeOK' /\ CallsSound'
  BY ContinueType, ContinueSound DEF HandleInv
<1>2. Plain(c)
  <2>1. CASE ReadField(c) \/ ReadPpid(c) \/ ReadStatus(c) \/ IsRunningRead(c)
    BY <2>1 DEF ReadField, ReadPpid, ReadStatus, IsRunningRead, Fill, Fail, Return, handleVars,
                Plain, HandleInv, TypeOK
  <2>2. CASE IsRunningOpen(c)
    BY <2>2 DEF IsRunningOpen, OpenProcFile, Fail, Return, Goto, handleVars, Plain, HandleInv,
                TypeOK
  <2>3. CASE \/ WaitCollects(c) \/ WaitNoChild(c) \/ WaitPolls(c) \/ WaitSleeps(c)
             \/ WaitTimesOut(c)
    BY <2>3 DEF WaitCollects, WaitNoChild, WaitPolls, WaitSleeps, WaitTimesOut, Return, handleVars,
                Plain, HandleInv, TypeOK
  <2> QED BY <2>1, <2>2, <2>3 DEF Continue
<1> QED BY <1>1, <1>2, PlainKeepsNew DEF HandleInv

LEMMA EnvironmentKeeps ==
  ASSUME HandleInv, Environment, UNCHANGED platform
  PROVE  HandleInv'
<1>1. TypeOK' /\ CallsSound'
  BY EnvironmentType, EnvironmentSound DEF HandleInv
<1>2. UNCHANGED <<pc, op, lent>>
  BY DEF Environment, handleVars
<1> QED BY <1>1, <1>2 DEF HandleInv, NewSound, NewFields

-----------------------------------------------------------------------------
(***************************************************************************)
(* Steps of several platforms.                                             *)
(***************************************************************************)

\* A call ends that leaves the handle as it is, and collects a child at most.
Ends(c) ==
  /\ \E o \in Op, v \in {-1, 0, 1, 2, 4, 6, 7}, q \in Proc \cup {None}, why \in SUBSET Seen :
       Return(c, o, v, q, why)
  /\ UNCHANGED kernelVars \/ \E q \in Proc : Reap(q)
  /\ UNCHANGED <<hpid, cache, birth, lent, struck, platform>>
  /\ Observe

LEMMA EndsKeeps ==
  ASSUME HandleInv, NEW c \in Caller, Ends(c)
  PROVE  HandleInv'
<1>1. TypeOK /\ CallsSound /\ KernelTypeOK /\ PidUnique
  BY DEF HandleInv, TypeOK, CallsSound
<1>2. TableStep /\ PidUnique' /\ KernelTypeOK'
  <2>1. CASE UNCHANGED kernelVars
    BY <1>1, <2>1, SameTable DEF KernelTypeOK, kernelVars
  <2>2. ASSUME NEW q \in Proc, Reap(q) PROVE TableStep /\ PidUnique' /\ KernelTypeOK'
    BY <1>1, <2>2, LifeTable, LifeStepType
  <2> QED BY <2>1, <2>2 DEF Ends
<1>3. PICK o \in Op, v \in {-1, 0, 1, 2, 4, 6, 7}, q \in Proc \cup {None}, why \in SUBSET Seen :
         Return(c, o, v, q, why)
  BY DEF Ends
<1>4. UNCHANGED <<hpid, cache, birth, lent, struck, platform>> /\ Observe
  BY DEF Ends
<1>5. /\ cache' \in [Caller -> [Field -> Snapshot \cup {NoSnapshot}]]
      /\ lent' \in [Caller -> SUBSET (Field \X Snapshot)]
  BY <1>1, <1>4 DEF TypeOK
<1>6. TypeOK'
  BY <1>1, <1>2, <1>3, <1>4, <1>5, EndType
<1>7. CallsSound'
  BY <1>1, <1>2, <1>3, <1>4, EndSound DEF handleVars
<1>8. Plain(c)
  BY <1>1, <1>3, <1>4 DEF Plain, Return, TypeOK
<1> QED BY <1>6, <1>7, <1>8, PlainKeepsNew DEF HandleInv

LEMMA FailKeeps ==
  ASSUME HandleInv, NEW c \in Caller, NEW o \in Op, NEW why \in SUBSET Seen,
         Fail(c, o, why), Observe, UNCHANGED platform
  PROVE  HandleInv'
  BY EndsKeeps DEF Ends, Fail, handleVars

\* A getter fills an empty field from whoever is at the pid.
LEMMA FillKeeps ==
  ASSUME HandleInv, NEW c \in Caller, NEW f \in Field, NEW q \in At(hpid[c]),
         MayCall(c, f), ~Cached(c, f), Fill(c, f, q), Observe, UNCHANGED platform
  PROVE  HandleInv'
<1>1. TypeOK /\ CallsSound /\ q \in Proc
  BY DEF HandleInv, At
<1>2. birth[c] # None /\ Present(birth[c]) => q = birth[c]
  BY <1>1, OccupantIsBirth DEF CallsSound
<1>3. TypeOK'
  BY <1>1, FillType
<1>4. CallsSound'
  BY <1>1, <1>2, FillSound DEF MayCall, Cached
<1>5. Plain(c)
  BY <1>1 DEF Plain, Fill, Return, TypeOK
<1> QED BY <1>3, <1>4, <1>5, PlainKeepsNew DEF HandleInv

LEMMA Codes ==
  /\ Refused \in SUBSET Seen /\ {} \in SUBSET Seen
  /\ Field \subseteq Op /\ {"get_ppid", "get_status", "is_running", "wait"} \subseteq Op
  /\ {STATUS_RUNNING, STATUS_SLEEPING, STATUS_STOPPED, STATUS_ZOMBIE, STATUS_DEAD}
       \subseteq {-1, 0, 1, 2, 4, 6, 7}
  BY DEF Refused, Seen, Op, Read, Wait, STATUS_RUNNING, STATUS_SLEEPING, STATUS_STOPPED,
         STATUS_ZOMBIE, STATUS_DEAD

\* A getter that asks in one system call, and fills its field if it is told.
LEMMA AskKeeps ==
  ASSUME HandleInv, NEW c \in Caller, NEW f \in Field, MayCall(c, f), ~Cached(c, f),
         \/ \E q \in At(hpid[c]) : Fill(c, f, q)
         \/ Fail(c, f, {}) \/ Fail(c, f, Refused),
         Observe, UNCHANGED platform
  PROVE  HandleInv'
  BY FillKeeps, FailKeeps, Codes

\* A step is sound if it is so for the one who takes it, and leaves the others
\* alone.
LEMMA OneSound ==
  ASSUME TypeOK, CallsSound, TableStep, PidUnique', Observe, NEW c \in Caller, Sound(c)',
         \A d \in Caller : d # c =>
           UNCHANGED <<hpid[d], birth[d], cache[d], lent[d], struck[d], fp[d], pc[d], op[d]>>
  PROVE  CallsSound'
<1>1. ASSUME NEW d \in Caller, d # c  PROVE Sound(d)'
  BY <1>1, UntouchedCaller DEF CallsSound, Sound
<1> QED BY <1>1 DEF CallsSound, Sound

\* process_new of a platform that reads some fields.
LEMMA NewBegins ==
  ASSUME HandleInv, NEW c \in Caller, NEW p \in Pid \cup {0}, NewReadsFrom(c, p, "name"),
         UNCHANGED platform
  PROVE  HandleInv'
<1> DEFINE target == IF p = 0 THEN SelfPid ELSE p
<1>1. TypeOK /\ CallsSound /\ NewSound /\ KernelTypeOK /\ PidUnique
  BY DEF HandleInv, TypeOK, CallsSound
<1>2. PICK b \in IF At(target) = {} THEN {None} ELSE At(target) :
         birth' = [birth EXCEPT ![c] = b]
  BY DEF NewReadsFrom
<1>3. b # None => b \in Proc /\ Present(b) /\ pidOf[b] = target
  BY <1>2 DEF At
<1>4. target \in Pid /\ target # None
  BY ProcTableAssumption
<1>5. /\ hpid' = [hpid EXCEPT ![c] = target] /\ cache' = [cache EXCEPT ![c] = Empty]
      /\ pc' = [pc EXCEPT ![c] = "new"] /\ op' = [op EXCEPT ![c] = "name"]
      /\ fp' = [fp EXCEPT ![c] = None] /\ ret' = [ret EXCEPT ![c] = NoAnswer]
      /\ UNCHANGED <<kernelVars, lent, struck, elapsed, limit>> /\ Observe
  BY DEF NewReadsFrom, Goto
<1>6. TableStep /\ PidUnique' /\ KernelTypeOK'
  BY <1>1, <1>5, SameTable DEF KernelTypeOK, kernelVars
<1>7. lent[c] = {} /\ struck[c] = {} /\ pc[c] = "idle" /\ hpid[c] = None
  BY <1>1 DEF NewReadsFrom, CallsSound, HandleSound
<1>8. TypeOK'
  <2>1. saw' \in [Caller -> SUBSET Seen]
    BY <1>1, <1>5, <1>6, ObserveType
  <2>2. Empty \in [Field -> Snapshot \cup {NoSnapshot}] /\ NoAnswer \in Answer
    BY DEF Empty, NoAnswer, Answer
  <2>3. "new" \in Pc /\ "name" \in Op /\ "new" \notin Holding
    BY DEF Pc, Op, Field, Holding
  <2>4. birth' \in [Caller -> Proc \cup {None}]
    BY <1>1, <1>2, <1>3 DEF TypeOK
  <2>5. \A d \in Caller : pc'[d] \in Holding <=> fp'[d] # None
    BY <1>1, <1>5, <2>3 DEF TypeOK
  <2> QED BY <1>1, <1>4, <1>5, <1>6, <2>1, <2>2, <2>3, <2>4, <2>5 DEF TypeOK
<1>9. /\ hpid'[c] = target /\ birth'[c] = b /\ cache'[c] = Empty /\ lent'[c] = {}
      /\ struck'[c] = {} /\ fp'[c] = None /\ pc'[c] = "new" /\ op'[c] = "name"
  BY <1>1, <1>2, <1>5, <1>7 DEF TypeOK
<1> HIDE DEF target
<1>10. Sound(c)'
  <2>1. HandleSound(c)'
    BY <1>3, <1>4, <1>5, <1>9 DEF HandleSound, Empty, NoSnapshot, kernelVars, Present
  <2>2. LentSound(c)' /\ FileSound(c)'
    BY <1>1, <1>5, <1>9, LookAfterObserve DEF LentSound, FileSound
  <2> QED BY <2>1, <2>2 DEF Sound
<1>11. \A d \in Caller : d # c =>
         UNCHANGED <<hpid[d], birth[d], cache[d], lent[d], struck[d], fp[d], pc[d], op[d]>>
  BY <1>1, <1>2, <1>5 DEF TypeOK
<1>12. CallsSound'
  BY <1>1, <1>5, <1>6, <1>10, <1>11, OneSound
<1>13. NewSound'
  BY <1>1, <1>9, <1>11 DEF NewSound, NewFields
<1> QED BY <1>8, <1>12, <1>13 DEF HandleInv

\* It turns to the next field, and stores what it has read of the last.
LEMMA NewGoesOn ==
  ASSUME HandleInv, NEW c \in Caller, pc[c] \in {"new", "new_reading"},
         NEW f \in NewFields \cup {NoCall}, NewTurnsTo(c, f),
         \/ UNCHANGED cache
         \/ \E q \in Proc : /\ Store(c, op[c], q)
                            /\ birth[c] # None /\ Present(birth[c]) => q = birth[c],
         Observe, UNCHANGED platform
  PROVE  HandleInv'
<1>1. TypeOK /\ CallsSound /\ NewSound /\ KernelTypeOK /\ PidUnique
  BY DEF HandleInv, TypeOK, CallsSound
<1>2. lent[c] = {} /\ op[c] \in Field /\ hpid[c] # None
  BY <1>1 DEF NewSound, NewFields, Field, CallsSound, HandleSound
<1>3. PICK label \in {"idle", "new"} :
        /\ pc' = [pc EXCEPT ![c] = label] /\ op' = [op EXCEPT ![c] = f]
        /\ fp' = [fp EXCEPT ![c] = None] /\ ret' = [ret EXCEPT ![c] = NoAnswer]
        /\ label = "new" => f # NoCall
  BY DEF NewTurnsTo, Goto
<1>4. UNCHANGED <<kernelVars, hpid, birth, lent, struck, elapsed, limit>>
  BY DEF NewTurnsTo
<1>5. TableStep /\ PidUnique' /\ KernelTypeOK'
  BY <1>1, <1>4, SameTable DEF KernelTypeOK, kernelVars
<1>6. /\ cache' \in [Caller -> [Field -> Snapshot \cup {NoSnapshot}]]
      /\ \A d \in Caller : d # c => cache'[d] = cache[d]
      /\ birth[c] # None /\ Present(birth[c]) =>
           \A g \in Field : cache'[c][g].of \in {None, birth[c]}
  <2>1. birth[c] # None /\ Present(birth[c]) =>
          \A g \in Field : cache[c][g].of \in {None, birth[c]}
    BY <1>1 DEF CallsSound, HandleSound
  <2>2. CASE UNCHANGED cache
    BY <1>1, <2>1, <2>2 DEF TypeOK
  <2>3. ASSUME NEW q \in Proc, Store(c, op[c], q),
               birth[c] # None /\ Present(birth[c]) => q = birth[c]
        PROVE  /\ cache' \in [Caller -> [Field -> Snapshot \cup {NoSnapshot}]]
               /\ \A d \in Caller : d # c => cache'[d] = cache[d]
               /\ birth[c] # None /\ Present(birth[c]) =>
                    \A g \in Field : cache'[c][g].of \in {None, birth[c]}
    <3>1. PICK s \in Snapshot : s = [of |-> q, image |-> image[q]]
      BY <1>1 DEF KernelTypeOK, Snapshot
    <3>2. cache' = [cache EXCEPT ![c][op[c]] = s]
      BY <2>3, <3>1 DEF Store
    <3>3. \A g \in Field : cache'[c][g] = IF g = op[c] THEN s ELSE cache[c][g]
      BY <1>1, <3>2 DEF TypeOK
    <3>4. birth[c] # None /\ Present(birth[c]) =>
            \A g \in Field : cache'[c][g].of \in {None, birth[c]}
      BY <2>1, <2>3, <3>1, <3>3
    <3> QED BY <1>1, <1>2, <3>2, <3>4 DEF TypeOK
  <2> QED BY <2>2, <2>3
<1>7. TypeOK'
  <2>1. saw' \in [Caller -> SUBSET Seen]
    BY <1>1, <1>5, ObserveType
  <2>2. NoAnswer \in Answer /\ label \in Pc /\ f \in Op \cup {NoCall} /\ label \notin Holding
    BY <1>3 DEF NoAnswer, Answer, Pc, Op, Field, NewFields, Holding
  <2>3. \A d \in Caller : pc'[d] \in Holding <=> fp'[d] # None
    BY <1>1, <1>3, <2>2 DEF TypeOK
  <2> QED BY <1>1, <1>3, <1>4, <1>5, <1>6, <2>1, <2>2, <2>3 DEF TypeOK
<1>8. pc'[c] = label /\ fp'[c] = None /\ op'[c] = f
  BY <1>1, <1>3 DEF TypeOK
<1>9. Sound(c)'
  <2>1. HandleSound(c)'
    BY <1>1, <1>2, <1>4, <1>6, <1>8 DEF CallsSound, HandleSound, kernelVars, Present
  <2>2. LentSound(c)' /\ FileSound(c)'
    BY <1>1, <1>2, <1>4, <1>8, LookAfterObserve DEF LentSound, FileSound
  <2> QED BY <2>1, <2>2 DEF Sound
<1>10. \A d \in Caller : d # c =>
         UNCHANGED <<hpid[d], birth[d], cache[d], lent[d], struck[d], fp[d], pc[d], op[d]>>
  BY <1>1, <1>3, <1>4, <1>6 DEF TypeOK
<1>11. CallsSound'
  BY <1>1, <1>5, <1>9, <1>10, OneSound
<1>12. NewSound'
  BY <1>1, <1>2, <1>3, <1>4, <1>8, <1>10 DEF NewSound, NewFields
<1> QED BY <1>7, <1>11, <1>12 DEF HandleInv

\* A call opens what is at the pid, and holds it.
LEMMA HoldKeeps ==
  ASSUME HandleInv, NEW c \in Caller, NEW label \in {"new_reading", "waiting"}, NEW o \in Op,
         NEW q \in At(hpid[c]), Goto(c, label, o, q), hpid[c] # None,
         label = "new_reading" => pc[c] = "new" /\ o = op[c],
         UNCHANGED <<kernelVars, handleVars, platform>>,
         elapsed' \in [Caller -> Nat], limit' \in [Caller -> Int], Observe
  PROVE  HandleInv'
<1>1. TypeOK /\ CallsSound /\ NewSound /\ KernelTypeOK /\ PidUnique
  BY DEF HandleInv, TypeOK, CallsSound
<1>2. q \in Proc /\ Present(q) /\ pidOf[q] = hpid[c]
  BY DEF At
<1>3. TableStep /\ PidUnique'
  BY <1>1, SameTable
<1>4. pc'[c] = label /\ fp'[c] = q /\ op'[c] = o
  BY <1>1 DEF Goto, TypeOK
<1>5. TypeOK'
  BY <1>1, <1>2, GotoType, ProcTableAssumption DEF Pc, Holding
<1>6. Sound(c)'
  <2>1. birth[c] # None /\ Present(birth[c]) => q = birth[c]
    BY <1>1, OccupantIsBirth DEF CallsSound
  <2>2. HandleSound(c)'
    BY <1>1, <1>2, <1>4, <2>1 DEF handleVars, kernelVars, TypeOK, CallsSound, HandleSound, Present
  <2>3. LentSound(c)'
    BY <1>1, <1>4 DEF handleVars, CallsSound, LentSound
  <2>4. FileSound(c)'
    BY <1>1, <1>2, <1>4, LookAfterObserve DEF FileSound, handleVars, kernelVars, Present
  <2> QED BY <2>2, <2>3, <2>4 DEF Sound
<1>7. \A d \in Caller : d # c =>
         UNCHANGED <<hpid[d], birth[d], cache[d], lent[d], struck[d], fp[d], pc[d], op[d]>>
  BY <1>1 DEF Goto, handleVars, TypeOK
<1>8. CallsSound'
  BY <1>1, <1>3, <1>6, <1>7, OneSound
<1>9. NewSound'
  BY <1>1, <1>4, <1>7 DEF NewSound, NewFields, handleVars
<1> QED BY <1>5, <1>8, <1>9 DEF HandleInv

\* A signal reaches whoever is at the pid.
LEMMA StrikeKeeps ==
  ASSUME HandleInv, NEW c \in Caller, NEW q \in At(hpid[c]), pc[c] = "idle", hpid[c] # None,
         UNCHANGED kernelVars \/ \E sig : Deliver(q, sig),
         struck' = [struck EXCEPT ![c] = @ \cup {q}],
         UNCHANGED <<hpid, cache, birth, lent, pc, op, fp, elapsed, limit, ret, platform>>,
         Observe \/ UNCHANGED <<kernelVars, saw>>
  PROVE  HandleInv'
<1>1. TypeOK /\ CallsSound /\ NewSound /\ KernelTypeOK /\ PidUnique
  BY DEF HandleInv, TypeOK, CallsSound
<1>2. q \in Proc /\ Present(q) /\ pidOf[q] = hpid[c]
  BY DEF At
<1>3. TableStep /\ PidUnique' /\ KernelTypeOK'
  <2>1. CASE UNCHANGED kernelVars
    BY <1>1, <2>1, SameTable DEF KernelTypeOK, kernelVars
  <2>2. CASE \E sig : Deliver(q, sig)
    BY <1>1, <1>2, <2>2, LifeTable, LifeStepType
  <2> QED BY <2>1, <2>2
<1>4. TypeOK'
  <2>1. saw' \in [Caller -> SUBSET Seen]
    BY <1>1, <1>3, ObserveType DEF TypeOK
  <2>2. struck' \in [Caller -> SUBSET Proc]
    BY <1>1, <1>2 DEF TypeOK
  <2> QED BY <1>1, <1>3, <2>1, <2>2 DEF TypeOK
<1>5. birth[c] # None /\ Present(birth[c]) => q = birth[c]
  BY <1>1, OccupantIsBirth DEF CallsSound
<1>6. /\ struck'[c] = struck[c] \cup {q}
      /\ \A d \in Caller : d # c => struck'[d] = struck[d]
  BY <1>1 DEF TypeOK
<1>7. ASSUME NEW d \in Caller  PROVE HandleSound(d)'
  BY <1>1, <1>3, <1>5, <1>6 DEF TypeOK, CallsSound, HandleSound, TableStep, Present
<1>8. ASSUME NEW d \in Caller  PROVE LentSound(d)'
  BY <1>1 DEF CallsSound, LentSound
<1>9. ASSUME NEW d \in Caller  PROVE FileSound(d)'
  <2>1. CASE Observe
    BY <1>1, <1>3, <2>1, UntouchedFile DEF CallsSound
  <2>2. CASE UNCHANGED <<kernelVars, saw>>
    BY <1>1, <2>2 DEF CallsSound, FileSound, Look, At, Kid, Present, kernelVars
  <2> QED BY <2>1, <2>2
<1>10. NewSound'
  BY <1>1 DEF NewSound, NewFields
<1> QED BY <1>3, <1>4, <1>7, <1>8, <1>9, <1>10 DEF HandleInv, CallsSound

\* A call goes on that has nothing open.
LEMMA WaitStarts ==
  ASSUME HandleInv, NEW c \in Caller, NEW label \in {"poll", "blocked"},
         Goto(c, label, "wait", None), hpid[c] # None,
         UNCHANGED <<kernelVars, handleVars, platform>>,
         elapsed' \in [Caller -> Nat], limit' \in [Caller -> Int], Observe
  PROVE  HandleInv'
<1>1. TypeOK /\ CallsSound
  BY DEF HandleInv
<1>2. label \notin Holding \cup {"idle"} /\ label \in Pc
  BY DEF Holding, Pc
<1>3. TypeOK'
  BY <1>1, <1>2, Codes, GotoType
<1>4. CallsSound'
  BY <1>1, <1>2, GotoSound
<1>5. Plain(c)
  BY <1>1 DEF Plain, Goto, handleVars, TypeOK
<1> QED BY <1>3, <1>4, <1>5, PlainKeepsNew DEF HandleInv

-----------------------------------------------------------------------------
(***************************************************************************)
(* macOS.                                                                  *)
(***************************************************************************)
LEMMA MacGetterKeeps ==
  ASSUME HandleInv, NEW c \in Caller, NEW f \in {"name", "username", "create_time"},
         FillIfPresent(c, f), UNCHANGED platform
  PROVE  HandleInv'
  BY AskKeeps DEF FillIfPresent, Field

LEMMA MacKeeps ==
  ASSUME HandleInv, NEW c \in Caller, MacBegin(c) \/ MacWaits(c), UNCHANGED platform
  PROVE  HandleInv'
<1>1. CASE MacWaits(c)
  BY <1>1, ContinueKeeps DEF MacWaits, Continue
<1>2. CASE MacHandles(c) \/ MacGetExe(c) \/ MacGetCwd(c) \/ MacSignals(c) \/ MacWaitBegins(c)
  BY <1>2, BeginKeeps
     DEF MacHandles, MacGetExe, MacGetCwd, MacSignals, MacWaitBegins, Begin, GetExe, GetCwd
<1>3. CASE MacGetName(c) \/ MacGetUsername(c) \/ MacGetCreateTime(c)
  <2>1. ASSUME NEW f \in {"name", "username", "create_time"}, ReturnCached(c, f)
        PROVE  Begin(c)
    BY <2>1 DEF Begin, GetName, GetUsername, GetCreateTime
  <2> QED BY <1>3, <2>1, BeginKeeps, MacGetterKeeps
          DEF MacGetName, MacGetUsername, MacGetCreateTime
<1>4. CASE MacGetPpid(c) \/ MacGetStatus(c)
  <2>1. Ends(c)
    BY <1>4, Codes DEF MacGetPpid, MacGetStatus, MacStatusCode, Ends, At, handleVars
  <2> QED BY <2>1, EndsKeeps
<1>5. CASE MacIsRunning(c)
  <2>1. Ends(c)
    BY <1>5, Codes DEF MacIsRunning, Ends, Kid, At, handleVars
  <2> QED BY <2>1, EndsKeeps
<1> QED BY <1>1, <1>2, <1>3, <1>4, <1>5 DEF MacBegin

-----------------------------------------------------------------------------
(***************************************************************************)
(* The BSDs.                                                               *)
(***************************************************************************)

\* A field is replaced, by NULL or by what the system tells of whoever is at
\* the pid; its old string is not lent any more.
LEMMA ReplaceKeeps ==
  ASSUME HandleInv, NEW c \in Caller, NEW f \in Field, NEW s \in Snapshot \cup {NoSnapshot},
         MayCall(c, f), cache' = [cache EXCEPT ![c][f] = s],
         NEW add, lent' = [lent EXCEPT ![c] = BsdStillLent(c, f) \cup add],
         add = {} \/ (s \in Snapshot /\ add = {<<f, s>>}),
         s.of = None \/ s.of \in At(hpid[c]),
         NEW v \in {0, 1}, NEW q \in Proc \cup {None}, NEW why \in SUBSET Seen,
         Return(c, f, v, q, why),
         UNCHANGED <<kernelVars, hpid, birth, struck, platform>>, Observe
  PROVE  HandleInv'
<1>1. TypeOK /\ CallsSound /\ KernelTypeOK /\ PidUnique
  BY DEF HandleInv, TypeOK, CallsSound
<1>2. TableStep /\ PidUnique' /\ KernelTypeOK'
  BY <1>1, SameTable DEF KernelTypeOK, kernelVars
<1>3. /\ pc'[c] = "idle" /\ fp'[c] = None /\ cache'[c] = [cache[c] EXCEPT ![f] = s]
      /\ lent'[c] = {l \in lent[c] : l[1] # f} \cup add /\ hpid[c] # None
  BY <1>1 DEF Return, TypeOK, BsdStillLent, MayCall
<1>4. TypeOK'
  <2>1. cache' \in [Caller -> [Field -> Snapshot \cup {NoSnapshot}]]
    BY <1>1 DEF TypeOK
  <2>2. lent' \in [Caller -> SUBSET (Field \X Snapshot)]
    <3>1. add \subseteq Field \X Snapshot
      OBVIOUS
    <3>2. BsdStillLent(c, f) \subseteq Field \X Snapshot
      BY <1>1 DEF TypeOK, BsdStillLent
    <3> QED BY <1>1, <3>1, <3>2 DEF TypeOK
  <2>3. f \in Op /\ v \in {-1, 0, 1, 2, 4, 6, 7}
    BY Codes
  <2>4. /\ pc' \in [Caller -> Pc]
        /\ op' \in [Caller -> Op \cup {NoCall}]
        /\ fp' \in [Caller -> Proc \cup {None}]
        /\ elapsed' \in [Caller -> Nat]
        /\ limit' \in [Caller -> Int]
        /\ ret' \in [Caller -> Answer]
        /\ \A d \in Caller : pc'[d] \in Holding <=> fp'[d] # None
    BY <1>1, <2>3, ReturnType
  <2>5. saw' \in [Caller -> SUBSET Seen]
    BY <1>1, <1>2, ObserveType
  <2>6. /\ hpid' \in [Caller -> Pid \cup {None}] /\ birth' \in [Caller -> Proc \cup {None}]
        /\ struck' \in [Caller -> SUBSET Proc]
    BY <1>1 DEF TypeOK
  <2> QED BY <1>2, <2>1, <2>2, <2>4, <2>5, <2>6 DEF TypeOK
<1>5. Sound(c)'
  <2>1. \A g \in Field : cache'[c][g] = IF g = f THEN s ELSE cache[c][g]
    BY <1>1, <1>3 DEF TypeOK
  <2>2. birth[c] # None /\ Present(birth[c]) => s.of \in {None, birth[c]}
    BY <1>1, OccupantIsBirth DEF CallsSound
  <2>3. birth[c] # None /\ Present(birth[c]) =>
          \A g \in Field : cache'[c][g].of \in {None, birth[c]}
    BY <1>1, <2>1, <2>2 DEF CallsSound, HandleSound
  <2>4. HandleSound(c)'
    BY <1>1, <1>3, <2>3 DEF CallsSound, HandleSound, kernelVars, Present
  <2>5. LentSound(c)'
    <3>1. \A l \in lent[c] : l[1] \in Field /\ cache[c][l[1]] = l[2]
      BY <1>1 DEF TypeOK, CallsSound, LentSound
    <3>2. \A l \in lent'[c] : cache'[c][l[1]] = l[2]
      BY <1>3, <2>1, <3>1
    <3> QED BY <1>3, <3>2 DEF LentSound
  <2>6. FileSound(c)'
    BY <1>3 DEF FileSound
  <2> QED BY <2>4, <2>5, <2>6 DEF Sound
<1>6. \A d \in Caller : d # c =>
         UNCHANGED <<hpid[d], birth[d], cache[d], lent[d], struck[d], fp[d], pc[d], op[d]>>
  BY <1>1 DEF Return, TypeOK
<1>7. CallsSound'
  BY <1>1, <1>2, <1>5, <1>6, OneSound
<1>8. Plain(c)
  BY <1>3, <1>6 DEF Plain
<1> QED BY <1>4, <1>7, <1>8, PlainKeepsNew DEF HandleInv

LEMMA BsdGetterKeeps ==
  ASSUME HandleInv, NEW c \in Caller, NEW f \in Field, NEW Q \in SUBSET At(hpid[c]),
         BsdReplace(c, f, Q), UNCHANGED platform
  PROVE  HandleInv'
<1>1. f \in Op /\ NoSnapshot.of = None
  BY Codes DEF NoSnapshot
<1>2. CASE Fail(c, f, {}) \/ Fail(c, f, Refused)
  BY <1>1, <1>2, FailKeeps, Codes DEF BsdReplace
<1>3. ASSUME NEW q \in Q, NEW s, s = [of |-> q, image |-> image[q]],
             cache' = [cache EXCEPT ![c][f] = s],
             lent' = [lent EXCEPT ![c] = BsdStillLent(c, f) \cup {<<f, s>>}],
             Return(c, f, 1, q, {}), UNCHANGED <<kernelVars, hpid, birth, struck>>
      PROVE  HandleInv'
  <2>1. q \in Proc /\ q \in At(hpid[c])
    BY DEF At
  <2>2. s \in Snapshot /\ s.of = q
    BY <1>3, <2>1 DEF HandleInv, TypeOK, KernelTypeOK, Snapshot
  <2>3. MayCall(c, f) /\ Observe
    BY DEF BsdReplace
  <2> QED BY <1>3, <2>1, <2>2, <2>3, Codes, ReplaceKeeps
<1>4. CASE /\ cache' = [cache EXCEPT ![c][f] = NoSnapshot]
           /\ lent' = [lent EXCEPT ![c] = BsdStillLent(c, f)]
           /\ Return(c, f, 0, None, Refused)
           /\ UNCHANGED <<kernelVars, hpid, birth, struck>>
  <2>1. PICK add : add = {}
    OBVIOUS
  <2>2. lent' = [lent EXCEPT ![c] = BsdStillLent(c, f) \cup add]
    BY <1>4, <2>1
  <2>3. MayCall(c, f) /\ Observe
    BY DEF BsdReplace
  <2> QED BY <1>1, <1>4, <2>1, <2>2, <2>3, Codes, ReplaceKeeps
<1> QED BY <1>2, <1>3, <1>4 DEF BsdReplace

LEMMA BsdKeeps ==
  ASSUME HandleInv, NEW c \in Caller, BsdBegin(c), UNCHANGED platform
  PROVE  HandleInv'
<1>1. CASE BsdHandles(c) \/ BsdSignals(c)
  BY <1>1, BeginKeeps DEF BsdHandles, BsdSignals, Begin
<1>2. CASE BsdGetName(c) \/ BsdGetUsername(c) \/ BsdGetExe(c) \/ BsdGetCwd(c)
  BY <1>2, BsdGetterKeeps
     DEF BsdGetName, BsdGetUsername, BsdGetExe, BsdGetCwd, BsdLinked, Field
<1>3. CASE BsdGetCreateTime(c) \/ BsdGetPpid(c) \/ BsdGetStatus(c)
  <2>1. ASSUME NEW o \in Op, NEW v \in [Proc -> {-1, 0, 1, 2, 4, 6, 7}],
               NEW none \in {-1, 0, 1, 2, 4, 6, 7}, BsdAsk(c, o, v, none)
        PROVE  Ends(c)
    BY <2>1, Codes DEF BsdAsk, Ends, At, handleVars
  <2>2. /\ [q \in Proc |-> 1] \in [Proc -> {-1, 0, 1, 2, 4, 6, 7}]
        /\ [q \in Proc |-> BsdStatusCode(q)] \in [Proc -> {-1, 0, 1, 2, 4, 6, 7}]
    BY Codes DEF BsdStatusCode
  <2>3. "create_time" \in Op /\ "get_ppid" \in Op /\ "get_status" \in Op
    BY Codes DEF Field
  <2>4. CASE BsdGetCreateTime(c)
    BY <2>1, <2>2, <2>3, <2>4, EndsKeeps DEF BsdGetCreateTime
  <2>5. CASE BsdGetPpid(c)
    BY <2>1, <2>2, <2>3, <2>5, EndsKeeps DEF BsdGetPpid
  <2>6. CASE BsdGetStatus(c)
    BY <2>1, <2>2, <2>3, <2>6, Codes, EndsKeeps DEF BsdGetStatus
  <2> QED BY <1>3, <2>4, <2>5, <2>6
<1>4. CASE BsdWait(c)
  <2>1. Ends(c)
    BY <1>4, Codes DEF BsdWait, Ends, Kid, At, handleVars
  <2> QED BY <2>1, EndsKeeps
<1>5. CASE BsdIsRunning(c)
  <2>1. Ends(c)
    BY <1>5, Codes DEF BsdIsRunning, Ends, At, handleVars
  <2> QED BY <2>1, EndsKeeps
<1> QED BY <1>1, <1>2, <1>3, <1>4, <1>5 DEF BsdBegin

-----------------------------------------------------------------------------
(***************************************************************************)
(* Android.                                                                *)
(***************************************************************************)
LEMMA AndroidNewKeeps ==
  ASSUME HandleInv, NEW c \in Caller, platform = "android",
         AndroidNewOpens(c) \/ AndroidNewReads(c), UNCHANGED platform
  PROVE  HandleInv'
<1>1. TypeOK /\ CallsSound /\ NewSound
  BY DEF HandleInv
<1>2. pc[c] \in {"new", "new_reading"}
  BY DEF AndroidNewOpens, AndroidNewReads
<1>3. op[c] \in {"name", "create_time"} /\ op[c] \in Op /\ hpid[c] # None
  BY <1>1, <1>2, Codes DEF NewSound, NewFields, Field, CallsSound, HandleSound
<1>4. AndroidNewAfter[op[c]] \in NewFields \cup {NoCall}
  BY <1>3 DEF AndroidNewAfter, NewFields
<1>5. CASE AndroidNewReads(c)
  <2>1. fp[c] # None /\ fp[c] \in Proc
    BY <1>1, <1>5 DEF AndroidNewReads, TypeOK, Holding
  <2>2. birth[c] # None /\ Present(birth[c]) => fp[c] = birth[c]
    BY <1>1, <2>1 DEF CallsSound, HandleSound
  <2>3. UNCHANGED cache \/ Store(c, op[c], fp[c])
    BY <1>5 DEF AndroidNewReads, NewStores
  <2> QED BY <1>2, <1>4, <1>5, <2>1, <2>2, <2>3, NewGoesOn DEF AndroidNewReads
<1>6. CASE AndroidNewOpens(c)
  <2>1. CASE NewTurnsTo(c, AndroidNewAfter[op[c]]) /\ UNCHANGED cache
    BY <1>2, <1>4, <1>6, <2>1, NewGoesOn DEF AndroidNewOpens
  <2>2. ASSUME NEW q \in At(hpid[c]), Goto(c, "new_reading", op[c], q),
               UNCHANGED <<kernelVars, handleVars, elapsed, limit>>
        PROVE  HandleInv'
    <3>1. elapsed' \in [Caller -> Nat] /\ limit' \in [Caller -> Int]
      BY <1>1, <2>2 DEF TypeOK
    <3>2. pc[c] = "new" /\ Observe
      BY <1>6 DEF AndroidNewOpens
    <3> QED BY <1>3, <2>2, <3>1, <3>2, HoldKeeps
  <2> QED BY <1>6, <2>1, <2>2 DEF AndroidNewOpens
<1> QED BY <1>5, <1>6

LEMMA AndroidKeeps ==
  ASSUME HandleInv, NEW c \in Caller, platform = "android",
         AndroidBegin(c) \/ AndroidContinue(c), UNCHANGED platform
  PROVE  HandleInv'
<1>1. ASSUME NEW p \in Pid \cup {0}, AndroidNew(c, p)  PROVE HandleInv'
  BY <1>1, NewBegins DEF AndroidNew
<1>2. CASE \/ ProcessFree(c) \/ AndroidGetName(c) \/ AndroidGetUsername(c) \/ AndroidGetExe(c)
           \/ AndroidGetCwd(c) \/ AndroidGetPpid(c) \/ AndroidGetStatus(c) \/ AndroidSignals(c)
           \/ WaitInterrupted(c) \/ ReturnCached(c, "create_time")
  BY <1>2, BeginKeeps
     DEF AndroidGetName, AndroidGetUsername, AndroidGetExe, AndroidGetCwd, AndroidGetPpid,
         AndroidGetStatus, AndroidSignals, Begin, GetName, GetUsername, GetExe, GetCwd, GetPpid,
         GetStatus, GetCreateTime
<1>3. CASE AndroidGetCreateTime(c)
  <2>1. CASE Fail(c, "create_time", {}) /\ Observe
    <3>1. "create_time" \in Op
      BY Codes DEF Field
    <3> QED BY <2>1, <3>1, Codes, FailKeeps
  <2> QED BY <1>2, <1>3, <2>1 DEF AndroidGetCreateTime
<1>4. CASE AndroidIsRunning(c)
  <2>1. Ends(c)
    BY <1>4, Codes DEF AndroidIsRunning, Ends, At, handleVars
  <2> QED BY <2>1, EndsKeeps
<1>5. ASSUME NEW t \in Timeouts, AndroidWaitBegin(c, t)  PROVE HandleInv'
  <2>1. PICK label \in {"poll", "blocked"} : Goto(c, label, "wait", None)
    BY <1>5 DEF AndroidWaitBegin
  <2>2. elapsed' \in [Caller -> Nat] /\ limit' \in [Caller -> Int]
    BY <1>5, ProcessApiAssumption DEF AndroidWaitBegin, HandleInv, TypeOK
  <2> QED BY <1>5, <2>1, <2>2, WaitStarts DEF AndroidWaitBegin, MayCall
<1>6. CASE \/ ReadField(c) \/ ReadPpid(c) \/ ReadStatus(c)
           \/ WaitCollects(c) \/ WaitNoChild(c) \/ WaitPolls(c) \/ WaitSleeps(c)
  BY <1>6, ContinueKeeps DEF Continue
<1>7. CASE AndroidWaitTimesOut(c)
  <2>1. Ends(c)
    BY <1>7, Codes DEF AndroidWaitTimesOut, Ends, handleVars
  <2> QED BY <2>1, EndsKeeps
<1> QED BY <1>1, <1>2, <1>3, <1>4, <1>5, <1>6, <1>7, AndroidNewKeeps
        DEF AndroidBegin, AndroidContinue

-----------------------------------------------------------------------------
(***************************************************************************)
(* Windows.                                                                *)
(***************************************************************************)
LEMMA WindowsNewKeeps ==
  ASSUME HandleInv, NEW c \in Caller, platform = "windows", WindowsNewReads(c),
         UNCHANGED platform
  PROVE  HandleInv'
<1>1. TypeOK /\ CallsSound /\ NewSound
  BY DEF HandleInv
<1>2. op[c] \in {"name", "exe", "username", "create_time", "cwd"}
  BY <1>1 DEF WindowsNewReads, NewSound, NewFields
<1>3. WindowsNewAfter[op[c]] \in NewFields \cup {NoCall}
  BY <1>2 DEF WindowsNewAfter, NewFields
<1>4. WindowsTold(c, op[c]) \subseteq At(hpid[c])
  BY DEF WindowsTold
<1>5. UNCHANGED cache \/ \E q \in At(hpid[c]) : Store(c, op[c], q)
  BY <1>4 DEF WindowsNewReads, NewStores
<1>6. ASSUME NEW q \in At(hpid[c])
      PROVE  q \in Proc /\ (birth[c] # None /\ Present(birth[c]) => q = birth[c])
  BY <1>1, OccupantIsBirth DEF CallsSound, At
<1> QED BY <1>3, <1>5, <1>6, NewGoesOn DEF WindowsNewReads

LEMMA WindowsGetKeeps ==
  ASSUME HandleInv, NEW c \in Caller, NEW f \in {"name", "exe", "username", "create_time", "cwd"},
         WindowsGet(c, f) \/ ReturnCached(c, f), UNCHANGED platform
  PROVE  HandleInv'
<1>1. f \in Field
  BY DEF Field
<1>2. CASE WindowsGet(c, f)
  <2>1. WindowsTold(c, f) \subseteq At(hpid[c])
    BY DEF WindowsTold
  <2> QED BY <1>1, <1>2, <2>1, AskKeeps DEF WindowsGet
<1>3. CASE ReturnCached(c, f)
  BY <1>3, BeginKeeps DEF Begin, GetName, GetExe, GetUsername, GetCreateTime, GetCwd
<1> QED BY <1>2, <1>3

\* get_ppid stores its answer without lending it.
LEMMA WindowsPpidKeeps ==
  ASSUME HandleInv, NEW c \in Caller, WindowsGetPpid(c), UNCHANGED platform
  PROVE  HandleInv'
<1>1. TypeOK /\ CallsSound /\ KernelTypeOK /\ PidUnique
  BY DEF HandleInv, TypeOK, CallsSound
<1>2. "get_ppid" \in Op /\ "ppid" \in Field
  BY Codes DEF Field
<1>3. CASE UNCHANGED cache
  <2>1. Cached(c, "ppid") => cache[c]["ppid"].of \in Proc
    BY <1>1, <1>2 DEF Cached, TypeOK, Snapshot
  <2>2. \E v \in {-1, 0, 1, 2, 4, 6, 7}, q \in Proc \cup {None}, why \in SUBSET Seen :
           Return(c, "get_ppid", v, q, why)
    <3>1. CASE Cached(c, "ppid") /\ Return(c, "get_ppid", 1, cache[c]["ppid"].of, {})
      BY <2>1, <3>1
    <3>2. ASSUME NEW q \in At(hpid[c]), Return(c, "get_ppid", 1, q, {})
          PROVE  \E v \in {-1, 0, 1, 2, 4, 6, 7}, r \in Proc \cup {None}, why \in SUBSET Seen :
                   Return(c, "get_ppid", v, r, why)
      BY <3>2 DEF At
    <3>3. CASE Return(c, "get_ppid", 0, None, IF At(hpid[c]) = {} THEN {} ELSE Refused)
      <4>1. (IF At(hpid[c]) = {} THEN {} ELSE Refused) \in SUBSET Seen
        BY Codes
      <4> QED BY <3>3, <4>1
    <3> QED BY <3>1, <3>2, <3>3 DEF WindowsGetPpid
  <2>3. Ends(c)
    BY <1>2, <1>3, <2>2 DEF WindowsGetPpid, Ends
  <2> QED BY <2>3, EndsKeeps
<1>4. ASSUME NEW q \in At(hpid[c]), Store(c, "ppid", q), Return(c, "get_ppid", 1, q, {}),
             ~Cached(c, "ppid"), UNCHANGED <<kernelVars, hpid, birth, lent, struck>>, Observe
      PROVE  HandleInv'
  <2>1. q \in Proc
    BY DEF At
  <2>2. PICK s \in Snapshot : s = [of |-> q, image |-> image[q]]
    BY <1>1, <2>1 DEF KernelTypeOK, Snapshot
  <2>3. cache' = [cache EXCEPT ![c]["ppid"] = s]
    BY <1>4, <2>2 DEF Store
  <2>4. TableStep /\ PidUnique' /\ KernelTypeOK'
    BY <1>1, <1>4, SameTable DEF KernelTypeOK, kernelVars
  <2>5. TypeOK'
    <3>1. cache' \in [Caller -> [Field -> Snapshot \cup {NoSnapshot}]]
      BY <1>1, <2>3 DEF TypeOK
    <3>2. lent' \in [Caller -> SUBSET (Field \X Snapshot)]
      BY <1>1, <1>4 DEF TypeOK
    <3> QED BY <1>1, <1>2, <1>4, <2>1, <2>4, <3>1, <3>2, Codes, EndType
  <2>6. /\ pc'[c] = "idle" /\ fp'[c] = None /\ hpid[c] # None
        /\ \A g \in Field : cache'[c][g] = IF g = "ppid" THEN s ELSE cache[c][g]
    BY <1>1, <1>4, <2>3 DEF Return, TypeOK, WindowsGetPpid, MayCall
  <2>7. birth[c] # None /\ Present(birth[c]) =>
          \A g \in Field : cache'[c][g].of \in {None, birth[c]}
    BY <1>1, <2>2, <2>6, OccupantIsBirth DEF CallsSound, HandleSound
  <2>8. HandleSound(c)'
    BY <1>1, <1>4, <2>6, <2>7 DEF CallsSound, HandleSound, kernelVars, Present
  <2>9. LentSound(c)'
    <3>1. \A l \in lent[c] : l[1] \in Field /\ l[1] # "ppid" /\ cache[c][l[1]] = l[2]
      BY <1>1, <1>4, ProcTableAssumption
         DEF TypeOK, CallsSound, LentSound, Snapshot, NoSnapshot, Cached
    <3>2. \A l \in lent'[c] : cache'[c][l[1]] = l[2]
      BY <1>4, <2>6, <3>1
    <3> QED BY <2>6, <3>2 DEF LentSound
  <2>10. Sound(c)'
    BY <2>6, <2>8, <2>9 DEF Sound, FileSound
  <2>11. \A d \in Caller : d # c =>
           UNCHANGED <<hpid[d], birth[d], cache[d], lent[d], struck[d], fp[d], pc[d], op[d]>>
    BY <1>1, <1>4, <2>3 DEF Return, TypeOK
  <2>12. CallsSound'
    BY <1>1, <1>4, <2>4, <2>10, <2>11, OneSound
  <2>13. Plain(c)
    BY <2>6, <2>11 DEF Plain
  <2> QED BY <2>5, <2>12, <2>13, PlainKeepsNew DEF HandleInv
<1> QED BY <1>3, <1>4 DEF WindowsGetPpid

LEMMA WindowsSignalKeeps ==
  ASSUME HandleInv, NEW c \in Caller, WindowsSignals(c), UNCHANGED platform
  PROVE  HandleInv'
<1>1. CASE Suspend(c) \/ Resume(c)
  BY <1>1, BeginKeeps DEF Begin
<1>2. CASE WindowsTerminate(c)
  BY <1>2, StrikeKeeps DEF WindowsTerminate, MayCall
<1>3. CASE /\ MayCall(c, "CONT") /\ hpid[c] # SelfPid
           /\ \E q \in At(hpid[c]) :
                life[q] = "stopped" /\ struck' = [struck EXCEPT ![c] = @ \cup {q}]
           /\ UNCHANGED <<kernelVars, hpid, cache, birth, lent, callVars>>
  BY <1>3, StrikeKeeps DEF MayCall, callVars
<1> QED BY <1>1, <1>2, <1>3 DEF WindowsSignals, WindowsSuspend, WindowsResume

LEMMA WindowsWaitKeeps ==
  ASSUME HandleInv, NEW c \in Caller, UNCHANGED platform,
         WindowsWaitEnds(c) \/ \E t \in Timeouts : WindowsWaitBegin(c, t)
  PROVE  HandleInv'
<1>1. TypeOK /\ "wait" \in Op
  BY Codes DEF HandleInv
<1>2. CASE WindowsWaitEnds(c)
  <2>1. fp[c] \in Proc \cup {None}
    BY <1>1 DEF TypeOK
  <2>2. Ends(c)
    BY <1>1, <1>2, <2>1, Codes DEF WindowsWaitEnds, Ends, handleVars
  <2> QED BY <2>2, EndsKeeps
<1>3. ASSUME NEW t \in Timeouts, WindowsWaitBegin(c, t)  PROVE HandleInv'
  <2>1. ASSUME NEW q \in At(hpid[c]), Goto(c, "waiting", "wait", q),
               limit' = [limit EXCEPT ![c] = t], UNCHANGED elapsed
        PROVE  HandleInv'
    <3>1. elapsed' \in [Caller -> Nat] /\ limit' \in [Caller -> Int]
      BY <1>1, <2>1, ProcessApiAssumption DEF TypeOK
    <3> QED BY <1>1, <1>3, <2>1, <3>1, HoldKeeps DEF WindowsWaitBegin, MayCall
  <2>2. CASE Return(c, "wait", -1, None, IF At(hpid[c]) = {} THEN {} ELSE Refused)
    <3>1. (IF At(hpid[c]) = {} THEN {} ELSE Refused) \in SUBSET Seen
      BY Codes
    <3>2. Ends(c)
      BY <1>1, <1>3, <2>2, <3>1 DEF WindowsWaitBegin, Ends, handleVars
    <3> QED BY <3>2, EndsKeeps
  <2> QED BY <1>3, <2>1, <2>2 DEF WindowsWaitBegin
<1> QED BY <1>2, <1>3

LEMMA WindowsKeeps ==
  ASSUME HandleInv, NEW c \in Caller, platform = "windows",
         WindowsBegin(c) \/ WindowsContinue(c), UNCHANGED platform
  PROVE  HandleInv'
<1>1. ASSUME NEW p \in Pid \cup {0}, WindowsNew(c, p)  PROVE HandleInv'
  BY <1>1, NewBegins DEF WindowsNew
<1>2. CASE ProcessFree(c)
  BY <1>2, BeginKeeps DEF Begin
<1>3. CASE \/ WindowsGetName(c) \/ WindowsGetExe(c) \/ WindowsGetUsername(c)
           \/ WindowsGetCreateTime(c) \/ WindowsGetCwd(c)
  BY <1>3, WindowsGetKeeps
     DEF WindowsGetName, WindowsGetExe, WindowsGetUsername, WindowsGetCreateTime, WindowsGetCwd
<1>4. CASE WindowsGetStatus(c)
  <2>1. Ends(c)
    BY <1>4, Codes DEF WindowsGetStatus, Ends, At, handleVars
  <2> QED BY <2>1, EndsKeeps
<1>5. CASE WindowsIsRunning(c)
  <2>1. Ends(c)
    BY <1>5, Codes DEF WindowsIsRunning, Ends, At, handleVars
  <2> QED BY <2>1, EndsKeeps
<1> QED BY <1>1, <1>2, <1>3, <1>4, <1>5, WindowsPpidKeeps, WindowsSignalKeeps, WindowsWaitKeeps,
           WindowsNewKeeps
        DEF WindowsBegin, WindowsContinue

-----------------------------------------------------------------------------
(***************************************************************************)
(* All platforms.                                                          *)
(***************************************************************************)
LEMMA HandleInvStep == HandleInv /\ [PlatformNext]_platformVars => HandleInv'
<1> SUFFICES ASSUME HandleInv, [PlatformNext]_platformVars PROVE HandleInv'
  OBVIOUS
<1>1. CASE UNCHANGED platformVars
  <2>1. UNCHANGED <<vars, platform>>
    BY <1>1 DEF platformVars
  <2> QED BY <2>1, ProcTableAssumption
          DEF vars, kernelVars, handleVars, callVars, HandleInv, TypeOK, KernelTypeOK, CallsSound,
              PidUnique, HandleSound, LentSound, FileSound, NewSound, NewFields, Present, Look,
              At, Kid
<1>2. CASE (Environment \/ WindowsEnvironment) /\ UNCHANGED platform
  <2>1. WindowsEnvironment => Environment
    BY DEF WindowsEnvironment, WindowsDeletes, Environment
  <2> QED BY <1>2, <2>1, EnvironmentKeeps
<1>3. ASSUME NEW c \in Caller, Begins(c), UNCHANGED platform  PROVE HandleInv'
  BY <1>3, BeginKeeps, MacKeeps, BsdKeeps, AndroidKeeps, WindowsKeeps DEF Begins
<1>4. ASSUME NEW c \in Caller, GoesOn(c)  PROVE HandleInv'
  BY <1>4, ContinueKeeps, MacKeeps, AndroidKeeps, WindowsKeeps DEF GoesOn
<1> QED BY <1>1, <1>2, <1>3, <1>4 DEF PlatformNext

LEMMA HandlesSound == PlatformSpec => []HandleInv
<1>1. PlatformInit => HandleInv
  <2> SUFFICES ASSUME PlatformInit PROVE HandleInv
    OBVIOUS
  <2>1. TypeOK
    BY InitTypeOK DEF PlatformInit
  <2>2. CallsSound
    BY ProcTableAssumption
       DEF PlatformInit, Init, KernelInit, CallsSound, PidUnique, Present, HandleSound, LentSound,
           FileSound
  <2>3. NewSound
    BY DEF PlatformInit, Init, NewSound
  <2> QED BY <2>1, <2>2, <2>3 DEF HandleInv
<1> QED BY <1>1, HandleInvStep, PTL DEF PlatformSpec

\* The state of the process functions is of its type on every platform.
THEOREM TypeCorrectEverywhere == PlatformSpec => []TypeOK
<1>1. HandleInv => TypeOK
  BY DEF HandleInv
<1> QED BY <1>1, HandlesSound, PTL

\* While the process that had the pid when process_new was called is in the
\* table, a handle stores nothing about another one and signals no other one,
\* on every platform.
THEOREM HandlesKeepIdentityEverywhere == PlatformSpec => []HandleIdentity
<1>1. HandleInv => HandleIdentity
  BY DEF HandleInv, CallsSound, HandleSound, HandleIdentity
<1> QED BY <1>1, HandlesSound, PTL

\* A string that a getter has handed out is what the handle still stores, until
\* process_free; on the BSDs, until the next call of the same getter.
THEOREM StringsStayLentEverywhere == PlatformSpec => []LentStringsLive
<1>1. HandleInv => LentStringsLive
  BY DEF HandleInv, CallsSound, LentSound, LentStringsLive
<1> QED BY <1>1, HandlesSound, PTL
-----------------------------------------------------------------------------
(***************************************************************************)
(* The exit of a child is reported once.                                   *)
(***************************************************************************)
\* The last answer of a caller is that its process has exited.
Told(c) == ret[c].op = "wait" /\ ret[c].val = 0

\* Why an exit is not reported twice: who is reported has left the table for
\* good, and to be reported it has to be there.
Reported ==
  /\ DOMAIN life = Proc /\ DOMAIN ret = Caller
  /\ \A c \in Caller : Told(c) => ret[c].of \in Proc /\ life[ret[c].of] = "gone"
  /\ \A c, d \in Caller : Told(c) /\ Told(d) => c = d \/ ret[c].of # ret[d].of

ReportInv == platform # "windows" => Reported

LEMMA ReportInvInit == PlatformInit => ReportInv
  BY ProcessApiAssumption
     DEF PlatformInit, Init, KernelInit, ReportInv, Reported, Told, NoAnswer, Op, Wait

-----------------------------------------------------------------------------
(***************************************************************************)
(* Steps that report nothing, and steps that report what they collect.     *)
(***************************************************************************)
LifeQuiet ==
  DOMAIN life' = Proc /\ \A q \in Proc : life[q] = "gone" => life'[q] = "gone"
RetQuiet ==
  DOMAIN ret' = Caller /\ \A c \in Caller : ret'[c] = ret[c] \/ ~Told(c)'

Collects(c) ==
  /\ DOMAIN ret' = Caller
  /\ \E q \in Proc : life[q] = "zombie" /\ life' = [life EXCEPT ![q] = "gone"] /\ ret'[c].of = q
  /\ \A d \in Caller \ {c} : ret'[d] = ret[d]

LEMMA QuietKeeps == ASSUME Reported, LifeQuiet, RetQuiet PROVE Reported'
  BY DEF Reported, LifeQuiet, RetQuiet, Told

LEMMA CollectsKeeps == ASSUME Reported, NEW c \in Caller, Collects(c) PROVE Reported'
<1>1. PICK q \in Proc :
        life[q] = "zombie" /\ life' = [life EXCEPT ![q] = "gone"] /\ ret'[c].of = q
  BY DEF Collects
<1>2. /\ DOMAIN life' = Proc /\ life'[q] = "gone"
      /\ \A r \in Proc : life[r] = "gone" => life'[r] = "gone" /\ r # q
  BY <1>1 DEF Reported
<1>3. DOMAIN ret' = Caller /\ \A d \in Caller \ {c} : ret'[d] = ret[d]
  BY DEF Collects
<1>4. \A d \in Caller : Told(d)' => ret'[d].of \in Proc /\ life'[ret'[d].of] = "gone"
  BY <1>1, <1>2, <1>3 DEF Reported, Told
<1>5. \A d \in Caller \ {c} : Told(d)' => ret'[d].of # q
  BY <1>2, <1>3 DEF Reported, Told
<1>6. \A d, e \in Caller : Told(d)' /\ Told(e)' => d = e \/ ret'[d].of # ret'[e].of
  BY <1>1, <1>3, <1>5 DEF Reported, Told
<1> QED BY <1>2, <1>3, <1>4, <1>6 DEF Reported, Told

\* A step of the table brings nobody back.
LEMMA SameTableQuiet == ASSUME Reported, UNCHANGED kernelVars PROVE LifeQuiet
  BY DEF Reported, LifeQuiet, kernelVars

LEMMA TableQuiet ==
  ASSUME Reported, NEW q \in Proc,
         \/ \E p, mine : Fork(q, p, mine)
         \/ Exec(q) \/ Exit(q) \/ ReapedByParent(q) \/ Reap(q)
         \/ \E sig : Deliver(q, sig)
  PROVE  LifeQuiet
<1>1. CASE \E p, mine : Fork(q, p, mine)
  BY <1>1 DEF Fork, Reported, LifeQuiet
<1>2. CASE Exec(q)
  BY <1>2 DEF Exec, Reported, LifeQuiet
<1>3. CASE Exit(q)
  BY <1>3 DEF Exit, Reported, LifeQuiet
<1>4. CASE ReapedByParent(q) \/ Reap(q)
  BY <1>4 DEF ReapedByParent, Reap, Reported, LifeQuiet
<1>5. CASE \E sig : Deliver(q, sig)
  BY <1>5 DEF Deliver, Reported, LifeQuiet
<1> QED BY <1>1, <1>2, <1>3, <1>4, <1>5

\* So does a call that begins, or ends with another answer.
LEMMA SameRetQuiet == ASSUME Reported, UNCHANGED ret PROVE RetQuiet
  BY DEF Reported, RetQuiet

LEMMA GotoQuiet ==
  ASSUME Reported, NEW c \in Caller, NEW label, NEW o, NEW q, Goto(c, label, o, q)
  PROVE  RetQuiet
  BY ProcessApiAssumption DEF Goto, Reported, RetQuiet, Told, NoAnswer, Op, Wait

LEMMA ReturnQuiet ==
  ASSUME Reported, NEW c \in Caller, NEW o, NEW v, NEW q, NEW why, o # "wait" \/ v # 0,
         Return(c, o, v, q, why)
  PROVE  RetQuiet
  BY DEF Return, Reported, RetQuiet, Told

LEMMA ReturnCollects ==
  ASSUME Reported, NEW c \in Caller, NEW q \in Proc, Reap(q), Return(c, "wait", 0, q, {})
  PROVE  Collects(c)
<1>1. DOMAIN ret' = Caller /\ ret'[c].of = q /\ \A d \in Caller \ {c} : ret'[d] = ret[d]
  BY DEF Return, Reported
<1> QED BY <1>1 DEF Collects, Reap

-----------------------------------------------------------------------------
(***************************************************************************)
(* The steps that several platforms have in common.                        *)
(***************************************************************************)
LEMMA EnvironmentReports == ASSUME Reported, Environment PROVE Reported'
<1>1. LifeQuiet
  BY TableQuiet DEF Environment
<1>2. RetQuiet
  BY SameRetQuiet DEF Environment
<1> QED BY <1>1, <1>2, QuietKeeps

LEMMA HandleReports ==
  ASSUME Reported, NEW c \in Caller,
         (\E p \in Pid \cup {0} : ProcessNew(c, p)) \/ ProcessFree(c)
  PROVE  Reported'
<1>1. LifeQuiet
  BY SameTableQuiet DEF ProcessNew, ProcessFree
<1>2. RetQuiet
  BY ProcessApiAssumption DEF ProcessNew, ProcessFree, Reported, RetQuiet, Told, NoAnswer, Op, Wait
<1> QED BY <1>1, <1>2, QuietKeeps

LEMMA FailReports ==
  ASSUME Reported, NEW c \in Caller, NEW o, NEW why, o # "wait", Fail(c, o, why)
  PROVE  Reported'
  BY SameTableQuiet, ReturnQuiet, QuietKeeps DEF Fail

LEMMA FillReports ==
  ASSUME Reported, NEW c \in Caller, NEW f, NEW q, f # "wait", Fill(c, f, q)
  PROVE  Reported'
  BY SameTableQuiet, ReturnQuiet, QuietKeeps DEF Fill

\* A getter that keeps what it reads, in one system call or two.
LEMMA GetterReports ==
  ASSUME Reported, NEW c \in Caller, NEW f, f # "wait",
         FillIfAlive(c, f) \/ FillIfPresent(c, f) \/ ReturnCached(c, f) \/ OpenProcFile(c, f)
  PROVE  Reported'
<1>1. CASE FillIfAlive(c, f)
  BY <1>1, FillReports, FailReports DEF FillIfAlive
<1>2. CASE FillIfPresent(c, f)
  BY <1>2, FillReports, FailReports DEF FillIfPresent
<1>3. CASE ReturnCached(c, f)
  BY <1>3, SameTableQuiet, ReturnQuiet, QuietKeeps DEF ReturnCached
<1>4. CASE OpenProcFile(c, f)
  BY <1>4, SameTableQuiet, GotoQuiet, QuietKeeps, FailReports DEF OpenProcFile
<1> QED BY <1>1, <1>2, <1>3, <1>4

LEMMA ReadReports ==
  ASSUME Reported, NEW c \in Caller, ReadField(c) \/ ReadPpid(c) \/ ReadStatus(c)
  PROVE  Reported'
<1>1. CASE ReadField(c)
  <2>1. op[c] # "wait"
    BY <1>1 DEF ReadField, Field
  <2> QED BY <1>1, <2>1, FillReports, FailReports DEF ReadField
<1>2. CASE ReadPpid(c)
  BY <1>2, SameTableQuiet, ReturnQuiet, QuietKeeps DEF ReadPpid
<1>3. CASE ReadStatus(c)
  BY <1>3, SameTableQuiet, ReturnQuiet, QuietKeeps DEF ReadStatus
<1> QED BY <1>1, <1>2, <1>3

LEMMA SignalReports ==
  ASSUME Reported, NEW c \in Caller, Suspend(c) \/ Resume(c) \/ Terminate(c) \/ Kill(c)
  PROVE  Reported'
<1>1. PICK sig : SendSignal(c, sig)
  BY DEF Suspend, Resume, Terminate, Kill
<1>2. LifeQuiet
  BY <1>1, TableQuiet DEF SendSignal, At
<1>3. RetQuiet
  BY <1>1, SameRetQuiet DEF SendSignal
<1> QED BY <1>2, <1>3, QuietKeeps

\* process_wait: only the step that collects reports an exit.
LEMMA WaitReports ==
  ASSUME Reported, NEW c \in Caller,
         \/ \E t : WaitBegin(c, t)
         \/ WaitCollects(c) \/ WaitNoChild(c) \/ WaitInterrupted(c)
         \/ WaitPolls(c) \/ WaitSleeps(c) \/ WaitTimesOut(c)
  PROVE  Reported'
<1>1. CASE \E t : WaitBegin(c, t)
  BY <1>1, SameTableQuiet, GotoQuiet, QuietKeeps DEF WaitBegin
<1>2. CASE WaitCollects(c)
  BY <1>2, ReturnCollects, CollectsKeeps DEF WaitCollects, Kid, At
<1>3. CASE WaitNoChild(c) \/ WaitInterrupted(c) \/ WaitTimesOut(c)
  BY <1>3, SameTableQuiet, ReturnQuiet, QuietKeeps DEF WaitNoChild, WaitInterrupted, WaitTimesOut
<1>4. CASE WaitPolls(c) \/ WaitSleeps(c)
  BY <1>4, SameTableQuiet, SameRetQuiet, QuietKeeps DEF WaitPolls, WaitSleeps
<1> QED BY <1>1, <1>2, <1>3, <1>4

-----------------------------------------------------------------------------
(***************************************************************************)
(* Each platform.                                                          *)
(***************************************************************************)
LEMMA LinuxReports ==
  ASSUME Reported, NEW c \in Caller, Begin(c) \/ Continue(c)
  PROVE  Reported'
<1>1. CASE Begin(c)
  <2>1. CASE GetName(c) \/ GetExe(c) \/ GetCwd(c) \/ GetUsername(c) \/ GetCreateTime(c)
    BY <2>1, GetterReports DEF GetName, GetExe, GetCwd, GetUsername, GetCreateTime, OpenUncached
  <2>2. CASE GetPpid(c) \/ GetStatus(c)
    BY <2>2, GetterReports DEF GetPpid, GetStatus
  <2>3. CASE IsRunningStat(c)
    BY <2>3, SameTableQuiet, GotoQuiet, QuietKeeps, FailReports DEF IsRunningStat
  <2> QED BY <1>1, <2>1, <2>2, <2>3, HandleReports, SignalReports, WaitReports DEF Begin
<1>2. CASE Continue(c)
  <2>1. CASE IsRunningOpen(c)
    BY <2>1, GetterReports DEF IsRunningOpen
  <2>2. CASE IsRunningRead(c)
    BY <2>2, SameTableQuiet, ReturnQuiet, QuietKeeps DEF IsRunningRead
  <2> QED BY <1>2, <2>1, <2>2, ReadReports, WaitReports DEF Continue
<1> QED BY <1>1, <1>2

\* On macOS is_running collects as well, but its answer is not that of a wait.
LEMMA MacReports ==
  ASSUME Reported, NEW c \in Caller, MacBegin(c) \/ MacWaits(c)
  PROVE  Reported'
<1>1. CASE MacGetName(c) \/ MacGetUsername(c) \/ MacGetCreateTime(c) \/ MacGetExe(c) \/ MacGetCwd(c)
  BY <1>1, GetterReports DEF MacGetName, MacGetUsername, MacGetCreateTime, MacGetExe, MacGetCwd
<1>2. CASE MacGetPpid(c)
  BY <1>2, SameTableQuiet, ReturnQuiet, QuietKeeps DEF MacGetPpid
<1>3. CASE MacGetStatus(c)
  BY <1>3, SameTableQuiet, ReturnQuiet, QuietKeeps DEF MacGetStatus
<1>4. CASE MacIsRunning(c)
  <2>1. LifeQuiet
    BY <1>4, SameTableQuiet, TableQuiet DEF MacIsRunning, Kid, At
  <2>2. RetQuiet
    BY <1>4, ReturnQuiet DEF MacIsRunning
  <2> QED BY <2>1, <2>2, QuietKeeps
<1>5. CASE MacHandles(c) \/ MacSignals(c)
  BY <1>5, HandleReports, SignalReports DEF MacHandles, MacSignals
<1>6. CASE MacWaitBegins(c) \/ MacWaits(c)
  BY <1>6, WaitReports DEF MacWaitBegins, MacWaits
<1> QED BY <1>1, <1>2, <1>3, <1>4, <1>5, <1>6 DEF MacBegin

LEMMA BsdReplaceReports ==
  ASSUME Reported, NEW c \in Caller, NEW f, NEW Q, f # "wait", BsdReplace(c, f, Q)
  PROVE  Reported'
<1>1. UNCHANGED kernelVars /\ \E v, q, why : Return(c, f, v, q, why)
  BY DEF BsdReplace, Fail
<1> QED BY <1>1, SameTableQuiet, ReturnQuiet, QuietKeeps

LEMMA BsdAskReports ==
  ASSUME Reported, NEW c \in Caller, NEW o, NEW v, NEW none, o # "wait", BsdAsk(c, o, v, none)
  PROVE  Reported'
<1>1. UNCHANGED kernelVars /\ \E n, q, why : Return(c, o, n, q, why)
  BY DEF BsdAsk
<1> QED BY <1>1, SameTableQuiet, ReturnQuiet, QuietKeeps

LEMMA BsdReports == ASSUME Reported, NEW c \in Caller, BsdBegin(c) PROVE Reported'
<1>1. CASE BsdGetName(c) \/ BsdGetUsername(c) \/ BsdGetExe(c) \/ BsdGetCwd(c)
  BY <1>1, BsdReplaceReports DEF BsdGetName, BsdGetUsername, BsdGetExe, BsdGetCwd
<1>2. CASE BsdGetCreateTime(c) \/ BsdGetPpid(c) \/ BsdGetStatus(c)
  BY <1>2, BsdAskReports DEF BsdGetCreateTime, BsdGetPpid, BsdGetStatus
<1>3. CASE BsdWait(c)
  <2>1. CASE \E q \in Kid(hpid[c]) : Reap(q) /\ Return(c, "wait", 0, q, {})
    BY <2>1, ReturnCollects, CollectsKeeps DEF Kid, At
  <2>2. CASE Return(c, "wait", -1, None, {}) /\ UNCHANGED kernelVars
    BY <2>2, SameTableQuiet, ReturnQuiet, QuietKeeps
  <2> QED BY <1>3, <2>1, <2>2 DEF BsdWait
<1>4. CASE BsdIsRunning(c)
  BY <1>4, SameTableQuiet, ReturnQuiet, QuietKeeps DEF BsdIsRunning
<1>5. CASE BsdHandles(c) \/ BsdSignals(c)
  BY <1>5, HandleReports, SignalReports DEF BsdHandles, BsdSignals
<1> QED BY <1>1, <1>2, <1>3, <1>4, <1>5 DEF BsdBegin

LEMMA AndroidReports ==
  ASSUME Reported, NEW c \in Caller, AndroidBegin(c) \/ AndroidContinue(c)
  PROVE  Reported'
<1>1. CASE AndroidBegin(c)
  <2>1. CASE \E p \in Pid \cup {0} : AndroidNew(c, p)
    BY <2>1, SameTableQuiet, GotoQuiet, QuietKeeps DEF AndroidNew, NewReadsFrom
  <2>2. CASE AndroidGetName(c) \/ AndroidGetUsername(c) \/ AndroidGetExe(c) \/ AndroidGetCwd(c)
    BY <2>2, GetterReports
       DEF AndroidGetName, AndroidGetUsername, AndroidGetExe, AndroidGetCwd, OpenUncached
  <2>3. CASE AndroidGetCreateTime(c)
    BY <2>3, GetterReports, FailReports DEF AndroidGetCreateTime
  <2>4. CASE AndroidGetPpid(c) \/ AndroidGetStatus(c)
    BY <2>4, GetterReports DEF AndroidGetPpid, AndroidGetStatus
  <2>5. CASE AndroidIsRunning(c)
    BY <2>5, SameTableQuiet, ReturnQuiet, QuietKeeps DEF AndroidIsRunning
  <2>6. CASE \E t \in Timeouts : AndroidWaitBegin(c, t)
    BY <2>6, SameTableQuiet, GotoQuiet, QuietKeeps DEF AndroidWaitBegin
  <2> QED BY <1>1, <2>1, <2>2, <2>3, <2>4, <2>5, <2>6, HandleReports, SignalReports, WaitReports
          DEF AndroidBegin, AndroidSignals
<1>2. CASE AndroidContinue(c)
  <2>1. CASE AndroidNewOpens(c)
    BY <2>1, SameTableQuiet, GotoQuiet, QuietKeeps DEF AndroidNewOpens, NewTurnsTo
  <2>2. CASE AndroidNewReads(c)
    BY <2>2, SameTableQuiet, GotoQuiet, QuietKeeps DEF AndroidNewReads, NewTurnsTo
  <2>3. CASE AndroidWaitTimesOut(c)
    BY <2>3, SameTableQuiet, ReturnQuiet, QuietKeeps DEF AndroidWaitTimesOut
  <2> QED BY <1>2, <2>1, <2>2, <2>3, ReadReports, WaitReports DEF AndroidContinue
<1> QED BY <1>1, <1>2

LEMMA ReportInvStep == ReportInv /\ [PlatformNext]_platformVars => ReportInv'
<1> SUFFICES ASSUME ReportInv, [PlatformNext]_platformVars, platform' # "windows"
             PROVE  Reported'
  BY DEF ReportInv
<1>1. platform' = platform
  BY DEF PlatformNext, GoesOn, platformVars
<1>2. Reported
  BY <1>1 DEF ReportInv
<1>3. CASE UNCHANGED platformVars
  BY <1>2, <1>3 DEF platformVars, vars, kernelVars, callVars, Reported, Told
<1>4. CASE Environment
  BY <1>2, <1>4, EnvironmentReports
<1>5. ASSUME NEW c \in Caller, Begins(c) PROVE Reported'
  BY <1>1, <1>2, <1>5, LinuxReports, MacReports, BsdReports, AndroidReports DEF Begins
<1>6. ASSUME NEW c \in Caller, GoesOn(c) PROVE Reported'
  BY <1>1, <1>2, <1>6, LinuxReports, MacReports, AndroidReports DEF GoesOn
<1> QED BY <1>1, <1>3, <1>4, <1>5, <1>6 DEF PlatformNext

\* On every platform but Windows, where nothing is collected, the exit of one
\* child is reported to one process_wait only, however many threads wait for it.
THEOREM ExitReportedOnce == PlatformSpec => []OneWaitPerExit
<1>1. ReportInv => OneWaitPerExit
  BY DEF ReportInv, Reported, Told, OneWaitPerExit
<1> QED BY <1>1, ReportInvInit, ReportInvStep, PTL DEF PlatformSpec
=============================================================================
