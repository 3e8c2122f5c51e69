--------------------------- MODULE LinuxNet_proofs ---------------------------
(***************************************************************************)
(* Theorems about LinuxNet, for any sockets and any sizes of the arrays.   *)
(***************************************************************************)
EXTENDS LinuxNet, FiniteSetTheorems, TLAPS

File == {"tcp", "tcp6", "udp", "udp6"}

\* The kinds name the files that the code asks for.
LEMMA KindsNameFiles ==
  ASSUME NEW k \in Kind, NEW t \in File
  PROVE  AsksFor(k, t) <=> t \in Named[k]
  BY DEF Kind, File, AsksFor, Named

LEMMA FilesInOrder ==
  /\ Len(Tables) = 4 /\ DOMAIN Tables = 1..4
  /\ Tables[1] = "tcp" /\ Tables[2] = "tcp6" /\ Tables[3] = "udp" /\ Tables[4] = "udp6"
  /\ {Tables[i] : i \in DOMAIN Tables} = File
<1>1. Len(Tables) = 4 /\ DOMAIN Tables = 1..4
  BY DEF Tables
<1>2. Tables[1] = "tcp" /\ Tables[2] = "tcp6" /\ Tables[3] = "udp" /\ Tables[4] = "udp6"
  BY DEF Tables
<1>3. \A i \in 1..4 : Tables[i] \in File
  BY <1>2 DEF File
<1>4. \A t \in File : \E i \in 1..4 : Tables[i] = t
  BY <1>2 DEF File
<1> QED BY <1>1, <1>2, <1>3, <1>4

-----------------------------------------------------------------------------
(***************************************************************************)
(* Types, and what each place of the code relies on.                       *)
(***************************************************************************)
Answered == [kind : Kind \cup {"none"}, own : BOOLEAN, list : Seq(Socket),
             inodes : SUBSET Nat, closed : SUBSET File]

NetTyped ==
  /\ TypeOK
  /\ list \in Seq(Socket) /\ answer \in Answered
  /\ pc = "idle" => list = <<>> /\ table = 1 /\ cursor = 0 /\ closed = {} /\ seen = {} /\ inodes = {}
  /\ pc = "idle" => kind = "none" /\ ~own
  /\ pc # "idle" => kind \in Kind /\ answer = NoAnswer
  /\ pc = "fds" => own /\ list = <<>> /\ table = 1 /\ cursor = 0 /\ closed = {}
  /\ since \subseteq there /\ (pc # "idle" => there \subseteq ever)

LEMMA NoAnswerTyped == NoAnswer \in Answered
  BY DEF NoAnswer, Answered

LEMMA NetTypedInit == Init => NetTyped
<1> SUFFICES ASSUME Init PROVE NetTyped
  OBVIOUS
<1>1. Room \in Nat \ {0}
  BY LinuxNetAssumption DEF Room
<1>2. <<>> \in Seq(Socket) /\ Len(<<>>) = 0
  OBVIOUS
<1>3. closed \in SUBSET {Tables[i] : i \in DOMAIN Tables}
  BY DEF Init
<1>4. Len(list) <= Room
  BY <1>1, <1>2 DEF Init
<1>5. pc \in {"idle", "fds", "tables"} /\ kind \in Kind \cup {"none"} /\ own \in BOOLEAN
  BY DEF Init
<1>6. seen \in SUBSET Socket /\ inodes \in SUBSET Nat /\ table \in 1..5 /\ cursor \in Nat
  BY DEF Init
<1>7. there \in SUBSET Socket /\ since \in SUBSET Socket /\ ever \in SUBSET Socket
  BY DEF Init
<1>8. TypeOK
  BY <1>3, <1>4, <1>5, <1>6, <1>7 DEF TypeOK
<1> QED BY <1>2, <1>8, NoAnswerTyped DEF Init, NetTyped

LEMMA ReturnTyped ==
  ASSUME NetTyped, pc # "idle", NEW l \in Seq(Socket), Return(l), UNCHANGED <<there, since, ever>>
  PROVE  NetTyped'
<1>1. Room' \in Nat \ {0}
  BY LinuxNetAssumption DEF Room
<1>2. <<>> \in Seq(Socket) /\ Len(<<>>) = 0
  OBVIOUS
<1>3. answer' \in Answered
  BY FilesInOrder DEF Return, NetTyped, TypeOK, Answered
<1>4. Len(list') <= Room'
  BY <1>1, <1>2 DEF Return
<1>5. TypeOK'
  <2>1. closed' \in SUBSET {Tables[i] : i \in DOMAIN Tables}
    BY DEF Return
  <2>2. there' \in SUBSET Socket /\ since' \in SUBSET Socket /\ ever' \in SUBSET Socket
    BY DEF NetTyped, TypeOK
  <2>3. pc' \in {"idle", "fds", "tables"} /\ kind' \in Kind \cup {"none"} /\ own' \in BOOLEAN
    BY DEF Return
  <2>4. seen' \in SUBSET Socket /\ inodes' \in SUBSET Nat
    BY DEF Return
  <2>5. table' \in 1..5 /\ cursor' \in Nat
    BY DEF Return
  <2> QED BY <1>4, <2>1, <2>2, <2>3, <2>4, <2>5 DEF TypeOK
<1>6. /\ pc' = "idle" /\ list' = <<>> /\ table' = 1 /\ cursor' = 0 /\ closed' = {}
      /\ seen' = {} /\ inodes' = {} /\ kind' = "none" /\ ~own' /\ list' \in Seq(Socket)
  BY <1>2 DEF Return
<1>7. since' \subseteq there'
  BY DEF NetTyped
<1>8. pc' = "idle" /\ ~(pc' # "idle") /\ ~(pc' = "fds")
  BY <1>6
<1> QED BY <1>3, <1>5, <1>6, <1>7, <1>8 DEF NetTyped

LEMMA NetTypedStep == NetTyped /\ [Next]_vars => NetTyped'
<1> SUFFICES ASSUME NetTyped, [Next]_vars PROVE NetTyped'
  OBVIOUS
<1> USE LinuxNetAssumption
<1>t. /\ TypeOK /\ list \in Seq(Socket) /\ Len(list) \in Nat
      /\ Capacity \in Nat /\ OwnCapacity \in Nat /\ Room \in Nat /\ Room > 0
  BY DEF NetTyped, Room
<1>1. CASE Change
  <2>1. there' \in SUBSET Socket /\ since' \in SUBSET Socket /\ ever' \in SUBSET Socket
    BY <1>1, <1>t DEF Change, TypeOK
  <2>2. TypeOK'
    BY <1>1, <1>t, <2>1 DEF Change, callVars, TypeOK, Room
  <2> QED BY <1>1, <2>2 DEF Change, callVars, NetTyped
<1>2. ASSUME NEW k \in Kinds, NEW mine \in BOOLEAN, Begin(k, mine) PROVE NetTyped'
  <2>1. k \in Kind /\ list = <<>> /\ Len(list) = 0
    BY <1>2 DEF Begin, NetTyped
  <2>2. pc' \in {"idle", "fds", "tables"} /\ kind' \in Kind \cup {"none"} /\ own' \in BOOLEAN
    BY <1>2, <1>t, <2>1 DEF Begin, TypeOK
  <2>3. Room' \in Nat
    BY DEF Room
  <2>4. Len(list') <= Room'
    BY <1>2, <2>1, <2>3 DEF Begin, Room
  <2>5. TypeOK'
    BY <1>2, <1>t, <2>2, <2>4 DEF Begin, TypeOK
  <2> QED BY <1>2, <2>1, <2>5, NoAnswerTyped DEF Begin, NetTyped
<1>3. CASE CollectInode
  <2>1. seen' \in SUBSET Socket /\ inodes' \in SUBSET Nat
    <3>1. seen \in SUBSET Socket /\ inodes \in SUBSET Nat /\ there \in SUBSET Socket
      BY <1>t DEF TypeOK
    <3>2. PICK s \in there : seen' = seen \cup {s} /\ inodes' = inodes \cup {s.inode}
      BY <1>3 DEF CollectInode
    <3> QED BY <3>1, <3>2
  <2>2. TypeOK'
    BY <1>3, <1>t, <2>1 DEF CollectInode, TypeOK, Room
  <2>3. pc = "fds" /\ UNCHANGED <<there, pc, kind, own, table, cursor, list, closed, answer, since, ever>>
    BY <1>3 DEF CollectInode
  <2> QED BY <2>2, <2>3 DEF NetTyped
<1>4. CASE Collected
  BY <1>4 DEF Collected, NetTyped, TypeOK, Room
<1>5. CASE CollectedNone
  <2>1. <<>> \in Seq(Socket) /\ pc # "idle"
    BY <1>5 DEF CollectedNone
  <2> QED BY <1>5, <2>1, ReturnTyped DEF CollectedNone
<1>6. CASE ReadLine
  <2> PICK s \in InTable(Tables[table]) :
         cursor' = s.at /\ list' = IF Parses(s) /\ Passes(s) THEN Append(list, s) ELSE list
    BY <1>6 DEF ReadLine
  <2>1. s \in Socket /\ s.at \in Nat
    BY <1>t DEF InTable, TypeOK
  <2>2. /\ list' \in Seq(Socket) /\ Len(list') <= Room
    BY <1>6, <1>t, <2>1 DEF ReadLine, HasRoom
  <2>3. TypeOK'
    BY <1>6, <1>t, <2>1, <2>2 DEF ReadLine, TypeOK, Room
  <2> QED BY <1>6, <2>2, <2>3 DEF ReadLine, NetTyped
<1>7. CASE NextTable
  BY <1>7, FilesInOrder DEF NextTable, NetTyped, TypeOK, Room
<1>8. CASE OpenFails
  <2>1. table \in 1..4 /\ Tables[table] \in {Tables[i] : i \in DOMAIN Tables}
    BY <1>8, <1>t, FilesInOrder DEF OpenFails, TypeOK
  <2> QED BY <1>8, <2>1 DEF OpenFails, NetTyped, TypeOK, Room
<1>9. CASE Finish
  BY <1>9, <1>t, ReturnTyped DEF Finish
<1>10. CASE UNCHANGED vars
  BY <1>10 DEF vars, callVars, NetTyped, TypeOK, Room
<1> QED
  BY <1>1, <1>2, <1>3, <1>4, <1>5, <1>6, <1>7, <1>8, <1>9, <1>10 DEF Next

\* Type correctness of the connections; it says that no array is ever filled
\* beyond its end.
THEOREM ConnectionsTyped == Spec => []TypeOK
<1>1. NetTyped => TypeOK
  BY DEF NetTyped
<1> QED BY <1>1, NetTypedInit, NetTypedStep, PTL DEF Spec

-----------------------------------------------------------------------------
(***************************************************************************)
(* What is listed.                                                         *)
(***************************************************************************)

\* Appending one element to a sequence.
LEMMA Appended ==
  ASSUME NEW S, NEW s \in Seq(S), NEW x \in S
  PROVE  /\ Append(s, x) \in Seq(S)
         /\ Len(Append(s, x)) = Len(s) + 1
         /\ DOMAIN Append(s, x) = DOMAIN s \cup {Len(s) + 1}
         /\ \A i \in DOMAIN s : Append(s, x)[i] = s[i]
         /\ Append(s, x)[Len(s) + 1] = x
  OBVIOUS

EachOnce(s) == \A i, j \in DOMAIN s : i # j => s[i] # s[j]

\* A sequence without repetitions has as many elements as its length says.
LEMMA AsManyAsLong ==
  ASSUME NEW S, NEW s \in Seq(S), EachOnce(s)
  PROVE  Cardinality({s[i] : i \in DOMAIN s}) = Len(s)
<1> DEFINE T == {s[i] : i \in DOMAIN s}
<1>1. Len(s) \in Nat /\ DOMAIN s = 1..Len(s)
  OBVIOUS
<1>2. s \in [1..Len(s) -> T]
  BY <1>1
<1>3. s \in Bijection(1..Len(s), T)
  BY <1>1, <1>2 DEF Bijection, Injection, Surjection, IsInjective, EachOnce
<1>4. ExistsBijection(1..Len(s), T)
  BY <1>3 DEF ExistsBijection
<1> HIDE DEF T
<1>5. Cardinality(T) = Len(s)
  BY <1>1, <1>4, FS_CountingElements
<1> QED BY <1>5 DEF T

\* The line of s is behind the place that has been read up to.
Passed(s) ==
  \E j \in DOMAIN Tables :
    s.table = Tables[j] /\ (j < table \/ (j = table /\ s.at <= cursor))

\* What is stored was there, has been passed, is asked for, and is stored once.
StoredRight ==
  /\ EachOnce(list)
  /\ \A i \in DOMAIN list :
       list[i] \in ever /\ list[i].table \in Named[kind] /\ Passed(list[i])

NetInv == NetTyped /\ StoredRight /\ ListedRight

\* What a line that is read changes: it alone is passed now, among the sockets
\* that are there.
LEMMA LinePassed ==
  ASSUME NetTyped, table \in 1..4, NEW s \in InTable(Tables[table]), table' = table, cursor' = s.at,
         NEW x \in Socket
  PROVE  /\ s \in Socket /\ s \in there /\ s.table = Tables[table]
         /\ ~Passed(s) /\ Passed(s)'
         /\ Passed(x) => Passed(x)'
         /\ Passed(x)' /\ ~Passed(x) => x.table = s.table /\ cursor < x.at /\ x.at <= s.at
<1>1. /\ s \in Socket /\ s \in there /\ s.table = Tables[table] /\ s.at > cursor
      /\ cursor \in Nat /\ s.at \in Nat /\ x.at \in Nat
  BY LinuxNetAssumption DEF InTable, NetTyped, TypeOK
<1>2. \A i, j \in DOMAIN Tables : Tables[i] = Tables[j] => i = j
  BY FilesInOrder
<1>3. ~Passed(s)
  BY <1>1, <1>2, FilesInOrder DEF Passed
<1>4. Passed(s)'
  BY <1>1, FilesInOrder DEF Passed
<1>5. Passed(x) => Passed(x)'
  <2> SUFFICES ASSUME Passed(x) PROVE Passed(x)'
    OBVIOUS
  <2> PICK j \in DOMAIN Tables : x.table = Tables[j] /\ (j < table \/ (j = table /\ x.at <= cursor))
    BY DEF Passed
  <2>1. x.at <= cursor => x.at <= s.at
    BY <1>1
  <2> QED BY <2>1 DEF Passed
<1>6. ASSUME Passed(x)', ~Passed(x) PROVE x.table = s.table /\ cursor < x.at /\ x.at <= s.at
  <2> PICK j \in DOMAIN Tables : x.table = Tables[j] /\ (j < table \/ (j = table /\ x.at <= s.at))
    BY <1>6 DEF Passed
  <2> QED BY <1>1, <1>6 DEF Passed
<1> QED BY <1>1, <1>3, <1>4, <1>5, <1>6

\* What going on to the next file changes: all of this one is passed.
LEMMA FilePassed ==
  ASSUME NetTyped, table \in 1..4, table' = table + 1, cursor' = 0, NEW x \in Socket
  PROVE  Passed(x)' <=> Passed(x) \/ x.table = Tables[table]
<1>1. table \in Nat /\ DOMAIN Tables = 1..4 /\ x.at \in Nat \ {0}
  BY FilesInOrder, LinuxNetAssumption
<1>2. ASSUME Passed(x)' PROVE Passed(x) \/ x.table = Tables[table]
  BY <1>1, <1>2 DEF Passed
<1>3. ASSUME Passed(x) PROVE Passed(x)'
  BY <1>1, <1>3 DEF Passed
<1>4. ASSUME x.table = Tables[table] PROVE Passed(x)'
  BY <1>1, <1>4 DEF Passed
<1> QED BY <1>2, <1>3, <1>4

LEMMA NothingStored ==
  ASSUME list = <<>>
  PROVE  StoredRight
  BY DEF StoredRight, EachOnce

LEMMA NoAnswerListed ==
  ASSUME answer = NoAnswer
  PROVE  Listed = {} /\ ListedRight
<1>1. answer.list = <<>> /\ DOMAIN answer.list = {} /\ Len(answer.list) = 0
  BY DEF NoAnswer
<1>2. Listed = {}
  BY <1>1 DEF Listed
<1> QED BY <1>1, <1>2, FS_EmptySet DEF ListedRight

LEMMA NetInvInit == Init => NetInv
  BY NetTypedInit, NothingStored, NoAnswerListed DEF Init, NetInv

LEMMA ReturnListed ==
  ASSUME NetInv, NEW l \in {<<>>, list}, Return(l), UNCHANGED ever
  PROVE  StoredRight' /\ ListedRight'
<1>1. StoredRight'
  <2>1. list' = <<>>
    BY DEF Return
  <2> QED BY <2>1 DEF StoredRight, EachOnce
<1>2. answer'.list = l /\ answer'.kind = kind
  BY DEF Return
<1>3. EachOnce(l) /\ \A i \in DOMAIN l : l[i] \in ever /\ l[i].table \in Named[kind]
  BY DEF NetInv, StoredRight, EachOnce
<1>4. l \in Seq(Socket)
  <2>1. <<>> \in Seq(Socket) /\ list \in Seq(Socket)
    BY DEF NetInv, NetTyped
  <2> QED BY <2>1
<1>5. Listed' = {l[i] : i \in DOMAIN l}
  BY <1>2 DEF Listed
<1>6. Cardinality(Listed') = Len(l)
  BY <1>3, <1>4, <1>5, AsManyAsLong
<1> QED BY <1>1, <1>2, <1>3, <1>5, <1>6 DEF ListedRight

LEMMA NetInvStep == NetInv /\ [Next]_vars => NetInv'
<1> SUFFICES ASSUME NetInv, [Next]_vars PROVE StoredRight' /\ ListedRight'
  BY NetTypedStep DEF NetInv
<1>t. NetTyped /\ TypeOK /\ StoredRight /\ ListedRight
  BY DEF NetInv, NetTyped
<1>a. ASSUME answer' = answer, pc # "idle" PROVE ListedRight'
  <2>1. answer' = NoAnswer
    BY <1>a, <1>t DEF NetTyped
  <2>2. answer'.list = <<>> /\ DOMAIN answer'.list = {} /\ Len(answer'.list) = 0
    BY <2>1 DEF NoAnswer
  <2>3. Listed' = {}
    BY <2>2 DEF Listed
  <2> QED BY <2>2, <2>3, FS_EmptySet DEF ListedRight
<1>1. CASE Change
  <2>1. UNCHANGED <<list, kind, table, cursor, answer>> /\ ever \subseteq ever'
    BY <1>1 DEF Change, callVars
  <2>2. StoredRight'
    BY <1>t, <2>1 DEF StoredRight, EachOnce, Passed
  <2> QED BY <1>t, <2>1, <2>2 DEF ListedRight, Listed
<1>2. ASSUME NEW k \in Kinds, NEW mine \in BOOLEAN, Begin(k, mine) PROVE StoredRight' /\ ListedRight'
  <2>1. list' = <<>> /\ answer' = NoAnswer
    BY <1>2, <1>t DEF Begin, NetTyped
  <2>2. answer'.list = <<>> /\ DOMAIN answer'.list = {} /\ Len(answer'.list) = 0
    BY <2>1 DEF NoAnswer
  <2>3. Listed' = {}
    BY <2>2 DEF Listed
  <2> QED BY <2>1, <2>2, <2>3, FS_EmptySet DEF ListedRight, StoredRight, EachOnce
<1>3. CASE CollectInode \/ Collected
  <2>1. UNCHANGED <<list, kind, table, cursor, answer, ever>> /\ pc # "idle"
    BY <1>3 DEF CollectInode, Collected
  <2> QED BY <1>t, <1>a, <2>1 DEF StoredRight, EachOnce, Passed
<1>4. CASE CollectedNone \/ Finish
  BY <1>4, ReturnListed DEF CollectedNone, Finish
<1>5. CASE ReadLine
  <2> PICK s \in InTable(Tables[table]) :
         cursor' = s.at /\ list' = IF Parses(s) /\ Passes(s) THEN Append(list, s) ELSE list
    BY <1>5 DEF ReadLine
  <2>1. /\ table \in 1..4 /\ table' = table /\ kind \in Kind /\ AsksFor(kind, Tables[table])
        /\ UNCHANGED <<kind, ever, answer>> /\ pc # "idle" /\ there \subseteq ever
    BY <1>5, <1>t, FilesInOrder DEF ReadLine, NetTyped, TypeOK
  <2>2. s \in Socket /\ s \in there /\ s.table = Tables[table] /\ ~Passed(s) /\ Passed(s)'
    BY <1>t, <2>1, LinePassed DEF InTable, TypeOK
  <2>3. \A x \in Socket : Passed(x) => Passed(x)'
    BY <1>t, <2>1, LinePassed
  <2>4. s.table \in Named[kind]
    BY <2>1, <2>2, KindsNameFiles, FilesInOrder
  <2>5. list \in Seq(Socket) /\ \A i \in DOMAIN list : list[i] \in Socket
    BY <1>t DEF NetTyped
  <2>6. CASE list' = list
    BY <1>t, <1>a, <2>1, <2>3, <2>5, <2>6 DEF StoredRight, EachOnce
  <2>7. CASE list' = Append(list, s)
    <3>1. /\ DOMAIN list' = DOMAIN list \cup {Len(list) + 1}
          /\ \A i \in DOMAIN list : list'[i] = list[i]
          /\ list'[Len(list) + 1] = s
      BY <2>2, <2>5, <2>7, Appended
    <3>2. \A i \in DOMAIN list : list[i] # s
      BY <1>t, <2>2 DEF StoredRight
    <3>3. EachOnce(list')
      BY <1>t, <3>1, <3>2 DEF StoredRight, EachOnce
    <3>4. \A i \in DOMAIN list' : (list[i] \in ever /\ list[i].table \in Named[kind] /\ Passed(list[i]))'
      <4> SUFFICES ASSUME NEW i \in DOMAIN list'
                   PROVE  (list[i] \in ever /\ list[i].table \in Named[kind] /\ Passed(list[i]))'
        OBVIOUS
      <4>1. CASE i = Len(list) + 1
        <5>1. list'[i] = s /\ s \in ever
          BY <2>1, <2>2, <3>1, <4>1
        <5> QED BY <2>1, <2>2, <2>4, <5>1 DEF Passed
      <4>2. CASE i \in DOMAIN list
        <5>1. list'[i] = list[i] /\ list[i] \in Socket /\ list[i] \in ever /\ list[i].table \in Named[kind]
          BY <1>t, <2>5, <3>1, <4>2 DEF StoredRight
        <5>2. Passed(list[i])
          BY <1>t, <4>2 DEF StoredRight
        <5> DEFINE x == list[i]
        <5>3. x \in Socket /\ Passed(x) /\ list'[i] = x
          BY <5>1, <5>2
        <5> QED BY <2>1, <2>3, <5>1, <5>2 DEF Passed
      <4> QED BY <3>1, <4>1, <4>2
    <3> QED BY <1>a, <2>1, <3>3, <3>4 DEF StoredRight
  <2> QED BY <2>6, <2>7
<1>6. CASE NextTable \/ OpenFails
  <2>1. /\ table \in 1..4 /\ table' = table + 1 /\ cursor' = 0
        /\ UNCHANGED <<list, kind, ever, answer>> /\ pc # "idle"
    BY <1>6, <1>t, FilesInOrder DEF NextTable, OpenFails, TypeOK
  <2>2. \A x \in Socket : Passed(x) => Passed(x)'
    BY <1>t, <2>1, FilePassed
  <2>3. \A i \in DOMAIN list : list[i] \in Socket
    BY <1>t DEF NetTyped
  <2> QED BY <1>t, <1>a, <2>1, <2>2, <2>3 DEF StoredRight, EachOnce
<1>7. CASE UNCHANGED vars
  <2>1. UNCHANGED <<list, kind, table, cursor, ever, answer>>
    BY <1>7 DEF vars, callVars
  <2>2. StoredRight'
    BY <1>t, <2>1 DEF StoredRight, EachOnce, Passed
  <2>3. ListedRight'
    BY <1>t, <2>1 DEF ListedRight, Listed
  <2> QED BY <2>2, <2>3
<1> QED BY <1>1, <1>2, <1>3, <1>4, <1>5, <1>6, <1>7 DEF Next

\* A connection that is listed was there at some moment of the call, is of the
\* kind asked for, and is listed once.
THEOREM ConnectionsListedRight == Spec => []ListedRight
<1>1. NetInv => ListedRight
  BY DEF NetInv
<1> QED BY <1>1, NetInvInit, NetInvStep, PTL DEF Spec

-----------------------------------------------------------------------------
(***************************************************************************)
(* What is not listed.                                                     *)
(***************************************************************************)
OverIPv4(s) == s.table \in {"tcp", "udp"}

\* A connection over IPv4 that was there all along and has been passed is stored,
\* or there was no room or no file.
NoneDropped ==
  pc = "tables" /\ ~own =>
    \A s \in since :
      OverIPv4(s) /\ s.table \in Named[kind] /\ Passed(s) =>
        \/ \E i \in DOMAIN list : list[i] = s
        \/ s.table \in closed \/ Len(list) >= Capacity

LEMMA NoneDroppedStep == NetTyped /\ NoneDropped /\ [Next]_vars => NoneDropped'
<1> SUFFICES ASSUME NetTyped, NoneDropped, [Next]_vars, (pc = "tables" /\ ~own)',
                    NEW s \in since', OverIPv4(s), s.table \in Named[kind'], Passed(s)'
             PROVE  \/ \E i \in DOMAIN list' : list'[i] = s
                    \/ s.table \in closed' \/ Len(list') >= Capacity
  BY DEF NoneDropped
<1>t. TypeOK /\ list \in Seq(Socket) /\ since \subseteq there /\ s \in Socket
      /\ (\A x \in Socket : x.at \in Nat \ {0}) /\ since' \in SUBSET Socket
  BY NetTypedStep, LinuxNetAssumption DEF NetTyped, TypeOK
<1>1. CASE Change
  <2>1. UNCHANGED <<pc, own, kind, table, cursor, list, closed>> /\ s \in since
    BY <1>1 DEF Change, callVars
  <2> QED BY <2>1 DEF NoneDropped, Passed
<1>2. ASSUME NEW k \in Kinds, NEW mine \in BOOLEAN, Begin(k, mine) PROVE FALSE
  <2>1. table' = 1 /\ cursor' = 0
    BY <1>2 DEF Begin, NetTyped
  <2> QED BY <1>t, <2>1, FilesInOrder DEF Passed
<1>3. CASE CollectInode \/ Collected
  BY <1>3 DEF CollectInode, Collected, NetTyped
<1>4. CASE CollectedNone \/ Finish
  BY <1>4 DEF CollectedNone, Finish, Return
<1>5. CASE ReadLine
  <2> PICK x \in InTable(Tables[table]) :
         /\ \A t \in InTable(Tables[table]) : x.at <= t.at
         /\ cursor' = x.at /\ list' = IF Parses(x) /\ Passes(x) THEN Append(list, x) ELSE list
    BY <1>5 DEF ReadLine
  <2>1. /\ table \in 1..4 /\ table' = table /\ pc = "tables" /\ ~own /\ s \in since
        /\ UNCHANGED <<kind, closed>>
    BY <1>5, <1>t, FilesInOrder DEF ReadLine, TypeOK
  <2>2. /\ x \in Socket /\ x \in there /\ x.table = Tables[table] /\ ~Passed(x) /\ Passed(x)'
        /\ Passed(s)' /\ ~Passed(s) => s.table = x.table /\ cursor < s.at /\ s.at <= x.at
    BY <1>t, <2>1, LinePassed DEF InTable, TypeOK
  <2>3. /\ \A i \in DOMAIN list : i \in DOMAIN list' /\ list'[i] = list[i]
        /\ Len(list') >= Len(list) /\ Len(list) \in Nat
    BY <1>t, <2>2
  <2>4. CASE Passed(s)
    <3>1. \/ \E i \in DOMAIN list : list[i] = s
          \/ s.table \in closed \/ Len(list) >= Capacity
      BY <2>1, <2>4 DEF NoneDropped
    <3>2. Len(list) >= Capacity => Len(list') >= Capacity
      BY <1>t, <2>2, <2>3, LinuxNetAssumption
    <3> QED BY <2>1, <2>3, <3>1, <3>2
  <2>5. CASE ~Passed(s)
    <3>1. s.table = x.table /\ cursor < s.at /\ s.at <= x.at /\ s \in there
      BY <1>t, <2>1, <2>2, <2>5
    <3>2. s \in InTable(Tables[table])
      BY <2>2, <3>1, <1>t DEF InTable, TypeOK
    <3>3. x.at <= s.at
      BY <3>2
    <3>4. s.at = x.at
      <4>1. s.at \in Nat /\ x.at \in Nat
        BY <1>t, <2>2
      <4> QED BY <3>1, <3>3, <4>1
    <3>5. s = x
      <4>1. \A y, z \in Socket : y.table = z.table /\ y.at = z.at => y = z
        BY LinuxNetAssumption
      <4> QED BY <1>t, <2>2, <3>1, <3>4, <4>1
    <3>6. list' = Append(list, s)
      BY <2>1, <3>5 DEF Parses, Passes, OverIPv4
    <3>7. list'[Len(list) + 1] = s /\ Len(list) + 1 \in DOMAIN list'
      BY <1>t, <3>6, Appended
    <3> QED BY <3>7
  <2> QED BY <2>4, <2>5
<1>6. CASE NextTable \/ OpenFails
  <2>1. /\ table \in 1..4 /\ table' = table + 1 /\ cursor' = 0
        /\ UNCHANGED <<list, kind, own>> /\ pc = "tables" /\ closed \subseteq closed' /\ s \in since
    BY <1>6, <1>t, FilesInOrder DEF NextTable, OpenFails, TypeOK
  <2>2. Passed(s) \/ s.table = Tables[table]
    BY <2>1, <1>t, FilePassed
  <2>3. CASE Passed(s)
    BY <2>1, <2>3 DEF NoneDropped
  <2>4. CASE ~Passed(s) /\ NextTable
    <3>1. s.table = Tables[table] /\ kind \in Kind /\ s.table \in File
      BY <1>t, <2>1, <2>2, <2>4, FilesInOrder DEF NetTyped
    <3>2. AsksFor(kind, Tables[table])
      BY <2>1, <3>1, KindsNameFiles
    <3>3. s \in InTable(Tables[table])
      <4>1. ~(s.at <= cursor)
        BY <2>1, <2>4, <3>1, FilesInOrder DEF Passed
      <4>2. s.at > cursor
        BY <1>t, <4>1 DEF TypeOK
      <4> QED BY <1>t, <2>1, <3>1, <4>2 DEF InTable
    <3>4. ~HasRoom
      BY <2>4, <3>2, <3>3 DEF NextTable
    <3> QED BY <1>t, <2>1, <3>4, LinuxNetAssumption DEF HasRoom, Room
  <2>5. CASE ~Passed(s) /\ OpenFails
    BY <2>2, <2>5 DEF OpenFails
  <2> QED BY <1>6, <2>3, <2>4, <2>5
<1>7. CASE UNCHANGED vars
  <2>1. UNCHANGED <<pc, own, kind, table, cursor, list, closed, since>>
    BY <1>7 DEF vars, callVars
  <2> QED BY <2>1 DEF NoneDropped, Passed
<1> QED BY <1>1, <1>2, <1>3, <1>4, <1>5, <1>6, <1>7 DEF Next

LEMMA MissedStep ==
  NetTyped /\ NoneDropped /\ MissedWhenFull /\ [Next]_vars => MissedWhenFull'
<1> SUFFICES ASSUME NetTyped, NoneDropped, MissedWhenFull, [Next]_vars, (pc = "idle" /\ ~answer.own)',
                    NEW s \in since', s.table \in {"tcp", "udp"} \cap Named[answer'.kind]
             PROVE  s \in Listed' \/ s.table \in answer'.closed \/ Full'
  BY DEF MissedWhenFull
<1>1. CASE Change \/ UNCHANGED vars
  <2>1. pc' = pc /\ answer' = answer /\ s \in since
    BY <1>1 DEF Change, callVars, vars
  <2> QED BY <2>1 DEF MissedWhenFull, Listed, Full
<1>2. ASSUME NEW k \in Kinds, NEW mine \in BOOLEAN, Begin(k, mine) PROVE FALSE
  <2>1. answer'.kind = "none"
    BY <1>2 DEF Begin, NoAnswer
  <2> QED BY <2>1 DEF Named
<1>3. CASE CollectInode \/ Collected \/ ReadLine \/ NextTable \/ OpenFails
  BY <1>3 DEF CollectInode, Collected, ReadLine, NextTable, OpenFails
<1>4. CASE CollectedNone
  BY <1>4 DEF CollectedNone, Return, NetTyped
<1>5. CASE Finish
  <2>1. /\ answer'.kind = kind /\ answer'.list = list /\ answer'.closed = closed /\ answer'.own = own
        /\ pc = "tables" /\ table > 4 /\ table \in 1..5 /\ s \in since
    BY <1>5, FilesInOrder DEF Finish, Return, NetTyped, TypeOK
  <2>2. Passed(s)
    <3>1. s.table \in File
      BY DEF File
    <3>2. PICK j \in DOMAIN Tables : Tables[j] = s.table
      BY <3>1, FilesInOrder
    <3> QED BY <2>1, <3>2, FilesInOrder DEF Passed
  <2>3. \/ \E i \in DOMAIN list : list[i] = s
        \/ s.table \in closed \/ Len(list) >= Capacity
    BY <2>1, <2>2 DEF NoneDropped, OverIPv4
  <2> QED BY <2>1, <2>3 DEF Listed, Full
<1> QED BY <1>1, <1>2, <1>3, <1>4, <1>5 DEF Next

\* A connection over IPv4 that was there during the whole of a net_connections
\* call is missing only if its file could not be opened or the array is full.
THEOREM ConnectionsMissedWhenFull == Spec => []MissedWhenFull
<1>1. Init => NoneDropped /\ MissedWhenFull
  BY DEF Init, NoneDropped, MissedWhenFull
<1> QED BY <1>1, NetTypedInit, NetTypedStep, NoneDroppedStep, MissedStep, PTL DEF Spec
=============================================================================
