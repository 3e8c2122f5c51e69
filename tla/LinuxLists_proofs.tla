-------------------------- MODULE LinuxLists_proofs --------------------------
(***************************************************************************)
(* Theorems about LinuxLists, for every set of entries, every filter and   *)
(* every first size of the array.                                          *)
(***************************************************************************)
EXTENDS LinuxLists, FiniteSetTheorems, TLAPS

USE DEF Growing, TwoPass

\* Appending one element to a sequence.
LEMMA Appended ==
  ASSUME NEW S, NEW s \in Seq(S), NEW x \in S
  PROVE  /\ Append(s, x) \in Seq(S)
         /\ Len(Append(s, x)) = Len(s) + 1
         /\ DOMAIN Append(s, x) = DOMAIN s \cup {Len(s) + 1}
         /\ \A i \in DOMAIN s : Append(s, x)[i] = s[i]
         /\ Append(s, x)[Len(s) + 1] = x
  OBVIOUS

\* What a list names after one more element.
LEMMA IdsAppended ==
  ASSUME NEW s \in Seq(Cell), NEW x \in Cell
  PROVE  Ids(Append(s, x)) = Ids(s) \cup ({x.id} \ {0})
<1> DEFINE t == Append(s, x)
<1>1. /\ DOMAIN t = DOMAIN s \cup {Len(s) + 1}
      /\ \A i \in DOMAIN s : t[i] = s[i]
      /\ t[Len(s) + 1] = x
  BY Appended
<1> HIDE DEF t
<1>2. {t[i].id : i \in DOMAIN t} = {s[i].id : i \in DOMAIN s} \cup {x.id}
  <2>1. ASSUME NEW i \in DOMAIN t PROVE t[i].id \in {s[j].id : j \in DOMAIN s} \cup {x.id}
    BY <1>1
  <2>2. ASSUME NEW i \in DOMAIN s PROVE s[i].id \in {t[j].id : j \in DOMAIN t}
    BY <1>1
  <2>3. x.id \in {t[j].id : j \in DOMAIN t}
    BY <1>1
  <2> QED BY <2>1, <2>2, <2>3
<1> QED BY <1>2 DEF Ids, t

LEMMA EmptySequence ==
  ASSUME NEW S
  PROVE  <<>> \in Seq(S) /\ Len(<<>>) = 0 /\ DOMAIN <<>> = {}
  OBVIOUS

\* The answers of the failure paths and of the others are answers.
LEMMA AnswerTyped ==
  ASSUME NEW f \in Growing \cup TwoPass, NEW l \in Seq(Cell), NEW r \in Nat, NEW n \in Nat
  PROVE  /\ NoAnswer \in Answer
         /\ [NoAnswer EXCEPT !.fn = f] \in Answer
         /\ [fn |-> f, null |-> FALSE, list |-> l, room |-> r, counted |-> n] \in Answer
  BY EmptySequence DEF NoAnswer, Answer

LEMMA NullTyped ==
  ASSUME NEW f \in Growing \cup TwoPass
  PROVE  [NoAnswer EXCEPT !.fn = f] \in Answer /\ NoAnswer \in Answer
  BY EmptySequence DEF NoAnswer, Answer

-----------------------------------------------------------------------------
(***************************************************************************)
(* Type correctness, with what each place of the code relies on.           *)
(***************************************************************************)
Typed == TypeOK /\ Places

LEMMA TypedInit == Init => Typed
<1>1. NoAnswer \in Answer
  BY NullTyped
<1>2. 0 \in 0..MaxFiles
  BY LinuxListsAssumption
<1>3. <<>> \in Seq(Cell)
  OBVIOUS
<1>4. Init => Places
  BY DEF Init, Places
<1>5. ASSUME Init PROVE TypeOK
  <2>1. /\ there \in SUBSET Entry /\ since \in SUBSET Entry /\ ever \in SUBSET Entry
        /\ refused \in SUBSET Entry
    BY <1>5 DEF Init
  <2>2. pc \in {"idle", "count", "scan", "look", "read"} /\ fn \in Growing \cup TwoPass \cup {"none"}
    BY <1>5 DEF Init
  <2>3. /\ cursor \in Entry \cup {0} /\ entry \in Entry \cup {0} /\ counted \in Nat
        /\ room \in Nat /\ files \in 0..MaxFiles /\ starved \in BOOLEAN /\ before \in 0..MaxFiles
    BY <1>2, <1>5 DEF Init
  <2>4. cells \in Seq(Cell) /\ answer \in Answer
    BY <1>1, <1>3, <1>5 DEF Init
  <2> QED BY <2>1, <2>2, <2>3, <2>4 DEF TypeOK
<1> QED BY <1>4, <1>5 DEF Typed

\* A call that ends leaves the state well typed.
LEMMA OverTyped ==
  ASSUME Typed, Over, answer' \in Answer, files' = files - 1, pc \in {"count", "scan", "look"},
         there' = there, since' = since, ever' = ever, refused' = refused, starved' \in BOOLEAN, before' = before
  PROVE  Typed'
  BY LinuxListsAssumption, EmptySequence DEF Typed, TypeOK, Places, Over

LEMMA GiveUpTyped ==
  ASSUME Typed, GiveUp, pc \in {"count", "scan", "look"}, there' = there
  PROVE  Typed'
<1>1. fn \in Growing \cup TwoPass
  BY LinuxListsAssumption DEF Typed, Places
<1>2. answer' \in Answer
  BY <1>1, NullTyped DEF GiveUp, AnswerNull
<1> QED BY <1>2, OverTyped DEF GiveUp, AnswerNull, Typed, TypeOK

LEMMA TypedStep == Typed /\ [Next]_vars => Typed'
<1> SUFFICES ASSUME Typed, [Next]_vars PROVE Typed'
  OBVIOUS
<1> USE LinuxListsAssumption
<1>f. pc # "idle" => fn \in Growing \cup TwoPass
  BY DEF Typed, Places
<1>1. CASE Change
  <2>1. there' \in SUBSET Entry /\ since' \in SUBSET Entry /\ ever' \in SUBSET Entry
    BY <1>1 DEF Change, Typed, TypeOK
  <2> QED BY <1>1, <2>1 DEF Change, Typed, TypeOK, Places, callVars
<1>2. ASSUME NEW f \in Listings, Begin(f) PROVE Typed'
  <2>1. answer' \in Answer
    BY <1>2, NullTyped DEF Begin
  <2>2. f \in Growing \cup TwoPass /\ Room \in Nat /\ pc = "idle"
    BY <1>2 DEF Begin
  <2>3. pc' \in {"idle", "count", "scan"} /\ fn' \in Growing \cup TwoPass \cup {"none"}
    BY <1>2, <2>2 DEF Begin, Typed, TypeOK
  <2>4. room' \in Nat /\ files' \in 0..MaxFiles
    BY <1>2, <2>2 DEF Begin, Typed, TypeOK
  <2>5. TypeOK'
    BY <1>2, <2>1, <2>3, <2>4 DEF Begin, Typed, TypeOK
  <2> QED BY <1>2, <2>2, <2>5 DEF Begin, Typed, TypeOK, Places
<1>3. CASE CountEntry
  BY <1>3 DEF CountEntry, IsNext, Unread, Typed, TypeOK, Places, history
<1>4. CASE Allocate
  BY <1>4 DEF Allocate, Typed, TypeOK, Places, history
<1>5. CASE AllocateFails
  BY <1>5, GiveUpTyped DEF AllocateFails
<1>6. CASE CountedNothing
  <2>1. answer' \in Answer
    BY <1>6, <1>f, NullTyped DEF CountedNothing, AnswerNull
  <2> QED BY <1>6, <2>1, OverTyped DEF CountedNothing, AnswerNull, history, Typed, TypeOK
<1>7. CASE TakeEntry
  <2> PICK e \in there : IsNext(e) /\ cursor' = e
        /\ IF ~Kept(e) THEN UNCHANGED <<room, cells>> ELSE Keep(e)
    BY <1>7 DEF TakeEntry
  <2>1. e \in Entry /\ [id |-> e, full |-> TRUE] \in Cell
    BY DEF Typed, TypeOK, Cell
  <2>2. cells' \in Seq(Cell) /\ room' \in Nat
    <3>1. cells \in Seq(Cell) /\ room \in Nat
      BY DEF Typed, TypeOK
    <3>2. Append(cells, [id |-> e, full |-> TRUE]) \in Seq(Cell)
      BY <2>1, <3>1, Appended
    <3> QED BY <3>1, <3>2 DEF Keep, Store
  <2> QED BY <1>7, <2>1, <2>2 DEF TakeEntry, Typed, TypeOK, Places, history
<1>8. CASE PickEntry
  BY <1>8 DEF PickEntry, IsNext, Unread, Typed, TypeOK, Places, history
<1>9. CASE GrowFails
  BY <1>9, GiveUpTyped DEF GrowFails
<1>10. CASE PassOver
  BY <1>10 DEF PassOver, Advance, Typed, TypeOK, Places
<1>11. CASE LookOpenFile
  <2>1. entry \in Entry /\ [id |-> entry, full |-> TRUE] \in Cell
    BY <1>11 DEF LookOpenFile, Typed, TypeOK, Places, Cell
  <2>2. cells' \in Seq(Cell) /\ room' \in Nat
    <3>1. cells \in Seq(Cell) /\ room \in Nat
      BY DEF Typed, TypeOK
    <3>2. Append(cells, [id |-> entry, full |-> TRUE]) \in Seq(Cell)
      BY <2>1, <3>1, Appended
    <3>3. CASE Keep(entry)
      BY <3>1, <3>2, <3>3 DEF Keep, Store
    <3>4. CASE UNCHANGED <<room, cells>>
      BY <3>1, <3>4
    <3> QED BY <1>11, <3>3, <3>4 DEF LookOpenFile
  <2> QED BY <1>11, <2>2 DEF LookOpenFile, Advance, Typed, TypeOK, Places, history
<1>12. CASE LookInterface
  <2>1. [id |-> entry, full |-> entry \in there] \in Cell
    BY <1>12 DEF LookInterface, Typed, TypeOK, Places, Cell
  <2>2. cells' \in Seq(Cell)
    BY <1>12, <2>1, Appended DEF LookInterface, Store, Typed, TypeOK
  <2> QED BY <1>12, <2>2 DEF LookInterface, Advance, Typed, TypeOK, Places, history
<1>13. CASE OpenThread
  BY <1>13 DEF OpenThread, Typed, TypeOK, Places, history
<1>14. CASE ReadThread
  <2>1. [id |-> entry, full |-> entry \in there] \in Cell
    BY <1>14 DEF ReadThread, Typed, TypeOK, Places, Cell
  <2>2. cells' \in Seq(Cell)
    BY <1>14, <2>1, Appended DEF ReadThread, Store, Typed, TypeOK
  <2> QED BY <1>14, <2>2 DEF ReadThread, Advance, Typed, TypeOK, Places, history
<1>15. CASE Finish
  <2>1. EndMark \in Cell
    BY DEF EndMark, Cell
  <2>2. Append(cells, EndMark) \in Seq(Cell) /\ cells \in Seq(Cell)
    BY <2>1, Appended DEF Typed, TypeOK
  <2>3. answer' \in Answer
    <3>1. fn \in Growing \cup TwoPass /\ room \in Nat /\ counted \in Nat
      BY <1>15, <1>f DEF Finish, Typed, TypeOK
    <3>2. ASSUME NEW l \in Seq(Cell)
          PROVE  [fn |-> fn, null |-> FALSE, list |-> l, room |-> room, counted |-> counted] \in Answer
      BY <3>1, AnswerTyped
    <3>3. [NoAnswer EXCEPT !.fn = fn] \in Answer
      BY <3>1, NullTyped
    <3> QED BY <1>15, <2>2, <3>2, <3>3 DEF Finish, AnswerNull, HandOver
  <2> QED BY <1>15, <2>3, OverTyped DEF Finish, AnswerNull, HandOver, history, Typed, TypeOK
<1>16. CASE UNCHANGED vars
  BY <1>16 DEF vars, callVars, history, Typed, TypeOK, Places
<1> QED
  BY <1>1, <1>2, <1>3, <1>4, <1>5, <1>6, <1>7, <1>8, <1>9, <1>10, <1>11, <1>12,
     <1>13, <1>14, <1>15, <1>16 DEF Next, Step

\* Type correctness of the lists.
THEOREM ListsTyped == Spec => []TypeOK
<1>1. Typed => TypeOK
  BY DEF Typed
<1> QED BY <1>1, TypedInit, TypedStep, PTL DEF Spec

-----------------------------------------------------------------------------
(***************************************************************************)
(* No write beyond the end of an array.                                    *)
(***************************************************************************)

\* Length and room after storing one element.
LEMMA Stored ==
  ASSUME TypeOK, NEW e \in Entry, NEW full \in BOOLEAN, Store(e, full)
  PROVE  Len(cells') = Len(cells) + 1 /\ Len(cells) \in Nat
<1>1. [id |-> e, full |-> full] \in Cell
  BY DEF Cell
<1> QED BY <1>1, Appended DEF Store, TypeOK

LEMMA OverFits ==
  ASSUME Over, Len(answer'.list) <= answer'.room
  PROVE  Fits'
  BY EmptySequence DEF Over, Fits, InBounds

LEMMA NullFits ==
  ASSUME AnswerNull
  PROVE  Fits'
<1>1. answer'.list = <<>> /\ answer'.room = 0
  BY DEF AnswerNull, NoAnswer
<1> QED BY <1>1, OverFits, EmptySequence DEF AnswerNull

LEMMA FitsStep == Typed /\ Fits /\ [Next]_vars => Fits'
<1> SUFFICES ASSUME Typed, Fits, [Next]_vars PROVE Fits'
  OBVIOUS
<1> USE LinuxListsAssumption
<1>t. /\ TypeOK /\ Places /\ Len(cells) \in Nat
      /\ pc # "idle" => fn \in Growing \cup TwoPass
  BY DEF Typed, TypeOK, Places
<1>1. CASE Change
  BY <1>1 DEF Change, Fits, InBounds, callVars
<1>2. ASSUME NEW f \in Listings, Begin(f) PROVE Fits'
  <2>1. Len(NoAnswer.list) <= NoAnswer.room
        /\ Len([NoAnswer EXCEPT !.fn = f].list) <= [NoAnswer EXCEPT !.fn = f].room
    BY EmptySequence DEF NoAnswer
  <2>2. cells = <<>> /\ room = 0 /\ Len(cells) = 0 /\ counted = 0 /\ f \in Growing \cup TwoPass
    BY <1>2, <1>t, EmptySequence DEF Begin, Places
  <2>3. CASE room' = (IF f \in TwoPass THEN 0 ELSE Room) /\ fn' = f /\ pc' # "idle"
    <3>1. cells' = <<>> /\ counted' = 0 /\ answer' = NoAnswer /\ pc' \in {"count", "scan"}
          /\ (pc' = "count" <=> f \in TwoPass)
      BY <1>2, <2>2, <2>3, <1>t DEF Begin
    <3>2. room' >= 0 /\ (pc' = "scan" => room' > 0 /\ fn' \notin TwoPass)
      BY <2>2, <2>3, <3>1
    <3> QED BY <2>1, <2>2, <3>1, <3>2 DEF Fits, InBounds
  <2>4. CASE UNCHANGED <<pc, fn, counted, room, cells>> /\ answer' = [NoAnswer EXCEPT !.fn = f]
    BY <1>2, <2>1, <2>2, <2>4 DEF Begin, Fits, InBounds
  <2> QED BY <1>2, <2>3, <2>4 DEF Begin
<1>3. CASE CountEntry
  BY <1>3, <1>t DEF CountEntry, Fits, InBounds, Places
<1>4. CASE Allocate
  <2>1. Len(cells) = 0 /\ fn \in TwoPass
    BY <1>4, <1>t, EmptySequence DEF Allocate, Places
  <2> QED BY <1>4, <1>t, <2>1 DEF Allocate, Fits, InBounds, TypeOK
<1>5. CASE AllocateFails
  BY <1>5, NullFits DEF AllocateFails, GiveUp
<1>6. CASE CountedNothing
  BY <1>6, NullFits DEF CountedNothing
<1>7. CASE TakeEntry
  <2> PICK e \in there : IF ~Kept(e) THEN UNCHANGED <<room, cells>> ELSE Keep(e)
    BY <1>7 DEF TakeEntry
  <2>1. e \in Entry
    BY <1>t DEF TypeOK
  <2>2. CASE ~Kept(e)
    BY <1>7, <2>2 DEF TakeEntry, Fits, InBounds
  <2>3. CASE Kept(e)
    <3>1. Len(cells') = Len(cells) + 1
      BY <1>t, <2>1, <2>3, Stored DEF Keep
    <3>2. room' = IF fn \in Growing /\ Len(cells) >= room THEN 2 * room ELSE room
      BY <2>3 DEF Keep
    <3>3. fn \in TwoPass => Len(cells) < counted
      BY <1>7 DEF TakeEntry, MoreToRead
    <3> QED BY <1>7, <1>t, <3>1, <3>2, <3>3 DEF TakeEntry, Fits, InBounds, TypeOK
  <2> QED BY <2>2, <2>3
<1>8. CASE PickEntry
  BY <1>8, <1>t DEF PickEntry, MoreToRead, Fits, InBounds, TypeOK
<1>9. CASE GrowFails
  BY <1>9, NullFits DEF GrowFails, GiveUp
<1>10. CASE PassOver
  BY <1>10, <1>t DEF PassOver, Advance, Fits, InBounds, TypeOK
<1>11. CASE LookOpenFile
  <2>1. CASE ~Kept(entry)
    BY <1>11, <2>1, <1>t DEF LookOpenFile, Advance, Fits, InBounds
  <2>2. CASE Kept(entry)
    <3>1. Len(cells') = Len(cells) + 1
      BY <1>11, <1>t, <2>2, Stored DEF LookOpenFile, Keep, Places
    <3>2. room' = IF fn \in Growing /\ Len(cells) >= room THEN 2 * room ELSE room
      BY <1>11, <2>2 DEF LookOpenFile, Keep
    <3> QED BY <1>11, <1>t, <3>1, <3>2 DEF LookOpenFile, Advance, Fits, InBounds, TypeOK
  <2> QED BY <2>1, <2>2
<1>12. CASE LookInterface
  <2>1. Len(cells') = Len(cells) + 1
    <3>1. entry \in Entry /\ (entry \in there) \in BOOLEAN /\ Store(entry, entry \in there)
      BY <1>12, <1>t DEF LookInterface, Places
    <3> QED BY <1>t, <3>1, Stored
  <2> QED BY <1>12, <1>t, <2>1 DEF LookInterface, Advance, Fits, InBounds, TypeOK
<1>13. CASE OpenThread
  BY <1>13, <1>t DEF OpenThread, Fits, InBounds, TypeOK
<1>14. CASE ReadThread
  <2>1. Len(cells') = Len(cells) + 1
    <3>1. entry \in Entry /\ (entry \in there) \in BOOLEAN /\ Store(entry, entry \in there)
      BY <1>14, <1>t DEF ReadThread, Places
    <3> QED BY <1>t, <3>1, Stored
  <2> QED BY <1>14, <1>t, <2>1 DEF ReadThread, Advance, Fits, InBounds, TypeOK, Places
<1>15. CASE Finish
  <2>1. CASE fn = "users" /\ cells = <<>>
    BY <1>15, <2>1, NullFits DEF Finish
  <2>2. CASE ~(fn = "users" /\ cells = <<>>)
    <3>1. Len(Append(cells, EndMark)) = Len(cells) + 1
      BY <1>t, Appended DEF EndMark, Cell, TypeOK
    <3> DEFINE list == IF fn = "disk_partitions" THEN Append(cells, EndMark) ELSE cells
    <3>2. Over /\ answer'.room = room /\ answer'.list = list
      <4>1. HandOver(list)
        BY <1>15, <2>2 DEF Finish
      <4> HIDE DEF list
      <4> QED BY <4>1 DEF HandOver
    <3>3. Len(cells) <= room /\ (fn = "disk_partitions" => Len(cells) + 1 <= room)
      BY <1>15, <1>t DEF Finish, Fits, InBounds, TypeOK
    <3> QED BY <3>1, <3>2, <3>3, OverFits
  <2> QED BY <2>1, <2>2
<1>16. CASE UNCHANGED vars
  BY <1>16 DEF vars, callVars, Fits, InBounds
<1> QED
  BY <1>1, <1>2, <1>3, <1>4, <1>5, <1>6, <1>7, <1>8, <1>9, <1>10, <1>11, <1>12,
     <1>13, <1>14, <1>15, <1>16 DEF Next, Step

\* No list is ever written beyond the end of its array, whatever appears in the
\* source between the two passes.
THEOREM WritesStayInBounds == Spec => []InBounds
<1>1. Init => Fits
  BY EmptySequence DEF Init, Fits, InBounds, NoAnswer
<1>2. Fits => InBounds
  BY DEF Fits
<1> QED BY <1>1, <1>2, TypedInit, TypedStep, FitsStep, PTL DEF Spec

-----------------------------------------------------------------------------
(***************************************************************************)
(* Nothing is kept from one call to the next.                              *)
(***************************************************************************)
ClosedAgain ==
  /\ pc = "idle" /\ answer.fn # "threads" => files = before
  /\ pc # "idle" /\ fn # "threads" => files = before + 1

\* An answer says which function gave it.
LEMMA NullNamed == [NoAnswer EXCEPT !.fn = fn].fn = fn
  BY DEF NoAnswer

LEMMA ClosedAgainStep == Typed /\ ClosedAgain /\ [Next]_vars => ClosedAgain'
<1> SUFFICES ASSUME Typed, ClosedAgain, [Next]_vars PROVE ClosedAgain'
  OBVIOUS
<1> USE NullNamed
<1>0. before \in Nat /\ files \in Nat
  BY LinuxListsAssumption DEF Typed, TypeOK
<1>1. CASE Change
  BY <1>1 DEF Change, callVars, ClosedAgain
<1>2. ASSUME NEW f \in Listings, Begin(f) PROVE ClosedAgain'
  BY <1>2 DEF Begin, ClosedAgain
<1>3. CASE CountEntry \/ Allocate \/ TakeEntry \/ PickEntry
  BY <1>3 DEF CountEntry, Allocate, TakeEntry, PickEntry, ClosedAgain, history
<1>4. CASE AllocateFails \/ GrowFails
  <2>1. pc # "idle" /\ pc' = "idle" /\ before' = before /\ files' = files - 1 /\ answer'.fn = fn
    BY <1>4 DEF AllocateFails, GrowFails, GiveUp, AnswerNull, Over
  <2> QED BY <1>0, <2>1 DEF ClosedAgain
<1>5. CASE CountedNothing
  <2>1. pc # "idle" /\ pc' = "idle" /\ before' = before /\ files' = files - 1 /\ answer'.fn = fn
    BY <1>5 DEF CountedNothing, AnswerNull, Over, history
  <2> QED BY <1>0, <2>1 DEF ClosedAgain
<1>6. CASE PassOver \/ LookOpenFile \/ LookInterface
  BY <1>6 DEF PassOver, LookOpenFile, LookInterface, Advance, ClosedAgain, history
<1>7. CASE OpenThread \/ ReadThread
  <2>1. fn = "threads" /\ fn' = fn /\ pc' # "idle"
    BY <1>7 DEF OpenThread, ReadThread, Advance, Typed, Places
  <2> QED BY <2>1 DEF ClosedAgain
<1>8. CASE Finish
  <2>1. pc # "idle" /\ pc' = "idle" /\ before' = before /\ files' = files - 1
    BY <1>8 DEF Finish, HandOver, AnswerNull, Over, history
  <2>2. answer'.fn = fn
    <3>1. CASE AnswerNull
      BY <3>1 DEF AnswerNull
    <3>2. ASSUME NEW l, HandOver(l) PROVE answer'.fn = fn
      BY <3>2 DEF HandOver
    <3> QED BY <1>8, <3>1, <3>2 DEF Finish
  <2> QED BY <1>0, <2>1, <2>2 DEF ClosedAgain
<1>9. CASE UNCHANGED vars
  BY <1>9 DEF vars, callVars, history, ClosedAgain
<1> QED BY <1>1, <1>2, <1>3, <1>4, <1>5, <1>6, <1>7, <1>8, <1>9 DEF Next, Step

\* Whatever path a call ends on, it leaves no memory behind and, unless it is
\* process_get_threads, no file that was not open before it.
THEOREM NothingStaysHeld == Spec => []NothingHeld
<1>1. Init => ClosedAgain
  BY DEF Init, ClosedAgain
<1>2. Typed /\ ClosedAgain => NothingHeld
  BY DEF Typed, Places, ClosedAgain, NothingHeld
<1> QED BY <1>1, <1>2, ClosedAgainStep, TypedInit, TypedStep, PTL DEF Spec

-----------------------------------------------------------------------------
(***************************************************************************)
(* The order of the entries.                                               *)
(***************************************************************************)

\* Storing the entry at the cursor keeps the order, and moves on.
LEMMA StoredInOrder ==
  ASSUME TypeOK, Ordered, NEW e \in Entry, NEW full \in BOOLEAN, Store(e, full),
         \A i \in DOMAIN cells : cells[i].id < e,
         cursor' = e, entry' = 0, answer' = answer
  PROVE  Ordered'
<1> DEFINE x == [id |-> e, full |-> full]
<1>1. x \in Cell /\ x.id = e
  BY DEF Cell
<1> HIDE DEF x
<1>2. /\ DOMAIN cells' = DOMAIN cells \cup {Len(cells) + 1}
      /\ \A i \in DOMAIN cells : cells'[i] = cells[i]
      /\ cells'[Len(cells) + 1] = x
  BY <1>1, Appended DEF Store, TypeOK, x
<1>3. DOMAIN cells = 1..Len(cells) /\ Len(cells) \in Nat /\ e \in Nat
  BY LinuxListsAssumption DEF TypeOK
<1>4. \A i \in DOMAIN cells' : cells'[i].id \in Entry /\ cells'[i].id <= cursor'
  <2>1. ASSUME NEW i \in DOMAIN cells PROVE cells[i].id \in Entry /\ cells[i].id <= e
    <3>1. cells[i].id \in Entry /\ cells[i].id < e /\ cells[i].id \in Nat
      BY LinuxListsAssumption DEF Ordered
    <3> QED BY <1>3, <3>1
  <2>2. e <= e
    BY <1>3
  <2> QED BY <1>1, <1>2, <2>1, <2>2
<1>5. \A i, j \in DOMAIN cells' : i < j => cells'[i].id < cells'[j].id
  BY <1>1, <1>2, <1>3 DEF Ordered
<1>6. NoneTwice'
  BY DEF Ordered, NoneTwice
<1> QED BY <1>4, <1>5, <1>6 DEF Ordered

LEMMA NextIsAhead ==
  ASSUME TypeOK, Ordered, NEW e \in there, IsNext(e)
  PROVE  e \in Entry /\ e > cursor /\ \A i \in DOMAIN cells : cells[i].id < e
<1>1. e \in Entry /\ e > cursor /\ e \in Nat /\ cursor \in Nat
  BY LinuxListsAssumption DEF TypeOK, IsNext, Unread
<1>2. \A i \in DOMAIN cells : cells[i].id \in Nat /\ cells[i].id <= cursor
  BY LinuxListsAssumption DEF Ordered
<1> QED BY <1>1, <1>2

LEMMA NullOrdered == ASSUME AnswerNull PROVE Ordered'
<1>1. cells' = <<>> /\ answer'.list = <<>>
  BY DEF AnswerNull, Over, NoAnswer
<1> QED BY <1>1, EmptySequence DEF Ordered, NoneTwice

LEMMA OrderedStep == Typed /\ Ordered /\ [Next]_vars => Ordered'
<1> SUFFICES ASSUME Typed, Ordered, [Next]_vars PROVE Ordered'
  OBVIOUS
<1> USE LinuxListsAssumption
<1>t. TypeOK /\ Places
  BY DEF Typed
<1>1. CASE Change \/ UNCHANGED vars
  BY <1>1 DEF Change, vars, callVars, Ordered, NoneTwice
<1>2. ASSUME NEW f \in Listings, Begin(f) PROVE Ordered'
  <2>1. cells' = <<>>
    BY <1>2, <1>t DEF Begin, Places
  <2>2. answer'.list = <<>>
    BY <1>2 DEF Begin, NoAnswer
  <2> QED BY <2>1, <2>2, EmptySequence DEF Ordered, NoneTwice
<1>3. CASE CountEntry \/ Allocate
  <2>1. cells' = <<>> /\ answer' = answer
    BY <1>3, <1>t DEF CountEntry, Allocate, Places
  <2> QED BY <2>1, EmptySequence DEF Ordered, NoneTwice
<1>4. CASE AllocateFails \/ CountedNothing \/ GrowFails
  BY <1>4, NullOrdered DEF AllocateFails, CountedNothing, GrowFails, GiveUp
<1>5. CASE TakeEntry
  <2> PICK e \in there : IsNext(e) /\ cursor' = e
        /\ IF ~Kept(e) THEN UNCHANGED <<room, cells>> ELSE Keep(e)
    BY <1>5 DEF TakeEntry
  <2>1. e \in Entry /\ e > cursor /\ \A i \in DOMAIN cells : cells[i].id < e
    BY <1>t, NextIsAhead
  <2>2. entry' = 0 /\ answer' = answer
    BY <1>5, <1>t DEF TakeEntry, Places
  <2>3. CASE Kept(e)
    BY <1>t, <2>1, <2>2, <2>3, StoredInOrder DEF Keep
  <2>4. CASE ~Kept(e)
    <3>1. cells' = cells
      BY <2>4
    <3>2. \A i \in DOMAIN cells : cells[i].id <= e
      <4>1. ASSUME NEW i \in DOMAIN cells PROVE cells[i].id <= e
        <5>1. cells[i].id \in Nat /\ e \in Nat /\ cells[i].id < e
          BY <2>1 DEF Ordered
        <5> QED BY <5>1
      <4> QED BY <4>1
    <3> QED BY <2>2, <3>1, <3>2 DEF Ordered, NoneTwice
  <2> QED BY <2>3, <2>4
<1>6. CASE PickEntry
  <2> PICK e \in there : IsNext(e) /\ cursor' = e /\ entry' = e
    BY <1>6 DEF PickEntry
  <2>1. e \in Entry /\ e > cursor /\ \A i \in DOMAIN cells : cells[i].id < e
    BY <1>t, NextIsAhead
  <2>2. cells' = cells /\ answer' = answer
    BY <1>6 DEF PickEntry
  <2>3. \A i \in DOMAIN cells : cells[i].id <= e
    <3>1. ASSUME NEW i \in DOMAIN cells PROVE cells[i].id <= e
      <4>1. cells[i].id \in Nat /\ e \in Nat /\ cells[i].id < e
        BY <2>1 DEF Ordered
      <4> QED BY <4>1
    <3> QED BY <3>1
  <2> QED BY <2>1, <2>2, <2>3 DEF Ordered, NoneTwice
<1>7. CASE PassOver \/ OpenThread
  BY <1>7, <1>t DEF PassOver, OpenThread, Advance, Places, Ordered, NoneTwice
<1>8. CASE LookOpenFile \/ LookInterface \/ ReadThread
  <2>1. entry \in Entry /\ entry = cursor /\ cursor' = cursor /\ entry' = 0 /\ answer' = answer
    BY <1>8, <1>t DEF LookOpenFile, LookInterface, ReadThread, Advance, Places
  <2>2. \A i \in DOMAIN cells : cells[i].id < entry
    BY <2>1 DEF Ordered
  <2>3. CASE cells' = cells
    BY <2>1, <2>3 DEF Ordered, NoneTwice
  <2>4. ASSUME NEW full \in BOOLEAN, Store(entry, full) PROVE Ordered'
    BY <1>t, <2>1, <2>2, <2>4, StoredInOrder
  <2>5. (entry \in there) \in BOOLEAN
    OBVIOUS
  <2> QED BY <1>8, <2>3, <2>4, <2>5 DEF LookOpenFile, LookInterface, ReadThread, Keep
<1>9. CASE Finish
  <2>1. CASE fn = "users" /\ cells = <<>>
    BY <1>9, <2>1, NullOrdered DEF Finish
  <2>2. ASSUME NEW list, HandOver(list), \A i, j \in DOMAIN list : i < j => list[i].id # list[j].id
        PROVE  Ordered'
    BY <2>2, EmptySequence DEF HandOver, Over, Ordered, NoneTwice
  <2>3. \A i, j \in DOMAIN cells : i < j => cells[i].id # cells[j].id
    <3>1. ASSUME NEW i \in DOMAIN cells, NEW j \in DOMAIN cells, i < j
          PROVE  cells[i].id # cells[j].id
      <4>1. cells[i].id \in Nat /\ cells[j].id \in Nat /\ cells[i].id < cells[j].id
        BY <3>1 DEF Ordered
      <4> QED BY <4>1
    <3> QED BY <3>1
  <2> DEFINE list == Append(cells, EndMark)
  <2>4. \A i, j \in DOMAIN list : i < j => list[i].id # list[j].id
    <3>1. EndMark \in Cell /\ EndMark.id = 0
      BY DEF EndMark, Cell
    <3>2. /\ DOMAIN list = DOMAIN cells \cup {Len(cells) + 1}
          /\ \A i \in DOMAIN cells : list[i] = cells[i]
          /\ list[Len(cells) + 1] = EndMark
      BY <1>t, <3>1, Appended DEF TypeOK
    <3>3. DOMAIN cells = 1..Len(cells) /\ Len(cells) \in Nat
      BY <1>t DEF TypeOK
    <3>4. \A i \in DOMAIN cells : cells[i].id # 0
      BY DEF Ordered
    <3> HIDE DEF list
    <3> QED BY <2>3, <3>1, <3>2, <3>3, <3>4
  <2> QED BY <1>9, <2>1, <2>2, <2>3, <2>4 DEF Finish
<1> QED
  BY <1>1, <1>2, <1>3, <1>4, <1>5, <1>6, <1>7, <1>8, <1>9 DEF Next, Step

\* No list names an entry twice.
THEOREM NothingListedTwice == Spec => []NoneTwice
<1>1. Init => Ordered
  BY EmptySequence DEF Init, Ordered, NoneTwice, NoAnswer
<1>2. Ordered => NoneTwice
  BY DEF Ordered
<1> QED BY <1>1, <1>2, TypedInit, TypedStep, OrderedStep, PTL DEF Spec

-----------------------------------------------------------------------------
(***************************************************************************)
(* What a call has gathered so far.                                        *)
(***************************************************************************)

\* What is named after storing an entry.
LEMMA StoredIds ==
  ASSUME TypeOK, NEW e \in Entry, NEW full \in BOOLEAN, Store(e, full)
  PROVE  Ids(cells') = Ids(cells) \cup {e}
<1>1. [id |-> e, full |-> full] \in Cell /\ [id |-> e, full |-> full].id = e /\ e # 0
  BY LinuxListsAssumption DEF Cell
<1>2. Ids(cells') = Ids(cells) \cup ({[id |-> e, full |-> full].id} \ {0})
  BY <1>1, IdsAppended DEF Store, TypeOK
<1> QED BY <1>1, <1>2

LEMMA EmptyIds == Ids(<<>>) = {}
  BY EmptySequence DEF Ids

\* A call that goes on stays with its function, and so with its filter.
LEMMA SameFilter ==
  ASSUME fn' = fn, NEW e
  PROVE  Kept(e)' <=> Kept(e)
  BY DEF Kept

\* The next entry leaves nothing unread before it.
LEMMA NoneBetween ==
  ASSUME TypeOK, NEW e \in there, IsNext(e), NEW x \in there, x <= e
  PROVE  x <= cursor \/ x = e
<1>1. x \in Nat /\ e \in Nat /\ cursor \in Nat
  BY LinuxListsAssumption DEF TypeOK
<1>2. CASE x > cursor
  <2>1. e <= x
    BY <1>2 DEF IsNext, Unread
  <2> QED BY <1>1, <2>1
<1> QED BY <1>1, <1>2

LEMMA GatheredStep == Typed /\ Gathered /\ [Next]_vars => Gathered'
<1> SUFFICES ASSUME Typed, Gathered, [Next]_vars PROVE Gathered'
  OBVIOUS
<1> USE LinuxListsAssumption
<1>t. TypeOK /\ Places
  BY DEF Typed
<1>1. CASE Change
  <2>1. UNCHANGED <<pc, fn, cursor, entry, cells, refused>>
        /\ since' = since \cap there' /\ (pc # "idle" => ever' = ever \cup there')
    BY <1>1 DEF Change, callVars
  <2> QED BY <2>1, SameFilter DEF Gathered
<1>2. ASSUME NEW f \in Listings, Begin(f) PROVE Gathered'
  <2>1. /\ cells' = <<>> /\ cursor' = 0 /\ entry' = 0
        /\ since' = there /\ ever' = there /\ there' = there
    BY <1>2, <1>t DEF Begin, Places
  <2>2. \A e \in since' : ~(e <= cursor')
    <3>1. ASSUME NEW e \in there PROVE ~(e <= 0)
      <4>1. e \in Nat /\ e # 0
        BY <1>t DEF TypeOK
      <4> QED BY <4>1
    <3> QED BY <2>1, <3>1
  <2> QED BY <2>1, <2>2, EmptyIds DEF Gathered
<1>3. CASE CountEntry
  BY <1>3, SameFilter DEF CountEntry, history, Gathered
<1>4. CASE Allocate
  <2>1. /\ UNCHANGED <<there, fn, entry, cells, since, ever, refused>>
        /\ pc = "count" /\ pc' = "scan" /\ cursor' = 0
    BY <1>4 DEF Allocate, history
  <2>2. \A e \in since' : ~(e <= cursor')
    <3>1. ASSUME NEW e \in since PROVE ~(e <= 0)
      <4>1. e \in Nat /\ e # 0
        BY <1>t DEF TypeOK
      <4> QED BY <4>1
    <3> QED BY <2>1, <3>1
  <2> QED BY <2>1, <2>2, SameFilter DEF Gathered
<1>5. CASE AllocateFails \/ CountedNothing \/ GrowFails \/ Finish
  <2>1. pc' = "idle"
    BY <1>5 DEF AllocateFails, CountedNothing, GrowFails, Finish, HandOver, GiveUp, AnswerNull, Over
  <2> QED BY <2>1 DEF Gathered
<1>6. CASE TakeEntry
  <2> PICK e \in there : IsNext(e) /\ cursor' = e
        /\ IF ~Kept(e) THEN UNCHANGED <<room, cells>> ELSE Keep(e)
    BY <1>6 DEF TakeEntry
  <2>1. /\ UNCHANGED <<there, pc, fn, entry, since, ever, refused>>
        /\ pc = "scan" /\ entry = 0
    BY <1>6, <1>t DEF TakeEntry, Places, history
  <2>2. e \in Entry /\ e \in ever /\ since \subseteq there /\ there \subseteq ever
    BY <1>t, <2>1 DEF TypeOK, Gathered
  <2>3. ASSUME NEW x \in since, Kept(x), x <= e PROVE x = e \/ x \in refused \cup Ids(cells)
    <3>1. x <= cursor \/ x = e
      BY <1>t, <2>2, <2>3, NoneBetween
    <3>2. x # 0
      BY <1>t DEF TypeOK
    <3> QED BY <2>1, <2>3, <3>1, <3>2 DEF Gathered
  <2>4. CASE Kept(e)
    <3>1. Ids(cells') = Ids(cells) \cup {e}
      BY <1>t, <2>2, <2>4, StoredIds DEF Keep
    <3>2. \A x \in Ids(cells') : x \in ever' /\ Kept(x)'
      BY <2>1, <2>2, <2>4, <3>1, SameFilter DEF Gathered
    <3>3. \A x \in since' : Kept(x)' /\ x <= cursor' => x \in refused' \cup Ids(cells')
      BY <2>1, <2>3, <3>1, SameFilter
    <3> QED BY <2>1, <2>2, <3>2, <3>3 DEF Gathered
  <2>5. CASE ~Kept(e)
    <3>1. cells' = cells
      BY <2>5
    <3>2. \A x \in Ids(cells') : x \in ever' /\ Kept(x)'
      BY <2>1, <3>1, SameFilter DEF Gathered
    <3>3. \A x \in since' : Kept(x)' /\ x <= cursor' => x \in refused' \cup Ids(cells')
      BY <2>1, <2>3, <2>5, <3>1, SameFilter
    <3> QED BY <2>1, <2>2, <3>2, <3>3 DEF Gathered
  <2> QED BY <2>4, <2>5
<1>7. CASE PickEntry
  <2> PICK e \in there : IsNext(e) /\ cursor' = e /\ entry' = e
    BY <1>7 DEF PickEntry
  <2>1. /\ UNCHANGED <<there, fn, cells, since, ever, refused>>
        /\ pc = "scan" /\ entry = 0
    BY <1>7, <1>t DEF PickEntry, Places, history
  <2>2. e \in ever /\ since \subseteq there /\ there \subseteq ever
    BY <2>1 DEF Gathered
  <2>3. ASSUME NEW x \in since, Kept(x), x <= e, x # e PROVE x \in refused \cup Ids(cells)
    <3>1. x <= cursor
      BY <1>t, <2>2, <2>3, NoneBetween
    <3>2. x # 0
      BY <1>t DEF TypeOK
    <3> QED BY <2>1, <2>3, <3>1, <3>2 DEF Gathered
  <2>4. \A x \in since' : Kept(x)' /\ x <= cursor' /\ x # entry' => x \in refused' \cup Ids(cells')
    BY <2>1, <2>3, SameFilter
  <2>5. \A x \in Ids(cells') : x \in ever' /\ Kept(x)'
    BY <2>1, SameFilter DEF Gathered
  <2> QED BY <2>1, <2>2, <2>4, <2>5 DEF Gathered
<1>8. CASE PassOver
  <2>1. UNCHANGED <<there, fn, cursor, cells, since, ever>> /\ pc = "look" /\ entry' = 0
        /\ refused' = IF entry \in there THEN refused \cup {entry} ELSE refused
    BY <1>8 DEF PassOver, Advance
  <2> QED BY <2>1, SameFilter DEF Gathered
<1>9. CASE OpenThread
  BY <1>9, SameFilter DEF OpenThread, history, Gathered
<1>10. CASE LookOpenFile \/ LookInterface \/ ReadThread
  <2>1. /\ UNCHANGED <<there, fn, cursor, since, ever, refused>>
        /\ pc \in {"look", "read"} /\ entry' = 0 /\ entry \in Entry /\ entry \in ever
    <3>1. pc \in {"look", "read"}
      BY <1>10 DEF LookOpenFile, LookInterface, ReadThread
    <3>2. entry \in Entry /\ entry # 0
      BY <1>t, <3>1 DEF Places
    <3>3. UNCHANGED <<there, fn, cursor, since, ever, refused>> /\ entry' = 0
      BY <1>10 DEF LookOpenFile, LookInterface, ReadThread, Advance, history
    <3> QED BY <3>1, <3>2, <3>3 DEF Gathered
  <2>2. CASE Kept(entry) /\ Ids(cells') = Ids(cells) \cup {entry}
    <3>1. \A x \in Ids(cells') : x \in ever' /\ Kept(x)'
      BY <2>1, <2>2, SameFilter DEF Gathered
    <3>2. \A x \in since' : Kept(x)' /\ x <= cursor' => x \in refused' \cup Ids(cells')
      BY <2>1, <2>2, SameFilter DEF Gathered
    <3> QED BY <2>1, <3>1, <3>2 DEF Gathered
  <2>3. CASE ~Kept(entry) /\ cells' = cells
    <3>1. \A x \in since' : Kept(x)' /\ x <= cursor' => x \in refused' \cup Ids(cells')
      BY <2>1, <2>3, SameFilter DEF Gathered
    <3> QED BY <2>1, <2>3, <3>1, SameFilter DEF Gathered
  <2>4. ASSUME NEW full \in BOOLEAN, Store(entry, full)
        PROVE  Ids(cells') = Ids(cells) \cup {entry}
    BY <1>t, <2>1, <2>4, StoredIds
  <2>5. CASE LookOpenFile
    BY <2>2, <2>3, <2>4, <2>5 DEF LookOpenFile, Keep
  <2>6. CASE LookInterface \/ ReadThread
    <3>1. Store(entry, entry \in there) /\ (entry \in there) \in BOOLEAN
      BY <2>6 DEF LookInterface, ReadThread
    <3>2. Kept(entry)
      BY <2>6, <1>t DEF LookInterface, ReadThread, Kept, Places
    <3> QED BY <2>2, <2>4, <3>1, <3>2
  <2> QED BY <1>10, <2>5, <2>6
<1>11. CASE UNCHANGED vars
  BY <1>11, SameFilter DEF vars, callVars, history, Gathered
<1> QED
  BY <1>1, <1>2, <1>3, <1>4, <1>5, <1>6, <1>7, <1>8, <1>9, <1>10, <1>11 DEF Next, Step

-----------------------------------------------------------------------------
(***************************************************************************)
(* Elements without their numbers.                                         *)
(***************************************************************************)
NumbersAnswered == NumbersRead /\ HalfReadIsGone

\* Storing an element keeps that, if the entry is described or has gone.
LEMMA NumbersStored ==
  ASSUME TypeOK, NumbersRead, NEW e \in Entry, NEW full \in BOOLEAN, Store(e, full),
         ~full => e \notin since, since' = since
  PROVE  NumbersRead'
<1> DEFINE x == [id |-> e, full |-> full]
<1>1. x \in Cell /\ x.id = e /\ x.full = full
  BY DEF Cell
<1>2. /\ DOMAIN cells' = DOMAIN cells \cup {Len(cells) + 1}
      /\ \A i \in DOMAIN cells : cells'[i] = cells[i]
      /\ cells'[Len(cells) + 1] = x
  BY <1>1, Appended DEF Store, TypeOK
<1> HIDE DEF x
<1> QED BY <1>1, <1>2 DEF NumbersRead

LEMMA NumbersNull ==
  ASSUME AnswerNull
  PROVE  NumbersAnswered'
<1>1. cells' = <<>> /\ answer'.list = <<>>
  BY DEF AnswerNull, Over, NoAnswer
<1> QED BY <1>1, EmptySequence DEF NumbersAnswered, NumbersRead, HalfReadIsGone

LEMMA NumbersStep == Typed /\ Gathered /\ NumbersAnswered /\ [Next]_vars => NumbersAnswered'
<1> SUFFICES ASSUME Typed, Gathered, NumbersAnswered, [Next]_vars PROVE NumbersAnswered'
  OBVIOUS
<1> USE LinuxListsAssumption
<1>t. TypeOK /\ Places /\ NumbersRead
  BY DEF Typed, NumbersAnswered
<1>1. CASE Change
  <2>1. cells' = cells /\ answer' = answer /\ since' \subseteq since
    BY <1>1 DEF Change, callVars
  <2> QED BY <2>1 DEF NumbersAnswered, NumbersRead, HalfReadIsGone
<1>2. ASSUME NEW f \in Listings, Begin(f) PROVE NumbersAnswered'
  <2>1. cells' = <<>> /\ answer'.list = <<>>
    BY <1>2, <1>t DEF Begin, Places, NoAnswer
  <2> QED BY <2>1, EmptySequence DEF NumbersAnswered, NumbersRead, HalfReadIsGone
<1>3. CASE AllocateFails \/ CountedNothing \/ GrowFails
  BY <1>3, NumbersNull DEF AllocateFails, CountedNothing, GrowFails, GiveUp
<1>4. CASE CountEntry \/ Allocate \/ PickEntry \/ PassOver \/ OpenThread \/ UNCHANGED vars
  <2>1. UNCHANGED <<cells, answer, since>>
    BY <1>4 DEF CountEntry, Allocate, PickEntry, PassOver, OpenThread, vars, callVars, history
  <2> QED BY <2>1 DEF NumbersAnswered, NumbersRead, HalfReadIsGone
<1>5. CASE TakeEntry \/ LookOpenFile \/ LookInterface \/ ReadThread
  <2>1. answer' = answer /\ since' = since
    BY <1>5 DEF TakeEntry, LookOpenFile, LookInterface, ReadThread, history
  <2>2. NumbersRead'
    <3>1. CASE cells' = cells
      BY <1>t, <2>1, <3>1 DEF NumbersRead
    <3>2. ASSUME NEW e \in Entry, Keep(e) PROVE NumbersRead'
      BY <1>t, <2>1, <3>2, NumbersStored DEF Keep
    <3>3. CASE TakeEntry
      <4>1. \A e \in there : e \in Entry
        BY <1>t DEF TypeOK
      <4> QED BY <3>1, <3>2, <3>3, <4>1 DEF TakeEntry
    <3>4. CASE LookOpenFile
      BY <1>t, <3>1, <3>2, <3>4 DEF LookOpenFile, Places
    <3>5. CASE LookInterface \/ ReadThread
      <4>1. /\ Store(entry, entry \in there) /\ (entry \in there) \in BOOLEAN
            /\ entry \in Entry /\ since \subseteq there
        BY <1>t, <3>5 DEF LookInterface, ReadThread, Places, Gathered
      <4>2. entry \notin there => entry \notin since
        BY <4>1
      <4> QED BY <1>t, <2>1, <4>1, <4>2, NumbersStored
    <3> QED BY <1>5, <3>3, <3>4, <3>5
  <2> QED BY <2>1, <2>2 DEF NumbersAnswered, HalfReadIsGone
<1>6. CASE Finish
  <2>1. CASE fn = "users" /\ cells = <<>>
    BY <1>6, <2>1, NumbersNull DEF Finish
  <2>2. ASSUME NEW list, HandOver(list),
               \A i \in DOMAIN list : ~list[i].full => list[i].id \notin since
        PROVE  NumbersAnswered'
    <3>1. answer'.list = list /\ cells' = <<>>
      BY <2>2 DEF HandOver, Over
    <3>2. since' = since
      BY <1>6 DEF Finish, history
    <3>3. NumbersRead'
      BY <3>1, EmptySequence DEF NumbersRead
    <3> QED BY <2>2, <3>1, <3>2, <3>3 DEF NumbersAnswered, HalfReadIsGone
  <2> DEFINE list == Append(cells, EndMark)
  <2>3. \A i \in DOMAIN list : ~list[i].full => list[i].id \notin since
    <3>1. EndMark \in Cell /\ EndMark.full
      BY DEF EndMark, Cell
    <3>2. /\ DOMAIN list = DOMAIN cells \cup {Len(cells) + 1}
          /\ \A i \in DOMAIN cells : list[i] = cells[i]
          /\ list[Len(cells) + 1] = EndMark
      BY <1>t, <3>1, Appended DEF TypeOK
    <3> HIDE DEF list
    <3> QED BY <1>t, <3>1, <3>2 DEF NumbersRead
  <2>4. \A i \in DOMAIN cells : ~cells[i].full => cells[i].id \notin since
    BY <1>t DEF NumbersRead
  <2> QED BY <1>6, <2>1, <2>2, <2>3, <2>4 DEF Finish
<1> QED BY <1>1, <1>2, <1>3, <1>4, <1>5, <1>6 DEF Next, Step

LEMMA GatheredInit == Init => Gathered /\ NumbersAnswered
<1> SUFFICES ASSUME Init PROVE Gathered /\ NumbersAnswered
  OBVIOUS
<1>1. pc = "idle" /\ cells = <<>> /\ answer.list = <<>>
  BY DEF Init, NoAnswer
<1> QED BY <1>1, EmptySequence DEF Gathered, NumbersAnswered, NumbersRead, HalfReadIsGone

\* An element whose numbers are missing (a thread's times as malloc left them,
\* an interface's zeros) is that of an entry that was not there during the whole
\* call.
THEOREM NumbersMissingWhenGone == Spec => []HalfReadIsGone
<1>1. NumbersAnswered => HalfReadIsGone
  BY DEF NumbersAnswered
<1> QED BY <1>1, TypedInit, TypedStep, GatheredInit, GatheredStep, NumbersStep, PTL DEF Spec

-----------------------------------------------------------------------------
(***************************************************************************)
(* The two passes.                                                         *)
(***************************************************************************)

\* A set with room for one more than what fits stays within what it was, or
\* one more: what counting an entry does to the count.
LEMMA OneMoreCounted ==
  ASSUME NEW S, NEW T, NEW e, NEW n \in Nat, IsFiniteSet(S), Cardinality(S) <= n,
         T \subseteq S \cup {e}
  PROVE  IsFiniteSet(T) /\ Cardinality(T) <= n + 1
<1>1. /\ IsFiniteSet(S \cup {e}) /\ Cardinality(S) \in Nat
      /\ Cardinality(S \cup {e}) \in Nat /\ Cardinality(S \cup {e}) <= Cardinality(S) + 1
  BY FS_AddElement, FS_CardinalityType
<1>2. IsFiniteSet(T) /\ Cardinality(T) <= Cardinality(S \cup {e})
  BY <1>1, FS_Subset
<1>3. Cardinality(T) \in Nat
  BY <1>2, FS_CardinalityType
<1> QED BY <1>1, <1>2, <1>3

LEMMA NoMoreCounted ==
  ASSUME NEW S, NEW T, NEW n \in Nat, IsFiniteSet(S), Cardinality(S) <= n, T \subseteq S
  PROVE  IsFiniteSet(T) /\ Cardinality(T) <= n
<1>1. IsFiniteSet(T) /\ Cardinality(T) <= Cardinality(S)
  BY FS_Subset
<1>2. Cardinality(S) \in Nat /\ Cardinality(T) \in Nat
  BY <1>1, FS_CardinalityType
<1> QED BY <1>1, <1>2

\* A step that counts nothing and has nothing more to list.
LEMMA EnoughStill ==
  ASSUME TypeOK, Enough, pc # "idle", fn' = fn, counted' = counted, Foreseen' \subseteq Foreseen
  PROVE  Enough'
  BY NoMoreCounted DEF Enough, TypeOK

LEMMA EnoughStep == Typed /\ Gathered /\ Enough /\ [Next]_vars => Enough'
<1> SUFFICES ASSUME Typed, Gathered, Enough, [Next]_vars PROVE Enough'
  OBVIOUS
<1> USE LinuxListsAssumption
<1>t. TypeOK /\ Places
  BY DEF Typed
<1>1. CASE pc = "idle" /\ (Change \/ UNCHANGED vars)
  BY <1>1 DEF Change, vars, callVars, Enough
<1>2. CASE pc # "idle" /\ (Change \/ UNCHANGED vars)
  <2>1. UNCHANGED <<pc, fn, cursor, counted>> /\ since' \subseteq since
    BY <1>2 DEF Change, vars, callVars, history
  <2>2. Foreseen' \subseteq Foreseen
    BY <2>1 DEF Foreseen, Kept
  <2> QED BY <1>2, <1>t, <2>1, <2>2, EnoughStill
<1>3. ASSUME NEW f \in Listings, Begin(f) PROVE Enough'
  <2>1. cursor' = 0 /\ counted' = 0 /\ since' = there
    BY <1>3, <1>t DEF Begin, Places
  <2>2. pc' # "idle" /\ fn' \in TwoPass => pc' = "count"
    BY <1>3, <1>t DEF Begin, Places
  <2>3. \A e \in since' : ~(e <= cursor')
    <3>1. ASSUME NEW e \in there PROVE ~(e <= 0)
      <4>1. e \in Nat /\ e # 0
        BY <1>t DEF TypeOK
      <4> QED BY <4>1
    <3> QED BY <2>1, <3>1
  <2>4. pc' = "count" => Foreseen' = {}
    BY <2>3 DEF Foreseen
  <2>5. IsFiniteSet({}) /\ Cardinality({}) = 0
    BY FS_EmptySet
  <2> QED BY <2>1, <2>2, <2>4, <2>5 DEF Enough
<1>4. CASE CountEntry
  <2> PICK e \in there : IsNext(e) /\ cursor' = e
        /\ counted' = IF Kept(e) THEN counted + 1 ELSE counted
    BY <1>4 DEF CountEntry
  <2>1. pc = "count" /\ fn \in TwoPass /\ UNCHANGED <<there, pc, fn, since>> /\ since \subseteq there
    BY <1>4, <1>t DEF CountEntry, Places, history, Gathered
  <2>2. ASSUME NEW x \in Foreseen' PROVE x = e \/ x \in Foreseen
    <3>1. x \in since /\ x \in there /\ Kept(x) /\ x <= e
      BY <2>1, <2>2 DEF Foreseen, Kept
    <3>2. x <= cursor \/ x = e
      BY <1>t, <3>1, NoneBetween
    <3> QED BY <3>1, <3>2 DEF Foreseen
  <2>3. ASSUME ~Kept(e), NEW x \in Foreseen' PROVE x # e
    BY <2>1, <2>3 DEF Foreseen, Kept
  <2>4. IsFiniteSet(Foreseen) /\ Cardinality(Foreseen) <= counted /\ counted \in Nat
    BY <1>t, <2>1 DEF Enough, TypeOK
  <2> DEFINE F == Foreseen
             G == Foreseen'
  <2>5. CASE Kept(e)
    <3>1. G \subseteq F \cup {e}
      BY <2>2
    <3> HIDE DEF F, G
    <3>2. IsFiniteSet(G) /\ Cardinality(G) <= counted + 1
      BY <2>4, <3>1, OneMoreCounted DEF F
    <3> QED BY <2>5, <3>2 DEF Enough, G
  <2>6. CASE ~Kept(e)
    <3>1. G \subseteq F
      BY <2>2, <2>3, <2>6
    <3> HIDE DEF F, G
    <3>2. IsFiniteSet(G) /\ Cardinality(G) <= counted
      BY <2>4, <3>1, NoMoreCounted DEF F
    <3> QED BY <2>6, <3>2 DEF Enough, G
  <2> QED BY <2>5, <2>6
<1>5. CASE Allocate
  <2>1. pc = "count" /\ pc' = "scan" /\ Unread = {} /\ UNCHANGED <<fn, since, counted>>
        /\ since \subseteq there
    BY <1>5 DEF Allocate, history, Gathered
  <2>2. ASSUME NEW x \in Foreseen' PROVE x \in Foreseen
    <3>1. x \in since /\ x \in there /\ Kept(x)
      BY <2>1, <2>2 DEF Foreseen, Kept
    <3>2. x \in Nat /\ cursor \in Nat /\ ~(x > cursor)
      BY <1>t, <2>1, <3>1 DEF Unread, TypeOK
    <3>3. x <= cursor
      BY <3>2
    <3> QED BY <3>1, <3>3 DEF Foreseen
  <2>3. Foreseen' \subseteq Foreseen
    BY <2>2
  <2> QED BY <1>t, <2>1, <2>3, EnoughStill
<1>6. CASE AllocateFails \/ CountedNothing \/ GrowFails \/ Finish
  <2>1. pc' = "idle"
    BY <1>6 DEF AllocateFails, CountedNothing, GrowFails, Finish, HandOver, GiveUp, AnswerNull, Over
  <2> QED BY <2>1 DEF Enough
<1>7. CASE TakeEntry \/ PickEntry \/ PassOver \/ LookOpenFile \/ LookInterface \/ OpenThread \/ ReadThread
  <2>1. /\ UNCHANGED <<fn, since, counted>>
        /\ pc \in {"scan", "look", "read"} /\ pc' \in {"scan", "look", "read"}
    BY <1>7 DEF TakeEntry, PickEntry, PassOver, LookOpenFile, LookInterface, OpenThread, ReadThread,
       Advance, history
  <2>2. Foreseen' \subseteq Foreseen
    BY <2>1 DEF Foreseen, Kept
  <2> QED BY <1>t, <2>1, <2>2, EnoughStill
<1> QED BY <1>1, <1>2, <1>3, <1>4, <1>5, <1>6, <1>7 DEF Next, Step

\* As many entries are named as are stored.
LEMMA AsManyNamed ==
  ASSUME TypeOK, Ordered
  PROVE  IsFiniteSet(Ids(cells)) /\ Cardinality(Ids(cells)) = Len(cells)
<1> DEFINE id == [i \in DOMAIN cells |-> cells[i].id]
<1>1. Len(cells) \in Nat /\ DOMAIN cells = 1..Len(cells)
  BY DEF TypeOK
<1>2. \A i \in DOMAIN cells : cells[i].id # 0 /\ cells[i].id \in Nat
  BY LinuxListsAssumption DEF Ordered
<1>3. Ids(cells) = {cells[i].id : i \in DOMAIN cells}
  BY <1>2 DEF Ids
<1>4. id \in [1..Len(cells) -> Ids(cells)]
  BY <1>1, <1>3
<1>5. ASSUME NEW i \in 1..Len(cells), NEW j \in 1..Len(cells), id[i] = id[j] PROVE i = j
  <2>1. (i < j => cells[i].id < cells[j].id) /\ (j < i => cells[j].id < cells[i].id)
    BY <1>1 DEF Ordered
  <2>2. cells[i].id = cells[j].id /\ cells[i].id \in Nat
    BY <1>1, <1>2, <1>5
  <2> QED BY <1>1, <2>1, <2>2
<1>6. ASSUME NEW x \in Ids(cells) PROVE \E i \in 1..Len(cells) : id[i] = x
  <2> PICK i \in DOMAIN cells : cells[i].id = x
    BY <1>3
  <2>1. i \in 1..Len(cells) /\ id[i] = x
    BY <1>1
  <2> QED BY <2>1
<1> HIDE DEF id
<1>7. id \in Bijection(1..Len(cells), Ids(cells))
  BY <1>4, <1>5, <1>6 DEF Bijection, Injection, Surjection, IsInjective
<1>8. ExistsBijection(1..Len(cells), Ids(cells))
  BY <1>7 DEF ExistsBijection
<1> QED BY <1>1, <1>8, FS_CountingElements, FS_NatBijection

\* Where reading ends, an entry that is owed and not stored was crowded out:
\* the array of the second pass is full, and has an element for a newcomer.
LEMMA CrowdedOut ==
  ASSUME Typed, Fits, Ordered, Gathered, Enough, pc = "scan", ~MoreToRead,
         NEW e \in since, Kept(e), e \notin refused \cup Ids(cells)
  PROVE  /\ fn \in TwoPass
         /\ Cardinality(Ids(cells)) = counted
         /\ \E x \in Ids(cells) : x \notin since
<1>t. TypeOK /\ Places /\ entry = 0 /\ since \subseteq there
  BY DEF Typed, Places, Gathered
<1>1. e \in Unread
  <2>1. e \in there /\ e \in Nat /\ e # 0 /\ cursor \in Nat
    BY <1>t, LinuxListsAssumption DEF TypeOK
  <2>2. ~(e <= cursor)
    BY <1>t, <2>1 DEF Gathered
  <2> QED BY <2>1, <2>2 DEF Unread
<1>2. fn \in TwoPass /\ ~(Len(cells) < counted)
  BY <1>1 DEF MoreToRead
<1>3. Len(cells) \in Nat /\ counted \in Nat /\ Len(cells) <= counted
  BY <1>t, <1>2 DEF Fits, TypeOK
<1>4. Len(cells) = counted
  BY <1>2, <1>3
<1>5. IsFiniteSet(Ids(cells)) /\ Cardinality(Ids(cells)) = counted
  BY <1>t, <1>4, AsManyNamed
<1>6. ASSUME Ids(cells) \subseteq since PROVE FALSE
  <2> DEFINE I == Ids(cells)
             F == Foreseen
  <2>1. IsFiniteSet(F) /\ Cardinality(F) <= counted
    BY <1>2 DEF Enough
  <2>2. I \cup {e} \subseteq F
    BY <1>6 DEF Gathered, Foreseen
  <2>3. IsFiniteSet(I) /\ Cardinality(I) = counted /\ e \notin I
    BY <1>5
  <2> HIDE DEF I, F
  <2>4. IsFiniteSet(I \cup {e}) /\ Cardinality(I \cup {e}) = counted + 1
    BY <2>3, FS_AddElement
  <2>5. Cardinality(I \cup {e}) <= Cardinality(F)
    BY <2>1, <2>2, FS_Subset
  <2>6. Cardinality(F) \in Nat
    BY <2>1, FS_CardinalityType
  <2> QED BY <1>3, <2>1, <2>4, <2>5, <2>6
<1> QED BY <1>2, <1>5, <1>6

\* The end mark names nothing.
LEMMA MarkNamesNothing ==
  ASSUME TypeOK
  PROVE  Ids(Append(cells, EndMark)) = Ids(cells)
<1>1. EndMark \in Cell /\ EndMark.id = 0
  BY DEF EndMark, Cell
<1>2. Ids(Append(cells, EndMark)) = Ids(cells) \cup ({EndMark.id} \ {0})
  BY <1>1, IdsAppended DEF TypeOK
<1> QED BY <1>1, <1>2

\* What Finish hands over.
LEMMA HandedOver ==
  ASSUME TypeOK, Finish, ~(fn = "users" /\ cells = <<>>)
  PROVE  /\ pc = "scan" /\ pc' = "idle" /\ ~MoreToRead
         /\ answer'.fn = fn /\ answer'.null = FALSE /\ answer'.counted = counted
         /\ Ids(answer'.list) = Ids(cells)
         /\ UNCHANGED <<there, since, ever, refused, starved>>
<1>1. ASSUME NEW list, HandOver(list)
      PROVE  /\ pc' = "idle" /\ answer'.fn = fn /\ answer'.null = FALSE
             /\ answer'.counted = counted /\ answer'.list = list
  BY <1>1 DEF HandOver, Over
<1>2. HandOver(cells) \/ HandOver(Append(cells, EndMark))
  BY DEF Finish
<1>3. Ids(answer'.list) = Ids(cells)
  BY <1>1, <1>2, MarkNamesNothing
<1> QED BY <1>1, <1>2, <1>3 DEF Finish, history

LEMMA NullAnswers ==
  ASSUME AnswerNull
  PROVE  /\ pc' = "idle" /\ answer'.fn = fn /\ answer'.null = TRUE
         /\ [null |-> answer'.null, ids |-> Ids(answer'.list)] = Promise!Null
<1>1. answer'.null = TRUE /\ answer'.list = <<>> /\ answer'.fn = fn
  BY DEF AnswerNull, NoAnswer
<1>2. Ids(answer'.list) = {}
  BY <1>1, EmptyIds
<1> QED BY <1>1, <1>2 DEF AnswerNull, Over, Promise!Null

\* The parts of the invariant that relate what is stored to the source.
Sound == Typed /\ Fits /\ Ordered /\ Gathered /\ NumbersAnswered /\ Enough

LEMMA SoundInit == Init => Sound
<1>1. Init => Fits
  BY EmptySequence DEF Init, Fits, InBounds, NoAnswer
<1>2. Init => Ordered
  BY EmptySequence DEF Init, Ordered, NoneTwice, NoAnswer
<1>3. Init => Enough
  BY DEF Init, Enough
<1> QED BY <1>1, <1>2, <1>3, TypedInit, GatheredInit DEF Sound

LEMMA SoundStep == Sound /\ [Next]_vars => Sound'
  BY TypedStep, FitsStep, OrderedStep, GatheredStep, NumbersStep, EnoughStep DEF Sound

LEMMA MissedStep == Sound /\ MissedForNewcomers /\ [Next]_vars => MissedForNewcomers'
<1> SUFFICES ASSUME Sound, MissedForNewcomers, [Next]_vars PROVE MissedForNewcomers'
  OBVIOUS
<1>t. TypeOK /\ Places
  BY DEF Sound, Typed
<1>1. CASE Change \/ UNCHANGED vars
  <2>1. UNCHANGED <<pc, answer, refused>> /\ since' \subseteq since
    BY <1>1 DEF Change, vars, callVars, history
  <2> QED BY <2>1 DEF MissedForNewcomers
<1>2. ASSUME NEW f \in Listings, Begin(f) PROVE MissedForNewcomers'
  BY <1>2 DEF Begin, NoAnswer, MissedForNewcomers
<1>3. CASE AllocateFails \/ CountedNothing \/ GrowFails
  <2>1. answer'.null = TRUE
    BY <1>3, NullAnswers DEF AllocateFails, CountedNothing, GrowFails, GiveUp
  <2> QED BY <2>1 DEF MissedForNewcomers
<1>4. CASE Finish
  <2>1. CASE fn = "users" /\ cells = <<>>
    <3>1. answer'.null = TRUE
      BY <1>4, <2>1, NullAnswers DEF Finish
    <3> QED BY <3>1 DEF MissedForNewcomers
  <2>2. CASE ~(fn = "users" /\ cells = <<>>)
    <3>1. /\ pc = "scan" /\ ~MoreToRead /\ answer'.fn = fn /\ answer'.counted = counted
          /\ Ids(answer'.list) = Ids(cells) /\ since' = since /\ refused' = refused
      BY <1>t, <1>4, <2>2, HandedOver
    <3>2. ASSUME NEW e \in since, e \notin refused \cup Ids(cells), fn \in TwoPass,
                 fn = "disk_partitions" => e \in Wanted
          PROVE  Cardinality(Ids(cells)) = counted /\ \E x \in Ids(cells) : x \notin since
      <4>1. Kept(e)
        BY <3>2 DEF Kept
      <4> QED BY <3>1, <3>2, <4>1, CrowdedOut DEF Sound
    <3> QED BY <3>1, <3>2 DEF MissedForNewcomers
  <2> QED BY <2>1, <2>2
<1>5. CASE CountEntry \/ Allocate \/ TakeEntry \/ PickEntry \/ PassOver
           \/ LookOpenFile \/ LookInterface \/ OpenThread \/ ReadThread
  <2>1. pc' # "idle"
    BY <1>5 DEF CountEntry, Allocate, TakeEntry, PickEntry, PassOver,
       LookOpenFile, LookInterface, OpenThread, ReadThread, Advance
  <2> QED BY <2>1 DEF MissedForNewcomers
<1> QED BY <1>1, <1>2, <1>3, <1>4, <1>5 DEF Next, Step

\* The functions that count first leave out what was there all along only when
\* the array is full and has an element for something that came later.
THEOREM MissedOnlyForNewcomers == Spec => []MissedForNewcomers
<1>1. Init => MissedForNewcomers
  BY DEF Init, NoAnswer, MissedForNewcomers
<1> QED BY <1>1, SoundInit, SoundStep, MissedStep, PTL DEF Spec

-----------------------------------------------------------------------------
(***************************************************************************)
(* All six functions implement Listing.                                    *)
(***************************************************************************)

LEMMA PromiseInit == Init => Promise!Init
<1> SUFFICES ASSUME Init PROVE Promise!Init
  OBVIOUS
<1>1. answer.null = TRUE /\ answer.list = <<>>
  BY DEF Init, NoAnswer
<1>2. [null |-> answer.null, ids |-> Ids(answer.list)] = Promise!Null
  BY <1>1, EmptyIds DEF Promise!Null
<1>3. (pc # "idle") = FALSE
  BY DEF Init
<1>4. {e \in Entry : Kept(e)} \in SUBSET Entry /\ (fn \notin TwoPass) \in BOOLEAN
  OBVIOUS
<1> QED BY <1>2, <1>3, <1>4 DEF Init, Promise!Init

\* A call ends without an answer: memory was refused, or there is nothing.
LEMMA PromiseFails ==
  ASSUME AnswerNull, pc # "idle", starved' \in BOOLEAN,
         UNCHANGED <<there, since, ever, refused>>,
         starved' = TRUE \/ Promise!Owed = {}
  PROVE  Promise!Next
<1>1. {e \in Entry : Kept(e)}' \in SUBSET Entry /\ (fn \notin TwoPass)' \in BOOLEAN
  OBVIOUS
<1>2. Promise!AnyFunction
  BY <1>1 DEF Promise!AnyFunction
<1>3. (pc # "idle") = TRUE /\ (pc # "idle")' = FALSE
  BY NullAnswers
<1> QED BY <1>2, <1>3, NullAnswers DEF Promise!Next, Promise!Fail

LEMMA PromiseStep == Sound /\ [Next]_vars => [Promise!Next]_Promise!vars
<1> SUFFICES ASSUME Sound, [Next]_vars PROVE [Promise!Next]_Promise!vars
  OBVIOUS
<1> USE LinuxListsAssumption
<1>t. TypeOK /\ Places /\ Gathered /\ Ordered
  BY DEF Sound, Typed
<1>w. ASSUME fn' = fn
      PROVE  {e \in Entry : Kept(e)}' = {e \in Entry : Kept(e)} /\ (fn \notin TwoPass)' = (fn \notin TwoPass)
  BY <1>w, SameFilter
<1>a. Promise!AnyFunction
  <2>1. {e \in Entry : Kept(e)}' \in SUBSET Entry /\ (fn \notin TwoPass)' \in BOOLEAN
    OBVIOUS
  <2> QED BY <2>1 DEF Promise!AnyFunction
<1>n. \A f : [NoAnswer EXCEPT !.fn = f].null = TRUE /\ [NoAnswer EXCEPT !.fn = f].list = <<>>
  BY DEF NoAnswer
<1>1. CASE Change
  BY <1>1, <1>w DEF Change, callVars, Promise!Next, Promise!Change
<1>2. ASSUME NEW f \in Listings, Begin(f) PROVE Promise!Next
  <2>1. answer'.null = TRUE /\ answer'.list = <<>> /\ pc = "idle"
    BY <1>2, <1>n DEF Begin, NoAnswer
  <2>2. [null |-> answer'.null, ids |-> Ids(answer'.list)] = Promise!Null
    BY <2>1, EmptyIds DEF Promise!Null
  <2>3. UNCHANGED there /\ since' = there /\ ever' = there /\ refused' = {}
    BY <1>2 DEF Begin
  <2>4. CASE pc' # "idle" /\ starved' = FALSE
    BY <1>a, <2>1, <2>2, <2>3, <2>4 DEF Promise!Next, Promise!Start
  <2>5. CASE pc' = "idle" /\ starved' = TRUE /\ fn' = fn
    BY <1>w, <2>1, <2>2, <2>3, <2>5 DEF Promise!Next, Promise!Deny
  <2> QED BY <1>2, <2>1, <2>4, <2>5 DEF Begin
<1>3. CASE CountEntry \/ Allocate \/ TakeEntry \/ PickEntry \/ LookOpenFile
           \/ LookInterface \/ OpenThread \/ ReadThread
  <2>1. /\ UNCHANGED <<there, fn, answer, since, ever, refused, starved>>
        /\ pc # "idle" /\ pc' # "idle"
    BY <1>3 DEF CountEntry, Allocate, TakeEntry, PickEntry, LookOpenFile, LookInterface,
       OpenThread, ReadThread, Advance, history
  <2> QED BY <1>w, <2>1 DEF Promise!vars
<1>4. CASE PassOver
  <2>1. pc = "look" /\ pc' = "scan" /\ UNCHANGED <<there, answer, since, ever, starved>>
        /\ entry \in Entry /\ fn' = fn
        /\ refused' = IF entry \in there THEN refused \cup {entry} ELSE refused
    BY <1>4, <1>t DEF PassOver, Advance, Places
  <2>2. CASE entry \in there
    <3>1. {entry} \in SUBSET Entry /\ refused' = refused \cup {entry}
      BY <2>1, <2>2
    <3> QED BY <1>w, <2>1, <3>1 DEF Promise!Next, Promise!Refuse
  <2>3. CASE entry \notin there
    BY <1>w, <2>1, <2>3 DEF Promise!vars
  <2> QED BY <2>2, <2>3
<1>5. CASE AllocateFails \/ GrowFails
  <2>1. AnswerNull /\ pc # "idle" /\ starved' = TRUE /\ UNCHANGED <<there, since, ever, refused>>
    BY <1>5 DEF AllocateFails, GrowFails, GiveUp
  <2> QED BY <2>1, PromiseFails
<1>6. CASE CountedNothing
  <2>1. AnswerNull /\ pc = "count" /\ Unread = {} /\ counted = 0
        /\ UNCHANGED <<there, since, ever, refused, starved>>
    BY <1>6 DEF CountedNothing, history
  <2> DEFINE F == Foreseen
  <2>2. F = {}
    <3>1. fn \in TwoPass
      BY <1>t, <2>1 DEF Places
    <3>2. IsFiniteSet(F) /\ Cardinality(F) <= 0
      BY <2>1, <3>1 DEF Sound, Enough
    <3> HIDE DEF F
    <3>3. Cardinality(F) \in Nat
      BY <3>2, FS_CardinalityType
    <3>4. Cardinality(F) = 0
      BY <3>2, <3>3
    <3> QED BY <3>2, <3>4, FS_EmptySet
  <2>3. ASSUME NEW e \in since, Kept(e) PROVE FALSE
    <3>1. e \in there /\ e \in Nat /\ cursor \in Nat
      BY <1>t, <2>1 DEF Gathered, TypeOK
    <3>2. e <= cursor
      BY <2>1, <3>1 DEF Unread
    <3> QED BY <2>2, <2>3, <3>2 DEF Foreseen
  <2>4. Promise!Owed = {}
    BY <2>3 DEF Promise!Owed
  <2>5. starved' \in BOOLEAN
    BY <1>t, <2>1 DEF TypeOK
  <2> QED BY <2>1, <2>4, <2>5, PromiseFails
<1>7. CASE Finish
  <2>0. pc = "scan" /\ ~MoreToRead /\ UNCHANGED <<there, since, ever, refused, starved>>
    BY <1>7 DEF Finish, history
  <2>1. ASSUME ~(Promise!Owed \subseteq Ids(cells))
        PROVE  fn \in TwoPass /\ \E x \in Ids(cells) : x \notin since
    <3> PICK e \in since : Kept(e) /\ e \notin refused \cup Ids(cells)
      BY <2>1 DEF Promise!Owed
    <3> QED BY <2>0, CrowdedOut DEF Sound
  <2>2. CASE fn = "users" /\ cells = <<>>
    <3>1. AnswerNull
      BY <1>7, <2>2 DEF Finish
    <3>2. Promise!Owed = {} /\ starved' \in BOOLEAN
      BY <1>t, <2>0, <2>1, <2>2, EmptyIds DEF TypeOK
    <3> QED BY <2>0, <3>1, <3>2, PromiseFails
  <2>3. CASE ~(fn = "users" /\ cells = <<>>)
    <3>1. pc' = "idle" /\ answer'.null = FALSE /\ Ids(answer'.list) = Ids(cells)
      BY <1>t, <1>7, <2>3, HandedOver
    <3> DEFINE s == Ids(cells)
    <3>2. s \in SUBSET (ever \cap {e \in Entry : Kept(e)})
      <4>1. \A x \in s : x \in ever /\ Kept(x)
        BY <1>t, <2>0 DEF Gathered
      <4> QED BY <1>t, <4>1 DEF TypeOK
    <3>3. Promise!Owed \subseteq s \/ (fn \in TwoPass /\ s \ since # {})
      BY <2>1
    <3>4. [null |-> answer'.null, ids |-> Ids(answer'.list)] = [null |-> FALSE, ids |-> s]
      BY <3>1
    <3> HIDE DEF s
    <3>5. \E t \in SUBSET (ever \cap {e \in Entry : Kept(e)}) :
             /\ Promise!Owed \subseteq t \/ (~(fn \notin TwoPass) /\ t \ since # {})
             /\ [null |-> answer'.null, ids |-> Ids(answer'.list)] = [null |-> FALSE, ids |-> t]
      BY <3>2, <3>3, <3>4
    <3>6. (pc # "idle") = TRUE /\ (pc # "idle")' = FALSE
      BY <2>0, <3>1
    <3> QED BY <1>a, <2>0, <3>5, <3>6 DEF Promise!Next, Promise!Finish
  <2> QED BY <2>2, <2>3
<1>8. CASE UNCHANGED vars
  BY <1>8, <1>w DEF vars, callVars, history, Promise!vars
<1> QED BY <1>1, <1>2, <1>3, <1>4, <1>5, <1>6, <1>7, <1>8 DEF Next, Step

\* All six functions keep the promise of Listing: those whose array grows answer
\* with everything that was there during the whole call; those that count first
\* lack a thing only where a newcomer is listed; none names what never was there.
THEOREM ListsKeepPromise == Spec => PromiseKept
<1> QED BY SoundInit, SoundStep, PromiseInit, PromiseStep, PTL DEF Spec, PromiseKept, Promise!Spec
=============================================================================
