--------------------------- MODULE Answers_proofs ---------------------------
(***************************************************************************)
(* Proofs about the parts of Answers, for all values of their constants:   *)
(* command lines and environments, the terminal, nice values, psutil_init, *)
(* the clocks, CPU affinity and CPU percentages.  Each part has inductive  *)
(* invariants of its own.                                                  *)
(***************************************************************************)
EXTENDS Answers, FiniteSetTheorems, TLAPS

\* A step of Answers is a step of one part, and leaves the others alone.
LEMMA PartSteps ==
  ASSUME [Next]_vars
  PROVE  /\ [StringsNext]_stringVars /\ [CpuNext]_cpuVars /\ [AffinityNext]_affinityVars
         /\ [NiceNext]_niceVars /\ [TtyNext]_ttyVars /\ [StartNext]_startVars /\ [ClockNext]_clockVars
  BY DEF Next, vars, otherThanStrings, otherThanCpu, otherThanAffinity, otherThanNice,
         otherThanTty, otherThanStart, otherThanClock

-----------------------------------------------------------------------------
(***************************************************************************)
(* Command lines and environments.                                         *)
(***************************************************************************)
\* Nothing is copied before the array is there.  While strings are copied, it has
\* one element more than was counted.  The BSDs have stored no more than they
\* have passed in the text, which is at most one string longer than what they
\* counted; the others have stored no more than they counted.
CopyBounded ==
  /\ vector.pc \in {"called", "read"} => vector.cells = <<>> /\ vector.next = 1
  /\ vector.pc = "copy" =>
       /\ vector.room = vector.count + 1
       /\ IF vector.fn \in BsdVectors
          THEN /\ text.len <= vector.count + 1 /\ vector.next <= text.len + 1
               /\ Len(vector.cells) < vector.next
          ELSE Len(vector.cells) <= vector.count

VectorInv == StringsTypeOK /\ CopyBounded

\* The invariant holds before the first call.
LEMMA VectorInvInit == StringsInit => VectorInv
  BY StringVectorAssumption
     DEF StringsInit, VectorInv, StringsTypeOK, CopyBounded, NoText, NoVector, NoStrings, Text,
         VectorKind, AnswerKind, Why, Element

\* Whatever a call answers is an answer, and ends the call.
LEMMA ReturnKeeps ==
  ASSUME VectorInv, NEW null \in BOOLEAN, NEW list \in Seq(Element), NEW why \in Why, NEW frees,
         Return(null, list, why, frees)
  PROVE  VectorInv'
<1>1. vector' \in VectorKind /\ vector'.pc = "idle"
  BY DEF Return, NoVector, VectorKind
<1>2. vector.fn \in Vectors \cup {"none"} /\ vector.held \ (frees \cup Copies(list)) \in SUBSET Nat
  BY DEF VectorInv, StringsTypeOK, VectorKind
<1>3. strings' \in AnswerKind
  BY <1>2 DEF Return, AnswerKind
<1> QED BY <1>1, <1>3 DEF Return, VectorInv, StringsTypeOK, CopyBounded

\* A call may answer NULL, with an empty list, in every state.
LEMMA ReturnNullKeeps ==
  ASSUME VectorInv, NEW why \in {"nothing", "refused"}, NEW frees, Return(TRUE, <<>>, why, frees)
  PROVE  VectorInv'
<1>1. <<>> \in Seq(Element) /\ why \in Why
  BY DEF Why
<1> QED BY <1>1, ReturnKeeps

\* What a copy may be.
LEMMA CopyKinds ==
  ASSUME NEW p
  PROVE  /\ CopyOf(p) \in {"string", "start", "overrun", "null", "junk"}
         /\ CopyOf(p) # "null"
  BY DEF CopyOf

\* An element more is one that the array has room for: the BSDs are still within
\* the text, the others within what they counted.
LEMMA AppendedKeeps ==
  ASSUME VectorInv, vector.pc = "copy", MoreToCopy, UNCHANGED <<text, strings>>,
         NEW kind \in {"string", "start", "overrun", "null", "junk"}, NEW copies \in SUBSET Nat,
         Appended(kind, copies)
  PROVE  VectorInv'
<1> DEFINE new == [is |-> kind, at |-> vector.next]
<1>1. /\ vector.next \in Nat /\ vector.count \in Nat /\ vector.room \in Nat
      /\ vector.cells \in Seq(Element) /\ vector.held \in SUBSET Nat
      /\ vector.fn \in Vectors \cup {"none"} /\ text.len \in Nat
  BY DEF VectorInv, StringsTypeOK, VectorKind, Text
<1>2. new \in Element
  BY <1>1 DEF Element
<1>3. Append(vector.cells, new) \in Seq(Element)
      /\ Len(Append(vector.cells, new)) = Len(vector.cells) + 1
  BY <1>1, <1>2
<1>4. vector.held \cup copies \in SUBSET Nat
  BY <1>1
<1>5. vector' = [vector EXCEPT !.next = vector.next + 1, !.held = vector.held \cup copies,
                               !.cells = Append(vector.cells, new)]
  BY DEF Appended
<1> HIDE DEF new
<1>6. vector' \in VectorKind
  <2>1. vector.next + 1 \in Nat /\ vector \in VectorKind
    BY <1>1 DEF VectorInv, StringsTypeOK
  <2>2. vector' = [fn |-> vector.fn, pc |-> vector.pc, next |-> vector.next + 1,
                   count |-> vector.count, room |-> vector.room,
                   cells |-> Append(vector.cells, new), held |-> vector.held \cup copies]
    BY <1>5, <2>1 DEF VectorKind
  <2> QED BY <1>1, <1>3, <1>4, <2>1, <2>2 DEF VectorKind
<1>7. /\ vector'.cells = Append(vector.cells, new) /\ vector'.next = vector.next + 1
      /\ vector'.fn = vector.fn /\ vector'.pc = "copy" /\ vector'.room = vector.room
      /\ vector'.count = vector.count
  BY <1>5 DEF VectorInv, StringsTypeOK, VectorKind
<1>8. CASE vector.fn \in BsdVectors
  <2>1. vector.next <= text.len
    BY <1>1, <1>8 DEF MoreToCopy, For, BsdVectors, LinuxVectors
  <2> QED BY <1>1, <1>3, <1>6, <1>7, <1>8, <2>1 DEF VectorInv, StringsTypeOK, CopyBounded
<1>9. CASE vector.fn \notin BsdVectors
  <2>1. Len(vector.cells) < vector.count
    BY <1>9 DEF MoreToCopy, For
  <2> QED BY <1>1, <1>3, <1>6, <1>7, <1>9, <2>1 DEF VectorInv, StringsTypeOK, CopyBounded
<1> QED BY <1>8, <1>9

\* What was counted leaves out at most the last string, on the BSDs.
LEMMA AllocatesKeeps == ASSUME VectorInv, Allocates PROVE VectorInv'
<1>1. PICK n \in 0..(MaxStrings + Beyond) :
        Counted(n) /\ vector' = [vector EXCEPT !.pc = "copy", !.count = n, !.room = n + 1]
  BY DEF Allocates, AllocatesFor
<1>2. /\ n \in Nat /\ text.len \in Nat /\ UNCHANGED <<text, strings>>
      /\ vector.cells = <<>> /\ vector.next = 1 /\ Len(vector.cells) = 0
  BY StringVectorAssumption
     DEF Allocates, AllocatesFor, VectorAt, VectorInv, StringsTypeOK, CopyBounded, Text
<1>3. vector.fn \in BsdVectors => text.len <= n + 1
  BY <1>1, <1>2 DEF Counted, For, Terminated, BsdVectors, LinuxVectors
<1>4. vector' \in VectorKind
  <2>1. n + 1 \in Nat /\ "copy" \in {"idle", "called", "read", "copy"} /\ vector \in VectorKind
    BY <1>2 DEF VectorInv, StringsTypeOK
  <2>2. vector' = [fn |-> vector.fn, pc |-> "copy", next |-> vector.next, count |-> n,
                   room |-> n + 1, cells |-> vector.cells, held |-> vector.held]
    BY <1>1, <2>1 DEF VectorKind
  <2> QED BY <1>2, <2>1, <2>2 DEF VectorKind
<1>5. /\ vector'.cells = <<>> /\ vector'.next = 1 /\ vector'.fn = vector.fn
      /\ vector'.pc = "copy" /\ vector'.room = n + 1 /\ vector'.count = n
  BY <1>1, <1>2 DEF VectorInv, StringsTypeOK, VectorKind
<1> QED BY <1>2, <1>3, <1>4, <1>5 DEF VectorInv, StringsTypeOK, CopyBounded

\* What the program sees of an array is an answer.
LEMMA SeenIsAnswer == ASSUME VectorInv PROVE Seen \in Seq(Element)
<1>1. \A i \in 1..Len(vector.cells) : vector.cells[i] \in Element
  BY DEF VectorInv, StringsTypeOK, VectorKind
<1>2. Unset \in Element
  BY DEF Unset, Element
<1>3. [i \in 1..vector.count |-> IF i <= Len(vector.cells) THEN vector.cells[i] ELSE Unset]
        \in Seq(Element)
  BY <1>1, <1>2 DEF VectorInv, StringsTypeOK, VectorKind
<1> QED BY <1>3 DEF Seen, VectorInv, StringsTypeOK, VectorKind

\* A string that is passed over takes no element.
LEMMA PassesKeeps == ASSUME VectorInv, Passes PROVE VectorInv'
<1>1. /\ vector.next \in Nat /\ text.len \in Nat /\ Len(vector.cells) \in Nat
      /\ vector' = [vector EXCEPT !.next = vector.next + 1] /\ UNCHANGED <<text, strings>>
      /\ vector.pc = "copy" /\ MoreToCopy
  BY DEF Passes, VectorAt, VectorInv, StringsTypeOK, VectorKind, Text
<1>2. vector' \in VectorKind
  BY <1>1 DEF VectorInv, StringsTypeOK, VectorKind
<1>3. /\ vector'.cells = vector.cells /\ vector'.next = vector.next + 1 /\ vector'.fn = vector.fn
      /\ vector'.pc = "copy" /\ vector'.room = vector.room /\ vector'.count = vector.count
  BY <1>1 DEF VectorInv, StringsTypeOK, VectorKind
<1>4. vector.fn \in BsdVectors => vector.next <= text.len
  BY <1>1 DEF MoreToCopy, For, BsdVectors, LinuxVectors
<1> QED BY <1>1, <1>2, <1>3, <1>4 DEF VectorInv, StringsTypeOK, CopyBounded

\* Every step keeps the invariant.
LEMMA VectorInvStep == VectorInv /\ [StringsNext]_stringVars => VectorInv'
<1> SUFFICES ASSUME VectorInv, [StringsNext]_stringVars PROVE VectorInv'
  OBVIOUS
<1>1. ASSUME NEW f \in Vectors, Called(f) PROVE VectorInv'
  <2>1. <<>> \in Seq(Element) /\ {} \in SUBSET Nat
    OBVIOUS
  <2>2. /\ vector' = [fn |-> f, pc |-> "called", next |-> 1, count |-> 0, room |-> 0,
                      cells |-> <<>>, held |-> {}]
        /\ strings' = NoStrings /\ text' = NoText
    BY <1>1 DEF Called, NoVector
  <2>3. vector' \in VectorKind /\ strings' \in AnswerKind
    BY <2>1, <2>2 DEF VectorKind, AnswerKind, NoStrings, Why
  <2>4. text' \in Text
    BY <2>2, StringVectorAssumption DEF NoText, Text
  <2> QED BY <2>2, <2>3, <2>4 DEF VectorInv, StringsTypeOK, CopyBounded
<1>2. CASE Refused
  BY <1>2, ReturnNullKeeps DEF Refused
<1>3. CASE Reads
  BY <1>3 DEF Reads, VectorAt, VectorInv, StringsTypeOK, CopyBounded, VectorKind
<1>4. CASE ListsNothing
  BY <1>4, ReturnNullKeeps DEF ListsNothing
<1>5. CASE Allocates
  BY <1>5, AllocatesKeeps
<1>6. CASE Passes
  BY <1>6, PassesKeeps
<1>7. CASE CopiesOne
  <2>1. {vector.next} \in SUBSET Nat
    BY DEF VectorInv, StringsTypeOK, VectorKind
  <2> QED BY <1>7, <2>1, CopyKinds, AppendedKeeps DEF CopiesOne, VectorAt
<1>8. CASE CopyFails
  <2>1. CASE Return(TRUE, <<>>, "refused", vector.held)
    BY <2>1, ReturnNullKeeps
  <2>2. CASE Appended("null", {}) /\ UNCHANGED <<text, strings>>
    BY <1>8, <2>2, AppendedKeeps DEF CopyFails, VectorAt
  <2> QED BY <1>8, <2>1, <2>2 DEF CopyFails
<1>9. CASE AnswersStrings
  <2>1. CASE Return(TRUE, <<>>, "nothing", {})
    BY <2>1, ReturnNullKeeps
  <2>2. CASE Return(FALSE, Seen, "none", {})
    <3>1. "none" \in Why
      BY DEF Why
    <3> QED BY <2>2, <3>1, ReturnKeeps, SeenIsAnswer
  <2> QED BY <1>9, <2>1, <2>2 DEF AnswersStrings
<1>10. CASE Free
  <2>1. <<>> \in Seq(Element) /\ strings.fn \in Vectors \cup {"none"} /\ strings.strays \in SUBSET Nat
    BY DEF VectorInv, StringsTypeOK, AnswerKind
  <2>2. strings' \in AnswerKind /\ UNCHANGED <<text, vector>>
    BY <1>10, <2>1 DEF Free, NoStrings, AnswerKind, Why
  <2> QED BY <2>2 DEF VectorInv, StringsTypeOK, CopyBounded
<1>11. CASE UNCHANGED stringVars
  BY <1>11 DEF stringVars, VectorInv, StringsTypeOK, CopyBounded
<1> QED
  BY <1>1, <1>2, <1>3, <1>4, <1>5, <1>6, <1>7, <1>8, <1>9, <1>10, <1>11 DEF StringsNext

\* The invariant is what the two properties need.
LEMMA VectorInvSuffices == VectorInv => StringsTypeOK /\ VectorInBounds
<1> SUFFICES ASSUME VectorInv, vector.pc = "copy"
             PROVE  vector.count < vector.room /\ Len(vector.cells) <= vector.room
  BY DEF VectorInv, VectorInBounds, VectorAt
<1>1. Len(vector.cells) \in Nat /\ vector.count \in Nat /\ text.len \in Nat /\ vector.next \in Nat
  BY DEF VectorInv, StringsTypeOK, VectorKind, Text
<1> QED BY <1>1 DEF VectorInv, CopyBounded

LEMMA VectorInvHolds == Spec => []VectorInv
<1>1. Init => VectorInv
  BY VectorInvInit DEF Init
<1>2. VectorInv /\ [Next]_vars => VectorInv'
  BY PartSteps, VectorInvStep
<1> QED BY <1>1, <1>2, PTL DEF Spec

\* Texts, arrays and answers are of their kinds in every behaviour, whatever the
\* number of strings.
THEOREM StringsTyped == Spec => []StringsTypeOK
<1> QED BY VectorInvHolds, VectorInvSuffices, PTL

\* Neither the strings nor the NULL at the end are ever written past the array,
\* whatever the text: cut, empty, or longer than what is counted.
THEOREM VectorStaysInBounds == Spec => []VectorInBounds
<1> QED BY VectorInvHolds, VectorInvSuffices, PTL
-----------------------------------------------------------------------------
(***************************************************************************)
(* Copies.                                                                 *)
(***************************************************************************)

\* Every copy that a call has made is in one of its elements, and the BSDs have
\* counted the strings that are ended.
HeldStored ==
  /\ vector.pc # "idle" => strings.strays = {}
  /\ vector.pc # "copy" => vector.held = {}
  /\ vector.pc = "copy" /\ vector.fn \in BsdVectors => vector.count = Terminated
  /\ \A p \in vector.held : \E i \in 1..Len(vector.cells) :
       vector.cells[i].at = p /\ vector.cells[i].is # "unset"

StraysInv == VectorInv /\ HeldStored /\ NoStrays

\* A call that answers with nothing lost keeps the invariant.
LEMMA ReturnLosesNothing ==
  ASSUME StraysInv, VectorInv', NEW null, NEW list, NEW why, NEW frees,
         Return(null, list, why, frees),
         vector.held \subseteq frees \cup Copies(list)
           \/ (vector.fn \in BsdVectors /\ text.cut)
  PROVE  StraysInv'
<1>1. /\ vector'.pc = "idle" /\ vector'.held = {} /\ text' = text
      /\ strings'.fn = vector.fn /\ strings'.strays = vector.held \ (frees \cup Copies(list))
  BY DEF Return, NoVector
<1>2. NoStrays'
  BY <1>1 DEF NoStrays
<1> QED BY <1>1, <1>2 DEF StraysInv, HeldStored

\* What the BSDs may lose is the copy of a last string that has no end; the others
\* see every element they have written.
LEMMA SeenHasAll ==
  ASSUME StraysInv, vector.pc = "copy"
  PROVE  vector.held \subseteq Copies(Seen) \/ (vector.fn \in BsdVectors /\ text.cut)
<1>1. /\ vector.count \in Nat /\ vector.next \in Nat /\ text.len \in Nat /\ text.cut \in BOOLEAN
      /\ Len(vector.cells) \in Nat /\ vector.cells \in Seq(Element)
  BY DEF StraysInv, VectorInv, StringsTypeOK, VectorKind, Text
<1>2. CASE Len(vector.cells) <= vector.count
  <2> SUFFICES ASSUME NEW p \in vector.held PROVE p \in Copies(Seen)
    OBVIOUS
  <2>1. PICK i \in 1..Len(vector.cells) : vector.cells[i].at = p /\ vector.cells[i].is # "unset"
    BY DEF StraysInv, HeldStored
  <2>2. i \in DOMAIN Seen /\ Seen[i] = vector.cells[i]
    BY <1>1, <1>2 DEF Seen
  <2> QED BY <2>1, <2>2 DEF Copies
<1>3. CASE ~(Len(vector.cells) <= vector.count)
  <2>1. vector.fn \in BsdVectors
    BY <1>3 DEF StraysInv, VectorInv, CopyBounded
  <2>2. vector.count = Terminated /\ Len(vector.cells) < vector.next /\ vector.next <= text.len + 1
    BY <2>1 DEF StraysInv, VectorInv, CopyBounded, HeldStored
  <2>3. text.cut
    BY <1>1, <1>3, <2>2 DEF Terminated
  <2> QED BY <2>1, <2>3
<1> QED BY <1>2, <1>3

\* A copy is stored as it is made.
LEMMA AppendedStores ==
  ASSUME StraysInv, VectorInv', vector.pc = "copy", UNCHANGED <<text, strings>>,
         NEW kind \in {"string", "start", "overrun", "null", "junk"}, NEW copies \in {{}, {vector.next}},
         Appended(kind, copies)
  PROVE  StraysInv'
<1> DEFINE new == [is |-> kind, at |-> vector.next]
<1>1. /\ vector.cells \in Seq(Element) /\ vector.next \in Nat /\ vector \in VectorKind
  BY DEF StraysInv, VectorInv, StringsTypeOK, VectorKind
<1>2. new \in Element /\ new.at = vector.next /\ new.is # "unset"
  BY <1>1 DEF Element
<1>3. /\ vector'.cells = Append(vector.cells, new) /\ vector'.held = vector.held \cup copies
      /\ vector'.pc = "copy" /\ vector'.fn = vector.fn /\ vector'.count = vector.count
  BY <1>1 DEF Appended, VectorKind
<1> HIDE DEF new
<1>4. /\ Len(vector'.cells) = Len(vector.cells) + 1 /\ Len(vector.cells) \in Nat
      /\ vector'.cells[Len(vector.cells) + 1] = new
      /\ \A i \in 1..Len(vector.cells) : vector'.cells[i] = vector.cells[i]
  BY <1>1, <1>2, <1>3
<1>5. ASSUME NEW p \in vector'.held
      PROVE  \E i \in 1..Len(vector'.cells) :
               vector'.cells[i].at = p /\ vector'.cells[i].is # "unset"
  <2>1. CASE p \in vector.held
    <3>1. PICK i \in 1..Len(vector.cells) : vector.cells[i].at = p /\ vector.cells[i].is # "unset"
      BY <2>1 DEF StraysInv, HeldStored
    <3>2. i \in 1..Len(vector'.cells) /\ vector'.cells[i] = vector.cells[i]
      BY <1>4
    <3> QED BY <3>1, <3>2
  <2>2. CASE p = vector.next
    <3>1. Len(vector.cells) + 1 \in 1..Len(vector'.cells)
      BY <1>4
    <3> QED BY <1>2, <1>4, <2>2, <3>1
  <2> QED BY <1>3, <1>5, <2>1, <2>2
<1>6. HeldStored'
  BY <1>3, <1>5 DEF StraysInv, HeldStored, Terminated
<1> QED BY <1>6 DEF StraysInv, NoStrays

\* Every step keeps the invariant.
LEMMA StraysInvStep == StraysInv /\ [StringsNext]_stringVars => StraysInv'
<1> SUFFICES ASSUME StraysInv, [StringsNext]_stringVars PROVE StraysInv'
  OBVIOUS
<1>0. VectorInv' /\ vector \in VectorKind
  BY VectorInvStep DEF StraysInv, VectorInv, StringsTypeOK
<1>1. ASSUME NEW f \in Vectors, Called(f) PROVE StraysInv'
  <2>1. vector'.held = {} /\ vector'.pc = "called" /\ strings'.strays = {}
    BY <1>1 DEF Called, NoVector, NoStrings
  <2> QED BY <1>0, <2>1 DEF StraysInv, HeldStored, NoStrays
<1>2. CASE Refused
  <2>1. vector.held = {}
    BY <1>2 DEF Refused, VectorAt, StraysInv, HeldStored
  <2> QED BY <1>0, <1>2, <2>1, ReturnLosesNothing DEF Refused
<1>3. CASE Reads
  <2>1. /\ vector'.held = vector.held /\ vector'.pc = "read" /\ vector.pc = "called" /\ strings' = strings
    BY <1>0, <1>3 DEF Reads, VectorAt, VectorKind
  <2> QED BY <1>0, <2>1 DEF StraysInv, HeldStored, NoStrays
<1>4. CASE ListsNothing
  <2>1. vector.held = {}
    BY <1>4 DEF ListsNothing, VectorAt, StraysInv, HeldStored
  <2> QED BY <1>0, <1>4, <2>1, ReturnLosesNothing DEF ListsNothing
<1>5. CASE Allocates
  <2>1. PICK n \in 0..(MaxStrings + Beyond) :
          Counted(n) /\ vector' = [vector EXCEPT !.pc = "copy", !.count = n, !.room = n + 1]
    BY <1>5 DEF Allocates, AllocatesFor
  <2>2. vector.pc = "read" /\ UNCHANGED <<text, strings>>
    BY <1>5 DEF Allocates, AllocatesFor, VectorAt
  <2>3. vector'.held = vector.held /\ vector'.pc = "copy" /\ vector'.fn = vector.fn /\ vector'.count = n
    BY <1>0, <2>1 DEF VectorKind
  <2>4. vector.held = {} /\ strings.strays = {}
    BY <2>2 DEF StraysInv, HeldStored
  <2>5. vector.fn \in BsdVectors => n = Terminated
    BY <2>1 DEF Counted, For, BsdVectors, LinuxVectors
  <2> QED BY <1>0, <2>2, <2>3, <2>4, <2>5 DEF StraysInv, HeldStored, NoStrays, Terminated
<1>6. CASE Passes
  <2>1. /\ vector'.held = vector.held /\ vector'.pc = "copy" /\ vector.pc = "copy"
        /\ vector'.fn = vector.fn /\ vector'.count = vector.count /\ vector'.cells = vector.cells
        /\ UNCHANGED <<text, strings>>
    BY <1>0, <1>6 DEF Passes, VectorAt, VectorKind
  <2> QED BY <1>0, <2>1 DEF StraysInv, HeldStored, NoStrays, Terminated
<1>7. CASE CopiesOne
  BY <1>0, <1>7, CopyKinds, AppendedStores DEF CopiesOne, VectorAt
<1>8. CASE CopyFails
  <2>1. CASE Return(TRUE, <<>>, "refused", vector.held)
    BY <1>0, <2>1, ReturnLosesNothing
  <2>2. CASE Appended("null", {}) /\ UNCHANGED <<text, strings>>
    BY <1>0, <1>8, <2>2, AppendedStores DEF CopyFails, VectorAt
  <2> QED BY <1>8, <2>1, <2>2 DEF CopyFails
<1>9. CASE AnswersStrings
  <2>1. CASE Return(FALSE, Seen, "none", {})
    BY <1>0, <1>9, <2>1, SeenHasAll, ReturnLosesNothing DEF AnswersStrings, VectorAt
  <2>2. CASE Return(TRUE, <<>>, "nothing", {}) /\ vector.cells = <<>>
    <3>1. vector.held = {}
      BY <2>2 DEF StraysInv, HeldStored
    <3> QED BY <1>0, <2>2, <3>1, ReturnLosesNothing
  <2> QED BY <1>9, <2>1, <2>2 DEF AnswersStrings
<1>10. CASE Free
  <2>1. /\ UNCHANGED <<text, vector>> /\ vector.pc = "idle"
        /\ strings'.fn = strings.fn /\ strings'.strays = strings.strays
    BY <1>10 DEF Free, NoStrings, VectorAt
  <2> QED BY <1>0, <2>1 DEF StraysInv, HeldStored, NoStrays, Terminated
<1>11. CASE UNCHANGED stringVars
  BY <1>0, <1>11 DEF stringVars, StraysInv, HeldStored, NoStrays, Terminated
<1> QED
  BY <1>1, <1>2, <1>3, <1>4, <1>5, <1>6, <1>7, <1>8, <1>9, <1>10, <1>11 DEF StringsNext

\* Whichever way a call ends, no copy is lost, except on the BSDs that of a last
\* string without its end.
THEOREM StringsLoseNothing == Spec => []NoStrays
<1>1. Init => StraysInv
  BY VectorInvInit DEF Init, StringsInit, StraysInv, HeldStored, NoStrays, NoVector, NoStrings
<1>2. StraysInv => NoStrays
  BY DEF StraysInv
<1>3. StraysInv /\ [Next]_vars => StraysInv'
  BY PartSteps, StraysInvStep
<1> QED BY <1>1, <1>2, <1>3, PTL DEF Spec
-----------------------------------------------------------------------------
(***************************************************************************)
(* What the elements are, and what is missing.                             *)
(***************************************************************************)

\* Why an element that was stored for a place is what it is.
Explained(is, at) ==
  \/ /\ is \in {"string", "start", "overrun"} /\ at <= text.len
     /\ is = "start" => vector.fn \in LinuxVectors /\ at = text.len /\ text.cut
     /\ is = "overrun" =>
          /\ vector.fn \in BsdVectors \cup {"macos_cmdline", "windows_environ"}
          /\ at = text.len /\ text.cut
     /\ at > text.args => 1 \in text.empty
  \/ is = "null" /\ vector.fn \notin LinuxVectors \cup {"macos_cmdline"}
  \/ /\ is = "junk" /\ vector.fn \in LinuxVectors \cup {"windows_environ"}
     /\ text.cut \/ ~text.read
     /\ at > text.len \/ ~text.read

\* An element stands for a string that has been passed in the text, in order; if
\* it is not a copy of it there is a reason.
StandsFor(i) ==
  LET cell == vector.cells[i]
  IN  /\ cell.at \in i..(vector.next - 1)
      /\ \A j \in 1..(i - 1) : vector.cells[j].at < cell.at
      /\ Explained(cell.is, cell.at)

\* There is no answer during a call, and the text is one that its function can
\* get.  Every string up to the next has been passed over or has an element, and
\* there are fewer elements than strings only if one has been passed over.
Followed ==
  /\ vector.pc # "idle" =>
       vector.fn \in Vectors /\ strings = NoStrings /\ Gets(vector.fn, text)
  /\ vector.pc = "copy" =>
       /\ Counted(vector.count) /\ Len(vector.cells) < vector.next
       /\ \A i \in 1..Len(vector.cells) : StandsFor(i)
       /\ \A p \in 1..(vector.next - 1) :
            PassedOver(p) \/ \E i \in 1..Len(vector.cells) : vector.cells[i].at = p
       /\ Len(vector.cells) = vector.next - 1 <=> \A p \in 1..(vector.next - 1) : ~PassedOver(p)

TextInv == VectorInv /\ Followed /\ VectorOfText /\ VectorComplete

\* What the places and the numbers of a call are.
LEMMA CallNumbers ==
  ASSUME TextInv
  PROVE  /\ vector \in VectorKind /\ text \in Text /\ vector.cells \in Seq(Element)
         /\ vector.next \in Nat /\ vector.count \in Nat /\ Len(vector.cells) \in Nat
         /\ text.len \in Nat /\ text.args \in Nat /\ text.beyond \in Nat
         /\ text.cut \in BOOLEAN /\ text.read \in BOOLEAN
         /\ vector.cells = <<>> <=> Len(vector.cells) = 0
  BY DEF TextInv, VectorInv, StringsTypeOK, VectorKind, Text

\* A function that is called is one of those that are modelled.
LEMMA FunctionsKnown ==
  ASSUME NEW f \in Vectors
  PROVE  /\ f \in LinuxVectors \cup BsdVectors \cup AndroidVectors
                    \cup {"macos_cmdline", "windows_cmdline", "windows_environ"}
         /\ f \in BsdVectors => f \notin LinuxVectors \cup AndroidVectors
         /\ f \in AndroidVectors => f \notin LinuxVectors
         /\ f \in {"macos_cmdline", "windows_cmdline", "windows_environ"} =>
              f \notin LinuxVectors \cup BsdVectors \cup AndroidVectors
  BY StringVectorAssumption DEF LinuxVectors, BsdVectors, AndroidVectors, WindowsVectors

\* A function that is called knows its name.
LEMMA CalledIsKnown ==
  ASSUME TextInv, vector.pc # "idle"
  PROVE  vector.fn \in Vectors /\ strings = NoStrings /\ Gets(vector.fn, text)
  BY DEF TextInv, Followed

\* Before there is an answer nothing can be wrong with it.
LEMMA NothingSaid ==
  ASSUME strings.list = <<>>, strings.null, strings.why # "nothing"
  PROVE  VectorOfText /\ VectorComplete
  BY DEF VectorOfText, VectorComplete

LEMMA NothingSaidNext ==
  ASSUME (strings.list = <<>>)', (strings.null)', (strings.why # "nothing")'
  PROVE  VectorOfText' /\ VectorComplete'
  BY DEF VectorOfText, VectorComplete

\* What a function counts.
LEMMA CountIs ==
  ASSUME TextInv, vector.pc = "copy", vector.fn \in Vectors
  PROVE  /\ vector.fn \in LinuxVectors => BeforeEmpty(vector.count)
         /\ vector.fn \in BsdVectors \cup AndroidVectors => vector.count = Terminated
         /\ vector.fn = "macos_cmdline" => vector.count = text.args
         /\ vector.fn = "windows_cmdline" => vector.count = text.len
         /\ vector.fn = "windows_environ" => vector.count = BlockCount
<1>1. Counted(vector.count)
  BY DEF TextInv, Followed
<1> QED BY <1>1, FunctionsKnown DEF Counted, For

\* When nothing more is copied, all elements are stored, or all of the text has
\* been passed.
LEMMA NoMore ==
  ASSUME TextInv, ~MoreToCopy
  PROVE  \/ vector.next > text.len
              + (IF vector.fn \in LinuxVectors \cup {"windows_environ"} THEN text.beyond ELSE 0)
         \/ vector.fn \notin BsdVectors /\ Len(vector.cells) >= vector.count
<1> DEFINE more == IF vector.fn \in LinuxVectors \cup {"windows_environ"} THEN text.beyond ELSE 0
<1>1. more \in Nat
  BY CallNumbers
<1>2. ~(vector.next <= text.len + more) \/ (vector.fn \notin BsdVectors /\ ~(Len(vector.cells) < vector.count))
  BY DEF MoreToCopy, For
<1> HIDE DEF more
<1>3. vector.next > text.len + more \/ (vector.fn \notin BsdVectors /\ Len(vector.cells) >= vector.count)
  BY <1>1, <1>2, CallNumbers
<1> QED BY <1>3 DEF more

\* An element that was never assigned has a reason.
LEMMA UnsetExplained ==
  ASSUME TextInv, vector.pc = "copy", vector.fn \in Vectors, ~MoreToCopy,
         vector.fn # "macos_cmdline", Len(vector.cells) < vector.count
  PROVE  \/ vector.fn \in BsdVectors /\ text.empty # {}
         \/ vector.fn = "windows_environ" /\ (~text.read \/ text.len = 0)
<1>1. Gets(vector.fn, text) /\ Len(vector.cells) < vector.next
  BY DEF TextInv, Followed
<1>2. vector.next > text.len
        + (IF vector.fn \in LinuxVectors \cup {"windows_environ"} THEN text.beyond ELSE 0)
  BY NoMore, CallNumbers
<1>3. CASE \E p \in 1..(vector.next - 1) : PassedOver(p)
  <2>1. PICK p \in 1..(vector.next - 1) : PassedOver(p)
    BY <1>3
  <2>2. vector.fn \in BsdVectors \cup {"windows_environ"} /\ p \in text.empty
    BY <2>1 DEF PassedOver, For
  <2> QED BY <1>1, <2>2 DEF Gets
<1>4. CASE \A p \in 1..(vector.next - 1) : ~PassedOver(p)
  <2>1. Len(vector.cells) = vector.next - 1
    BY <1>4 DEF TextInv, Followed
  <2>2. vector.next <= vector.count
    BY <2>1, CallNumbers
  <2>3. vector.fn \notin BsdVectors \cup AndroidVectors
    BY <1>2, <2>2, CountIs, CallNumbers, FunctionsKnown DEF Terminated
  <2>4. vector.fn # "windows_cmdline"
    BY <1>2, <2>2, CountIs, CallNumbers, FunctionsKnown
  <2>5. vector.fn \notin LinuxVectors
    BY <1>2, <2>2, CountIs, CallNumbers DEF BeforeEmpty
  <2>6. vector.fn = "windows_environ"
    BY <2>3, <2>4, <2>5, FunctionsKnown
  <2>7. ~text.read \/ text.len = 0
    <3>1. vector.next > text.len + text.beyond
      BY <1>2, <2>6
    <3>2. vector.count = IF text.read /\ ~text.cut THEN (IF text.len = 0 THEN 1 ELSE text.len)
                         ELSE text.len - 1 + text.beyond
      BY <2>6, CountIs DEF BlockCount
    <3> QED BY <2>2, <3>1, <3>2, CallNumbers
  <2> QED BY <2>6, <2>7
<1> QED BY <1>3, <1>4

\* What the program sees, element by element.
LEMMA SeenCells ==
  ASSUME TextInv
  PROVE  /\ vector.fn = "macos_cmdline" => Seen = vector.cells
         /\ vector.fn # "macos_cmdline" =>
              /\ DOMAIN Seen = 1..vector.count
              /\ \A i \in 1..vector.count :
                   Seen[i] = IF i <= Len(vector.cells) THEN vector.cells[i] ELSE Unset
  BY DEF Seen, For

\* If no string is empty, the element of a last string without its NUL is beyond
\* those that the BSDs have counted.
LEMMA OverrunOverwritten ==
  ASSUME TextInv, vector.pc = "copy", vector.fn \in BsdVectors, text.cut,
         NEW i \in 1..Len(vector.cells), i <= vector.count, vector.cells[i].at = text.len
  PROVE  text.empty # {}
<1> SUFFICES ASSUME text.empty = {} PROVE FALSE
  OBVIOUS
<1>1. vector.fn \in Vectors
  BY CalledIsKnown
<1>2. vector.count = text.len - 1 /\ vector.next <= text.len + 1
  BY <1>1, CountIs, CallNumbers DEF TextInv, VectorInv, CopyBounded, Terminated
<1>3. StandsFor(i)
  BY DEF TextInv, Followed
<1>4. vector.next = text.len + 1
  <2>1. vector.cells[i].at \in i..(vector.next - 1)
    BY <1>3 DEF StandsFor
  <2>2. text.len <= vector.next - 1
    BY <2>1, CallNumbers
  <2> QED BY <1>2, <2>2, CallNumbers
<1>5. \A p : ~PassedOver(p)
  BY <1>1, FunctionsKnown DEF PassedOver, For
<1>6. Len(vector.cells) = text.len
  <2>1. Len(vector.cells) = vector.next - 1
    BY <1>5 DEF TextInv, Followed
  <2> QED BY <1>4, <2>1, CallNumbers
<1> DEFINE n == text.len
<1>7. n \in 1..Len(vector.cells) /\ i \in 1..(n - 1)
  BY <1>2, <1>6, CallNumbers
<1>8. StandsFor(n)
  BY <1>7 DEF TextInv, Followed
<1>9. vector.cells[n].at <= n /\ vector.cells[i].at < vector.cells[n].at
  BY <1>4, <1>7, <1>8, CallNumbers DEF StandsFor
<1>10. vector.cells[n].at \in Int
  BY <1>8, CallNumbers DEF StandsFor
<1> QED BY <1>9, <1>10, CallNumbers

\* Every element of an answer is a string of the text, or has its reason.
LEMMA AnswerOfText ==
  ASSUME TextInv, vector.pc = "copy", vector.fn \in Vectors, ~MoreToCopy,
         Return(FALSE, Seen, "none", {})
  PROVE  VectorOfText'
<1>1. strings'.list = Seen /\ strings'.fn = vector.fn /\ text' = text
  BY DEF Return
<1>2. ASSUME NEW i \in DOMAIN Seen, i \in 1..Len(vector.cells)
      PROVE  \/ /\ Seen[i].is \in {"string", "start", "overrun"} /\ Seen[i].at \in 1..text.len
                /\ Seen[i].is = "start" =>
                     vector.fn \in LinuxVectors /\ Seen[i].at = text.len /\ text.cut
                /\ Seen[i].is = "overrun" =>
                     /\ Seen[i].at = text.len /\ text.cut
                     /\ \/ vector.fn \in BsdVectors /\ text.empty # {}
                        \/ vector.fn \in {"macos_cmdline", "windows_environ"}
                /\ Seen[i].at > text.args => 1 \in text.empty
                /\ \A j \in 1..(i - 1) : Seen[j].at < Seen[i].at
             \/ Seen[i].is = "null" /\ vector.fn \notin LinuxVectors \cup {"macos_cmdline"}
             \/ /\ Seen[i].is = "junk" /\ vector.fn \in LinuxVectors \cup {"windows_environ"}
                /\ text.cut \/ ~text.read
  <2>1. \A j \in 1..i : Seen[j] = vector.cells[j]
    <3>1. CASE vector.fn = "macos_cmdline"
      BY <3>1, SeenCells
    <3>2. CASE vector.fn # "macos_cmdline"
      <4>1. i \in 1..vector.count /\ i <= Len(vector.cells)
        BY <1>2, <3>2, SeenCells, CallNumbers
      <4>2. \A j \in 1..i : j \in 1..vector.count /\ j <= Len(vector.cells)
        BY <4>1, CallNumbers
      <4> QED BY <3>2, <4>2, SeenCells
    <3> QED BY <3>1, <3>2
  <2>2. StandsFor(i)
    BY <1>2 DEF TextInv, Followed
  <2>3. Seen[i] = vector.cells[i] /\ \A j \in 1..(i - 1) : Seen[j] = vector.cells[j]
    <3>1. i \in 1..i /\ \A j \in 1..(i - 1) : j \in 1..i
      BY <1>2, CallNumbers
    <3> QED BY <2>1, <3>1
  <2>4. vector.cells[i].at \in i..(vector.next - 1) /\ \A j \in 1..(i - 1) : vector.cells[j].at < vector.cells[i].at
    BY <2>2 DEF StandsFor
  <2>5. \A j \in 1..(i - 1) : Seen[j].at < Seen[i].at
    BY <2>3, <2>4
  <2>6. vector.cells[i].at \in Nat /\ vector.cells[i].at >= 1
    BY <1>2, <2>4, CallNumbers
  <2>7. Explained(Seen[i].is, Seen[i].at)
    BY <2>2, <2>3 DEF StandsFor
  <2>8. ASSUME Seen[i].is = "overrun", vector.fn \in BsdVectors PROVE text.empty # {}
    <3>1. vector.cells[i].at = text.len /\ text.cut
      BY <2>3, <2>7, <2>8 DEF Explained
    <3>2. i <= vector.count
      BY <1>2, <2>8, SeenCells, CallNumbers, FunctionsKnown
    <3> QED BY <1>2, <2>8, <3>1, <3>2, OverrunOverwritten
  <2>9. Seen[i].at \in Nat /\ Seen[i].at >= 1
    BY <2>3, <2>6
  <2> QED BY <2>5, <2>7, <2>8, <2>9, CallNumbers DEF Explained
<1>3. ASSUME NEW i \in DOMAIN Seen, i \notin 1..Len(vector.cells)
      PROVE  /\ Seen[i].is = "unset"
             /\ \/ vector.fn \in BsdVectors /\ text.empty # {}
                \/ vector.fn = "windows_environ" /\ (~text.read \/ text.len = 0)
  <2>1. vector.fn # "macos_cmdline"
    BY <1>3, SeenCells, CallNumbers
  <2>2. i \in 1..vector.count /\ Seen[i] = Unset /\ Len(vector.cells) < vector.count
    BY <1>3, <2>1, SeenCells, CallNumbers
  <2> QED BY <2>1, <2>2, UnsetExplained DEF Unset
<1>4. ASSUME NEW i \in DOMAIN Seen
      PROVE  \/ /\ Seen[i].is \in {"string", "start", "overrun"} /\ Seen[i].at \in 1..text.len
                /\ Seen[i].is = "start" =>
                     vector.fn \in LinuxVectors /\ Seen[i].at = text.len /\ text.cut
                /\ Seen[i].is = "overrun" =>
                     /\ Seen[i].at = text.len /\ text.cut
                     /\ \/ vector.fn \in BsdVectors /\ text.empty # {}
                        \/ vector.fn \in {"macos_cmdline", "windows_environ"}
                /\ Seen[i].at > text.args => 1 \in text.empty
                /\ \A j \in 1..(i - 1) : Seen[j].at < Seen[i].at
             \/ Seen[i].is = "null" /\ vector.fn \notin LinuxVectors \cup {"macos_cmdline"}
             \/ /\ Seen[i].is = "unset"
                /\ \/ vector.fn \in BsdVectors /\ text.empty # {}
                   \/ vector.fn = "windows_environ" /\ (~text.read \/ text.len = 0)
             \/ /\ Seen[i].is = "junk" /\ vector.fn \in LinuxVectors \cup {"windows_environ"}
                /\ text.cut \/ ~text.read
  BY <1>2, <1>3
<1> QED BY <1>1, <1>4 DEF VectorOfText

\* A string that has been passed is in the answer, or has been passed over; the
\* BSDs may lose the last.
LEMMA PassedIsListed ==
  ASSUME TextInv, vector.pc = "copy", vector.fn \in Vectors, NEW p \in 1..(vector.next - 1)
  PROVE  \/ p \in Listed(Seen) \/ PassedOver(p)
         \/ vector.fn \in BsdVectors /\ p = text.len /\ text.cut /\ text.empty = {}
         \/ p > text.len \/ ~text.read
<1> SUFFICES ASSUME ~PassedOver(p), ~(p > text.len), text.read
             PROVE  \/ p \in Listed(Seen)
                    \/ vector.fn \in BsdVectors /\ p = text.len /\ text.cut /\ text.empty = {}
  OBVIOUS
<1>1. PICK i \in 1..Len(vector.cells) : vector.cells[i].at = p
  BY DEF TextInv, Followed
<1>2. StandsFor(i) /\ Gets(vector.fn, text) /\ Len(vector.cells) < vector.next
  BY DEF TextInv, Followed
<1>3. /\ vector.cells[i].at \in i..(vector.next - 1)
      /\ vector.cells[i].is # "unset" /\ vector.cells[i].is # "junk"
  BY <1>1, <1>2 DEF StandsFor, Explained
<1>4. CASE vector.fn = "macos_cmdline" \/ i <= vector.count
  <2>1. i \in DOMAIN Seen /\ Seen[i] = vector.cells[i]
    <3>1. CASE vector.fn = "macos_cmdline"
      BY <3>1, SeenCells, CallNumbers
    <3>2. CASE vector.fn # "macos_cmdline"
      <4>1. i \in 1..vector.count /\ i <= Len(vector.cells)
        BY <1>4, <3>2, CallNumbers
      <4> QED BY <3>2, <4>1, SeenCells
    <3> QED BY <3>1, <3>2
  <2> QED BY <1>1, <1>3, <2>1 DEF Listed
<1>5. CASE vector.fn # "macos_cmdline" /\ ~(i <= vector.count)
  <2>1. vector.fn \in BsdVectors
    BY <1>5, CallNumbers DEF TextInv, VectorInv, CopyBounded
  <2>2. vector.count = Terminated /\ vector.next <= text.len + 1
    BY <2>1, CountIs DEF TextInv, VectorInv, CopyBounded
  <2>3. text.cut /\ i = text.len /\ Len(vector.cells) = text.len /\ vector.next = text.len + 1
    BY <1>2, <1>5, <2>2, CallNumbers DEF Terminated
  <2>4. p = text.len
    BY <1>1, <1>3, <2>3, CallNumbers
  <2>5. \A q \in 1..text.len : ~PassedOver(q)
    <3>1. Len(vector.cells) = vector.next - 1
      BY <2>3, CallNumbers
    <3>2. \A q \in 1..(vector.next - 1) : ~PassedOver(q)
      BY <3>1 DEF TextInv, Followed
    <3> QED BY <2>3, <3>2, CallNumbers
  <2>6. text.empty = {}
    BY <1>2, <2>1, <2>5 DEF PassedOver, For, Gets
  <2> QED BY <2>1, <2>3, <2>4, <2>6
<1> QED BY <1>4, <1>5

\* What is missing from an answer has a reason.
LEMMA AnswerComplete ==
  ASSUME TextInv, vector.pc = "copy", vector.fn \in Vectors, ~MoreToCopy,
         Return(FALSE, Seen, "none", {})
  PROVE  VectorComplete'
<1>1. /\ strings'.list = Seen /\ strings'.fn = vector.fn /\ text' = text
      /\ strings'.why = "none"
  BY DEF Return
<1>2. Gets(vector.fn, text) /\ Len(vector.cells) < vector.next
  BY DEF TextInv, Followed
<1> DEFINE f == vector.fn
           Excused(p) ==
             \/ f \in Buffered /\ p > text.len
             \/ f \in LinuxVectors /\ \E e \in text.empty : e <= p
             \/ f \in BsdVectors /\ (p \in text.empty \/ (p = text.len /\ text.cut /\ text.empty = {}))
             \/ f \in AndroidVectors /\ p = text.len /\ text.cut
             \/ f = "macos_cmdline" /\ 1..p \subseteq text.empty
             \/ f = "windows_environ" /\ ((p = text.len /\ text.cut) \/ ~text.read)
<1>3. ASSUME NEW p \in 1..text.args, p \notin Listed(Seen)
      PROVE  Excused(p)
  <2>0. p \in Nat /\ 1 <= p /\ p <= text.args
    BY CallNumbers
  <2>4. CASE p > text.len
    <3>1. text.args > text.len
      BY <2>0, <2>4, CallNumbers
    <3> QED BY <1>2, <2>4, <3>1 DEF Gets
  <2> SUFFICES ASSUME ~(p > text.len) PROVE Excused(p)
    BY <2>4
  <2>1. p \in Nat /\ 1 <= p /\ p <= text.len
    BY <2>0, CallNumbers
  <2>2. CASE p \in 1..(vector.next - 1)
    <3>1. \/ PassedOver(p) \/ ~text.read
          \/ f \in BsdVectors /\ p = text.len /\ text.cut /\ text.empty = {}
      BY <1>3, <2>2, PassedIsListed
    <3>3. ~text.read => f = "windows_environ"
      BY <1>2 DEF Gets
    <3>2. PassedOver(p) /\ f = "windows_environ" => ~text.read
      BY <1>2 DEF PassedOver, For, Gets, BsdVectors
    <3> QED BY <3>1, <3>2, <3>3 DEF PassedOver, For
  <2>3. CASE ~(p \in 1..(vector.next - 1))
    <3>1. vector.next <= p
      BY <2>1, <2>3, CallNumbers
    <3>2. f \notin BsdVectors /\ Len(vector.cells) >= vector.count
      <4>1. PICK more \in Nat :
              more = IF vector.fn \in LinuxVectors \cup {"windows_environ"} THEN text.beyond ELSE 0
        BY CallNumbers
      <4>2. vector.next > text.len + more \/ (f \notin BsdVectors /\ Len(vector.cells) >= vector.count)
        BY <4>1, NoMore
      <4>3. ~(vector.next > text.len + more)
        BY <2>1, <3>1, CallNumbers
      <4> QED BY <4>2, <4>3
    <3>3. Len(vector.cells) = vector.count
      BY <3>2, CallNumbers DEF TextInv, VectorInv, CopyBounded
    <3>4. vector.count < vector.next
      BY <1>2, <3>3
    <3>5. CASE \E q \in 1..(vector.next - 1) : PassedOver(q)
      <4>1. PICK q \in 1..(vector.next - 1) : PassedOver(q)
        BY <3>5
      <4>2. f = "macos_cmdline" \/ (f = "windows_environ" /\ q \in text.empty)
        BY <3>2, <4>1 DEF PassedOver, For
      <4>3. f # "macos_cmdline"
        <5>1. p <= text.args
          BY <1>3, CallNumbers
        <5>2. vector.count < p
          BY <2>1, <3>1, <3>4, CallNumbers
        <5>3. vector.count # text.args
          BY <2>1, <5>1, <5>2, CallNumbers
        <5> QED BY <5>3, CountIs
      <4> QED BY <1>2, <4>2, <4>3 DEF Gets
    <3>6. CASE \A q \in 1..(vector.next - 1) : ~PassedOver(q)
      <4>1. vector.next = vector.count + 1
        <5>1. Len(vector.cells) = vector.next - 1
          BY <3>6 DEF TextInv, Followed
        <5> QED BY <3>3, <5>1, CallNumbers
      <4>2. CASE f \in LinuxVectors
        <5>1. vector.count < text.len + text.beyond
          BY <2>1, <3>1, <4>1, CallNumbers
        <5>2. vector.count + 1 \in text.empty
          BY <4>2, <5>1, CountIs DEF BeforeEmpty
        <5> QED BY <3>1, <4>1, <4>2, <5>2
      <4>3. CASE f \in AndroidVectors
        <5>1. vector.count = Terminated
          BY <4>3, CountIs
        <5> QED BY <2>1, <3>1, <4>1, <4>3, <5>1, CallNumbers DEF Terminated
      <4>4. f # "macos_cmdline" /\ f # "windows_cmdline"
        <5>1. p <= text.args /\ p <= text.len
          BY <1>3, <2>1, CallNumbers
        <5>2. vector.count # text.args /\ vector.count # text.len
          BY <2>1, <3>1, <4>1, <5>1, CallNumbers
        <5> QED BY <5>2, CountIs
      <4>5. CASE f = "windows_environ"
        <5>1. vector.count = IF text.read /\ ~text.cut THEN (IF text.len = 0 THEN 1 ELSE text.len)
                             ELSE text.len - 1 + text.beyond
          BY <4>5, CountIs DEF BlockCount
        <5>2. CASE text.read /\ ~text.cut
          BY <2>1, <3>1, <4>1, <5>1, <5>2, CallNumbers
        <5>3. CASE text.cut
          BY <2>1, <3>1, <4>1, <4>5, <5>1, <5>3, CallNumbers
        <5> QED BY <4>5, <5>2, <5>3, CallNumbers
      <4> QED BY <3>2, <4>2, <4>3, <4>4, <4>5, FunctionsKnown
    <3> QED BY <3>5, <3>6
  <2> QED BY <2>2, <2>3
<1>4. ~strings'.null => \A p \in 1..text.args \ Listed(Seen) : Excused(p)
  BY <1>3
<1>5. (Listed(strings.list))' = Listed(Seen)
  BY <1>1 DEF Listed
<1> QED BY <1>1, <1>4, <1>5 DEF VectorComplete

\* Within a call there is nothing to be wrong about.
LEMMA StillNothingSaid ==
  ASSUME strings' = NoStrings
  PROVE  VectorOfText' /\ VectorComplete'
<1>1. (strings.list = <<>>)' /\ (strings.null)' /\ (strings.why # "nothing")'
  BY DEF NoStrings
<1> QED BY <1>1, NothingSaidNext

\* The element that is appended stands for its string.
LEMMA AppendedStandsFor ==
  ASSUME TextInv, vector.pc = "copy", MoreToCopy, NEW kind,
         \/ kind = CopyOf(vector.next)
         \/ kind = "null" /\ vector.fn \notin LinuxVectors \cup {"macos_cmdline"}
  PROVE  Explained(kind, vector.next)
<1>1. vector.fn \in Vectors /\ Gets(vector.fn, text)
  BY CalledIsKnown
<1>2. CASE kind = "null"
  BY <1>2, CopyKinds DEF Explained
<1>3. CASE kind = CopyOf(vector.next) /\ (vector.next > text.len \/ ~text.read)
  <2>0. kind = "junk"
    BY <1>3 DEF CopyOf
  <2>1. CASE ~text.read
    BY <1>1, <2>0, <2>1 DEF Gets, Explained
  <2>2. CASE vector.next > text.len
    <3>1. ~(vector.next <= text.len)
      BY <2>2, CallNumbers
    <3>2. vector.fn \in LinuxVectors \cup {"windows_environ"}
      BY <3>1, CallNumbers DEF MoreToCopy, For
    <3>3. vector.next <= text.len + text.beyond
      BY <3>2 DEF MoreToCopy, For
    <3>4. text.beyond > 0
      BY <2>2, <3>3, CallNumbers
    <3> QED BY <1>1, <2>0, <2>2, <3>2, <3>4 DEF Gets, Explained
  <2> QED BY <1>3, <2>1, <2>2
<1>4. CASE kind = CopyOf(vector.next) /\ ~(vector.next > text.len) /\ text.read
  <2>1. vector.next <= text.len
    BY <1>4, CallNumbers
  <2>2. vector.next > text.args => 1 \in text.empty
    <3> SUFFICES ASSUME vector.next > text.args PROVE 1 \in text.empty
      OBVIOUS
    <3>0. text.args < text.len
      BY <2>1, CallNumbers
    <3>1. vector.fn = "macos_cmdline"
      BY <1>1, <3>0 DEF Gets
    <3>2. Len(vector.cells) < text.args
      BY <1>1, <3>1, CountIs, FunctionsKnown DEF MoreToCopy, For
    <3>3. Len(vector.cells) # vector.next - 1
      BY <3>2, CallNumbers
    <3>4. PICK p \in 1..(vector.next - 1) : PassedOver(p)
      BY <3>3 DEF TextInv, Followed
    <3>5. 1..p \subseteq text.empty /\ 1 \in 1..p
      BY <1>1, <3>1, <3>4, FunctionsKnown, CallNumbers DEF PassedOver, For
    <3> QED BY <3>5
  <2>3. CASE vector.next < text.len \/ ~text.cut
    <3>1. kind = "string"
      BY <1>4, <2>3 DEF CopyOf
    <3> QED BY <2>1, <2>2, <3>1 DEF Explained
  <2>4. CASE ~(vector.next < text.len) /\ text.cut
    <3>1. vector.next = text.len
      BY <2>1, <2>4, CallNumbers
    <3>2. kind = IF vector.fn \in LinuxVectors THEN "start" ELSE "overrun"
      BY <1>4, <2>4 DEF CopyOf, For
    <3>3. vector.fn # "windows_cmdline"
      BY <1>1, <2>4 DEF Gets
    <3>4. vector.fn \notin AndroidVectors
      <4> SUFFICES ASSUME vector.fn \in AndroidVectors PROVE FALSE
        OBVIOUS
      <4>1. vector.count = text.len - 1
        BY <1>1, <2>4, CountIs DEF Terminated
      <4>2. Len(vector.cells) < vector.count
        BY <1>1, FunctionsKnown DEF MoreToCopy, For
      <4>3. \A p : ~PassedOver(p)
        BY <1>1, FunctionsKnown DEF PassedOver, For
      <4>4. Len(vector.cells) = vector.next - 1
        BY <4>3 DEF TextInv, Followed
      <4> QED BY <3>1, <4>1, <4>2, <4>4, CallNumbers
    <3>5. \/ vector.fn \in LinuxVectors
          \/ vector.fn \in BsdVectors \cup {"macos_cmdline", "windows_environ"}
      BY <1>1, <3>3, <3>4, FunctionsKnown
    <3>6. kind = "start" => vector.fn \in LinuxVectors
      BY <3>2
    <3>7. kind = "overrun" => vector.fn \in BsdVectors \cup {"macos_cmdline", "windows_environ"}
      BY <3>2, <3>5
    <3> QED BY <2>1, <2>2, <2>4, <3>1, <3>2, <3>6, <3>7 DEF Explained
  <2> QED BY <2>3, <2>4
<1> QED BY <1>2, <1>3, <1>4

\* What a function counts and passes over depends on the text only.
LEMMA SameCall ==
  ASSUME text' = text, vector'.fn = vector.fn, vector'.count = vector.count
  PROVE  /\ Counted(vector.count) => Counted(vector.count)'
         /\ \A p : PassedOver(p)' <=> PassedOver(p)
<1>1. Counted(vector.count) => Counted(vector.count)'
  BY DEF Counted, For, BeforeEmpty, Terminated, BlockCount, LinuxVectors, BsdVectors, AndroidVectors
<1>2. \A p : PassedOver(p)' <=> PassedOver(p)
  BY DEF PassedOver, For, BsdVectors
<1> QED BY <1>1, <1>2

\* So does the reason of an element.
LEMMA SameReason ==
  ASSUME text' = text, vector'.fn = vector.fn, NEW is, NEW at, Explained(is, at)
  PROVE  Explained(is, at)'
  BY DEF Explained, LinuxVectors, BsdVectors

\* A string that is copied gets an element.
LEMMA AppendedFollows ==
  ASSUME TextInv, VectorInv', vector.pc = "copy", MoreToCopy, ~PassedOver(vector.next),
         UNCHANGED <<text, strings>>,
         NEW kind, NEW copies, Appended(kind, copies),
         \/ kind = CopyOf(vector.next)
         \/ kind = "null" /\ vector.fn \notin LinuxVectors \cup {"macos_cmdline"}
  PROVE  TextInv'
<1> DEFINE new == [is |-> kind, at |-> vector.next]
<1>1. new \in Element /\ new.at = vector.next /\ new.is = kind
  BY CallNumbers, CopyKinds DEF Element
<1>2. /\ vector'.cells = Append(vector.cells, new) /\ vector'.next = vector.next + 1
      /\ vector'.pc = "copy" /\ vector'.fn = vector.fn /\ vector'.count = vector.count
  BY CallNumbers DEF Appended, VectorKind
<1> HIDE DEF new
<1>3. /\ Len(vector'.cells) = Len(vector.cells) + 1
      /\ vector'.cells[Len(vector.cells) + 1] = new
      /\ \A i \in 1..Len(vector.cells) : vector'.cells[i] = vector.cells[i]
  BY <1>1, <1>2, CallNumbers
<1>4. vector.fn \in Vectors /\ strings' = NoStrings /\ Gets(vector.fn, text)
  BY CalledIsKnown
<1>5. Len(vector.cells) < vector.next /\ Counted(vector.count)
  BY DEF TextInv, Followed
<1>6. ASSUME NEW i, i \in 1..Len(vector.cells) PROVE StandsFor(i)'
  <2>1. StandsFor(i)
    BY <1>6 DEF TextInv, Followed
  <2>2. \A j \in 1..i : vector'.cells[j] = vector.cells[j]
    <3>1. \A j \in 1..i : j \in 1..Len(vector.cells)
      BY <1>6, CallNumbers
    <3> QED BY <1>3, <3>1
  <2>3. vector'.cells[i] = vector.cells[i] /\ \A j \in 1..(i - 1) : vector'.cells[j] = vector.cells[j]
    BY <1>6, <2>2, CallNumbers
  <2>4. vector.cells[i].at \in i..(vector.next + 1 - 1)
    BY <1>6, <2>1, CallNumbers DEF StandsFor
  <2>5. Explained(vector.cells[i].is, vector.cells[i].at)
    BY <2>1 DEF StandsFor
  <2>6. \A j \in 1..(i - 1) : vector.cells[j].at < vector.cells[i].at
    BY <2>1 DEF StandsFor
  <2>7. text' = text
    OBVIOUS
  <2>8. (vector.cells[i].at \in i..(vector.next - 1))'
    <3>1. vector'.next - 1 = vector.next + 1 - 1
      BY <1>2, CallNumbers
    <3>2. vector'.cells[i].at = vector.cells[i].at
      BY <2>3
    <3> QED BY <2>4, <3>1, <3>2
  <2>9. (\A j \in 1..(i - 1) : vector.cells[j].at < vector.cells[i].at)'
    BY <1>2, <2>3, <2>4, <2>5, <2>6, <2>7
  <2>10. Explained(vector.cells[i].is, vector.cells[i].at)'
    BY <1>2, <2>3, <2>5, <2>7, SameReason
  <2> QED BY <2>8, <2>9, <2>10 DEF StandsFor
<1>7. ASSUME NEW m, m = Len(vector.cells) + 1 PROVE StandsFor(m)'
  <2>1. \A j \in 1..Len(vector.cells) : vector'.cells[j].at < vector.next
    <3>1. \A j \in 1..Len(vector.cells) : vector.cells[j].at \in j..(vector.next - 1)
      BY DEF TextInv, Followed, StandsFor
    <3>2. \A j \in 1..Len(vector.cells) : vector.cells[j].at < vector.next
      BY <3>1, CallNumbers
    <3> QED BY <1>3, <3>2
  <2>2. vector'.cells[m] = new
    BY <1>3, <1>7
  <2>3. vector.next \in m..(vector.next + 1 - 1) /\ \A j \in 1..(m - 1) : vector'.cells[j].at < vector.next
    BY <1>5, <1>7, <2>1, CallNumbers
  <2>4. Explained(kind, vector.next)
    BY AppendedStandsFor
  <2>5. text' = text
    OBVIOUS
  <2>6. (vector.cells[m].at \in m..(vector.next - 1))'
    BY <1>1, <1>2, <2>2, <2>3, <2>4, <2>5
  <2>7. (\A j \in 1..(m - 1) : vector.cells[j].at < vector.cells[m].at)'
    BY <1>1, <1>2, <2>2, <2>3, <2>4, <2>5
  <2>8. Explained(vector.cells[m].is, vector.cells[m].at)'
    BY <1>1, <1>2, <2>2, <2>4, <2>5, SameReason
  <2> QED BY <2>6, <2>7, <2>8 DEF StandsFor
<1>8. \A i \in 1..Len(vector'.cells) : StandsFor(i)'
  <2> SUFFICES ASSUME NEW i \in 1..Len(vector'.cells) PROVE StandsFor(i)'
    OBVIOUS
  <2>1. i \in 1..Len(vector.cells) \/ i = Len(vector.cells) + 1
    BY <1>3, CallNumbers
  <2> QED BY <1>6, <1>7, <2>1
<1>9. ASSUME NEW p \in 1..vector.next
      PROVE  PassedOver(p) \/ \E i \in 1..Len(vector'.cells) : vector'.cells[i].at = p
  <2>1. CASE p = vector.next
    <3>1. Len(vector.cells) + 1 \in 1..Len(vector'.cells)
      BY <1>3, CallNumbers
    <3> QED BY <1>1, <1>3, <2>1, <3>1
  <2>2. CASE p # vector.next
    <3>1. p \in 1..(vector.next - 1)
      BY <2>2, CallNumbers
    <3>2. CASE \E i \in 1..Len(vector.cells) : vector.cells[i].at = p
      <4>1. PICK i \in 1..Len(vector.cells) : vector.cells[i].at = p
        BY <3>2
      <4>2. i \in 1..Len(vector'.cells)
        BY <1>3, <4>1, CallNumbers
      <4>3. vector'.cells[i].at = p
        BY <1>3, <4>1
      <4> QED BY <4>2, <4>3
    <3>3. PassedOver(p) \/ \E i \in 1..Len(vector.cells) : vector.cells[i].at = p
      BY <3>1 DEF TextInv, Followed
    <3> QED BY <3>2, <3>3
  <2> QED BY <2>1, <2>2
<1>10. Len(vector'.cells) = vector.next <=> \A p \in 1..vector.next : ~PassedOver(p)
  <2>1. Len(vector'.cells) = vector.next <=> Len(vector.cells) = vector.next - 1
    BY <1>3, CallNumbers
  <2>2. (\A p \in 1..vector.next : ~PassedOver(p))
          <=> (\A p \in 1..(vector.next - 1) : ~PassedOver(p))
    <3>1. \A p \in 1..vector.next : p \in 1..(vector.next - 1) \/ p = vector.next
      BY CallNumbers
    <3>2. \A p \in 1..(vector.next - 1) : p \in 1..vector.next
      BY CallNumbers
    <3> QED BY <3>1, <3>2
  <2> QED BY <2>1, <2>2 DEF TextInv, Followed
<1>11. Followed'
  <2>1. vector'.next - 1 = vector.next /\ Len(vector'.cells) < vector'.next
    BY <1>2, <1>3, <1>5, CallNumbers
  <2>2. Counted(vector.count)' /\ \A p : PassedOver(p)' <=> PassedOver(p)
    BY <1>2, <1>5, SameCall
  <2>3. \A p \in 1..(vector'.next - 1) :
          PassedOver(p)' \/ \E i \in 1..Len(vector'.cells) : vector'.cells[i].at = p
    BY <1>9, <2>1, <2>2
  <2>4. Len(vector'.cells) = vector'.next - 1 <=> \A p \in 1..(vector'.next - 1) : ~PassedOver(p)'
    BY <1>10, <2>1, <2>2
  <2>5. (vector.fn \in Vectors /\ strings = NoStrings /\ Gets(vector.fn, text))'
    BY <1>2, <1>4 DEF Gets
  <2> QED BY <1>2, <1>8, <2>1, <2>2, <2>3, <2>4, <2>5 DEF Followed
<1> QED BY <1>4, <1>11, StillNothingSaid DEF TextInv

\* A string that is passed over gets none.
LEMMA PassesFollows ==
  ASSUME TextInv, VectorInv', Passes
  PROVE  TextInv'
<1>1. /\ vector.pc = "copy" /\ MoreToCopy /\ PassedOver(vector.next)
      /\ text' = text /\ strings' = strings
      /\ vector'.cells = vector.cells /\ vector'.next = vector.next + 1
      /\ vector'.pc = "copy" /\ vector'.fn = vector.fn /\ vector'.count = vector.count
  BY CallNumbers DEF Passes, VectorAt, VectorKind
<1>2. vector.fn \in Vectors /\ strings' = NoStrings /\ Gets(vector.fn, text)
  BY <1>1, CalledIsKnown
<1>3. Len(vector.cells) < vector.next /\ Counted(vector.count)
  BY <1>1 DEF TextInv, Followed
<1>4. Counted(vector.count)' /\ \A p : PassedOver(p)' <=> PassedOver(p)
  BY <1>1, <1>3, SameCall
<1>5. ASSUME NEW i, i \in 1..Len(vector.cells) PROVE StandsFor(i)'
  <2>1. StandsFor(i)
    BY <1>1, <1>5 DEF TextInv, Followed
  <2>2. (vector.cells[i].at \in i..(vector.next - 1))'
    <3>1. vector.cells[i].at \in i..(vector.next + 1 - 1)
      BY <1>5, <2>1, CallNumbers DEF StandsFor
    <3>2. vector'.next - 1 = vector.next + 1 - 1
      BY <1>1, CallNumbers
    <3> QED BY <1>1, <3>1, <3>2
  <2>3. Explained(vector.cells[i].is, vector.cells[i].at)'
    BY <1>1, <2>1, SameReason DEF StandsFor
  <2> QED BY <1>1, <2>1, <2>2, <2>3 DEF StandsFor
<1>6. vector'.next - 1 = vector.next /\ Len(vector.cells) < vector'.next
  BY <1>1, <1>3, CallNumbers
<1>7. ASSUME NEW p \in 1..vector.next
      PROVE  PassedOver(p) \/ \E i \in 1..Len(vector.cells) : vector.cells[i].at = p
  <2>1. p \in 1..(vector.next - 1) \/ p = vector.next
    BY CallNumbers
  <2> QED BY <1>1, <2>1 DEF TextInv, Followed
<1>8. Len(vector.cells) # vector.next /\ vector.next \in 1..vector.next
  BY <1>3, CallNumbers
<1>9. Followed'
  <2>1. \A i \in 1..Len(vector'.cells) : StandsFor(i)'
    BY <1>1, <1>5
  <2>2. \A p \in 1..(vector'.next - 1) :
          PassedOver(p)' \/ \E i \in 1..Len(vector'.cells) : vector'.cells[i].at = p
    BY <1>1, <1>4, <1>6, <1>7
  <2>3. Len(vector'.cells) = vector'.next - 1 <=> \A p \in 1..(vector'.next - 1) : ~PassedOver(p)'
    BY <1>1, <1>4, <1>6, <1>8
  <2>4. (vector.fn \in Vectors /\ strings = NoStrings /\ Gets(vector.fn, text))'
    BY <1>1, <1>2 DEF Gets
  <2>5. Len(vector'.cells) < vector'.next
    BY <1>1, <1>6
  <2> QED BY <1>1, <1>4, <2>1, <2>2, <2>3, <2>4, <2>5 DEF Followed
<1> QED BY <1>2, <1>9, StillNothingSaid DEF TextInv

\* A call that answers NULL says nothing more, unless it says that there is
\* nothing to list.
LEMMA ReturnsNull ==
  ASSUME VectorInv', NEW why, NEW frees, Return(TRUE, <<>>, why, frees),
         why = "nothing" =>
           \/ text.args = 0
           \/ vector.fn \in AndroidVectors /\ text.len = 1 /\ text.cut
           \/ vector.fn = "macos_cmdline" /\ text.empty = 1..text.len
  PROVE  TextInv'
<1>1. /\ vector'.pc = "idle" /\ text' = text /\ strings'.fn = vector.fn /\ strings'.null
      /\ strings'.list = <<>> /\ strings'.why = why
  BY DEF Return, NoVector
<1>2. Followed' /\ VectorOfText'
  BY <1>1 DEF Followed, VectorOfText
<1>3. VectorComplete'
  BY <1>1 DEF VectorComplete, AndroidVectors
<1> QED BY <1>2, <1>3 DEF TextInv

\* There is nothing to list.
LEMMA NothingThere ==
  ASSUME TextInv, vector.pc = "read", NothingToList
  PROVE  \/ text.args = 0
         \/ vector.fn \in AndroidVectors /\ text.len = 1 /\ text.cut
<1>1. vector.fn \in Vectors /\ Gets(vector.fn, text)
  BY CalledIsKnown
<1>2. text.len = 0 => text.args = 0
  BY <1>1, CallNumbers DEF Gets
<1>3. CASE text.len = 0
  BY <1>2, <1>3
<1>4. CASE vector.fn \in AndroidVectors /\ Terminated = 0
  BY <1>2, <1>4, CallNumbers DEF Terminated
<1>5. CASE vector.fn = "macos_cmdline" /\ text.args = 0
  BY <1>5
<1> QED BY <1>1, <1>3, <1>4, <1>5, FunctionsKnown DEF NothingToList, Counted, For

\* macOS has stored nothing.
LEMMA NothingStored ==
  ASSUME TextInv, vector.pc = "copy", vector.fn = "macos_cmdline", vector.cells = <<>>, ~MoreToCopy
  PROVE  text.args = 0 \/ text.empty = 1..text.len
<1>1. vector.fn \in Vectors /\ Gets(vector.fn, text) /\ Len(vector.cells) = 0
  BY CalledIsKnown, CallNumbers
<1>2. vector.count = text.args
  BY <1>1, CountIs
<1>3. CASE 0 >= vector.count
  BY <1>2, <1>3, CallNumbers
<1>4. CASE vector.next > text.len /\ text.len > 0
  <2>1. text.len \in 1..(vector.next - 1)
    BY <1>4, CallNumbers
  <2>2. PassedOver(text.len)
    BY <1>1, <2>1 DEF TextInv, Followed
  <2>3. 1..text.len \subseteq text.empty
    BY <1>1, <2>2, FunctionsKnown DEF PassedOver, For
  <2> QED BY <1>1, <2>3 DEF Gets
<1>5. CASE text.len = 0
  BY <1>1, <1>5, CallNumbers DEF Gets
<1>6. vector.next > text.len \/ 0 >= vector.count
  <2>1. PICK more \in Nat :
          more = IF vector.fn \in LinuxVectors \cup {"windows_environ"} THEN text.beyond ELSE 0
    BY CallNumbers
  <2>2. vector.next > text.len + more \/ Len(vector.cells) >= vector.count
    BY <2>1, NoMore
  <2> QED BY <1>1, <2>1, <2>2, CallNumbers
<1> QED BY <1>3, <1>4, <1>5, <1>6, CallNumbers

\* The array is made for what is counted.
LEMMA AllocatesFollows ==
  ASSUME TextInv, VectorInv', Allocates
  PROVE  TextInv'
<1>1. PICK n \in 0..(MaxStrings + Beyond) :
        Counted(n) /\ vector' = [vector EXCEPT !.pc = "copy", !.count = n, !.room = n + 1]
  BY Zenon DEF Allocates, AllocatesFor
<1>2. /\ vector.pc = "read" /\ text' = text /\ strings' = strings
      /\ vector.cells = <<>> /\ vector.next = 1 /\ Len(vector.cells) = 0
  <2>1. vector.pc = "read" /\ text' = text /\ strings' = strings
    BY DEF Allocates, AllocatesFor, VectorAt
  <2>2. vector.cells = <<>> /\ vector.next = 1
    BY <2>1 DEF TextInv, VectorInv, CopyBounded
  <2> QED BY <2>1, <2>2
<1>3. /\ vector'.cells = <<>> /\ vector'.next = 1 /\ vector'.fn = vector.fn /\ vector'.pc = "copy"
      /\ vector'.count = n
  BY <1>1, <1>2, CallNumbers DEF VectorKind
<1>4. vector.fn \in Vectors /\ strings' = NoStrings /\ Gets(vector.fn, text)
  BY <1>2, CalledIsKnown
<1>5. Counted(vector.count)'
  BY <1>1, <1>2, <1>3
     DEF Counted, For, BeforeEmpty, Terminated, BlockCount, LinuxVectors, BsdVectors, AndroidVectors
<1>6. (vector.fn \in Vectors /\ strings = NoStrings /\ Gets(vector.fn, text))'
  BY <1>2, <1>3, <1>4 DEF Gets
<1>7. Len(vector'.cells) = 0 /\ vector'.next - 1 = 0 /\ 1..0 = {}
  BY <1>2, <1>3
<1>8. Followed'
  BY <1>3, <1>5, <1>6, <1>7 DEF Followed
<1> QED BY <1>4, <1>8, StillNothingSaid DEF TextInv

\* Every step keeps the invariant.
LEMMA TextInvStep == TextInv /\ [StringsNext]_stringVars => TextInv'
<1> SUFFICES ASSUME TextInv, [StringsNext]_stringVars PROVE TextInv'
  OBVIOUS
<1>0. VectorInv'
  BY VectorInvStep DEF TextInv
<1>1. ASSUME NEW f \in Vectors, Called(f) PROVE TextInv'
  <2>1. vector'.fn = f /\ vector'.pc = "called" /\ strings' = NoStrings /\ text' = NoText
    BY <1>1 DEF Called, NoVector
  <2>2. Gets(f, NoText)
    BY DEF Gets, NoText
  <2>3. Followed'
    <3>1. Gets(vector.fn, text)'
      BY <2>1, <2>2 DEF Gets, NoText
    <3> QED BY <2>1, <3>1 DEF Followed
  <2> QED BY <1>0, <2>1, <2>3, StillNothingSaid DEF TextInv
<1>2. CASE Refused
  BY <1>0, <1>2, ReturnsNull DEF Refused
<1>3. CASE Reads
  <2>1. PICK t \in Text : Gets(vector.fn, t) /\ text' = t
    BY <1>3 DEF Reads
  <2>2. vector.pc = "called" /\ vector'.pc = "read" /\ vector'.fn = vector.fn /\ strings' = strings
    BY <1>3, CallNumbers DEF Reads, VectorAt, VectorKind
  <2>3. vector.fn \in Vectors /\ strings = NoStrings
    BY <2>2, CalledIsKnown
  <2>4. Gets(vector.fn, text)'
    BY <2>1, <2>2 DEF Gets
  <2>5. Followed'
    BY <2>2, <2>3, <2>4 DEF Followed
  <2> QED BY <1>0, <2>2, <2>3, <2>5, StillNothingSaid DEF TextInv
<1>4. CASE ListsNothing
  <2>1. vector.pc = "read" /\ NothingToList /\ Return(TRUE, <<>>, "nothing", {})
    BY <1>4 DEF ListsNothing, VectorAt
  <2> QED BY <1>0, <2>1, NothingThere, ReturnsNull
<1>5. CASE Allocates
  BY <1>0, <1>5, AllocatesFollows
<1>6. CASE Passes
  BY <1>0, <1>6, PassesFollows
<1>7. CASE CopiesOne
  BY <1>0, <1>7, AppendedFollows DEF CopiesOne, VectorAt
<1>8. CASE CopyFails
  <2>1. CASE Return(TRUE, <<>>, "refused", vector.held)
    BY <1>0, <2>1, ReturnsNull
  <2>2. CASE /\ ~For(LinuxVectors \cup {"macos_cmdline"})
             /\ Appended("null", {}) /\ UNCHANGED <<text, strings>>
    <3>1. vector.pc = "copy" /\ MoreToCopy /\ ~PassedOver(vector.next)
      BY <1>8 DEF CopyFails, VectorAt
    <3>2. vector.fn \notin LinuxVectors \cup {"macos_cmdline"}
      BY <2>2 DEF For
    <3> QED BY <1>0, <2>2, <3>1, <3>2, AppendedFollows
  <2> QED BY <1>8, <2>1, <2>2 DEF CopyFails
<1>9. CASE AnswersStrings
  <2>1. vector.pc = "copy" /\ ~MoreToCopy /\ vector.fn \in Vectors
    BY <1>9, CalledIsKnown DEF AnswersStrings, VectorAt
  <2>2. CASE Return(FALSE, Seen, "none", {})
    <3>1. vector'.pc = "idle"
      BY <2>2 DEF Return, NoVector
    <3>2. VectorOfText' /\ VectorComplete'
      BY <2>1, <2>2, AnswerOfText, AnswerComplete
    <3> QED BY <1>0, <3>1, <3>2 DEF TextInv, Followed
  <2>3. CASE vector.fn = "macos_cmdline" /\ vector.cells = <<>> /\ Return(TRUE, <<>>, "nothing", {})
    <3>1. text.args = 0 \/ text.empty = 1..text.len
      BY <2>1, <2>3, NothingStored
    <3> QED BY <1>0, <2>3, <3>1, ReturnsNull
  <2> QED BY <1>9, <2>2, <2>3 DEF AnswersStrings, For
<1>10. CASE Free
  <2>1. /\ vector.pc = "idle" /\ vector' = vector
        /\ strings'.null /\ strings'.list = <<>> /\ strings'.why = "freed"
    BY <1>10 DEF Free, NoStrings, VectorAt
  <2>2. VectorOfText' /\ VectorComplete'
    BY <2>1, NothingSaidNext
  <2> QED BY <1>0, <2>1, <2>2 DEF TextInv, Followed
<1>11. CASE UNCHANGED stringVars
  <2>1. text' = text /\ vector' = vector /\ strings' = strings
    BY <1>11 DEF stringVars
  <2>2. Followed'
    <3>1. vector.pc = "copy" => Counted(vector.count)' /\ \A p : PassedOver(p)' <=> PassedOver(p)
      BY <2>1, SameCall DEF TextInv, Followed
    <3>2. \A i : StandsFor(i)' <=> StandsFor(i)
      BY <2>1 DEF StandsFor, Explained, LinuxVectors, BsdVectors
    <3>3. Gets(vector.fn, text)' <=> Gets(vector.fn, text)
      BY <2>1 DEF Gets
    <3> QED BY <2>1, <3>1, <3>2, <3>3 DEF TextInv, Followed
  <2>3. VectorOfText' /\ VectorComplete'
    BY <2>1
       DEF TextInv, VectorOfText, VectorComplete, Listed, Buffered, LinuxVectors, BsdVectors,
           AndroidVectors
  <2> QED BY <1>0, <2>2, <2>3 DEF TextInv
<1> QED
  BY <1>1, <1>2, <1>3, <1>4, <1>5, <1>6, <1>7, <1>8, <1>9, <1>10, <1>11 DEF StringsNext

LEMMA TextInvHolds == Spec => []TextInv
<1>1. Init => TextInv
  <2> SUFFICES ASSUME StringsInit PROVE TextInv
    BY DEF Init
  <2>1. VectorOfText /\ VectorComplete
    BY NothingSaid DEF StringsInit, NoStrings
  <2>2. Followed
    BY DEF StringsInit, NoVector, Followed
  <2> QED BY <2>1, <2>2, VectorInvInit DEF TextInv
<1>2. TextInv /\ [Next]_vars => TextInv'
  BY PartSteps, TextInvStep
<1> QED BY <1>1, <1>2, PTL DEF Spec

\* Every element of an answer is a string of the text, in its order, or the start of
\* one, or one with foreign memory behind it, or no string at all, each only for the
\* reasons that VectorOfText names, for texts of any length.
THEOREM AnswersAreOfText == Spec => []VectorOfText
<1>1. TextInv => VectorOfText
  BY DEF TextInv
<1> QED BY <1>1, TextInvHolds, PTL

\* No argument and no variable that the process has is missing from an answer but
\* for the reasons that VectorComplete names, that it did not fit into the buffer
\* among them.
THEOREM AnswersAreComplete == Spec => []VectorComplete
<1>1. TextInv => VectorComplete
  BY DEF TextInv
<1> QED BY <1>1, TextInvHolds, PTL

-----------------------------------------------------------------------------
(***************************************************************************)
(* The terminal.                                                           *)
(***************************************************************************)
CallKind ==
  [pc : {"idle", "asked", "null", "writing", "holds"}, of : Device \cup {NoTty},
   paren : BOOLEAN, failed : BOOLEAN, disturbed : BOOLEAN]

TtyTyped ==
  /\ ttyOn \in {"linux", "android", "macos"}
  /\ ttyOf \in [Process -> [dev : Device \cup {NoTty}, paren : BOOLEAN]]
  /\ ttyCall \in [Holder -> CallKind]

Undisturbed(h) == ttyCall[h].pc \in {"writing", "holds"} /\ ~ttyCall[h].disturbed

\* While somebody writes or holds the array undisturbed, nobody else writes it.
WritesAlone ==
  \A h, g \in Holder : h # g /\ Undisturbed(h) => ttyCall[g].pc # "writing"

\* Who holds the array undisturbed finds in it what it has written.
HoldsOwnName ==
  \A h \in Holder : ttyCall[h].pc = "holds" /\ ~ttyCall[h].disturbed =>
    ttyName = NameOf(ttyCall[h].of)

\* A terminal is written only if there is one, and NULL is answered only for a
\* reason.
HasReason ==
  \A h \in Holder :
    /\ ttyCall[h].pc \in {"writing", "holds"} => ttyCall[h].of # NoTty
    /\ ttyCall[h].pc = "null" =>
         ttyCall[h].of = NoTty \/ ttyCall[h].failed \/ (ttyOn = "android" /\ ttyCall[h].paren)

TtyInv == TtyTyped /\ WritesAlone /\ HoldsOwnName /\ HasReason

LEMMA TtyInvInit == TtyInit => TtyInv
<1> SUFFICES ASSUME TtyInit PROVE TtyInv
  OBVIOUS
<1>1. ttyCall = [h \in Holder |-> NoTtyCall] /\ NoTtyCall \in CallKind
  BY DEF TtyInit, NoTtyCall, CallKind
<1>2. \A h \in Holder : ttyCall[h].pc = "idle"
  BY <1>1 DEF NoTtyCall
<1>3. TtyTyped
  BY <1>1 DEF TtyInit, TtyTyped
<1> QED BY <1>2, <1>3 DEF TtyInv, WritesAlone, HoldsOwnName, HasReason, Undisturbed

\* Beginning a call, or ending one with NULL.
LEMMA AsksKeeps ==
  ASSUME TtyInv, NEW h \in Holder, NEW p \in Process, AsksTty(h, p)
  PROVE  TtyInv'
<1> DEFINE c == [NoTtyCall EXCEPT !.pc = "asked", !.of = ttyOf[p].dev, !.paren = ttyOf[p].paren]
<1>1. /\ c.pc = "asked" /\ c \in CallKind
      /\ ttyCall' = [ttyCall EXCEPT ![h] = c]
      /\ UNCHANGED <<ttyOn, ttyOf, ttyName>>
  BY DEF AsksTty, TtyInv, TtyTyped, NoTtyCall, CallKind
<1> HIDE DEF c
<1>2. TtyTyped'
  BY <1>1 DEF TtyInv, TtyTyped
<1>3. \A g \in Holder : ttyCall'[g] = IF g = h THEN c ELSE ttyCall[g]
  BY <1>1 DEF TtyInv, TtyTyped
<1>4. WritesAlone' /\ HasReason'
  BY <1>1, <1>3 DEF TtyInv, WritesAlone, HasReason, Undisturbed
<1>5. HoldsOwnName'
  BY <1>1, <1>3 DEF TtyInv, HoldsOwnName, NameOf
<1> QED BY <1>2, <1>4, <1>5 DEF TtyInv

LEMMA NullKeeps ==
  ASSUME TtyInv, NEW h \in Holder, NEW ok \in BOOLEAN, NoTerminal(h, ok)
  PROVE  TtyInv'
<1> DEFINE c == [ttyCall[h] EXCEPT !.pc = "null", !.failed = ~ok]
<1>1. /\ ttyCall' = [ttyCall EXCEPT ![h] = c]
      /\ UNCHANGED <<ttyOn, ttyOf, ttyName>>
  BY DEF NoTerminal, TtyInv, TtyTyped
<1>2. /\ c.pc = "null" /\ c \in CallKind
      /\ c.of = NoTty \/ c.failed \/ (ttyOn = "android" /\ c.paren)
  BY DEF NoTerminal, TtyInv, TtyTyped, CallKind, Understood
<1> HIDE DEF c
<1>3. TtyTyped'
  BY <1>1, <1>2 DEF TtyInv, TtyTyped
<1>4. \A g \in Holder : ttyCall'[g] = IF g = h THEN c ELSE ttyCall[g]
  BY <1>1 DEF TtyInv, TtyTyped
<1>5. WritesAlone' /\ HasReason'
  BY <1>1, <1>2, <1>4 DEF TtyInv, WritesAlone, HasReason, Undisturbed
<1>6. HoldsOwnName'
  BY <1>1, <1>2, <1>4 DEF TtyInv, HoldsOwnName, NameOf
<1> QED BY <1>3, <1>5, <1>6 DEF TtyInv

\* Writing begins: whoever held the array, or writes it, is disturbed.
LEMMA StartsKeeps ==
  ASSUME TtyInv, NEW h \in Holder, StartsName(h)
  PROVE  TtyInv'
<1> DEFINE c == [ttyCall[h] EXCEPT !.pc = "writing", !.disturbed = Writing # {}]
           d(g) == [ttyCall[g] EXCEPT !.disturbed = @ \/ TtyAt(g, "writing") \/ TtyAt(g, "holds")]
<1>1. \A g \in Holder : ttyCall[g] \in CallKind
  BY DEF TtyInv, TtyTyped
<1>2. \A g \in Holder : ttyCall'[g] = IF g = h THEN c ELSE d(g)
  BY DEF StartsName
<1>3. c \in CallKind /\ c.pc = "writing" /\ c.disturbed = (Writing # {}) /\ c.of = ttyCall[h].of
  BY <1>1 DEF CallKind
<1>4. \A g \in Holder :
        /\ d(g) \in CallKind /\ d(g).pc = ttyCall[g].pc /\ d(g).of = ttyCall[g].of
        /\ d(g).failed = ttyCall[g].failed /\ d(g).paren = ttyCall[g].paren
        /\ d(g).pc \in {"writing", "holds"} => d(g).disturbed
  BY <1>1 DEF CallKind, TtyAt
<1>5. ttyCall[h].of # NoTty /\ UNCHANGED <<ttyOn, ttyOf>>
  BY DEF StartsName, Understood
<1>6. DOMAIN ttyCall' = Holder /\ ttyCall' = [g \in Holder |-> ttyCall'[g]]
  BY DEF StartsName
<1> HIDE DEF c, d
<1>7. TtyTyped'
  BY <1>2, <1>3, <1>4, <1>5, <1>6 DEF TtyInv, TtyTyped
<1>8. WritesAlone'
  <2> SUFFICES ASSUME NEW g \in Holder, NEW e \in Holder, g # e, Undisturbed(g)'
               PROVE  ttyCall'[e].pc # "writing"
    BY DEF WritesAlone
  <2>1. g = h /\ Writing = {}
    BY <1>2, <1>3, <1>4 DEF Undisturbed
  <2> QED BY <2>1, <1>2, <1>4 DEF Writing, TtyAt
<1>9. HoldsOwnName'
  BY <1>2, <1>3, <1>4 DEF HoldsOwnName
<1>10. HasReason'
  BY <1>2, <1>3, <1>4, <1>5 DEF TtyInv, HasReason
<1> QED BY <1>7, <1>8, <1>9, <1>10 DEF TtyInv

\* Writing ends: nobody else held the array undisturbed.
LEMMA EndsKeeps ==
  ASSUME TtyInv, NEW h \in Holder, EndsName(h)
  PROVE  TtyInv'
<1> DEFINE c == [ttyCall[h] EXCEPT !.pc = "holds"]
<1>1. /\ ttyCall' = [ttyCall EXCEPT ![h] = c] /\ ttyCall[h].pc = "writing"
      /\ ~ttyCall[h].disturbed => ttyName' = NameOf(ttyCall[h].of)
      /\ UNCHANGED <<ttyOn, ttyOf>>
  BY DEF EndsName, TtyAt
<1>2. /\ c \in CallKind /\ c.pc = "holds" /\ c.disturbed = ttyCall[h].disturbed
      /\ c.of = ttyCall[h].of
  BY DEF TtyInv, TtyTyped, CallKind
<1> HIDE DEF c
<1>3. TtyTyped'
  BY <1>1, <1>2 DEF TtyInv, TtyTyped
<1>4. \A g \in Holder : ttyCall'[g] = IF g = h THEN c ELSE ttyCall[g]
  BY <1>1 DEF TtyInv, TtyTyped
<1>5. WritesAlone' /\ HasReason'
  BY <1>1, <1>2, <1>4 DEF TtyInv, WritesAlone, HasReason, Undisturbed
<1>6. HoldsOwnName'
  <2> SUFFICES ASSUME NEW g \in Holder, ttyCall'[g].pc = "holds", ~ttyCall'[g].disturbed
               PROVE  (ttyName = NameOf(ttyCall[g].of))'
    BY DEF HoldsOwnName
  <2>1. g = h
    BY <1>1, <1>4 DEF TtyInv, WritesAlone, Undisturbed
  <2> QED BY <2>1, <1>1, <1>2, <1>4 DEF NameOf
<1> QED BY <1>3, <1>5, <1>6 DEF TtyInv

LEMMA TtyInvStep == TtyInv /\ [TtyNext]_ttyVars => TtyInv'
<1> SUFFICES ASSUME TtyInv, [TtyNext]_ttyVars PROVE TtyInv'
  OBVIOUS
<1>1. CASE TtyNext
  BY <1>1, AsksKeeps, NullKeeps, StartsKeeps, EndsKeeps DEF TtyNext
<1>2. CASE UNCHANGED ttyVars
  BY <1>2 DEF ttyVars, TtyInv, TtyTyped, WritesAlone, HoldsOwnName, HasReason, Undisturbed, NameOf
<1> QED BY <1>1, <1>2

\* What NameOf makes of a device tells its number, and on Linux is no other's
\* name.
LEMMA NamesTell ==
  ASSUME NEW dev \in Device, TtyTyped
  PROVE  /\ NameOf(dev).number = dev.number
         /\ ttyOn = "linux" => NameOf(dev) = dev \/ dev.kind \notin {"tty", "pts"}
         /\ ttyOn = "linux" => \A d \in Device : d # dev => NameOf(dev) # d
  BY TerminalAssumption DEF NameOf, Named, TtyTyped

LEMMA TtyInvSuffices == TtyInv => TerminalHonest
<1> SUFFICES ASSUME TtyInv, NEW h \in Holder
             PROVE  LET c == ttyCall[h]
                    IN  /\ c.pc = "holds" /\ ~c.disturbed =>
                             /\ ttyName.number = c.of.number
                             /\ ttyOn = "linux" => ttyName = c.of \/ c.of.kind \notin {"tty", "pts"}
                             /\ ttyOn = "linux" => \A d \in Device : d # c.of => ttyName # d
                        /\ c.pc = "null" => c.of = NoTty \/ c.failed \/ (ttyOn = "android" /\ c.paren)
  BY DEF TerminalHonest
<1>1. ttyCall[h].of \in Device \cup {NoTty}
  BY DEF TtyInv, TtyTyped, CallKind
<1>2. CASE ttyCall[h].pc = "holds" /\ ~ttyCall[h].disturbed
  <2>1. ttyCall[h].of \in Device /\ ttyName = NameOf(ttyCall[h].of)
    BY <1>1, <1>2 DEF TtyInv, HasReason, HoldsOwnName
  <2> QED BY <1>2, <2>1, NamesTell DEF TtyInv
<1>3. CASE ~(ttyCall[h].pc = "holds" /\ ~ttyCall[h].disturbed)
  BY <1>3 DEF TtyInv, HasReason
<1> QED BY <1>2, <1>3

\* However many threads call process_get_terminal, whoever holds the static array
\* finds in it the terminal it has asked for, as long as no other call has begun.
THEOREM TerminalsHonest == Spec => []TerminalHonest
<1>1. Init => TtyInv
  BY TtyInvInit DEF Init
<1>2. TtyInv /\ [Next]_vars => TtyInv'
  BY PartSteps, TtyInvStep
<1> QED BY <1>1, <1>2, TtyInvSuffices, PTL DEF Spec

-----------------------------------------------------------------------------
(***************************************************************************)
(* Nice values.                                                            *)
(***************************************************************************)
Possible == IF niceOn = "windows" THEN {Priority(c, 0) : c \in Class}
            ELSE {Priority("unix", n) : n \in -20..Lowest}

\* What get_nice gives for a priority.
NumberFor(p) == IF niceOn = "windows" THEN NiceOf[p.class] ELSE p.nice

\* The priority is one that the last wish leads to; what was read is the number
\* of a priority, and if it was set again, the priority is one it leads to.
NiceInv ==
  /\ niceOn \in {"linux", "macos", "bsd", "android", "windows"}
  /\ priority \in Possible
  /\ niceWish.is => niceWish.value \in Int /\ priority \in Becomes(niceWish.value)
  /\ niceRead.is => /\ niceRead.was \in Possible /\ niceRead.value \in Int
                    /\ niceRead.failed \/ niceRead.value = NumberFor(niceRead.was)
  /\ niceBack => niceRead.is /\ priority \in Becomes(niceRead.value)

\* The tables of get_nice and set_nice.
LEMMA NiceOfClass ==
  /\ NiceOf["idle"] = 19 /\ NiceOf["below"] = 10 /\ NiceOf["normal"] = 0
  /\ NiceOf["above"] = -10 /\ NiceOf["high"] = -15 /\ NiceOf["realtime"] = -20
  BY DEF NiceOf, Class

LEMMA ClassForNice ==
  ASSUME NEW v \in Int
  PROVE  /\ v <= -20 => ClassFor(v) = "realtime"
         /\ -20 < v /\ v <= -15 => ClassFor(v) = "high"
         /\ -15 < v /\ v <= -10 => ClassFor(v) = "above"
         /\ -10 < v /\ v <= 0   => ClassFor(v) = "normal"
         /\ 0 < v /\ v <= 10    => ClassFor(v) = "below"
         /\ 10 < v              => ClassFor(v) = "idle"
         /\ ClassFor(v) \in Class
<1>1. CASE v <= -20
  BY <1>1 DEF ClassFor, Class
<1>2. CASE -20 < v /\ v <= -15
  BY <1>2 DEF ClassFor, Class
<1>3. CASE -15 < v /\ v <= -10
  BY <1>3 DEF ClassFor, Class
<1>4. CASE -10 < v /\ v <= 0
  BY <1>4 DEF ClassFor, Class
<1>5. CASE 0 < v /\ v <= 10
  BY <1>5 DEF ClassFor, Class
<1>6. CASE 10 < v
  BY <1>6 DEF ClassFor, Class
<1> QED BY <1>1, <1>2, <1>3, <1>4, <1>5, <1>6

\* Whatever is asked for, the system has a priority of its own afterwards.
LEMMA BecomesPossible ==
  ASSUME NEW v \in Int
  PROVE  Becomes(v) \subseteq Possible
<1>1. CASE niceOn = "windows"
  <2>1. ClassFor(v) \in Class /\ "high" \in Class
    BY ClassForNice DEF Class
  <2> QED BY <1>1, <2>1 DEF Becomes, Possible
<1>2. CASE niceOn # "windows"
  <2>1. Clamped(v) \in -20..Lowest
    BY DEF Clamped, Lowest
  <2> QED BY <1>2, <2>1 DEF Becomes, Possible
<1> QED BY <1>1, <1>2

\* The number of a priority is the number that leads to it.
LEMMA NumberForPossible ==
  ASSUME NEW p \in Possible
  PROVE  /\ NumberFor(p) \in Int
         /\ \A q \in Becomes(NumberFor(p)) : q = p \/ p.class = "realtime"
<1>1. CASE niceOn = "windows"
  <2>1. PICK c \in Class : p = Priority(c, 0)
    BY <1>1 DEF Possible
  <2>2. p.class = c /\ NumberFor(p) = NiceOf[c]
    BY <1>1, <2>1 DEF Priority, NumberFor
  <2>3. NiceOf[c] \in Int /\ (c # "realtime" => ClassFor(NiceOf[c]) = c)
    BY NiceOfClass DEF Class, ClassFor
  <2> QED BY <1>1, <2>1, <2>2, <2>3 DEF Becomes
<1>2. CASE niceOn # "windows"
  <2>1. PICK n \in -20..Lowest : p = Priority("unix", n)
    BY <1>2 DEF Possible
  <2>2. NumberFor(p) = n /\ Clamped(n) = n
    BY <1>2, <2>1 DEF Priority, NumberFor, Clamped, Lowest
  <2> QED BY <1>2, <2>1, <2>2 DEF Becomes
<1> QED BY <1>1, <1>2

LEMMA NiceInvInit == NiceInit => NiceInv
  BY BecomesPossible DEF NiceInit, NiceInv, NoWish, NoRead

\* A priority that has been set is one that the number leads to.
LEMMA SetNiceKeeps ==
  ASSUME NiceInv, NEW v \in Int, SetNice(v)
  PROVE  NiceInv'
<1>1. niceOn' = niceOn /\ niceRead' = niceRead /\ priority' \in Becomes(v)
      /\ niceWish' = [is |-> TRUE, value |-> v] /\ niceBack' = (niceRead.is /\ v = niceRead.value)
  BY DEF SetNice
<1>2. priority' \in Possible
  BY <1>1, BecomesPossible
<1> QED BY <1>1, <1>2 DEF NiceInv, Possible, Becomes, Clamped, Lowest, NumberFor

LEMMA GetNiceKeeps ==
  ASSUME NiceInv, NEW ok \in BOOLEAN, GetNice(ok)
  PROVE  NiceInv'
<1>1. /\ niceRead' = [is |-> TRUE, value |-> Reading(ok), failed |-> ~ok, was |-> priority]
      /\ niceBack' = FALSE /\ UNCHANGED <<niceOn, priority, niceWish>>
  BY DEF GetNice
<1>2. ok => Reading(ok) = NumberFor(priority)
  BY DEF Reading, NumberFor
<1>3. ~ok => Reading(ok) \in {-1, 0}
  BY DEF Reading
<1>4. Reading(ok) \in Int
  BY <1>2, <1>3, NumberForPossible DEF NiceInv
<1> QED BY <1>1, <1>2, <1>4 DEF NiceInv, Possible, Becomes, Clamped, Lowest, NumberFor

LEMMA NiceInvStep == NiceInv /\ [NiceNext]_niceVars => NiceInv'
<1> SUFFICES ASSUME NiceInv, [NiceNext]_niceVars PROVE NiceInv'
  OBVIOUS
<1>1. CASE SetNiceByOthers
  <2>1. PICK v \in Int : priority' \in Becomes(v)
    BY <1>1, NicenessAssumption DEF SetNiceByOthers
  <2>2. priority' \in Possible
    BY <2>1, BecomesPossible
  <2> QED BY <1>1, <2>2 DEF SetNiceByOthers, NiceInv, Possible, Becomes, Clamped, Lowest, NumberFor, NoWish
<1>2. CASE niceRead.is /\ SetNice(niceRead.value)
  BY <1>2, SetNiceKeeps DEF NiceInv
<1>3. CASE UNCHANGED niceVars
  BY <1>3 DEF niceVars, NiceInv, Possible, Becomes, Clamped, Lowest, NumberFor
<1> QED BY <1>1, <1>2, <1>3, SetNiceKeeps, GetNiceKeeps, NicenessAssumption DEF NiceNext

\* What reads after a number was set, if nobody else has set one.
LEMMA WishReads ==
  ASSUME NiceInv, niceWish.is
  PROVE  \/ Reading(TRUE) = -15 /\ niceOn = "windows" /\ niceWish.value <= -20
         \/ /\ Reading(TRUE) \in Given
            /\ Reading(TRUE) >= niceWish.value \/ \A g \in Given : g <= Reading(TRUE)
            /\ \A g \in Given : g >= niceWish.value => Reading(TRUE) <= g
<1> DEFINE r == Reading(TRUE)
           Kept(v) == \/ r = -15 /\ niceOn = "windows" /\ v <= -20
                      \/ /\ r \in Given
                         /\ r >= v \/ \A g \in Given : g <= r
                         /\ \A g \in Given : g >= v => r <= g
<1>1. PICK v \in Int : v = niceWish.value /\ priority \in Becomes(v)
  BY DEF NiceInv
<1> SUFFICES Kept(v)
  BY <1>1
<1> HIDE DEF r
<1>2. CASE niceOn = "windows"
  <2>1. PICK c \in {ClassFor(v)} \cup (IF ClassFor(v) = "realtime" THEN {"high"} ELSE {}) :
          priority = Priority(c, 0)
    BY <1>1, <1>2 DEF Becomes
  <2>2. r = NiceOf[c]
    BY <1>2, <2>1 DEF r, Reading, Priority
  <2>3. Given = {19, 10, 0, -10, -15, -20}
    BY <1>2, NiceOfClass DEF Given, Class
  <2>4. CASE c = ClassFor(v)
    BY <2>2, <2>3, <2>4, ClassForNice, NiceOfClass
  <2>5. CASE c = "high" /\ ClassFor(v) = "realtime"
    BY <1>2, <2>2, <2>5, ClassForNice, NiceOfClass
  <2> QED BY <2>1, <2>4, <2>5
<1>3. CASE niceOn # "windows"
  <2>1. r = Clamped(v)
    BY <1>1, <1>3 DEF Becomes, r, Reading, Priority
  <2>2. Given = -20..Lowest
    BY <1>3 DEF Given
  <2> QED BY <2>1, <2>2 DEF Clamped, Lowest
<1> QED BY <1>2, <1>3

\* Whatever numbers are set and read, by whomever: set_nice and get_nice agree on
\* every platform, and setting what was read gives the priority back.
THEOREM NicenessKept == Spec => []NiceKept
<1>1. Init => NiceInv
  BY NiceInvInit DEF Init
<1>2. NiceInv /\ [Next]_vars => NiceInv'
  BY PartSteps, NiceInvStep
<1>3. NiceInv => NiceKept
  <2> SUFFICES ASSUME NiceInv PROVE NiceKept
    OBVIOUS
  <2>1. niceBack => priority = niceRead.was \/ niceRead.failed \/ niceRead.was.class = "realtime"
    BY NumberForPossible DEF NiceInv
  <2> QED BY <2>1, WishReads DEF NiceKept
<1> QED BY <1>1, <1>2, <1>3, PTL DEF Spec

-----------------------------------------------------------------------------
(***************************************************************************)
(* psutil_init.                                                            *)
(***************************************************************************)

\* What psutil_init has passed, up to its n-th step, is set, unless it is optional.
Loaded(n) == \A i \in DOMAIN Globals : i < n => Globals[i] \in set \/ IsOptional(Globals[i])

\* The first psutil_init takes nothing away, so what a call has found stays; when
\* it has answered 0, everything is set that a call uses without a look.
StartInv ==
  /\ startOn \in DOMAIN CallsOf
  /\ starting \in [next : 0..Len(Globals), result : {"none", "ok", "failed"}, times : Nat]
  /\ user.pc # "idle" => user.fn \in CallsOf[startOn]
  /\ starting.times = 0 => set = {} /\ ~Starting /\ starting.result = "none"
  /\ starting.times = 1 /\ Starting =>
       /\ starting.result = "none" /\ Loaded(starting.next)
       /\ \A g \in set : \E i \in 1..(starting.next - 1) : g = Globals[i]
  /\ starting.times = 1 /\ starting.result = "ok" => Loaded(Len(Globals) + 1)
  /\ starting.times <= 1 /\ user.pc = "uses" =>
       user.fn \in Unchecked \/ Uses(user.fn) \subseteq set
  /\ NothingUnset

\* The globals, one by one.
LEMMA WindowsGlobals ==
  ASSUME startOn = "windows"
  PROVE  /\ DOMAIN Globals = 1..11 /\ Len(Globals) = 11
         /\ Globals[1] = "NtQuerySystemInformation" /\ Globals[2] = "NtQueryInformationProcess"
         /\ Globals[3] = "NtSetInformationProcess" /\ Globals[4] = "NtQueryObject"
         /\ Globals[5] = "RtlGetVersion" /\ Globals[6] = "NtSuspendProcess"
         /\ Globals[7] = "GetTickCount64" /\ Globals[8] = "WTSEnumerateSessionsW"
         /\ Globals[9] = "WTSQuerySessionInformationW" /\ Globals[10] = "WTSFreeMemory"
         /\ Globals[11] = "SYSTEM_INFO"
  BY DEF Globals, Mandatory, Optional

LEMMA OtherGlobals ==
  ASSUME startOn # "windows"
  PROVE  DOMAIN Globals = 1..1 /\ Len(Globals) = 1 /\ Globals[1] = "SC_CLK_TCK"
  BY DEF Globals

LEMMA NotOptional ==
  ~IsOptional("NtQueryInformationProcess") /\ ~IsOptional("SYSTEM_INFO") /\ ~IsOptional("SC_CLK_TCK")
  BY DEF IsOptional, Optional

LEMMA EachOnce == \A i, j \in DOMAIN Globals : Globals[i] = Globals[j] => i = j
<1>1. CASE startOn = "windows"
  BY <1>1, WindowsGlobals
<1>2. CASE startOn # "windows"
  BY <1>2, OtherGlobals
<1> QED BY <1>1, <1>2

LEMMA LastNotMandatory == ~IsMandatory(Globals[Len(Globals)])
<1>1. ~IsMandatory("SYSTEM_INFO") /\ ~IsMandatory("SC_CLK_TCK")
  BY DEF IsMandatory, Mandatory
<1> QED BY <1>1, WindowsGlobals, OtherGlobals

\* What a call uses without a look is not optional.
LEMMA UncheckedLoaded ==
  ASSUME startOn \in DOMAIN CallsOf, Loaded(Len(Globals) + 1),
         NEW f \in CallsOf[startOn], f \in Unchecked
  PROVE  Uses(f) \subseteq set
<1>1. CASE startOn = "windows"
  <2>1. f \in {"cmdline", "environ", "cpu_count"}
    BY <1>1, StartupAssumption DEF WindowsCalls, Unchecked
  <2>2. Globals[2] \in set /\ Globals[11] \in set
    <3>1. Len(Globals) = 11 /\ DOMAIN Globals = 1..11
      BY <1>1, WindowsGlobals
    <3>2. \A i \in 1..11 : Globals[i] \in set \/ IsOptional(Globals[i])
      BY <3>1 DEF Loaded
    <3>3. ~IsOptional(Globals[2]) /\ ~IsOptional(Globals[11])
      BY <1>1, WindowsGlobals, NotOptional
    <3> QED BY <3>2, <3>3
  <2>3. "NtQueryInformationProcess" \in set /\ "SYSTEM_INFO" \in set
    BY <1>1, <2>2, WindowsGlobals
  <2>4. Uses(f) \in {{"NtQueryInformationProcess"}, {"SYSTEM_INFO"}}
    BY <2>1 DEF Uses
  <2> QED BY <2>3, <2>4
<1>2. CASE startOn # "windows"
  <2>1. f \in {"cpu_times", "create_time"}
    BY <1>2, StartupAssumption DEF AndroidCalls
  <2>2. Globals[1] \in set
    BY <1>2, OtherGlobals, NotOptional DEF Loaded
  <2> QED BY <1>2, <2>1, <2>2, OtherGlobals DEF Uses
<1> QED BY <1>1, <1>2

LEMMA StartInvInit == StartInit => StartInv
<1> SUFFICES ASSUME StartInit PROVE StartInv
  OBVIOUS
<1>1. Len(Globals) \in Nat
  BY WindowsGlobals, OtherGlobals
<1> QED BY <1>1 DEF StartInit, StartInv, Starting, NothingUnset, NoMisuse

\* The first call of psutil_init begins with nothing set.
LEMMA CallsInitKeeps ==
  ASSUME StartInv, CallsInit
  PROVE  StartInv'
<1>1. /\ starting' = [next |-> 1, result |-> "none", times |-> starting.times + 1]
      /\ UNCHANGED <<startOn, set, user, misuse>> /\ starting.times \in Nat
  BY DEF CallsInit, StartInv
<1>2. Len(Globals) \in Nat \ {0} /\ Globals' = Globals
  BY <1>1, WindowsGlobals, OtherGlobals DEF Globals
<1>3. starting' \in [next : 0..Len(Globals'), result : {"none", "ok", "failed"}, times : Nat]
  BY <1>1, <1>2
<1>4. /\ starting'.times = starting.times + 1 /\ starting'.next = 1 /\ starting'.result = "none"
  BY <1>1
<1>5. starting'.times = 1 => /\ Loaded(starting.next)'
                             /\ \A g \in set' : \E i \in 1..(starting'.next - 1) : g = Globals'[i]
  <2> SUFFICES ASSUME starting'.times = 1
               PROVE  /\ Loaded(starting.next)'
                      /\ \A g \in set' : \E i \in 1..(starting'.next - 1) : g = Globals'[i]
    OBVIOUS
  <2>1. set' = {}
    BY <1>1, <1>4 DEF StartInv
  <2>2. Loaded(starting.next)'
    BY <1>2, <1>4, WindowsGlobals, OtherGlobals DEF Loaded
  <2> QED BY <2>1, <2>2
<1> QED BY <1>1, <1>3, <1>4, <1>5 DEF StartInv, NothingUnset, Starting, Uses

\* The next step of the first psutil_init sets what was not set, or stops.
LEMMA SetsNextKeeps ==
  ASSUME StartInv, NEW found \in BOOLEAN, SetsNext(found)
  PROVE  StartInv'
<1> DEFINE n == starting.next
           g == Globals[n]
           stops == ~found /\ IsMandatory(g)
<1> HIDE DEF stops
<1>1. PICK length \in Nat \ {0} : length = Len(Globals) /\ DOMAIN Globals = 1..length
  <2>1. Len(Globals) \in Nat \ {0} /\ DOMAIN Globals = 1..Len(Globals)
    BY WindowsGlobals, OtherGlobals
  <2> QED BY <2>1
<1>type. starting \in [next : 0..length, result : {"none", "ok", "failed"}, times : Nat]
  BY <1>1 DEF StartInv
<1>place. n \in 1..length
  BY <1>type DEF SetsNext, Starting
<1>2. /\ UNCHANGED <<startOn, user, misuse>> /\ Globals' = Globals
      /\ set' = IF found THEN set \cup {g} ELSE set \ {g}
      /\ found \/ IsMandatory(g) \/ IsOptional(g)
  BY DEF SetsNext, Globals
<1>3. /\ starting' \in [next : 0..length, result : {"none", "ok", "failed"}, times : Nat]
      /\ starting'.times = starting.times
      /\ \/ starting'.next = 0 /\ starting'.result = "failed" /\ stops
         \/ starting'.next = 0 /\ starting'.result = "ok" /\ n = length /\ ~stops
         \/ starting'.next = n + 1 /\ n < length /\ starting'.result = starting.result /\ ~stops
  <2>1. CASE stops
    <3>1. n # length
      BY <1>1, <2>1, LastNotMandatory DEF stops
    <3>2. starting' = [starting EXCEPT !.next = 0, !.result = "failed"]
      BY <1>1, <2>1, <3>1 DEF stops, SetsNext, Ends
    <3>3. /\ starting' \in [next : 0..length, result : {"none", "ok", "failed"}, times : Nat]
          /\ starting'.times = starting.times /\ starting'.next = 0 /\ starting'.result = "failed"
      <4>1. 0 \in 0..length
        BY <1>1
      <4> QED BY <4>1, <1>type, <3>2
    <3> QED BY <2>1, <3>3
  <2>2. CASE ~stops /\ n = length
    <3>1. starting' = [starting EXCEPT !.next = 0, !.result = "ok"]
      BY <1>1, <2>2 DEF stops, SetsNext, Ends
    <3>2. /\ starting' \in [next : 0..length, result : {"none", "ok", "failed"}, times : Nat]
          /\ starting'.times = starting.times /\ starting'.next = 0 /\ starting'.result = "ok"
      <4>1. 0 \in 0..length
        BY <1>1
      <4> QED BY <4>1, <1>type, <3>1
    <3> QED BY <2>2, <3>2
  <2>3. CASE ~stops /\ n # length
    <3>1. starting' = [starting EXCEPT !.next = n + 1]
      BY <1>1, <2>3 DEF stops, SetsNext, Ends
    <3>2. /\ starting' \in [next : 0..length, result : {"none", "ok", "failed"}, times : Nat]
          /\ starting'.times = starting.times /\ starting'.next = n + 1
          /\ starting'.result = starting.result /\ n < length
      BY <1>type, <1>place, <2>3, <3>1
    <3> QED BY <2>3, <3>2
  <2> QED BY <2>1, <2>2, <2>3
<1>4. ASSUME starting'.times <= 1
      PROVE  /\ starting.times = 1 /\ Starting /\ set \subseteq set' /\ starting.result = "none"
             /\ (\A e \in set : \E i \in 1..(n - 1) : e = Globals[i]) /\ Loaded(n)
  <2>1. Starting /\ starting.times = 1
    BY <1>3, <1>4, <1>type, <1>place DEF StartInv, Starting
  <2>2. /\ starting.result = "none" /\ Loaded(n)
        /\ \A e \in set : \E i \in 1..(n - 1) : e = Globals[i]
    BY <2>1 DEF StartInv
  <2>3. g \notin set
    BY <1>1, <1>place, <2>2, EachOnce
  <2> QED BY <1>2, <2>1, <2>2, <2>3
<1>5. ASSUME starting'.times <= 1, ~stops, NEW m, m = n + 1
      PROVE  \A i \in DOMAIN Globals : i < m => Globals[i] \in set' \/ IsOptional(Globals[i])
  <2> SUFFICES ASSUME NEW i \in 1..length, i < n + 1
               PROVE  Globals[i] \in set' \/ IsOptional(Globals[i])
    BY <1>1, <1>5
  <2>1. CASE i < n
    <3>1. Loaded(n) /\ set \subseteq set'
      BY <1>4, <1>5
    <3> QED BY <1>1, <2>1, <3>1 DEF Loaded
  <2>2. CASE i = n
    BY <1>2, <1>5, <2>2 DEF stops
  <2> QED BY <1>place, <2>1, <2>2
<1>6. /\ (starting.times = 1 /\ Starting =>
             /\ starting.result = "none" /\ Loaded(starting.next)
             /\ \A e \in set : \E i \in 1..(starting.next - 1) : e = Globals[i])'
      /\ (starting.times = 1 /\ starting.result = "ok" => Loaded(Len(Globals) + 1))'
  <2> SUFFICES ASSUME starting'.times = 1
               PROVE  /\ Starting' =>
                           /\ starting'.result = "none" /\ Loaded(starting.next)'
                           /\ \A e \in set' : \E i \in 1..(starting'.next - 1) : e = Globals'[i]
                      /\ starting'.result = "ok" => Loaded(Len(Globals) + 1)'
    OBVIOUS
  <2>1. CASE starting'.next = 0 /\ starting'.result = "failed" /\ stops
    BY <2>1 DEF Starting
  <2>2. CASE starting'.next = 0 /\ starting'.result = "ok" /\ n = length /\ ~stops
    <3>1. \A i \in DOMAIN Globals : i < Len(Globals) + 1 => Globals[i] \in set' \/ IsOptional(Globals[i])
      BY <1>1, <1>5, <2>2
    <3> QED BY <1>2, <2>2, <3>1 DEF Starting, Loaded
  <2>3. CASE starting'.next = n + 1 /\ n < length /\ starting'.result = starting.result /\ ~stops
    <3>1. \A i \in DOMAIN Globals : i < starting'.next => Globals[i] \in set' \/ IsOptional(Globals[i])
      BY <1>5, <2>3
    <3>3. Loaded(starting.next)' /\ starting'.result = "none"
      BY <1>2, <1>4, <2>3, <3>1 DEF Loaded
    <3>2. \A e \in set' : \E i \in 1..(starting'.next - 1) : e = Globals'[i]
      <4> SUFFICES ASSUME NEW e \in set' PROVE \E i \in 1..n : e = Globals[i]
        BY <1>2, <1>place, <2>3
      <4>1. CASE e \in set
        BY <1>4, <1>place, <4>1
      <4>2. CASE e = g
        BY <1>place, <4>2
      <4> QED BY <1>2, <4>1, <4>2
    <3> QED BY <2>3, <3>2, <3>3
  <2> QED BY <1>3, <2>1, <2>2, <2>3
<1>7. StartInv!2' /\ StartInv!1'
  BY <1>1, <1>2, <1>3 DEF StartInv
<1>8. (user.pc # "idle" => user.fn \in CallsOf[startOn])'
  BY <1>2 DEF StartInv
<1>9. (starting.times <= 1 /\ user.pc = "uses" => user.fn \in Unchecked \/ Uses(user.fn) \subseteq set)'
  BY <1>2, <1>3, <1>4 DEF StartInv, Uses
<1>10. (starting.times = 0 => set = {} /\ ~Starting /\ starting.result = "none")'
  BY <1>1, <1>3, <1>type, <1>place DEF StartInv, Starting
<1> QED BY <1>2, <1>6, <1>7, <1>8, <1>9, <1>10 DEF StartInv, NothingUnset

LEMMA CallsFunctionKeeps ==
  ASSUME StartInv, NEW f \in CallsOf[startOn], CallsFunction(f)
  PROVE  StartInv'
  BY DEF CallsFunction, StartInv, Loaded, Starting, Globals, Uses, NothingUnset, NoMisuse

LEMMA LooksKeeps ==
  ASSUME StartInv, Looks
  PROVE  StartInv'
<1>1. /\ UNCHANGED <<startOn, set, starting, misuse>> /\ user.pc # "idle"
      /\ user'.fn = user.fn
      /\ user'.pc = "uses" => user.fn \in Unchecked \/ Uses(user.fn) \subseteq set
  BY DEF Looks
<1> QED BY <1>1 DEF StartInv, Loaded, Starting, Globals, Uses, NothingUnset

\* Only a function that does not look goes through what is not set.
LEMMA UsesKeeps ==
  ASSUME StartInv, UsesGlobals
  PROVE  StartInv'
<1>1. /\ UNCHANGED <<startOn, set, starting>> /\ user.pc = "uses" /\ user'.pc = "idle"
      /\ misuse' = [is |-> ~(Uses(user.fn) \subseteq set), fn |-> user.fn,
                    result |-> starting.result, times |-> starting.times]
  BY DEF UsesGlobals
<1>2. user.fn \in CallsOf[startOn] /\ starting.times \in Nat /\ startOn \in DOMAIN CallsOf
  BY <1>1 DEF StartInv
<1>3. starting.times <= 1 /\ starting.result = "ok" => starting.times = 1
  BY <1>2 DEF StartInv
<1>4. NothingUnset'
  <2> SUFFICES ASSUME ~(Uses(user.fn) \subseteq set), starting.times <= 1
               PROVE  starting.result # "ok" /\ user.fn \in Unchecked
    <3>1. /\ misuse'.is => ~(Uses(user.fn) \subseteq set)
          /\ misuse'.fn = user.fn /\ misuse'.result = starting.result
          /\ misuse'.times = starting.times
      BY <1>1
    <3> QED BY <1>2, <3>1 DEF NothingUnset
  <2>1. user.fn \in Unchecked
    BY <1>1 DEF StartInv
  <2>2. starting.result = "ok" => Loaded(Len(Globals) + 1)
    BY <1>3 DEF StartInv
  <2> QED BY <1>2, <2>1, <2>2, UncheckedLoaded
<1> QED BY <1>1, <1>4 DEF StartInv, Loaded, Starting, Globals, Uses

LEMMA StartInvStep == StartInv /\ [StartNext]_startVars => StartInv'
<1> SUFFICES ASSUME StartInv, [StartNext]_startVars PROVE StartInv'
  OBVIOUS
<1>1. CASE UNCHANGED startVars
  BY <1>1 DEF startVars, StartInv, Loaded, Starting, Globals, Uses, NothingUnset
<1> QED BY <1>1, CallsInitKeeps, SetsNextKeeps, CallsFunctionKeeps, LooksKeeps, UsesKeeps DEF StartNext

\* Whatever is missing on the system, and whenever other functions are called:
\* from the first psutil_init that answers 0 until the next, no call goes through
\* a pointer that is not set.
THEOREM NothingUnsetIsUsed == Spec => []NothingUnset
<1>1. Init => StartInv
  BY StartInvInit DEF Init
<1>2. StartInv /\ [Next]_vars => StartInv'
  BY PartSteps, StartInvStep
<1>3. StartInv => NothingUnset
  BY DEF StartInv
<1> QED BY <1>1, <1>2, <1>3, PTL DEF Spec

-----------------------------------------------------------------------------
(***************************************************************************)
(* boot_time and FiletimeToUnixTime.                                       *)
(***************************************************************************)

\* A value that is as near to the time of the start as BootTimeRight asks.
NearBoot(value, took) ==
  IF clockOn \in {"linux", "android"}
  THEN took - 2 * PartsOfSecond < value - boot /\ value - boot <= took
  ELSE -took <= value - boot /\ value - boot <= 0

ReadingKind == [pc : {"idle", "second"}, first : Int, began : Nat, set : BOOLEAN]
ValueKind   == [is : BOOLEAN, value : Int, took : Int, set : BOOLEAN]

\* As long as nobody sets the clock, what was read first belongs to the time at
\* which it was read, and what Android keeps is near the time of the start.
ClockInv ==
  /\ clockOn \in {"linux", "android", "windows_xp", "windows", "macos", "bsd"}
  /\ up \in 0..LastPart /\ boot \in Boots
  /\ reading \in ReadingKind /\ cached \in ValueKind
  /\ cached.is /\ ~cached.set => NearBoot(cached.value, cached.took)
  /\ reading.pc = "second" => clockOn \notin {"macos", "bsd"} /\ reading.began \in 0..up
  /\ reading.pc = "second" /\ ~reading.set =>
       reading.first = IF clockOn \in {"linux", "android"} THEN SecondsUp(reading.began)
                       ELSE boot + reading.began
  /\ BootTimeRight /\ FiletimeRight

LEMMA SecondsBound ==
  ASSUME NEW n \in Nat
  PROVE  /\ Seconds(n) \in Nat
         /\ Seconds(n) * PartsOfSecond <= n /\ n < Seconds(n) * PartsOfSecond + PartsOfSecond
  BY ClocksAssumption DEF Seconds

LEMMA SecondsUpBound ==
  ASSUME NEW n \in Nat
  PROVE  /\ SecondsUp(n) \in Nat
         /\ n <= SecondsUp(n) * PartsOfSecond /\ SecondsUp(n) * PartsOfSecond < n + PartsOfSecond
<1>1. PICK p \in Nat : p = PartsOfSecond /\ p > 0
  BY ClocksAssumption
<1>2. PICK m \in Nat : m = n + PartsOfSecond - 1 /\ m = n + p - 1
  BY <1>1
<1>3. PICK s \in Nat : s = Seconds(m) /\ s * p <= m /\ m < s * p + p
  BY <1>1, SecondsBound
<1>4. SecondsUp(n) = s
  BY <1>2, <1>3 DEF SecondsUp
<1>5. s * p \in Nat
  OBVIOUS
<1> QED BY <1>1, <1>2, <1>3, <1>4, <1>5

LEMMA RemainderOfLess == ASSUME NEW w \in Nat \ {0}, NEW n \in 0..(w - 1) PROVE n % w = n
  OBVIOUS

LEMMA RemainderOfNegative ==
  ASSUME NEW w \in Nat \ {0}, NEW n \in Int, n < 0, -w < n
  PROVE  n % w = w + n
  OBVIOUS

\* A time in seconds rounded down, less one rounded up, is what passed between them
\* or less, by less than two seconds.
LEMMA DifferenceOfSeconds ==
  ASSUME NEW a \in Nat, NEW b \in Nat, NEW value, value = (Seconds(b) - SecondsUp(a)) * PartsOfSecond
  PROVE  value \in Int /\ (b - a) - 2 * PartsOfSecond < value /\ value <= b - a
<1>1. PICK p \in Nat : p = PartsOfSecond
  BY ClocksAssumption
<1>2. PICK s \in Nat : s = SecondsUp(a) /\ a <= s * p /\ s * p < a + p
  BY <1>1, SecondsUpBound
<1>3. PICK t \in Nat : t = Seconds(b) /\ t * p <= b /\ b < t * p + p
  BY <1>1, SecondsBound
<1>4. (t - s) * p = t * p - s * p
  OBVIOUS
<1>5. t * p \in Nat /\ s * p \in Nat
  OBVIOUS
<1> QED BY <1>1, <1>2, <1>3, <1>4, <1>5

LEMMA ClockInvInit == ClockInit => ClockInv
  BY ClocksAssumption
     DEF ClockInit, ClockInv, NoValue, NotReading, NotTold, BootTimeRight, FiletimeRight,
         ReadingKind, ValueKind

LEMMA TimePassesKeeps == ASSUME ClockInv, TimePasses PROVE ClockInv'
<1>1. /\ up < LastPart /\ up' = up + 1
      /\ UNCHANGED clockOn /\ UNCHANGED boot /\ UNCHANGED cached /\ UNCHANGED reading /\ UNCHANGED told
  BY DEF TimePasses
<1>2. BootTimeRight' /\ FiletimeRight'
  BY <1>1 DEF ClockInv, BootTimeRight, FiletimeRight
<1>3. (cached.is /\ ~cached.set => NearBoot(cached.value, cached.took))'
  BY <1>1 DEF ClockInv, NearBoot
<1>4. up' \in 0..LastPart /\ (reading.pc = "second" => reading.began \in 0..up')
  BY <1>1, ClocksAssumption DEF ClockInv
<1> QED BY <1>1, <1>2, <1>3, <1>4 DEF ClockInv

\* Setting the clock makes void what was read and what is kept.
LEMMA SetsClockKeeps == ASSUME ClockInv, SetsClock PROVE ClockInv'
<1>1. /\ boot' \in Boots /\ UNCHANGED <<clockOn, up, told>>
      /\ reading' = [reading EXCEPT !.set = reading.pc # "idle"]
      /\ cached' = [cached EXCEPT !.set = cached.is]
  BY DEF SetsClock
<1>2. /\ reading' \in ReadingKind /\ reading'.pc = reading.pc /\ reading'.began = reading.began
      /\ reading'.pc = "second" => reading'.set
  BY <1>1 DEF ClockInv, ReadingKind
<1>3. cached' \in ValueKind /\ (cached'.is => cached'.set)
  BY <1>1 DEF ClockInv, ValueKind
<1> QED BY <1>1, <1>2, <1>3 DEF ClockInv, BootTimeRight, FiletimeRight

LEMMA ReadsFirstKeeps == ASSUME ClockInv, ReadsFirst PROVE ClockInv'
<1>1. /\ UNCHANGED <<clockOn, up, boot, cached>> /\ told' = NotTold
      /\ clockOn \notin {"macos", "bsd"}
      /\ reading' = [pc |-> "second", began |-> up, set |-> FALSE,
                     first |-> IF clockOn \in {"linux", "android"} THEN SecondsUp(up) ELSE boot + up]
  BY DEF ReadsFirst
<1>2. up \in Nat
  BY ClocksAssumption DEF ClockInv
<1>3. reading' \in ReadingKind
  BY <1>1, <1>2, SecondsUpBound, ClocksAssumption DEF ClockInv, ReadingKind
<1> QED BY <1>1, <1>2, <1>3 DEF ClockInv, NearBoot, NotTold, BootTimeRight, FiletimeRight

\* What is told is right, if it is near the time of the start.
LEMMA TellKeeps ==
  ASSUME ClockInv, NEW value, NEW took, NEW wasSet, Tell(value, took, wasSet),
         wasSet \/ (clockOn = "windows_xp" /\ up >= TickWrap) \/ NearBoot(value, took)
  PROVE  BootTimeRight' /\ FiletimeRight'
<1>1. /\ UNCHANGED clockOn /\ told'.is = "boot" /\ told'.value = value /\ told'.right = boot
      /\ told'.took = took /\ told'.set = wasSet /\ ~told'.failed
      /\ clockOn = "windows_xp" /\ up >= TickWrap => told'.wrapped
  BY DEF Tell, Telling
<1>2. FiletimeRight'
  BY <1>1 DEF FiletimeRight
<1>3. ~told'.set /\ ~told'.wrapped => NearBoot(value, took)
  BY <1>1
<1>4. BootTimeRight'
  BY <1>1, <1>3 DEF NearBoot, BootTimeRight
<1> QED BY <1>2, <1>4

\* The difference of the two readings.
LEMMA ReadsSecondKeeps == ASSUME ClockInv, ReadsSecond PROVE ClockInv'
<1> DEFINE value == CASE clockOn \in {"linux", "android"} ->
                           (Seconds(boot + up) - reading.first) * PartsOfSecond
                      [] clockOn = "windows_xp" -> reading.first - (up % TickWrap)
                      [] OTHER -> reading.first - up
           took == up - reading.began
           wasSet == reading.set
<1>1. /\ Tell(value, took, wasSet)
      /\ cached' = IF clockOn # "android" THEN cached
                   ELSE [is |-> value # 0, value |-> value, took |-> took, set |-> wasSet]
      /\ reading.pc = "second"
  BY DEF ReadsSecond
<1>2. UNCHANGED <<clockOn, up, boot>> /\ reading' = NotReading
  BY <1>1 DEF Tell, Telling
<1>3. /\ up \in Nat /\ boot \in Nat /\ took \in Nat /\ reading.began \in 0..up
      /\ clockOn \in {"linux", "android", "windows_xp", "windows"}
  BY <1>1, ClocksAssumption DEF ClockInv
<1>4. ~wasSet /\ ~(clockOn = "windows_xp" /\ up >= TickWrap) => NearBoot(value, took)
  <2> SUFFICES ASSUME ~wasSet, ~(clockOn = "windows_xp" /\ up >= TickWrap)
               PROVE  NearBoot(value, took)
    OBVIOUS
  <2>1. CASE clockOn \in {"linux", "android"}
    <3>1. value = (Seconds(boot + up) - SecondsUp(reading.began)) * PartsOfSecond
      BY <1>1, <2>1 DEF ClockInv
    <3> HIDE DEF value
    <3>2. PICK b \in Nat, a \in Nat : b = boot + up /\ a = reading.began
      BY <1>3
    <3>3. value \in Int /\ (b - a) - 2 * PartsOfSecond < value /\ value <= b - a
      <4>1. value = (Seconds(b) - SecondsUp(a)) * PartsOfSecond
        BY <3>1, <3>2
      <4> QED BY <4>1, DifferenceOfSeconds
    <3> QED BY <1>3, <2>1, <3>2, <3>3, ClocksAssumption DEF NearBoot
  <2>2. CASE clockOn = "windows_xp"
    <3>1. reading.first = boot + reading.began
      BY <1>1, <2>2 DEF ClockInv
    <3>2. up % TickWrap = up
      BY <1>3, <2>2, RemainderOfLess, ClocksAssumption
    <3> QED BY <1>3, <2>2, <3>1, <3>2 DEF NearBoot
  <2>3. CASE clockOn = "windows"
    <3>1. reading.first = boot + reading.began
      BY <1>1, <2>3 DEF ClockInv
    <3> QED BY <1>3, <2>3, <3>1 DEF NearBoot
  <2> QED BY <1>3, <2>1, <2>2, <2>3
<1>type. value \in Int /\ wasSet \in BOOLEAN /\ reading.first \in Int
  <2>1. reading.first \in Int /\ wasSet \in BOOLEAN /\ PartsOfSecond \in Int /\ up % TickWrap \in Int
    BY <1>3, ClocksAssumption DEF ClockInv, ReadingKind
  <2>2. Seconds(boot + up) \in Int
    BY <1>3, SecondsBound
  <2> HIDE DEF wasSet
  <2> QED BY <1>3, <2>1, <2>2
<1> HIDE DEF value, took, wasSet
<1>5. BootTimeRight' /\ FiletimeRight'
  BY <1>1, <1>4, TellKeeps
<1>6. cached' \in ValueKind /\ (cached.is /\ ~cached.set => NearBoot(cached.value, cached.took))'
  <2>1. CASE clockOn # "android"
    BY <1>1, <1>2, <2>1 DEF ClockInv, NearBoot
  <2>2. CASE clockOn = "android"
    <3>1. cached' = [is |-> value # 0, value |-> value, took |-> took, set |-> wasSet]
      BY <1>1, <2>2
    <3> QED BY <1>2, <1>3, <1>4, <1>type, <2>2, <3>1 DEF NearBoot, ValueKind
  <2> QED BY <2>1, <2>2
<1>7. reading' \in ReadingKind /\ reading'.pc = "idle"
  BY <1>2 DEF NotReading, ReadingKind
<1> QED BY <1>2, <1>5, <1>6, <1>7 DEF ClockInv

LEMMA TellsFailureKeeps == ASSUME ClockInv, TellsFailure PROVE ClockInv'
<1>1. /\ told' = [NotTold EXCEPT !.is = "boot", !.right = boot, !.failed = TRUE]
      /\ clockOn \notin {"windows_xp", "windows"}
      /\ UNCHANGED <<clockOn, up, boot, cached, reading>>
  BY DEF TellsFailure
<1>2. told'.is = "boot" /\ told'.value = 0 /\ told'.failed
  BY <1>1 DEF NotTold
<1>3. BootTimeRight' /\ FiletimeRight'
  BY <1>1, <1>2 DEF BootTimeRight, FiletimeRight
<1> QED BY <1>1, <1>3 DEF ClockInv, NearBoot

LEMMA TellsKeptKeeps == ASSUME ClockInv, TellsKept PROVE ClockInv'
<1>1. /\ reading.pc = "idle" /\ UNCHANGED cached
      /\ \/ clockOn \in {"macos", "bsd"} /\ Tell(boot, 0, FALSE)
         \/ clockOn = "android" /\ cached.is /\ Tell(cached.value, cached.took, cached.set)
  BY DEF TellsKept
<1>2. UNCHANGED <<clockOn, up, boot>> /\ reading' = NotReading
  BY <1>1 DEF Tell, Telling
<1>3. boot \in Nat
  BY ClocksAssumption DEF ClockInv
<1>4. BootTimeRight' /\ FiletimeRight'
  <2>1. CASE clockOn \in {"macos", "bsd"} /\ Tell(boot, 0, FALSE)
    <3>1. NearBoot(boot, 0)
      BY <1>3, <2>1 DEF NearBoot
    <3> QED BY <2>1, <3>1, TellKeeps
  <2>2. CASE clockOn = "android" /\ cached.is /\ Tell(cached.value, cached.took, cached.set)
    <3>1. cached.set \/ NearBoot(cached.value, cached.took)
      BY <2>2 DEF ClockInv
    <3> QED BY <2>2, <3>1, TellKeeps
  <2> QED BY <1>1, <2>1, <2>2
<1>5. reading' \in ReadingKind /\ reading'.pc = "idle"
  BY <1>2 DEF NotReading, ReadingKind
<1> QED BY <1>1, <1>2, <1>4, <1>5 DEF ClockInv, NearBoot

\* Subtracted from a date after 1970, the epoch leaves the date; before it, the
\* subtraction wraps.
LEMMA TellsFiletimeKeeps == ASSUME ClockInv, TellsFiletime PROVE ClockInv'
<1> DEFINE Right(w) == CASE w = "created" -> boot + up [] w = "created_by_system" -> 0 [] OTHER -> up
<1>1. UNCHANGED <<clockOn, up, boot, cached, reading>>
  BY DEF TellsFiletime
<1>a. PICK what \in {"created", "created_by_system", "ran"} :
        told' = [NotTold EXCEPT !.is = what, !.right = Right(what),
                 !.value = FiletimeToUnixTime(IF what = "created" THEN Epoch + Right(what)
                                              ELSE Right(what))]
  BY DEF TellsFiletime
<1> DEFINE right == Right(what)
<1>2. /\ what \in {"created", "created_by_system", "ran"}
      /\ right = CASE what = "created" -> boot + up [] what = "created_by_system" -> 0 [] OTHER -> up
      /\ told' = [NotTold EXCEPT !.is = what, !.right = right,
                  !.value = FiletimeToUnixTime(IF what = "created" THEN Epoch + right ELSE right)]
  BY <1>a
<1> HIDE DEF right, Right
<1>3. /\ boot \in Boots /\ boot \in Nat /\ up \in 0..LastPart /\ up \in Nat /\ Epoch \in Nat \ {0}
      /\ FileTimes \in Nat \ {0} /\ Epoch < FileTimes /\ Epoch + boot + LastPart < FileTimes
      /\ LastPart \in Nat
  BY ClocksAssumption DEF ClockInv
<1>4. /\ told'.is = what /\ told'.right = right
      /\ told'.value = FiletimeToUnixTime(IF what = "created" THEN Epoch + right ELSE right)
  BY <1>2 DEF NotTold
<1>5. right \in Nat /\ right \in 0..(FileTimes - 1)
  BY <1>2, <1>3
<1>6. CASE what = "created"
  <2>1. told'.value = ((Epoch + right) - Epoch) % FileTimes /\ (Epoch + right) - Epoch = right
    BY <1>3, <1>4, <1>5, <1>6 DEF FiletimeToUnixTime
  <2>2. FiletimeRight' /\ BootTimeRight'
    BY <1>3, <1>4, <1>5, <1>6, <2>1, RemainderOfLess DEF FiletimeRight, BootTimeRight
  <2> QED BY <1>1, <2>2 DEF ClockInv, NearBoot
<1>7. CASE what \in {"created_by_system", "ran"}
  <2>1. told'.value = (right - Epoch) % FileTimes
    BY <1>4, <1>7 DEF FiletimeToUnixTime
  <2>2. right < Epoch => told'.value = right + (FileTimes - Epoch)
    BY <1>3, <1>5, <2>1, RemainderOfNegative
  <2>3. FiletimeRight' /\ BootTimeRight'
    BY <1>4, <1>7, <2>2 DEF FiletimeRight, BootTimeRight
  <2> QED BY <1>1, <2>3 DEF ClockInv, NearBoot
<1> QED BY <1>2, <1>6, <1>7

LEMMA ClockInvStep == ClockInv /\ [ClockNext]_clockVars => ClockInv'
<1> SUFFICES ASSUME ClockInv, [ClockNext]_clockVars PROVE ClockInv'
  OBVIOUS
<1>1. CASE UNCHANGED clockVars
  BY <1>1 DEF clockVars, ClockInv, NearBoot, BootTimeRight, FiletimeRight
<1> QED BY <1>1, TimePassesKeeps, SetsClockKeeps, ReadsFirstKeeps, ReadsSecondKeeps,
           TellsFailureKeeps, TellsKeptKeeps, TellsFiletimeKeeps DEF ClockNext

LEMMA ClocksKept == Spec => []ClockInv
<1>1. Init => ClockInv
  BY ClockInvInit DEF Init
<1>2. ClockInv /\ [Next]_vars => ClockInv'
  BY PartSteps, ClockInvStep
<1> QED BY <1>1, <1>2, PTL DEF Spec

\* Whenever the clock is set, whatever fails and however long lies between two
\* readings: the time of the start is right up to that on Windows, up to that and
\* less than two seconds on Linux and Android, and exactly where the kernel gives
\* it, unless the clock was set or the tick count wrapped in between.  It is 0 if
\* the system call failed.
THEOREM BootTimesRight == Spec => []BootTimeRight
<1>1. ClockInv => BootTimeRight
  BY DEF ClockInv
<1> QED BY <1>1, ClocksKept, PTL

\* A date after 1970 is right, and any before it is in the far future.
THEOREM FiletimesRight == Spec => []FiletimeRight
<1>1. ClockInv => FiletimeRight
  BY DEF ClockInv
<1> QED BY <1>1, ClocksKept, PTL

-----------------------------------------------------------------------------
(***************************************************************************)
(* CPU affinity.                                                           *)
(***************************************************************************)
BindingKind ==
  [fn : Getters \cup Setters \cup {"none"}, pc : {"idle", "called", "counted"},
   asked : SUBSET Asked, count : 0..NCpu,
   ever : SUBSET Cpu, stayed : SUBSET Cpu, offline : SUBSET Cpu]

\* What has happened to the CPUs is known, and where Linux counts fewer than a
\* CPU's number, one with a number as low was offline then.
AffinityInv ==
  /\ online \subseteq Cpu /\ mask \subseteq Cpu /\ binding \in BindingKind
  /\ ~BindingAt("idle") =>
       /\ Cpu \ online \subseteq binding.offline
       /\ binding.fn \in Getters =>
            /\ mask \cap online \subseteq binding.ever
            /\ binding.stayed \subseteq mask \cap online
            /\ binding.stayed \cap binding.offline = {}
  /\ BindingAt("counted") =>
       \A c \in Cpu : c < binding.count \/ \E d \in 0..c : d \in binding.offline
  /\ AffinityListed /\ AffinityAsSet

\* If all CPUs up to one are online, its number is less than how many are.
LEMMA CountsLower ==
  ASSUME online \subseteq Cpu, NEW c \in Cpu, 0..c \subseteq online
  PROVE  c < Cardinality(online)
<1>1. IsFiniteSet(Cpu) /\ c \in Nat /\ 0 \in Int
  BY FS_Interval, AffinityAssumption DEF Cpu
<1>2. IsFiniteSet(online)
  BY <1>1, FS_Subset
<1>3. IsFiniteSet(0..c) /\ Cardinality(0..c) = c + 1
  BY <1>1, FS_Interval
<1>4. Cardinality(0..c) <= Cardinality(online) /\ Cardinality(online) \in Nat
  BY <1>2, FS_Subset, FS_CardinalityType
<1> QED BY <1>1, <1>3, <1>4

LEMMA NoBindingKind ==
  /\ NoBinding \in BindingKind
  /\ NoBinding = [fn |-> "none", pc |-> "idle", asked |-> {}, count |-> 0,
                  ever |-> {}, stayed |-> {}, offline |-> {}]
<1>1. 0 \in 0..NCpu
  BY AffinityAssumption
<1> QED BY <1>1 DEF NoBinding, BindingKind

LEMMA AffinityInvInit == AffinityInit => AffinityInv
  BY NoBindingKind
     DEF AffinityInit, AffinityInv, NoBound, BindingAt, AffinityListed, AffinityAsSet

\* While a call is in progress, it sees all that happens.
LEMMA WitnessKeeps ==
  ASSUME AffinityInv, ~BindingAt("idle"), UNCHANGED bound,
         online' \subseteq Cpu, mask' \subseteq Cpu, binding' = Witness(binding, online', mask')
  PROVE  AffinityInv'
<1> DEFINE b == Witness(binding, online', mask')
<1>1. /\ b \in BindingKind /\ b.fn = binding.fn /\ b.pc = binding.pc /\ b.count = binding.count
      /\ b.offline = binding.offline \cup (Cpu \ online')
      /\ b.fn \in Getters => /\ b.ever = binding.ever \cup (mask' \cap online')
                             /\ b.stayed = binding.stayed \cap mask' \cap online'
  <2>1. binding \in BindingKind /\ online' \in SUBSET Cpu /\ mask' \in SUBSET Cpu
    BY DEF AffinityInv
  <2>2. b = Witness(binding, online', mask')
    OBVIOUS
  <2> HIDE DEF b
  <2> QED BY <2>1, <2>2 DEF Witness, BindingKind
<1> HIDE DEF b
<1>2. binding' = b
  BY DEF b
<1>3. b.fn \in Getters => b.stayed \cap b.offline = {}
  BY <1>1 DEF AffinityInv
<1> QED BY <1>1, <1>2, <1>3 DEF AffinityInv, BindingAt, AffinityListed, AffinityAsSet

LEMMA AffinityCallKeeps ==
  ASSUME AffinityInv, NEW f \in Getters \cup Setters, NEW asked \in SUBSET Asked,
         AffinityCall(f, asked)
  PROVE  AffinityInv'
<1> DEFINE b == [NoBinding EXCEPT !.fn = f, !.pc = "called", !.asked = asked, !.stayed = Cpu]
           w == Witness(b, online, mask)
<1>1. b \in BindingKind /\ b.fn = f /\ b.pc = "called" /\ b.stayed = Cpu /\ b.offline = {} /\ b.ever = {}
  BY NoBindingKind DEF BindingKind
<1> HIDE DEF b
<1>2. /\ w \in BindingKind /\ w.fn = f /\ w.pc = "called" /\ w.offline = Cpu \ online
      /\ w.fn \in Getters => w.ever = mask \cap online /\ w.stayed = Cpu \cap mask \cap online
  <2>1. online \in SUBSET Cpu /\ mask \in SUBSET Cpu
    BY DEF AffinityInv
  <2>2. /\ w \in BindingKind /\ w.fn = b.fn /\ w.pc = b.pc
        /\ w.offline = b.offline \cup (Cpu \ online)
        /\ b.fn \in Getters => /\ w.ever = b.ever \cup (mask \cap online)
                               /\ w.stayed = b.stayed \cap mask \cap online
    <3>1. w = Witness(b, online, mask)
      OBVIOUS
    <3> HIDE DEF w
    <3> QED BY <1>1, <2>1, <3>1 DEF Witness, BindingKind
  <2> HIDE DEF w
  <2> QED BY <1>1, <2>2
<1>3. binding' = w /\ bound' = NoBound /\ UNCHANGED <<online, mask>>
  BY DEF AffinityCall, b
<1> HIDE DEF w
<1> QED BY <1>2, <1>3 DEF AffinityInv, BindingAt, NoBound, AffinityListed, AffinityAsSet

\* The number of CPUs online is greater than a CPU's number, or one is offline.
LEMMA CountsOnlineKeeps == ASSUME AffinityInv, CountsOnline PROVE AffinityInv'
<1> DEFINE n == Cardinality(online)
           b == [binding EXCEPT !.pc = "counted", !.count = n]
<1>1. n \in 0..NCpu
  <2>1. IsFiniteSet(Cpu) /\ Cardinality(Cpu) = NCpu
    BY FS_Interval, AffinityAssumption DEF Cpu
  <2>2. n \in Nat /\ n <= Cardinality(Cpu)
    BY <2>1, FS_Subset, FS_CardinalityType DEF AffinityInv
  <2> QED BY <2>1, <2>2, AffinityAssumption
<1>2. \A c \in Cpu : c < n \/ \E d \in 0..c : d \in binding.offline
  <2> SUFFICES ASSUME NEW c \in Cpu, ~(c < n) PROVE \E d \in 0..c : d \in binding.offline
    OBVIOUS
  <2>1. ~(0..c \subseteq online)
    BY CountsLower DEF AffinityInv
  <2>2. 0..c \subseteq Cpu
    BY AffinityAssumption DEF Cpu
  <2> QED BY <2>1, <2>2 DEF AffinityInv, CountsOnline, BindingAt
<1> HIDE DEF n
<1>3. /\ b \in BindingKind /\ b.pc = "counted" /\ b.count = n /\ b.fn = binding.fn
      /\ b.ever = binding.ever /\ b.stayed = binding.stayed /\ b.offline = binding.offline
  BY <1>1 DEF AffinityInv, BindingKind
<1>4. binding' = b /\ UNCHANGED <<online, mask, bound>> /\ BindingAt("called")
  BY DEF CountsOnline, n
<1> HIDE DEF b
<1> QED BY <1>2, <1>3, <1>4 DEF AffinityInv, BindingAt, AffinityListed, AffinityAsSet

\* A call ends with an answer that its witnesses bear out.
LEMMA BindKeeps ==
  ASSUME AffinityInv, NEW ok, NEW list, mask' \subseteq Cpu, Bind(ok, list),
         ok /\ binding.fn \in Getters \ {"macos_get"} =>
           /\ list \subseteq binding.ever
           /\ \A c \in binding.stayed \ list :
                binding.fn = "linux_get" /\ \E d \in 0..(c - 1) : d \in binding.offline,
         ok /\ binding.fn \in Setters \ {"macos_set"} =>
           /\ mask' \subseteq list /\ mask' # {}
           /\ \A c \in (list \cap Cpu) \ mask' :
                binding.fn = "linux_set" /\ \E d \in 0..c : d \in binding.offline
  PROVE  AffinityInv'
<1>1. /\ bound'.fn = binding.fn /\ (bound'.ok <=> ok) /\ bound'.list = list /\ bound'.now = mask'
      /\ bound'.ever = binding.ever /\ bound'.stayed = binding.stayed
      /\ bound'.offline = binding.offline
  BY DEF Bind
<1>2. binding' = NoBinding /\ NoBinding \in BindingKind /\ NoBinding.pc = "idle" /\ UNCHANGED online
  BY NoBindingKind DEF Bind
<1>3. AffinityListed' /\ AffinityAsSet'
  BY <1>1 DEF AffinityListed, AffinityAsSet
<1> QED BY <1>2, <1>3 DEF AffinityInv, BindingAt

LEMMA ReadsMaskKeeps == ASSUME AffinityInv, ReadsMask PROVE AffinityInv'
<1> DEFINE usable == mask \cap online
<1>1. /\ UNCHANGED mask /\ mask \subseteq Cpu
      /\ binding.fn \in {"linux_get", "android_get", "windows_get"} => usable \subseteq binding.ever
      /\ binding.fn \in {"linux_get", "android_get", "windows_get"} => binding.stayed \subseteq usable
      /\ binding.fn \in {"linux_get", "android_get", "windows_get"} =>
           binding.stayed \cap binding.offline = {}
  BY DEF ReadsMask, AffinityInv, BindingAt, Getters
<1>2. CASE BindingAt("counted") /\ binding.fn = "linux_get"
           /\ Bind(TRUE, {c \in usable : c < binding.count})
  <2>1. ASSUME NEW c \in binding.stayed, ~(c < binding.count)
        PROVE  \E d \in 0..(c - 1) : d \in binding.offline
    <3>1. PICK d \in 0..c : d \in binding.offline
      BY <1>1, <1>2, <2>1 DEF AffinityInv
    <3>2. c \in Nat /\ d # c
      BY <1>1, <1>2, <3>1, AffinityAssumption DEF Cpu
    <3> QED BY <3>1, <3>2
  <2> QED BY <1>1, <1>2, <2>1, BindKeeps DEF Setters
<1>3. CASE binding.fn \in {"android_get", "windows_get"} /\ Bind(TRUE, usable)
  BY <1>1, <1>3, BindKeeps DEF Setters
<1> QED BY <1>2, <1>3 DEF ReadsMask

LEMMA SetsMaskKeeps == ASSUME AffinityInv, SetsMask PROVE AffinityInv'
<1>1. mask' = Taken /\ Bind(TRUE, binding.asked) /\ Taken # {} /\ binding.asked \subseteq Asked
  BY DEF SetsMask, Accepted, AffinityInv, BindingKind
<1>2. CASE BindingAt("counted") /\ binding.fn = "linux_set"
  <2>1. Taken = {c \in binding.asked : 0 <= c /\ c < binding.count}
    BY <1>2 DEF Taken
  <2>2. mask' \subseteq Cpu
    BY <1>1, <2>1, AffinityAssumption DEF AffinityInv, BindingKind, Cpu, Asked
  <2>3. \A c \in (binding.asked \cap Cpu) \ Taken : \E d \in 0..c : d \in binding.offline
    BY <1>2, <2>1, AffinityAssumption DEF AffinityInv, Cpu
  <2> QED BY <1>1, <1>2, <2>1, <2>2, <2>3, BindKeeps DEF Getters
<1>3. CASE binding.fn \in {"android_set", "windows_set"}
  BY <1>1, <1>3, BindKeeps DEF Taken, Getters
<1> QED BY <1>2, <1>3 DEF SetsMask

LEMMA AffinityInvStep == AffinityInv /\ [AffinityNext]_affinityVars => AffinityInv'
<1> SUFFICES ASSUME AffinityInv, [AffinityNext]_affinityVars PROVE AffinityInv'
  OBVIOUS
<1>1. CASE UNCHANGED affinityVars
  BY <1>1 DEF affinityVars, AffinityInv, BindingAt, AffinityListed, AffinityAsSet
<1>2. CASE Hotplug \/ SetByOthers
  BY <1>2, WitnessKeeps DEF Hotplug, SetByOthers, AffinityInv
<1>3. CASE AffinityFails
  BY <1>3, BindKeeps DEF AffinityFails, AffinityInv
<1>4. CASE ListsAll \/ SetsNothing
  BY <1>4, BindKeeps DEF ListsAll, SetsNothing, AffinityInv, Getters, Setters
<1> QED BY <1>1, <1>2, <1>3, <1>4, AffinityCallKeeps, CountsOnlineKeeps, ReadsMaskKeeps, SetsMaskKeeps
        DEF AffinityNext

LEMMA AffinityInvHolds == Spec => []AffinityInv
<1>1. Init => AffinityInv
  BY AffinityInvInit DEF Init
<1>2. AffinityInv /\ [Next]_vars => AffinityInv'
  BY PartSteps, AffinityInvStep
<1> QED BY <1>1, <1>2, PTL DEF Spec

\* However CPUs come and go, and whoever else sets the affinity: what was read is
\* what the process could use, but for a CPU that Linux has not looked for.
THEOREM AffinitiesListed == Spec => []AffinityListed
<1>1. AffinityInv => AffinityListed
  BY DEF AffinityInv
<1> QED BY <1>1, AffinityInvHolds, PTL

\* What was set is what was asked for, but for a CPU that Linux has not looked for.
THEOREM AffinitiesAsSet == Spec => []AffinityAsSet
<1>1. AffinityInv => AffinityAsSet
  BY DEF AffinityInv
<1> QED BY <1>1, AffinityInvHolds, PTL

-----------------------------------------------------------------------------
(***************************************************************************)
(* Percentages.                                                            *)
(***************************************************************************)
CpuTimesKind == [user : Int, system : Int, idle : Int]

SamplingKind ==
  [fn : CpuCalls \cup {"none"}, pc : {"idle", "called", "asleep"}, interval : Int,
   first : CpuTimesKind, began : Nat, was : [Counter -> Nat], failed : BOOLEAN]

\* All that was counted.
AllCounted(t) == t["user"] + t["nice"] + t["system"] + t["idle"]

\* While a call sleeps, the counters together go on by one tick of each CPU at a
\* time, and the first sample is what they were.
Asleep ==
  /\ sampling.fn \in CpuCalls
  /\ sampling.interval > 0 \/ sampling.fn \in MacCpu \cup {"bsd_cpu_times_percent"}
  /\ sampling.began <= clock
  /\ \A c \in Counter : sampling.was[c] <= ticks[c]
  /\ AllCounted(ticks) = AllCounted(sampling.was) + Cpus * (clock - sampling.began)
  /\ sampling.fn \in WindowsCpu => ~sampling.failed
  /\ ~sampling.failed => sampling.first = Times(sampling.was)

CpuInv ==
  /\ clock \in 0..LastTick /\ ticks \in [Counter -> Nat] /\ sampling \in SamplingKind
  /\ SamplingAt("called") => sampling.fn \in CpuCalls
  /\ SamplingAt("asleep") => Asleep
  /\ PercentInRange /\ PercentIsShare

LEMMA CpuConstants ==
  /\ Cpus \in Nat \ {0} /\ LastTick \in Nat /\ Intervals \subseteq Int
  /\ Wrap \in Nat \ {0} /\ Cpus * LastTick \in Nat /\ Cpus * LastTick < Wrap
  BY CpuTimesAssumption

\* Every CPU adds one tick to one counter.
LEMMA OneTickEach ==
  ASSUME NEW did \in [1..Cpus -> Counter],
         NEW add, add = [c \in Counter |-> Cardinality({k \in 1..Cpus : did[k] = c})]
  PROVE  add \in [Counter -> Nat] /\ AllCounted(add) = Cpus
<1> DEFINE K == 1..Cpus
           S(c) == {k \in K : did[k] = c}
<1>1. IsFiniteSet(K) /\ Cardinality(K) = Cpus
  BY FS_Interval, CpuConstants
<1>2. \A c : IsFiniteSet(S(c)) /\ Cardinality(S(c)) \in Nat
  <2> TAKE c
  <2>1. S(c) \subseteq K
    OBVIOUS
  <2> QED BY <1>1, <2>1, FS_Subset, FS_CardinalityType
<1>3. ASSUME NEW T, IsFiniteSet(T), NEW U, IsFiniteSet(U), T \cap U = {}
      PROVE  IsFiniteSet(T \cup U) /\ Cardinality(T \cup U) = Cardinality(T) + Cardinality(U)
  <2>1. Cardinality(T) \in Nat /\ Cardinality(U) \in Nat /\ Cardinality(T \cap U) = 0
    BY <1>3, FS_CardinalityType, FS_EmptySet
  <2>2. /\ IsFiniteSet(T \cup U)
        /\ Cardinality(T \cup U) = Cardinality(T) + Cardinality(U) - Cardinality(T \cap U)
    BY <1>3, FS_Union, Zenon
  <2> QED BY <2>1, <2>2
<1>4. /\ S("user") \cap S("nice") = {} /\ S("system") \cap S("idle") = {}
      /\ (S("user") \cup S("nice")) \cap (S("system") \cup S("idle")) = {}
      /\ K = (S("user") \cup S("nice")) \cup (S("system") \cup S("idle"))
  BY DEF Counter
<1>5. /\ add \in [Counter -> Nat]
      /\ add["user"] = Cardinality(S("user")) /\ add["nice"] = Cardinality(S("nice"))
      /\ add["system"] = Cardinality(S("system")) /\ add["idle"] = Cardinality(S("idle"))
  BY <1>2 DEF Counter
<1> HIDE DEF K, S
<1>6. Cardinality(K) = (Cardinality(S("user")) + Cardinality(S("nice")))
                        + (Cardinality(S("system")) + Cardinality(S("idle")))
  <2>1. /\ IsFiniteSet(S("user") \cup S("nice"))
        /\ Cardinality(S("user") \cup S("nice")) = Cardinality(S("user")) + Cardinality(S("nice"))
    BY <1>2, <1>3, <1>4, Zenon
  <2>2. /\ IsFiniteSet(S("system") \cup S("idle"))
        /\ Cardinality(S("system") \cup S("idle")) = Cardinality(S("system")) + Cardinality(S("idle"))
    BY <1>2, <1>3, <1>4, Zenon
  <2>3. Cardinality(K) = Cardinality(S("user") \cup S("nice")) + Cardinality(S("system") \cup S("idle"))
    BY <1>3, <1>4, <2>1, <2>2, Zenon
  <2> QED BY <2>1, <2>2, <2>3, Zenon
<1> QED BY <1>1, <1>2, <1>5, <1>6 DEF AllCounted

\* A counter of macOS that has not wrapped between two samples gives their
\* difference.
LEMMA RemaindersDiffer ==
  ASSUME NEW w \in Nat \ {0}, NEW a \in Nat, NEW b \in Nat, a <= b, b - a < w, (b % w) - (a % w) >= 0
  PROVE  (b % w) - (a % w) = b - a
<1>1. PICK x \in Int, y \in Int : a = w * x + (a % w) /\ b = w * y + (b % w)
  <2>1. a \div w \in Int /\ b \div w \in Int /\ a = w * (a \div w) + (a % w) /\ b = w * (b \div w) + (b % w)
    OBVIOUS
  <2> QED BY <2>1
<1>2. w * (y - x) = w * y - w * x
  OBVIOUS
<1>3. a % w \in 0..(w - 1) /\ b % w \in 0..(w - 1)
  OBVIOUS
<1>4. -w < w * (y - x) /\ w * (y - x) < w
  BY <1>1, <1>2, <1>3
<1>5. y - x = 0
  BY <1>4
<1> QED BY <1>1, <1>3, <1>5

LEMMA TimesTyped ==
  ASSUME sampling \in SamplingKind, NEW t \in [Counter -> Nat]
  PROVE  Times(t) \in CpuTimesKind
<1>1. t["user"] \in Nat /\ t["nice"] \in Nat /\ t["system"] \in Nat /\ t["idle"] \in Nat
  BY DEF Counter
<1>2. \A n \in Nat : n % Wrap \in Int
  BY CpuConstants
<1> QED BY <1>1, <1>2 DEF Times, CpuTimesKind

LEMMA NoSampleKind == NoSample \in SamplingKind /\ NoSample.pc = "idle"
<1>1. [c \in Counter |-> 0] \in [Counter -> Nat] /\ NoTimes \in CpuTimesKind
  BY DEF NoTimes, CpuTimesKind
<1> QED BY <1>1 DEF NoSample, SamplingKind

\* Zeros are in range.
LEMMA ZerosRight ==
  ASSUME NEW f \in CpuCalls \cup {"none"}, NEW interval \in Int, NEW failed \in BOOLEAN,
         f # "none" /\ ~failed => interval <= 0 /\ f \notin MacCpu,
         percents' = [NoPercents EXCEPT !.fn = f, !.interval = interval, !.failed = failed]
  PROVE  PercentInRange' /\ PercentIsShare'
<1>1. /\ percents'.fn = f /\ percents'.user = 0 /\ percents'.system = 0 /\ percents'.of = 1
      /\ percents'.interval = interval /\ percents'.slept = 0 /\ (percents'.failed <=> failed)
  BY DEF NoPercents
<1>2. PercentInRange'
  <2>1. Cpus * percents'.slept = 0
    BY <1>1, CpuConstants
  <2> QED BY <1>1, <2>1 DEF PercentInRange
<1>3. PercentIsShare'
  BY <1>1 DEF PercentIsShare
<1> QED BY <1>2, <1>3

LEMMA CountedNat ==
  ASSUME NEW t \in [Counter -> Nat]
  PROVE  /\ t["user"] \in Nat /\ t["nice"] \in Nat /\ t["system"] \in Nat /\ t["idle"] \in Nat
         /\ AllCounted(t) \in Nat
<1>1. t["user"] \in Nat /\ t["nice"] \in Nat /\ t["system"] \in Nat /\ t["idle"] \in Nat
  BY DEF Counter
<1> QED BY <1>1 DEF AllCounted

LEMMA CountedAdds ==
  ASSUME NEW t \in [Counter -> Nat], NEW add \in [Counter -> Nat],
         NEW u, \A c \in Counter : u[c] = t[c] + add[c]
  PROVE  AllCounted(u) = AllCounted(t) + AllCounted(add)
<1>1. /\ u["user"] = t["user"] + add["user"] /\ u["nice"] = t["nice"] + add["nice"]
      /\ u["system"] = t["system"] + add["system"] /\ u["idle"] = t["idle"] + add["idle"]
  BY DEF Counter
<1>2. /\ t["user"] \in Nat /\ t["nice"] \in Nat /\ t["system"] \in Nat /\ t["idle"] \in Nat
      /\ add["user"] \in Nat /\ add["nice"] \in Nat /\ add["system"] \in Nat /\ add["idle"] \in Nat
  BY CountedNat
<1>3. PICK a \in Nat, b \in Nat, c \in Nat, d \in Nat :
        a = t["user"] /\ b = t["nice"] /\ c = t["system"] /\ d = t["idle"]
  BY <1>2
<1>4. PICK e \in Nat, f \in Nat, g \in Nat, h \in Nat :
        e = add["user"] /\ f = add["nice"] /\ g = add["system"] /\ h = add["idle"]
  BY <1>2
<1>5. (a + e) + (b + f) + (c + g) + (d + h) = (a + b + c + d) + (e + f + g + h)
  OBVIOUS
<1>6. AllCounted(u) = (a + e) + (b + f) + (c + g) + (d + h)
  BY <1>1, <1>3, <1>4, Zenon DEF AllCounted
<1>7. AllCounted(t) = a + b + c + d /\ AllCounted(add) = e + f + g + h
  BY <1>3, <1>4, Zenon DEF AllCounted
<1> QED BY <1>5, <1>6, <1>7, Zenon

LEMMA OneTickMore ==
  ASSUME NEW a \in Nat, NEW b \in Nat, NEW c \in Nat
  PROVE  c * (a - b) \in Int /\ c * ((a + 1) - b) = c * (a - b) + c
  OBVIOUS

LEMMA TickKeeps == ASSUME CpuInv, Tick PROVE CpuInv'
<1>1. PICK did \in [1..Cpus -> Counter] :
        ticks' = [c \in Counter |-> ticks[c] + Cardinality({k \in 1..Cpus : did[k] = c})]
  BY DEF Tick
<1>2. PICK add : add = [c \in Counter |-> Cardinality({k \in 1..Cpus : did[k] = c})]
  OBVIOUS
<1>3. add \in [Counter -> Nat] /\ AllCounted(add) = Cpus
  BY <1>2, OneTickEach
<1>4. ticks' = [c \in Counter |-> ticks[c] + add[c]]
  BY <1>1, <1>2
<1>5. /\ clock' = clock + 1 /\ clock < LastTick /\ clock \in Nat /\ UNCHANGED <<sampling, percents>>
      /\ ticks \in [Counter -> Nat] /\ sampling \in SamplingKind
  BY CpuConstants DEF Tick, CpuInv
<1>6. /\ ticks' \in [Counter -> Nat] /\ \A c \in Counter : ticks[c] <= ticks'[c]
      /\ AllCounted(ticks') = AllCounted(ticks) + Cpus
  <2>1. \A c \in Counter : ticks[c] \in Nat /\ add[c] \in Nat /\ ticks'[c] = ticks[c] + add[c]
    BY <1>3, <1>4, <1>5
  <2>2. ticks' \in [Counter -> Nat] /\ \A c \in Counter : ticks[c] <= ticks'[c]
    BY <1>4, <2>1
  <2>3. AllCounted(ticks') = AllCounted(ticks) + AllCounted(add)
    BY <1>3, <1>5, <2>1, CountedAdds
  <2> QED BY <1>3, <2>2, <2>3
<1>7. SamplingAt("asleep") => Asleep'
  <2> SUFFICES ASSUME Asleep, SamplingAt("asleep") PROVE Asleep'
    BY DEF CpuInv
  <2>1. sampling.began \in Nat /\ sampling.was \in [Counter -> Nat]
    BY <1>5 DEF SamplingKind
  <2>2. /\ Cpus * (clock - sampling.began) \in Int
        /\ Cpus * ((clock + 1) - sampling.began) = Cpus * (clock - sampling.began) + Cpus
    BY <1>5, <2>1, CpuConstants, OneTickMore
  <2>3. AllCounted(ticks') = AllCounted(sampling.was) + Cpus * (clock' - sampling.began)
    <3>1. AllCounted(sampling.was) \in Nat
      BY <2>1, CountedNat
    <3> QED BY <1>5, <1>6, <2>2, <3>1, CpuConstants DEF Asleep
  <2>4. \A c \in Counter : sampling.was[c] <= ticks'[c]
    BY <1>5, <1>6, <2>1 DEF Asleep
  <2>5. sampling.began <= clock'
    BY <1>5, <2>1 DEF Asleep
  <2> QED BY <1>5, <2>3, <2>4, <2>5 DEF Asleep, Times
<1>8. clock' \in 0..LastTick
  BY <1>5, CpuConstants
<1> QED BY <1>5, <1>6, <1>7, <1>8 DEF CpuInv, SamplingAt, PercentInRange, PercentIsShare

LEMMA CpuCallKeeps ==
  ASSUME CpuInv, NEW f \in CpuCalls, NEW i \in Intervals, CpuCall(f, i)
  PROVE  CpuInv'
<1>1. /\ sampling' = [NoSample EXCEPT !.fn = f, !.pc = "called", !.interval = i]
      /\ percents' = NoPercents /\ UNCHANGED <<clock, ticks>>
  BY DEF CpuCall
<1>2. sampling' \in SamplingKind /\ sampling'.pc = "called" /\ sampling'.fn = f
  BY <1>1, NoSampleKind, CpuConstants DEF SamplingKind
<1>3. PercentInRange' /\ PercentIsShare'
  BY <1>1, CpuConstants DEF NoPercents, PercentInRange, PercentIsShare
<1> QED BY <1>1, <1>2, <1>3 DEF CpuInv, SamplingAt

LEMMA CpuReturnsZeroKeeps == ASSUME CpuInv, CpuReturnsZero PROVE CpuInv'
<1> DEFINE f == sampling.fn
           interval == sampling.interval
           failed == interval > 0
<1>1. sampling \in SamplingKind /\ f \in CpuCalls /\ interval \in Int
  BY DEF CpuInv, SamplingKind, CpuReturnsZero, SamplingAt, Asleep
<1>2. f \notin MacCpu
  BY DEF CpuReturnsZero, MacCpu, WindowsCpu
<1>3. /\ sampling' = NoSample /\ UNCHANGED <<clock, ticks>>
      /\ percents' = [NoPercents EXCEPT !.fn = f, !.interval = interval, !.failed = failed]
  BY DEF CpuReturnsZero
<1>4. PercentInRange' /\ PercentIsShare'
  <2>1. failed \in BOOLEAN /\ (~failed => interval <= 0)
    BY <1>1
  <2> HIDE DEF f, interval, failed
  <2> QED BY <1>1, <1>2, <1>3, <2>1, ZerosRight
<1> QED BY <1>3, <1>4, NoSampleKind DEF CpuInv, SamplingAt

LEMMA FirstSampleKeeps ==
  ASSUME CpuInv, NEW ok \in BOOLEAN, FirstSample(ok)
  PROVE  CpuInv'
<1>1. /\ sampling' = [sampling EXCEPT !.pc = "asleep", !.first = Sample(ok),
                                      !.began = clock, !.was = ticks, !.failed = ~ok]
      /\ UNCHANGED <<clock, ticks, percents>>
      /\ sampling.interval > 0 \/ sampling.fn \in MacCpu \cup {"bsd_cpu_times_percent"}
      /\ ok \/ sampling.fn \notin WindowsCpu
  BY DEF FirstSample
<1>2. sampling \in SamplingKind /\ clock \in Nat /\ ticks \in [Counter -> Nat] /\ sampling.fn \in CpuCalls
  BY CpuConstants DEF CpuInv, FirstSample
<1>3. Sample(ok) \in CpuTimesKind
  BY <1>2, TimesTyped DEF Sample, NoTimes, CpuTimesKind
<1>4. /\ sampling' \in SamplingKind /\ sampling'.pc = "asleep" /\ sampling'.fn = sampling.fn
      /\ sampling'.interval = sampling.interval /\ sampling'.first = Sample(ok)
      /\ sampling'.began = clock /\ sampling'.was = ticks /\ (sampling'.failed <=> ~ok)
  BY <1>1, <1>2, <1>3 DEF SamplingKind
<1>5. AllCounted(ticks) = AllCounted(ticks) + Cpus * (clock - clock)
  <2>1. Cpus * (clock - clock) = 0 /\ AllCounted(ticks) \in Nat
    BY <1>2, CpuConstants, CountedNat
  <2> QED BY <2>1
<1>6. \A c \in Counter : ticks[c] <= ticks[c]
  BY <1>2
<1>7. Asleep'
  <2>1. ok => sampling'.first = Times(sampling.was)'
    BY <1>4 DEF Sample, Times
  <2> QED BY <1>1, <1>2, <1>4, <1>5, <1>6, <2>1 DEF Asleep
<1> QED BY <1>1, <1>2, <1>4, <1>7 DEF CpuInv, SamplingAt, PercentInRange, PercentIsShare

\* What was counted between two samples.
Ran(c) == ticks[c] - sampling.was[c]

\* Together that is one tick of each CPU at a time.
LEMMA RanTogether ==
  ASSUME CpuInv, SamplingAt("asleep")
  PROVE  /\ Ran("user") \in Nat /\ Ran("nice") \in Nat /\ Ran("system") \in Nat /\ Ran("idle") \in Nat
         /\ clock - sampling.began \in 0..LastTick
         /\ Ran("user") + Ran("nice") + Ran("system") + Ran("idle") = Cpus * (clock - sampling.began)
<1>1. Asleep /\ ticks \in [Counter -> Nat] /\ sampling \in SamplingKind /\ clock \in 0..LastTick
  BY DEF CpuInv
<1>2. sampling.was \in [Counter -> Nat] /\ sampling.began \in Nat
  BY <1>1 DEF SamplingKind
<1>3. /\ ticks["user"] \in Nat /\ ticks["nice"] \in Nat /\ ticks["system"] \in Nat /\ ticks["idle"] \in Nat
      /\ sampling.was["user"] \in Nat /\ sampling.was["nice"] \in Nat
      /\ sampling.was["system"] \in Nat /\ sampling.was["idle"] \in Nat
  BY <1>1, <1>2, CountedNat
<1>4. /\ sampling.was["user"] <= ticks["user"] /\ sampling.was["nice"] <= ticks["nice"]
      /\ sampling.was["system"] <= ticks["system"] /\ sampling.was["idle"] <= ticks["idle"]
  BY <1>1 DEF Asleep, Counter
<1>5. sampling.began <= clock /\ LastTick \in Nat
  BY <1>1, CpuConstants DEF Asleep
<1>6. clock - sampling.began \in 0..LastTick
  BY <1>1, <1>2, <1>5
<1>7. PICK p \in Int : p = Cpus * (clock - sampling.began)
  BY <1>6, CpuConstants
<1>8. AllCounted(ticks) = AllCounted(sampling.was) + p
  BY <1>1, <1>7 DEF Asleep
<1>10. /\ Ran("user") = ticks["user"] - sampling.was["user"]
       /\ Ran("nice") = ticks["nice"] - sampling.was["nice"]
       /\ Ran("system") = ticks["system"] - sampling.was["system"]
       /\ Ran("idle") = ticks["idle"] - sampling.was["idle"]
  BY DEF Ran
<1>11. Ran("user") + Ran("nice") + Ran("system") + Ran("idle") = p
  <2> DEFINE ran == [c \in Counter |-> Ran(c)]
  <2>1. ran \in [Counter -> Nat] /\ \A c \in Counter : ticks[c] = sampling.was[c] + ran[c]
    BY <1>3, <1>4, <1>10 DEF Counter
  <2>2. AllCounted(ticks) = AllCounted(sampling.was) + AllCounted(ran)
    BY <1>2, <2>1, CountedAdds
  <2>3. AllCounted(ran) = Ran("user") + Ran("nice") + Ran("system") + Ran("idle")
    BY DEF AllCounted, Counter
  <2>4. AllCounted(ran) \in Nat /\ AllCounted(sampling.was) \in Nat
    BY <1>2, <2>1, CountedNat
  <2> HIDE DEF ran
  <2> QED BY <1>7, <1>8, <2>2, <2>3, <2>4
<1>12. Ran("user") \in Nat /\ Ran("nice") \in Nat /\ Ran("system") \in Nat /\ Ran("idle") \in Nat
  BY <1>3, <1>4, <1>10
<1> QED BY <1>6, <1>7, <1>11, <1>12

LEMMA ProductGrows ==
  ASSUME NEW a \in Nat, NEW b \in Nat, NEW c \in Nat, a <= b
  PROVE  c * a \in Nat /\ c * a <= c * b
  OBVIOUS

\* A difference of two samples is what was counted, unless a counter of macOS has
\* wrapped, which shows.
LEMMA DifferenceRan ==
  ASSUME CpuInv, SamplingAt("asleep"), ~sampling.failed,
         NEW d, d = Difference(Times(ticks)),
         sampling.fn \in MacCpu => d.user >= 0 /\ d.system >= 0 /\ d.idle >= 0
  PROVE  /\ d.system = Ran("system") /\ d.idle = Ran("idle")
         /\ d.user = IF sampling.fn \in AndroidCpu \cup WindowsCpu THEN Ran("user") + Ran("nice")
                     ELSE Ran("user")
<1>1. /\ Asleep /\ ticks \in [Counter -> Nat] /\ sampling \in SamplingKind
      /\ sampling.was \in [Counter -> Nat]
  BY DEF CpuInv, SamplingKind
<1>2. sampling.first = Times(sampling.was)
  BY <1>1 DEF Asleep
<1>3. /\ d.user = Times(ticks).user - Times(sampling.was).user
      /\ d.system = Times(ticks).system - Times(sampling.was).system
      /\ d.idle = Times(ticks).idle - Times(sampling.was).idle
  BY <1>2 DEF Difference
<1>4. /\ ticks["user"] \in Nat /\ ticks["nice"] \in Nat /\ ticks["system"] \in Nat /\ ticks["idle"] \in Nat
      /\ sampling.was["user"] \in Nat /\ sampling.was["nice"] \in Nat
      /\ sampling.was["system"] \in Nat /\ sampling.was["idle"] \in Nat
  BY <1>1, CountedNat
<1>5. CASE sampling.fn \in MacCpu
  <2>1. sampling.fn \notin AndroidCpu \cup WindowsCpu
    BY <1>5 DEF MacCpu, AndroidCpu, WindowsCpu
  <2>2. /\ d.user = (ticks["user"] % Wrap) - (sampling.was["user"] % Wrap)
        /\ d.system = (ticks["system"] % Wrap) - (sampling.was["system"] % Wrap)
        /\ d.idle = (ticks["idle"] % Wrap) - (sampling.was["idle"] % Wrap)
    BY <1>3, <1>5, <2>1 DEF Times
  <2>3. ASSUME NEW c \in {"user", "system", "idle"},
               (ticks[c] % Wrap) - (sampling.was[c] % Wrap) >= 0
        PROVE  (ticks[c] % Wrap) - (sampling.was[c] % Wrap) = Ran(c)
    <3>1. ticks[c] \in Nat /\ sampling.was[c] \in Nat /\ sampling.was[c] <= ticks[c]
      BY <1>1, <1>4 DEF Asleep, Counter
    <3>2. Ran(c) <= Cpus * (clock - sampling.began)
      <4>1. Ran(c) \in {Ran("user"), Ran("system"), Ran("idle")}
        OBVIOUS
      <4>2. PICK p \in Int : p = Cpus * (clock - sampling.began)
        BY RanTogether, CpuConstants
      <4> QED BY <4>1, <4>2, RanTogether
    <3>3. Cpus * (clock - sampling.began) \in Nat /\ Cpus * (clock - sampling.began) <= Cpus * LastTick
      BY RanTogether, ProductGrows, CpuConstants
    <3>4. ticks[c] - sampling.was[c] < Wrap
      BY <3>1, <3>2, <3>3, CpuConstants DEF Ran
    <3> QED BY <2>3, <3>1, <3>4, RemaindersDiffer, CpuConstants DEF Ran
  <2> QED BY <1>5, <2>1, <2>2, <2>3
<1>6. CASE sampling.fn \notin MacCpu
  BY <1>3, <1>4, <1>6 DEF Times, Ran
<1> QED BY <1>5, <1>6

\* The end of a call whose samples were both read, in numbers: busy ones, those
\* of the answer, and what it is divided by.
AnswerGiven(f, u, n, s, i, slept, interval, d, of) ==
  /\ interval > 0 \/ f \in MacCpu
  /\ f = sampling.fn /\ interval = sampling.interval
  /\ d.user = (IF f \in AndroidCpu \cup WindowsCpu THEN u + n ELSE u)
  /\ d.system = s /\ d.idle = i
  /\ u + n + s + i = Cpus * slept
  /\ of = Divisor(d)

AnswerFits(f, s, i, slept, interval, d, of) ==
  LET w == d.user
  IN  /\ Zero(d) => IF f \in MacCpu \cup WindowsCpu THEN w = 0 /\ s = 0 /\ i = 0
                    ELSE w = 0 /\ s = 0
      /\ ~Zero(d) => /\ of > 0
                     /\ IF f \in ByInterval THEN w + s <= Cpus * slept ELSE w + s <= of
      /\ of = CASE f = "linux_cpu_times_percent" -> w + s
                [] f \in MacCpu                  -> w + s + i
                [] f \in ByInterval              -> interval
                [] OTHER                         -> Cpus * slept

LEMMA AnswerInRange ==
  ASSUME CpuInv, NEW f \in CpuCalls, NEW u \in Nat, NEW s \in Nat, NEW i \in Nat, NEW n \in Nat,
         NEW slept \in Nat, NEW interval \in Int, NEW d, NEW of \in Int,
         AnswerGiven(f, u, n, s, i, slept, interval, d, of)
  PROVE  AnswerFits(f, s, i, slept, interval, d, of)
<1> USE DEF AnswerGiven
<1> DEFINE zero == Zero(d)
<1>1. PICK all \in Int : all = Cpus * slept
  BY CpuConstants
<1>2. PICK w \in Nat : w = d.user /\ w <= u + n /\ (f \in AndroidCpu \cup WindowsCpu => w = u + n)
  OBVIOUS
<1>3. zero = \/ f = "linux_cpu_percent" /\ w + s = 0
             \/ f \in BsdCpu \cup {"linux_cpu_times_percent"} /\ w + s <= 0
             \/ f = "android_cpu_percent" /\ w + s < 0
             \/ f \in MacCpu /\ (w + s) + i = 0
             \/ f \in WindowsCpu /\ (w + s) + i <= 0
  BY <1>2 DEF Zero
<1>4. of = IF f \in ByInterval THEN interval
           ELSE w + s + (IF f = "linux_cpu_times_percent" THEN 0 ELSE i)
  BY <1>2 DEF Divisor
<1> HIDE DEF zero
<1> DEFINE Goal == /\ zero => IF f \in MacCpu \cup WindowsCpu THEN w = 0 /\ s = 0 /\ i = 0
                              ELSE w = 0 /\ s = 0
                   /\ ~zero => /\ of > 0
                               /\ IF f \in ByInterval THEN w + s <= all ELSE w + s <= of
                   /\ of = CASE f = "linux_cpu_times_percent" -> w + s
                             [] f \in MacCpu                  -> w + s + i
                             [] f \in ByInterval              -> interval
                             [] OTHER                         -> all
<1>5. u + n + s + i = all
  BY <1>1
<1>6. CASE f \in MacCpu
  <2>1. f \notin ByInterval \cup WindowsCpu \cup BsdCpu \cup LinuxCpu \cup AndroidCpu
    BY <1>6 DEF MacCpu, WindowsCpu, BsdCpu, AndroidCpu, LinuxCpu, ByInterval
  <2>2. f \notin {"linux_cpu_percent", "linux_cpu_times_percent", "android_cpu_percent"}
    BY <2>1 DEF LinuxCpu, AndroidCpu
  <2>3. (zero <=> (w + s) + i = 0) /\ of = (w + s) + i
    BY <1>3, <1>4, <1>6, <2>1, <2>2
  <2>4. Goal
    BY <1>2, <1>6, <2>1, <2>2, <2>3
  <2> QED BY <1>1, <1>2, <2>4 DEF AnswerFits, zero
<1>7. CASE f \in WindowsCpu
  <2>1. f \notin ByInterval \cup MacCpu \cup BsdCpu \cup LinuxCpu \cup AndroidCpu
    BY <1>7 DEF MacCpu, WindowsCpu, BsdCpu, AndroidCpu, LinuxCpu, ByInterval
  <2>2. f \notin {"linux_cpu_percent", "linux_cpu_times_percent", "android_cpu_percent"}
    BY <2>1 DEF LinuxCpu, AndroidCpu
  <2>3. (zero <=> (w + s) + i <= 0) /\ of = (w + s) + i /\ of = all
    BY <1>2, <1>3, <1>4, <1>5, <1>7, <2>1, <2>2
  <2>4. Goal
    BY <1>2, <1>7, <2>1, <2>2, <2>3
  <2> QED BY <1>1, <1>2, <2>4 DEF AnswerFits, zero
<1>8. CASE f = "linux_cpu_times_percent"
  <2>1. f \notin ByInterval \cup MacCpu \cup BsdCpu \cup WindowsCpu \cup AndroidCpu
    BY <1>8 DEF MacCpu, WindowsCpu, BsdCpu, AndroidCpu, ByInterval
  <2>2. (zero <=> w + s <= 0) /\ of = w + s
    BY <1>2, <1>3, <1>4, <1>8, <2>1
  <2>3. Goal
    BY <1>2, <1>8, <2>1, <2>2
  <2> QED BY <1>1, <1>2, <2>3 DEF AnswerFits, zero
<1>9. CASE f \in ByInterval
  <2>1. f \notin MacCpu \cup WindowsCpu /\ f # "linux_cpu_times_percent"
    BY <1>9 DEF MacCpu, WindowsCpu, BsdCpu, AndroidCpu, ByInterval
  <2>2. (zero => w + s <= 0) /\ of = interval /\ interval > 0
    BY <1>2, <1>3, <1>4, <1>9, <2>1
  <2>3. w + s <= all
    BY <1>2, <1>5
  <2>4. Goal
    BY <1>2, <1>9, <2>1, <2>2, <2>3
  <2> QED BY <1>1, <1>2, <2>4 DEF AnswerFits, zero
<1> QED BY <1>6, <1>7, <1>8, <1>9
        DEF CpuCalls, MacCpu, WindowsCpu, BsdCpu, AndroidCpu, LinuxCpu, ByInterval

LEMMA EqualProducts ==
  ASSUME NEW a \in Int, NEW b \in Int, NEW x \in Int, NEW y \in Int, a = x, b = y
  PROVE  a * b = x * y /\ 0 * b = 0 /\ (0 + 0) * b = 0 /\ 0 = 0 * 1
  OBVIOUS

\* What a call answers when both samples were read.
LEMMA AnswerRight ==
  ASSUME CpuInv, SecondSample(TRUE), ~sampling.failed
  PROVE  PercentInRange' /\ PercentIsShare'
<1> DEFINE d == Difference(Times(ticks))
           f == sampling.fn
           interval == sampling.interval
           slept == clock - sampling.began
           r == [c \in Counter |-> Ran(c)]
           zero == Zero(d)
           of == Divisor(d)
<1>1. /\ SamplingAt("asleep") /\ f \in CpuCalls /\ interval \in Int
      /\ interval > 0 \/ f \in MacCpu \cup {"bsd_cpu_times_percent"}
  BY DEF SecondSample, CpuInv, Asleep, SamplingKind
<1>2. /\ percents'.fn = f /\ percents'.interval = interval /\ percents'.slept = slept
      /\ percents'.user = (IF zero THEN 0 ELSE d.user)
      /\ percents'.system = (IF zero THEN 0 ELSE d.system)
      /\ percents'.of = (IF zero THEN 1 ELSE of)
      /\ percents'.ran = r
      /\ (\E c \in DOMAIN d : d[c] < 0) => percents'.wrapped
  BY DEF SecondSample, Sample, Ran
<1>3. r.user = Ran("user") /\ r.nice = Ran("nice") /\ r.system = Ran("system") /\ r.idle = Ran("idle")
  BY DEF Counter
<1>4. zero \in BOOLEAN
  BY DEF Zero
<1>5. CASE f \in MacCpu /\ \E c \in DOMAIN d : d[c] < 0
  BY <1>2, <1>5 DEF PercentInRange, PercentIsShare
<1>6. CASE f = "bsd_cpu_times_percent" /\ interval <= 0
  BY <1>2, <1>6 DEF PercentInRange, PercentIsShare, MacCpu
<1>7. CASE (f \in MacCpu => \A c \in DOMAIN d : ~(d[c] < 0)) /\ (interval > 0 \/ f \in MacCpu)
  <2>1. f \in MacCpu => d.user >= 0 /\ d.system >= 0 /\ d.idle >= 0
    <3>1. Times(ticks) \in CpuTimesKind /\ sampling.first \in CpuTimesKind
      BY TimesTyped DEF CpuInv, SamplingKind
    <3>2. d.user \in Int /\ d.system \in Int /\ d.idle \in Int
      BY <3>1 DEF Difference, CpuTimesKind
    <3>3. "user" \in DOMAIN d /\ "system" \in DOMAIN d /\ "idle" \in DOMAIN d
      BY DEF Difference
    <3> HIDE DEF d
    <3> QED BY <1>7, <3>2, <3>3
  <2>2. /\ d.system = Ran("system") /\ d.idle = Ran("idle")
        /\ d.user = IF f \in AndroidCpu \cup WindowsCpu THEN Ran("user") + Ran("nice") ELSE Ran("user")
    BY <1>1, <2>1, DifferenceRan
  <2>3. /\ Ran("user") \in Nat /\ Ran("nice") \in Nat /\ Ran("system") \in Nat /\ Ran("idle") \in Nat
        /\ slept \in Nat
        /\ Ran("user") + Ran("nice") + Ran("system") + Ran("idle") = Cpus * slept
    BY <1>1, RanTogether, CpuConstants
  <2> PICK u \in Nat, n \in Nat, s \in Nat, i \in Nat :
        u = Ran("user") /\ n = Ran("nice") /\ s = Ran("system") /\ i = Ran("idle")
    BY <2>3
  <2>4. PICK w \in Nat : w = d.user /\ w = IF f \in AndroidCpu \cup WindowsCpu THEN u + n ELSE u
    BY <2>2
  <2>5. of \in Int
    <3>1. d.user \in Int /\ d.system \in Int /\ d.idle \in Int
      BY <2>2, <2>4
    <3> HIDE DEF d
    <3> QED BY <1>1, <3>1 DEF Divisor
  <2>6. PICK z \in BOOLEAN, q \in Int, all \in Int : z = zero /\ q = of /\ all = Cpus * slept
    BY <1>4, <2>3, <2>5, CpuConstants
  <2>7. /\ z => w = 0 /\ s = 0 /\ (f \in MacCpu \cup WindowsCpu => i = 0)
        /\ ~z => q > 0 /\ (IF f \in ByInterval THEN w + s <= all ELSE w + s <= q)
        /\ q = CASE f = "linux_cpu_times_percent" -> w + s
                 [] f \in MacCpu                  -> w + s + i
                 [] f \in ByInterval              -> interval
                 [] OTHER                         -> all
    <3>1. u + n + s + i = Cpus * slept
      BY <2>3
    <3>2. d.user = IF f \in AndroidCpu \cup WindowsCpu THEN u + n ELSE u
      BY <2>2
    <3>3. d.system = s /\ d.idle = i
      BY <2>2
    <3>4. (z <=> Zero(d)) /\ q = Divisor(d)
      BY <2>6
    <3> HIDE DEF d
    <3>5. AnswerFits(f, s, i, slept, interval, d, q)
      <4>1. f \in CpuCalls /\ interval \in Int /\ slept \in Nat /\ (interval > 0 \/ f \in MacCpu)
        BY <1>1, <1>7, <2>3
      <4>2. q \in Int
        BY <2>6
      <4>3. AnswerGiven(f, u, n, s, i, slept, interval, d, q)
        BY <1>7, <3>1, <3>2, <3>3, <3>4 DEF AnswerGiven
      <4> HIDE DEF f, interval, slept
      <4> QED BY <4>1, <4>2, <4>3, AnswerInRange
    <3> QED BY <2>4, <2>6, <3>4, <3>5 DEF AnswerFits
  <2> HIDE DEF d, f, interval, slept, r, zero, of
  <2>8. PercentInRange'
    <3>1. CASE z
      <4>1. /\ percents'.user = 0 /\ percents'.system = 0 /\ percents'.of = 1
        BY <1>2, <2>6, <3>1
      <4>2. 0 <= all
        BY <2>3, <2>6
      <4> QED BY <1>2, <2>6, <4>1, <4>2 DEF PercentInRange
    <3>2. CASE ~z
      <4>1. /\ percents'.user = w /\ percents'.system = s /\ percents'.of = q
        BY <1>2, <2>2, <2>4, <2>6, <3>2
      <4> QED BY <1>2, <2>6, <2>7, <3>2, <4>1 DEF PercentInRange
    <3> QED BY <3>1, <3>2
  <2>9. PercentIsShare'
    <3>1. PICK nice \in Nat : nice = IF f \in AndroidCpu \cup WindowsCpu THEN n ELSE 0
      OBVIOUS
    <3>2. PICK used \in Nat : used = u + s + nice
      OBVIOUS
    <3>3. used = w + s
      BY <2>4, <3>1, <3>2
    <3>4. PICK whole \in Int :
            whole = CASE f = "linux_cpu_times_percent" -> used
                      [] f \in MacCpu                  -> used + i
                      [] f \in ByInterval              -> slept
                      [] OTHER                         -> all
      BY <2>3
    <3>5. percents'.ran.user = u /\ percents'.ran.nice = n /\ percents'.ran.system = s
          /\ percents'.ran.idle = i
      BY <1>2, <1>3, <2>6
    <3>6. CASE f \in ByInterval /\ slept # interval
      BY <1>2, <3>6 DEF PercentIsShare
    <3>7. CASE ~(f \in ByInterval /\ slept # interval)
      <4>1. (percents'.user + percents'.system) * whole = used * percents'.of
            /\ percents'.system * whole = s * percents'.of
        <5>1. CASE z
          <6>1. percents'.user = 0 /\ percents'.system = 0 /\ percents'.of = 1
            BY <1>2, <2>6, <5>1
          <6>2. used = 0 /\ s = 0
            BY <2>7, <3>3, <5>1
          <6> QED BY <6>1, <6>2, EqualProducts
        <5>2. CASE ~z
          <6>1. percents'.user = w /\ percents'.system = s /\ percents'.of = q
            BY <1>2, <2>2, <2>4, <2>6, <5>2
          <6>2. whole = q
            <7>1. f \in ByInterval => slept = interval
              BY <3>7
            <7> QED BY <2>7, <3>3, <3>4, <7>1
          <6> QED BY <3>3, <6>1, <6>2, EqualProducts
        <5> QED BY <5>1, <5>2
      <4> QED BY <1>2, <2>6, <3>1, <3>2, <3>4, <3>5, <4>1 DEF PercentIsShare
    <3> QED BY <3>6, <3>7
  <2> QED BY <2>8, <2>9
<1> QED BY <1>1, <1>5, <1>6, <1>7

LEMMA SecondSampleKeeps ==
  ASSUME CpuInv, NEW ok \in BOOLEAN, SecondSample(ok)
  PROVE  CpuInv'
<1>1. /\ sampling' = NoSample /\ UNCHANGED <<clock, ticks>> /\ sampling \in SamplingKind /\ Asleep
      /\ percents'.fn = sampling.fn /\ percents'.failed = (sampling.failed \/ ~ok)
      /\ sampling.fn \in WindowsCpu => ok
  BY DEF SecondSample, CpuInv
<1>2. CASE sampling.failed \/ ~ok
  <2>1. percents'.failed /\ percents'.fn \notin WindowsCpu
    BY <1>1, <1>2 DEF Asleep
  <2> QED BY <1>1, <2>1, NoSampleKind DEF CpuInv, SamplingAt, PercentInRange, PercentIsShare
<1>3. CASE ~sampling.failed /\ ok
  <2>1. SecondSample(TRUE)
    BY <1>3
  <2>2. PercentInRange' /\ PercentIsShare'
    BY <1>3, <2>1, AnswerRight
  <2> QED BY <1>1, <2>2, NoSampleKind DEF CpuInv, SamplingAt
<1> QED BY <1>2, <1>3

LEMMA CpuInvInit == CpuInit => CpuInv
<1> SUFFICES ASSUME CpuInit PROVE CpuInv
  OBVIOUS
<1>1. clock \in 0..LastTick /\ ticks \in [Counter -> Nat]
  BY CpuConstants DEF CpuInit
<1>2. sampling \in SamplingKind /\ SamplingAt("idle")
  BY NoSampleKind DEF CpuInit, SamplingAt, NoSample
<1>3. PercentInRange /\ PercentIsShare
  BY DEF CpuInit, NoPercents, PercentInRange, PercentIsShare, MacCpu, ByInterval, AndroidCpu, BsdCpu
<1> QED BY <1>1, <1>2, <1>3 DEF CpuInv, SamplingAt

LEMMA CpuInvStep == CpuInv /\ [CpuNext]_cpuVars => CpuInv'
<1> SUFFICES ASSUME CpuInv, [CpuNext]_cpuVars PROVE CpuInv'
  OBVIOUS
<1>1. CASE UNCHANGED cpuVars
  <2>1. UNCHANGED <<clock, ticks, sampling, percents>>
    BY <1>1 DEF cpuVars
  <2>2. Asleep => Asleep'
    BY <2>1 DEF Asleep, AllCounted, Times
  <2>3. PercentInRange' /\ PercentIsShare'
    BY <2>1 DEF CpuInv, PercentInRange, PercentIsShare
  <2> QED BY <2>1, <2>2, <2>3 DEF CpuInv, SamplingAt
<1>2. CASE \E f \in CpuCalls, i \in Intervals : CpuCall(f, i)
  BY <1>2, CpuCallKeeps
<1>3. CASE \E ok \in BOOLEAN : FirstSample(ok) \/ SecondSample(ok)
  BY <1>3, FirstSampleKeeps, SecondSampleKeeps
<1> QED BY <1>1, <1>2, <1>3, TickKeeps, CpuReturnsZeroKeeps DEF CpuNext

LEMMA CpuInvHolds == Spec => []CpuInv
<1>1. Init => CpuInv
  BY CpuInvInit DEF Init
<1>2. CpuInv /\ [Next]_vars => CpuInv'
  BY PartSteps, CpuInvStep
<1> QED BY <1>1, <1>2, PTL DEF Spec

\* For any number of CPUs and any interval: no percentage divides by zero, none
\* is negative, and none is more than all, where the code does not let it.
THEOREM PercentsInRange == Spec => []PercentInRange
<1>1. CpuInv => PercentInRange
  BY DEF CpuInv
<1> QED BY <1>1, CpuInvHolds, PTL

\* Every percentage is the share of time for which the CPUs have run something,
\* although the counters of macOS wrap.
THEOREM PercentsAreShares == Spec => []PercentIsShare
<1>1. CpuInv => PercentIsShare
  BY DEF CpuInv
<1> QED BY <1>1, CpuInvHolds, PTL
==============================================================================
