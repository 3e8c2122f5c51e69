-------------------------- MODULE OtherLists_proofs --------------------------
(***************************************************************************)
(* Theorems about OtherLists, for every finite set of entries, every       *)
(* filter, every assignment of connections to tables and every size.       *)
(***************************************************************************)
EXTENDS OtherLists, FiniteSetTheorems, TLAPS

-----------------------------------------------------------------------------
(***************************************************************************)
(* Sequences and finite sets.                                              *)
(***************************************************************************)

\* Appending one element to a sequence.
LEMMA Appended ==
  ASSUME NEW S, NEW s \in Seq(S), NEW x \in S
  PROVE  /\ Append(s, x) \in Seq(S)
         /\ Len(Append(s, x)) = Len(s) + 1
         /\ DOMAIN Append(s, x) = DOMAIN s \cup {Len(s) + 1}
         /\ \A i \in DOMAIN s : Append(s, x)[i] = s[i]
         /\ Append(s, x)[Len(s) + 1] = x
  OBVIOUS

LEMMA EmptySequence ==
  ASSUME NEW S
  PROVE  <<>> \in Seq(S) /\ Len(<<>>) = 0 /\ DOMAIN <<>> = {}
  OBVIOUS

LEMMA IndexOfSequence ==
  ASSUME NEW S, NEW s \in Seq(S)
  PROVE  DOMAIN s = 1..Len(s) /\ Len(s) \in Nat
  OBVIOUS

\* What a list names after one more element.
LEMMA IdsAppended ==
  ASSUME NEW s \in Seq(Cell), NEW x \in Cell
  PROVE  Ids(Append(s, x)) = Ids(s) \cup ({x.id} \ {0})
<1> DEFINE t == Append(s, x)
<1>1. /\ DOMAIN t = DOMAIN s \cup {Len(s) + 1}
      /\ \A i \in DOMAIN s : t[i] = s[i]
      /\ t[Len(s) + 1] = x
  BY Appended
<1> HIDE DEF t
<1>2. {t[i].id : i \in DOMAIN t} = {s[i].id : i \in DOMAIN s} \cup {x.id}
  <2>1. ASSUME NEW i \in DOMAIN t PROVE t[i].id \in {s[j].id : j \in DOMAIN s} \cup {x.id}
    BY <1>1
  <2>2. ASSUME NEW i \in DOMAIN s PROVE s[i].id \in {t[j].id : j \in DOMAIN t}
    BY <1>1
  <2>3. x.id \in {t[j].id : j \in DOMAIN t}
    BY <1>1
  <2> QED BY <2>1, <2>2, <2>3
<1> QED BY <1>2 DEF Ids, t

LEMMA EmptyIds == Ids(<<>>) = {}
  BY EmptySequence DEF Ids

\* Sets of entries are finite, and their sizes natural numbers.
LEMMA FiniteEntries ==
  ASSUME NEW S \in SUBSET Entry
  PROVE  IsFiniteSet(S) /\ Cardinality(S) \in Nat
<1>1. IsFiniteSet(Entry)
  BY ListStepsAssumption
<1>2. IsFiniteSet(S)
  BY <1>1, FS_Subset
<1> QED BY <1>2, FS_CardinalityType

LEMMA FewerEntries ==
  ASSUME NEW S \in SUBSET Entry, NEW T \in SUBSET S
  PROVE  /\ Cardinality(T) <= Cardinality(S)
         /\ Cardinality(T) = Cardinality(S) => T = S
<1>1. IsFiniteSet(S)
  BY FiniteEntries
<1> QED BY <1>1, FS_Subset

LEMMA OneMoreEntry ==
  ASSUME NEW S \in SUBSET Entry, NEW e \in Entry
  PROVE  Cardinality(S \cup {e}) = IF e \in S THEN Cardinality(S) ELSE Cardinality(S) + 1
<1>1. IsFiniteSet(S)
  BY FiniteEntries
<1> QED BY <1>1, FS_AddElement

\* A set of entries that is not empty has a greatest one.
LEMMA GreatestEntry ==
  ASSUME NEW S \in SUBSET Entry, S # {}
  PROVE  Max(S) \in S /\ \A x \in S : Max(S) >= x
<1> DEFINE HasMax(T) == \E m \in T : \A x \in T : m >= x
           Bad == {T \in FiniteSubsetsOf(S) : T # {} /\ ~HasMax(T)}
<1>0. S \subseteq Nat /\ IsFiniteSet(S)
  BY FiniteEntries, ListStepsAssumption
<1>1. ASSUME Bad # {} PROVE FALSE
  <2>1. IsWellFoundedOn(StrictSubsetOrdering(S), FiniteSubsetsOf(S))
    BY FS_StrictSubsetOrderingWellFounded
  <2>2. PICK T \in Bad : \A U \in Bad : ~(<<U, T>> \in StrictSubsetOrdering(S))
    <3>1. Bad \subseteq FiniteSubsetsOf(S)
      OBVIOUS
    <3> HIDE DEF Bad
    <3> QED BY <1>1, <2>1, <3>1, WFMin
  <2>3. T \subseteq S /\ IsFiniteSet(T) /\ T # {} /\ ~HasMax(T)
    BY <2>2 DEF FiniteSubsetsOf
  <2>4. PICK e \in T : TRUE
    BY <2>3
  <2> DEFINE U == T \ {e}
  <2>5. U \subseteq S /\ IsFiniteSet(U) /\ U \subseteq T /\ U # T
    BY <2>3, <2>4, FS_Subset
  <2>6. <<U, T>> \in StrictSubsetOrdering(S)
    BY <2>3, <2>5 DEF StrictSubsetOrdering
  <2>7. U = {} \/ HasMax(U)
    BY <2>2, <2>5, <2>6 DEF FiniteSubsetsOf
  <2>8. CASE U = {}
    <3>1. T = {e} /\ e \in Nat
      BY <1>0, <2>3, <2>4, <2>8
    <3> QED BY <2>3, <3>1
  <2>9. CASE HasMax(U)
    <3> PICK m \in U : \A x \in U : m >= x
      BY <2>9
    <3>1. m \in Nat /\ e \in Nat /\ m \in T /\ T = U \cup {e}
      BY <1>0, <2>3, <2>4
    <3>2. CASE m >= e
      BY <2>3, <3>1, <3>2
    <3>3. CASE e > m
      <4>1. \A x \in T : e >= x
        <5>1. ASSUME NEW x \in U PROVE e >= x
          <6>1. m >= x /\ x \in Nat
            BY <1>0, <2>5
          <6> QED BY <3>1, <3>3, <6>1
        <5> QED BY <3>1, <5>1
      <4> QED BY <2>3, <2>4, <4>1
    <3> QED BY <3>1, <3>2, <3>3
  <2> QED BY <2>7, <2>8, <2>9
<1>2. S \in FiniteSubsetsOf(S)
  BY <1>0 DEF FiniteSubsetsOf
<1>3. HasMax(S)
  BY <1>1, <1>2
<1> QED BY <1>3 DEF Max

\* A set of entries as a list: each once.
LEMMA InSomeOrder ==
  ASSUME NEW S \in SUBSET Entry
  PROVE  /\ SetToSeq(S) \in Seq(S)
         /\ Len(SetToSeq(S)) = Cardinality(S)
         /\ \A i, j \in 1..Len(SetToSeq(S)) : i # j => SetToSeq(S)[i] # SetToSeq(S)[j]
         /\ \A e \in S : \E i \in 1..Len(SetToSeq(S)) : SetToSeq(S)[i] = e
<1> DEFINE n == Cardinality(S)
           f == SetToSeq(S)
<1>1. IsFiniteSet(S) /\ n \in Nat
  BY FiniteEntries
<1>2. \E m \in Nat : ExistsBijection(1..m, S)
  BY <1>1, FS_NatBijection
<1>3. ExistsBijection(1..n, S)
  <2> PICK m \in Nat : ExistsBijection(1..m, S)
    BY <1>2
  <2>1. Cardinality(S) = m
    BY FS_CountingElements
  <2> QED BY <2>1
<1>4. \E g \in [1..n -> S] : IsInjective(g)
  BY <1>3 DEF ExistsBijection, Bijection, Injection
<1>5. f \in [1..n -> S] /\ IsInjective(f)
  BY <1>4 DEF SetToSeq
<1> HIDE DEF f
<1>6. f \in Seq(S) /\ Len(f) = n
  BY <1>1, <1>5
<1>7. \A i, j \in 1..n : i # j => f[i] # f[j]
  BY <1>5 DEF IsInjective
<1>8. \A e \in S : \E i \in 1..n : f[i] = e
  <2> DEFINE T == {f[i] : i \in 1..n}
  <2>1. T \subseteq S
    BY <1>5
  <2>2. f \in [1..n -> T]
    BY <1>5
  <2>3. f \in Bijection(1..n, T)
    BY <1>7, <2>2 DEF Bijection, Injection, Surjection, IsInjective
  <2>4. ExistsBijection(1..n, T)
    BY <2>3 DEF ExistsBijection
  <2> HIDE DEF T
  <2>5. Cardinality(T) = n
    BY <1>1, <2>4, FS_CountingElements
  <2>6. T = S
    BY <1>1, <2>1, <2>5, FS_Subset
  <2> QED BY <2>6 DEF T
<1> QED BY <1>6, <1>7, <1>8 DEF f

-----------------------------------------------------------------------------
(***************************************************************************)
(* The invariant, and what a step has to do: keep it, and be a step of     *)
(* Listing or none.                                                        *)
(***************************************************************************)
Answered == Len(answer.list) <= answer.room /\ NoneTwice /\ LengthIsWritten /\ HalfHasReason

Inv ==
  /\ TypeOK /\ Begun /\ Known /\ Fits /\ Distinct /\ Listed /\ HalfExcused
  /\ OnePerEntry /\ OnePerIndex /\ CountedEnough /\ InTables /\ Answered

Onward == Inv' /\ [Promise!Next]_Promise!vars

\* An answer that may be given in this state.
Answerable(list, count, room) ==
  /\ list \in Seq(Cell) /\ count \in Nat /\ room \in Nat
  /\ Len(list) <= room
  /\ \A i, j \in DOMAIN list : i < j /\ list[i].id # 0 => list[i].id # list[j].id
  /\ count # Len(list) =>
       \/ call.fn = "bsd_users" /\ count > Len(list) /\ seen.ever \ seen.since # {}
       \/ call.fn = "macos_net_if_stats" /\ count > Len(list) /\ seen.ever \ Wanted # {}
       \/ call.fn = "windows_num_threads" /\ list = <<>>
  /\ \A i \in DOMAIN list : Excused(call.fn, list[i])
  /\ Ids(list) \subseteq seen.ever \cap call.wants
  /\ \/ Promise!Owed \subseteq Ids(list)
     \/ call.fn \in TwoPass /\ Ids(list) \ seen.since # {}

LEMMA IdleTyped == Idle \in Call
<1> DEFINE none == <<>>
<1>1. none \in Seq(Cell)
  BY EmptySequence
<1>2. Idle = [fn |-> "none", pc |-> "idle", kind |-> "none", wants |-> {}, size |-> 0,
              buffer |-> {}, cursor |-> 0, counted |-> 0, room |-> 0, cells |-> none]
  BY DEF Idle
<1>3. "none" \in Named /\ {} \in SUBSET Entry /\ 0 \in Nat
  BY DEF Named
<1> HIDE DEF none
<1> QED BY <1>1, <1>2, <1>3 DEF Call

LEMMA IdleFields ==
  /\ Idle.pc = "idle" /\ Idle.fn = "none" /\ Idle.wants = {} /\ Idle.buffer = {}
  /\ Idle.cursor = 0 /\ Idle.counted = 0 /\ Idle.room = 0 /\ Idle.cells = <<>>
  BY DEF Idle

\* Between two calls only the answer matters.
LEMMA IdleKeeps ==
  ASSUME TypeOK', call' = Idle, Answered'
  PROVE  Inv'
<1>1. call'.pc = "idle" /\ call'.fn = "none" /\ call'.cells = <<>> /\ call'.room = 0
  BY IdleFields
<1>2. ~Busy' /\ DOMAIN call'.cells = {} /\ Len(call'.cells) = 0 /\ Ids(call'.cells) = {}
  BY <1>1, EmptySequence, EmptyIds DEF Busy
<1>3. Begun' /\ Known' /\ Fits'
  BY <1>1, <1>2 DEF Begun, Known, Fits
<1>4. Distinct' /\ Listed' /\ HalfExcused'
  BY <1>1, <1>2 DEF Distinct, Listed, HalfExcused
<1>5. OnePerEntry' /\ OnePerIndex' /\ CountedEnough' /\ InTables'
  BY <1>1, <1>2 DEF OnePerEntry, OnePerIndex, CountedEnough, InTables
<1> QED BY <1>3, <1>4, <1>5 DEF Inv

LEMMA FirmOrNot ==
  /\ (call.wants)' \in SUBSET Entry <=> call'.wants \in SUBSET Entry
  /\ (call.fn \notin TwoPass) \in BOOLEAN /\ (call.fn \notin TwoPass)' \in BOOLEAN
  OBVIOUS

\* A call ends without an answer.
LEMMA EndsWithNull ==
  ASSUME Inv, Busy, NEW frees, ReturnsNull(frees),
         seen' \in [since : SUBSET Entry, ever : SUBSET Entry, refused : SUBSET Entry, starved : BOOLEAN],
         seen'.since = seen.since, seen'.ever = seen.ever, seen'.refused = seen.refused,
         seen'.starved = TRUE \/ Promise!Owed = {}
  PROVE  Onward
<1>t. TypeOK
  BY DEF Inv
<1>1. /\ answer'.null = TRUE /\ answer'.list = <<>> /\ answer'.room = 0 /\ answer'.count = 0
      /\ answer' \in [fn : Named, null : BOOLEAN, list : Seq(Cell), count : Nat, room : Nat]
  <2>1. <<>> \in Seq(Cell) /\ call.fn \in Named
    BY <1>t, EmptySequence DEF TypeOK, Call
  <2> QED BY <2>1 DEF ReturnsNull, NoAnswer
<1>2. call' = Idle /\ there' = there
  BY <1>t DEF ReturnsNull, TypeOK
<1>3. TypeOK'
  BY <1>t, <1>1, <1>2, IdleTyped DEF TypeOK
<1>4. Answered'
  BY <1>1, EmptySequence DEF Answered, NoneTwice, LengthIsWritten, HalfHasReason
<1>5. (call.pc # "idle") = TRUE /\ (call.pc # "idle")' = FALSE
  BY <1>2, IdleFields DEF Busy
<1>6. [null |-> answer'.null, ids |-> Ids(answer'.list)] = Promise!Null
  BY <1>1, EmptyIds DEF Promise!Null
<1>7. Promise!AnyFunction
  BY <1>2, IdleFields, FirmOrNot DEF Promise!AnyFunction
<1>8. Promise!Fail
  BY <1>2, <1>5, <1>6, <1>7 DEF Promise!Fail
<1> QED BY <1>2, <1>3, <1>4, <1>8, IdleKeeps DEF Onward, Promise!Next

\* A call ends with an answer.
LEMMA EndsWithAnswer ==
  ASSUME Inv, Busy, NEW list, NEW count, NEW room, NEW frees,
         Gives(list, count, room, frees), Answerable(list, count, room)
  PROVE  Onward
<1>t. TypeOK
  BY DEF Inv
<1>1. /\ answer'.null = FALSE /\ answer'.list = list /\ answer'.room = room
      /\ answer'.count = count /\ answer'.fn = call.fn
      /\ answer' \in [fn : Named, null : BOOLEAN, list : Seq(Cell), count : Nat, room : Nat]
  BY <1>t DEF Gives, Answerable, TypeOK, Call
<1>2. call' = Idle /\ there' = there /\ seen' = seen
  BY <1>t DEF Gives, TypeOK
<1>3. TypeOK'
  BY <1>t, <1>1, <1>2, IdleTyped DEF TypeOK
<1>4. Answered'
  <2>1. Len(answer'.list) <= answer'.room /\ NoneTwice'
    BY <1>1 DEF Answerable, NoneTwice
  <2>2. LengthIsWritten'
    BY <1>1, <1>2 DEF Answerable, LengthIsWritten
  <2>3. HalfHasReason'
    BY <1>1, <1>2 DEF Answerable, HalfHasReason, Excused
  <2> QED BY <2>1, <2>2, <2>3 DEF Answered
<1>5. (call.pc # "idle") = TRUE /\ (call.pc # "idle")' = FALSE
  BY <1>2, IdleFields DEF Busy
<1>6. [null |-> answer'.null, ids |-> Ids(answer'.list)] = [null |-> FALSE, ids |-> Ids(list)]
  BY <1>1
<1>7. Promise!AnyFunction
  BY <1>2, IdleFields, FirmOrNot DEF Promise!AnyFunction
<1>8. \E s \in SUBSET (seen.ever \cap call.wants) :
        /\ Promise!Owed \subseteq s \/ (~(call.fn \notin TwoPass) /\ s \ seen.since # {})
        /\ [null |-> answer'.null, ids |-> Ids(answer'.list)] = [null |-> FALSE, ids |-> s]
  BY <1>6 DEF Answerable
<1>9. Promise!Finish
  BY <1>2, <1>5, <1>7, <1>8 DEF Promise!Finish
<1> QED BY <1>2, <1>3, <1>4, <1>9, IdleKeeps DEF Onward, Promise!Next

\* A call begins.
LEMMA Starts ==
  ASSUME Inv, NEW f, NEW wants \in SUBSET Entry, NEW kind \in Kinds \cup {"none"}, Enters(f, wants, kind),
         f \in Everything => wants = Entry,
         f = "macos_net_if_stats" => wants = Wanted,
         f \in Connecting => wants = {e \in Entry : \E k \in DOMAIN TablesOf(f) :
                               Table[e] \in TablesOf(f)[k] /\ IsAsked(kind, TablesOf(f)[k])}
  PROVE  Onward
<1>t. TypeOK /\ f \in Named
  BY DEF Inv, Enters, Named
<1>1. /\ call' \in Call
      /\ call'.fn = f /\ call'.pc = "called" /\ call'.wants = wants /\ call'.kind = kind
      /\ call'.buffer = {} /\ call'.cursor = 0 /\ call'.counted = 0 /\ call'.room = 0
      /\ call'.cells = <<>>
  <2>1. call' = [Idle EXCEPT !.fn = f, !.pc = "called", !.wants = wants, !.kind = kind]
    BY DEF Enters
  <2> QED BY <1>t, <2>1, IdleTyped, IdleFields DEF Call
<1>2. /\ there' = there /\ held' = {} /\ answer' = NoAnswer
      /\ seen'.since = there /\ seen'.ever = there /\ seen'.refused = {} /\ seen'.starved = FALSE
      /\ seen' \in [since : SUBSET Entry, ever : SUBSET Entry, refused : SUBSET Entry, starved : BOOLEAN]
  BY <1>t DEF Enters, Fresh, TypeOK
<1>3. NoAnswer.null = TRUE /\ NoAnswer.list = <<>> /\ NoAnswer.room = 0 /\ NoAnswer.count = 0
      /\ NoAnswer \in [fn : Named, null : BOOLEAN, list : Seq(Cell), count : Nat, room : Nat]
  <2> DEFINE none == <<>>
  <2>1. none \in Seq(Cell)
    BY EmptySequence
  <2>2. NoAnswer = [fn |-> "none", null |-> TRUE, list |-> none, count |-> 0, room |-> 0]
    BY DEF NoAnswer
  <2>3. none = <<>> /\ "none" \in Named /\ TRUE \in BOOLEAN /\ 0 \in Nat
    BY DEF Named
  <2> HIDE DEF none
  <2>4. NoAnswer \in [fn : Named, null : BOOLEAN, list : Seq(Cell), count : Nat, room : Nat]
    BY <2>1, <2>2, <2>3
  <2> QED BY <2>2, <2>3, <2>4
<1>4. TypeOK'
  BY <1>t, <1>1, <1>2, <1>3 DEF TypeOK
<1>5. Answered'
  BY <1>2, <1>3, EmptySequence DEF Answered, NoneTwice, LengthIsWritten, HalfHasReason
<1>6. DOMAIN call'.cells = {} /\ Len(call'.cells) = 0 /\ Ids(call'.cells) = {} /\ Busy'
  BY <1>1, EmptySequence, EmptyIds DEF Busy
<1>7. Begun' /\ Known' /\ Fits'
  BY <1>1, <1>2, <1>6 DEF Begun, Known, Fits
<1>8. Distinct' /\ Listed' /\ HalfExcused'
  BY <1>1, <1>6 DEF Distinct, Listed, HalfExcused
<1>9. OnePerEntry' /\ OnePerIndex'
  BY <1>1, <1>6 DEF OnePerEntry, OnePerIndex
<1>9a. CountedEnough'
  BY <1>1, <1>6 DEF CountedEnough
<1>10. InTables'
  BY <1>1, <1>6 DEF InTables
<1>11. Promise!Start
  <2>1. (call.pc # "idle") = FALSE /\ (call.pc # "idle")' = TRUE
    BY <1>1 DEF Enters
  <2>2. [null |-> answer'.null, ids |-> Ids(answer'.list)] = Promise!Null
    BY <1>2, <1>3, EmptyIds DEF Promise!Null
  <2>3. Promise!AnyFunction
    BY <1>1, FirmOrNot DEF Promise!AnyFunction
  <2> QED BY <1>2, <2>1, <2>2, <2>3 DEF Promise!Start
<1> QED BY <1>4, <1>5, <1>7, <1>8, <1>9, <1>9a, <1>10, <1>11 DEF Onward, Inv, Promise!Next

\* The source changes.
LEMMA ChangeKeeps == ASSUME Inv, Change PROVE Onward
<1>t. TypeOK /\ Known
  BY DEF Inv
<1>1. /\ call' = call /\ answer' = answer /\ held' = held
      /\ there' \in SUBSET Entry
      /\ seen' \in [since : SUBSET Entry, ever : SUBSET Entry, refused : SUBSET Entry, starved : BOOLEAN]
      /\ seen'.since = seen.since \cap there' /\ seen'.refused = seen.refused
      /\ seen'.starved = seen.starved
      /\ seen'.ever = IF Busy THEN seen.ever \cup there' ELSE seen.ever
  BY <1>t DEF Change, TypeOK, Busy
<1>2. seen'.since \subseteq seen.since /\ seen.ever \subseteq seen'.ever
  BY <1>1
<1>3. TypeOK'
  BY <1>t, <1>1 DEF TypeOK
<1>4. Begun'
  BY <1>1 DEF Inv, Begun, Busy
<1>5. Known' /\ Fits' /\ Distinct'
  <2>1. Known'
    BY <1>1, <1>2 DEF Inv, Known, Busy
  <2> QED BY <1>1, <2>1 DEF Inv, Fits, Distinct
<1>6. Listed'
  BY <1>1, <1>2 DEF Inv, Listed, Behind
<1>7. HalfExcused'
  BY <1>1, <1>2 DEF Inv, HalfExcused, Excused
<1>8. OnePerEntry'
  BY <1>1 DEF Inv, OnePerEntry, Behind
<1>9. OnePerIndex'
  BY <1>1, <1>2 DEF Inv, OnePerIndex
<1>10. CountedEnough'
  <2>1. Foreseen' \in SUBSET Foreseen /\ Foreseen \in SUBSET Entry
    BY <1>t, <1>1 DEF Foreseen, TypeOK
  <2>2. call.fn \in TwoPass /\ call.pc \in {"count", "fill", "look"} =>
          Cardinality(Foreseen') <= call.counted
    <3> DEFINE F == Foreseen
               G == Foreseen'
    <3>1. Cardinality(G) \in Nat /\ Cardinality(F) \in Nat /\ Cardinality(G) <= Cardinality(F)
      BY <2>1, FiniteEntries, FewerEntries
    <3>2. call.fn \in TwoPass /\ call.pc \in {"count", "fill", "look"} =>
            Cardinality(F) <= call.counted /\ call.counted \in Nat
      BY <1>t DEF Inv, CountedEnough, TypeOK, Call
    <3> HIDE DEF F, G
    <3>3. call.fn \in TwoPass /\ call.pc \in {"count", "fill", "look"} => Cardinality(G) <= call.counted
      BY <3>1, <3>2
    <3> QED BY <3>3 DEF G
  <2>3. ASSUME call.pc \in {"count", "fill"}, seen'.ever \subseteq seen'.since
        PROVE  seen.ever \subseteq seen.since /\ Foreseen' = Foreseen
    <3>1. Busy /\ seen.since \subseteq seen.ever
      BY <1>t, <2>3 DEF Known, Busy
    <3>2. seen'.since = seen.since /\ seen.ever \subseteq seen.since
      BY <1>2, <2>3, <3>1
    <3> QED BY <1>1, <3>2 DEF Foreseen
  <2> QED BY <1>1, <2>2, <2>3 DEF Inv, CountedEnough
<1>11. InTables'
  BY <1>1, <1>2 DEF Inv, InTables, Busy
<1>12. Answered'
  <2>1. NoneTwice' /\ Len(answer'.list) <= answer'.room
    BY <1>1 DEF Inv, Answered, NoneTwice
  <2>2. LengthIsWritten'
    BY <1>1, <1>2 DEF Inv, Answered, LengthIsWritten
  <2>3. HalfHasReason'
    BY <1>1, <1>2 DEF Inv, Answered, HalfHasReason
  <2> QED BY <2>1, <2>2, <2>3 DEF Answered
<1>13. Promise!Change
  BY <1>1 DEF Change, Promise!Change, Busy
<1> QED
  BY <1>3, <1>4, <1>5, <1>6, <1>7, <1>8, <1>9, <1>10, <1>11, <1>12, <1>13
  DEF Onward, Inv, Promise!Next

\* A step of a call that neither begins nor ends it.
Amid ==
  /\ Busy /\ call'.pc # "idle" /\ call' \in Call
  /\ call'.fn = call.fn /\ call'.kind = call.kind /\ call'.wants = call.wants
  /\ there' = there /\ answer' = answer
  /\ seen' \in [since : SUBSET Entry, ever : SUBSET Entry, refused : SUBSET Entry, starved : BOOLEAN]
  /\ seen'.since = seen.since /\ seen'.ever = seen.ever /\ seen'.starved = seen.starved
  /\ seen.refused \subseteq seen'.refused

\* Such a step is none of Listing, but for what the system refuses.
LEMMA AmidPromised ==
  ASSUME TypeOK, Amid
  PROVE  [Promise!Next]_Promise!vars
<1>1. /\ (call.pc # "idle")' = (call.pc # "idle") /\ (call.fn \notin TwoPass)' = (call.fn \notin TwoPass)
      /\ (call.pc # "idle") = TRUE
  BY DEF Amid, Busy
<1>2. CASE seen'.refused = seen.refused
  BY <1>1, <1>2 DEF Amid, Promise!vars
<1>3. CASE seen'.refused # seen.refused
  <2>1. seen'.refused \in SUBSET Entry /\ seen'.refused = seen.refused \cup seen'.refused
    BY DEF Amid
  <2>2. Promise!Refuse
    BY <1>1, <2>1 DEF Amid, Promise!Refuse
  <2> QED BY <2>2 DEF Promise!Next
<1> QED BY <1>2, <1>3

\* The answer is not touched, and what was so of it is so still.
LEMMA AmidAnswered ==
  ASSUME Inv, Amid
  PROVE  TypeOK' /\ Answered'
<1>1. TypeOK'
  BY DEF Inv, Amid, TypeOK
<1>2. answer'.null = TRUE /\ answer'.list = <<>> /\ answer'.room = 0
  BY DEF Inv, Amid, Begun, NoAnswer
<1> QED BY <1>1, <1>2, EmptySequence DEF Answered, NoneTwice, LengthIsWritten, HalfHasReason

\* What a step in the middle has to show.
LEMMA AmidOnward ==
  ASSUME Inv, Amid, Begun', Known', Fits', Distinct', Listed', HalfExcused', OnePerEntry',
         OnePerIndex', CountedEnough', InTables'
  PROVE  Onward
  BY AmidPromised, AmidAnswered DEF Inv, Onward

-----------------------------------------------------------------------------
(***************************************************************************)
(* Before the first element.                                               *)
(***************************************************************************)

\* The size is told, or a picture is taken.
LEMMA Early ==
  ASSUME Inv, Amid, call.pc \in {"called", "sized"}, call'.pc \in {"sized", "pictured"},
         call'.cursor = call.cursor, call'.counted = call.counted, call'.room = call.room,
         call'.cells = call.cells,
         call'.pc = "sized" => call'.buffer = {},
         call'.pc = "pictured" =>
           /\ call'.buffer \subseteq seen.ever
           /\ seen.since \subseteq call'.buffer \cup seen'.refused
           /\ IF call.fn = "windows_pids" THEN Cardinality(call'.buffer) <= MaxPids
              ELSE seen.since \subseteq call'.buffer
  PROVE  Onward
<1>1. /\ call.cells = <<>> /\ call.room = 0 /\ call.cursor = 0 /\ call.counted = 0
      /\ DOMAIN call'.cells = {} /\ Len(call'.cells) = 0 /\ Ids(call'.cells) = {}
      /\ Busy /\ Busy'
  BY EmptySequence, EmptyIds DEF Inv, Begun, Busy, Amid
<1>2. Begun' /\ Fits'
  BY <1>1 DEF Inv, Begun, Fits, Amid
<1>3. Known'
  BY <1>1 DEF Inv, Known, Amid
<1>4. Distinct' /\ Listed' /\ HalfExcused'
  BY <1>1 DEF Distinct, Listed, HalfExcused
<1>5. OnePerEntry' /\ OnePerIndex' /\ CountedEnough'
  BY <1>1 DEF OnePerEntry, OnePerIndex, CountedEnough
<1>6. InTables'
  BY <1>1 DEF Inv, InTables, Amid
<1> QED BY <1>2, <1>3, <1>4, <1>5, <1>6, AmidOnward

LEMMA SizesOnward == ASSUME Inv, NEW f, NEW gets, Sizes(f, gets) PROVE Onward
<1>1. TypeOK /\ call.pc = "called" /\ Busy
  BY DEF Inv, Sizes, At, Busy
<1>2. PICK n \in Cardinality(there)..Cardinality(Entry) :
        call' = [call EXCEPT !.pc = "sized", !.size = n]
  BY DEF Sizes
<1>3. n \in Nat
  <2>1. Cardinality(there) \in Nat /\ Cardinality(Entry) \in Nat
    BY <1>1, FiniteEntries DEF TypeOK
  <2> QED BY <2>1
<1>4. /\ call' \in Call /\ call'.pc = "sized"
      /\ call'.fn = call.fn /\ call'.kind = call.kind /\ call'.wants = call.wants
      /\ call'.cursor = call.cursor /\ call'.counted = call.counted /\ call'.room = call.room
      /\ call'.cells = call.cells /\ call'.buffer = call.buffer
  BY <1>1, <1>2, <1>3 DEF TypeOK, Call
<1>5. there' = there /\ answer' = answer /\ seen' = seen
  BY DEF Sizes
<1>6. Amid
  BY <1>1, <1>4, <1>5 DEF Amid, TypeOK
<1>7. call'.buffer = {}
  BY <1>1, <1>4 DEF Inv, Begun
<1> QED BY <1>1, <1>4, <1>6, <1>7, Early

LEMMA PictureOnward ==
  ASSUME Inv, call.pc \in {"called", "sized"}, call.fn # "windows_pids",
         call' = [call EXCEPT !.pc = "pictured", !.buffer = there],
         UNCHANGED <<there, answer, seen>>
  PROVE  Onward
<1>1. TypeOK /\ Busy
  BY DEF Inv, Busy
<1>2. /\ call' \in Call /\ call'.pc = "pictured" /\ call'.buffer = there
      /\ call'.fn = call.fn /\ call'.kind = call.kind /\ call'.wants = call.wants
      /\ call'.cursor = call.cursor /\ call'.counted = call.counted /\ call'.room = call.room
      /\ call'.cells = call.cells
  BY <1>1 DEF TypeOK, Call
<1>3. Amid
  BY <1>1, <1>2 DEF Amid, TypeOK
<1>4. there \subseteq seen.ever /\ seen.since \subseteq there
  BY <1>1 DEF Inv, Known
<1> QED BY <1>2, <1>3, <1>4, Early

LEMMA PicturesOnward ==
  ASSUME Inv, NEW f, NEW gets, Pictures(f, gets), f # "windows_pids"
  PROVE  Onward
  BY PictureOnward DEF Pictures, At

LEMMA FetchesOnward ==
  ASSUME Inv, NEW f, Fetches(f), f # "windows_pids"
  PROVE  Onward
  BY PictureOnward DEF Fetches, At

\* Nothing is behind a cursor that has not moved.
LEMMA NothingBehind ==
  ASSUME TypeOK
  PROVE  \A e \in Entry : ~(e <= 0) /\ e # 0 /\ e \in Nat
<1> SUFFICES ASSUME NEW e \in Entry PROVE ~(e <= 0) /\ e # 0 /\ e \in Nat
  OBVIOUS
<1>1. e \in Nat /\ e # 0
  BY ListStepsAssumption
<1> QED BY <1>1

LEMMA NothingCounted ==
  ASSUME NEW S \in SUBSET Entry
  PROVE  {e \in S : e <= 0} = {} /\ Cardinality({e \in S : e <= 0}) = 0
<1>1. \A e \in Entry : ~(e <= 0)
  <2>1. ASSUME NEW e \in Entry PROVE ~(e <= 0)
    <3>1. e \in Nat /\ e # 0
      BY ListStepsAssumption
    <3> QED BY <3>1
  <2> QED BY <2>1
<1>2. {e \in S : e <= 0} = {}
  BY <1>1
<1> QED BY <1>2, FS_EmptySet

\* Collecting begins: nothing has been read yet.
LEMMA CollectingBegins ==
  ASSUME Inv, Amid, call.pc \in {"called", "pictured"}, call'.pc \in {"fill", "count", "add"},
         call.fn \notin Connecting, call'.cursor = 0, call'.cells = <<>>,
         call'.buffer \subseteq seen.ever,
         call.fn \in Photographed \cup {"windows_disk_partitions"} => seen.since \subseteq call'.buffer,
         call'.pc = "count" => call.fn \in TwoPass /\ call'.counted = 0 /\ call'.room = 0,
         call'.pc = "add" => call.fn \notin TwoPass,
         call'.pc = "fill" =>
           /\ call.fn \notin TwoPass
           /\ IF call.fn \in Growing THEN call'.room > 0 ELSE call'.room = call'.counted
           /\ call.fn \in Photographed => call'.counted = Cardinality(call'.buffer),
         call.fn \in ByIndex /\ call'.pc \in {"fill", "add"} => \A e \in seen.since : e <= call'.counted
  PROVE  Onward
<1>t. TypeOK /\ TypeOK'
  BY AmidAnswered DEF Inv
<1>1. /\ DOMAIN call'.cells = {} /\ Len(call'.cells) = 0 /\ Ids(call'.cells) = {}
      /\ Busy /\ Busy' /\ call'.counted \in Nat /\ call'.room \in Nat
      /\ \A e \in Entry : ~(e <= 0)
  BY <1>t, EmptySequence, EmptyIds, NothingBehind DEF Busy, Amid, Call
<1>2. Begun'
  BY <1>1 DEF Inv, Begun, Amid
<1>3. Known'
  BY <1>1 DEF Inv, Known, Amid
<1>4. Fits'
  <2>1. call'.pc = "fill" /\ call'.fn \notin Growing =>
          /\ Len(call'.cells) <= call'.counted /\ call'.counted <= call'.room
          /\ call'.fn \notin {"android_disk_partitions", "windows_disk_partitions"}
    BY <1>1 DEF Amid, TwoPass
  <2>2. 0 <= call'.room
    BY <1>1
  <2> QED BY <1>1, <2>1, <2>2 DEF Fits, Amid
<1>5. Distinct' /\ HalfExcused'
  BY <1>1 DEF Distinct, HalfExcused
<1>6. Listed'
  BY <1>t, <1>1 DEF Listed, Behind, TypeOK
<1>7. OnePerEntry'
  <2>1. {e \in call'.buffer : Behind(e)'} = {e \in call'.buffer : e <= 0} /\ call'.buffer \in SUBSET Entry
    BY <1>t, <1>1 DEF Behind, TypeOK, Call
  <2>2. Cardinality({e \in call'.buffer : Behind(e)'}) = 0
    BY <2>1, NothingCounted
  <2>3. call'.fn \in Photographed /\ call'.pc \in {"fill", "look"} =>
          call'.counted = Cardinality(call'.buffer)
    BY DEF Amid
  <2> QED BY <1>1, <2>2, <2>3 DEF OnePerEntry
<1>8. OnePerIndex'
  <2>1. call'.pc = "fill" /\ call'.fn \in ByIndex => call'.counted <= call'.room
    BY <1>1 DEF Amid, ByIndex, Growing
  <2> QED BY <1>1, <2>1 DEF OnePerIndex, Amid
<1>9. CountedEnough'
  <2>1. ASSUME call'.pc = "count" PROVE Cardinality(Foreseen') = 0
    <3>1. Foreseen' = {e \in (seen.since \cap call.wants) : e <= 0}
      BY <2>1 DEF Foreseen, Amid
    <3>2. seen.since \cap call.wants \in SUBSET Entry
      BY <1>t DEF TypeOK, Call
    <3> QED BY <3>1, <3>2, NothingCounted
  <2>2. call'.fn \in TwoPass /\ call'.pc \in {"count", "fill", "look"} =>
          Cardinality(Foreseen') <= call'.counted
    BY <2>1 DEF Amid
  <2>3. call'.fn = "bsd_users" => call'.pc = "count"
    BY DEF Amid, TwoPass
  <2>4. call'.fn = "bsd_users" => call'.counted = Cardinality(Foreseen')
    BY <2>1, <2>3
  <2> QED BY <2>2, <2>3, <2>4 DEF CountedEnough
<1>10. InTables'
  BY <1>1 DEF InTables, Amid
<1> QED BY <1>2, <1>3, <1>4, <1>5, <1>6, <1>7, <1>8, <1>9, <1>10, AmidOnward

LEMMA OpensOnward ==
  ASSUME Inv, NEW f, NEW p \in {"fill", "count", "add"}, NEW n \in Nat, NEW gets,
         Opens(f, p, n, gets),
         f \notin Connecting \cup Photographed \cup ByIndex \cup {"windows_disk_partitions"},
         p = "fill" => f \in Growing /\ n > 0,
         p = "count" => f \in TwoPass /\ n = 0,
         p = "add" => f \notin TwoPass
  PROVE  Onward
<1>1. TypeOK /\ Busy /\ call.pc = "called" /\ call.fn = f
  BY DEF Inv, Busy, Opens, At
<1>2. /\ call' \in Call /\ call'.pc = p /\ call'.room = n
      /\ call'.fn = call.fn /\ call'.kind = call.kind /\ call'.wants = call.wants
      /\ call'.cursor = call.cursor /\ call'.counted = call.counted
      /\ call'.cells = call.cells /\ call'.buffer = call.buffer
  BY <1>1 DEF TypeOK, Call, Opens
<1>3. Amid
  BY <1>1, <1>2 DEF Amid, TypeOK, Opens
<1>4. call.cells = <<>> /\ call.cursor = 0 /\ call.counted = 0 /\ call.buffer = {}
  BY <1>1 DEF Inv, Begun
<1>5. f \in Growing => f \notin TwoPass
  BY DEF Growing, TwoPass
<1> QED BY <1>1, <1>2, <1>3, <1>4, <1>5, CollectingBegins

LEMMA PreparesOnward ==
  ASSUME Inv, NEW f \in Photographed, NEW n, NEW gets, PreparesFill(f, n, gets),
         n = Cardinality(call.buffer)
  PROVE  Onward
<1>1. TypeOK /\ Busy /\ call.pc = "pictured" /\ call.fn = f /\ n \in Nat
  <2>1. TypeOK /\ Busy /\ call.pc = "pictured" /\ call.fn = f
    BY DEF Inv, Busy, PreparesFill, At
  <2> QED BY <2>1, FiniteEntries DEF TypeOK, Call
<1>2. /\ call' \in Call /\ call'.pc = "fill" /\ call'.room = n /\ call'.counted = n
      /\ call'.fn = call.fn /\ call'.kind = call.kind /\ call'.wants = call.wants
      /\ call'.cursor = call.cursor
      /\ call'.cells = call.cells /\ call'.buffer = call.buffer
  BY <1>1 DEF TypeOK, Call, PreparesFill
<1>3. Amid
  BY <1>1, <1>2 DEF Amid, TypeOK, PreparesFill
<1>4. call.cells = <<>> /\ call.cursor = 0
  BY <1>1 DEF Inv, Begun
<1>5. call.buffer \subseteq seen.ever /\ seen.since \subseteq call.buffer
  BY <1>1 DEF Inv, Known, Photographed
<1>6. f \notin TwoPass /\ f \notin Connecting /\ f \notin Growing /\ f \notin ByIndex
  BY DEF Photographed, TwoPass, Connecting, Growing, ByIndex
<1> QED BY <1>1, <1>2, <1>3, <1>4, <1>5, <1>6, CollectingBegins

LEMMA IfCountOnward ==
  ASSUME Inv, NEW f \in ByIndex, NEW p, NEW gets, ReadsIfCount(f, p, gets),
         (p = "fill" /\ gets # {}) \/ p = "add"
  PROVE  Onward
<1>1. TypeOK /\ Busy /\ call.pc = "called" /\ call.fn = f /\ there # {}
  BY DEF Inv, Busy, ReadsIfCount, At
<1>2. Max(there) \in there /\ \A x \in there : Max(there) >= x
  BY <1>1, GreatestEntry DEF TypeOK
<1>3. Max(there) \in Nat /\ \A x \in there : x <= Max(there)
  <2>1. there \subseteq Nat
    BY <1>1, ListStepsAssumption DEF TypeOK
  <2> QED BY <1>2, <2>1
<1>4. /\ call' \in Call /\ call'.pc = p /\ call'.counted = Max(there)
      /\ p = "fill" => call'.room = Max(there)
      /\ call'.fn = call.fn /\ call'.kind = call.kind /\ call'.wants = call.wants
      /\ call'.cursor = call.cursor
      /\ call'.cells = call.cells /\ call'.buffer = call.buffer
  BY <1>1, <1>3 DEF TypeOK, Call, ReadsIfCount
<1>5. Amid
  BY <1>1, <1>4 DEF Amid, TypeOK, ReadsIfCount
<1>6. call.cells = <<>> /\ call.cursor = 0 /\ call.buffer = {}
  BY <1>1 DEF Inv, Begun
<1>7. seen.since \subseteq there
  BY <1>1 DEF Inv, Known
<1>8. f \notin TwoPass /\ f \notin Connecting /\ f \notin Growing /\ f \notin Photographed
      /\ f # "windows_disk_partitions"
  BY DEF Photographed, TwoPass, Connecting, Growing, ByIndex
<1> QED BY <1>1, <1>3, <1>4, <1>5, <1>6, <1>7, <1>8, CollectingBegins

\* GetLogicalDrives.
LEMMA DrivesOnward ==
  ASSUME Inv, At("windows_disk_partitions", "called"),
         call' = [call EXCEPT !.pc = "count", !.buffer = there],
         UNCHANGED <<there, answer, seen>>
  PROVE  Onward
<1>1. TypeOK /\ Busy /\ call.pc = "called" /\ call.fn = "windows_disk_partitions"
  BY DEF Inv, Busy, At
<1>2. /\ call' \in Call /\ call'.pc = "count" /\ call'.buffer = there
      /\ call'.fn = call.fn /\ call'.kind = call.kind /\ call'.wants = call.wants
      /\ call'.cursor = call.cursor /\ call'.counted = call.counted /\ call'.room = call.room
      /\ call'.cells = call.cells
  BY <1>1 DEF TypeOK, Call
<1>3. Amid
  BY <1>1, <1>2 DEF Amid, TypeOK
<1>4. call.cells = <<>> /\ call.cursor = 0 /\ call.counted = 0 /\ call.room = 0
  BY <1>1 DEF Inv, Begun
<1>5. there \subseteq seen.ever /\ seen.since \subseteq there
  BY <1>1 DEF Inv, Known
<1>6. call.fn \in TwoPass /\ call.fn \notin Connecting /\ call.fn \notin ByIndex
  BY <1>1 DEF TwoPass, Connecting, ByIndex
<1> QED BY <1>1, <1>2, <1>3, <1>4, <1>5, <1>6, CollectingBegins

-----------------------------------------------------------------------------
(***************************************************************************)
(* The first of two passes.                                                *)
(***************************************************************************)

\* The next entry leaves nothing of the source unread before it.
LEMMA NoneBetween ==
  ASSUME TypeOK, NEW source \in SUBSET Entry, NEW e \in source, IsNext(source, e)
  PROVE  /\ e \in Nat /\ e > call.cursor /\ call.cursor \in Nat
         /\ \A x \in source : x <= e => x <= call.cursor \/ x = e
<1>1. source \subseteq Nat /\ call.cursor \in Nat
  BY ListStepsAssumption DEF TypeOK, Call
<1>2. e > call.cursor
  BY DEF IsNext, Unread
<1>3. ASSUME NEW x \in source, x <= e PROVE x <= call.cursor \/ x = e
  <2>1. x \in Nat /\ e \in Nat
    BY <1>1
  <2>2. CASE x > call.cursor
    <3>1. e <= x
      BY <2>2 DEF IsNext, Unread
    <3> QED BY <1>3, <2>1, <3>1
  <2> QED BY <1>1, <2>1, <2>2
<1> QED BY <1>1, <1>2, <1>3

\* A source that is read to the end.
LEMMA AllBehind ==
  ASSUME TypeOK, NEW source \in SUBSET Entry, Unread(source) = {}
  PROVE  \A x \in source : x <= call.cursor
<1>1. source \subseteq Nat /\ call.cursor \in Nat
  BY ListStepsAssumption DEF TypeOK, Call
<1> QED BY <1>1 DEF Unread

LEMMA CountsOnward ==
  ASSUME Inv, NEW f \in TwoPass, NEW source \in SUBSET Entry, NEW kept, Counts(f, source, kept),
         seen.since \subseteq source, seen.since \cap call.wants \subseteq kept,
         f = "bsd_users" => source = there /\ kept = call.wants
  PROVE  Onward
<1>1. TypeOK /\ Busy /\ call.pc = "count" /\ call.fn = f
  BY DEF Inv, Busy, Counts, At
<1>2. PICK e \in source : IsNext(source, e) /\
        call' = [call EXCEPT !.cursor = e, !.counted = IF e \in kept THEN @ + 1 ELSE @]
  BY DEF Counts
<1>3. e \in Nat /\ \A x \in source : x <= e => x <= call.cursor \/ x = e
  BY <1>1, <1>2, NoneBetween
<1>4. /\ call' \in Call /\ call'.pc = "count" /\ call'.cursor = e
      /\ call'.counted = IF e \in kept THEN call.counted + 1 ELSE call.counted
      /\ call'.fn = call.fn /\ call'.kind = call.kind /\ call'.wants = call.wants
      /\ call'.cells = call.cells /\ call'.buffer = call.buffer /\ call'.room = call.room
      /\ call.counted \in Nat
  <2> DEFINE n == IF e \in kept THEN call.counted + 1 ELSE call.counted
  <2>1. call \in Call /\ call.counted \in Nat
    BY <1>1 DEF TypeOK, Call
  <2>2. n \in Nat
    BY <2>1
  <2>3. call' = [call EXCEPT !.cursor = e, !.counted = n]
    BY <1>2, <2>1 DEF Call
  <2> HIDE DEF n
  <2>4. /\ call' \in Call /\ call'.pc = "count" /\ call'.cursor = e /\ call'.counted = n
        /\ call'.fn = call.fn /\ call'.kind = call.kind /\ call'.wants = call.wants
        /\ call'.cells = call.cells /\ call'.buffer = call.buffer /\ call'.room = call.room
    BY <1>1, <1>3, <2>1, <2>2, <2>3 DEF Call
  <2> QED BY <2>1, <2>4 DEF n
<1>5. Amid /\ seen' = seen
  BY <1>1, <1>4 DEF Amid, TypeOK, Counts
<1>6. /\ DOMAIN call'.cells = {} /\ Len(call'.cells) = 0 /\ Ids(call'.cells) = {} /\ Busy'
      /\ call'.cells = <<>> /\ call'.room = 0
  BY <1>1, <1>4, EmptySequence, EmptyIds DEF Inv, Begun, Busy
<1>7. Begun'
  BY <1>1, <1>4, <1>5, <1>6 DEF Inv, Begun, Amid
<1>8. Known'
  BY <1>1, <1>4, <1>5, <1>6 DEF Inv, Known, Amid
<1>9. Fits' /\ Distinct' /\ Listed' /\ HalfExcused'
  BY <1>4, <1>6 DEF Fits, Distinct, Listed, HalfExcused
<1>10. OnePerEntry' /\ OnePerIndex'
  BY <1>4 DEF OnePerEntry, OnePerIndex
<1>11. InTables'
  BY <1>1, <1>4, <1>6 DEF Inv, InTables
<1>12. CountedEnough'
  <2> DEFINE F == Foreseen
             G == Foreseen'
  <2>1. F \in SUBSET Entry /\ G \in SUBSET Entry /\ e \in Entry
    BY <1>1, <1>5 DEF Foreseen, TypeOK
  <2>2. F = {x \in seen.since \cap call.wants : x <= call.cursor}
    BY <1>1 DEF Foreseen
  <2>3. G = {x \in seen.since \cap call.wants : x <= e}
    BY <1>4, <1>5 DEF Foreseen
  <2>4. G \subseteq F \cup {e} /\ (e \in G => e \in kept)
    BY <1>3, <2>2, <2>3
  <2>5. Cardinality(F) \in Nat /\ Cardinality(G) \in Nat /\ Cardinality(F \cup {e}) \in Nat
        /\ Cardinality(F \cup {e}) <= Cardinality(F) + 1
    BY <2>1, FiniteEntries, OneMoreEntry
  <2>6. Cardinality(F) <= call.counted
    BY <1>1 DEF Inv, CountedEnough
  <2> HIDE DEF F, G
  <2>7. Cardinality(G) <= call'.counted
    <3>1. CASE e \in kept
      <4>1. Cardinality(G) <= Cardinality(F \cup {e})
        BY <2>1, <2>4, FewerEntries
      <4> QED BY <1>4, <2>5, <2>6, <3>1, <4>1
    <3>2. CASE e \notin kept
      <4>1. Cardinality(G) <= Cardinality(F)
        BY <2>1, <2>4, <3>2, FewerEntries
      <4> QED BY <1>4, <2>5, <2>6, <3>2, <4>1
    <3> QED BY <3>1, <3>2
  <2>8. ASSUME f = "bsd_users", seen.ever \subseteq seen.since PROVE call'.counted = Cardinality(G)
    <3>1. call.counted = Cardinality(F)
      BY <1>1, <2>8 DEF Inv, CountedEnough, F
    <3>2. there = seen.since /\ source = there /\ kept = call.wants
      BY <1>1, <2>8 DEF Inv, Known
    <3>3. e \in seen.since /\ e > call.cursor /\ call.cursor \in Nat
      BY <1>1, <1>2, <3>2, NoneBetween
    <3>4. e \notin F
      BY <1>3, <2>2, <3>3
    <3>5. \A x \in F : x <= e
      <4>1. F \subseteq Nat
        BY <2>1, ListStepsAssumption
      <4> QED BY <1>3, <2>2, <3>3, <4>1
    <3>6. CASE e \in kept
      <4>1. e <= e
        BY <1>3
      <4>2. G = F \cup {e}
        BY <2>2, <2>3, <2>4, <3>2, <3>3, <3>5, <3>6, <4>1
      <4> QED BY <1>4, <2>1, <3>1, <3>4, <3>6, <4>2, OneMoreEntry
    <3>7. CASE e \notin kept
      <4>1. G = F
        BY <2>2, <2>3, <2>4, <3>2, <3>5, <3>7
      <4> QED BY <1>4, <3>1, <3>7, <4>1
    <3> QED BY <3>6, <3>7
  <2> QED BY <1>1, <1>4, <1>5, <2>7, <2>8 DEF CountedEnough, G
<1> QED BY <1>5, <1>7, <1>8, <1>9, <1>10, <1>11, <1>12, AmidOnward

LEMMA MakesArrayOnward ==
  ASSUME Inv, NEW f \in TwoPass, NEW source \in SUBSET Entry, NEW extra \in Nat,
         MakesArray(f, source, extra), seen.since \subseteq source,
         f \in {"android_disk_partitions", "windows_disk_partitions"} => extra > 0
  PROVE  Onward
<1>1. TypeOK /\ Busy /\ call.pc = "count" /\ call.fn = f /\ Unread(source) = {}
  BY DEF Inv, Busy, MakesArray, At
<1>2. /\ call' \in Call /\ call'.pc = "fill" /\ call'.cursor = 0
      /\ call'.counted = call.counted /\ call'.room = call.counted + extra
      /\ call'.fn = call.fn /\ call'.kind = call.kind /\ call'.wants = call.wants
      /\ call'.cells = call.cells /\ call'.buffer = call.buffer
      /\ call.counted \in Nat
  <2> DEFINE n == call.counted + extra
  <2>1. call \in Call /\ call.counted \in Nat /\ n \in Nat
    BY <1>1 DEF TypeOK, Call
  <2>2. call' = [call EXCEPT !.pc = "fill", !.cursor = 0, !.room = n]
    BY DEF MakesArray
  <2> HIDE DEF n
  <2>3. /\ call' \in Call /\ call'.pc = "fill" /\ call'.cursor = 0 /\ call'.room = n
        /\ call'.counted = call.counted
        /\ call'.fn = call.fn /\ call'.kind = call.kind /\ call'.wants = call.wants
        /\ call'.cells = call.cells /\ call'.buffer = call.buffer
    BY <2>1, <2>2 DEF Call
  <2> QED BY <2>1, <2>3 DEF n
<1>3. Amid /\ seen' = seen
  BY <1>1, <1>2 DEF Amid, TypeOK, MakesArray
<1>4. /\ DOMAIN call'.cells = {} /\ Len(call'.cells) = 0 /\ Ids(call'.cells) = {} /\ Busy'
      /\ call'.cells = <<>>
  BY <1>1, <1>2, EmptySequence, EmptyIds DEF Inv, Begun, Busy
<1>5. Begun'
  BY <1>1, <1>2, <1>3, <1>4 DEF Inv, Begun, Amid
<1>6. Known'
  BY <1>1, <1>2, <1>3, <1>4 DEF Inv, Known, Amid
<1>f. f \notin Growing /\ f \notin ByIndex /\ f \notin Photographed /\ f \notin Connecting
  BY DEF TwoPass, Growing, ByIndex, Photographed, Connecting
<1>7. Fits'
  <2>1. call.counted <= call.counted + extra /\ 0 <= call.counted + extra /\ 0 <= call.counted
        /\ (f \in {"android_disk_partitions", "windows_disk_partitions"} =>
              call.counted < call.counted + extra)
    BY <1>2
  <2> QED BY <1>1, <1>2, <1>4, <1>f, <2>1 DEF Fits
<1>8. Distinct' /\ HalfExcused'
  BY <1>2, <1>4 DEF Distinct, HalfExcused
<1>9. Listed'
  BY <1>1, <1>2, <1>3, <1>4, NothingBehind DEF Listed, Behind, TypeOK
<1>10. OnePerEntry' /\ OnePerIndex' /\ InTables'
  BY <1>1, <1>2, <1>f DEF OnePerEntry, OnePerIndex, InTables
<1>11. CountedEnough'
  <2>1. \A x \in source : x <= call.cursor
    BY <1>1, AllBehind
  <2>2. Foreseen' = Foreseen
    BY <1>1, <1>2, <1>3, <2>1 DEF Foreseen
  <2>3. Foreseen \in SUBSET Entry
    BY <1>1 DEF Foreseen, TypeOK
  <2>4. {e \in Foreseen : e <= 0} = {} /\ Cardinality({e \in Foreseen : e <= 0}) = 0
    BY <2>3, NothingCounted
  <2> DEFINE F == Foreseen
  <2>5. Foreseen' = F
    BY <2>2
  <2> HIDE DEF F
  <2>6. Cardinality({e \in F : e <= 0}) = 0
    BY <2>4 DEF F
  <2>7. Cardinality(F) <= call.counted
    BY <1>1 DEF Inv, CountedEnough, F
  <2>8. f = "bsd_users" /\ seen.ever \subseteq seen.since => call.counted = Cardinality(F)
    BY <1>1 DEF Inv, CountedEnough, F
  <2> QED BY <1>1, <1>2, <1>3, <1>4, <2>5, <2>6, <2>7, <2>8 DEF CountedEnough
<1> QED BY <1>3, <1>5, <1>6, <1>7, <1>8, <1>9, <1>10, <1>11, AmidOnward

-----------------------------------------------------------------------------
(***************************************************************************)
(* Entry by entry: the cursor goes past the next entry e.                  *)
(***************************************************************************)

LEMMA CellNumbered ==
  ASSUME NEW c \in Cell
  PROVE  c.id \in Nat
<1>1. c.id \in Entry \cup {0}
  BY DEF Cell
<1>2. \A x \in Entry \cup {0} : x \in Nat
  BY ListStepsAssumption
<1> HIDE DEF Cell
<1> QED BY <1>1, <1>2

\* The entry is not stored, or not yet.
LEMMA PassedBy ==
  ASSUME Inv, Amid, call.fn \notin Connecting, call.pc \in {"fill", "add"},
         call'.pc = call.pc \/ (call.pc = "fill" /\ call'.pc = "look"),
         NEW e \in Nat, call'.cursor = e, call.cursor < e,
         call'.cells = call.cells, call'.buffer = call.buffer,
         call'.pc = "look" => e \in seen.ever \cap call.wants,
         \A x \in seen.since \cap call.wants : x <= e => x <= call.cursor \/ x = e,
         call'.pc # "look" /\ e \in seen.since \cap call.wants => e \in seen'.refused
  PROVE  Begun' /\ Known' /\ Distinct' /\ Listed' /\ HalfExcused' /\ InTables'
<1>1. TypeOK /\ call.cursor \in Nat /\ call.cells \in Seq(Cell)
  BY DEF Inv, TypeOK, Call
<1>2. Begun'
  BY DEF Inv, Begun, Amid, Busy
<1>3. Known'
  BY DEF Inv, Known, Amid, Busy
<1>4. Distinct'
  <2>1. \A i \in DOMAIN call.cells : call.cells[i].id <= e /\ call.cells[i].id < e
    <3>1. ASSUME NEW i \in DOMAIN call.cells PROVE call.cells[i].id <= e /\ call.cells[i].id < e
      <4>1. call.cells[i].id \in Nat
        BY <1>1, CellNumbered
      <4>2. call.cells[i].id <= call.cursor
        BY DEF Inv, Distinct
      <4> QED BY <1>1, <4>1, <4>2
    <3> QED BY <3>1
  <2> QED BY <2>1 DEF Inv, Distinct, Amid
<1>5. Listed'
  <2>1. Ids(call'.cells) \subseteq seen'.ever \cap call'.wants
    BY DEF Inv, Listed, Amid
  <2>2. ASSUME NEW x \in seen.since \cap call.wants, Behind(x)'
        PROVE  x \in seen'.refused \cup Ids(call.cells)
    <3>1. x <= e /\ (call'.pc = "look" => x # e)
      BY <2>2 DEF Behind
    <3>2. CASE x <= call.cursor
      <4>1. Behind(x)
        BY <3>2 DEF Behind
      <4> QED BY <4>1 DEF Inv, Listed, Amid
    <3>3. CASE x = e
      BY <3>1, <3>3
    <3> QED BY <3>1, <3>2, <3>3
  <2> QED BY <2>1, <2>2 DEF Listed, Amid
<1>6. HalfExcused'
  BY DEF Inv, HalfExcused, Excused, Amid
<1>7. InTables'
  BY DEF Inv, InTables, Amid
<1> QED BY <1>2, <1>3, <1>4, <1>5, <1>6, <1>7

\* An element c is stored, for the entry or in its place.
LEMMA WentIn ==
  ASSUME Inv, Amid, call.fn \notin Connecting, call.pc \in {"fill", "look", "add"},
         call'.pc = IF call.pc = "look" THEN "fill" ELSE call.pc,
         NEW e \in Nat, call'.cursor = e,
         IF call.pc = "look" THEN e = call.cursor ELSE call.cursor < e,
         NEW c \in Cell, call'.cells = Append(call.cells, c), call'.buffer = call.buffer,
         c.id = 0 => call.fn = "macos_threads",
         c.id # 0 => c.id = e /\ e \in seen.ever \cap call.wants,
         Excused(call.fn, c)',
         \A x \in seen.since \cap call.wants : x <= e => Behind(x) \/ x = e,
         e \in seen.since \cap call.wants => e \in seen'.refused \/ c.id = e
  PROVE  Begun' /\ Known' /\ Distinct' /\ Listed' /\ HalfExcused' /\ InTables'
<1>1. TypeOK /\ call.cursor \in Nat /\ call.cells \in Seq(Cell)
  BY DEF Inv, TypeOK, Call
<1>2. Begun'
  BY DEF Inv, Begun, Amid, Busy
<1>3. Known'
  BY DEF Inv, Known, Amid, Busy
<1> DEFINE s == call.cells
           t == Append(call.cells, c)
<1>4. /\ DOMAIN t = DOMAIN s \cup {Len(s) + 1}
      /\ \A i \in DOMAIN s : t[i] = s[i]
      /\ t[Len(s) + 1] = c
      /\ Ids(t) = Ids(s) \cup ({c.id} \ {0})
      /\ DOMAIN s = 1..Len(s) /\ Len(s) \in Nat
      /\ call'.cells = t
  BY <1>1, Appended, IdsAppended, IndexOfSequence
<1> HIDE DEF s, t
<1>5. \A i \in DOMAIN s : s[i].id \in Nat /\ s[i].id < e /\ s[i].id <= e
  <2>1. ASSUME NEW i \in DOMAIN s PROVE s[i].id \in Nat /\ s[i].id < e /\ s[i].id <= e
    <3>1. s[i].id \in Nat
      BY <1>1, CellNumbered DEF s
    <3>2. s[i].id <= call.cursor /\ (call.pc = "look" => s[i].id < call.cursor)
      BY DEF Inv, Distinct, s
    <3> QED BY <1>1, <3>1, <3>2
  <2> QED BY <2>1
<1>6. Distinct'
  <2>1. c.id \in Nat /\ c.id <= e
    <3>1. c.id = 0 \/ c.id = e
      OBVIOUS
    <3> QED BY <3>1
  <2>2. \A i \in DOMAIN t : t[i].id = 0 => call.fn = "macos_threads"
    BY <1>4 DEF Inv, Distinct, s
  <2>3. \A i \in DOMAIN t : t[i].id <= e
    BY <1>4, <1>5, <2>1
  <2>4. ASSUME NEW i \in DOMAIN t, NEW j \in DOMAIN t, i < j, t[i].id # 0
        PROVE  t[i].id # t[j].id
    <3>1. CASE j \in DOMAIN s /\ i \in DOMAIN s
      BY <1>4, <2>4, <3>1 DEF Inv, Distinct, s
    <3>2. CASE j = Len(s) + 1 /\ i \in DOMAIN s
      <4>1. t[i].id < e /\ t[i].id \in Nat /\ t[j].id = c.id
        BY <1>4, <1>5, <3>2
      <4>2. c.id = 0 \/ c.id = e
        OBVIOUS
      <4> QED BY <2>4, <4>1, <4>2
    <3>3. CASE i = Len(s) + 1
      <4>1. j <= Len(s) + 1
        BY <1>4
      <4> QED BY <1>4, <2>4, <3>3, <4>1
    <3> QED BY <1>4, <3>1, <3>2, <3>3
  <2> QED BY <1>4, <2>2, <2>3, <2>4 DEF Distinct, Amid
<1>7. Listed'
  <2>1. Ids(t) \subseteq seen.ever \cap call.wants
    BY <1>4 DEF Inv, Listed, s
  <2>2. ASSUME NEW x \in seen.since \cap call.wants, x <= e
        PROVE  x \in seen'.refused \cup Ids(t)
    <3>1. CASE Behind(x)
      <4>1. x \in seen.refused \cup Ids(s)
        BY <3>1 DEF Inv, Listed, s
      <4> QED BY <1>4, <4>1 DEF Amid
    <3>2. CASE x = e
      <4>1. x \in Entry /\ x # 0
        BY <1>1, ListStepsAssumption DEF TypeOK
      <4> QED BY <1>4, <3>2, <4>1
    <3> QED BY <2>2, <3>1, <3>2
  <2> QED BY <1>4, <2>1, <2>2 DEF Listed, Amid, Behind
<1>8. HalfExcused'
  <2> DEFINE Still(x) ==
        \/ x.full
        \/ x.id = 0 /\ call.fn = "macos_threads"
           /\ (seen'.refused # {} \/ seen.ever \ seen.since # {})
        \/ x.id # 0 /\ (x.id \notin seen.since \/ x.id \in seen'.refused)
  <2>1. \A i \in DOMAIN s : Still(s[i])
    BY DEF Inv, HalfExcused, Excused, Amid, s
  <2>2. Still(c)
    BY DEF Excused, Amid
  <2>3. \A i \in DOMAIN t : Still(t[i])
    <3> HIDE DEF Still
    <3> QED BY <1>4, <2>1, <2>2
  <2> QED BY <1>4, <2>3 DEF HalfExcused, Excused, Amid
<1>9. InTables'
  BY DEF Inv, InTables, Amid
<1> QED BY <1>2, <1>3, <1>6, <1>7, <1>8, <1>9

LEMMA MovedFields ==
  ASSUME NEW c \in Call, NEW e \in Nat, NEW d, d = [c EXCEPT !.cursor = e]
  PROVE  /\ d \in Call /\ d.cursor = e
         /\ d.fn = c.fn /\ d.kind = c.kind /\ d.pc = c.pc /\ d.wants = c.wants
         /\ d.buffer = c.buffer /\ d.counted = c.counted /\ d.room = c.room /\ d.cells = c.cells
  BY DEF Call

LEMMA StoredFields ==
  ASSUME NEW c \in Call, NEW x \in Entry \cup {0}, NEW full \in BOOLEAN,
         NEW d, d = Stored(c, x, full)
  PROVE  /\ [id |-> x, full |-> full] \in Cell
         /\ d \in Call /\ d.cells = Append(c.cells, [id |-> x, full |-> full])
         /\ Len(d.cells) = Len(c.cells) + 1
         /\ d.cursor = c.cursor
         /\ d.fn = c.fn /\ d.kind = c.kind /\ d.pc = c.pc /\ d.wants = c.wants
         /\ d.buffer = c.buffer /\ d.counted = c.counted /\ d.room = c.room
<1> DEFINE t == Append(c.cells, [id |-> x, full |-> full])
<1>1. [id |-> x, full |-> full] \in Cell
  BY DEF Cell
<1>2. c.cells \in Seq(Cell)
  BY DEF Call
<1>3. t \in Seq(Cell) /\ Len(t) = Len(c.cells) + 1
  BY <1>1, <1>2, Appended
<1>4. d = [c EXCEPT !.cells = t]
  BY DEF Stored
<1> HIDE DEF t
<1>5. d.cells = t /\ d \in Call /\ d.cursor = c.cursor
      /\ d.fn = c.fn /\ d.kind = c.kind /\ d.pc = c.pc /\ d.wants = c.wants
      /\ d.buffer = c.buffer /\ d.counted = c.counted /\ d.room = c.room
  BY <1>3, <1>4 DEF Call
<1> QED BY <1>1, <1>3, <1>5 DEF t

LEMMA GrownFields ==
  ASSUME NEW c \in Call, c.room > 0, Len(c.cells) <= c.room, NEW d, d = Grown(c)
  PROVE  /\ d \in Call /\ d.room > 0 /\ d.room \in Nat /\ Len(c.cells) + 1 <= d.room
         /\ d.cursor = c.cursor
         /\ d.fn = c.fn /\ d.kind = c.kind /\ d.pc = c.pc /\ d.wants = c.wants
         /\ d.buffer = c.buffer /\ d.counted = c.counted /\ d.cells = c.cells
<1> DEFINE n == IF Len(c.cells) >= c.room THEN 2 * c.room ELSE c.room
<1>1. c.cells \in Seq(Cell) /\ c.room \in Nat /\ Len(c.cells) \in Nat
  BY DEF Call
<1>2. n \in Nat /\ n > 0 /\ Len(c.cells) + 1 <= n
  BY <1>1
<1>3. d = [c EXCEPT !.room = n]
  BY DEF Grown
<1> HIDE DEF n
<1> QED BY <1>2, <1>3 DEF Call

\* Without a second pass, and without a count to keep to, nothing has to be
\* shown of them.
LEMMA CountedStill ==
  ASSUME Inv, Amid, call.pc \in {"fill", "look"}, call'.pc \in {"fill", "look"},
         call'.counted = call.counted,
         call.fn = "bsd_users" /\ seen.ever \subseteq seen.since /\ call'.pc = "fill" =>
           call.pc = "fill" /\
           Len(call'.cells) = Cardinality({x \in seen.since \cap call.wants : x <= call'.cursor})
  PROVE  CountedEnough'
<1> DEFINE F == seen.since \cap call.wants
<1>1. Foreseen = F /\ Foreseen' = F
  BY DEF Foreseen, Amid
<1>2. call.fn \in TwoPass => Cardinality(F) <= call.counted
  BY <1>1 DEF Inv, CountedEnough
<1>3. call.fn = "bsd_users" /\ seen.ever \subseteq seen.since /\ call.pc = "fill" =>
        call.counted = Cardinality(F)
  BY <1>1 DEF Inv, CountedEnough
<1>4. {x \in Foreseen' : x <= call'.cursor} = {x \in F : x <= call'.cursor}
  BY <1>1
<1>5. call.fn = "bsd_users" /\ seen.ever \subseteq seen.since /\ call'.pc = "fill" =>
        Len(call'.cells) = Cardinality({x \in F : x <= call'.cursor})
  OBVIOUS
<1> HIDE DEF F
<1> QED BY <1>1, <1>2, <1>3, <1>4, <1>5 DEF CountedEnough, Amid

\* An array of fixed size has room for one element more.
LEMMA FitsStill ==
  ASSUME Inv, Amid, call.fn \notin Growing, call.pc \in {"fill", "look"}, call'.pc = "fill",
         Len(call.cells) < call.counted, call'.counted = call.counted, call'.room = call.room,
         Len(call'.cells) = Len(call.cells) \/ Len(call'.cells) = Len(call.cells) + 1
  PROVE  Fits'
<1>1. call.counted \in Nat /\ call.room \in Nat /\ Len(call.cells) \in Nat
  BY DEF Inv, TypeOK, Call
<1>2. call.counted <= call.room /\
      (call.fn \in {"android_disk_partitions", "windows_disk_partitions"} => call.counted < call.room)
  BY DEF Inv, Fits
<1>3. Len(call'.cells) <= call.counted /\ Len(call'.cells) <= call.room
  BY <1>1, <1>2
<1> QED BY <1>2, <1>3 DEF Fits, Amid

\* One entry more of the picture is behind the cursor.
LEMMA OneMoreGone ==
  ASSUME Inv, Amid, call.pc \in {"fill", "look"}, call'.pc = "fill",
         call'.buffer = call.buffer, call'.counted = call.counted,
         NEW e, call'.cursor = e, call.fn \in Photographed => e \in call.buffer,
         IF call.pc = "look" THEN e = call.cursor ELSE call.cursor < e,
         Len(call'.cells) = Len(call.cells) \/ Len(call'.cells) = Len(call.cells) + 1,
         call.fn \in Photographed \cap Unfiltered =>
           /\ Len(call'.cells) = Len(call.cells) + 1
           /\ \A x \in call.buffer : x <= e => Behind(x) \/ x = e
  PROVE  OnePerEntry'
<1> SUFFICES ASSUME call.fn \in Photographed PROVE OnePerEntry'
  BY DEF OnePerEntry, Amid
<1> DEFINE G == {x \in call.buffer : Behind(x)}
           H == {x \in call.buffer : x <= e}
<1>1. call.buffer \in SUBSET Entry /\ G \in SUBSET Entry /\ H \in SUBSET Entry /\ e \in Entry
      /\ G \cup {e} \in SUBSET Entry /\ call.cursor \in Nat
  BY DEF Inv, TypeOK, Call
<1>2. call.buffer \subseteq Nat /\ e \in Nat
  BY <1>1, ListStepsAssumption
<1>3. e \notin G
  BY <1>1, <1>2 DEF Behind
<1>4. G \cup {e} \subseteq H
  <2>1. ASSUME NEW x \in G PROVE x <= e
    <3>1. x <= call.cursor /\ x \in Nat
      BY <1>2 DEF Behind
    <3> QED BY <1>1, <1>2, <3>1
  <2>2. e <= e /\ e \in call.buffer
    BY <1>2
  <2> QED BY <2>1, <2>2
<1>5. call.fn \in Unfiltered => H = G \cup {e}
  BY <1>4
<1>6. {x \in call'.buffer : Behind(x)'} = H
  BY DEF Behind
<1>7. call.counted = Cardinality(call.buffer) /\ Len(call.cells) <= Cardinality(G)
      /\ (call.fn \in Unfiltered => Len(call.cells) = Cardinality(G))
  BY DEF Inv, OnePerEntry
<1> HIDE DEF G, H
<1>8. Cardinality(G \cup {e}) = Cardinality(G) + 1 /\ Cardinality(G) \in Nat /\ Cardinality(H) \in Nat
  BY <1>1, <1>3, OneMoreEntry, FiniteEntries
<1>9. Cardinality(G) + 1 <= Cardinality(H)
  BY <1>1, <1>4, <1>8, FewerEntries
<1>10. Len(call.cells) \in Nat
  BY DEF Inv, TypeOK, Call
<1>11. Len(call'.cells) <= Cardinality(H)
  BY <1>7, <1>8, <1>9, <1>10
<1>12. call.fn \in Unfiltered => Len(call'.cells) = Cardinality(H)
  BY <1>5, <1>7, <1>8
<1> QED BY <1>6, <1>7, <1>11, <1>12 DEF OnePerEntry, Amid

\* Into an array that grows.
LEMMA TakesOnward == ASSUME Inv, NEW f \in Growing, Takes(f) PROVE Onward
<1>1. TypeOK /\ Busy /\ call.pc = "fill" /\ call.fn = f /\ call \in Call
  BY DEF Inv, TypeOK, Busy, Takes, At
<1>2. PICK e \in there : IsNext(there, e) /\
        LET c == [call EXCEPT !.cursor = e]
        IN  call' = IF e \in call.wants THEN Stored(Grown(c), e, TRUE) ELSE c
  BY DEF Takes
<1>3. /\ e \in Nat /\ e > call.cursor /\ call.cursor \in Nat /\ e \in Entry
      /\ \A x \in there : x <= e => x <= call.cursor \/ x = e
  BY <1>1, <1>2, NoneBetween DEF TypeOK
<1>4. there' = there /\ answer' = answer /\ seen' = seen
  BY DEF Takes
<1>5. f \notin Connecting /\ f \notin Photographed /\ f \notin ByIndex /\ f \notin TwoPass
  BY DEF Growing, Connecting, Photographed, ByIndex, TwoPass
<1>6. call.room > 0 /\ Len(call.cells) <= call.room /\ call.room \in Nat
  BY <1>1 DEF Inv, Fits, Call
<1>7. seen.since \subseteq there /\ there \subseteq seen.ever
  BY <1>1 DEF Inv, Known
<1>8. \A x \in seen.since \cap call.wants : x <= e => Behind(x) \/ x = e
  BY <1>1, <1>3, <1>7 DEF Behind
<1> DEFINE c == [call EXCEPT !.cursor = e]
<1>9. /\ c \in Call /\ c.cursor = e
      /\ c.fn = call.fn /\ c.kind = call.kind /\ c.pc = call.pc /\ c.wants = call.wants
      /\ c.buffer = call.buffer /\ c.counted = call.counted /\ c.room = call.room
      /\ c.cells = call.cells
  BY <1>1, <1>3, MovedFields
<1>10. call' = IF e \in call.wants THEN Stored(Grown(c), e, TRUE) ELSE c
  BY <1>2
<1> HIDE DEF c
<1>11. CASE e \notin call.wants
  <2>1. call' = c
    BY <1>10, <1>11
  <2>2. Amid
    BY <1>1, <1>4, <1>9, <2>1 DEF Amid, TypeOK
  <2>3. Fits'
    BY <1>1, <1>6, <1>9, <2>1 DEF Fits
  <2>4. OnePerEntry' /\ OnePerIndex' /\ CountedEnough'
    BY <1>1, <1>5, <1>9, <2>1 DEF OnePerEntry, OnePerIndex, CountedEnough, TwoPass
  <2>5. Begun' /\ Known' /\ Distinct' /\ Listed' /\ HalfExcused' /\ InTables'
    <3>1. \A x \in seen.since \cap call.wants : x <= e => x <= call.cursor \/ x = e
      BY <1>3, <1>7
    <3>2. call.fn \notin Connecting /\ call.pc \in {"fill", "add"} /\ call'.pc = call.pc
          /\ call'.pc # "look" /\ call.cursor < e /\ call'.cursor = e
          /\ call'.cells = call.cells /\ call'.buffer = call.buffer
      BY <1>1, <1>3, <1>5, <1>9, <2>1
    <3> QED BY <1>3, <1>11, <2>2, <3>1, <3>2, PassedBy
  <2> QED BY <2>2, <2>3, <2>4, <2>5, AmidOnward
<1>12. CASE e \in call.wants
  <2> DEFINE g == Grown(c)
             b == TRUE
             x == [id |-> e, full |-> b]
  <2>1. /\ g \in Call /\ g.room > 0 /\ Len(c.cells) + 1 <= g.room
        /\ g.cursor = c.cursor
        /\ g.fn = c.fn /\ g.kind = c.kind /\ g.pc = c.pc /\ g.wants = c.wants
        /\ g.buffer = c.buffer /\ g.counted = c.counted /\ g.cells = c.cells
    BY <1>6, <1>9, GrownFields
  <2>2. call' = Stored(g, e, b) /\ b \in BOOLEAN
    BY <1>10, <1>12
  <2> HIDE DEF g, b
  <2>3. /\ x \in Cell /\ call' \in Call /\ call'.cells = Append(g.cells, x)
        /\ Len(call'.cells) = Len(g.cells) + 1
        /\ call'.cursor = g.cursor
        /\ call'.fn = g.fn /\ call'.kind = g.kind /\ call'.pc = g.pc /\ call'.wants = g.wants
        /\ call'.buffer = g.buffer /\ call'.counted = g.counted /\ call'.room = g.room
    BY <1>3, <2>1, <2>2, StoredFields
  <2>4. x.id = e /\ x.full = TRUE /\ e # 0
    BY <1>3 DEF b
  <2> HIDE DEF x
  <2>5. Amid
    BY <1>1, <1>4, <1>9, <2>1, <2>3 DEF Amid, TypeOK
  <2>6. Fits'
    BY <1>1, <1>9, <2>1, <2>3 DEF Fits
  <2>7. OnePerEntry' /\ OnePerIndex' /\ CountedEnough'
    BY <1>1, <1>5, <1>9, <2>1, <2>3 DEF OnePerEntry, OnePerIndex, CountedEnough, TwoPass
  <2>8. Begun' /\ Known' /\ Distinct' /\ Listed' /\ HalfExcused' /\ InTables'
    <3>1. Excused(call.fn, x)'
      BY <2>4 DEF Excused
    <3>2. e \in seen.ever \cap call.wants
      BY <1>7, <1>12
    <3>3. call.fn \notin Connecting /\ call.pc = "fill" /\ call'.pc = "fill"
          /\ call.cursor < e /\ call'.cursor = e
          /\ call'.cells = Append(call.cells, x) /\ call'.buffer = call.buffer
      BY <1>1, <1>3, <1>5, <1>9, <2>1, <2>3
    <3> QED BY <1>3, <1>8, <2>3, <2>4, <2>5, <3>1, <3>2, <3>3, WentIn
  <2> QED BY <2>5, <2>6, <2>7, <2>8, AmidOnward
<1> QED BY <1>11, <1>12

\* Into an array of the size that has been counted.
LEMMA PutsOnward ==
  ASSUME Inv, NEW f, f \notin Growing \cup Connecting \cup ByIndex,
         NEW source \in SUBSET Entry, NEW kept, NEW full, Puts(f, source, kept, full),
         source \subseteq seen.ever, seen.since \cap call.wants \subseteq source,
         seen.since \cap call.wants \subseteq kept, kept \cap source \subseteq call.wants,
         seen.since \cap source \subseteq full,
         f = "bsd_users" => source = there /\ kept = call.wants,
         f \in Photographed => source \subseteq call.buffer,
         f \in Photographed \cap Unfiltered => source = call.buffer /\ source \subseteq kept
  PROVE  Onward
<1>1. TypeOK /\ Busy /\ call.pc = "fill" /\ call.fn = f /\ call \in Call /\ More(source)
  BY DEF Inv, TypeOK, Busy, Puts, At
<1>2. PICK e \in source : IsNext(source, e) /\
        LET c == [call EXCEPT !.cursor = e]
        IN  call' = IF e \in kept THEN Stored(c, e, e \in full) ELSE c
  BY DEF Puts
<1>3. /\ e \in Nat /\ e > call.cursor /\ call.cursor \in Nat /\ e \in Entry
      /\ \A x \in source : x <= e => x <= call.cursor \/ x = e
  BY <1>1, <1>2, NoneBetween
<1>4. there' = there /\ answer' = answer /\ seen' = seen
  BY DEF Puts
<1>5. Len(call.cells) < call.counted /\ Len(call.cells) \in Nat /\ call.cells \in Seq(Cell)
  BY <1>1 DEF More, Call
<1>8. \A x \in source : x <= e => Behind(x) \/ x = e
  BY <1>1, <1>3 DEF Behind
<1> DEFINE c == [call EXCEPT !.cursor = e]
           b == e \in full
<1>9. /\ c \in Call /\ c.cursor = e
      /\ c.fn = call.fn /\ c.kind = call.kind /\ c.pc = call.pc /\ c.wants = call.wants
      /\ c.buffer = call.buffer /\ c.counted = call.counted /\ c.room = call.room
      /\ c.cells = call.cells
  BY <1>1, <1>3, MovedFields
<1>10. (call' = IF e \in kept THEN Stored(c, e, b) ELSE c) /\ b \in BOOLEAN
  BY <1>2
<1>11. b = TRUE \/ e \notin seen.since
  OBVIOUS
<1> HIDE DEF c, b
<1> DEFINE x == [id |-> e, full |-> b]
<1>12. /\ call' \in Call
       /\ call'.cursor = e
       /\ call'.fn = call.fn /\ call'.kind = call.kind /\ call'.pc = "fill" /\ call'.wants = call.wants
       /\ call'.buffer = call.buffer /\ call'.counted = call.counted /\ call'.room = call.room
       /\ x \in Cell
       /\ IF e \in kept
          THEN call'.cells = Append(call.cells, x) /\ Len(call'.cells) = Len(call.cells) + 1
          ELSE call'.cells = call.cells
  <2>1. CASE e \in kept
    <3>1. call' = Stored(c, e, b)
      BY <1>10, <2>1
    <3> QED BY <1>1, <1>3, <1>9, <1>10, <2>1, <3>1, StoredFields
  <2>2. CASE e \notin kept
    <3>1. call' = c /\ x \in Cell
      BY <1>3, <1>10, <2>2 DEF Cell
    <3> QED BY <1>1, <1>9, <2>2, <3>1
  <2> QED BY <2>1, <2>2
<1>13. x.id = e /\ x.full = b
  OBVIOUS
<1> HIDE DEF x
<1>14. Amid
  BY <1>1, <1>4, <1>12 DEF Amid, TypeOK
<1>15. Fits'
  BY <1>1, <1>5, <1>12, <1>14, FitsStill
<1>16. OnePerEntry'
  <2>1. call.fn \in Photographed => e \in call.buffer
    BY <1>1
  <2>2. call.fn \in Photographed \cap Unfiltered =>
          /\ Len(call'.cells) = Len(call.cells) + 1
          /\ \A y \in call.buffer : y <= e => Behind(y) \/ y = e
    BY <1>1, <1>8, <1>12
  <2> QED BY <1>1, <1>3, <1>12, <1>14, <2>1, <2>2, OneMoreGone
<1>17. OnePerIndex'
  BY <1>1, <1>12 DEF OnePerIndex
<1>18. CountedEnough'
  <2> DEFINE F == seen.since \cap call.wants
             A == {y \in F : y <= call.cursor}
             B == {y \in F : y <= e}
  <2>1. ASSUME f = "bsd_users", seen.ever \subseteq seen.since
        PROVE  Len(call'.cells) = Cardinality(B)
    <3>1. there = seen.since /\ source = seen.since /\ kept = call.wants
      BY <1>1, <2>1 DEF Inv, Known
    <3>2. Len(call.cells) = Cardinality(A)
      <4>1. Foreseen = F
        BY <1>1 DEF Foreseen
      <4> QED BY <1>1, <2>1, <4>1 DEF Inv, CountedEnough
    <3>3. A \in SUBSET Entry /\ e \notin A
      BY <1>1, <1>3 DEF TypeOK
    <3>4. A \subseteq B
      <4>1. \A y \in F : y \in Nat
        BY <1>1, ListStepsAssumption DEF TypeOK
      <4> QED BY <1>3, <4>1
    <3>5. B \subseteq A \cup {e}
      BY <1>3, <3>1
    <3>6. CASE e \in kept
      <4>1. e <= e /\ e \in F
        BY <1>3, <3>1, <3>6
      <4>2. B = A \cup {e}
        BY <3>4, <3>5, <4>1
      <4> HIDE DEF A, B
      <4>3. Cardinality(B) = Cardinality(A) + 1
        BY <1>3, <3>3, <4>2, OneMoreEntry
      <4> QED BY <1>12, <3>2, <3>6, <4>3
    <3>7. CASE e \notin kept
      <4>1. B = A
        BY <3>1, <3>4, <3>5, <3>7
      <4> HIDE DEF A, B
      <4> QED BY <1>12, <3>2, <3>7, <4>1
    <3> QED BY <3>6, <3>7
  <2> QED BY <1>1, <1>12, <1>14, <2>1, CountedStill
<1>19. Begun' /\ Known' /\ Distinct' /\ Listed' /\ HalfExcused' /\ InTables'
  <2>1. CASE e \in kept
    <3>1. Excused(call.fn, x)'
      BY <1>4, <1>11, <1>13, <1>3, ListStepsAssumption DEF Excused
    <3>2. e \in seen.ever \cap call.wants /\ e # 0
      BY <1>3, <2>1
    <3>3. \A y \in seen.since \cap call.wants : y <= e => Behind(y) \/ y = e
      BY <1>8
    <3> QED BY <1>1, <1>3, <1>12, <1>13, <1>14, <2>1, <3>1, <3>2, <3>3, WentIn
  <2>2. CASE e \notin kept
    <3>1. \A y \in seen.since \cap call.wants : y <= e => y <= call.cursor \/ y = e
      BY <1>3
    <3>2. e \notin seen.since \cap call.wants
      BY <2>2
    <3> QED BY <1>1, <1>3, <1>12, <1>14, <2>2, <3>1, <3>2, PassedBy
  <2> QED BY <2>1, <2>2
<1> QED BY <1>14, <1>15, <1>16, <1>17, <1>18, <1>19, AmidOnward

\* The system says nothing of the next entry.
LEMMA PassesOverOnward ==
  ASSUME Inv, NEW f, f \notin Growing \cup Connecting \cup ByIndex \cup {"bsd_users"},
         NEW source \in SUBSET Entry, PassesOver(f, source),
         seen.since \cap call.wants \subseteq source,
         f \in Photographed => source \subseteq call.buffer /\ f \notin Unfiltered
  PROVE  Onward
<1>1. TypeOK /\ Busy /\ call.pc = "fill" /\ call.fn = f /\ call \in Call /\ More(source)
  BY DEF Inv, TypeOK, Busy, PassesOver, At
<1>2. PICK e \in source : IsNext(source, e) /\ call' = [call EXCEPT !.cursor = e]
        /\ seen' = [seen EXCEPT !.refused = IF e \in there THEN @ \cup {e} ELSE @]
  BY DEF PassesOver
<1>3. /\ e \in Nat /\ e > call.cursor /\ call.cursor \in Nat /\ e \in Entry
      /\ \A x \in source : x <= e => x <= call.cursor \/ x = e
  BY <1>1, <1>2, NoneBetween
<1>4. there' = there /\ answer' = answer
  BY DEF PassesOver
<1>5. Len(call.cells) < call.counted
  BY <1>1 DEF More
<1>6. /\ call' \in Call /\ call'.cursor = e
      /\ call'.fn = call.fn /\ call'.kind = call.kind /\ call'.pc = call.pc /\ call'.wants = call.wants
      /\ call'.buffer = call.buffer /\ call'.counted = call.counted /\ call'.room = call.room
      /\ call'.cells = call.cells
  BY <1>1, <1>2, <1>3, MovedFields
<1>7. /\ seen' \in [since : SUBSET Entry, ever : SUBSET Entry, refused : SUBSET Entry, starved : BOOLEAN]
      /\ seen'.since = seen.since /\ seen'.ever = seen.ever /\ seen'.starved = seen.starved
      /\ seen.refused \subseteq seen'.refused
      /\ e \in there => e \in seen'.refused
  BY <1>1, <1>2, <1>3 DEF TypeOK
<1>8. Amid
  BY <1>1, <1>4, <1>6, <1>7 DEF Amid
<1>9. Fits'
  BY <1>1, <1>5, <1>6, <1>8, FitsStill
<1>10. OnePerEntry'
  BY <1>1, <1>3, <1>6, <1>8, OneMoreGone
<1>11. OnePerIndex'
  BY <1>1, <1>6 DEF OnePerIndex
<1>12. CountedEnough'
  BY <1>1, <1>6, <1>8, CountedStill
<1>13. seen.since \subseteq there
  BY <1>1 DEF Inv, Known
<1>14. Begun' /\ Known' /\ Distinct' /\ Listed' /\ HalfExcused' /\ InTables'
  <2>1. \A x \in seen.since \cap call.wants : x <= e => x <= call.cursor \/ x = e
    BY <1>3
  <2>2. e \in seen.since \cap call.wants => e \in seen'.refused
    BY <1>7, <1>13
  <2> QED BY <1>1, <1>3, <1>6, <1>8, <2>1, <2>2, PassedBy
<1> QED BY <1>8, <1>9, <1>10, <1>11, <1>12, <1>14, AmidOnward

\* thread_info fails.
LEMMA NotDescribedOnward == ASSUME Inv, ThreadNotDescribed PROVE Onward
<1>1. TypeOK /\ Busy /\ call.pc = "fill" /\ call.fn = "macos_threads" /\ call \in Call
      /\ More(call.buffer) /\ call.buffer \in SUBSET Entry
  BY DEF Inv, TypeOK, Call, Busy, ThreadNotDescribed, At
<1>2. PICK e \in call.buffer :
        /\ IsNext(call.buffer, e)
        /\ call' = Stored([call EXCEPT !.cursor = e], 0, FALSE)
        /\ seen' = [seen EXCEPT !.refused = IF e \in there THEN @ \cup {e} ELSE @]
  BY DEF ThreadNotDescribed
<1>3. /\ e \in Nat /\ e > call.cursor /\ call.cursor \in Nat /\ e \in Entry
      /\ \A x \in call.buffer : x <= e => x <= call.cursor \/ x = e
  BY <1>1, <1>2, NoneBetween
<1>4. there' = there /\ answer' = answer
  BY DEF ThreadNotDescribed
<1>5. Len(call.cells) < call.counted
  BY <1>1 DEF More
<1> DEFINE c == [call EXCEPT !.cursor = e]
           b == FALSE
           none == 0
           x == [id |-> none, full |-> b]
<1>6. /\ c \in Call /\ c.cursor = e
      /\ c.fn = call.fn /\ c.kind = call.kind /\ c.pc = call.pc /\ c.wants = call.wants
      /\ c.buffer = call.buffer /\ c.counted = call.counted /\ c.room = call.room
      /\ c.cells = call.cells
  BY <1>1, <1>3, MovedFields
<1>7. call' = Stored(c, none, b) /\ b \in BOOLEAN /\ none \in Entry \cup {0}
  BY <1>2
<1>10. x.id = 0 /\ ~x.full
  OBVIOUS
<1> HIDE DEF c, b, none
<1>8. /\ call' \in Call /\ call'.cursor = e
      /\ call'.fn = call.fn /\ call'.kind = call.kind /\ call'.pc = call.pc /\ call'.wants = call.wants
      /\ call'.buffer = call.buffer /\ call'.counted = call.counted /\ call'.room = call.room
      /\ x \in Cell /\ call'.cells = Append(call.cells, x) /\ Len(call'.cells) = Len(call.cells) + 1
  BY <1>6, <1>7, StoredFields
<1>9. /\ seen' \in [since : SUBSET Entry, ever : SUBSET Entry, refused : SUBSET Entry, starved : BOOLEAN]
      /\ seen'.since = seen.since /\ seen'.ever = seen.ever /\ seen'.starved = seen.starved
      /\ seen.refused \subseteq seen'.refused
      /\ e \in there => e \in seen'.refused
  BY <1>1, <1>2, <1>3 DEF TypeOK
<1> HIDE DEF x
<1>11. Amid
  BY <1>1, <1>4, <1>8, <1>9 DEF Amid
<1>12. /\ seen.since \subseteq call.buffer /\ call.buffer \subseteq seen.ever
       /\ seen.since \subseteq there
  BY <1>1 DEF Inv, Known, Photographed
<1>f. call.fn \notin Growing /\ call.fn \notin Connecting /\ call.fn \notin ByIndex
      /\ call.fn # "bsd_users"
  BY <1>1 DEF Growing, Connecting, ByIndex
<1>13. Fits'
  BY <1>1, <1>5, <1>8, <1>11, <1>f, FitsStill
<1>14. OnePerEntry'
  <2>1. \A y \in call.buffer : y <= e => Behind(y) \/ y = e
    BY <1>1, <1>3 DEF Behind
  <2> QED BY <1>1, <1>3, <1>8, <1>11, <2>1, OneMoreGone
<1>15. OnePerIndex' /\ CountedEnough'
  <2>1. OnePerIndex'
    BY <1>8, <1>f DEF OnePerIndex
  <2> QED BY <1>1, <1>8, <1>11, <1>f, <2>1, CountedStill
<1>16. Begun' /\ Known' /\ Distinct' /\ Listed' /\ HalfExcused' /\ InTables'
  <2>1. seen'.refused # {} \/ seen'.ever \ seen'.since # {}
    BY <1>9, <1>12
  <2>2. Excused(call.fn, x)'
    BY <1>1, <1>8, <1>10, <2>1 DEF Excused
  <2>3. \A y \in seen.since \cap call.wants : y <= e => Behind(y) \/ y = e
    BY <1>1, <1>3, <1>12 DEF Behind
  <2>4. e \in seen.since => e \in seen'.refused
    BY <1>9, <1>12
  <2> QED BY <1>1, <1>3, <1>8, <1>10, <1>11, <1>f, <2>2, <2>3, <2>4, WentIn
<1> QED BY <1>11, <1>13, <1>14, <1>15, <1>16, AmidOnward

\* The name of the next entry is read.
LEMMA PicksOnward ==
  ASSUME Inv, NEW f, f \notin Growing \cup Connecting \cup ByIndex \cup {"bsd_users"},
         NEW source \in SUBSET Entry, Picks(f, source),
         source \subseteq seen.ever \cap call.wants,
         seen.since \cap call.wants \subseteq source,
         f \in Photographed => source \subseteq call.buffer,
         f \in Photographed \cap Unfiltered => source = call.buffer
  PROVE  Onward
<1>1. TypeOK /\ Busy /\ call.pc = "fill" /\ call.fn = f /\ call \in Call /\ More(source)
  BY DEF Inv, TypeOK, Busy, Picks, At
<1>2. PICK e \in source : IsNext(source, e) /\ call' = [call EXCEPT !.pc = "look", !.cursor = e]
  BY DEF Picks
<1>3. /\ e \in Nat /\ e > call.cursor /\ call.cursor \in Nat /\ e \in Entry
      /\ \A x \in source : x <= e => x <= call.cursor \/ x = e
  BY <1>1, <1>2, NoneBetween
<1>4. there' = there /\ answer' = answer /\ seen' = seen
  BY DEF Picks
<1>5. Len(call.cells) < call.counted
  BY <1>1 DEF More
<1>6. /\ call' \in Call /\ call'.cursor = e /\ call'.pc = "look"
      /\ call'.fn = call.fn /\ call'.kind = call.kind /\ call'.wants = call.wants
      /\ call'.buffer = call.buffer /\ call'.counted = call.counted /\ call'.room = call.room
      /\ call'.cells = call.cells
  BY <1>1, <1>2, <1>3 DEF Call
<1>7. Amid
  BY <1>1, <1>4, <1>6 DEF Amid, TypeOK
<1>8. Fits'
  BY <1>1, <1>5, <1>6 DEF Inv, Fits
<1>9. OnePerEntry'
  <2> SUFFICES ASSUME call.fn \in Photographed PROVE OnePerEntry'
    BY <1>6 DEF OnePerEntry
  <2> DEFINE G == {x \in call.buffer : Behind(x)}
             H == {x \in call.buffer : x <= e /\ x # e}
  <2>1. G \in SUBSET Entry /\ H \in SUBSET Entry /\ call.buffer \subseteq Nat
    BY <1>1, ListStepsAssumption DEF Call
  <2>2. G \subseteq H
    <3>1. ASSUME NEW x \in G PROVE x <= e /\ x # e
      <4>1. x \in Nat /\ x <= call.cursor
        BY <2>1 DEF Behind
      <4> QED BY <1>3, <4>1
    <3> QED BY <3>1
  <2>3. call.fn \in Unfiltered => H = G
    BY <1>1, <1>3, <2>2 DEF Behind
  <2>4. {x \in call'.buffer : Behind(x)'} = H
    BY <1>6 DEF Behind
  <2>5. call.counted = Cardinality(call.buffer) /\ Len(call.cells) <= Cardinality(G)
        /\ (call.fn \in Unfiltered => Len(call.cells) = Cardinality(G))
    BY <1>1 DEF Inv, OnePerEntry
  <2> HIDE DEF G, H
  <2>6. Cardinality(G) <= Cardinality(H) /\ Cardinality(G) \in Nat /\ Cardinality(H) \in Nat
        /\ Len(call.cells) \in Nat
    BY <1>1, <2>1, <2>2, FewerEntries, FiniteEntries DEF Call
  <2>7. Len(call.cells) <= Cardinality(H)
    BY <2>5, <2>6
  <2>8. e \in call.buffer
    BY <1>1
  <2> QED BY <1>6, <2>3, <2>4, <2>5, <2>7, <2>8 DEF OnePerEntry
<1>10. OnePerIndex'
  BY <1>6 DEF OnePerIndex
<1>11. CountedEnough'
  BY <1>1, <1>6, <1>7, CountedStill
<1>12. Begun' /\ Known' /\ Distinct' /\ Listed' /\ HalfExcused' /\ InTables'
  <2>1. \A x \in seen.since \cap call.wants : x <= e => x <= call.cursor \/ x = e
    BY <1>3
  <2> QED BY <1>1, <1>3, <1>6, <1>7, <2>1, PassedBy
<1> QED BY <1>7, <1>8, <1>9, <1>10, <1>11, <1>12, AmidOnward

\* It is described.
LEMMA DescribesOnward ==
  ASSUME Inv, NEW f, f \notin Growing \cup Connecting \cup ByIndex \cup {"bsd_users"},
         Describes(f)
  PROVE  Onward
<1>1. TypeOK /\ Busy /\ call.pc = "look" /\ call.fn = f /\ call \in Call
  BY DEF Inv, TypeOK, Busy, Describes, At
<1>e. PICK e \in Nat : e = call.cursor
  BY <1>1 DEF Call
<1>2. PICK b \in {TRUE, FALSE} :
        /\ b => call.cursor \in there
        /\ call' = Stored([call EXCEPT !.pc = "fill"], e, b)
        /\ seen' = [seen EXCEPT !.refused = IF call.cursor \in there /\ ~b
                                            THEN @ \cup {call.cursor} ELSE @]
  BY <1>e DEF Describes
<1>3. e \in seen.ever \cap call.wants /\ e \in Entry /\ e \in Nat /\ e # 0
  <2>1. e \in seen.ever \cap call.wants /\ e \in Entry
    BY <1>1, <1>e DEF Inv, Listed, TypeOK
  <2> QED BY <2>1, ListStepsAssumption
<1>4. there' = there /\ answer' = answer
  BY DEF Describes
<1>5. Len(call.cells) < call.counted
  BY <1>1 DEF Inv, Fits
<1> DEFINE c == [call EXCEPT !.pc = "fill"]
           x == [id |-> e, full |-> b]
<1>6. /\ c \in Call /\ c.cursor = e
      /\ c.fn = call.fn /\ c.kind = call.kind /\ c.pc = "fill" /\ c.wants = call.wants
      /\ c.buffer = call.buffer /\ c.counted = call.counted /\ c.room = call.room
      /\ c.cells = call.cells
  BY <1>1, <1>e DEF Call
<1>7. call' = Stored(c, e, b) /\ b \in BOOLEAN
  BY <1>2
<1> HIDE DEF c
<1>8. /\ call' \in Call /\ call'.cursor = e
      /\ call'.fn = call.fn /\ call'.kind = call.kind /\ call'.pc = "fill" /\ call'.wants = call.wants
      /\ call'.buffer = call.buffer /\ call'.counted = call.counted /\ call'.room = call.room
      /\ x \in Cell /\ call'.cells = Append(call.cells, x) /\ Len(call'.cells) = Len(call.cells) + 1
  BY <1>3, <1>6, <1>7, StoredFields
<1>9. /\ seen' \in [since : SUBSET Entry, ever : SUBSET Entry, refused : SUBSET Entry, starved : BOOLEAN]
      /\ seen'.since = seen.since /\ seen'.ever = seen.ever /\ seen'.starved = seen.starved
      /\ seen.refused \subseteq seen'.refused
      /\ ~b /\ e \in there => e \in seen'.refused
  BY <1>1, <1>2, <1>3, <1>e DEF TypeOK
<1>10. x.id = e /\ x.full = b
  OBVIOUS
<1> HIDE DEF x
<1>11. Amid
  BY <1>1, <1>4, <1>8, <1>9 DEF Amid
<1>12. seen.since \subseteq there
  BY <1>1 DEF Inv, Known
<1>13. Fits'
  BY <1>1, <1>5, <1>8, <1>11, FitsStill
<1>14. OnePerEntry'
  <2>1. call.fn \in Photographed => call.cursor \in call.buffer
    BY <1>1 DEF Inv, OnePerEntry
  <2>2. \A y \in call.buffer : y <= e => Behind(y) \/ y = e
    BY <1>e DEF Behind
  <2> QED BY <1>1, <1>e, <1>8, <1>11, <2>1, <2>2, OneMoreGone
<1>15. OnePerIndex'
  BY <1>1, <1>8 DEF OnePerIndex
<1>16. CountedEnough'
  BY <1>1, <1>8, <1>11, CountedStill
<1>17. Begun' /\ Known' /\ Distinct' /\ Listed' /\ HalfExcused' /\ InTables'
  <2>1. Excused(call.fn, x)'
    <3>1. x.full \/ (x.id # 0 /\ (x.id \notin seen'.since \/ x.id \in seen'.refused))
      BY <1>3, <1>9, <1>10, <1>12
    <3> QED BY <3>1 DEF Excused
  <2>2. \A y \in seen.since \cap call.wants : y <= e => Behind(y) \/ y = e
    BY <1>e DEF Behind
  <2> QED BY <1>1, <1>e, <1>3, <1>8, <1>10, <1>11, <2>1, <2>2, WentIn
<1> QED BY <1>11, <1>13, <1>14, <1>15, <1>16, <1>17, AmidOnward

\* The next entry goes into a number.
LEMMA AddsOnward ==
  ASSUME Inv, NEW f, f \notin Connecting \cup ByIndex, Adds(f)
  PROVE  Onward
<1>1. TypeOK /\ Busy /\ call.pc = "add" /\ call.fn = f /\ call \in Call
  BY DEF Inv, TypeOK, Busy, Adds, At
<1>2. PICK e \in there : IsNext(there, e) /\
        LET c == [call EXCEPT !.cursor = e]
        IN  call' = IF e \in call.wants THEN Stored(c, e, TRUE) ELSE c
  BY DEF Adds
<1>3. /\ e \in Nat /\ e > call.cursor /\ call.cursor \in Nat /\ e \in Entry /\ e # 0
      /\ \A x \in there : x <= e => x <= call.cursor \/ x = e
  BY <1>1, <1>2, NoneBetween DEF TypeOK
<1>4. there' = there /\ answer' = answer /\ seen' = seen
  BY DEF Adds
<1>5. seen.since \subseteq there /\ there \subseteq seen.ever
  BY <1>1 DEF Inv, Known
<1> DEFINE c == [call EXCEPT !.cursor = e]
           b == TRUE
<1>6. /\ c \in Call /\ c.cursor = e
      /\ c.fn = call.fn /\ c.kind = call.kind /\ c.pc = call.pc /\ c.wants = call.wants
      /\ c.buffer = call.buffer /\ c.counted = call.counted /\ c.room = call.room
      /\ c.cells = call.cells
  BY <1>1, <1>3, MovedFields
<1>7. (call' = IF e \in call.wants THEN Stored(c, e, b) ELSE c) /\ b \in BOOLEAN
  BY <1>2
<1>b. b
  OBVIOUS
<1> HIDE DEF c, b
<1> DEFINE x == [id |-> e, full |-> b]
<1>8. /\ call' \in Call /\ call'.cursor = e
      /\ call'.fn = call.fn /\ call'.kind = call.kind /\ call'.pc = "add" /\ call'.wants = call.wants
      /\ call'.buffer = call.buffer /\ x \in Cell
      /\ IF e \in call.wants THEN call'.cells = Append(call.cells, x)
         ELSE call'.cells = call.cells
  <2>1. CASE e \in call.wants
    <3>1. call' = Stored(c, e, b)
      BY <1>7, <2>1
    <3> QED BY <1>1, <1>3, <1>6, <1>7, <2>1, <3>1, StoredFields
  <2>2. CASE e \notin call.wants
    <3>1. call' = c /\ x \in Cell
      BY <1>3, <1>7, <2>2 DEF Cell
    <3> QED BY <1>1, <1>6, <2>2, <3>1
  <2> QED BY <2>1, <2>2
<1>9. x.id = e /\ x.full
  BY <1>b
<1> HIDE DEF x
<1>10. Amid
  BY <1>1, <1>4, <1>8 DEF Amid, TypeOK
<1>11. Fits' /\ OnePerEntry' /\ OnePerIndex' /\ CountedEnough'
  BY <1>1, <1>8 DEF Fits, OnePerEntry, OnePerIndex, CountedEnough
<1>12. Begun' /\ Known' /\ Distinct' /\ Listed' /\ HalfExcused' /\ InTables'
  <2>1. CASE e \in call.wants
    <3>1. Excused(call.fn, x)'
      BY <1>9 DEF Excused
    <3>2. \A y \in seen.since \cap call.wants : y <= e => Behind(y) \/ y = e
      BY <1>1, <1>3, <1>5 DEF Behind
    <3>3. e \in seen.ever \cap call.wants
      BY <1>5, <2>1
    <3>4. call'.cells = Append(call.cells, x)
      BY <1>8, <2>1
    <3> QED BY <1>1, <1>3, <1>8, <1>9, <1>10, <3>1, <3>2, <3>3, <3>4, WentIn
  <2>2. CASE e \notin call.wants
    <3>1. \A y \in seen.since \cap call.wants : y <= e => y <= call.cursor \/ y = e
      BY <1>3, <1>5
    <3>2. call'.cells = call.cells /\ e \notin seen.since \cap call.wants
      BY <1>8, <2>2
    <3> QED BY <1>1, <1>3, <1>8, <1>10, <3>1, <3>2, PassedBy
  <2> QED BY <2>1, <2>2
<1> QED BY <1>10, <1>11, <1>12, AmidOnward

\* sysctl for the next index.
LEMMA AsksIndexOnward ==
  ASSUME Inv, NEW f \in ByIndex, NEW p \in {"fill", "add"}, AsksIndex(f, p)
  PROVE  Onward
<1>1. TypeOK /\ Busy /\ call.pc = p /\ call.fn = f /\ call \in Call /\ call.cursor < call.counted
  BY DEF Inv, TypeOK, Busy, AsksIndex, At
<1>2. PICK e \in Nat : e = call.cursor + 1
  BY <1>1 DEF Call
<1> DEFINE c == [call EXCEPT !.cursor = e]
           b == TRUE
<1>3. \/ e \in there /\ call' = Stored(c, e, b) /\ seen' = seen
      \/ /\ call' = c
         /\ seen' = [seen EXCEPT !.refused = IF e \in there THEN @ \cup {e} ELSE @]
  BY <1>2 DEF AsksIndex
<1>4. there' = there /\ answer' = answer
  BY DEF AsksIndex
<1>5. /\ seen.since \subseteq there /\ there \subseteq seen.ever /\ call.wants = Entry
      /\ there \subseteq Entry
  BY <1>1 DEF Inv, Known, Everything, Unfiltered, TypeOK
<1>6. e # 0 /\ e > call.cursor /\ call.cursor < e /\ call.cursor \in Nat /\ e <= call.counted
      /\ call.counted \in Nat
  BY <1>1, <1>2 DEF Call
<1>7. \A x \in seen.since : x <= e => x <= call.cursor \/ x = e
  <2>1. \A x \in seen.since : x \in Nat
    BY <1>5, ListStepsAssumption
  <2> QED BY <1>2, <1>6, <2>1
<1>8. /\ c \in Call /\ c.cursor = e
      /\ c.fn = call.fn /\ c.kind = call.kind /\ c.pc = call.pc /\ c.wants = call.wants
      /\ c.buffer = call.buffer /\ c.counted = call.counted /\ c.room = call.room
      /\ c.cells = call.cells
  BY <1>1, MovedFields
<1>9. b \in BOOLEAN
  OBVIOUS
<1>b. b
  OBVIOUS
<1>f. f \notin Growing /\ f \notin Photographed /\ f \notin Connecting /\ f \notin TwoPass
      /\ f \notin {"android_disk_partitions", "windows_disk_partitions"}
  BY DEF ByIndex, Growing, Photographed, Connecting, TwoPass
<1>10. /\ Len(call.cells) <= call.cursor
       /\ \A x \in seen.since : x <= call.counted
       /\ p = "fill" => call.counted <= call.room
       /\ Len(call.cells) \in Nat /\ call.room \in Nat
  BY <1>1 DEF Inv, OnePerIndex, Call
<1> HIDE DEF c, b
\* What is left to show, once it is known what has been stored.
<1>11. ASSUME call'.cursor = e, call' \in Call, call'.fn = call.fn, call'.pc = call.pc,
              call'.counted = call.counted, call'.room = call.room,
              seen'.since = seen.since,
              Len(call'.cells) = Len(call.cells) \/ Len(call'.cells) = Len(call.cells) + 1
       PROVE  Fits' /\ OnePerEntry' /\ OnePerIndex' /\ CountedEnough'
  <2>1. Len(call'.cells) <= e /\ Len(call'.cells) <= call.counted
    BY <1>2, <1>6, <1>10, <1>11
  <2>2. p = "fill" => Len(call'.cells) <= call.room
    BY <1>6, <1>10, <1>11, <2>1
  <2>3. Fits'
    BY <1>1, <1>10, <1>11, <1>f, <2>1, <2>2 DEF Fits
  <2>4. OnePerIndex'
    BY <1>1, <1>6, <1>10, <1>11, <2>1 DEF OnePerIndex
  <2> QED BY <1>1, <1>11, <1>f, <2>3, <2>4 DEF OnePerEntry, CountedEnough, TwoPass
<1>12. CASE e \in there /\ call' = Stored(c, e, b) /\ seen' = seen
  <2> DEFINE x == [id |-> e, full |-> b]
  <2>1. /\ call' \in Call /\ call'.cursor = e
        /\ call'.fn = call.fn /\ call'.kind = call.kind /\ call'.pc = call.pc /\ call'.wants = call.wants
        /\ call'.buffer = call.buffer /\ call'.counted = call.counted /\ call'.room = call.room
        /\ x \in Cell /\ call'.cells = Append(call.cells, x)
        /\ Len(call'.cells) = Len(call.cells) + 1
    <3>1. call' = Stored(c, e, b) /\ e \in Entry \cup {0}
      BY <1>5, <1>12
    <3>2. /\ x \in Cell /\ call' \in Call /\ call'.cells = Append(c.cells, x)
          /\ Len(call'.cells) = Len(c.cells) + 1 /\ call'.cursor = c.cursor
          /\ call'.fn = c.fn /\ call'.kind = c.kind /\ call'.pc = c.pc /\ call'.wants = c.wants
          /\ call'.buffer = c.buffer /\ call'.counted = c.counted /\ call'.room = c.room
      BY <1>8, <1>9, <3>1, StoredFields
    <3> HIDE DEF x
    <3> QED BY <1>8, <3>2
  <2>2. x.id = e /\ x.full
    BY <1>b
  <2> HIDE DEF x
  <2>3. Amid
    BY <1>1, <1>4, <1>12, <2>1 DEF Amid, TypeOK
  <2>4. Excused(call.fn, x)'
    BY <2>2 DEF Excused
  <2>5. \A y \in seen.since \cap call.wants : y <= e => Behind(y) \/ y = e
    BY <1>1, <1>7 DEF Behind
  <2>6. e \in seen.ever \cap call.wants
    BY <1>5, <1>12
  <2>7. Begun' /\ Known' /\ Distinct' /\ Listed' /\ HalfExcused' /\ InTables'
    BY <1>1, <1>6, <1>f, <2>1, <2>2, <2>3, <2>4, <2>5, <2>6, WentIn
  <2> QED BY <1>11, <1>12, <2>1, <2>3, <2>7, AmidOnward
<1>13. CASE /\ call' = c
            /\ seen' = [seen EXCEPT !.refused = IF e \in there THEN @ \cup {e} ELSE @]
  <2>1. /\ seen' \in [since : SUBSET Entry, ever : SUBSET Entry, refused : SUBSET Entry, starved : BOOLEAN]
        /\ seen'.since = seen.since /\ seen'.ever = seen.ever /\ seen'.starved = seen.starved
        /\ seen.refused \subseteq seen'.refused
        /\ e \in there => e \in seen'.refused
    BY <1>1, <1>5, <1>13 DEF TypeOK
  <2>2. Amid
    BY <1>1, <1>4, <1>8, <1>13, <2>1 DEF Amid
  <2>3. \A y \in seen.since \cap call.wants : y <= e => y <= call.cursor \/ y = e
    BY <1>7
  <2>4. e \in seen.since \cap call.wants => e \in seen'.refused
    BY <1>5, <2>1
  <2>5. Begun' /\ Known' /\ Distinct' /\ Listed' /\ HalfExcused' /\ InTables'
    BY <1>1, <1>6, <1>8, <1>13, <1>f, <2>2, <2>3, <2>4, PassedBy
  <2> QED BY <1>8, <1>11, <1>13, <2>1, <2>2, <2>5, AmidOnward
<1> QED BY <1>3, <1>12, <1>13

\* The loop ends before the entries in rest.
LEMMA EndsEarlyOnward ==
  ASSUME Inv, call.pc \in {"fill", "pictured"}, call.fn \notin Connecting \cup {"macos_threads"},
         NEW c \in Call, NEW rest \in SUBSET Entry, EndsEarly(c, rest),
         c.fn = call.fn, c.kind = call.kind, c.wants = call.wants, c.cells = call.cells,
         c.buffer = call.buffer, c.cursor = call.cursor, call.room <= c.room,
         \A e \in seen.since \cap call.wants :
           e \in rest \/ (call.pc = "fill" /\ e <= call.cursor)
  PROVE  Onward
<1>1. TypeOK /\ Busy /\ call \in Call
  BY DEF Inv, TypeOK, Busy
<1>2. /\ call' \in Call /\ call'.pc = "end" /\ call'.fn = call.fn /\ call'.kind = call.kind
      /\ call'.wants = call.wants /\ call'.cells = call.cells /\ call'.buffer = call.buffer
      /\ call'.room = c.room /\ call'.cursor = c.cursor
  BY DEF EndsEarly, Call
<1>3. /\ seen' \in [since : SUBSET Entry, ever : SUBSET Entry, refused : SUBSET Entry, starved : BOOLEAN]
      /\ seen'.since = seen.since /\ seen'.ever = seen.ever /\ seen'.starved = seen.starved
      /\ seen'.refused = seen.refused \cup rest
  BY <1>1 DEF EndsEarly, TypeOK
<1>4. Amid
  BY <1>1, <1>2, <1>3 DEF Amid, EndsEarly
<1>5. Begun' /\ Known'
  BY <1>1, <1>2, <1>3, <1>4 DEF Inv, Begun, Known, Amid, Busy
<1>6. Fits'
  <2>1. Len(call.cells) <= call.room /\ call.room \in Nat /\ c.room \in Nat /\ Len(call.cells) \in Nat
    BY <1>1 DEF Inv, Fits, Call
  <2>2. Len(call.cells) <= c.room
    BY <2>1
  <2> QED BY <1>2, <2>2 DEF Fits
<1>7. HalfExcused'
  BY <1>2, <1>3 DEF Inv, HalfExcused, Excused
<1>8. OnePerEntry' /\ OnePerIndex' /\ CountedEnough' /\ InTables'
  BY <1>2, <1>4 DEF OnePerEntry, OnePerIndex, CountedEnough, InTables, Amid
<1>9. Listed'
  <2>1. \A e \in seen.since \cap call.wants :
          e \in rest \/ e \in seen.refused \cup Ids(call.cells)
    BY DEF Inv, Listed, Behind
  <2> QED BY <1>2, <1>3, <2>1 DEF Inv, Listed
<1>10. Distinct'
  BY <1>2 DEF Inv, Distinct
<1> QED BY <1>4, <1>5, <1>6, <1>7, <1>8, <1>9, <1>10, AmidOnward

-----------------------------------------------------------------------------
(***************************************************************************)
(* The end of a call.                                                      *)
(***************************************************************************)
LEMMA FailsOnward ==
  ASSUME Inv, NEW f, NEW p, p # "idle", NEW frees, Fails(f, p, frees)
  PROVE  Onward
<1>1. TypeOK /\ Busy /\ ReturnsNull(frees)
  BY DEF Inv, Busy, Fails, At
<1>2. /\ seen' \in [since : SUBSET Entry, ever : SUBSET Entry, refused : SUBSET Entry, starved : BOOLEAN]
      /\ seen'.since = seen.since /\ seen'.ever = seen.ever /\ seen'.refused = seen.refused
      /\ seen'.starved = TRUE
  BY <1>1 DEF Fails, TypeOK
<1> QED BY <1>1, <1>2, EndsWithNull

LEMMA GrowFailsOnward ==
  ASSUME Inv, NEW f, NEW frees, GrowFails(f, frees)
  PROVE  Onward
<1>1. TypeOK /\ Busy /\ ReturnsNull(frees)
  BY DEF Inv, Busy, GrowFails, At
<1>2. /\ seen' \in [since : SUBSET Entry, ever : SUBSET Entry, refused : SUBSET Entry, starved : BOOLEAN]
      /\ seen'.since = seen.since /\ seen'.ever = seen.ever /\ seen'.refused = seen.refused
      /\ seen'.starved = TRUE
  BY <1>1 DEF GrowFails, TypeOK
<1> QED BY <1>1, <1>2, EndsWithNull

LEMMA NothingOnward ==
  ASSUME Inv, Busy, NEW frees, Nothing(frees), Promise!Owed = {}
  PROVE  Onward
<1>1. TypeOK /\ ReturnsNull(frees) /\ seen' = seen
  BY DEF Inv, Nothing
<1>2. /\ seen' \in [since : SUBSET Entry, ever : SUBSET Entry, refused : SUBSET Entry, starved : BOOLEAN]
  BY <1>1 DEF TypeOK
<1> QED BY <1>1, <1>2, EndsWithNull

LEMMA GivesAnyOnward ==
  ASSUME Inv, Busy, NEW list, NEW count, NEW room, NEW frees,
         GivesAny(list, count, room, frees), Answerable(list, count, room)
  PROVE  Onward
<1>1. CASE list = <<>>
  <2>1. Ids(list) = {} /\ Nothing(frees)
    BY <1>1, EmptyIds DEF GivesAny
  <2>2. Promise!Owed = {}
    BY <2>1 DEF Answerable
  <2> QED BY <2>1, <2>2, NothingOnward
<1>2. CASE list # <<>>
  BY <1>2, EndsWithAnswer DEF GivesAny
<1> QED BY <1>1, <1>2

\* The picture is empty.
LEMMA NothingPictured ==
  ASSUME Inv, call.pc = "pictured", Cardinality(call.buffer) = 0, call.fn # "windows_pids"
  PROVE  Promise!Owed = {} /\ Busy
<1>1. call.buffer \in SUBSET Entry /\ seen.since \subseteq call.buffer /\ Busy
  BY DEF Inv, TypeOK, Call, Known, Busy
<1>2. IsFiniteSet(call.buffer)
  BY <1>1, FiniteEntries
<1>3. call.buffer = {}
  BY <1>2, FS_EmptySet
<1> QED BY <1>1, <1>3 DEF Promise!Owed

\* There is nothing to count, or no memory for the array.
LEMMA MakesNoneOnward ==
  ASSUME Inv, NEW f \in TwoPass, NEW source \in SUBSET Entry, NEW frees, MakesNone(f, source, frees),
         seen.since \subseteq source
  PROVE  Onward
<1>1. TypeOK /\ Busy /\ ReturnsNull(frees) /\ call.pc = "count" /\ call.fn = f
      /\ Unread(source) = {} /\ call.counted \in Nat
  BY DEF Inv, Busy, MakesNone, At, TypeOK, Call
<1>2. /\ seen' \in [since : SUBSET Entry, ever : SUBSET Entry, refused : SUBSET Entry, starved : BOOLEAN]
      /\ seen'.since = seen.since /\ seen'.ever = seen.ever /\ seen'.refused = seen.refused
      /\ seen'.starved = (call.counted > 0)
  <2> DEFINE b == call.counted > 0
  <2>1. b \in BOOLEAN /\ seen' = [seen EXCEPT !.starved = b]
    BY DEF MakesNone
  <2> HIDE DEF b
  <2>2. /\ seen' \in [since : SUBSET Entry, ever : SUBSET Entry, refused : SUBSET Entry, starved : BOOLEAN]
        /\ seen'.since = seen.since /\ seen'.ever = seen.ever /\ seen'.refused = seen.refused
        /\ seen'.starved = b
    BY <1>1, <2>1 DEF TypeOK
  <2> QED BY <2>2 DEF b
<1>3. call.counted = 0 => Promise!Owed = {}
  <2>1. \A x \in source : x <= call.cursor
    BY <1>1, AllBehind
  <2>2. Foreseen = seen.since \cap call.wants /\ Foreseen \in SUBSET Entry
    BY <1>1, <2>1 DEF Foreseen, TypeOK
  <2>3. Cardinality(Foreseen) <= call.counted
    BY <1>1 DEF Inv, CountedEnough
  <2>4. call.counted = 0 => Cardinality(Foreseen) = 0
    <3> HIDE DEF Foreseen
    <3>1. Cardinality(Foreseen) \in Nat
      BY <2>2, FiniteEntries
    <3> QED BY <2>3, <3>1
  <2>5. call.counted = 0 => Foreseen = {}
    <3> HIDE DEF Foreseen
    <3>1. IsFiniteSet(Foreseen)
      BY <2>2, FiniteEntries
    <3> QED BY <2>4, <3>1, FS_EmptySet
  <2> QED BY <2>2, <2>5 DEF Promise!Owed
<1>4. seen'.starved = TRUE \/ Promise!Owed = {}
  <2>1. CASE call.counted = 0
    BY <1>3, <2>1
  <2>2. CASE call.counted # 0
    <3>1. call.counted > 0
      BY <1>1, <2>2
    <3> QED BY <1>2, <3>1
  <2> QED BY <2>1, <2>2
<1> QED BY <1>1, <1>2, <1>4, EndsWithNull

\* A list is as long as the set of what it names.
LEMMA IdsCounted ==
  ASSUME NEW s \in Seq(Cell), \A i \in DOMAIN s : s[i].id # 0,
         \A i, j \in DOMAIN s : i < j => s[i].id # s[j].id
  PROVE  Ids(s) \in SUBSET Entry /\ Cardinality(Ids(s)) = Len(s)
<1> DEFINE n == Len(s)
           f == [i \in 1..n |-> s[i].id]
<1>1. n \in Nat /\ DOMAIN s = 1..n
  OBVIOUS
<1>2. Ids(s) = {s[i].id : i \in 1..n}
  BY <1>1 DEF Ids
<1>3. \A i \in 1..n : s[i].id \in Entry
  <2>1. ASSUME NEW i \in 1..n PROVE s[i].id \in Entry
    <3>1. s[i] \in Cell /\ s[i].id # 0
      BY <1>1
    <3>2. s[i].id \in Entry \cup {0}
      BY <3>1 DEF Cell
    <3> QED BY <3>1, <3>2
  <2> QED BY <2>1
<1>4. \A i, j \in 1..n : i # j => f[i] # f[j]
  <2>1. ASSUME NEW i \in 1..n, NEW j \in 1..n, i # j PROVE f[i] # f[j]
    <3>1. i < j \/ j < i
      BY <1>1, <2>1
    <3> QED BY <1>1, <3>1
  <2> QED BY <2>1
<1>5. f \in Bijection(1..n, Ids(s))
  BY <1>2, <1>4 DEF Bijection, Injection, Surjection, IsInjective
<1>6. ExistsBijection(1..n, Ids(s))
  BY <1>5 DEF ExistsBijection
<1>7. Cardinality(Ids(s)) = n
  BY <1>1, <1>6, FS_CountingElements
<1> QED BY <1>2, <1>3, <1>7

\* What has been collected may be given, if all that is owed is in it.
LEMMA CellsAnswerable ==
  ASSUME Inv, Busy, NEW count \in Nat, Len(call.cells) <= call.room,
         count # Len(call.cells) =>
           call.fn = "bsd_users" /\ count > Len(call.cells) /\ seen.ever \ seen.since # {},
         \/ Promise!Owed \subseteq Ids(call.cells)
         \/ call.fn \in TwoPass /\ Ids(call.cells) \ seen.since # {}
  PROVE  Answerable(call.cells, count, call.room)
<1>1. call.cells \in Seq(Cell) /\ call.room \in Nat
  BY DEF Inv, TypeOK, Call
<1>2. \A i, j \in DOMAIN call.cells :
        i < j /\ call.cells[i].id # 0 => call.cells[i].id # call.cells[j].id
  BY DEF Inv, Distinct
<1>3. \A i \in DOMAIN call.cells : Excused(call.fn, call.cells[i])
  BY DEF Inv, HalfExcused
<1>4. Ids(call.cells) \subseteq seen.ever \cap call.wants
  BY DEF Inv, Listed
<1> QED BY <1>1, <1>2, <1>3, <1>4 DEF Answerable

\* A number has no array.
LEMMA NumberAnswerable ==
  ASSUME Inv, Busy, Promise!Owed \subseteq Ids(call.cells)
  PROVE  Answerable(call.cells, Len(call.cells), Len(call.cells))
<1>1. call.cells \in Seq(Cell) /\ Len(call.cells) \in Nat /\ Len(call.cells) <= Len(call.cells)
  <2>1. call.cells \in Seq(Cell) /\ Len(call.cells) \in Nat
    BY DEF Inv, TypeOK, Call
  <2> QED BY <2>1
<1>2. \A i, j \in DOMAIN call.cells :
        i < j /\ call.cells[i].id # 0 => call.cells[i].id # call.cells[j].id
  BY DEF Inv, Distinct
<1>3. \A i \in DOMAIN call.cells : Excused(call.fn, call.cells[i])
  BY DEF Inv, HalfExcused
<1>4. Ids(call.cells) \subseteq seen.ever \cap call.wants
  BY DEF Inv, Listed
<1> QED BY <1>1, <1>2, <1>3, <1>4 DEF Answerable

\* The source, or the picture, has been gone through to its end.
LEMMA AllStored ==
  ASSUME Inv, call.pc \in {"fill", "add"}, \A e \in seen.since \cap call.wants : e <= call.cursor
  PROVE  Promise!Owed \subseteq Ids(call.cells)
  BY DEF Inv, Listed, Behind, Promise!Owed

\* Of a picture of which each entry gets one element at most, nothing is left
\* over when the array is full.
LEMMA PictureStored ==
  ASSUME Inv, call.pc = "fill", call.fn \in Photographed, NEW source \in SUBSET call.buffer,
         ~More(source), seen.since \cap call.wants \subseteq source
  PROVE  Promise!Owed \subseteq Ids(call.cells)
<1>1. TypeOK /\ call.buffer \in SUBSET Entry /\ call.cursor \in Nat /\ source \in SUBSET Entry
      /\ Len(call.cells) \in Nat
  BY DEF Inv, TypeOK, Call
<1>2. \A e \in source : e <= call.cursor
  <2>1. CASE Unread(source) = {}
    BY <1>1, <2>1, AllBehind
  <2>2. CASE Unread(source) # {}
    <3> DEFINE G == {e \in call.buffer : Behind(e)}
    <3>1. call.counted = Cardinality(call.buffer) /\ Len(call.cells) <= Cardinality(G)
      BY DEF Inv, OnePerEntry
    <3>2. ~(Len(call.cells) < call.counted)
      BY <2>2 DEF More
    <3>3. G \in SUBSET call.buffer /\ G \in SUBSET Entry
      BY <1>1
    <3> HIDE DEF G
    <3>4. Cardinality(G) \in Nat /\ Cardinality(call.buffer) \in Nat
          /\ Cardinality(G) <= Cardinality(call.buffer)
      BY <1>1, <3>3, FiniteEntries, FewerEntries
    <3>5. Cardinality(G) = Cardinality(call.buffer)
      BY <1>1, <3>1, <3>2, <3>4
    <3>6. G = call.buffer
      BY <1>1, <3>3, <3>5, FewerEntries
    <3> QED BY <3>6 DEF G, Behind
  <2> QED BY <2>1, <2>2
<1> QED BY <1>2, AllStored

\* Of a source that is read twice, something is left over when the array is full
\* only if a newcomer has taken its place.
LEMMA SourceStored ==
  ASSUME Inv, call.pc = "fill", call.fn \in TwoPass, NEW source \in SUBSET Entry,
         ~More(source), seen.since \subseteq source
  PROVE  \/ Promise!Owed \subseteq Ids(call.cells)
         \/ call.fn \in TwoPass /\ Ids(call.cells) \ seen.since # {}
<1>1. TypeOK /\ call.cells \in Seq(Cell) /\ Len(call.cells) \in Nat /\ call.counted \in Nat
  BY DEF Inv, TypeOK, Call
<1>2. CASE Unread(source) = {}
  <2>1. \A e \in seen.since \cap call.wants : e <= call.cursor
    BY <1>1, <1>2, AllBehind
  <2> QED BY <2>1, AllStored
<1>3. CASE Unread(source) # {} /\ Ids(call.cells) \subseteq seen.since
  <2> DEFINE F == seen.since \cap call.wants
             A == Ids(call.cells)
  <2>1. ~(Len(call.cells) < call.counted)
    BY <1>3 DEF More
  <2>2. Cardinality(F) <= call.counted
    <3>1. Foreseen = F
      BY DEF Foreseen
    <3> QED BY <3>1 DEF Inv, CountedEnough
  <2>3. A \subseteq F /\ F \in SUBSET Entry
    BY <1>1, <1>3 DEF Inv, Listed, TypeOK
  <2>4. Cardinality(A) = Len(call.cells)
    <3>1. \A i \in DOMAIN call.cells : call.cells[i].id # 0
      BY DEF Inv, Distinct, TwoPass
    <3>2. \A i, j \in DOMAIN call.cells : i < j => call.cells[i].id # call.cells[j].id
      BY <3>1 DEF Inv, Distinct
    <3> QED BY <1>1, <3>1, <3>2, IdsCounted
  <2> HIDE DEF F, A
  <2>5. Cardinality(A) <= Cardinality(F) /\ Cardinality(F) \in Nat /\ Cardinality(A) \in Nat
    BY <2>3, FiniteEntries, FewerEntries
  <2>6. Cardinality(A) = Cardinality(F)
    BY <1>1, <2>1, <2>2, <2>4, <2>5
  <2>7. A = F
    BY <2>3, <2>6, FewerEntries
  <2> QED BY <2>7 DEF A, F, Promise!Owed
<1>4. CASE Unread(source) # {} /\ ~(Ids(call.cells) \subseteq seen.since)
  BY <1>4
<1> QED BY <1>2, <1>3, <1>4

\* An end mark is added.
LEMMA Marked ==
  ASSUME NEW list, NEW r, Answerable(list, Len(list), r), NEW room \in Nat, Len(list) + 1 <= room
  PROVE  /\ Answerable(Append(list, EndMark), Len(Append(list, EndMark)), room)
         /\ Len(Append(list, EndMark)) = Len(list) + 1
<1> DEFINE t == Append(list, EndMark)
           b == TRUE
<1>1. list \in Seq(Cell) /\ Len(list) \in Nat /\ DOMAIN list = 1..Len(list)
  BY IndexOfSequence DEF Answerable
<1>2. EndMark \in Cell /\ EndMark.id = 0 /\ EndMark.full = b
  <2>1. EndMark = [id |-> 0, full |-> b] /\ b \in BOOLEAN
    BY DEF EndMark
  <2> HIDE DEF b
  <2> QED BY <2>1 DEF Cell
<1>3. /\ t \in Seq(Cell) /\ Len(t) = Len(list) + 1
      /\ DOMAIN t = DOMAIN list \cup {Len(list) + 1}
      /\ \A i \in DOMAIN list : t[i] = list[i]
      /\ t[Len(list) + 1] = EndMark
      /\ Ids(t) = Ids(list)
  <2>1. Ids(t) = Ids(list) \cup ({EndMark.id} \ {0})
    BY <1>1, <1>2, IdsAppended
  <2>2. {EndMark.id} \ {0} = {}
    BY <1>2
  <2>3. /\ t \in Seq(Cell) /\ Len(t) = Len(list) + 1
        /\ DOMAIN t = DOMAIN list \cup {Len(list) + 1}
        /\ \A i \in DOMAIN list : t[i] = list[i]
        /\ t[Len(list) + 1] = EndMark
    BY <1>1, <1>2, Appended
  <2> QED BY <2>1, <2>2, <2>3
<1> HIDE DEF t
<1>4. Len(t) \in Nat /\ Len(t) <= room
  BY <1>1, <1>3
<1>5. ASSUME NEW i \in DOMAIN t, NEW j \in DOMAIN t, i < j, t[i].id # 0
      PROVE  t[i].id # t[j].id
  <2>1. i # Len(list) + 1
    BY <1>2, <1>3, <1>5
  <2>2. i \in DOMAIN list /\ t[i] = list[i]
    BY <1>3, <2>1
  <2>3. CASE j \in DOMAIN list
    BY <1>3, <1>5, <2>2, <2>3 DEF Answerable
  <2>4. CASE j = Len(list) + 1
    BY <1>2, <1>3, <1>5, <2>4
  <2> QED BY <1>3, <2>3, <2>4
<1>6. \A i \in DOMAIN t : Excused(call.fn, t[i])
  <2>1. Excused(call.fn, EndMark)
    BY <1>2 DEF Excused, b
  <2>2. \A i \in DOMAIN list : Excused(call.fn, list[i])
    BY DEF Answerable
  <2> HIDE DEF Excused
  <2> QED BY <1>3, <2>1, <2>2
<1>7. /\ Ids(t) \subseteq seen.ever \cap call.wants
      /\ \/ Promise!Owed \subseteq Ids(t)
         \/ call.fn \in TwoPass /\ Ids(t) \ seen.since # {}
  BY <1>3 DEF Answerable
<1>8. Answerable(t, Len(t), room)
  BY <1>3, <1>4, <1>5, <1>6, <1>7 DEF Answerable
<1> QED BY <1>3, <1>8 DEF t

\* The elements of a list made of a picture.
LEMMA CopiedRight ==
  ASSUME TypeOK, NEW picture \in SUBSET Entry, NEW n \in Nat
  PROVE  LET list == Copied(picture, n)
             S == picture \cap call.wants
         IN  /\ list \in Seq(Cell) /\ Len(list) <= n /\ Len(list) <= Cardinality(S)
             /\ \A i \in DOMAIN list : list[i].full = TRUE
             /\ \A i, j \in DOMAIN list : i < j => list[i].id # list[j].id
             /\ Ids(list) \subseteq S
             /\ Cardinality(S) <= n => Len(list) = Cardinality(S) /\ Ids(list) = S
<1> DEFINE S == picture \cap call.wants
           s == SetToSeq(S)
           m == IF Len(s) < n THEN Len(s) ELSE n
           b == TRUE
           t == [i \in 1..m |-> [id |-> s[i], full |-> b]]
<1>1. Copied(picture, n) = t
  BY DEF Copied
<1>2. S \in SUBSET Entry
  OBVIOUS
<1> HIDE DEF S
<1>3. /\ s \in Seq(S) /\ Len(s) = Cardinality(S)
      /\ \A i, j \in 1..Len(s) : i # j => s[i] # s[j]
      /\ \A e \in S : \E i \in 1..Len(s) : s[i] = e
  BY <1>2, InSomeOrder
<1> HIDE DEF s
<1>4. Len(s) \in Nat
  BY <1>3
<1>5. m \in Nat /\ m <= n /\ m <= Len(s) /\ (Len(s) <= n => m = Len(s))
  <2> DEFINE k == Len(s)
  <2>1. k \in Nat /\ m = IF k < n THEN k ELSE n
    BY <1>4
  <2> HIDE DEF k, m
  <2>2. m \in Nat /\ m <= n /\ m <= k /\ (k <= n => m = k)
    BY <2>1
  <2> QED BY <2>2 DEF k
<1> HIDE DEF m
<1>6. 1..m \subseteq 1..Len(s)
  BY <1>4, <1>5
<1>7. \A i \in 1..m : s[i] \in S /\ s[i] \in Entry
  BY <1>2, <1>3, <1>4, <1>6
<1>b. b \in BOOLEAN
  OBVIOUS
<1> HIDE DEF b
<1>8. /\ t \in Seq(Cell) /\ Len(t) = m /\ DOMAIN t = 1..m
      /\ \A i \in 1..m : t[i].id = s[i] /\ t[i].full = b
  <2>1. \A i \in 1..m : [id |-> s[i], full |-> b] \in Cell
    BY <1>7, <1>b DEF Cell
  <2>2. t \in [1..m -> Cell]
    BY <2>1
  <2>3. t \in Seq(Cell) /\ Len(t) = m /\ DOMAIN t = 1..m
    BY <1>5, <2>2
  <2> QED BY <2>3
<1> HIDE DEF t
<1>9. \A i, j \in 1..m : i < j => t[i].id # t[j].id
  <2>1. ASSUME NEW i \in 1..m, NEW j \in 1..m, i < j PROVE t[i].id # t[j].id
    <3>1. i # j
      BY <1>5, <2>1
    <3> QED BY <1>3, <1>6, <1>8, <3>1
  <2> QED BY <2>1
<1>10. Ids(t) = {s[i] : i \in 1..m}
  <2>1. \A i \in 1..m : s[i] # 0
    BY <1>7, ListStepsAssumption
  <2> QED BY <1>8, <2>1 DEF Ids
<1>11. Ids(t) \subseteq S
  BY <1>7, <1>10
<1>12. Cardinality(S) <= n => Len(t) = Cardinality(S) /\ Ids(t) = S
  BY <1>3, <1>5, <1>8, <1>10, <1>11
<1>13. \A i \in DOMAIN t : t[i].full = TRUE
  BY <1>8 DEF b
<1>14. Len(t) <= n /\ Len(t) <= Cardinality(S)
  BY <1>3, <1>5, <1>8
<1>15. \A i, j \in DOMAIN t : i < j => t[i].id # t[j].id
  BY <1>8, <1>9
<1> QED BY <1>1, <1>8, <1>11, <1>12, <1>13, <1>14, <1>15 DEF S

\* A picture is given as it is, but for what is not wanted.
LEMMA CopiedAnswerable ==
  ASSUME Inv, call.pc = "pictured", NEW n \in Nat, Cardinality(call.buffer \cap call.wants) <= n,
         NEW list, list = Copied(call.buffer, n),
         NEW count \in Nat, NEW room \in Nat, Len(list) <= room,
         count # Len(list) =>
           \/ call.fn = "macos_net_if_stats" /\ count > Len(list) /\ seen.ever \ Wanted # {}
           \/ call.fn = "windows_num_threads" /\ list = <<>>
  PROVE  Answerable(list, count, room)
<1> DEFINE S == call.buffer \cap call.wants
<1>1. TypeOK /\ call.buffer \in SUBSET Entry /\ Busy
  BY DEF Inv, TypeOK, Call, Busy
<1>2. /\ list \in Seq(Cell)
      /\ \A i \in DOMAIN list : list[i].full = TRUE
      /\ \A i, j \in DOMAIN list : i < j => list[i].id # list[j].id
      /\ Ids(list) = S
  BY <1>1, CopiedRight
<1>3. S \subseteq seen.ever \cap call.wants /\ Promise!Owed \subseteq S
  BY <1>1 DEF Inv, Known, Promise!Owed
<1> HIDE DEF S
<1>4. \A i \in DOMAIN list : Excused(call.fn, list[i])
  BY <1>2 DEF Excused
<1> QED BY <1>2, <1>3, <1>4 DEF Answerable

\* How long such a list is, with room for the whole picture.
LEMMA CopiedWhole ==
  ASSUME Inv, call.pc = "pictured", NEW n, n = Cardinality(call.buffer),
         NEW list, list = Copied(call.buffer, n)
  PROVE  /\ Len(list) \in Nat /\ n \in Nat /\ Len(list) <= n /\ Len(list) <= Len(list)
         /\ Cardinality(call.buffer \cap call.wants) <= n
         /\ Len(list) = n \/ (Len(list) < n /\ call.buffer \ call.wants # {})
<1>1. TypeOK /\ call.buffer \in SUBSET Entry
  BY DEF Inv, TypeOK, Call
<1>2. n \in Nat
  BY <1>1, FiniteEntries
<1> DEFINE S == call.buffer \cap call.wants
<1>3. S \in SUBSET call.buffer
  OBVIOUS
<1>4. Cardinality(S) <= n
  BY <1>1, <1>3, FewerEntries
<1>5. list \in Seq(Cell) /\ Len(list) = Cardinality(S)
  BY <1>1, <1>2, <1>4, CopiedRight
<1>6. Len(list) \in Nat
  BY <1>5
<1>7. Cardinality(S) = n => S = call.buffer
  BY <1>1, <1>3, FewerEntries
<1>8. Len(list) <= n /\ Len(list) <= Len(list) /\ (Len(list) = n \/ Len(list) < n)
  BY <1>2, <1>4, <1>5, <1>6
<1>9. call.buffer \subseteq call.wants => Len(list) = n
  <2>1. call.buffer \subseteq call.wants => S = call.buffer
    OBVIOUS
  <2> HIDE DEF S
  <2> QED BY <1>5, <2>1
<1> QED BY <1>2, <1>4, <1>6, <1>8, <1>9

-----------------------------------------------------------------------------
(***************************************************************************)
(* Connections, table after table.                                         *)
(***************************************************************************)

\* A connection is in one table.
LEMMA TablesApart ==
  ASSUME NEW f
  PROVE  /\ Len(TablesOf(f)) \in Nat /\ DOMAIN TablesOf(f) = 1..Len(TablesOf(f))
         /\ \A t : \A j, k \in DOMAIN TablesOf(f) :
              t \in TablesOf(f)[j] /\ t \in TablesOf(f)[k] => j = k
<1>1. CASE f = "windows_net_connections"
  <2> DEFINE a == {"tcp4"}
             b == {"tcp6"}
             c == {"udp4"}
             d == {"udp6"}
  <2>1. TablesOf(f) = <<a, b, c, d>>
    BY <1>1 DEF TablesOf
  <2>2. \A t : /\ ~(t \in a /\ t \in b) /\ ~(t \in a /\ t \in c) /\ ~(t \in a /\ t \in d)
               /\ ~(t \in b /\ t \in c) /\ ~(t \in b /\ t \in d) /\ ~(t \in c /\ t \in d)
    OBVIOUS
  <2> HIDE DEF a, b, c, d
  <2> QED BY <2>1, <2>2
<1>2. CASE f # "windows_net_connections"
  <2> DEFINE a == {"tcp4", "tcp6"}
             b == {"udp4", "udp6"}
  <2>1. TablesOf(f) = <<a, b>>
    BY <1>2 DEF TablesOf
  <2>2. \A t : ~(t \in a /\ t \in b)
    OBVIOUS
  <2> HIDE DEF a, b
  <2> QED BY <2>1, <2>2
<1> QED BY <1>1, <1>2

LEMMA ConnectingAlone ==
  ASSUME NEW f \in Connecting
  PROVE  /\ f \notin Growing /\ f \notin Photographed /\ f \notin ByIndex /\ f \notin TwoPass
         /\ f \notin Unfiltered /\ f \notin Everything
         /\ f \notin {"macos_net_if_stats", "windows_disk_partitions", "windows_pids",
                      "macos_threads", "bsd_users"}
  BY DEF Connecting, Growing, Photographed, ByIndex, TwoPass, Unfiltered, Everything

\* What such a step has to show.
LEMMA TablesOnward ==
  ASSUME Inv, Amid, call.fn \in Connecting, call'.pc \in {"table", "asked", "rows"},
         call'.buffer \subseteq seen.ever, Len(call'.cells) <= call'.room, call'.room > 0,
         Distinct', Ids(call'.cells) \subseteq seen.ever \cap call.wants, HalfExcused', InTables'
  PROVE  Onward
<1>1. Begun'
  BY DEF Inv, Begun, Amid, Busy
<1>2. Known'
  BY ConnectingAlone DEF Inv, Known, Amid, Busy
<1>3. Fits' /\ Listed'
  BY DEF Fits, Listed, Amid
<1>4. OnePerEntry' /\ OnePerIndex' /\ CountedEnough'
  BY DEF OnePerEntry, OnePerIndex, CountedEnough
<1> QED BY <1>1, <1>2, <1>3, <1>4, AmidOnward

\* Nothing is stored in it.
LEMMA TablesPassed ==
  ASSUME Inv, Amid, call.fn \in Connecting, call.pc \in {"table", "asked", "rows"},
         call'.pc \in {"table", "asked", "rows"}, call'.buffer \subseteq seen.ever,
         call'.cells = call.cells, call'.room = call.room, InTables'
  PROVE  Onward
<1>1. Len(call'.cells) <= call'.room /\ call'.room > 0
  BY DEF Inv, Fits
<1>2. Distinct'
  BY DEF Inv, Distinct, Amid
<1>3. Ids(call'.cells) \subseteq seen.ever \cap call.wants
  BY DEF Inv, Listed
<1>4. HalfExcused'
  BY DEF Inv, HalfExcused, Excused, Amid
<1> QED BY <1>1, <1>2, <1>3, <1>4, TablesOnward

LEMMA BeginsOnward ==
  ASSUME Inv, NEW f \in Connecting, Begins(f, TablesOf(f))
  PROVE  Onward
<1> DEFINE tables == TablesOf(f)
<1>1. CASE \E kind \in Kinds :
             Enters(f, {e \in Entry : \E i \in DOMAIN tables :
                          Table[e] \in tables[i] /\ IsAsked(kind, tables[i])}, kind)
  <2>1. PICK kind \in Kinds :
             Enters(f, {e \in Entry : \E i \in DOMAIN tables :
                          Table[e] \in tables[i] /\ IsAsked(kind, tables[i])}, kind)
    BY <1>1
  <2> DEFINE wants == {e \in Entry : \E i \in DOMAIN tables :
                          Table[e] \in tables[i] /\ IsAsked(kind, tables[i])}
  <2>2. Enters(f, wants, kind) /\ wants \in SUBSET Entry /\ kind \in Kinds \cup {"none"}
    BY <2>1
  <2>3. wants = {e \in Entry : \E k \in DOMAIN TablesOf(f) :
                               Table[e] \in TablesOf(f)[k] /\ IsAsked(kind, TablesOf(f)[k])}
    OBVIOUS
  <2> HIDE DEF wants
  <2> QED BY <2>2, <2>3, ConnectingAlone, Starts
<1>2. CASE Fails(f, "called", {})
  BY <1>2, FailsOnward
<1>3. CASE /\ At(f, "called")
           /\ call' = [call EXCEPT !.pc = "table", !.cursor = 1, !.room = Room]
           /\ held' = {"connections"}
           /\ UNCHANGED <<there, answer, seen>>
  <2>1. TypeOK /\ Busy /\ call \in Call /\ call.pc = "called" /\ call.fn = f
    BY <1>3 DEF Inv, TypeOK, Busy, At
  <2>2. Room \in Nat /\ Room > 0
    BY ListStepsAssumption
  <2>3. /\ call' \in Call /\ call'.pc = "table" /\ call'.cursor = 1 /\ call'.room = Room
        /\ call'.fn = call.fn /\ call'.kind = call.kind /\ call'.wants = call.wants
        /\ call'.buffer = call.buffer /\ call'.cells = call.cells
    BY <1>3, <2>1, <2>2 DEF Call
  <2>4. Amid
    BY <1>3, <2>1, <2>3 DEF Amid, TypeOK
  <2>5. call.cells = <<>> /\ call.buffer = {}
    BY <2>1 DEF Inv, Begun
  <2>6. DOMAIN call'.cells = {} /\ Len(call'.cells) = 0 /\ Ids(call'.cells) = {}
    BY <2>3, <2>5, EmptySequence, EmptyIds
  <2>7. Distinct' /\ HalfExcused'
    BY <2>3, <2>6 DEF Distinct, HalfExcused
  <2>8. InTables'
    <3>1. \A k \in DOMAIN TablesOf(f) : k \in Nat /\ k > 0 /\ ~(k < 1) /\ 1 > 0
      BY TablesApart
    <3>2. Busy' /\ call'.buffer = {}
      BY <2>3, <2>5 DEF Busy
    <3> QED BY <2>1, <2>3, <2>6, <3>1, <3>2 DEF Inv, InTables
  <2>9. Len(call'.cells) <= call'.room
    BY <2>2, <2>3, <2>6
  <2> QED BY <2>1, <2>2, <2>3, <2>4, <2>5, <2>6, <2>7, <2>8, <2>9, TablesOnward
<1> QED BY <1>1, <1>2, <1>3 DEF Begins

\* On to the next table.
LEMMA NextTable ==
  ASSUME Inv, Amid, call.fn \in Connecting, call.pc \in {"table", "asked", "rows"},
         call.cursor <= Len(TablesOf(call.fn)), call.buffer = {},
         call'.pc = "table", call'.cursor = call.cursor + 1, call'.buffer = {},
         call'.cells = call.cells, call'.room = call.room,
         \A e \in seen.since \cap call.wants :
           Table[e] \in TablesOf(call.fn)[call.cursor] => e \in seen'.refused \cup Ids(call.cells)
  PROVE  Onward
<1> DEFINE tables == TablesOf(call.fn)
           n == call.cursor
<1>1. n \in Nat /\ n > 0
  BY DEF Inv, TypeOK, Call, InTables
<1>2. TablesOf(call'.fn) = tables /\ (\A k \in DOMAIN tables : k \in Nat)
  BY TablesApart DEF Amid
<1>3. \A k \in DOMAIN tables : k < n + 1 => k < n \/ k = n
  BY <1>1, <1>2
<1>4. \A k \in DOMAIN tables : (k < n \/ k = n) => k < n + 1
  BY <1>1, <1>2
<1>5. \A i \in DOMAIN call.cells : \E k \in DOMAIN tables :
        Table[call.cells[i].id] \in tables[k] /\ k < n + 1
  BY <1>4 DEF Inv, InTables
<1>6. \A k \in DOMAIN tables : \A e \in seen.since \cap call.wants :
        Table[e] \in tables[k] /\ k < n + 1 => e \in seen'.refused \cup Ids(call.cells)
  <2>1. ASSUME NEW k \in DOMAIN tables, NEW e \in seen.since \cap call.wants,
               Table[e] \in tables[k], k < n + 1
        PROVE  e \in seen'.refused \cup Ids(call.cells)
    <3>1. CASE k < n
      <4>1. e \in seen.refused \cup Ids(call.cells)
        BY <2>1, <3>1 DEF Inv, InTables
      <4> QED BY <4>1 DEF Amid
    <3>2. CASE k = n
      BY <2>1, <3>2
    <3> QED BY <1>3, <2>1, <3>1, <3>2
  <2> QED BY <2>1
<1>7. call'.cursor > 0
  BY <1>1
<1>8. call'.wants = {e \in Entry : \E k \in DOMAIN tables :
                       Table[e] \in tables[k] /\ IsAsked(call'.kind, tables[k])}
  BY DEF Inv, InTables, Amid
<1>9. InTables'
  <2> HIDE DEF tables
  <2>1. Busy' /\ call'.fn \in Connecting /\ seen'.since = seen.since /\ call'.wants = call.wants
    BY DEF Amid, Busy
  <2> QED BY <1>2, <1>5, <1>6, <1>7, <1>8, <2>1 DEF InTables
<1> QED BY <1>9, TablesPassed

LEMMA NotAskedOnward ==
  ASSUME Inv, NEW f \in Connecting, NotAsked(f, TablesOf(f))
  PROVE  Onward
<1>1. TypeOK /\ Busy /\ call \in Call /\ call.pc = "table" /\ call.fn = f
      /\ call.cursor <= Len(TablesOf(f)) /\ call.cursor \in Nat
      /\ ~IsAsked(call.kind, TablesOf(f)[call.cursor])
  BY DEF Inv, TypeOK, Call, Busy, At, NotAsked, OnTable, Current
<1>2. call.cursor + 1 \in Nat
  BY <1>1
<1>3. /\ call' \in Call /\ call'.pc = "table" /\ call'.cursor = call.cursor + 1
      /\ call'.room = call.room
      /\ call'.fn = call.fn /\ call'.kind = call.kind /\ call'.wants = call.wants
      /\ call'.buffer = call.buffer /\ call'.cells = call.cells
  <2> DEFINE n == call.cursor + 1
  <2>1. call' = [call EXCEPT !.cursor = n]
    BY DEF NotAsked
  <2> HIDE DEF n
  <2> QED BY <1>1, <1>2, <2>1 DEF Call, n
<1>4. Amid
  BY <1>1, <1>3 DEF Amid, TypeOK, NotAsked
<1>5. call.buffer = {} /\ call.cursor > 0
  BY <1>1 DEF Inv, InTables
<1>6. call.cursor \in DOMAIN TablesOf(f)
  BY <1>1, <1>5, TablesApart
<1>7. \A e \in seen.since \cap call.wants : Table[e] \notin TablesOf(f)[call.cursor]
  <2>1. ASSUME NEW e \in seen.since \cap call.wants, Table[e] \in TablesOf(f)[call.cursor]
        PROVE  FALSE
    <3>1. PICK k \in DOMAIN TablesOf(f) :
            Table[e] \in TablesOf(f)[k] /\ IsAsked(call.kind, TablesOf(f)[k])
      BY <1>1 DEF Inv, InTables
    <3>2. k = call.cursor
      BY <1>6, <2>1, <3>1, TablesApart
    <3> QED BY <1>1, <3>1, <3>2
  <2> QED BY <2>1
<1> QED BY <1>1, <1>3, <1>4, <1>5, <1>7, NextTable

LEMMA SkipsOnward ==
  ASSUME Inv, NEW f \in Connecting, Skips(f, TablesOf(f))
  PROVE  Onward
<1>1. TypeOK /\ Busy /\ call \in Call /\ call.pc \in {"table", "asked"} /\ call.fn = f
      /\ call.cursor \in Nat
  BY DEF Inv, TypeOK, Call, Busy, At, Skips, OnTable
<1>2. call.cursor <= Len(TablesOf(f)) /\ call.buffer = {}
  BY <1>1 DEF Inv, InTables, Skips, OnTable, At
<1>3. call.cursor + 1 \in Nat /\ 0 \in Nat
  BY <1>1
<1>4. /\ call' \in Call /\ call'.pc = "table" /\ call'.cursor = call.cursor + 1
      /\ call'.room = call.room
      /\ call'.fn = call.fn /\ call'.kind = call.kind /\ call'.wants = call.wants
      /\ call'.buffer = call.buffer /\ call'.cells = call.cells
  <2> DEFINE n == call.cursor + 1
  <2>1. call' = [call EXCEPT !.pc = "table", !.cursor = n, !.size = 0]
    BY DEF Skips
  <2> HIDE DEF n
  <2> QED BY <1>1, <1>3, <2>1 DEF Call, n
<1>5. /\ seen' \in [since : SUBSET Entry, ever : SUBSET Entry, refused : SUBSET Entry, starved : BOOLEAN]
      /\ seen'.since = seen.since /\ seen'.ever = seen.ever /\ seen'.starved = seen.starved
      /\ seen'.refused = seen.refused \cup InTable(TablesOf(f)[call.cursor])
  <2>1. InTable(TablesOf(f)[call.cursor]) \in SUBSET Entry
    BY DEF InTable
  <2>2. seen' = [seen EXCEPT !.refused = @ \cup InTable(TablesOf(f)[call.cursor])]
    BY DEF Skips, Current
  <2> HIDE DEF InTable
  <2> QED BY <1>1, <2>1, <2>2 DEF TypeOK
<1>6. Amid
  BY <1>1, <1>4, <1>5 DEF Amid, Skips
<1>7. \A e \in seen.since \cap call.wants :
        Table[e] \in TablesOf(f)[call.cursor] => e \in seen'.refused
  BY <1>1, <1>5 DEF InTable, TypeOK
<1> QED BY <1>1, <1>2, <1>4, <1>6, <1>7, NextTable

LEMMA EndsTableOnward ==
  ASSUME Inv, NEW f \in Connecting, EndsTable(f)
  PROVE  Onward
<1>1. TypeOK /\ Busy /\ call \in Call /\ call.pc = "rows" /\ call.fn = f
      /\ call.cursor \in Nat /\ call.buffer = {}
  BY DEF Inv, TypeOK, Call, Busy, At, EndsTable
<1>2. call.cursor <= Len(TablesOf(f)) /\ call.cursor > 0
  BY <1>1 DEF Inv, InTables
<1>3. call.cursor + 1 \in Nat /\ 0 \in Nat
  BY <1>1
<1>4. /\ call' \in Call /\ call'.pc = "table" /\ call'.cursor = call.cursor + 1
      /\ call'.room = call.room
      /\ call'.fn = call.fn /\ call'.kind = call.kind /\ call'.wants = call.wants
      /\ call'.buffer = call.buffer /\ call'.cells = call.cells
  <2> DEFINE n == call.cursor + 1
  <2>1. call' = [call EXCEPT !.pc = "table", !.cursor = n, !.size = 0]
    BY DEF EndsTable
  <2> HIDE DEF n
  <2> QED BY <1>1, <1>3, <2>1 DEF Call, n
<1>5. Amid /\ seen' = seen
  BY <1>1, <1>4 DEF Amid, TypeOK, EndsTable
<1>6. call.cursor \in DOMAIN TablesOf(f)
  BY <1>1, <1>2, TablesApart
<1>7. \A e \in seen.since \cap call.wants :
        Table[e] \in TablesOf(f)[call.cursor] => e \in seen'.refused \cup Ids(call.cells)
  BY <1>1, <1>5, <1>6 DEF Inv, InTables
<1> QED BY <1>1, <1>2, <1>4, <1>5, <1>7, NextTable

\* The size of the table is told, or its rows are had.
LEMMA SizesTableOnward ==
  ASSUME Inv, NEW f \in Connecting, SizesTable(f, TablesOf(f))
  PROVE  Onward
<1>1. TypeOK /\ Busy /\ call \in Call /\ call.pc = "table" /\ call.fn = f
      /\ call.cursor <= Len(TablesOf(f)) /\ IsAsked(call.kind, TablesOf(f)[call.cursor])
  BY DEF Inv, TypeOK, Call, Busy, At, SizesTable, OnTable, Current
<1>2. PICK n \in Cardinality(there \cap InTable(Current(TablesOf(f))))..Cardinality(Entry) :
        call' = [call EXCEPT !.pc = "asked", !.size = n]
  BY DEF SizesTable
<1>3. n \in Nat
  <2>1. there \cap InTable(Current(TablesOf(f))) \in SUBSET Entry
    BY <1>1 DEF TypeOK
  <2> DEFINE S == there \cap InTable(Current(TablesOf(f)))
  <2> HIDE DEF S
  <2>2. Cardinality(S) \in Nat /\ Cardinality(Entry) \in Nat
    BY <2>1, FiniteEntries DEF S
  <2>3. n \in Cardinality(S)..Cardinality(Entry)
    BY <1>2 DEF S
  <2> QED BY <2>2, <2>3
<1>4. /\ call' \in Call /\ call'.pc = "asked" /\ call'.cursor = call.cursor
      /\ call'.room = call.room
      /\ call'.fn = call.fn /\ call'.kind = call.kind /\ call'.wants = call.wants
      /\ call'.buffer = call.buffer /\ call'.cells = call.cells
  BY <1>1, <1>2, <1>3 DEF Call
<1>5. Amid /\ seen' = seen
  BY <1>1, <1>4 DEF Amid, TypeOK, SizesTable
<1>6. call.buffer = {}
  BY <1>1 DEF Inv, InTables
<1>7. InTables'
  BY <1>1, <1>4, <1>5, <1>6 DEF Inv, InTables, Busy
<1> QED BY <1>1, <1>4, <1>5, <1>6, <1>7, TablesPassed

LEMMA FetchesTableOnward ==
  ASSUME Inv, NEW f \in Connecting, FetchesTable(f, TablesOf(f))
  PROVE  Onward
<1> DEFINE T == TablesOf(f)[call.cursor]
           rows == there \cap InTable(T)
<1>1. TypeOK /\ Busy /\ call \in Call /\ call.pc = "asked" /\ call.fn = f
      /\ call' = [call EXCEPT !.pc = "rows", !.buffer = rows]
  BY DEF Inv, TypeOK, Call, Busy, At, FetchesTable, Current
<1>2. rows \in SUBSET Entry /\ rows \subseteq there /\ \A e \in rows : Table[e] \in T
  BY <1>1 DEF TypeOK, InTable
<1>3. \A e \in seen.since : Table[e] \in T => e \in rows
  BY <1>1 DEF Inv, Known, TypeOK, InTable
<1> HIDE DEF rows
<1>4. /\ call' \in Call /\ call'.pc = "rows" /\ call'.cursor = call.cursor
      /\ call'.room = call.room
      /\ call'.fn = call.fn /\ call'.kind = call.kind /\ call'.wants = call.wants
      /\ call'.buffer = rows /\ call'.cells = call.cells
  BY <1>1, <1>2 DEF Call
<1>5. Amid /\ seen' = seen
  BY <1>1, <1>4 DEF Amid, TypeOK, FetchesTable
<1>6. rows \subseteq seen.ever
  BY <1>1, <1>2 DEF Inv, Known
<1>7. InTables'
  <2>1. \A i \in DOMAIN call.cells : \E k \in DOMAIN TablesOf(f) :
          Table[call.cells[i].id] \in TablesOf(f)[k] /\ k < call.cursor
    BY <1>1 DEF Inv, InTables
  <2>2. \A k \in DOMAIN TablesOf(f) : \A e \in seen.since \cap call.wants :
          Table[e] \in TablesOf(f)[k] =>
            /\ k < call.cursor => e \in seen.refused \cup Ids(call.cells)
            /\ k = call.cursor => e \in rows
    BY <1>1, <1>3 DEF Inv, InTables
  <2> QED BY <1>1, <1>2, <1>4, <1>5, <2>1, <2>2 DEF Inv, InTables, Busy
<1> QED BY <1>1, <1>4, <1>5, <1>6, <1>7, TablesPassed

LEMMA TakesRowOnward ==
  ASSUME Inv, NEW f \in Connecting, TakesRow(f)
  PROVE  Onward
<1>1. TypeOK /\ Busy /\ call \in Call /\ call.pc = "rows" /\ call.fn = f
      /\ call.cursor \in Nat /\ call.cells \in Seq(Cell)
  BY DEF Inv, TypeOK, Call, Busy, At, TakesRow
<1>2. PICK e \in call.buffer :
        call' = Stored(Grown([call EXCEPT !.buffer = @ \ {e}]), e, TRUE)
  BY DEF TakesRow
<1> DEFINE rest == call.buffer \ {e}
           c == [call EXCEPT !.buffer = rest]
           g == Grown(c)
           b == TRUE
           x == [id |-> e, full |-> b]
           s == call.cells
           t == Append(call.cells, x)
           tables == TablesOf(f)
           n == call.cursor
<1>3. e \in Entry /\ e # 0 /\ rest \in SUBSET Entry /\ call.buffer \subseteq seen.ever
  BY <1>1, ListStepsAssumption DEF Call, Inv, Known
<1>4. /\ c \in Call /\ c.cursor = call.cursor /\ c.fn = call.fn /\ c.kind = call.kind
      /\ c.pc = call.pc /\ c.wants = call.wants /\ c.buffer = rest
      /\ c.counted = call.counted /\ c.room = call.room /\ c.cells = call.cells
  <2> HIDE DEF rest
  <2> QED BY <1>1, <1>3 DEF Call
<1>5. call' = Stored(g, e, b) /\ b \in BOOLEAN
  BY <1>2
<1>b. b
  OBVIOUS
<1> HIDE DEF c, g, b
<1>6. call.room > 0 /\ Len(call.cells) <= call.room
  BY <1>1 DEF Inv, Fits
<1>7. /\ g \in Call /\ g.room > 0 /\ g.room \in Nat /\ Len(c.cells) + 1 <= g.room
      /\ g.cursor = c.cursor
      /\ g.fn = c.fn /\ g.kind = c.kind /\ g.pc = c.pc /\ g.wants = c.wants
      /\ g.buffer = c.buffer /\ g.counted = c.counted /\ g.cells = c.cells
  BY <1>4, <1>6, GrownFields DEF g
<1>8. /\ call' \in Call /\ call'.cursor = n /\ call'.pc = "rows"
      /\ call'.fn = call.fn /\ call'.kind = call.kind /\ call'.wants = call.wants
      /\ call'.buffer = rest
      /\ x \in Cell /\ call'.cells = t
      /\ Len(call'.cells) <= call'.room /\ call'.room > 0
  <2>1. /\ call' \in Call /\ x \in Cell /\ call'.cells = Append(g.cells, x)
        /\ Len(call'.cells) = Len(g.cells) + 1
        /\ call'.cursor = g.cursor
        /\ call'.fn = g.fn /\ call'.kind = g.kind /\ call'.pc = g.pc /\ call'.wants = g.wants
        /\ call'.buffer = g.buffer /\ call'.room = g.room
    <3>1. e \in Entry \cup {0} /\ g \in Call
      BY <1>3, <1>7
    <3> HIDE DEF rest
    <3> QED BY <1>5, <3>1, StoredFields
  <2> HIDE DEF x, rest
  <2> QED BY <1>1, <1>4, <1>7, <2>1
<1>9. x.id = e /\ x.full
  BY <1>b
<1> HIDE DEF x
<1>10. Amid /\ seen' = seen
  BY <1>1, <1>8 DEF Amid, TypeOK, TakesRow
<1>11. /\ DOMAIN t = DOMAIN s \cup {Len(s) + 1}
       /\ \A i \in DOMAIN s : t[i] = s[i]
       /\ t[Len(s) + 1] = x
       /\ Ids(t) = Ids(s) \cup {e}
       /\ DOMAIN s = 1..Len(s) /\ Len(s) \in Nat
  <2>1. Ids(t) = Ids(s) \cup ({e} \ {0})
    BY <1>1, <1>8, <1>9, IdsAppended
  <2>2. /\ DOMAIN t = DOMAIN s \cup {Len(s) + 1}
        /\ \A i \in DOMAIN s : t[i] = s[i]
        /\ t[Len(s) + 1] = x
    BY <1>1, <1>8, Appended
  <2> QED BY <1>1, <1>3, <2>1, <2>2, IndexOfSequence
<1> HIDE DEF s, t
<1>12. /\ n <= Len(tables) /\ n > 0 /\ IsAsked(call.kind, tables[n])
       /\ n \in DOMAIN tables
       /\ \A y \in call.buffer : Table[y] \in tables[n]
  <2>1. /\ n <= Len(tables) /\ n > 0 /\ IsAsked(call.kind, tables[n])
        /\ \A y \in call.buffer : Table[y] \in tables[n]
    BY <1>1 DEF Inv, InTables
  <2> QED BY <1>1, <2>1, TablesApart
\* What has been stored before is of another table, or of this one and not in
\* the buffer any more.
<1>13. \A i \in DOMAIN s : s[i].id # 0 /\ \E k \in DOMAIN tables :
         /\ Table[s[i].id] \in tables[k]
         /\ k < n \/ (k = n /\ s[i].id \notin call.buffer)
  <2>1. \A i \in DOMAIN s : s[i].id # 0
    BY <1>1, ConnectingAlone DEF Inv, Distinct, s
  <2>2. \A i \in DOMAIN s : \E k \in DOMAIN tables :
         /\ Table[s[i].id] \in tables[k]
         /\ k < n \/ (k = n /\ s[i].id \notin call.buffer)
    BY <1>1 DEF Inv, InTables, s
  <2> QED BY <2>1, <2>2
<1>14. \A i \in DOMAIN s : s[i].id # e
  <2>1. ASSUME NEW i \in DOMAIN s, s[i].id = e PROVE FALSE
    <3>1. PICK k \in DOMAIN tables :
            /\ Table[s[i].id] \in tables[k]
            /\ k < n \/ (k = n /\ s[i].id \notin call.buffer)
      BY <1>13
    <3>2. k < n /\ k \in Nat
      BY <2>1, <3>1, TablesApart
    <3>3. Table[e] \in tables[n] /\ Table[e] \in tables[k]
      BY <1>12, <2>1, <3>1
    <3>4. k = n
      BY <1>12, <3>3, TablesApart
    <3> QED BY <1>1, <3>2, <3>4
  <2> QED BY <2>1
<1>15. Distinct'
  <2>1. \A i \in DOMAIN t : t[i].id # 0
    BY <1>3, <1>9, <1>11, <1>13
  <2>2. ASSUME NEW i \in DOMAIN t, NEW j \in DOMAIN t, i < j
        PROVE  t[i].id # t[j].id
    <3>1. CASE j \in DOMAIN s /\ i \in DOMAIN s
      BY <1>11, <1>13, <2>2, <3>1 DEF Inv, Distinct, s
    <3>2. CASE j = Len(s) + 1 /\ i \in DOMAIN s
      BY <1>9, <1>11, <1>14, <3>2
    <3>3. CASE i = Len(s) + 1
      <4>1. j <= Len(s) + 1
        BY <1>11
      <4> QED BY <1>11, <2>2, <3>3, <4>1
    <3> QED BY <1>11, <3>1, <3>2, <3>3
  <2> QED BY <1>1, <1>8, <2>1, <2>2 DEF Distinct
<1>16. e \in call.wants
  BY <1>1, <1>3, <1>12 DEF Inv, InTables
<1>17. Ids(t) \subseteq seen.ever \cap call.wants
  BY <1>3, <1>11, <1>16 DEF Inv, Listed, s
<1>18. HalfExcused'
  <2> DEFINE Still(y) ==
        \/ y.full
        \/ y.id = 0 /\ call.fn = "macos_threads"
           /\ (seen.refused # {} \/ seen.ever \ seen.since # {})
        \/ y.id # 0 /\ (y.id \notin seen.since \/ y.id \in seen.refused)
  <2>1. \A i \in DOMAIN s : Still(s[i])
    BY DEF Inv, HalfExcused, Excused, s
  <2>2. Still(x)
    BY <1>9
  <2>3. \A i \in DOMAIN t : Still(t[i])
    <3> HIDE DEF Still
    <3> QED BY <1>11, <2>1, <2>2
  <2> QED BY <1>8, <1>10, <2>3 DEF HalfExcused, Excused
<1>19. InTables'
  <2>1. \A i \in DOMAIN t : \E k \in DOMAIN tables :
         /\ Table[t[i].id] \in tables[k]
         /\ k < n \/ (k = n /\ t[i].id \notin rest)
    <3>1. ASSUME NEW i \in DOMAIN t
          PROVE  \E k \in DOMAIN tables : /\ Table[t[i].id] \in tables[k]
                                          /\ k < n \/ (k = n /\ t[i].id \notin rest)
      <4>1. CASE i \in DOMAIN s
        <5>1. t[i] = s[i]
          BY <1>11, <4>1
        <5>2. PICK k \in DOMAIN tables : /\ Table[s[i].id] \in tables[k]
                                         /\ k < n \/ (k = n /\ s[i].id \notin call.buffer)
          BY <1>13, <4>1
        <5> QED BY <5>1, <5>2
      <4>2. CASE i = Len(s) + 1
        <5>1. t[i].id = e
          BY <1>9, <1>11, <4>2
        <5> QED BY <1>12, <5>1
      <4> QED BY <1>11, <4>1, <4>2
    <3> QED BY <3>1
  <2>2. \A k \in DOMAIN tables : \A y \in seen.since \cap call.wants :
         Table[y] \in tables[k] =>
           /\ k < n => y \in seen.refused \cup Ids(t)
           /\ k = n => y \in seen.refused \cup Ids(t) \cup rest
    BY <1>1, <1>11 DEF Inv, InTables, s
  <2>3. \A y \in rest : Table[y] \in tables[n]
    BY <1>12
  <2>4. call'.wants = {y \in Entry : \E k \in DOMAIN tables :
                         Table[y] \in tables[k] /\ IsAsked(call.kind, tables[k])}
    BY <1>1, <1>8 DEF Inv, InTables
  <2> HIDE DEF rest
  <2> QED BY <1>1, <1>8, <1>10, <1>12, <2>1, <2>2, <2>3, <2>4 DEF InTables
<1>20. rest \subseteq seen.ever
  BY <1>3
<1> HIDE DEF rest
<1> QED BY <1>1, <1>8, <1>10, <1>15, <1>17, <1>18, <1>19, <1>20, TablesOnward

LEMMA AfterLastOnward ==
  ASSUME Inv, NEW f \in Connecting, AfterLast(f, TablesOf(f))
  PROVE  Onward
<1>1. TypeOK /\ Busy /\ call \in Call /\ call.pc = "table" /\ call.fn = f
      /\ call.cursor > Len(TablesOf(f)) /\ call.cursor \in Nat
  BY DEF Inv, TypeOK, Call, Busy, At, AfterLast
<1>2. \A k \in DOMAIN TablesOf(f) : k < call.cursor
  <2>1. \A k \in DOMAIN TablesOf(f) : k \in Nat /\ k <= Len(TablesOf(f))
    BY TablesApart
  <2>2. Len(TablesOf(f)) \in Nat
    BY TablesApart
  <2> QED BY <1>1, <2>1, <2>2
<1>3. Promise!Owed \subseteq Ids(call.cells)
  <2>1. ASSUME NEW e \in seen.since \cap call.wants PROVE e \in seen.refused \cup Ids(call.cells)
    <3>1. PICK k \in DOMAIN TablesOf(f) : Table[e] \in TablesOf(f)[k]
      BY <1>1 DEF Inv, InTables
    <3> QED BY <1>1, <1>2, <3>1 DEF Inv, InTables
  <2> QED BY <2>1 DEF Promise!Owed
<1>4. Len(call.cells) <= call.room /\ Len(call.cells) \in Nat
  BY <1>1 DEF Inv, Fits, Call
<1>5. Answerable(call.cells, Len(call.cells), call.room)
  BY <1>1, <1>3, <1>4, CellsAnswerable
<1> QED BY <1>1, <1>5, GivesAnyOnward DEF AfterLast

LEMMA ConnectionsOnward ==
  ASSUME Inv, NEW f \in Connecting, Connections(f, TablesOf(f))
  PROVE  Onward
<1>1. CASE GrowTableFails(f)
  BY <1>1, FailsOnward DEF GrowTableFails
<1> QED
  BY <1>1, BeginsOnward, NotAskedOnward, SkipsOnward, SizesTableOnward, FetchesTableOnward,
     TakesRowOnward, EndsTableOnward, AfterLastOnward DEF Connections

-----------------------------------------------------------------------------
(***************************************************************************)
(* Function by function: those that copy a picture.                        *)
(***************************************************************************)
LEMMA EnterOnward ==
  ASSUME Inv, NEW f, f \notin Connecting, NEW wants \in SUBSET Entry, Enter(f, wants),
         f \in Everything => wants = Entry,
         f = "macos_net_if_stats" => wants = Wanted
  PROVE  Onward
  BY Starts DEF Enter, Everything

LEMMA WantedEntries == Wanted \in SUBSET Entry /\ Entry \in SUBSET Entry
  BY ListStepsAssumption

LEMMA CopiedOnward ==
  ASSUME Inv, NEW f, At(f, "pictured"), NEW list, NEW n, n = Cardinality(call.buffer),
         list = Copied(call.buffer, n),
         NEW count, NEW room, room \in {Len(list), n},
         \/ count = Len(list)
         \/ f = "windows_num_threads" /\ list = <<>> /\ count \in Nat
         \/ f = "macos_net_if_stats" /\ count = n
         \/ f \in Unfiltered /\ count = n,
         NEW frees, Gives(list, count, room, frees) \/ GivesAny(list, count, room, frees)
  PROVE  Onward
<1>1. call.pc = "pictured" /\ call.fn = f /\ Busy
  BY DEF At, Busy
<1>2. /\ Len(list) \in Nat /\ n \in Nat /\ Len(list) <= n /\ Len(list) <= Len(list)
      /\ Cardinality(call.buffer \cap call.wants) <= n
      /\ Len(list) = n \/ (Len(list) < n /\ call.buffer \ call.wants # {})
  BY <1>1, CopiedWhole
<1>3. count \in Nat /\ room \in Nat /\ Len(list) <= room
  BY <1>2
<1>4. count # Len(list) =>
        \/ call.fn = "macos_net_if_stats" /\ count > Len(list) /\ seen.ever \ Wanted # {}
        \/ call.fn = "windows_num_threads" /\ list = <<>>
  <2>1. CASE f = "macos_net_if_stats" /\ count = n
    <3>1. call.wants = Wanted /\ call.buffer \subseteq seen.ever
      BY <1>1, <2>1 DEF Inv, Known
    <3>2. CASE Len(list) = n
      BY <2>1, <3>2
    <3>3. CASE Len(list) < n /\ call.buffer \ call.wants # {}
      <4>1. seen.ever \ Wanted # {}
        BY <3>1, <3>3
      <4>2. count > Len(list)
        BY <1>2, <2>1, <3>3
      <4> QED BY <1>1, <2>1, <4>1, <4>2
    <3> QED BY <1>2, <3>2, <3>3
  <2>2. CASE f \in Unfiltered /\ count = n
    <3>1. call.wants = Entry /\ call.buffer \subseteq Entry
      BY <1>1, <2>2 DEF Inv, Known, Everything, TypeOK, Call
    <3> QED BY <1>2, <2>2, <3>1
  <2>3. CASE f = "windows_num_threads" /\ list = <<>>
    BY <1>1, <2>3
  <2> QED BY <2>1, <2>2, <2>3
<1>5. Answerable(list, count, room)
  BY <1>1, <1>2, <1>3, <1>4, CopiedAnswerable
<1> QED BY <1>1, <1>5, EndsWithAnswer, GivesAnyOnward

LEMMA MacPidsOnward == ASSUME Inv, MacPids PROVE Onward
<1> DEFINE f == "macos_pids"
           n == Cardinality(call.buffer)
<1>1. CASE At(f, "pictured") /\ Gives(Copied(call.buffer, n), n, n, {"procs"})
  BY <1>1, CopiedOnward DEF Unfiltered
<1>2. CASE Enter(f, Entry)
  BY <1>2, EnterOnward, WantedEntries DEF Connecting
<1> QED BY <1>1, <1>2, FailsOnward, SizesOnward, FetchesOnward DEF MacPids

LEMMA MacNetIoCountersOnward == ASSUME Inv, MacNetIoCounters PROVE Onward
<1> DEFINE f == "macos_net_io_counters"
<1>1. CASE /\ At(f, "pictured")
           /\ Number(Copied(call.buffer, Cardinality(call.buffer)), {"buf"})
  BY <1>1, CopiedOnward DEF Number
<1>2. CASE Enter(f, Entry)
  BY <1>2, EnterOnward, WantedEntries DEF Connecting
<1> QED BY <1>1, <1>2, FailsOnward, SizesOnward, FetchesOnward DEF MacNetIoCounters

LEMMA MacNetIfAddrsOnward == ASSUME Inv, MacNetIfAddrs PROVE Onward
<1> DEFINE f == "macos_net_if_addrs"
           n == Cardinality(call.buffer)
           list == Copied(call.buffer, n)
<1>1. CASE At(f, "pictured") /\ GivesAny(list, Len(list), n, {"ifap"})
  BY <1>1, CopiedOnward
<1>2. CASE Enter(f, Wanted)
  BY <1>2, EnterOnward, WantedEntries DEF Connecting, Everything, Unfiltered, ByIndex
<1> QED BY <1>1, <1>2, FailsOnward, PicturesOnward DEF MacNetIfAddrs

LEMMA MacNetIfStatsOnward == ASSUME Inv, MacNetIfStats PROVE Onward
<1> DEFINE f == "macos_net_if_stats"
           n == Cardinality(call.buffer)
<1>1. CASE At(f, "pictured") /\ n > 0 /\ Gives(Copied(call.buffer, n), n, n, {"buf"})
  BY <1>1, CopiedOnward
<1>2. CASE At(f, "pictured") /\ n = 0 /\ Nothing({"buf"})
  BY <1>2, NothingPictured, NothingOnward DEF At
<1>3. CASE Enter(f, Wanted)
  BY <1>3, EnterOnward, WantedEntries DEF Connecting, Everything, Unfiltered, ByIndex
<1> QED BY <1>1, <1>2, <1>3, FailsOnward, SizesOnward, FetchesOnward DEF MacNetIfStats

LEMMA BsdNetIfAddrsOnward == ASSUME Inv, BsdNetIfAddrs PROVE Onward
<1> DEFINE f == "bsd_net_if_addrs"
           list == Copied(call.buffer, Cardinality(call.buffer))
<1>1. CASE At(f, "pictured") /\ GivesAny(list, Len(list), Len(list), {"ifaddr"})
  BY <1>1, CopiedOnward
<1>2. CASE Enter(f, Wanted)
  BY <1>2, EnterOnward, WantedEntries DEF Connecting, Everything, Unfiltered, ByIndex
<1> QED BY <1>1, <1>2, FailsOnward, PicturesOnward DEF BsdNetIfAddrs

LEMMA BsdDiskIoCountersOnward == ASSUME Inv, BsdDiskIoCounters PROVE Onward
<1> DEFINE f == "bsd_disk_io_counters"
<1>1. CASE /\ At(f, "pictured")
           /\ Number(Copied(call.buffer, Cardinality(call.buffer)), {"stats"})
  BY <1>1, CopiedOnward DEF Number
<1>2. CASE Enter(f, Entry)
  BY <1>2, EnterOnward, WantedEntries DEF Connecting
<1> QED BY <1>1, <1>2, FailsOnward, SizesOnward, FetchesOnward DEF BsdDiskIoCounters

LEMMA AndroidNetIfAddrsOnward == ASSUME Inv, AndroidNetIfAddrs PROVE Onward
<1> DEFINE f == "android_net_if_addrs"
           list == Copied(call.buffer, Cardinality(call.buffer))
<1>1. CASE At(f, "pictured") /\ GivesAny(list, Len(list), Len(list), {"ifaddr"})
  BY <1>1, CopiedOnward
<1>2. CASE Enter(f, Wanted)
  BY <1>2, EnterOnward, WantedEntries DEF Connecting, Everything, Unfiltered, ByIndex
<1> QED BY <1>1, <1>2, FailsOnward, PicturesOnward DEF AndroidNetIfAddrs

LEMMA LinuxNetIfAddrsOnward == ASSUME Inv, LinuxNetIfAddrs PROVE Onward
<1> DEFINE f == "linux_net_if_addrs"
           n == Cardinality(call.buffer)
           list == Copied(call.buffer, n)
<1>1. CASE At(f, "pictured") /\ n > 0 /\ Gives(list, Len(list), n, {"ifaddr"})
  BY <1>1, CopiedOnward
<1>2. CASE At(f, "pictured") /\ n = 0 /\ Nothing({"ifaddr"})
  BY <1>2, NothingPictured, NothingOnward DEF At
<1>3. CASE Enter(f, Wanted)
  BY <1>3, EnterOnward, WantedEntries DEF Connecting, Everything, Unfiltered, ByIndex
<1> QED BY <1>1, <1>2, <1>3, FailsOnward, PicturesOnward DEF LinuxNetIfAddrs

LEMMA WindowsNetIfAddrsOnward == ASSUME Inv, WindowsNetIfAddrs PROVE Onward
<1> DEFINE f == "windows_net_if_addrs"
           list == Copied(call.buffer, Cardinality(call.buffer))
<1>1. CASE At(f, "pictured") /\ GivesAny(list, Len(list), Len(list), {"adapters"})
  BY <1>1, CopiedOnward
<1>2. CASE Enter(f, Entry)
  BY <1>2, EnterOnward, WantedEntries DEF Connecting
<1> QED BY <1>1, <1>2, FailsOnward, SizesOnward, FetchesOnward DEF WindowsNetIfAddrs

LEMMA WindowsNetIfStatsOnward == ASSUME Inv, WindowsNetIfStats PROVE Onward
<1> DEFINE f == "windows_net_if_stats"
           n == Cardinality(call.buffer)
           list == Copied(call.buffer, n)
<1>1. CASE At(f, "pictured") /\ GivesAny(list, Len(list), n, {"table"})
  BY <1>1, CopiedOnward
<1>2. CASE Enter(f, Wanted)
  BY <1>2, EnterOnward, WantedEntries DEF Connecting, Everything, Unfiltered, ByIndex
<1> QED BY <1>1, <1>2, FailsOnward, SizesOnward, FetchesOnward DEF WindowsNetIfStats

LEMMA WindowsNetIoCountersOnward == ASSUME Inv, WindowsNetIoCounters PROVE Onward
<1> DEFINE f == "windows_net_io_counters"
<1>1. CASE /\ At(f, "pictured")
           /\ Number(Copied(call.buffer, Cardinality(call.buffer)), {"table"})
  BY <1>1, CopiedOnward DEF Number
<1>2. CASE Enter(f, Wanted)
  BY <1>2, EnterOnward, WantedEntries DEF Connecting, Everything, Unfiltered, ByIndex
<1> QED BY <1>1, <1>2, FailsOnward, SizesOnward, FetchesOnward DEF WindowsNetIoCounters

LEMMA WindowsNumThreadsOnward == ASSUME Inv, WindowsNumThreads PROVE Onward
<1> DEFINE f == "windows_num_threads"
           list == Copied(call.buffer, Cardinality(call.buffer))
<1>1. CASE /\ At(f, "pictured")
           /\ Gives(list, IF list = <<>> THEN 1 ELSE Len(list), Len(list), {"snapshot"})
  <2>1. CASE list = <<>>
    BY <1>1, <2>1, CopiedOnward
  <2>2. CASE list # <<>>
    BY <1>1, <2>2, CopiedOnward
  <2> QED BY <2>1, <2>2
<1>2. CASE Enter(f, Entry)
  BY <1>2, EnterOnward, WantedEntries DEF Connecting
<1> QED BY <1>1, <1>2, FailsOnward, PicturesOnward DEF WindowsNumThreads

\* The array of EnumProcesses has room for MaxPids processes.
LEMMA WindowsPidsOnward == ASSUME Inv, WindowsPids PROVE Onward
<1> DEFINE f == "windows_pids"
<1>1. CASE Enter(f, Entry)
  BY <1>1, EnterOnward, WantedEntries DEF Connecting
<1>2. CASE /\ At(f, "called")
           /\ \E some \in SUBSET there :
                /\ Cardinality(some) = MaxPids \/ some = there
                /\ Cardinality(some) <= MaxPids
                /\ call' = [call EXCEPT !.pc = "pictured", !.buffer = some]
                /\ seen' = [seen EXCEPT !.refused = @ \cup (there \ some)]
           /\ UNCHANGED <<there, held, answer>>
  <2>1. TypeOK /\ Busy /\ call \in Call /\ call.pc = "called" /\ call.fn = f
    BY <1>2 DEF Inv, TypeOK, Busy, At
  <2>2. PICK some \in SUBSET there :
                /\ Cardinality(some) <= MaxPids
                /\ call' = [call EXCEPT !.pc = "pictured", !.buffer = some]
                /\ seen' = [seen EXCEPT !.refused = @ \cup (there \ some)]
    BY <1>2
  <2>3. /\ call' \in Call /\ call'.pc = "pictured" /\ call'.buffer = some
        /\ call'.fn = call.fn /\ call'.kind = call.kind /\ call'.wants = call.wants
        /\ call'.cursor = call.cursor /\ call'.counted = call.counted /\ call'.room = call.room
        /\ call'.cells = call.cells
    BY <2>1, <2>2 DEF TypeOK, Call
  <2>4. /\ seen' \in [since : SUBSET Entry, ever : SUBSET Entry, refused : SUBSET Entry, starved : BOOLEAN]
        /\ seen'.since = seen.since /\ seen'.ever = seen.ever /\ seen'.starved = seen.starved
        /\ seen'.refused = seen.refused \cup (there \ some)
    BY <2>1, <2>2 DEF TypeOK
  <2>5. seen.since \subseteq there /\ there \subseteq seen.ever
    BY <2>1 DEF Inv, Known
  <2>6. Amid
    BY <1>2, <2>1, <2>3, <2>4, <2>5 DEF Amid
  <2> QED BY <2>1, <2>2, <2>3, <2>4, <2>5, <2>6, Early
<1>3. CASE /\ At(f, "pictured")
           /\ Gives(Copied(call.buffer, MaxPids), Cardinality(call.buffer), MaxPids, {})
  <2> DEFINE n == Cardinality(call.buffer)
             list == Copied(call.buffer, MaxPids)
  <2>1. TypeOK /\ Busy /\ call \in Call /\ call.pc = "pictured" /\ call.fn = f
    BY <1>3 DEF Inv, TypeOK, Busy, At
  <2>2. /\ n <= MaxPids /\ MaxPids \in Nat /\ call.wants = Entry /\ call.buffer \in SUBSET Entry
    BY <2>1, ListStepsAssumption DEF Inv, Known, Everything, Unfiltered, Call
  <2>3. call.buffer \cap call.wants = call.buffer /\ n \in Nat
    BY <2>2, FiniteEntries
  <2>4. Len(list) = n /\ list = Copied(call.buffer, MaxPids)
    <3>1. Cardinality(call.buffer \cap call.wants) = n
      BY <2>3
    <3>2. Cardinality(call.buffer \cap call.wants) <= MaxPids
      BY <2>2, <3>1
    <3>3. Len(list) = Cardinality(call.buffer \cap call.wants)
      BY <2>1, <2>2, <3>2, CopiedRight
    <3> QED BY <3>1, <3>3
  <2>5. Gives(list, n, MaxPids, {})
    BY <1>3
  <2> HIDE DEF list, n
  <2>6. Cardinality(call.buffer \cap call.wants) <= MaxPids
    BY <2>2, <2>3 DEF n
  <2>7. Answerable(list, n, MaxPids)
    BY <2>1, <2>2, <2>3, <2>4, <2>6, CopiedAnswerable
  <2> QED BY <2>1, <2>5, <2>7, EndsWithAnswer
<1> QED BY <1>1, <1>2, <1>3, FailsOnward DEF WindowsPids

-----------------------------------------------------------------------------
(***************************************************************************)
(* Those that read a source to its end.                                    *)
(***************************************************************************)
LEMMA ReadToEnd ==
  ASSUME Inv, call.pc \in {"fill", "add"}, Unread(there) = {}
  PROVE  Promise!Owed \subseteq Ids(call.cells)
<1>1. TypeOK /\ seen.since \subseteq there
  BY DEF Inv, Known, Busy
<1>2. \A x \in there : x <= call.cursor
  BY <1>1, AllBehind DEF TypeOK
<1> QED BY <1>1, <1>2, AllStored

\* The functions that make a number so.
Tallied == {"linux_num_fds", "linux_net_io_counters", "linux_disk_io_counters",
            "macos_num_handles", "bsd_num_fds", "android_num_fds",
            "android_net_io_counters", "android_disk_io_counters"}

LEMMA TallyOnward ==
  ASSUME Inv, NEW f \in Tallied, NEW wants \in {Wanted, Entry}, NEW gets, Tally(f, wants, gets)
  PROVE  Onward
<1>1. /\ f \notin Connecting /\ f \notin Photographed /\ f \notin ByIndex /\ f \notin TwoPass
      /\ f \notin Everything /\ f # "windows_disk_partitions" /\ f # "macos_net_if_stats"
  BY DEF Tallied, Connecting, Photographed, ByIndex, TwoPass, Everything, Unfiltered
<1>2. CASE Enter(f, wants)
  BY <1>1, <1>2, EnterOnward, WantedEntries
<1>3. CASE Opens(f, "add", 0, gets)
  BY <1>1, <1>3, OpensOnward
<1>4. CASE AddsUp(f, gets)
  <2>1. call.pc = "add" /\ Unread(there) = {} /\ Busy
        /\ Gives(call.cells, Len(call.cells), Len(call.cells), gets)
    BY <1>4 DEF AddsUp, At, Busy, Number
  <2> QED BY <2>1, ReadToEnd, NumberAnswerable, EndsWithAnswer
<1> QED BY <1>1, <1>2, <1>3, <1>4, FailsOnward, AddsOnward DEF Tally

LEMMA TalliesOnward ==
  ASSUME Inv, \/ LinuxNumFds \/ LinuxNetIoCounters \/ LinuxDiskIoCounters \/ MacNumHandles
              \/ BsdNumFds \/ AndroidNumFds \/ AndroidNetIoCounters \/ AndroidDiskIoCounters
  PROVE  Onward
<1>1. CASE LinuxNumFds
  BY <1>1, TallyOnward DEF LinuxNumFds, Tallied
<1>2. CASE LinuxNetIoCounters
  BY <1>2, TallyOnward DEF LinuxNetIoCounters, Tallied
<1>3. CASE LinuxDiskIoCounters
  BY <1>3, TallyOnward DEF LinuxDiskIoCounters, Tallied
<1>4. CASE MacNumHandles
  BY <1>4, TallyOnward DEF MacNumHandles, Tallied
<1>5. CASE BsdNumFds
  BY <1>5, TallyOnward DEF BsdNumFds, Tallied
<1>6. CASE AndroidNumFds
  BY <1>6, TallyOnward DEF AndroidNumFds, Tallied
<1>7. CASE AndroidNetIoCounters
  BY <1>7, TallyOnward DEF AndroidNetIoCounters, Tallied
<1>8. CASE AndroidDiskIoCounters
  BY <1>8, TallyOnward DEF AndroidDiskIoCounters, Tallied
<1> QED BY <1>1, <1>2, <1>3, <1>4, <1>5, <1>6, <1>7, <1>8

\* Mounted file systems on macOS and the BSDs: the end mark is one element more.
LEMMA MountsOnward ==
  ASSUME Inv, NEW f \in {"macos_disk_partitions", "bsd_disk_partitions"}, MountsOnce(f)
  PROVE  Onward
<1> DEFINE n == Cardinality(call.buffer)
           list == Copied(call.buffer, n)
<1>1. f \notin Connecting /\ f \notin Everything /\ f # "macos_net_if_stats" /\ f # "windows_pids"
  BY DEF Connecting, Everything, Unfiltered, ByIndex
<1>2. CASE \E wants \in {Wanted, Entry} : Enter(f, wants)
  BY <1>1, <1>2, EnterOnward, WantedEntries
<1>3. ASSUME At(f, "pictured")
      PROVE  /\ Answerable(list, Len(list), Len(list)) /\ Busy /\ Len(list) \in Nat
             /\ list = <<>> => Promise!Owed = {}
  <2>1. call.pc = "pictured" /\ call.fn = f /\ Busy
    BY <1>3 DEF At, Busy
  <2>2. Len(list) \in Nat /\ n \in Nat /\ Len(list) <= Len(list)
        /\ Cardinality(call.buffer \cap call.wants) <= n
    BY <2>1, CopiedWhole
  <2>3. Answerable(list, Len(list), Len(list))
    BY <2>1, <2>2, CopiedAnswerable
  <2>4. list = <<>> => Promise!Owed = {}
    <3> HIDE DEF list
    <3>1. ASSUME list = <<>> PROVE Promise!Owed = {}
      <4>1. Ids(list) = {}
        BY <3>1, EmptyIds
      <4> QED BY <2>3, <4>1 DEF Answerable
    <3> QED BY <3>1
  <2> QED BY <2>1, <2>2, <2>3, <2>4
<1> HIDE DEF list
<1>4. CASE At(f, "pictured") /\ list = <<>> /\ Nothing({})
  BY <1>3, <1>4, NothingOnward
<1>5. CASE /\ At(f, "pictured") /\ list # <<>>
           /\ Gives(Append(list, EndMark), Len(list) + 1, Len(list) + 1, {})
  <2>1. Len(list) + 1 \in Nat /\ Len(list) + 1 <= Len(list) + 1
    BY <1>3, <1>5
  <2>2. Answerable(Append(list, EndMark), Len(list) + 1, Len(list) + 1)
    BY <1>3, <1>5, <2>1, Marked
  <2> QED BY <1>3, <1>5, <2>2, EndsWithAnswer
<1> QED BY <1>1, <1>2, <1>4, <1>5, FailsOnward, PicturesOnward DEF MountsOnce, list

\* Arrays that grow.
LEMMA GrowingApart ==
  ASSUME NEW f \in Growing
  PROVE  /\ f \notin Connecting /\ f \notin Photographed /\ f \notin ByIndex /\ f \notin TwoPass
         /\ f \notin Everything /\ f # "windows_disk_partitions" /\ f # "macos_net_if_stats"
         /\ f # "macos_threads" /\ Room \in Nat /\ Room > 0
  BY ListStepsAssumption
  DEF Growing, Connecting, Photographed, ByIndex, TwoPass, Everything, Unfiltered

LEMMA GrownGiven ==
  ASSUME Inv, NEW f \in Growing, NEW frees,
         (At(f, "fill") /\ Unread(there) = {}) \/ At(f, "end"),
         \/ Gives(call.cells, Len(call.cells), call.room, frees)
         \/ GivesAny(call.cells, Len(call.cells), call.room, frees)
  PROVE  Onward
<1>1. call.pc \in {"fill", "end"} /\ Busy
  BY DEF At, Busy
<1>2. Promise!Owed \subseteq Ids(call.cells)
  <2>1. CASE At(f, "fill") /\ Unread(there) = {}
    BY <2>1, ReadToEnd DEF At
  <2>2. CASE At(f, "end")
    BY <2>2 DEF Inv, Listed, At, Promise!Owed
  <2> QED BY <2>1, <2>2
<1>3. Len(call.cells) <= call.room /\ Len(call.cells) \in Nat
  BY <1>1 DEF Inv, Fits, TypeOK, Call
<1>4. Answerable(call.cells, Len(call.cells), call.room)
  BY <1>1, <1>2, <1>3, CellsAnswerable
<1> QED BY <1>1, <1>4, EndsWithAnswer, GivesAnyOnward

LEMMA MacUsersOnward == ASSUME Inv, MacUsers PROVE Onward
<1> DEFINE f == "macos_users"
           both == {"array", "utmp"}
<1>f. f \in Growing
  BY DEF Growing
<1>1. CASE Enter(f, Wanted)
  BY <1>f, <1>1, EnterOnward, WantedEntries, GrowingApart
<1>2. CASE Opens(f, "fill", Room, both)
  BY <1>f, <1>2, OpensOnward, GrowingApart
<1>3. CASE /\ At(f, "fill") /\ Unread(there) = {}
           /\ GivesAny(call.cells, Len(call.cells), call.room, both)
  BY <1>f, <1>3, GrownGiven
<1>4. CASE Fails(f, "called", {}) \/ Takes(f) \/ GrowFails(f, both)
  BY <1>f, <1>4, FailsOnward, TakesOnward, GrowFailsOnward
<1> QED BY <1>1, <1>2, <1>3, <1>4 DEF MacUsers

LEMMA BsdPidsOnward == ASSUME Inv, BsdPids PROVE Onward
<1> DEFINE f == "bsd_pids"
           both == {"array", "dir"}
<1>f. f \in Growing
  BY DEF Growing
<1>1. CASE Enter(f, Entry)
  BY <1>f, <1>1, EnterOnward, WantedEntries, GrowingApart
<1>2. CASE Opens(f, "fill", Room, both)
  BY <1>f, <1>2, OpensOnward, GrowingApart
<1>3. CASE /\ At(f, "fill") /\ Unread(there) = {}
           /\ Gives(call.cells, Len(call.cells), call.room, both)
  BY <1>f, <1>3, GrownGiven
<1>4. CASE Fails(f, "called", {}) \/ Takes(f) \/ GrowFails(f, both)
  BY <1>f, <1>4, FailsOnward, TakesOnward, GrowFailsOnward
<1> QED BY <1>1, <1>2, <1>3, <1>4 DEF BsdPids

LEMMA AndroidPidsOnward == ASSUME Inv, AndroidPids PROVE Onward
<1> DEFINE f == "android_pids"
           both == {"array", "dir"}
<1>f. f \in Growing
  BY DEF Growing
<1>1. CASE Enter(f, Entry)
  BY <1>f, <1>1, EnterOnward, WantedEntries, GrowingApart
<1>2. CASE Opens(f, "fill", Room, both)
  BY <1>f, <1>2, OpensOnward, GrowingApart
<1>3. CASE /\ At(f, "fill") /\ Unread(there) = {}
           /\ Gives(call.cells, Len(call.cells), call.room, both)
  BY <1>f, <1>3, GrownGiven
<1>4. CASE Fails(f, "called", {}) \/ Takes(f) \/ GrowFails(f, both)
  BY <1>f, <1>4, FailsOnward, TakesOnward, GrowFailsOnward
<1> QED BY <1>1, <1>2, <1>3, <1>4 DEF AndroidPids

LEMMA WindowsMemoryMapsOnward == ASSUME Inv, WindowsMemoryMaps PROVE Onward
<1> DEFINE f == "windows_memory_maps"
           both == {"process", "array"}
<1>f. f \in Growing
  BY DEF Growing
<1>1. CASE Enter(f, Entry)
  BY <1>f, <1>1, EnterOnward, WantedEntries, GrowingApart
<1>2. CASE Opens(f, "fill", Room, both)
  BY <1>f, <1>2, OpensOnward, GrowingApart
<1>3. CASE At(f, "fill") /\ EndsEarly(call, Unread(there)) /\ UNCHANGED held
  <2>1. TypeOK /\ call \in Call /\ call.pc = "fill" /\ call.fn = f /\ Busy
        /\ call.cursor \in Nat /\ call.room \in Nat
    BY <1>3 DEF Inv, TypeOK, Call, At, Busy
  <2>2. seen.since \subseteq there /\ there \subseteq Nat /\ Unread(there) \in SUBSET Entry
    BY <2>1, ListStepsAssumption DEF Inv, Known, TypeOK, Unread
  <2>3. \A e \in seen.since \cap call.wants : e \in Unread(there) \/ e <= call.cursor
    <3> SUFFICES ASSUME NEW e \in seen.since \cap call.wants, ~(e <= call.cursor)
                 PROVE  e \in Unread(there)
      OBVIOUS
    <3>1. e \in there /\ e \in Nat
      BY <2>2
    <3> QED BY <2>1, <3>1 DEF Unread
  <2>4. call.room <= call.room /\ call.fn \notin Connecting \cup {"macos_threads"}
    BY <1>f, <2>1, GrowingApart
  <2> QED BY <1>3, <2>1, <2>2, <2>3, <2>4, EndsEarlyOnward
<1>4. CASE At(f, "end") /\ Gives(call.cells, Len(call.cells), call.room, both)
  BY <1>f, <1>4, GrownGiven
<1>5. CASE Fails(f, "called", {}) \/ Takes(f) \/ GrowFails(f, both)
  BY <1>f, <1>5, FailsOnward, TakesOnward, GrowFailsOnward
<1> QED BY <1>1, <1>2, <1>3, <1>4, <1>5 DEF WindowsMemoryMaps

\* Sources that are read twice.
LEMMA TwoPassApart ==
  ASSUME NEW f \in TwoPass
  PROVE  /\ f \notin Connecting /\ f \notin Photographed /\ f \notin ByIndex /\ f \notin Growing
         /\ f \notin Unfiltered /\ f # "macos_net_if_stats" /\ f # "macos_threads"
         /\ f # "windows_pids"
  BY DEF Growing, Connecting, Photographed, ByIndex, TwoPass, Unfiltered

\* What is there covers what has been there since the call began.
LEMMA SourceThere ==
  ASSUME Inv, Busy
  PROVE  /\ there \in SUBSET Entry /\ there \subseteq seen.ever
         /\ seen.since \subseteq there /\ seen.since \in SUBSET Entry /\ seen.ever \in SUBSET Entry
         /\ call.wants \in SUBSET Entry /\ call.buffer \in SUBSET Entry
         /\ call.buffer \subseteq seen.ever
  BY DEF Inv, TypeOK, Known, Call

\* What has been stored fits, in a loop that fills an array of fixed size.
LEMMA FilledFits ==
  ASSUME Inv, NEW f, f \notin Growing, At(f, "fill")
  PROVE  /\ Len(call.cells) \in Nat /\ call.counted \in Nat /\ call.room \in Nat
         /\ Len(call.cells) <= call.counted /\ call.counted <= call.room
         /\ Len(call.cells) <= call.room
         /\ f \in {"android_disk_partitions", "windows_disk_partitions"} =>
              Len(call.cells) + 1 <= call.room
         /\ Busy /\ call.fn = f /\ call.pc = "fill"
<1>1. call.fn = f /\ call.pc = "fill" /\ Len(call.cells) \in Nat /\ call.counted \in Nat
      /\ call.room \in Nat
  BY DEF Inv, TypeOK, Call, At
<1>2. /\ Len(call.cells) <= call.counted /\ call.counted <= call.room
      /\ f \in {"android_disk_partitions", "windows_disk_partitions"} => call.counted < call.room
  BY <1>1 DEF Inv, Fits
<1> QED BY <1>1, <1>2 DEF Busy

LEMMA DescribedOnward ==
  ASSUME Inv, NEW f \in {"android_threads", "android_open_files"}, Described(f)
  PROVE  Onward
<1>f. f \in TwoPass /\ f \in Everything /\ f # "bsd_users" /\ f # "windows_disk_partitions"
      /\ f \notin {"android_disk_partitions", "windows_disk_partitions"}
  BY DEF TwoPass, Everything
<1>1. CASE Enter(f, Entry)
  BY <1>f, <1>1, EnterOnward, WantedEntries, TwoPassApart
<1>2. CASE Opens(f, "count", 0, {"dir"})
  BY <1>f, <1>2, OpensOnward, TwoPassApart
<1>3. ASSUME call.fn = f, Busy
      PROVE  /\ there \in SUBSET Entry /\ there \subseteq seen.ever \cap call.wants
             /\ seen.since \subseteq there /\ seen.since \cap call.wants \subseteq Entry
             /\ seen.since \cap call.wants \subseteq there
  BY <1>f, <1>3, SourceThere DEF Inv, Known
<1>4. CASE Counts(f, there, Entry)
  <2>1. call.fn = f /\ Busy
    BY <1>4 DEF Counts, At, Busy
  <2> QED BY <1>f, <1>3, <1>4, <2>1, CountsOnward
<1>5. CASE MakesNone(f, there, {"dir"})
  <2>1. call.fn = f /\ Busy
    BY <1>5 DEF MakesNone, At, Busy
  <2> QED BY <1>f, <1>3, <1>5, <2>1, MakesNoneOnward
<1>6. CASE MakesArray(f, there, 0)
  <2>1. call.fn = f /\ Busy
    BY <1>6 DEF MakesArray, At, Busy
  <2> QED BY <1>f, <1>3, <1>6, <2>1, MakesArrayOnward
<1>7. CASE Picks(f, there)
  <2>1. call.fn = f /\ Busy
    BY <1>7 DEF Picks, At, Busy
  <2> QED BY <1>f, <1>3, <1>7, <2>1, PicksOnward, TwoPassApart
<1>8. CASE Describes(f)
  BY <1>f, <1>8, DescribesOnward, TwoPassApart
<1>9. CASE /\ At(f, "fill") /\ ~More(there)
           /\ Gives(call.cells, Len(call.cells), call.room, {"dir", "array"})
  <2>1. /\ Len(call.cells) \in Nat /\ Len(call.cells) <= call.room
        /\ Busy /\ call.fn = f /\ call.pc = "fill"
    BY <1>f, <1>9, FilledFits, TwoPassApart
  <2>2. \/ Promise!Owed \subseteq Ids(call.cells)
        \/ call.fn \in TwoPass /\ Ids(call.cells) \ seen.since # {}
    BY <1>f, <1>3, <1>9, <2>1, SourceStored
  <2>3. Answerable(call.cells, Len(call.cells), call.room)
    BY <2>1, <2>2, CellsAnswerable
  <2> QED BY <1>9, <2>1, <2>3, EndsWithAnswer
<1>10. CASE Fails(f, "called", {})
  BY <1>10, FailsOnward
<1> QED BY <1>1, <1>2, <1>4, <1>5, <1>6, <1>7, <1>8, <1>9, <1>10 DEF Described

\* About pictures whose entries are described one by one.
LEMMA PhotographedApart ==
  ASSUME NEW f \in Photographed
  PROVE  /\ f \notin Connecting /\ f \notin TwoPass /\ f \notin ByIndex /\ f \notin Growing
         /\ f # "macos_net_if_stats" /\ f # "windows_pids" /\ f # "bsd_users"
         /\ f # "windows_disk_partitions"
  BY DEF Growing, Connecting, Photographed, ByIndex, TwoPass

LEMMA PhotographedFill ==
  ASSUME Inv, NEW f \in Photographed, call.fn = f, call.pc \in {"pictured", "fill", "look"}
  PROVE  /\ Busy /\ seen.since \subseteq call.buffer /\ call.buffer \subseteq seen.ever
         /\ call.buffer \in SUBSET Entry /\ call.wants \in SUBSET Entry
         /\ seen.since \in SUBSET Entry
         /\ seen.since \subseteq there /\ there \in SUBSET Entry
         /\ Cardinality(call.buffer) \in Nat
<1>1. Busy
  BY DEF Busy
<1>2. call.fn # "windows_pids"
  BY PhotographedApart
<1>3. seen.since \subseteq call.buffer
  BY <1>1, <1>2 DEF Inv, Known
<1> QED BY <1>1, <1>3, SourceThere, FiniteEntries

LEMMA PictureCounted ==
  ASSUME Inv, call.pc = "fill", call.fn \in Photographed \cap Unfiltered, ~More(call.buffer)
  PROVE  /\ Len(call.cells) = Cardinality(call.buffer)
         /\ Len(call.cells) = call.counted
<1> DEFINE G == {e \in call.buffer : Behind(e)}
<1>1. TypeOK /\ call.buffer \in SUBSET Entry /\ Len(call.cells) \in Nat /\ call.counted \in Nat
  BY DEF Inv, TypeOK, Call
<1>2. call.counted = Cardinality(call.buffer) /\ Len(call.cells) = Cardinality(G)
  BY DEF Inv, OnePerEntry
<1>3. G \in SUBSET call.buffer /\ G \in SUBSET Entry
  BY <1>1
<1>4. CASE Unread(call.buffer) = {}
  <2>1. \A x \in call.buffer : x <= call.cursor
    BY <1>1, <1>4, AllBehind
  <2>2. G = call.buffer
    BY <2>1 DEF Behind
  <2> QED BY <1>2, <2>2
<1>5. CASE ~(Len(call.cells) < call.counted)
  <2> HIDE DEF G
  <2>1. Cardinality(G) \in Nat /\ Cardinality(call.buffer) \in Nat
        /\ Cardinality(G) <= Cardinality(call.buffer)
    BY <1>1, <1>3, FiniteEntries, FewerEntries
  <2> QED BY <1>1, <1>2, <1>5, <2>1
<1> QED BY <1>4, <1>5 DEF More

\* The array is handed over when the picture has been gone through.
LEMMA PictureGiven ==
  ASSUME Inv, NEW f \in Photographed, At(f, "fill"), NEW source \in SUBSET call.buffer,
         ~More(source), seen.since \cap call.wants \subseteq source,
         NEW count, count = Len(call.cells), NEW frees,
         \/ Gives(call.cells, count, call.room, frees)
         \/ GivesAny(call.cells, count, call.room, frees)
  PROVE  Onward
<1>1. /\ Len(call.cells) \in Nat /\ Len(call.cells) <= call.room
      /\ Busy /\ call.fn = f /\ call.pc = "fill"
  BY FilledFits, PhotographedApart
<1>2. Promise!Owed \subseteq Ids(call.cells)
  BY <1>1, PictureStored
<1>3. count \in Nat
  BY <1>1
<1>4. Answerable(call.cells, count, call.room)
  BY <1>1, <1>2, <1>3, CellsAnswerable
<1> QED BY <1>1, <1>4, EndsWithAnswer, GivesAnyOnward

LEMMA MacThreadsOnward == ASSUME Inv, MacThreads PROVE Onward
<1> DEFINE f == "macos_threads"
           n == Cardinality(call.buffer)
<1>f. f \in Photographed /\ f \in Unfiltered /\ f \in Everything
  BY DEF Photographed, Unfiltered, Everything
<1>1. CASE Enter(f, Entry)
  BY <1>f, <1>1, EnterOnward, WantedEntries, PhotographedApart
<1>2. CASE Pictures(f, {"task", "thread_list"})
  BY <1>f, <1>2, PicturesOnward, PhotographedApart
<1>3. CASE PreparesFill(f, n, {"array"})
  BY <1>f, <1>3, PreparesOnward
<1>4. CASE NextIsThere(call.buffer) /\ Puts(f, call.buffer, Entry, Entry)
  <2>1. call.fn = f /\ call.pc = "fill"
    BY <1>4 DEF Puts, At
  <2>2. call.wants = Entry
    BY <1>f, <2>1 DEF Inv, Known, Busy
  <2>3. /\ call.buffer \in SUBSET Entry /\ call.buffer \subseteq seen.ever
        /\ seen.since \subseteq call.buffer /\ seen.since \in SUBSET Entry
    BY <1>f, <2>1, PhotographedFill
  <2> QED BY <1>f, <1>4, <2>2, <2>3, PutsOnward, PhotographedApart
<1>5. CASE ThreadNotDescribed
  BY <1>5, NotDescribedOnward
<1>6. CASE /\ At(f, "fill") /\ ~More(call.buffer)
           /\ Gives(call.cells, n, call.room, {"task", "array"})
  <2>1. call.fn = f /\ call.pc = "fill"
    BY <1>6 DEF At
  <2>2. n = Len(call.cells)
    BY <1>f, <1>6, <2>1, PictureCounted
  <2>3. call.buffer \in SUBSET call.buffer /\ seen.since \cap call.wants \subseteq call.buffer
    BY <1>f, <2>1, PhotographedFill
  <2> HIDE DEF n
  <2> QED BY <1>f, <1>6, <2>2, <2>3, PictureGiven
<1>7. CASE Fails(f, "called", {}) \/ Fails(f, "pictured", {"task"})
  BY <1>7, FailsOnward
<1> QED BY <1>1, <1>2, <1>3, <1>4, <1>5, <1>6, <1>7 DEF MacThreads

LEMMA WindowsThreadsOnward == ASSUME Inv, WindowsThreads PROVE Onward
<1> DEFINE f == "windows_threads"
           n == Cardinality(call.buffer)
<1>f. f \in Photographed /\ f \in Unfiltered /\ f \in Everything
  BY DEF Photographed, Unfiltered, Everything
<1>1. CASE Enter(f, Entry)
  BY <1>f, <1>1, EnterOnward, WantedEntries, PhotographedApart
<1>2. CASE Pictures(f, {"snapshot"})
  BY <1>f, <1>2, PicturesOnward, PhotographedApart
<1>3. CASE At(f, "pictured") /\ n = 0 /\ Nothing({"snapshot"})
  <2>1. Promise!Owed = {} /\ Busy
    BY <1>f, <1>3, NothingPictured, PhotographedApart DEF At
  <2> QED BY <1>3, <2>1, NothingOnward
<1>4. CASE PreparesFill(f, n, {"array"})
  BY <1>f, <1>4, PreparesOnward
<1>5. CASE Picks(f, call.buffer)
  <2>1. call.fn = f /\ call.pc = "fill"
    BY <1>5 DEF Picks, At
  <2>2. call.wants = Entry
    BY <1>f, <2>1 DEF Inv, Known, Busy
  <2>3. /\ call.buffer \in SUBSET Entry /\ call.buffer \subseteq seen.ever
        /\ seen.since \subseteq call.buffer /\ seen.since \in SUBSET Entry
    BY <1>f, <2>1, PhotographedFill
  <2> QED BY <1>f, <1>5, <2>2, <2>3, PicksOnward, PhotographedApart
<1>6. CASE Describes(f)
  BY <1>f, <1>6, DescribesOnward, PhotographedApart
<1>7. CASE /\ At(f, "fill") /\ ~More(call.buffer)
           /\ Gives(call.cells, call.counted, call.room, {"snapshot", "array"})
  <2>1. call.fn = f /\ call.pc = "fill"
    BY <1>7 DEF At
  <2>2. call.counted = Len(call.cells)
    BY <1>f, <1>7, <2>1, PictureCounted
  <2>3. call.buffer \in SUBSET call.buffer /\ seen.since \cap call.wants \subseteq call.buffer
    BY <1>f, <2>1, PhotographedFill
  <2> QED BY <1>f, <1>7, <2>2, <2>3, PictureGiven
<1>8. CASE Fails(f, "called", {}) \/ Fails(f, "pictured", {"snapshot"})
  BY <1>8, FailsOnward
<1> QED BY <1>1, <1>2, <1>3, <1>4, <1>5, <1>6, <1>7, <1>8 DEF WindowsThreads

LEMMA WindowsOpenFilesOnward == ASSUME Inv, WindowsOpenFiles PROVE Onward
<1> DEFINE f == "windows_open_files"
           n == Cardinality(call.buffer)
           frees == {"buffer", "array", "process"}
<1>f. f \in Photographed /\ f \notin Unfiltered /\ f \notin Everything
  BY DEF Photographed, Unfiltered, Everything, ByIndex
<1>p. ASSUME call.fn = f, call.pc \in {"pictured", "fill", "look"}
      PROVE  /\ Busy /\ seen.since \subseteq call.buffer /\ call.buffer \subseteq seen.ever
             /\ call.buffer \in SUBSET Entry /\ call.wants \in SUBSET Entry
             /\ seen.since \in SUBSET Entry /\ n \in Nat
  BY <1>f, <1>p, PhotographedFill
<1>1. CASE Enter(f, Wanted)
  BY <1>f, <1>1, EnterOnward, WantedEntries, PhotographedApart
<1>2. CASE Pictures(f, {"buffer"})
  BY <1>f, <1>2, PicturesOnward, PhotographedApart
<1>3. CASE Sizes(f, {"buffer"}) \/ Fetches(f)
  BY <1>f, <1>3, SizesOnward, FetchesOnward, PhotographedApart
<1>4. CASE At(f, "pictured") /\ n = 0 /\ Nothing({"buffer"})
  <2>1. Promise!Owed = {} /\ Busy
    BY <1>f, <1>4, NothingPictured, PhotographedApart DEF At
  <2> QED BY <1>4, <2>1, NothingOnward
<1>5. CASE PreparesFill(f, n, {"array", "process"})
  BY <1>f, <1>5, PreparesOnward
<1>6. CASE /\ n > 0 /\ At(f, "pictured")
           /\ EndsEarly([call EXCEPT !.room = n], call.buffer)
  <2> DEFINE c == [call EXCEPT !.room = n]
  <2>1. call.fn = f /\ call.pc = "pictured"
    BY <1>6 DEF At
  <2>2. call \in Call /\ call.room = 0
    BY <2>1 DEF Inv, TypeOK, Begun
  <2>3. call.buffer \in SUBSET Entry /\ n \in Nat /\ seen.since \subseteq call.buffer
    BY <1>p, <2>1
  <2> HIDE DEF n
  <2>4. /\ c \in Call /\ c.fn = call.fn /\ c.kind = call.kind /\ c.wants = call.wants
        /\ c.cells = call.cells /\ c.buffer = call.buffer /\ c.cursor = call.cursor
        /\ c.room = n
    BY <2>2, <2>3 DEF Call
  <2>5. EndsEarly(c, call.buffer) /\ call.room <= c.room
    BY <1>6, <2>2, <2>3, <2>4
  <2>6. call.fn \notin Connecting \cup {"macos_threads"}
    BY <1>f, <2>1, PhotographedApart
  <2>7. \A e \in seen.since \cap call.wants :
          e \in call.buffer \/ (call.pc = "fill" /\ e <= call.cursor)
    BY <2>3
  <2> HIDE DEF c
  <2> QED BY <2>1, <2>3, <2>4, <2>5, <2>6, <2>7, EndsEarlyOnward
<1>7. CASE NextIsThere(call.buffer) /\ Puts(f, call.buffer, call.wants, Entry)
  <2>1. call.fn = f /\ call.pc = "fill"
    BY <1>7 DEF Puts, At
  <2>2. /\ call.buffer \in SUBSET Entry /\ call.buffer \subseteq seen.ever
        /\ seen.since \subseteq call.buffer /\ seen.since \in SUBSET Entry
    BY <1>p, <2>1
  <2> QED BY <1>f, <1>7, <2>2, PutsOnward, PhotographedApart
<1>8. CASE PassesOver(f, call.buffer)
  <2>1. call.fn = f /\ call.pc = "fill"
    BY <1>8 DEF PassesOver, At
  <2>2. /\ call.buffer \in SUBSET Entry /\ seen.since \subseteq call.buffer
    BY <1>p, <2>1
  <2> QED BY <1>f, <1>8, <2>2, PassesOverOnward, PhotographedApart
<1>9. CASE /\ At(f, "fill") /\ ~More(call.buffer)
           /\ Gives(call.cells, Len(call.cells), call.room, frees)
  <2>1. call.buffer \in SUBSET call.buffer /\ seen.since \cap call.wants \subseteq call.buffer
    BY <1>p, <1>9 DEF At
  <2> QED BY <1>f, <1>9, <2>1, PictureGiven
<1>10. CASE At(f, "end") /\ Gives(call.cells, Len(call.cells), call.room, frees)
  <2>1. call.pc = "end" /\ Busy /\ call.fn = f
    BY <1>10 DEF At, Busy
  <2>2. Promise!Owed \subseteq Ids(call.cells)
    BY <2>1 DEF Inv, Listed, Promise!Owed
  <2>3. Len(call.cells) <= call.room /\ Len(call.cells) \in Nat
    BY <2>1 DEF Inv, Fits, TypeOK, Call
  <2>4. Answerable(call.cells, Len(call.cells), call.room)
    BY <2>1, <2>2, <2>3, CellsAnswerable
  <2> QED BY <1>10, <2>1, <2>4, EndsWithAnswer
<1>11. CASE \/ Fails(f, "called", {}) \/ Fails(f, "sized", {"buffer"})
            \/ Fails(f, "pictured", {"buffer"})
  BY <1>11, FailsOnward
<1> QED BY <1>1, <1>2, <1>3, <1>4, <1>5, <1>6, <1>7, <1>8, <1>9, <1>10, <1>11
        DEF WindowsOpenFiles

LEMMA WindowsUsersOnward == ASSUME Inv, WindowsUsers PROVE Onward
<1> DEFINE f == "windows_users"
           n == Cardinality(call.buffer)
           active == call.buffer \cap call.wants
           both == {"sessions", "array"}
<1>f. f \in Photographed /\ f \notin Unfiltered /\ f \notin Everything
  BY DEF Photographed, Unfiltered, Everything, ByIndex
<1>p. ASSUME call.fn = f, call.pc = "fill"
      PROVE  /\ active \in SUBSET Entry /\ active \in SUBSET call.buffer
             /\ active \subseteq seen.ever \cap call.wants
             /\ seen.since \cap call.wants \subseteq active
  BY <1>f, <1>p, PhotographedFill
<1>1. CASE Enter(f, Wanted)
  BY <1>f, <1>1, EnterOnward, WantedEntries, PhotographedApart
<1>2. CASE Pictures(f, {"sessions"})
  BY <1>f, <1>2, PicturesOnward, PhotographedApart
<1>3. CASE At(f, "pictured") /\ n = 0 /\ Nothing({"sessions"})
  <2>1. Promise!Owed = {} /\ Busy
    BY <1>f, <1>3, NothingPictured, PhotographedApart DEF At
  <2> QED BY <1>3, <2>1, NothingOnward
<1>4. CASE PreparesFill(f, n, {"array"})
  BY <1>f, <1>4, PreparesOnward
<1> HIDE DEF active
<1>5. CASE Picks(f, active)
  <2>1. call.fn = f /\ call.pc = "fill"
    BY <1>5 DEF Picks, At
  <2> QED BY <1>f, <1>p, <1>5, <2>1, PicksOnward, PhotographedApart
<1>6. CASE PassesOver(f, active)
  <2>1. call.fn = f /\ call.pc = "fill"
    BY <1>6 DEF PassesOver, At
  <2> QED BY <1>f, <1>p, <1>6, <2>1, PassesOverOnward, PhotographedApart
<1>7. CASE Describes(f)
  BY <1>f, <1>7, DescribesOnward, PhotographedApart
<1>8. CASE /\ At(f, "fill") /\ ~More(active)
           /\ GivesAny(call.cells, Len(call.cells), call.room, both)
  <2>1. call.fn = f /\ call.pc = "fill"
    BY <1>8 DEF At
  <2> QED BY <1>f, <1>p, <1>8, <2>1, PictureGiven
<1>9. CASE Fails(f, "called", {}) \/ Fails(f, "pictured", {"sessions"})
  BY <1>9, FailsOnward
<1> QED BY <1>1, <1>2, <1>3, <1>4, <1>5, <1>6, <1>7, <1>8, <1>9 DEF WindowsUsers, active

\* About each index.
LEMMA ByIndexApart ==
  ASSUME NEW f \in ByIndex
  PROVE  /\ f \notin Connecting /\ f \notin TwoPass /\ f \notin Photographed /\ f \notin Growing
         /\ f # "macos_net_if_stats" /\ f # "bsd_users" /\ f # "windows_pids"
  BY DEF Growing, Connecting, Photographed, ByIndex, TwoPass

LEMMA NoInterfaceOnward ==
  ASSUME Inv, NEW f, NoInterface(f)
  PROVE  Onward
<1>1. Busy /\ there = {} /\ Nothing({})
  BY DEF NoInterface, At, Busy
<1>2. Promise!Owed = {}
  BY <1>1, SourceThere DEF Promise!Owed
<1> QED BY <1>1, <1>2, NothingOnward

LEMMA IndicesStored ==
  ASSUME Inv, NEW f \in ByIndex, NEW p \in {"fill", "add"}, At(f, p), call.cursor = call.counted
  PROVE  /\ Promise!Owed \subseteq Ids(call.cells) /\ Busy
         /\ p = "fill" => Answerable(call.cells, Len(call.cells), call.room)
<1>1. call.fn = f /\ call.pc = p /\ Busy
  BY DEF At, Busy
<1>2. \A e \in seen.since : e <= call.cursor
  BY <1>1 DEF Inv, OnePerIndex
<1>3. Promise!Owed \subseteq Ids(call.cells)
  BY <1>1, <1>2, AllStored
<1>4. p = "fill" => Len(call.cells) <= call.room /\ Len(call.cells) \in Nat
  BY <1>1, FilledFits, ByIndexApart
<1> QED BY <1>1, <1>3, <1>4, CellsAnswerable

LEMMA BsdNetIfStatsOnward == ASSUME Inv, BsdNetIfStats PROVE Onward
<1> DEFINE f == "bsd_net_if_stats"
<1>f. f \in ByIndex
  BY DEF ByIndex
<1>1. CASE Enter(f, Entry)
  BY <1>f, <1>1, EnterOnward, WantedEntries, ByIndexApart
<1>2. CASE NoInterface(f) \/ Fails(f, "called", {})
  BY <1>2, NoInterfaceOnward, FailsOnward
<1>3. CASE ReadsIfCount(f, "fill", {"array"})
  BY <1>f, <1>3, IfCountOnward
<1>4. CASE AsksIndex(f, "fill")
  BY <1>f, <1>4, AsksIndexOnward
<1>5. CASE /\ At(f, "fill") /\ call.cursor = call.counted
           /\ GivesAny(call.cells, Len(call.cells), call.room, {"array"})
  BY <1>f, <1>5, IndicesStored, GivesAnyOnward
<1> QED BY <1>1, <1>2, <1>3, <1>4, <1>5 DEF BsdNetIfStats

LEMMA BsdNetIoCountersOnward == ASSUME Inv, BsdNetIoCounters PROVE Onward
<1> DEFINE f == "bsd_net_io_counters"
<1>f. f \in ByIndex
  BY DEF ByIndex
<1>1. CASE Enter(f, Entry)
  BY <1>f, <1>1, EnterOnward, WantedEntries, ByIndexApart
<1>2. CASE NoInterface(f) \/ Fails(f, "called", {})
  BY <1>2, NoInterfaceOnward, FailsOnward
<1>3. CASE ReadsIfCount(f, "add", {})
  BY <1>f, <1>3, IfCountOnward
<1>4. CASE AsksIndex(f, "add")
  BY <1>f, <1>4, AsksIndexOnward
<1>5. CASE At(f, "add") /\ call.cursor = call.counted /\ Number(call.cells, {})
  <2>1. Promise!Owed \subseteq Ids(call.cells) /\ Busy
    BY <1>f, <1>5, IndicesStored
  <2>2. Answerable(call.cells, Len(call.cells), Len(call.cells))
    BY <2>1, NumberAnswerable
  <2> QED BY <1>5, <2>1, <2>2, EndsWithAnswer DEF Number
<1> QED BY <1>1, <1>2, <1>3, <1>4, <1>5 DEF BsdNetIoCounters

\* The array is full of what was counted, unless something has come or gone.
LEMMA LoginsMissing ==
  ASSUME Inv, At("bsd_users", "fill"), ~More(there), call.counted # Len(call.cells)
  PROVE  call.counted > Len(call.cells) /\ seen.ever \ seen.since # {}
<1> DEFINE F == seen.since \cap call.wants
           G == {e \in F : e <= call.cursor}
<1>1. /\ Len(call.cells) \in Nat /\ call.counted \in Nat /\ Len(call.cells) <= call.counted
      /\ Busy /\ call.fn = "bsd_users" /\ call.pc = "fill"
  <2>1. "bsd_users" \notin Growing
    BY DEF Growing
  <2> QED BY <2>1, FilledFits
<1>2. Unread(there) = {}
  BY <1>1 DEF More
<1>3. TypeOK /\ there \in SUBSET Entry /\ seen.since \subseteq there
  BY <1>1, SourceThere DEF Inv
<1>4. \A x \in there : x <= call.cursor
  BY <1>2, <1>3, AllBehind
<1>5. F = G
  BY <1>3, <1>4
<1>6. Foreseen = F
  BY <1>1 DEF Foreseen
<1>7. ASSUME seen.ever \subseteq seen.since PROVE FALSE
  <2>1. call.counted = Cardinality(Foreseen)
        /\ Len(call.cells) = Cardinality({e \in Foreseen : e <= call.cursor})
    BY <1>1, <1>7 DEF Inv, CountedEnough
  <2> QED BY <1>5, <1>6, <2>1
<1> HIDE DEF F, G
<1> QED BY <1>1, <1>7

LEMMA BsdUsersOnward == ASSUME Inv, BsdUsers PROVE Onward
<1> DEFINE f == "bsd_users"
<1>f. f \in TwoPass /\ f \notin Everything /\ f # "windows_disk_partitions"
      /\ f \notin {"android_disk_partitions", "windows_disk_partitions"}
  BY DEF TwoPass, Everything, Unfiltered, ByIndex
<1>1. CASE Enter(f, Wanted)
  BY <1>f, <1>1, EnterOnward, WantedEntries, TwoPassApart
<1>2. CASE Opens(f, "count", 0, {"utmp"})
  BY <1>f, <1>2, OpensOnward, TwoPassApart
<1>3. ASSUME call.fn = f, Busy
      PROVE  /\ there \in SUBSET Entry /\ there \subseteq seen.ever
             /\ seen.since \subseteq there /\ seen.since \cap call.wants \subseteq there
             /\ seen.since \cap call.wants \subseteq call.wants
             /\ seen.since \cap there \subseteq Entry
             /\ call.wants \cap there \subseteq call.wants
  BY <1>f, <1>3, SourceThere
<1>4. CASE Counts(f, there, call.wants)
  <2>1. call.fn = f /\ Busy
    BY <1>4 DEF Counts, At, Busy
  <2> QED BY <1>f, <1>3, <1>4, <2>1, CountsOnward
<1>5. CASE MakesNone(f, there, {"utmp"})
  <2>1. call.fn = f /\ Busy
    BY <1>5 DEF MakesNone, At, Busy
  <2> QED BY <1>f, <1>3, <1>5, <2>1, MakesNoneOnward
<1>6. CASE MakesArray(f, there, 0)
  <2>1. call.fn = f /\ Busy
    BY <1>6 DEF MakesArray, At, Busy
  <2> QED BY <1>f, <1>3, <1>6, <2>1, MakesArrayOnward
<1>7. CASE Puts(f, there, call.wants, Entry)
  <2>1. call.fn = f /\ Busy
    BY <1>7 DEF Puts, At, Busy
  <2> QED BY <1>f, <1>3, <1>7, <2>1, PutsOnward, TwoPassApart
<1>8. CASE /\ At(f, "fill") /\ ~More(there)
           /\ Gives(call.cells, call.counted, call.room, {"utmp", "array"})
  <2>1. /\ Len(call.cells) \in Nat /\ Len(call.cells) <= call.room /\ call.counted \in Nat
        /\ Busy /\ call.fn = f /\ call.pc = "fill"
    BY <1>f, <1>8, FilledFits, TwoPassApart
  <2>2. \/ Promise!Owed \subseteq Ids(call.cells)
        \/ call.fn \in TwoPass /\ Ids(call.cells) \ seen.since # {}
    BY <1>f, <1>3, <1>8, <2>1, SourceStored
  <2>3. call.counted # Len(call.cells) =>
          call.fn = "bsd_users" /\ call.counted > Len(call.cells) /\ seen.ever \ seen.since # {}
    BY <1>8, <2>1, LoginsMissing
  <2>4. Answerable(call.cells, call.counted, call.room)
    BY <2>1, <2>2, <2>3, CellsAnswerable
  <2> QED BY <1>8, <2>1, <2>4, EndsWithAnswer
<1> QED BY <1>1, <1>2, <1>4, <1>5, <1>6, <1>7, <1>8 DEF BsdUsers

\* An array that is closed by an end mark is handed over.
LEMMA MarkedGiven ==
  ASSUME Inv, NEW f \in {"android_disk_partitions", "windows_disk_partitions"}, At(f, "fill"),
         NEW source \in SUBSET Entry, ~More(source), seen.since \subseteq source,
         NEW list, list = Append(call.cells, EndMark), NEW frees,
         Gives(list, Len(list), call.room, frees)
  PROVE  Onward
<1>f. f \in TwoPass
  BY DEF TwoPass
<1>1. /\ Len(call.cells) \in Nat /\ Len(call.cells) + 1 <= call.room /\ call.room \in Nat
      /\ Len(call.cells) <= call.room /\ Busy /\ call.fn = f /\ call.pc = "fill"
  BY <1>f, FilledFits, TwoPassApart
<1>2. \/ Promise!Owed \subseteq Ids(call.cells)
      \/ call.fn \in TwoPass /\ Ids(call.cells) \ seen.since # {}
  BY <1>f, <1>1, SourceStored
<1>3. Answerable(call.cells, Len(call.cells), call.room)
  BY <1>1, <1>2, CellsAnswerable
<1>4. Answerable(list, Len(list), call.room)
  BY <1>1, <1>3, Marked
<1> QED BY <1>1, <1>4, EndsWithAnswer

LEMMA AndroidDiskPartitionsOnward == ASSUME Inv, AndroidDiskPartitions PROVE Onward
<1> DEFINE f == "android_disk_partitions"
<1>f. f \in TwoPass /\ f \notin Everything /\ f # "windows_disk_partitions" /\ f # "bsd_users"
      /\ f \in {"android_disk_partitions", "windows_disk_partitions"}
  BY DEF TwoPass, Everything, Unfiltered, ByIndex
<1>1. CASE \E wants \in {Wanted, Entry} : Enter(f, wants)
  BY <1>f, <1>1, EnterOnward, WantedEntries, TwoPassApart
<1>2. CASE Opens(f, "count", 0, {"fp"})
  BY <1>f, <1>2, OpensOnward, TwoPassApart
<1>3. ASSUME call.fn = f, Busy
      PROVE  /\ there \in SUBSET Entry /\ there \subseteq seen.ever
             /\ seen.since \subseteq there /\ seen.since \cap call.wants \subseteq there
             /\ seen.since \cap call.wants \subseteq call.wants
             /\ seen.since \cap call.wants \subseteq Entry
             /\ seen.since \cap there \subseteq Entry
             /\ call.wants \cap there \subseteq call.wants
  BY <1>f, <1>3, SourceThere
<1>4. CASE Counts(f, there, Entry)
  <2>1. call.fn = f /\ Busy
    BY <1>4 DEF Counts, At, Busy
  <2> QED BY <1>f, <1>3, <1>4, <2>1, CountsOnward
<1>5. CASE MakesNone(f, there, {"fp"})
  <2>1. call.fn = f /\ Busy
    BY <1>5 DEF MakesNone, At, Busy
  <2> QED BY <1>f, <1>3, <1>5, <2>1, MakesNoneOnward
<1>6. CASE MakesArray(f, there, 1)
  <2>1. call.fn = f /\ Busy
    BY <1>6 DEF MakesArray, At, Busy
  <2> QED BY <1>f, <1>3, <1>6, <2>1, MakesArrayOnward
<1>7. CASE Puts(f, there, call.wants, Entry)
  <2>1. call.fn = f /\ Busy
    BY <1>7 DEF Puts, At, Busy
  <2> QED BY <1>f, <1>3, <1>7, <2>1, PutsOnward, TwoPassApart
<1>8. CASE /\ At(f, "fill") /\ ~More(there)
           /\ LET list == Append(call.cells, EndMark)
              IN  Gives(list, Len(list), call.room, {"fp", "array"})
  <2>1. call.fn = f /\ Busy
    BY <1>8 DEF At, Busy
  <2> QED BY <1>f, <1>3, <1>8, <2>1, MarkedGiven
<1>9. CASE Fails(f, "called", {})
  BY <1>9, FailsOnward
<1> QED BY <1>1, <1>2, <1>4, <1>5, <1>6, <1>7, <1>8, <1>9 DEF AndroidDiskPartitions

LEMMA WindowsDiskPartitionsOnward == ASSUME Inv, WindowsDiskPartitions PROVE Onward
<1> DEFINE f == "windows_disk_partitions"
           drives == call.buffer
           qualify == IF call.wants = Entry THEN Entry ELSE there \cap call.wants
<1>f. f \in TwoPass /\ f \notin Everything /\ f # "bsd_users"
      /\ f \in {"android_disk_partitions", "windows_disk_partitions"}
  BY DEF TwoPass, Everything, Unfiltered, ByIndex
<1>1. CASE \E wants \in {Wanted, Entry} : Enter(f, wants)
  BY <1>f, <1>1, EnterOnward, WantedEntries, TwoPassApart
<1>2. CASE At(f, "called") /\ there = {} /\ Nothing({})
  <2>1. Busy /\ Promise!Owed = {}
    BY <1>2, SourceThere DEF At, Busy, Promise!Owed
  <2> QED BY <1>2, <2>1, NothingOnward
<1>3. CASE /\ At(f, "called") /\ there # {}
           /\ call' = [call EXCEPT !.pc = "count", !.buffer = there]
           /\ UNCHANGED <<there, held, answer, seen>>
  BY <1>3, DrivesOnward
<1>4. ASSUME call.fn = f, call.pc \in {"count", "fill"}
      PROVE  /\ drives \in SUBSET Entry /\ drives \subseteq seen.ever
             /\ seen.since \subseteq drives /\ seen.since \cap call.wants \subseteq drives
             /\ seen.since \cap call.wants \subseteq qualify
             /\ seen.since \cap drives \subseteq there
             /\ qualify \cap drives \subseteq call.wants
  <2>1. Busy
    BY <1>4 DEF Busy
  <2>2. seen.since \subseteq drives
    BY <1>f, <1>4, <2>1 DEF Inv, Known
  <2> QED BY <2>1, <2>2, SourceThere
<1> HIDE DEF qualify
<1>5. CASE Counts(f, drives, qualify)
  <2>1. call.fn = f /\ call.pc = "count"
    BY <1>5 DEF Counts, At
  <2> QED BY <1>f, <1>4, <1>5, <2>1, CountsOnward
<1>6. CASE MakesNone(f, drives, {})
  <2>1. call.fn = f /\ call.pc = "count"
    BY <1>6 DEF MakesNone, At
  <2> QED BY <1>f, <1>4, <1>6, <2>1, MakesNoneOnward
<1>7. CASE MakesArray(f, drives, 1)
  <2>1. call.fn = f /\ call.pc = "count"
    BY <1>7 DEF MakesArray, At
  <2> QED BY <1>f, <1>4, <1>7, <2>1, MakesArrayOnward
<1>8. CASE Puts(f, drives, qualify, there)
  <2>1. call.fn = f /\ call.pc = "fill"
    BY <1>8 DEF Puts, At
  <2> QED BY <1>f, <1>4, <1>8, <2>1, PutsOnward, TwoPassApart
<1>9. CASE /\ At(f, "fill") /\ ~More(drives)
           /\ LET list == Append(call.cells, EndMark)
              IN  Gives(list, Len(list), call.room, {"array"})
  <2>1. call.fn = f /\ call.pc = "fill"
    BY <1>9 DEF At
  <2> QED BY <1>f, <1>4, <1>9, <2>1, MarkedGiven
<1> QED BY <1>1, <1>2, <1>3, <1>5, <1>6, <1>7, <1>8, <1>9 DEF WindowsDiskPartitions, qualify

(***************************************************************************)
(* What a call has got and not given back.                                 *)
(***************************************************************************)
\* The fields of a call after a step that keeps its function.
LEMMA HeldOn ==
  ASSUME Held, Busy, NEW gets, held' = held \cup gets, call'.fn = call.fn, call'.pc # "idle",
         MayHold(call.fn, call.pc) \subseteq MayHold(call.fn, call'.pc),
         gets \subseteq MayHold(call.fn, call'.pc)
  PROVE  Held'
<1>1. held \subseteq MayHold(call.fn, call.pc)
  BY DEF Held
<1>2. held' \subseteq MayHold(call.fn, call'.pc)
  BY <1>1
<1>3. MayHold(call.fn, call'.pc) = (MayHold(call.fn, call.pc))'
  BY DEF MayHold, GotFirst, GotLater, Connecting
<1> QED BY <1>2, <1>3 DEF Held, Busy

LEMMA HeldReleased ==
  ASSUME Held, Busy, NEW frees, held' = held \ frees, call' = Idle, answer'.fn = call.fn,
         MayHold(call.fn, call.pc) \subseteq frees \cup Leaked(call.fn)
  PROVE  Held'
<1>1. held \subseteq MayHold(call.fn, call.pc)
  BY DEF Held
<1>2. held' \subseteq Leaked(call.fn)
  BY <1>1
<1>3. call'.pc = "idle" /\ Leaked(call.fn) = (Leaked(answer.fn))'
  BY IdleFields DEF Leaked
<1> QED BY <1>2, <1>3 DEF Held, Busy

\* The function and the place of a call are changed by nothing else.
Placed(c, d) == {"fn", "pc"} \subseteq DOMAIN d /\ d.fn = c.fn /\ d.pc = c.pc

LEMMA FieldSet ==
  ASSUME NEW c, {"fn", "pc"} \subseteq DOMAIN c, NEW v, NEW w
  PROVE  /\ Placed(c, [c EXCEPT !.cursor = v])
         /\ Placed(c, [c EXCEPT !.cells = v])
         /\ Placed(c, [c EXCEPT !.room = v])
         /\ Placed(c, [c EXCEPT !.cursor = v, !.counted = w])
         /\ Placed(c, [c EXCEPT !.cursor = v, !.size = w])
         /\ Placed(c, [c EXCEPT !.buffer = v])
  BY DEF Placed

LEMMA PlaceSet ==
  ASSUME NEW c, {"fn", "pc"} \subseteq DOMAIN c, NEW p, NEW v, NEW w
  PROVE  /\ \A d \in {[c EXCEPT !.pc = p], [c EXCEPT !.pc = p, !.cursor = v],
                       [c EXCEPT !.pc = p, !.size = v], [c EXCEPT !.pc = p, !.buffer = v],
                       [c EXCEPT !.pc = p, !.room = v],
                       [c EXCEPT !.pc = p, !.counted = v, !.room = w],
                       [c EXCEPT !.pc = p, !.cursor = v, !.room = w],
                       [c EXCEPT !.pc = p, !.cursor = v, !.size = w]} :
              {"fn", "pc"} \subseteq DOMAIN d /\ d.fn = c.fn /\ d.pc = p
  OBVIOUS

LEMMA StoredPlace ==
  ASSUME NEW c, {"fn", "pc"} \subseteq DOMAIN c, NEW x, NEW full
  PROVE  Placed(c, Stored(c, x, full))
<1> DEFINE l == Append(c.cells, [id |-> x, full |-> full])
<1>1. Stored(c, x, full) = [c EXCEPT !.cells = l]
  BY DEF Stored
<1> HIDE DEF l
<1> QED BY <1>1 DEF Placed

LEMMA GrownPlace ==
  ASSUME NEW c, {"fn", "pc"} \subseteq DOMAIN c
  PROVE  Placed(c, Grown(c))
<1> DEFINE n == IF Len(c.cells) >= c.room THEN 2 * c.room ELSE c.room
<1>1. Grown(c) = [c EXCEPT !.room = n]
  BY DEF Grown
<1> HIDE DEF n
<1> QED BY <1>1 DEF Placed

LEMMA CallPlaced == ASSUME TypeOK PROVE {"fn", "pc"} \subseteq DOMAIN call
  BY DEF TypeOK, Call

LEMMA EntersHolds == ASSUME NEW f, NEW wants, NEW kind, Enters(f, wants, kind) PROVE Held'
<1>1. held' = {}
  BY DEF Enters
<1> QED BY <1>1 DEF Held

LEMMA EnterHolds == ASSUME NEW f, NEW wants, Enter(f, wants) PROVE Held'
  BY EntersHolds DEF Enter

LEMMA ReturnsHolds ==
  ASSUME Held, NEW f, NEW p, p # "idle", At(f, p), NEW frees,
         MayHold(f, p) \subseteq frees \cup Leaked(f),
         \/ ReturnsNull(frees)
         \/ Nothing(frees)
         \/ \E list, count, room : Gives(list, count, room, frees) \/ GivesAny(list, count, room, frees)
  PROVE  Held'
<1>1. call.fn = f /\ call.pc = p /\ Busy
  BY DEF At, Busy
<1>2. held' = held \ frees /\ call' = Idle /\ answer'.fn = call.fn
  BY DEF ReturnsNull, Nothing, Gives, GivesAny, NoAnswer
<1> QED BY <1>1, <1>2, HeldReleased

LEMMA FailsHolds ==
  ASSUME Held, NEW f, NEW p, p # "idle", NEW frees, Fails(f, p, frees),
         MayHold(f, p) \subseteq frees \cup Leaked(f)
  PROVE  Held'
  BY ReturnsHolds DEF Fails

LEMMA CalledHolds == ASSUME NEW f PROVE MayHold(f, "called") = {}
  BY DEF MayHold

\* The first thing that is got.
LEMMA OpeningHolds ==
  ASSUME TypeOK, Held, NEW f, NEW p, NEW n, NEW gets, gets \subseteq MayHold(f, p),
         \/ Opens(f, p, n, gets) /\ p \in {"count", "fill", "add"}
         \/ Pictures(f, gets) /\ p = "pictured"
         \/ Sizes(f, gets) /\ p = "sized"
  PROVE  Held'
<1>1. At(f, "called") /\ held' = held \cup gets /\ p # "idle"
  <2>1. CASE Opens(f, p, n, gets) /\ p \in {"count", "fill", "add"}
    BY <2>1 DEF Opens
  <2>2. CASE Pictures(f, gets) /\ p = "pictured"
    BY <2>2 DEF Pictures
  <2>3. CASE Sizes(f, gets) /\ p = "sized"
    BY <2>3, Zenon DEF Sizes
  <2> QED BY <2>1, <2>2, <2>3
<1>2. call.fn = f /\ call.pc = "called" /\ Busy
  BY <1>1 DEF At, Busy
<1>3. call'.fn = call.fn /\ call'.pc = p
  <2>1. CASE Opens(f, p, n, gets)
    BY <2>1, CallPlaced, PlaceSet DEF Opens
  <2>2. CASE Pictures(f, gets) /\ p = "pictured"
    BY <2>2, CallPlaced DEF Pictures
  <2>3. CASE Sizes(f, gets) /\ p = "sized"
    <3>1. PICK m : call' = [call EXCEPT !.pc = "sized", !.size = m]
      BY <2>3, Zenon DEF Sizes
    <3> QED BY <2>3, <3>1, CallPlaced
  <2> QED BY <2>1, <2>2, <2>3
<1> QED BY <1>1, <1>2, <1>3, CalledHolds, HeldOn

\* What is got when it is known how much there is.
LEMMA ArrayHolds ==
  ASSUME TypeOK, Held, NEW f, NEW n, NEW source, NEW gets, gets \subseteq MayHold(f, "fill"),
         PreparesFill(f, n, gets) \/ (MakesArray(f, source, n) /\ gets = {"array"})
  PROVE  Held'
<1>1. \E p \in {"pictured", "count"} : At(f, p)
  BY DEF PreparesFill, MakesArray
<1>2. call.fn = f /\ call.pc \in {"pictured", "count"} /\ Busy
  BY <1>1 DEF At, Busy
<1>3. held' = held \cup gets /\ call'.fn = call.fn /\ call'.pc = "fill"
  <2>1. CASE PreparesFill(f, n, gets)
    BY <2>1, CallPlaced DEF PreparesFill
  <2>2. CASE MakesArray(f, source, n) /\ gets = {"array"}
    <3> DEFINE m == call.counted + n
    <3>1. call' = [call EXCEPT !.pc = "fill", !.cursor = 0, !.room = m] /\ held' = held \cup gets
      BY <2>2 DEF MakesArray
    <3> HIDE DEF m
    <3> QED BY <3>1, CallPlaced
  <2> QED BY <2>1, <2>2
<1>4. MayHold(f, call.pc) \subseteq MayHold(f, "fill")
  BY <1>2 DEF MayHold
<1> QED BY <1>2, <1>3, <1>4, HeldOn

\* Collecting keeps what there is.
LEMMA CollectsHolds ==
  ASSUME Held, Busy, UNCHANGED held, call'.fn = call.fn,
         \/ call'.pc = call.pc
         \/ call.pc = "sized" /\ call'.pc = "pictured"
         \/ /\ call.pc \in {"fill", "look", "add", "end"}
            /\ call'.pc \in {"fill", "look", "add", "end"}
  PROVE  Held'
<1>1. held' = held \cup {} /\ call'.pc # "idle"
  BY DEF Busy
<1>2. MayHold(call.fn, call.pc) = MayHold(call.fn, call'.pc)
  BY DEF MayHold
<1> QED BY <1>1, <1>2, HeldOn

LEMMA FetchesHolds == ASSUME TypeOK, Held, NEW f, Fetches(f) PROVE Held'
<1>1. call.pc = "sized" /\ Busy /\ UNCHANGED held
      /\ call' = [call EXCEPT !.pc = "pictured", !.buffer = there]
  BY DEF Fetches, At, Busy
<1>2. call'.pc = "pictured" /\ call'.fn = call.fn
  BY <1>1, CallPlaced
<1> QED BY <1>1, <1>2, CollectsHolds

LEMMA EntryHolds ==
  ASSUME TypeOK, Held, NEW f, NEW source, NEW kept, NEW full,
         \/ Counts(f, source, kept) \/ Takes(f) \/ Puts(f, source, kept, full)
         \/ PassesOver(f, source) \/ Picks(f, source) \/ Describes(f) \/ Adds(f)
         \/ ThreadNotDescribed
  PROVE  Held'
<1>1. CASE Counts(f, source, kept)
  <2>1. Busy /\ UNCHANGED held
    <3>1. At(f, "count") /\ UNCHANGED held
      BY <1>1, Zenon DEF Counts
    <3> QED BY <3>1 DEF At, Busy
  <2>2. PICK e : call' = [call EXCEPT !.cursor = e,
                                      !.counted = IF e \in kept THEN @ + 1 ELSE @]
    BY <1>1, Zenon DEF Counts
  <2> DEFINE n == IF e \in kept THEN call.counted + 1 ELSE call.counted
  <2>3. call' = [call EXCEPT !.cursor = e, !.counted = n]
    BY <2>2
  <2> HIDE DEF n
  <2>4. call'.pc = call.pc /\ call'.fn = call.fn
    BY <2>3, CallPlaced
  <2> QED BY <2>1, <2>4, CollectsHolds
<1>2. CASE Takes(f) \/ Adds(f) \/ Puts(f, source, kept, full)
  <2>1. Busy /\ UNCHANGED held
    BY <1>2 DEF Takes, Adds, Puts, At, Busy
  <2>2. PICK e, b, c : /\ c = [call EXCEPT !.cursor = e]
                       /\ call' \in {c, Stored(c, e, b), Stored(Grown(c), e, b)}
    <3>1. CASE Takes(f)
      <4>1. PICK e \in there :
              LET c == [call EXCEPT !.cursor = e]
              IN  call' = IF e \in call.wants THEN Stored(Grown(c), e, TRUE) ELSE c
        BY <3>1, Zenon DEF Takes
      <4> DEFINE c == [call EXCEPT !.cursor = e]
      <4>2. call' \in {c, Stored(c, e, TRUE), Stored(Grown(c), e, TRUE)}
        BY <4>1
      <4> HIDE DEF c
      <4> QED BY <4>2 DEF c
    <3>2. CASE Adds(f)
      <4>1. PICK e \in there :
              LET c == [call EXCEPT !.cursor = e]
              IN  call' = IF e \in call.wants THEN Stored(c, e, TRUE) ELSE c
        BY <3>2, Zenon DEF Adds
      <4> DEFINE c == [call EXCEPT !.cursor = e]
      <4>2. call' \in {c, Stored(c, e, TRUE), Stored(Grown(c), e, TRUE)}
        BY <4>1
      <4> HIDE DEF c
      <4> QED BY <4>2 DEF c
    <3>3. CASE Puts(f, source, kept, full)
      <4>1. PICK e \in source :
              LET c == [call EXCEPT !.cursor = e]
              IN  call' = IF e \in kept THEN Stored(c, e, e \in full) ELSE c
        BY <3>3, Zenon DEF Puts
      <4> DEFINE c == [call EXCEPT !.cursor = e]
                 b == e \in full
      <4>2. call' \in {c, Stored(c, e, b), Stored(Grown(c), e, b)}
        BY <4>1
      <4> HIDE DEF c, b
      <4> QED BY <4>2 DEF c
    <3> QED BY <1>2, <3>1, <3>2, <3>3
  <2>3. Placed(call, c)
    BY <2>2, CallPlaced DEF Placed
  <2>4. Placed(c, Stored(c, e, b)) /\ Placed(c, Grown(c))
    BY <2>3, StoredPlace, GrownPlace DEF Placed
  <2>5. Placed(Grown(c), Stored(Grown(c), e, b))
    BY <2>4, StoredPlace DEF Placed
  <2>6. call'.pc = call.pc /\ call'.fn = call.fn
    BY <2>2, <2>3, <2>4, <2>5 DEF Placed
  <2> QED BY <2>1, <2>6, CollectsHolds
<1>3. CASE PassesOver(f, source)
  <2>1. Busy /\ UNCHANGED held
    BY <1>3 DEF PassesOver, At, Busy
  <2>2. PICK e : call' = [call EXCEPT !.cursor = e]
    BY <1>3, Zenon DEF PassesOver
  <2>3. call'.pc = call.pc /\ call'.fn = call.fn
    BY <2>2, CallPlaced
  <2> QED BY <2>1, <2>3, CollectsHolds
<1>4. CASE Picks(f, source)
  <2>1. call.pc = "fill" /\ Busy /\ UNCHANGED held
    <3>1. At(f, "fill") /\ UNCHANGED held
      BY <1>4, Zenon DEF Picks
    <3> QED BY <3>1 DEF At, Busy
  <2>2. PICK e : call' = [call EXCEPT !.pc = "look", !.cursor = e]
    BY <1>4, Zenon DEF Picks
  <2>3. call'.pc = "look" /\ call'.fn = call.fn
    BY <2>2, CallPlaced
  <2> QED BY <2>1, <2>3, CollectsHolds
<1>5. CASE Describes(f)
  <2>1. call.pc = "look" /\ Busy /\ UNCHANGED held
    BY <1>5 DEF Describes, At, Busy
  <2> DEFINE c == [call EXCEPT !.pc = "fill"]
             e == call.cursor
  <2>2. PICK b : call' = Stored(c, e, b)
    BY <1>5, Zenon DEF Describes
  <2>3. c.pc = "fill" /\ c.fn = call.fn /\ {"fn", "pc"} \subseteq DOMAIN c
    BY CallPlaced
  <2> HIDE DEF c, e
  <2>4. call'.pc = "fill" /\ call'.fn = call.fn
    BY <2>2, <2>3, StoredPlace DEF Placed
  <2> QED BY <2>1, <2>4, CollectsHolds
<1>6. CASE ThreadNotDescribed
  <2>1. Busy /\ UNCHANGED held
    BY <1>6 DEF ThreadNotDescribed, At, Busy
  <2>2. PICK e : call' = Stored([call EXCEPT !.cursor = e], 0, FALSE)
    BY <1>6, Zenon DEF ThreadNotDescribed
  <2> DEFINE c == [call EXCEPT !.cursor = e]
             b == FALSE
  <2>3. c.pc = call.pc /\ c.fn = call.fn /\ {"fn", "pc"} \subseteq DOMAIN c
    BY CallPlaced
  <2>4. call' = Stored(c, 0, b)
    BY <2>2
  <2> HIDE DEF c, b
  <2>5. call'.pc = call.pc /\ call'.fn = call.fn
    BY <2>3, <2>4, StoredPlace DEF Placed
  <2> QED BY <2>1, <2>5, CollectsHolds
<1> QED BY <1>1, <1>2, <1>3, <1>4, <1>5, <1>6

LEMMA GrowHolds ==
  ASSUME Held, NEW f, NEW frees, GrowFails(f, frees), MayHold(f, "fill") \subseteq frees
  PROVE  Held'
  BY ReturnsHolds DEF GrowFails

LEMMA NoneHolds ==
  ASSUME Held, NEW f, NEW source, NEW frees, MakesNone(f, source, frees),
         MayHold(f, "count") \subseteq frees
  PROVE  Held'
  BY ReturnsHolds DEF MakesNone

\* The functions that copy a picture, and what they have got to do so.
Copies(f, gets) ==
  \/ \E wants : Enter(f, wants)
  \/ Fails(f, "called", {}) \/ Fails(f, "sized", gets) \/ Fails(f, "pictured", gets)
  \/ Pictures(f, gets) \/ Sizes(f, gets) \/ Fetches(f)
  \/ At(f, "pictured") /\ Nothing(gets)
  \/ At(f, "pictured") /\ \E list, count, room :
       Gives(list, count, room, gets) \/ GivesAny(list, count, room, gets)

LEMMA CopiesHolds ==
  ASSUME TypeOK, Held, NEW f, NEW gets, Copies(f, gets), gets = GotFirst(f), f # "macos_threads"
  PROVE  Held'
<1>h. /\ MayHold(f, "called") \subseteq {} \cup Leaked(f)
      /\ MayHold(f, "sized") = gets /\ MayHold(f, "pictured") = gets
      /\ gets \subseteq gets \cup Leaked(f)
  BY DEF MayHold, Leaked
<1>1. CASE \E wants : Enter(f, wants)
  BY <1>1, EnterHolds
<1>2. CASE Fails(f, "called", {}) \/ Fails(f, "sized", gets) \/ Fails(f, "pictured", gets)
  BY <1>h, <1>2, FailsHolds
<1>3. CASE Pictures(f, gets) \/ Sizes(f, gets) \/ Fetches(f)
  BY <1>h, <1>3, OpeningHolds, FetchesHolds
<1>4. CASE \/ At(f, "pictured") /\ Nothing(gets)
           \/ At(f, "pictured") /\ \E list, count, room :
                Gives(list, count, room, gets) \/ GivesAny(list, count, room, gets)
  BY <1>h, <1>4, ReturnsHolds
<1> QED BY <1>1, <1>2, <1>3, <1>4, Zenon DEF Copies

LEMMA CopyingHolds ==
  ASSUME TypeOK, Held,
         \/ MacPids \/ MacNetIoCounters \/ MacNetIfAddrs \/ MacNetIfStats
         \/ BsdNetIfAddrs \/ BsdDiskIoCounters \/ AndroidNetIfAddrs \/ LinuxNetIfAddrs
         \/ WindowsNetIfAddrs \/ WindowsNetIfStats \/ WindowsNetIoCounters \/ WindowsNumThreads
         \/ MacDiskPartitions \/ BsdDiskPartitions
  PROVE  Held'
<1>1. \/ Copies("macos_pids", {"procs"}) \/ Copies("macos_net_io_counters", {"buf"})
      \/ Copies("macos_net_if_addrs", {"ifap"}) \/ Copies("macos_net_if_stats", {"buf"})
      \/ Copies("bsd_net_if_addrs", {"ifaddr"}) \/ Copies("bsd_disk_io_counters", {"stats"})
      \/ Copies("android_net_if_addrs", {"ifaddr"}) \/ Copies("linux_net_if_addrs", {"ifaddr"})
      \/ Copies("windows_net_if_addrs", {"adapters"}) \/ Copies("windows_net_if_stats", {"table"})
      \/ Copies("windows_net_io_counters", {"table"})
      \/ Copies("windows_num_threads", {"snapshot"})
      \/ Copies("macos_disk_partitions", {}) \/ Copies("bsd_disk_partitions", {})
  <2>1. ASSUME MacPids PROVE Copies("macos_pids", {"procs"})
    BY <2>1, Zenon DEF MacPids, Copies
  <2>2. ASSUME MacNetIoCounters PROVE Copies("macos_net_io_counters", {"buf"})
    BY <2>2, Zenon DEF MacNetIoCounters, Copies, Number
  <2>3. ASSUME MacNetIfAddrs PROVE Copies("macos_net_if_addrs", {"ifap"})
    BY <2>3, Zenon DEF MacNetIfAddrs, Copies
  <2>4. ASSUME MacNetIfStats PROVE Copies("macos_net_if_stats", {"buf"})
    BY <2>4, Zenon DEF MacNetIfStats, Copies
  <2>5. ASSUME BsdNetIfAddrs PROVE Copies("bsd_net_if_addrs", {"ifaddr"})
    BY <2>5, Zenon DEF BsdNetIfAddrs, Copies
  <2>6. ASSUME BsdDiskIoCounters PROVE Copies("bsd_disk_io_counters", {"stats"})
    BY <2>6, Zenon DEF BsdDiskIoCounters, Copies, Number
  <2>7. ASSUME AndroidNetIfAddrs PROVE Copies("android_net_if_addrs", {"ifaddr"})
    BY <2>7, Zenon DEF AndroidNetIfAddrs, Copies
  <2>8. ASSUME LinuxNetIfAddrs PROVE Copies("linux_net_if_addrs", {"ifaddr"})
    BY <2>8, Zenon DEF LinuxNetIfAddrs, Copies
  <2>9. ASSUME WindowsNetIfAddrs PROVE Copies("windows_net_if_addrs", {"adapters"})
    BY <2>9, Zenon DEF WindowsNetIfAddrs, Copies
  <2>10. ASSUME WindowsNetIfStats PROVE Copies("windows_net_if_stats", {"table"})
    BY <2>10, Zenon DEF WindowsNetIfStats, Copies
  <2>11. ASSUME WindowsNetIoCounters PROVE Copies("windows_net_io_counters", {"table"})
    BY <2>11, Zenon DEF WindowsNetIoCounters, Copies, Number
  <2>12. ASSUME WindowsNumThreads PROVE Copies("windows_num_threads", {"snapshot"})
    BY <2>12, Zenon DEF WindowsNumThreads, Copies
  <2>13. ASSUME MacDiskPartitions PROVE Copies("macos_disk_partitions", {})
    BY <2>13, Zenon DEF MacDiskPartitions, MountsOnce, Copies
  <2>14. ASSUME BsdDiskPartitions PROVE Copies("bsd_disk_partitions", {})
    BY <2>14, Zenon DEF BsdDiskPartitions, MountsOnce, Copies
  <2> QED BY <2>1, <2>2, <2>3, <2>4, <2>5, <2>6, <2>7, <2>8, <2>9, <2>10, <2>11, <2>12,
             <2>13, <2>14
<1>2. /\ GotFirst("macos_pids") = {"procs"} /\ GotFirst("macos_net_io_counters") = {"buf"}
      /\ GotFirst("macos_net_if_addrs") = {"ifap"} /\ GotFirst("macos_net_if_stats") = {"buf"}
      /\ GotFirst("bsd_net_if_addrs") = {"ifaddr"} /\ GotFirst("bsd_disk_io_counters") = {"stats"}
      /\ GotFirst("android_net_if_addrs") = {"ifaddr"}
      /\ GotFirst("linux_net_if_addrs") = {"ifaddr"}
      /\ GotFirst("windows_net_if_addrs") = {"adapters"}
      /\ GotFirst("windows_net_if_stats") = {"table"}
      /\ GotFirst("windows_net_io_counters") = {"table"}
      /\ GotFirst("windows_num_threads") = {"snapshot"}
      /\ GotFirst("macos_disk_partitions") = {} /\ GotFirst("bsd_disk_partitions") = {}
  BY DEF GotFirst, Connecting
<1> QED BY <1>1, <1>2, CopiesHolds

LEMMA WindowsPidsHolds == ASSUME TypeOK, Held, WindowsPids PROVE Held'
<1> DEFINE f == "windows_pids"
<1>h. /\ MayHold(f, "called") = {} /\ MayHold(f, "pictured") = {} /\ f # "macos_threads"
      /\ MayHold(f, "called") \subseteq {} \cup Leaked(f)
      /\ MayHold(f, "pictured") \subseteq {} \cup Leaked(f)
  BY DEF MayHold, GotFirst, Connecting
<1>1. CASE Enter(f, Entry)
  BY <1>1, EnterHolds
<1>2. CASE Fails(f, "called", {})
  BY <1>h, <1>2, FailsHolds
<1>3. CASE /\ At(f, "called") /\ UNCHANGED <<there, held, answer>>
           /\ \E some \in SUBSET there :
                call' = [call EXCEPT !.pc = "pictured", !.buffer = some]
  <2>1. PICK some : call' = [call EXCEPT !.pc = "pictured", !.buffer = some]
    BY <1>3, Zenon
  <2>2. call'.pc = "pictured" /\ call'.fn = call.fn
    BY <2>1, CallPlaced
  <2>3. held' = held \cup {} /\ call.fn = f /\ call.pc = "called" /\ Busy
    BY <1>3 DEF At, Busy
  <2> QED BY <1>h, <2>2, <2>3, HeldOn
<1>4. CASE /\ At(f, "pictured")
           /\ Gives(Copied(call.buffer, MaxPids), Cardinality(call.buffer), MaxPids, {})
  BY <1>h, <1>4, ReturnsHolds
<1> QED BY <1>1, <1>2, <1>3, <1>4, Zenon DEF WindowsPids

\* The numbers.
LEMMA TalliesHold ==
  ASSUME TypeOK, Held,
         \/ LinuxNumFds \/ LinuxNetIoCounters \/ LinuxDiskIoCounters \/ MacNumHandles
         \/ BsdNumFds \/ AndroidNumFds \/ AndroidNetIoCounters \/ AndroidDiskIoCounters
  PROVE  Held'
<1>1. PICK f, wants, gets : f \in Tallied /\ Tally(f, wants, gets) /\ gets = GotFirst(f)
  <2>1. \/ Tally("linux_num_fds", Entry, {"dir"}) \/ Tally("linux_net_io_counters", Wanted, {"fp"})
        \/ Tally("linux_disk_io_counters", Wanted, {"fp"})
        \/ Tally("macos_num_handles", Entry, {"dir"}) \/ Tally("bsd_num_fds", Entry, {"dir"})
        \/ Tally("android_num_fds", Entry, {"dir"})
        \/ Tally("android_net_io_counters", Wanted, {"fp"})
        \/ Tally("android_disk_io_counters", Wanted, {"fp"})
    BY DEF LinuxNumFds, LinuxNetIoCounters, LinuxDiskIoCounters, MacNumHandles, BsdNumFds,
           AndroidNumFds, AndroidNetIoCounters, AndroidDiskIoCounters
  <2>2. /\ GotFirst("linux_num_fds") = {"dir"} /\ GotFirst("linux_net_io_counters") = {"fp"}
        /\ GotFirst("linux_disk_io_counters") = {"fp"} /\ GotFirst("macos_num_handles") = {"dir"}
        /\ GotFirst("bsd_num_fds") = {"dir"} /\ GotFirst("android_num_fds") = {"dir"}
        /\ GotFirst("android_net_io_counters") = {"fp"}
        /\ GotFirst("android_disk_io_counters") = {"fp"}
    BY DEF GotFirst, Connecting
  <2> QED BY <2>1, <2>2 DEF Tallied
<1>h. /\ MayHold(f, "called") \subseteq {} \cup Leaked(f) /\ MayHold(f, "add") \subseteq gets \cup Leaked(f)
      /\ gets \subseteq MayHold(f, "add")
  BY <1>1 DEF MayHold, GotLater, Connecting, Tallied
<1>2. CASE Enter(f, wants)
  BY <1>2, EnterHolds
<1>3. CASE Fails(f, "called", {})
  BY <1>h, <1>3, FailsHolds
<1>4. CASE Opens(f, "add", 0, gets)
  BY <1>h, <1>4, OpeningHolds
<1>5. CASE Adds(f)
  BY <1>5, EntryHolds
<1>6. CASE AddsUp(f, gets)
  BY <1>h, <1>6, ReturnsHolds DEF AddsUp, Number
<1> QED BY <1>1, <1>2, <1>3, <1>4, <1>5, <1>6 DEF Tally

\* The arrays that grow.
LEMMA GrowingHolds ==
  ASSUME TypeOK, Held, MacUsers \/ BsdPids \/ AndroidPids \/ WindowsMemoryMaps
  PROVE  Held'
<1> DEFINE Grows(f, both) ==
      \/ \E wants : Enter(f, wants)
      \/ Fails(f, "called", {}) \/ Opens(f, "fill", Room, both)
      \/ Takes(f) \/ GrowFails(f, both)
      \/ /\ At(f, "fill") \/ At(f, "end")
         /\ \E list, count, room :
              Gives(list, count, room, both) \/ GivesAny(list, count, room, both)
      \/ At(f, "fill") /\ EndsEarly(call, Unread(there)) /\ UNCHANGED held
<1>1. PICK f, both : /\ Grows(f, both) /\ GotFirst(f) = both /\ GotLater(f) = {}
                     /\ f # "macos_threads"
  <2>1. ASSUME MacUsers PROVE Grows("macos_users", {"array", "utmp"})
    BY <2>1, Zenon DEF MacUsers
  <2>2. ASSUME BsdPids PROVE Grows("bsd_pids", {"array", "dir"})
    BY <2>2, Zenon DEF BsdPids
  <2>3. ASSUME AndroidPids PROVE Grows("android_pids", {"array", "dir"})
    BY <2>3, Zenon DEF AndroidPids
  <2>4. ASSUME WindowsMemoryMaps PROVE Grows("windows_memory_maps", {"process", "array"})
    BY <2>4, Zenon DEF WindowsMemoryMaps
  <2>5. /\ GotFirst("macos_users") = {"array", "utmp"} /\ GotLater("macos_users") = {}
        /\ GotFirst("bsd_pids") = {"array", "dir"} /\ GotLater("bsd_pids") = {}
        /\ GotFirst("android_pids") = {"array", "dir"} /\ GotLater("android_pids") = {}
        /\ GotFirst("windows_memory_maps") = {"process", "array"}
        /\ GotLater("windows_memory_maps") = {}
    BY DEF GotFirst, GotLater, Connecting
  <2> HIDE DEF Grows
  <2> QED BY <2>1, <2>2, <2>3, <2>4, <2>5
<1>h. /\ MayHold(f, "called") \subseteq {} \cup Leaked(f)
      /\ MayHold(f, "fill") = both /\ MayHold(f, "end") = both
      /\ both \subseteq both \cup Leaked(f)
  BY <1>1 DEF MayHold
<1>2. CASE \E wants : Enter(f, wants)
  BY <1>2, EnterHolds
<1>3. CASE Fails(f, "called", {})
  BY <1>h, <1>3, FailsHolds
<1>4. CASE Opens(f, "fill", Room, both)
  BY <1>h, <1>4, OpeningHolds
<1>5. CASE Takes(f)
  BY <1>5, EntryHolds
<1>6. CASE GrowFails(f, both)
  BY <1>h, <1>6, GrowHolds
<1>7. CASE /\ At(f, "fill") \/ At(f, "end")
           /\ \E list, count, room :
                Gives(list, count, room, both) \/ GivesAny(list, count, room, both)
  BY <1>h, <1>7, ReturnsHolds
<1>8. CASE At(f, "fill") /\ EndsEarly(call, Unread(there)) /\ UNCHANGED held
  <2>1. call.pc = "fill" /\ Busy /\ call' = [call EXCEPT !.pc = "end"]
    BY <1>8 DEF At, Busy, EndsEarly
  <2>2. call'.pc = "end" /\ call'.fn = call.fn
    BY <2>1, CallPlaced
  <2> QED BY <1>8, <2>1, <2>2, CollectsHolds
<1> QED BY <1>1, <1>2, <1>3, <1>4, <1>5, <1>6, <1>7, <1>8, Zenon

\* The sources that are read twice.
LEMMA TwoPassHolds ==
  ASSUME TypeOK, Held, \/ BsdUsers \/ AndroidThreads \/ AndroidOpenFiles
                       \/ AndroidDiskPartitions \/ WindowsDiskPartitions
  PROVE  Held'
<1> DEFINE Reads(f, gets, all) ==
      \/ \E wants : Enter(f, wants)
      \/ Fails(f, "called", {}) \/ Opens(f, "count", 0, gets)
      \/ At(f, "called") /\ Nothing({})
      \/ /\ At(f, "called") /\ call' = [call EXCEPT !.pc = "count", !.buffer = there]
         /\ UNCHANGED held
      \/ \E source, kept : Counts(f, source, kept) \/ MakesNone(f, source, gets)
      \/ \E source, extra : MakesArray(f, source, extra)
      \/ \E source, kept, full : Puts(f, source, kept, full) \/ Picks(f, source)
      \/ Describes(f)
      \/ At(f, "fill") /\ \E list, count, room : Gives(list, count, room, all)
<1>1. PICK f, gets, all : /\ Reads(f, gets, all) /\ GotFirst(f) = gets /\ GotLater(f) = {"array"}
                          /\ all = gets \cup {"array"}
  <2>1. ASSUME BsdUsers PROVE Reads("bsd_users", {"utmp"}, {"utmp", "array"})
    BY <2>1, Zenon DEF BsdUsers
  <2>2. ASSUME AndroidThreads PROVE Reads("android_threads", {"dir"}, {"dir", "array"})
    BY <2>2, Zenon DEF AndroidThreads, Described
  <2>3. ASSUME AndroidOpenFiles PROVE Reads("android_open_files", {"dir"}, {"dir", "array"})
    BY <2>3, Zenon DEF AndroidOpenFiles, Described
  <2>4. ASSUME AndroidDiskPartitions
        PROVE  Reads("android_disk_partitions", {"fp"}, {"fp", "array"})
    BY <2>4, Zenon DEF AndroidDiskPartitions
  <2>5. ASSUME WindowsDiskPartitions PROVE Reads("windows_disk_partitions", {}, {"array"})
    BY <2>5, Zenon DEF WindowsDiskPartitions
  <2>6. /\ GotFirst("bsd_users") = {"utmp"} /\ GotLater("bsd_users") = {"array"}
        /\ GotFirst("android_threads") = {"dir"} /\ GotLater("android_threads") = {"array"}
        /\ GotFirst("android_open_files") = {"dir"}
        /\ GotLater("android_open_files") = {"array"}
        /\ GotFirst("android_disk_partitions") = {"fp"}
        /\ GotLater("android_disk_partitions") = {"array"}
        /\ GotFirst("windows_disk_partitions") = {}
        /\ GotLater("windows_disk_partitions") = {"array"}
    BY DEF GotFirst, GotLater, Connecting
  <2>7. /\ {"utmp", "array"} = {"utmp"} \cup {"array"} /\ {"dir", "array"} = {"dir"} \cup {"array"}
        /\ {"fp", "array"} = {"fp"} \cup {"array"} /\ {"array"} = {} \cup {"array"}
    OBVIOUS
  <2> HIDE DEF Reads
  <2> QED BY <2>1, <2>2, <2>3, <2>4, <2>5, <2>6, <2>7
<1>h. /\ MayHold(f, "called") \subseteq {} \cup Leaked(f)
      /\ MayHold(f, "called") = {} /\ MayHold(f, "count") = gets /\ MayHold(f, "fill") = all
      /\ {"array"} \subseteq MayHold(f, "fill") /\ all \subseteq all \cup Leaked(f)
  BY <1>1 DEF MayHold
<1>2. CASE \E wants : Enter(f, wants)
  BY <1>2, EnterHolds
<1>3. CASE Fails(f, "called", {}) \/ (At(f, "called") /\ Nothing({}))
  BY <1>h, <1>3, FailsHolds, ReturnsHolds
<1>4. CASE Opens(f, "count", 0, gets)
  BY <1>h, <1>4, OpeningHolds
<1>5. CASE /\ At(f, "called") /\ call' = [call EXCEPT !.pc = "count", !.buffer = there]
           /\ UNCHANGED held
  <2>1. call'.pc = "count" /\ call'.fn = call.fn
    BY <1>5, CallPlaced
  <2>2. held' = held \cup {} /\ call.fn = f /\ call.pc = "called" /\ Busy
    BY <1>5 DEF At, Busy
  <2> QED BY <1>h, <2>1, <2>2, HeldOn
<1>6. CASE \E source, kept : Counts(f, source, kept) \/ MakesNone(f, source, gets)
  BY <1>h, <1>6, EntryHolds, NoneHolds
<1>7. CASE \E source, extra : MakesArray(f, source, extra)
  BY <1>h, <1>7, ArrayHolds
<1>8. CASE (\E source, kept, full : Puts(f, source, kept, full) \/ Picks(f, source)) \/ Describes(f)
  BY <1>8, EntryHolds
<1>9. CASE At(f, "fill") /\ \E list, count, room : Gives(list, count, room, all)
  BY <1>h, <1>9, ReturnsHolds
<1> QED BY <1>1, <1>2, <1>3, <1>4, <1>5, <1>6, <1>7, <1>8, <1>9, Zenon

\* The pictures whose entries are described one by one.
LEMMA PhotographsHold ==
  ASSUME TypeOK, Held, MacThreads \/ WindowsThreads \/ WindowsOpenFiles \/ WindowsUsers
  PROVE  Held'
<1> DEFINE Shows(f, first, early, later, all) ==
      \/ \E wants : Enter(f, wants)
      \/ Fails(f, "called", {}) \/ Fails(f, "sized", early) \/ Fails(f, "pictured", early)
      \/ Pictures(f, first) \/ Sizes(f, first) \/ Fetches(f)
      \/ At(f, "pictured") /\ Nothing(early)
      \/ \E n : PreparesFill(f, n, later)
      \/ At(f, "pictured") /\ held' = held \cup {"array"} /\ \E n, rest : EndsEarly([call EXCEPT !.room = n], rest)
      \/ \E source, kept, full : Puts(f, source, kept, full) \/ Picks(f, source)
                                 \/ PassesOver(f, source)
      \/ ThreadNotDescribed \/ Describes(f)
      \/ /\ At(f, "fill") \/ At(f, "end")
         /\ \E list, count, room : Gives(list, count, room, all) \/ GivesAny(list, count, room, all)
<1>1. PICK f, first, early, later, all :
        /\ Shows(f, first, early, later, all)
        /\ GotFirst(f) = first /\ GotLater(f) = later /\ "array" \in later
        /\ first \subseteq early \cup Leaked(f)
        /\ first \cup later \subseteq all \cup Leaked(f)
  <2>1. ASSUME MacThreads
        PROVE  Shows("macos_threads", {"task", "thread_list"}, {"task"}, {"array"},
                     {"task", "array"})
    BY <2>1, Zenon DEF MacThreads
  <2>2. ASSUME WindowsThreads
        PROVE  Shows("windows_threads", {"snapshot"}, {"snapshot"}, {"array"},
                     {"snapshot", "array"})
    BY <2>2, Zenon DEF WindowsThreads
  <2>3. ASSUME WindowsOpenFiles
        PROVE  Shows("windows_open_files", {"buffer"}, {"buffer"}, {"array", "process"},
                     {"buffer", "array", "process"})
    BY <2>3, Zenon DEF WindowsOpenFiles
  <2>4. ASSUME WindowsUsers
        PROVE  Shows("windows_users", {"sessions"}, {"sessions"}, {"array"},
                     {"sessions", "array"})
    BY <2>4, Zenon DEF WindowsUsers
  <2>5. /\ GotFirst("macos_threads") = {"task", "thread_list"}
        /\ GotLater("macos_threads") = {"array"}
        /\ GotFirst("windows_threads") = {"snapshot"} /\ GotLater("windows_threads") = {"array"}
        /\ GotFirst("windows_open_files") = {"buffer"}
        /\ GotLater("windows_open_files") = {"array", "process"}
        /\ GotFirst("windows_users") = {"sessions"} /\ GotLater("windows_users") = {"array"}
        /\ Leaked("macos_threads") = {"thread_list"}
    BY DEF GotFirst, GotLater, Connecting, Leaked
  <2> HIDE DEF Shows
  <2>6. CASE MacThreads
    BY <2>1, <2>5, <2>6
  <2>7. CASE WindowsThreads
    BY <2>2, <2>5, <2>7
  <2>8. CASE WindowsOpenFiles
    BY <2>3, <2>5, <2>8
  <2>9. CASE WindowsUsers
    BY <2>4, <2>5, <2>9
  <2> QED BY <2>6, <2>7, <2>8, <2>9
<1>h. /\ MayHold(f, "called") = {} /\ MayHold(f, "called") \subseteq {} \cup Leaked(f)
      /\ MayHold(f, "sized") = first /\ MayHold(f, "pictured") = first
      /\ MayHold(f, "fill") = first \cup later /\ MayHold(f, "end") = first \cup later
      /\ MayHold(f, "sized") \subseteq early \cup Leaked(f)
      /\ MayHold(f, "pictured") \subseteq early \cup Leaked(f)
      /\ MayHold(f, "fill") \subseteq all \cup Leaked(f)
      /\ MayHold(f, "end") \subseteq all \cup Leaked(f)
      /\ first \subseteq MayHold(f, "sized") /\ first \subseteq MayHold(f, "pictured")
      /\ later \subseteq MayHold(f, "fill") /\ {"array"} \subseteq MayHold(f, "end")
      /\ MayHold(f, "pictured") \subseteq MayHold(f, "end")
  BY <1>1 DEF MayHold
<1>2. CASE \E wants : Enter(f, wants)
  BY <1>2, EnterHolds
<1>3. CASE Fails(f, "called", {}) \/ Fails(f, "sized", early) \/ Fails(f, "pictured", early)
  BY <1>h, <1>3, FailsHolds
<1>4. CASE Pictures(f, first) \/ Sizes(f, first) \/ Fetches(f)
  BY <1>h, <1>4, OpeningHolds, FetchesHolds
<1>5. CASE At(f, "pictured") /\ Nothing(early)
  BY <1>h, <1>5, ReturnsHolds
<1>6. CASE \E n : PreparesFill(f, n, later)
  BY <1>h, <1>6, ArrayHolds
<1>7. CASE /\ At(f, "pictured") /\ held' = held \cup {"array"}
           /\ \E n, rest : EndsEarly([call EXCEPT !.room = n], rest)
  <2>1. PICK n, rest : EndsEarly([call EXCEPT !.room = n], rest)
    BY <1>7, Zenon
  <2> DEFINE c == [call EXCEPT !.room = n]
  <2>2. Placed(call, c)
    BY CallPlaced DEF Placed
  <2>3. call' = [c EXCEPT !.pc = "end"]
    BY <2>1 DEF EndsEarly
  <2> HIDE DEF c
  <2>4. call'.pc = "end" /\ call'.fn = call.fn
    BY <2>2, <2>3 DEF Placed
  <2>5. call.pc = "pictured" /\ call.fn = f /\ Busy
    BY <1>7 DEF At, Busy
  <2> QED BY <1>h, <1>7, <2>4, <2>5, HeldOn
<1>8. CASE \/ \E source, kept, full : Puts(f, source, kept, full) \/ Picks(f, source)
                                      \/ PassesOver(f, source)
           \/ ThreadNotDescribed \/ Describes(f)
  BY <1>8, EntryHolds
<1>9. CASE /\ At(f, "fill") \/ At(f, "end")
           /\ \E list, count, room : Gives(list, count, room, all) \/ GivesAny(list, count, room, all)
  BY <1>h, <1>9, ReturnsHolds
<1> QED BY <1>1, <1>2, <1>3, <1>4, <1>5, <1>6, <1>7, <1>8, <1>9, Zenon

\* Interfaces by index.
LEMMA AsksIndexHolds ==
  ASSUME TypeOK, Held, NEW f, NEW p, p # "idle", AsksIndex(f, p)
  PROVE  Held'
<1> DEFINE i == call.cursor + 1
           c == [call EXCEPT !.cursor = i]
           b == TRUE
<1>1. Busy /\ UNCHANGED held /\ call' \in {c, Stored(c, i, b)}
  BY DEF AsksIndex, At, Busy
<1> HIDE DEF i, b
<1>2. Placed(call, c)
  BY CallPlaced DEF Placed
<1> HIDE DEF c
<1>3. Placed(c, Stored(c, i, b))
  BY <1>2, StoredPlace DEF Placed
<1>4. call'.pc = call.pc /\ call'.fn = call.fn
  BY <1>1, <1>2, <1>3 DEF Placed
<1> QED BY <1>1, <1>4, CollectsHolds

LEMMA ReadsIfCountHolds ==
  ASSUME TypeOK, Held, NEW f, NEW p, p # "idle", NEW gets, ReadsIfCount(f, p, gets),
         gets \subseteq MayHold(f, p)
  PROVE  Held'
<1> DEFINE m == Max(there)
           n == IF gets = {} THEN 0 ELSE m
<1>1. /\ At(f, "called") /\ held' = gets
      /\ call' = [call EXCEPT !.pc = p, !.counted = m, !.room = n]
  BY Zenon DEF ReadsIfCount
<1> HIDE DEF m, n
<1>2. call'.pc = p /\ call'.fn = call.fn
  BY <1>1, CallPlaced
<1>3. call.fn = f /\ call.pc = "called" /\ Busy /\ MayHold(f, "called") = {}
  BY <1>1, CalledHolds DEF At, Busy
<1>4. held' = held \cup gets
  BY <1>1, <1>3 DEF Held
<1> QED BY <1>2, <1>3, <1>4, HeldOn

LEMMA ByIndexHolds ==
  ASSUME TypeOK, Held, BsdNetIfStats \/ BsdNetIoCounters
  PROVE  Held'
<1> DEFINE Indexes(f, p, gets) ==
      \/ \E wants : Enter(f, wants)
      \/ Fails(f, "called", {}) \/ NoInterface(f) \/ ReadsIfCount(f, p, gets)
      \/ AsksIndex(f, p)
      \/ At(f, p) /\ \E list, count, room :
           Gives(list, count, room, gets) \/ GivesAny(list, count, room, gets)
<1>1. PICK f, p, gets : /\ Indexes(f, p, gets) /\ gets = GotFirst(f) /\ GotLater(f) = {}
                        /\ p \in {"fill", "add"}
  <2>1. ASSUME BsdNetIfStats PROVE Indexes("bsd_net_if_stats", "fill", {"array"})
    BY <2>1, Zenon DEF BsdNetIfStats
  <2>2. ASSUME BsdNetIoCounters PROVE Indexes("bsd_net_io_counters", "add", {})
    BY <2>2, Zenon DEF BsdNetIoCounters, Number
  <2>3. /\ GotFirst("bsd_net_if_stats") = {"array"} /\ GotLater("bsd_net_if_stats") = {}
        /\ GotFirst("bsd_net_io_counters") = {} /\ GotLater("bsd_net_io_counters") = {}
    BY DEF GotFirst, GotLater, Connecting
  <2> HIDE DEF Indexes
  <2> QED BY <2>1, <2>2, <2>3
<1>h. /\ MayHold(f, "called") \subseteq {} \cup Leaked(f) /\ MayHold(f, p) = gets
      /\ gets \subseteq gets \cup Leaked(f) /\ p # "idle"
  BY <1>1 DEF MayHold
<1>2. CASE \E wants : Enter(f, wants)
  BY <1>2, EnterHolds
<1>3. CASE Fails(f, "called", {}) \/ NoInterface(f)
  BY <1>h, <1>3, FailsHolds, ReturnsHolds DEF NoInterface
<1>4. CASE ReadsIfCount(f, p, gets)
  BY <1>h, <1>4, ReadsIfCountHolds
<1>5. CASE AsksIndex(f, p)
  BY <1>h, <1>5, AsksIndexHolds
<1>6. CASE At(f, p) /\ \E list, count, room :
             Gives(list, count, room, gets) \/ GivesAny(list, count, room, gets)
  BY <1>h, <1>6, ReturnsHolds
<1> QED BY <1>1, <1>2, <1>3, <1>4, <1>5, <1>6, Zenon

\* The tables of connections: the array is kept from table to table, the buffer
\* of a table is not.
LEMMA ConnectionsHold ==
  ASSUME TypeOK, Held, NEW f \in Connecting, NEW tables, Connections(f, tables)
  PROVE  Held'
<1>h. /\ MayHold(f, "called") = {} /\ MayHold(f, "called") \subseteq {} \cup Leaked(f)
      /\ MayHold(f, "table") = {"connections"}
      /\ MayHold(f, "asked") = {"connections", "table"}
      /\ MayHold(f, "rows") = {"connections", "table"}
      /\ MayHold(f, "rows") \subseteq {"table", "connections"} \cup Leaked(f)
      /\ MayHold(f, "table") \subseteq {"connections"} \cup Leaked(f)
  BY DEF MayHold, GotFirst, GotLater, Connecting
<1>s. ASSUME call.fn = f, Busy, call'.fn = call.fn, call'.pc \in {"table", "asked", "rows"},
             held' \subseteq MayHold(f, call'.pc)
      PROVE  Held'
  <2>1. MayHold(f, call'.pc) = (MayHold(call.fn, call.pc))'
    BY <1>s DEF MayHold, GotFirst, GotLater, Connecting
  <2> QED BY <1>s, <2>1 DEF Held, Busy
<1>k. ASSUME Busy, call.fn = f PROVE held \subseteq MayHold(f, call.pc)
  BY <1>k DEF Held
<1>1. CASE Begins(f, tables)
  <2>1. CASE \E kind, wants : Enters(f, wants, kind)
    BY <2>1, EntersHolds
  <2>2. CASE Fails(f, "called", {})
    BY <1>h, <2>2, FailsHolds
  <2>3. CASE /\ At(f, "called") /\ held' = {"connections"}
             /\ call' = [call EXCEPT !.pc = "table", !.cursor = 1, !.room = Room]
    <3>1. call'.pc = "table" /\ call'.fn = call.fn
      BY <2>3, CallPlaced
    <3>2. call.fn = f /\ Busy
      BY <2>3 DEF At, Busy
    <3> QED BY <1>h, <1>s, <2>3, <3>1, <3>2
  <2> QED BY <1>1, <2>1, <2>2, <2>3, Zenon DEF Begins
<1>2. CASE NotAsked(f, tables)
  <2> DEFINE n == call.cursor + 1
  <2>1. At(f, "table") /\ UNCHANGED held /\ call' = [call EXCEPT !.cursor = n]
    BY <1>2 DEF NotAsked, OnTable
  <2> HIDE DEF n
  <2>2. call'.pc = call.pc /\ call'.fn = call.fn /\ Busy
    BY <2>1, CallPlaced DEF At, Busy
  <2> QED BY <2>1, <2>2, CollectsHolds
<1>3. CASE Skips(f, tables) \/ EndsTable(f)
  <2> DEFINE n == call.cursor + 1
  <2>1. /\ At(f, "table") \/ At(f, "asked") \/ At(f, "rows")
        /\ held' = held \ {"table"}
        /\ call' = [call EXCEPT !.pc = "table", !.cursor = n, !.size = 0]
    <3>1. CASE Skips(f, tables)
      BY <3>1 DEF Skips, OnTable
    <3>2. CASE EndsTable(f)
      BY <3>2 DEF EndsTable
    <3> QED BY <1>3, <3>1, <3>2
  <2> HIDE DEF n
  <2>2. call'.pc = "table" /\ call'.fn = call.fn
    BY <2>1, CallPlaced
  <2>3. call.pc \in {"table", "asked", "rows"} /\ call.fn = f /\ Busy
    BY <2>1 DEF At, Busy
  <2>4. held' \subseteq MayHold(f, call'.pc)
    BY <1>h, <1>k, <2>1, <2>2, <2>3
  <2> QED BY <1>s, <2>2, <2>3, <2>4
<1>4. CASE SizesTable(f, tables)
  <2>1. At(f, "table") /\ held' = held \cup {"table"}
    BY <1>4, Zenon DEF SizesTable, OnTable
  <2>2. PICK n : call' = [call EXCEPT !.pc = "asked", !.size = n]
    BY <1>4, Zenon DEF SizesTable
  <2>3. call'.pc = "asked" /\ call'.fn = call.fn
    BY <2>2, CallPlaced
  <2>4. call.pc = "table" /\ call.fn = f /\ Busy
    BY <2>1 DEF At, Busy
  <2>5. held' \subseteq MayHold(f, call'.pc)
    BY <1>h, <1>k, <2>1, <2>3, <2>4
  <2> QED BY <1>s, <2>3, <2>4, <2>5
<1>5. CASE FetchesTable(f, tables)
  <2> DEFINE rows == there \cap InTable(Current(tables))
  <2>1. At(f, "asked") /\ UNCHANGED held
        /\ call' = [call EXCEPT !.pc = "rows", !.buffer = rows]
    BY <1>5 DEF FetchesTable
  <2> HIDE DEF rows
  <2>2. call'.pc = "rows" /\ call'.fn = call.fn
    BY <2>1, CallPlaced
  <2>3. call.pc = "asked" /\ call.fn = f /\ Busy
    BY <2>1 DEF At, Busy
  <2>4. held' \subseteq MayHold(f, call'.pc)
    BY <1>h, <1>k, <2>1, <2>2, <2>3
  <2> QED BY <1>s, <2>2, <2>3, <2>4
<1>6. CASE TakesRow(f)
  <2>1. Busy /\ UNCHANGED held
    <3>1. At(f, "rows") /\ UNCHANGED held
      BY <1>6, Zenon DEF TakesRow
    <3> QED BY <3>1 DEF At, Busy
  <2>2. PICK e : call' = Stored(Grown([call EXCEPT !.buffer = @ \ {e}]), e, TRUE)
    BY <1>6, Zenon DEF TakesRow
  <2> DEFINE rest == call.buffer \ {e}
             c == [call EXCEPT !.buffer = rest]
             b == TRUE
  <2>3. call' = Stored(Grown(c), e, b)
    BY <2>2
  <2> HIDE DEF rest, b
  <2>4. Placed(call, c)
    BY CallPlaced DEF Placed
  <2> HIDE DEF c
  <2>5. Placed(c, Grown(c))
    BY <2>4, GrownPlace DEF Placed
  <2>6. Placed(Grown(c), Stored(Grown(c), e, b))
    BY <2>5, StoredPlace DEF Placed
  <2>7. call'.pc = call.pc /\ call'.fn = call.fn
    BY <2>3, <2>4, <2>5, <2>6 DEF Placed
  <2> QED BY <2>1, <2>7, CollectsHolds
<1>7. CASE GrowTableFails(f)
  BY <1>h, <1>7, FailsHolds DEF GrowTableFails
<1>8. CASE AfterLast(f, tables)
  BY <1>h, <1>8, ReturnsHolds DEF AfterLast
<1> QED BY <1>1, <1>2, <1>3, <1>4, <1>5, <1>6, <1>7, <1>8 DEF Connections

(***************************************************************************)
(* All functions together.                                                 *)
(***************************************************************************)
LEMMA InvInit == ASSUME Init PROVE Inv /\ Held
<1>1. /\ there \in SUBSET Entry /\ call = Idle /\ held = {} /\ answer = NoAnswer
      /\ seen = [since |-> {}, ever |-> {}, refused |-> {}, starved |-> FALSE]
  BY DEF Init
<1>2. TypeOK
  <2> DEFINE none == <<>>
             no == FALSE
             zero == 0
             yes == TRUE
  <2>1. none \in Seq(Cell)
    BY EmptySequence
  <2>2. zero \in Nat /\ no \in BOOLEAN /\ yes \in BOOLEAN /\ "none" \in Named
    BY DEF Named
  <2>3. answer = [fn |-> "none", null |-> yes, list |-> none, count |-> zero, room |-> zero]
        /\ seen = [since |-> {}, ever |-> {}, refused |-> {}, starved |-> no]
    BY <1>1 DEF NoAnswer
  <2> HIDE DEF none, no, zero, yes
  <2>4. answer \in [fn : Named, null : BOOLEAN, list : Seq(Cell), count : Nat, room : Nat]
    BY <2>1, <2>2, <2>3
  <2>5. seen \in [since : SUBSET Entry, ever : SUBSET Entry, refused : SUBSET Entry,
                  starved : BOOLEAN]
    BY <2>2, <2>3
  <2> QED BY <1>1, <2>4, <2>5, IdleTyped DEF TypeOK
<1>3. ~Busy
  BY <1>1, IdleFields DEF Busy
<1>4. Begun /\ Known /\ Listed /\ OnePerIndex /\ InTables
  BY <1>1, <1>3, IdleFields, EmptyIds
  DEF Begun, Known, Listed, OnePerIndex, InTables, Busy
<1>5. Fits /\ Distinct /\ HalfExcused
  BY <1>1, IdleFields, EmptySequence DEF Fits, Distinct, HalfExcused
<1>6. OnePerEntry /\ CountedEnough
  BY <1>1, IdleFields DEF OnePerEntry, CountedEnough
<1>7. Answered
  <2>1. answer.list = <<>> /\ answer.null = TRUE /\ answer.room = 0
    BY <1>1 DEF NoAnswer
  <2> QED BY <2>1, EmptySequence DEF Answered, NoneTwice, LengthIsWritten, HalfHasReason
<1>8. Held
  BY <1>1 DEF Held
<1> QED BY <1>2, <1>4, <1>5, <1>6, <1>7, <1>8 DEF Inv

LEMMA Stays == ASSUME Inv, UNCHANGED vars PROVE Onward
<1>1. there' = there /\ call' = call /\ answer' = answer /\ seen' = seen
  BY DEF vars
<1>2. TypeOK' /\ Begun' /\ Known' /\ Fits' /\ Distinct'
  BY <1>1 DEF Inv, TypeOK, Begun, Known, Fits, Distinct, Busy
<1>3. Listed' /\ HalfExcused' /\ OnePerIndex'
  BY <1>1 DEF Inv, Listed, HalfExcused, OnePerIndex, Behind, Excused, Ids
<1>4. OnePerEntry'
  BY <1>1 DEF Inv, OnePerEntry, Behind
<1>5. CountedEnough'
  BY <1>1 DEF Inv, CountedEnough, Foreseen
<1>6. InTables'
  BY <1>1 DEF Inv, InTables, Busy, TablesOf, IsAsked, AsksFor, Ids
<1>7. Answered'
  BY <1>1 DEF Inv, Answered, NoneTwice, LengthIsWritten, HalfHasReason
<1>8. UNCHANGED Promise!vars
  BY <1>1 DEF Promise!vars, Ids
<1> QED BY <1>2, <1>3, <1>4, <1>5, <1>6, <1>7, <1>8 DEF Onward, Inv

LEMMA NextOnward == ASSUME Inv, [Next]_vars PROVE Onward
<1>1. CASE Change
  BY <1>1, ChangeKeeps
<1>2. CASE MacLists
  <2>1. CASE MacNetConnections
    <3>1. "macos_net_connections" \in Connecting
          /\ Connections("macos_net_connections", TablesOf("macos_net_connections"))
      BY <2>1 DEF MacNetConnections, TablesOf, Connecting
    <3> QED BY <3>1, ConnectionsOnward
  <2>2. CASE MacDiskPartitions
    BY <2>2, MountsOnward DEF MacDiskPartitions
  <2> QED BY <1>2, <2>1, <2>2, MacPidsOnward, TalliesOnward, MacThreadsOnward,
             MacNetIoCountersOnward, MacNetIfAddrsOnward, MacNetIfStatsOnward, MacUsersOnward
          DEF MacLists
<1>3. CASE BsdLists
  <2>1. CASE BsdNetConnections
    <3>1. "bsd_net_connections" \in Connecting
          /\ Connections("bsd_net_connections", TablesOf("bsd_net_connections"))
      BY <2>1 DEF BsdNetConnections, TablesOf, Connecting
    <3> QED BY <3>1, ConnectionsOnward
  <2>2. CASE BsdDiskPartitions
    BY <2>2, MountsOnward DEF BsdDiskPartitions
  <2> QED BY <1>3, <2>1, <2>2, BsdPidsOnward, TalliesOnward, BsdNetIfAddrsOnward,
             BsdNetIfStatsOnward, BsdNetIoCountersOnward, BsdDiskIoCountersOnward, BsdUsersOnward
          DEF BsdLists
<1>4. CASE AndroidLists
  BY <1>4, AndroidPidsOnward, TalliesOnward, DescribedOnward, AndroidNetIfAddrsOnward,
     AndroidDiskPartitionsOnward
  DEF AndroidLists, AndroidThreads, AndroidOpenFiles
<1>5. CASE WindowsLists
  <2>1. CASE WindowsNetConnections
    <3>1. "windows_net_connections" \in Connecting
          /\ Connections("windows_net_connections", TablesOf("windows_net_connections"))
      BY <2>1 DEF WindowsNetConnections, TablesOf, Connecting
    <3> QED BY <3>1, ConnectionsOnward
  <2> QED BY <1>5, <2>1, WindowsPidsOnward, WindowsNumThreadsOnward, WindowsThreadsOnward,
             WindowsMemoryMapsOnward, WindowsOpenFilesOnward, WindowsNetIfAddrsOnward,
             WindowsNetIfStatsOnward, WindowsNetIoCountersOnward, WindowsDiskPartitionsOnward,
             WindowsUsersOnward
          DEF WindowsLists
<1>6. CASE LinuxOthers
  BY <1>6, TalliesOnward, LinuxNetIfAddrsOnward DEF LinuxOthers
<1>7. CASE UNCHANGED vars
  BY <1>7, Stays
<1> QED BY <1>1, <1>2, <1>3, <1>4, <1>5, <1>6, <1>7 DEF Next

LEMMA NextHolds == ASSUME TypeOK, Held, [Next]_vars PROVE Held'
<1>1. CASE Change \/ UNCHANGED vars
  <2>1. held' = held /\ call' = call /\ answer' = answer
    BY <1>1 DEF Change, vars
  <2> QED BY <2>1 DEF Held, Busy, MayHold, GotFirst, GotLater, Connecting, Leaked
<1>2. CASE MacLists
  BY <1>2, CopyingHolds, TalliesHold, PhotographsHold, ConnectionsHold, GrowingHolds
  DEF MacLists, MacNetConnections, Connecting
<1>3. CASE BsdLists
  BY <1>3, CopyingHolds, TalliesHold, TwoPassHolds, ByIndexHolds, ConnectionsHold, GrowingHolds
  DEF BsdLists, BsdNetConnections, Connecting
<1>4. CASE AndroidLists
  BY <1>4, CopyingHolds, TalliesHold, TwoPassHolds, GrowingHolds DEF AndroidLists
<1>5. CASE WindowsLists
  BY <1>5, CopyingHolds, WindowsPidsHolds, PhotographsHold, TwoPassHolds, ConnectionsHold,
     GrowingHolds
  DEF WindowsLists, WindowsNetConnections, Connecting
<1>6. CASE LinuxOthers
  BY <1>6, CopyingHolds, TalliesHold DEF LinuxOthers
<1> QED BY <1>1, <1>2, <1>3, <1>4, <1>5, <1>6 DEF Next

LEMMA InvAlways == Spec => [](Inv /\ Held)
<1>1. Inv /\ Held /\ [Next]_vars => (Inv /\ Held)'
  BY NextOnward, NextHolds DEF Onward, Inv
<1> QED BY InvInit, <1>1, PTL DEF Spec

\* The variables of the list functions keep their types: psutil_windows.c,
\* psutil_macos.c, psutil_bsd.c, psutil_android.c, and those of psutil_linux.c
\* that answer at once.
THEOREM ListsTyped == Spec => []TypeOK
<1>1. Inv => TypeOK
  BY DEF Inv
<1> QED BY InvAlways, <1>1, PTL

\* None of the list functions writes past the array it has allocated, however
\* the source changes between the moment the size is known and the moment the
\* elements are written.
THEOREM ListsInBounds == Spec => []InBounds
<1>1. Inv => InBounds
  <2> SUFFICES ASSUME Inv PROVE InBounds
    OBVIOUS
  <2>1. call.pc # "add" => Len(call.cells) <= call.room
    BY DEF Inv, Fits
  <2>2. call.pc = "look" => Len(call.cells) < call.room
    <3> SUFFICES ASSUME call.pc = "look" PROVE Len(call.cells) < call.room
      OBVIOUS
    <3>1. Len(call.cells) \in Nat /\ call.counted \in Nat /\ call.room \in Nat
      BY DEF Inv, TypeOK, Call
    <3>2. Len(call.cells) < call.counted /\ call.counted <= call.room
      BY DEF Inv, Fits
    <3> QED BY <3>1, <3>2
  <2> QED BY <2>1, <2>2 DEF Inv, Answered, InBounds
<1> QED BY InvAlways, <1>1, PTL

\* Each way out of a list function gives back what the function has got; the list
\* of ports of task_threads in process_get_threads of macOS is the one exception.
THEOREM ListsLeaveNothing == Spec => []NothingLeft
<1>1. Held => NothingLeft
  BY DEF Held, NothingLeft, Busy, Leaked
<1> QED BY InvAlways, <1>1, PTL

\* No list function has an entry twice in its answer.
THEOREM ListsOnce == Spec => []NoneTwice
<1>1. Inv => NoneTwice
  BY DEF Inv, Answered
<1> QED BY InvAlways, <1>1, PTL

\* The length returned is the number of elements written, but for the three
\* functions that LengthIsWritten names and what has happened when they differ.
THEOREM ListsCounted == Spec => []LengthIsWritten
<1>1. Inv => LengthIsWritten
  BY DEF Inv, Answered
<1> QED BY InvAlways, <1>1, PTL

\* Where an element lacks what the system says of its entry, the entry was going
\* away or the system refused to describe it.
THEOREM ListsHalvesExplained == Spec => []HalfHasReason
<1>1. Inv => HalfHasReason
  BY DEF Inv, Answered
<1> QED BY InvAlways, <1>1, PTL

LEMMA ListingInit == ASSUME Init PROVE Promise!Init
<1>1. /\ there \in SUBSET Entry /\ call = Idle /\ answer = NoAnswer
      /\ seen = [since |-> {}, ever |-> {}, refused |-> {}, starved |-> FALSE]
  BY DEF Init
<1>2. (call.pc # "idle") = FALSE /\ call.wants = {} /\ (call.fn \notin TwoPass) \in BOOLEAN
  BY <1>1, IdleFields
<1>3. [null |-> answer.null, ids |-> Ids(answer.list)] = [null |-> TRUE, ids |-> {}]
  BY <1>1, EmptyIds DEF NoAnswer
<1> QED BY <1>1, <1>2, <1>3 DEF Promise!Init, Promise!Null

\* The list functions of all platforms implement Listing: an answer has all that
\* was there during the whole call and passes the filter, unless the system
\* refused to describe it; of the five functions that read their source twice,
\* all unless a newcomer is listed; it has nothing that never was there; and there
\* is no answer only for want of something to list, or of memory.
THEOREM ListFunctionsKeepPromise == Spec => PromiseKept
<1>1. Inv /\ [Next]_vars => [Promise!Next]_Promise!vars
  BY NextOnward DEF Onward
<1> QED BY InvAlways, ListingInit, <1>1, PTL DEF Spec, PromiseKept, Promise!Spec
==============================================================================
