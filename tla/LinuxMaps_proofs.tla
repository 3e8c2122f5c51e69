-------------------------- MODULE LinuxMaps_proofs --------------------------
(***************************************************************************)
(* Theorems about LinuxMaps, for files of any length, any paths and any    *)
(* numbers.  The file is compared with what has been built from it at each *)
(* line, so that no induction over the file is needed.                     *)
(***************************************************************************)
EXTENDS LinuxMaps, TLAPS

KeySet ==
  {"Size", "Rss", "Shared_Clean", "Shared_Dirty", "Private_Clean", "Private_Dirty"}

Line ==
  [key : KeySet \cup {"header", "tail", "hextail"}, path : Path \cup {NoPath}, kb : Nat]

-----------------------------------------------------------------------------
(***************************************************************************)
(* Lines and their order.                                                  *)
(***************************************************************************)
LEMMA KeysOfTheFile ==
  /\ DOMAIN Key = 1..6 /\ Range(Key) = KeySet
  /\ \A k \in KeySet : \E i \in 1..6 : Key[i] = k
<1>1. DOMAIN Key = 1..6
  BY DEF Key
<1>2. /\ Key[1] = "Size" /\ Key[2] = "Rss" /\ Key[3] = "Shared_Clean" /\ Key[4] = "Shared_Dirty"
      /\ Key[5] = "Private_Clean" /\ Key[6] = "Private_Dirty"
  BY DEF Key
<1>3. \A k \in KeySet : \E i \in 1..6 : Key[i] = k
  BY <1>2 DEF KeySet
<1>4. \A i \in 1..6 : Key[i] \in KeySet
  BY <1>2 DEF KeySet
<1> QED BY <1>1, <1>3, <1>4 DEF Range

\* A number has a place in the order, which its key gives; any other line has none.
LEMMA Positions ==
  /\ \A l : l.key \notin KeySet => Position(l) = 0
  /\ \A l : l.key \in KeySet => Position(l) \in 1..6
  /\ \A l, m : l.key = m.key => Position(l) = Position(m)
<1>1. ASSUME NEW l, l.key \notin KeySet PROVE Position(l) = 0
  BY <1>1, KeysOfTheFile DEF Position
<1>2. ASSUME NEW l, l.key \in KeySet PROVE Position(l) \in 1..6
  <2>1. Position(l) = CHOOSE i \in DOMAIN Key : Key[i] = l.key
    BY <1>2, KeysOfTheFile DEF Position
  <2>2. \E i \in DOMAIN Key : Key[i] = l.key
    BY <1>2, KeysOfTheFile
  <2>3. Position(l) \in DOMAIN Key
    BY <2>1, <2>2
  <2> QED BY <2>3, KeysOfTheFile
<1>3. ASSUME NEW l, NEW m, l.key = m.key PROVE Position(l) = Position(m)
  BY <1>3 DEF Position
<1> QED BY <1>1, <1>2, <1>3

LEMMA LinesTyped ==
  /\ \A p \in Path : Header(p) \in Line /\ Header(p).key = "header" /\ Header(p).path = p
  /\ \A hex \in BOOLEAN : /\ Rest(hex) \in Line
                          /\ Rest(hex).key = IF hex THEN "hextail" ELSE "tail"
  /\ \A k \in KeySet, v \in Kb :
       Detail(k, v) \in Line /\ Detail(k, v).key = k /\ Detail(k, v).kb = v
  BY LinuxMapsAssumption DEF Header, Rest, Detail, Line

LEMMA LineAppended ==
  ASSUME NEW t \in Seq(Line), NEW x \in Line
  PROVE  /\ Append(t, x) \in Seq(Line) /\ Append(t, x) # <<>>
         /\ Len(Append(t, x)) = Len(t) + 1 /\ Len(t) \in Nat
         /\ DOMAIN t = 1..Len(t) /\ DOMAIN Append(t, x) = 1..(Len(t) + 1)
         /\ \A i \in 1..Len(t) : Append(t, x)[i] = t[i]
         /\ Append(t, x)[Len(t) + 1] = x
  OBVIOUS

-----------------------------------------------------------------------------
(***************************************************************************)
(* What the lines t say of the mapping that begins at line h, the last one *)
(* that has begun.                                                         *)
(***************************************************************************)
Begins(t, h) ==
  /\ h \in DOMAIN t /\ t[h].key = "header" /\ t[h].path \in Path
  /\ \A i \in (h + 1)..Len(t) : t[i].key # "header"

\* The numbers come in their order.
Sorted(t, h) == \A i \in h..Len(t) : Position(t[i]) <= Position(t[Len(t)])

CutAt(t, h) == \E i \in h..Len(t) : t[i].key = "hextail"

Lines(t, h, k) == {i \in h..Len(t) : t[i].key = k}

NumberIn(t, h, k) ==
  IF Lines(t, h, k) = {} THEN 0 ELSE t[CHOOSE i \in Lines(t, h, k) : TRUE].kb

Says(t, h) ==
  [path |-> t[h].path, vms |-> NumberIn(t, h, "Size"), rss |-> NumberIn(t, h, "Rss"),
   shared |-> NumberIn(t, h, "Shared_Clean") + NumberIn(t, h, "Shared_Dirty"),
   dirty |-> NumberIn(t, h, "Private_Clean") + NumberIn(t, h, "Private_Dirty")]

LEMMA NumberIsNat ==
  ASSUME NEW t \in Seq(Line), NEW h \in DOMAIN t, NEW k
  PROVE  NumberIn(t, h, k) \in Nat
<1>1. CASE Lines(t, h, k) = {}
  BY <1>1 DEF NumberIn
<1>2. CASE Lines(t, h, k) # {}
  <2> DEFINE i == CHOOSE i \in Lines(t, h, k) : TRUE
  <2>1. i \in Lines(t, h, k)
    BY <1>2
  <2>2. NumberIn(t, h, k) = t[i].kb
    BY <1>2 DEF NumberIn
  <2> HIDE DEF i
  <2>3. i \in DOMAIN t
    BY <2>1 DEF Lines
  <2>4. t[i] \in Line
    BY <2>3
  <2> QED BY <2>2, <2>4 DEF Line
<1> QED BY <1>1, <1>2

\* A line of another key changes no number.
LEMMA NumberKept ==
  ASSUME NEW t \in Seq(Line), NEW x \in Line, NEW h \in DOMAIN t, NEW k, x.key # k
  PROVE  NumberIn(Append(t, x), h, k) = NumberIn(t, h, k)
<1> DEFINE u == Append(t, x)
<1>1. /\ Len(u) = Len(t) + 1 /\ Len(t) \in Nat /\ DOMAIN t = 1..Len(t)
      /\ \A i \in 1..Len(t) : u[i] = t[i]
      /\ u[Len(t) + 1] = x
  BY LineAppended
<1> HIDE DEF u
<1>2. Lines(u, h, k) = Lines(t, h, k)
  BY <1>1 DEF Lines
<1>3. CASE Lines(t, h, k) = {}
  BY <1>2, <1>3 DEF NumberIn, u
<1>4. CASE Lines(t, h, k) # {}
  <2> DEFINE i == CHOOSE i \in Lines(t, h, k) : TRUE
  <2>1. i \in Lines(t, h, k)
    BY <1>4
  <2>2. NumberIn(t, h, k) = t[i].kb /\ NumberIn(u, h, k) = u[i].kb
    BY <1>2, <1>4 DEF NumberIn
  <2> HIDE DEF i
  <2>3. u[i] = t[i]
    BY <1>1, <2>1 DEF Lines
  <2> QED BY <2>2, <2>3 DEF u
<1> QED BY <1>3, <1>4

\* The first line of a key gives its number.
LEMMA NumberRead ==
  ASSUME NEW t \in Seq(Line), NEW x \in Line, NEW h \in DOMAIN t, NEW k, x.key = k,
         \A i \in h..Len(t) : t[i].key # k
  PROVE  NumberIn(t, h, k) = 0 /\ NumberIn(Append(t, x), h, k) = x.kb
<1> DEFINE u == Append(t, x)
           n == Len(t) + 1
<1>1. /\ Len(u) = n /\ Len(t) \in Nat /\ DOMAIN t = 1..Len(t)
      /\ \A i \in 1..Len(t) : u[i] = t[i]
      /\ u[n] = x
  BY LineAppended
<1> HIDE DEF u
<1>2. Lines(t, h, k) = {}
  BY DEF Lines
<1>3. Lines(u, h, k) = {n}
  BY <1>1 DEF Lines
<1>4. (CHOOSE i \in Lines(u, h, k) : TRUE) = n
  BY <1>3
<1> QED BY <1>1, <1>2, <1>3, <1>4 DEF NumberIn, u

-----------------------------------------------------------------------------
(***************************************************************************)
(* The invariant: what has been built is what the lines read so far say of *)
(* the last mapping.  Nothing is saved before the end of the file.         *)
(***************************************************************************)
MapsTyped ==
  /\ text \in Seq(Line) /\ current \in Entry /\ null \in BOOLEAN
  /\ pc \in {"open", "reading", "done"} /\ (pc = "open" => text = <<>>)
  /\ maps = IF pc = "done" /\ current.path # NoPath THEN <<current>> ELSE <<>>

Follows(t, e) ==
  IF t = <<>> THEN e = Blank
  ELSE \E h \in DOMAIN t :
         /\ Begins(t, h) /\ Sorted(t, h)
         /\ IF CutAt(t, h) THEN e.path = NoPath ELSE e = Says(t, h)

MapsInv == MapsTyped /\ Follows(text, current)

LEMMA BlankTyped == Blank \in Entry /\ Blank.path = NoPath
  BY DEF Blank, Entry

LEMMA MapsInvInit == Init => MapsInv
<1> SUFFICES ASSUME Init PROVE MapsInv
  OBVIOUS
<1>1. text = <<>> /\ current = Blank /\ pc = "open" /\ maps = <<>> /\ null = FALSE
  BY DEF Init
<1>2. text \in Seq(Line)
  BY <1>1
<1>3. MapsTyped
  BY <1>1, <1>2, BlankTyped DEF MapsTyped
<1>4. Follows(text, current)
  BY <1>1 DEF Follows
<1> QED BY <1>3, <1>4 DEF MapsInv

\* Before the end of the file there is nothing that SavePrevious could go on from.
LEMMA NothingSaved ==
  ASSUME MapsInv, pc = "reading"
  PROVE  maps = <<>> /\ (SavePrevious => maps' = <<>>)
  BY DEF MapsInv, MapsTyped, SavePrevious

\* The line of a header begins the mapping that is the last from now on.
LEMMA HeaderBegins ==
  ASSUME NEW t \in Seq(Line), NEW p \in Path
  PROVE  Follows(Append(t, Header(p)), [Blank EXCEPT !.path = p])
<1> DEFINE u == Append(t, Header(p))
           n == Len(t) + 1
<1>1. /\ Len(u) = n /\ Len(t) \in Nat /\ DOMAIN u = 1..n /\ u[n] = Header(p) /\ u # <<>>
      /\ u \in Seq(Line)
  BY LineAppended, LinesTyped
<1>2. u[n].key = "header" /\ u[n].path = p
  BY <1>1 DEF Header
<1> HIDE DEF u
<1>3. Begins(u, n)
  BY <1>1, <1>2 DEF Begins
<1>4. Sorted(u, n)
  <2>1. Position(u[n]) = 0
    BY <1>2, Positions DEF KeySet
  <2>2. \A i \in n..Len(u) : i = n
    BY <1>1
  <2>3. Position(u[n]) <= Position(u[Len(u)])
    BY <1>1, <2>1
  <2> QED BY <2>2, <2>3 DEF Sorted
<1>5. ~CutAt(u, n)
  BY <1>1, <1>2 DEF CutAt
<1>6. ASSUME NEW k \in KeySet PROVE NumberIn(u, n, k) = 0
  <2>1. \A i \in n..Len(u) : i = n
    BY <1>1
  <2>2. u[n].key # k
    BY <1>2 DEF KeySet
  <2>3. Lines(u, n, k) = {}
    BY <2>1, <2>2 DEF Lines
  <2> QED BY <2>3 DEF NumberIn
<1>7. Says(u, n) = [Blank EXCEPT !.path = p]
  <2>1. /\ NumberIn(u, n, "Size") = 0 /\ NumberIn(u, n, "Rss") = 0
        /\ NumberIn(u, n, "Shared_Clean") = 0 /\ NumberIn(u, n, "Shared_Dirty") = 0
        /\ NumberIn(u, n, "Private_Clean") = 0 /\ NumberIn(u, n, "Private_Dirty") = 0
    BY <1>6 DEF KeySet
  <2> QED BY <1>2, <2>1 DEF Says, Blank
<1>8. n \in DOMAIN u
  BY <1>1
<1> QED BY <1>1, <1>3, <1>4, <1>5, <1>7, <1>8 DEF Follows, u

LEMMA ReadHeaderKeeps ==
  ASSUME MapsInv, NEW p \in Path, ReadHeader(p)
  PROVE  MapsInv'
<1>1. /\ pc = "reading" /\ pc' = "reading" /\ null' = null
      /\ text' = Append(text, Header(p)) /\ SavePrevious /\ BeginEntry(p)
  BY DEF ReadHeader
<1>2. maps' = <<>> /\ current' = [Blank EXCEPT !.path = p]
  BY <1>1, NothingSaved DEF BeginEntry
<1>3. text' \in Seq(Line)
  BY <1>1, LineAppended, LinesTyped DEF MapsInv, MapsTyped
<1>4. current' \in Entry
  BY <1>2 DEF Blank, Entry
<1>5. Follows(text', current')
  BY <1>1, <1>2, HeaderBegins DEF MapsInv, MapsTyped
<1> QED BY <1>1, <1>2, <1>3, <1>4, <1>5 DEF MapsInv, MapsTyped

\* A line that is no header leaves the last mapping the last.
LEMMA LineGoesOn ==
  ASSUME NEW t \in Seq(Line), NEW x \in Line, x.key # "header", NEW h \in DOMAIN t, Begins(t, h)
  PROVE  /\ h \in DOMAIN Append(t, x) /\ Begins(Append(t, x), h)
         /\ Append(t, x)[h] = t[h]
         /\ (\A i \in h..Len(t) : Position(t[i]) <= Position(x)) => Sorted(Append(t, x), h)
<1> DEFINE u == Append(t, x)
<1>1. /\ Len(u) = Len(t) + 1 /\ Len(t) \in Nat /\ DOMAIN t = 1..Len(t)
      /\ DOMAIN u = 1..(Len(t) + 1)
      /\ \A i \in 1..Len(t) : u[i] = t[i]
      /\ u[Len(t) + 1] = x
  BY LineAppended
<1> HIDE DEF u
<1>2. h \in DOMAIN u /\ u[h] = t[h]
  BY <1>1
<1>3. \A i \in (h + 1)..Len(u) : u[i].key # "header"
  <2> SUFFICES ASSUME NEW i \in (h + 1)..Len(u) PROVE u[i].key # "header"
    OBVIOUS
  <2>1. CASE i = Len(t) + 1
    BY <1>1, <2>1
  <2>2. CASE i # Len(t) + 1
    <3>1. i \in (h + 1)..Len(t) /\ i \in 1..Len(t)
      BY <1>1, <2>2
    <3> QED BY <1>1, <3>1 DEF Begins
  <2> QED BY <2>1, <2>2
<1>4. ASSUME \A i \in h..Len(t) : Position(t[i]) <= Position(x) PROVE Sorted(u, h)
  <2>0. Position(x) \in Int
    BY Positions
  <2> SUFFICES ASSUME NEW i \in h..Len(u) PROVE Position(u[i]) <= Position(x)
    BY <1>1 DEF Sorted
  <2>1. CASE i = Len(t) + 1
    BY <1>1, <2>0, <2>1
  <2>2. CASE i # Len(t) + 1
    <3>1. i \in h..Len(t) /\ i \in 1..Len(t)
      BY <1>1, <2>2
    <3> QED BY <1>1, <1>4, <3>1
  <2> QED BY <2>1, <2>2
<1> QED BY <1>2, <1>3, <1>4 DEF Begins, u

\* Once a piece of its header looks like an address, a mapping stays cut.
LEMMA CutGoesOn ==
  ASSUME NEW t \in Seq(Line), NEW x \in Line, NEW h \in DOMAIN t
  PROVE  CutAt(Append(t, x), h) <=> (CutAt(t, h) \/ x.key = "hextail")
<1> DEFINE u == Append(t, x)
           n == Len(t) + 1
<1>1. /\ Len(u) = n /\ Len(t) \in Nat /\ DOMAIN t = 1..Len(t) /\ u[n] = x
      /\ \A i \in 1..Len(t) : u[i] = t[i]
  BY LineAppended
<1> HIDE DEF u
<1>2. h..Len(u) = (h..Len(t)) \cup {n} /\ h..Len(t) \subseteq 1..Len(t)
  BY <1>1
<1>3. CutAt(u, h) <=> (CutAt(t, h) \/ x.key = "hextail")
  BY <1>1, <1>2 DEF CutAt
<1> QED BY <1>3 DEF u

\* The further pieces of a header stand behind it, before its numbers.
LEMMA RestFollows ==
  ASSUME NEW t \in Seq(Line), NEW e, Follows(t, e), NEW hex \in BOOLEAN,
         t # <<>>, t[Len(t)].key \in {"header", "tail", "hextail"},
         NEW f, f = IF hex THEN [Blank EXCEPT !.path = NoPath] ELSE e
  PROVE  Follows(Append(t, Rest(hex)), f)
<1> DEFINE u == Append(t, Rest(hex))
<1>1. PICK h \in DOMAIN t :
        Begins(t, h) /\ Sorted(t, h) /\ IF CutAt(t, h) THEN e.path = NoPath ELSE e = Says(t, h)
  BY DEF Follows
<1>2. Rest(hex) \in Line /\ Rest(hex).key = IF hex THEN "hextail" ELSE "tail"
  BY LinesTyped
<1>3. u # <<>>
  BY <1>2, LineAppended
<1>4. Position(Rest(hex)) = 0 /\ Position(t[Len(t)]) = 0
  BY <1>2, Positions DEF KeySet
<1>5. \A i \in h..Len(t) : Position(t[i]) <= Position(Rest(hex))
  BY <1>1, <1>4 DEF Sorted
<1>6. h \in DOMAIN u /\ Begins(u, h) /\ u[h] = t[h] /\ Sorted(u, h)
  BY <1>1, <1>2, <1>5, LineGoesOn
<1>7. CutAt(u, h) <=> (CutAt(t, h) \/ hex)
  BY <1>2, CutGoesOn
<1>8. CASE hex
  <2>1. f.path = NoPath
    BY <1>8 DEF Blank
  <2> HIDE DEF u
  <2> QED BY <1>3, <1>6, <1>7, <1>8, <2>1 DEF Follows, u
<1>9. CASE ~hex
  <2>1. \A k \in KeySet : NumberIn(u, h, k) = NumberIn(t, h, k)
    BY <1>2, <1>9, NumberKept DEF KeySet, u
  <2> HIDE DEF u
  <2>2. Says(u, h) = Says(t, h)
    BY <1>6, <2>1 DEF Says, KeySet
  <2>3. f = e
    BY <1>9
  <2> QED BY <1>1, <1>3, <1>6, <1>7, <1>9, <2>2, <2>3 DEF Follows, u
<1> QED BY <1>8, <1>9

LEMMA ReadTailKeeps ==
  ASSUME MapsInv, NEW hex \in BOOLEAN, ReadTail(hex)
  PROVE  MapsInv'
<1>1. /\ pc = "reading" /\ pc' = "reading" /\ null' = null
      /\ text # <<>> /\ Last(text).key \in {"header", "tail", "hextail"}
      /\ text' = Append(text, Rest(hex))
      /\ IF hex THEN SavePrevious /\ BeginEntry(NoPath) ELSE UNCHANGED <<current, maps>>
  BY DEF ReadTail
<1>2. maps' = <<>> /\ current' = IF hex THEN [Blank EXCEPT !.path = NoPath] ELSE current
  BY <1>1, NothingSaved DEF BeginEntry
<1>3. text' \in Seq(Line)
  BY <1>1, LineAppended, LinesTyped DEF MapsInv, MapsTyped
<1>4. current' \in Entry
  BY <1>2 DEF Blank, Entry, MapsInv, MapsTyped
<1>5. text \in Seq(Line) /\ Follows(text, current)
      /\ text[Len(text)].key \in {"header", "tail", "hextail"}
  BY <1>1 DEF MapsInv, MapsTyped, Last
<1>6. Follows(Append(text, Rest(hex)), current')
  BY <1>1, <1>2, <1>5, RestFollows
<1> QED BY <1>1, <1>2, <1>3, <1>4, <1>6 DEF MapsInv, MapsTyped
-----------------------------------------------------------------------------
(***************************************************************************)
(* The numbers.                                                            *)
(***************************************************************************)
\* The numbers are added to those of their mapping; none comes twice.
LEMMA DetailFollows ==
  ASSUME NEW t \in Seq(Line), NEW e \in Entry, Follows(t, e), NEW k \in KeySet, NEW v \in Kb,
         t # <<>>, Position(t[Len(t)]) < Position(Detail(k, v))
  PROVE  Follows(Append(t, Detail(k, v)), Account(e, k, v))
<1> DEFINE x == Detail(k, v)
           u == Append(t, x)
           f == Account(e, k, v)
<1>1. PICK h \in DOMAIN t :
        Begins(t, h) /\ Sorted(t, h) /\ IF CutAt(t, h) THEN e.path = NoPath ELSE e = Says(t, h)
  BY DEF Follows
<1>2. x \in Line /\ x.key = k /\ x.kb = v /\ x.key # "header" /\ x.key # "hextail" /\ v \in Nat
  BY LinesTyped, LinuxMapsAssumption DEF KeySet
<1>3. /\ Len(u) = Len(t) + 1 /\ Len(t) \in Nat /\ DOMAIN t = 1..Len(t)
      /\ DOMAIN u = 1..(Len(t) + 1) /\ u # <<>> /\ u[Len(t) + 1] = x
      /\ \A i \in 1..Len(t) : u[i] = t[i]
  BY <1>2, LineAppended
<1>4. /\ \A i \in h..Len(t) : Position(t[i]) < Position(x)
  <2>1. \A l : Position(l) \in Int
    BY Positions
  <2> QED BY <1>1, <2>1 DEF Sorted
<1>5. \A i \in h..Len(t) : t[i].key # k
  <2>1. \A l : Position(l) \in Int
    BY Positions
  <2>2. \A l : l.key = x.key => Position(l) = Position(x)
    BY Positions
  <2> QED BY <1>2, <1>4, <2>1, <2>2
<1>6. \A i \in h..Len(t) : Position(t[i]) <= Position(x)
  <2>1. \A l : Position(l) \in Int
    BY Positions
  <2> QED BY <1>4, <2>1
<1> HIDE DEF x
<1>7. h \in DOMAIN u /\ Begins(u, h) /\ u[h] = t[h] /\ Sorted(u, h)
  BY <1>1, <1>2, <1>6, LineGoesOn
<1>8. CutAt(u, h) <=> CutAt(t, h)
  BY <1>2, CutGoesOn
<1>9. NumberIn(t, h, k) = 0 /\ NumberIn(u, h, k) = v
  BY <1>2, <1>5, NumberRead
<1>10. \A j \in KeySet : j # k => NumberIn(u, h, j) = NumberIn(t, h, j)
  BY <1>2, NumberKept
<1>11. \A j \in KeySet : NumberIn(t, h, j) \in Nat
  BY NumberIsNat
<1> HIDE DEF u
<1>12. f.path = e.path
  BY DEF Account, KeySet, Entry
<1>13. CASE CutAt(t, h)
  BY <1>1, <1>3, <1>7, <1>8, <1>12, <1>13 DEF Follows, u, x
<1>14. CASE ~CutAt(t, h)
  <2>1. /\ e = [path |-> t[h].path, vms |-> NumberIn(t, h, "Size"), rss |-> NumberIn(t, h, "Rss"),
                shared |-> NumberIn(t, h, "Shared_Clean") + NumberIn(t, h, "Shared_Dirty"),
                dirty |-> NumberIn(t, h, "Private_Clean") + NumberIn(t, h, "Private_Dirty")]
    BY <1>1, <1>14 DEF Says
  <2> DEFINE N(j) == NumberIn(t, h, j)
             M(j) == NumberIn(u, h, j)
  <2>2. /\ N("Size") \in Nat /\ N("Rss") \in Nat /\ N("Shared_Clean") \in Nat
        /\ N("Shared_Dirty") \in Nat /\ N("Private_Clean") \in Nat /\ N("Private_Dirty") \in Nat
    BY <1>11 DEF KeySet
  <2>3. /\ "Size" # k => M("Size") = N("Size")
        /\ "Rss" # k => M("Rss") = N("Rss")
        /\ "Shared_Clean" # k => M("Shared_Clean") = N("Shared_Clean")
        /\ "Shared_Dirty" # k => M("Shared_Dirty") = N("Shared_Dirty")
        /\ "Private_Clean" # k => M("Private_Clean") = N("Private_Clean")
        /\ "Private_Dirty" # k => M("Private_Dirty") = N("Private_Dirty")
    BY <1>10 DEF KeySet
  <2>4. N(k) = 0 /\ M(k) = v
    BY <1>9
  <2>5. Says(u, h) = [path |-> t[h].path, vms |-> M("Size"), rss |-> M("Rss"),
                      shared |-> M("Shared_Clean") + M("Shared_Dirty"),
                      dirty |-> M("Private_Clean") + M("Private_Dirty")]
    BY <1>7 DEF Says
  <2> HIDE DEF N, M, f
  <2>6. ASSUME k = "Size" PROVE f = Says(u, h)
    <3>1. f = [e EXCEPT !.vms = v]
      BY <2>6 DEF f, Account
    <3> QED BY <2>1, <2>3, <2>4, <2>5, <2>6, <3>1 DEF N
  <2>7. ASSUME k = "Rss" PROVE f = Says(u, h)
    <3>1. f = [e EXCEPT !.rss = v]
      BY <2>7 DEF f, Account
    <3> QED BY <2>1, <2>3, <2>4, <2>5, <2>7, <3>1 DEF N
  <2>8. ASSUME k = "Shared_Clean" PROVE f = Says(u, h)
    <3>1. f = [e EXCEPT !.shared = e.shared + v]
      BY <2>8 DEF f, Account
    <3>2. M("Shared_Clean") + M("Shared_Dirty") = (N("Shared_Clean") + N("Shared_Dirty")) + v
      BY <1>2, <2>2, <2>3, <2>4, <2>8
    <3> QED BY <2>1, <2>3, <2>5, <2>8, <3>1, <3>2 DEF N
  <2>9. ASSUME k = "Shared_Dirty" PROVE f = Says(u, h)
    <3>1. f = [e EXCEPT !.shared = e.shared + v]
      BY <2>9 DEF f, Account
    <3>2. M("Shared_Clean") + M("Shared_Dirty") = (N("Shared_Clean") + N("Shared_Dirty")) + v
      BY <1>2, <2>2, <2>3, <2>4, <2>9
    <3> QED BY <2>1, <2>3, <2>5, <2>9, <3>1, <3>2 DEF N
  <2>10. ASSUME k = "Private_Clean" PROVE f = Says(u, h)
    <3>1. f = [e EXCEPT !.dirty = e.dirty + v]
      BY <2>10 DEF f, Account
    <3>2. M("Private_Clean") + M("Private_Dirty") = (N("Private_Clean") + N("Private_Dirty")) + v
      BY <1>2, <2>2, <2>3, <2>4, <2>10
    <3> QED BY <2>1, <2>3, <2>5, <2>10, <3>1, <3>2 DEF N
  <2>11. ASSUME k = "Private_Dirty" PROVE f = Says(u, h)
    <3>1. f = [e EXCEPT !.dirty = e.dirty + v]
      BY <2>11 DEF f, Account
    <3>2. M("Private_Clean") + M("Private_Dirty") = (N("Private_Clean") + N("Private_Dirty")) + v
      BY <1>2, <2>2, <2>3, <2>4, <2>11
    <3> QED BY <2>1, <2>3, <2>5, <2>11, <3>1, <3>2 DEF N
  <2>12. f = Says(u, h)
    BY <2>6, <2>7, <2>8, <2>9, <2>10, <2>11 DEF KeySet
  <2> QED BY <1>3, <1>7, <1>8, <1>14, <2>12 DEF Follows, u, x, f
<1> QED BY <1>13, <1>14

LEMMA AccountTyped ==
  ASSUME NEW e \in Entry, NEW k \in KeySet, NEW v \in Nat
  PROVE  Account(e, k, v) \in Entry
<1>1. e = [path |-> e.path, vms |-> e.vms, rss |-> e.rss, shared |-> e.shared, dirty |-> e.dirty]
      /\ e.vms \in Nat /\ e.rss \in Nat /\ e.shared \in Nat /\ e.dirty \in Nat
  BY DEF Entry
<1>2. e.shared + v \in Nat /\ e.dirty + v \in Nat
  BY <1>1
<1>3. CASE k \in {"Size", "Rss"}
  BY <1>1, <1>3 DEF Account, Entry
<1>4. CASE k \in {"Shared_Clean", "Shared_Dirty"}
  <2>1. Account(e, k, v) = [e EXCEPT !.shared = e.shared + v]
    BY <1>4 DEF Account
  <2> QED BY <1>2, <2>1 DEF Entry
<1>5. CASE k \in {"Private_Clean", "Private_Dirty"}
  <2>1. Account(e, k, v) = [e EXCEPT !.dirty = e.dirty + v]
    BY <1>5 DEF Account
  <2> QED BY <1>2, <2>1 DEF Entry
<1> QED BY <1>3, <1>4, <1>5 DEF KeySet

LEMMA ReadDetailKeeps ==
  ASSUME MapsInv, NEW k \in Range(Key), NEW v \in Kb, ReadDetail(k, v)
  PROVE  MapsInv'
<1>1. /\ pc = "reading" /\ pc' = "reading" /\ null' = null /\ maps' = maps
      /\ text # <<>> /\ Position(Last(text)) < Position(Detail(k, v))
      /\ text' = Append(text, Detail(k, v)) /\ current' = Account(current, k, v)
  BY DEF ReadDetail
<1>2. k \in KeySet /\ v \in Nat
  BY KeysOfTheFile, LinuxMapsAssumption
<1>3. text \in Seq(Line) /\ current \in Entry /\ Follows(text, current)
  BY DEF MapsInv, MapsTyped
<1>4. Follows(text', current')
  BY <1>1, <1>2, <1>3, DetailFollows DEF Last
<1>5. text' \in Seq(Line) /\ current' \in Entry
  BY <1>1, <1>2, <1>3, LineAppended, LinesTyped, AccountTyped
<1>6. maps' = <<>>
  BY <1>1, NothingSaved
<1> QED BY <1>1, <1>3, <1>4, <1>5, <1>6 DEF MapsInv, MapsTyped

-----------------------------------------------------------------------------
LEMMA MapsInvStep == MapsInv /\ [Next]_vars => MapsInv'
<1> SUFFICES ASSUME MapsInv, [Next]_vars PROVE MapsInv'
  OBVIOUS
<1>1. CASE OpenSmaps
  <2>1. /\ text' = text /\ current' = current /\ maps' = maps /\ text = <<>> /\ pc = "open"
        /\ pc' \in {"reading", "done"} /\ null' \in BOOLEAN
    BY <1>1 DEF OpenSmaps, MapsInv, MapsTyped
  <2>2. current = Blank /\ maps = <<>>
    BY <2>1 DEF MapsInv, MapsTyped, Follows
  <2>3. MapsTyped'
    BY <2>1, <2>2, BlankTyped DEF MapsInv, MapsTyped
  <2> QED BY <2>1, <2>3 DEF MapsInv
<1>2. CASE EndOfFile
  <2>1. /\ pc = "reading" /\ pc' = "done" /\ text' = text /\ current' = current /\ null' = null
        /\ maps' = IF current.path # NoPath THEN Append(maps, current) ELSE maps
    BY <1>2 DEF EndOfFile
  <2>2. maps = <<>>
    BY <2>1, NothingSaved
  <2>3. Append(maps, current) = <<current>>
    BY <2>2
  <2>4. maps' = IF current.path # NoPath THEN <<current>> ELSE <<>>
    BY <2>1, <2>2, <2>3
  <2> QED BY <2>1, <2>4 DEF MapsInv, MapsTyped
<1>3. CASE UNCHANGED vars
  BY <1>3 DEF vars, MapsInv, MapsTyped
<1> QED BY <1>1, <1>2, <1>3, ReadHeaderKeeps, ReadTailKeeps, ReadDetailKeeps DEF Next

LEMMA MapsInvHolds == Spec => []MapsInv
  BY MapsInvInit, MapsInvStep, PTL DEF Spec

-----------------------------------------------------------------------------
(***************************************************************************)
(* What is reported.                                                       *)
(***************************************************************************)
\* The file, read as a whole, says of its last mapping what Says says.
LEMMA LastMapping ==
  ASSUME text \in Seq(Line), NEW h \in DOMAIN text, Begins(text, h)
  PROVE  h \in Headers /\ Max(Headers) = h /\ Mapping(h) = Says(text, h)
         /\ Cut(h) = CutAt(text, h)
<1>1. DOMAIN text = 1..Len(text) /\ Len(text) \in Nat
  OBVIOUS
<1>2. h \in Headers /\ Headers \subseteq 1..Len(text)
  BY <1>1 DEF Headers, Begins
<1>3. \A i \in Headers : i <= h
  <2> SUFFICES ASSUME NEW i \in Headers, i > h PROVE FALSE
    BY <1>1, <1>2
  <2>1. i \in (h + 1)..Len(text) /\ text[i].key = "header"
    BY <1>1 DEF Headers
  <2> QED BY <2>1 DEF Begins
<1>4. Max(Headers) = h
  <2>1. \A x \in Headers : (\A y \in Headers : x >= y) => x = h
    BY <1>1, <1>2, <1>3
  <2>2. \A y \in Headers : h >= y
    BY <1>1, <1>2, <1>3
  <2> QED BY <1>2, <2>1, <2>2 DEF Max
<1>5. Until(h) = Len(text) + 1
  <2>1. {i \in Headers : i > h} \cup {Len(text) + 1} = {Len(text) + 1}
    BY <1>1, <1>2, <1>3
  <2>2. Min({Len(text) + 1}) = Len(text) + 1
    <3> DEFINE n == Len(text) + 1
    <3>1. n \in Int /\ n <= n
      BY <1>1
    <3> HIDE DEF n
    <3>2. Min({n}) = n
      BY <3>1 DEF Min
    <3> QED BY <3>2 DEF n
  <2> QED BY <2>1, <2>2 DEF Until
<1>6. ASSUME NEW k PROVE Number(h, k) = NumberIn(text, h, k)
  <2>1. h..(Until(h) - 1) = h..Len(text)
    BY <1>1, <1>5
  <2> DEFINE lines == {i \in h..(Until(h) - 1) : text[i].key = k}
  <2>2. lines = Lines(text, h, k)
    BY <2>1 DEF Lines
  <2>3. Number(h, k) = IF lines = {} THEN 0 ELSE text[CHOOSE i \in lines : TRUE].kb
    BY DEF Number
  <2> HIDE DEF lines
  <2> QED BY <2>2, <2>3 DEF NumberIn
<1>7. Mapping(h) = Says(text, h)
  BY <1>6 DEF Mapping, Says
<1>8. Cut(h) = CutAt(text, h)
  <2>1. h..(Until(h) - 1) = h..Len(text)
    BY <1>1, <1>5
  <2> QED BY <2>1 DEF Cut, CutAt
<1> QED BY <1>2, <1>4, <1>7, <1>8

\* What is reported is one mapping of the file, never numbers of two together,
\* however long the file is and wherever its lines are cut.
THEOREM MapsReportedWhole == Spec => []ReportedWhole
<1>1. MapsInv => ReportedWhole
  <2> SUFFICES ASSUME MapsInv, pc = "done", NEW i \in DOMAIN maps
               PROVE  \E h \in Headers : ~Cut(h) /\ maps[i] = Mapping(h)
    BY DEF ReportedWhole
  <2>1. current.path # NoPath /\ maps = <<current>>
    BY DEF MapsInv, MapsTyped
  <2>2. i = 1 /\ maps[i] = current
    BY <2>1
  <2>3. text # <<>> /\ text \in Seq(Line)
    BY <2>1, BlankTyped DEF MapsInv, MapsTyped, Follows
  <2>4. PICK h \in DOMAIN text :
          /\ Begins(text, h)
          /\ IF CutAt(text, h) THEN current.path = NoPath ELSE current = Says(text, h)
    BY <2>3 DEF MapsInv, Follows
  <2> QED BY <2>1, <2>2, <2>3, <2>4, LastMapping
<1> QED BY <1>1, MapsInvHolds, PTL

\* The last mapping of the file is reported, however often its header is cut, unless
\* one of the further pieces looks like an address.
THEOREM LastMappingReported == Spec => []LastReported
<1>1. MapsInv => LastReported
  <2> SUFFICES ASSUME MapsInv, pc = "done", Headers # {}
               PROVE  Cut(Max(Headers))
                        \/ (maps # <<>> /\ Last(maps) = Mapping(Max(Headers)))
    BY DEF LastReported
  <2>1. text # <<>> /\ text \in Seq(Line)
    BY DEF MapsInv, MapsTyped, Headers
  <2>2. PICK h \in DOMAIN text :
          /\ Begins(text, h)
          /\ IF CutAt(text, h) THEN current.path = NoPath ELSE current = Says(text, h)
    BY <2>1 DEF MapsInv, Follows
  <2>3. Max(Headers) = h /\ Mapping(h) = Says(text, h) /\ Cut(h) = CutAt(text, h)
    BY <2>1, <2>2, LastMapping
  <2>4. CASE CutAt(text, h)
    BY <2>3, <2>4
  <2>5. CASE ~CutAt(text, h)
    <3>1. current = Says(text, h) /\ current.path = text[h].path
      BY <2>2, <2>5 DEF Says
    <3>2. current.path # NoPath
      BY <2>2, <3>1, LinuxMapsAssumption DEF Begins
    <3>3. maps = <<current>>
      BY <3>2 DEF MapsInv, MapsTyped
    <3> QED BY <2>3, <3>1, <3>3 DEF Last
  <2> QED BY <2>4, <2>5
<1> QED BY <1>1, MapsInvHolds, PTL
==============================================================================
