------------------------------ MODULE ListSteps ------------------------------
(***************************************************************************)
(* The steps from which the list functions of macOS, the BSDs, Android and *)
(* Windows are made: one system call each, with the code up to the next.   *)
(* They obtain what they list in three ways: in one picture (an array the  *)
(* system fills), in a picture for which the size is asked beforehand, or  *)
(* entry by entry from a source that changes meanwhile.                    *)
(*                                                                         *)
(* A function that answers a number (descriptors, sums of counters) is     *)
(* treated as one whose list is what went into the number.                 *)
(***************************************************************************)
EXTENDS Integers, Sequences, FiniteSets, SequencesExt

CONSTANTS
  Entry,     \* what can be in the source
  Wanted,    \* the entries that pass a function's filter
  Table,     \* the table in which an entry is, when it is a connection
  Listings,  \* the functions this program calls (bounds a run)
  Kinds,     \* the kinds of connections it asks for
  Room,      \* the size an array that grows begins with
  MaxPids    \* elements of the array of psutil_windows_pids: 1024

Tables == {"tcp4", "tcp6", "udp4", "udp6"}
Kind   == {"inet", "tcp", "tcp4", "tcp6", "udp", "udp4", "udp6", "unix"}

ASSUME ListStepsAssumption ==
  /\ Entry \subseteq Nat \ {0} /\ IsFiniteSet(Entry)
  /\ Wanted \subseteq Entry
  /\ Table \in [Entry -> Tables]
  /\ Kinds \subseteq Kind
  /\ Room \in Nat \ {0} /\ MaxPids \in Nat \ {0}

VARIABLES
  there,   \* the entries of the source
  call,    \* the local variables of the call in progress
  held,    \* what the call has got from the system and not given back
  answer,  \* the last answer
  seen     \* history, read by the properties only: see Listing

vars == <<there, call, held, answer, seen>>

Idle ==
  [fn |-> "none", pc |-> "idle", kind |-> "none",
   wants |-> {},     \* the entries that the function is to list
   size |-> 0,       \* the size the system has told
   buffer |-> {},    \* the picture it has given
   cursor |-> 0,     \* the last entry read, the index or the table in turn
   counted |-> 0,    \* the bound of the loop that fills the array
   room |-> 0,       \* elements the array has been allocated for
   cells |-> <<>>]   \* what has been stored; its length is the code's index

Cell == [id : Entry \cup {0}, full : BOOLEAN]
NoAnswer == [fn |-> "none", null |-> TRUE, list |-> <<>>, count |-> 0, room |-> 0]
Fresh    == [since |-> there, ever |-> there, refused |-> {}, starved |-> FALSE]

Init ==
  /\ there \in SUBSET Entry
  /\ call = Idle /\ held = {} /\ answer = NoAnswer
  /\ seen = [since |-> {}, ever |-> {}, refused |-> {}, starved |-> FALSE]

\* Something appears or goes away.
Change ==
  /\ \E e \in Entry : there' = IF e \in there THEN there \ {e} ELSE there \cup {e}
  /\ seen' = [seen EXCEPT !.since = @ \cap there',
                          !.ever = IF call.pc # "idle" THEN @ \cup there' ELSE @]
  /\ UNCHANGED <<call, held, answer>>

At(f, p) == call.fn = f /\ call.pc = p

(***************************************************************************)
(* Beginning and ending.                                                   *)
(***************************************************************************)
Enters(f, wants, kind) ==
  /\ call.pc = "idle" /\ f \in Listings
  /\ call' = [Idle EXCEPT !.fn = f, !.pc = "called", !.wants = wants, !.kind = kind]
  /\ held' = {} /\ answer' = NoAnswer /\ seen' = Fresh
  /\ UNCHANGED there

Enter(f, wants) == Enters(f, wants, "none")

\* Each way out names what it releases.
ReturnsNull(frees) ==
  /\ call' = Idle /\ held' = held \ frees
  /\ answer' = [NoAnswer EXCEPT !.fn = call.fn]
  /\ UNCHANGED there

\* A system call or an allocation fails.
Fails(f, p, frees) ==
  /\ At(f, p)
  /\ ReturnsNull(frees)
  /\ seen' = [seen EXCEPT !.starved = TRUE]

Nothing(frees) == ReturnsNull(frees) /\ UNCHANGED seen

\* The array and its length go to the program.
Gives(list, count, room, frees) ==
  /\ call' = Idle /\ held' = held \ frees
  /\ answer' = [fn |-> call.fn, null |-> FALSE, list |-> list, count |-> count, room |-> room]
  /\ UNCHANGED <<there, seen>>

GivesAny(list, count, room, frees) ==
  IF list = <<>> THEN Nothing(frees) ELSE Gives(list, count, room, frees)

(***************************************************************************)
(* Pictures.                                                               *)
(***************************************************************************)

\* The first n entries of a picture that are wanted, in the order in which the
\* system gives them, whichever that is.
Copied(picture, n) ==
  LET s == SetToSeq(picture \cap call.wants)
  IN  [i \in 1..(IF Len(s) < n THEN Len(s) ELSE n) |-> [id |-> s[i], full |-> TRUE]]

\* The system fills an array or a snapshot of its own.
Pictures(f, gets) ==
  /\ At(f, "called")
  /\ call' = [call EXCEPT !.pc = "pictured", !.buffer = there]
  /\ held' = held \cup gets
  /\ UNCHANGED <<there, answer, seen>>

\* It tells the size there must be, or one with some room more; a buffer of
\* that size is allocated.
Sizes(f, gets) ==
  /\ At(f, "called")
  /\ \E n \in Cardinality(there)..Cardinality(Entry) :
       call' = [call EXCEPT !.pc = "sized", !.size = n]
  /\ held' = held \cup gets
  /\ UNCHANGED <<there, answer, seen>>

\* The buffer is filled, if what is there now fits.
Fetches(f) ==
  /\ At(f, "sized") /\ Cardinality(there) <= call.size
  /\ call' = [call EXCEPT !.pc = "pictured", !.buffer = there]
  /\ UNCHANGED <<there, held, answer, seen>>

\* An array of n elements is allocated for a picture whose entries are asked
\* about one by one.
PreparesFill(f, n, gets) ==
  /\ At(f, "pictured")
  /\ call' = [call EXCEPT !.pc = "fill", !.counted = n, !.room = n]
  /\ held' = held \cup gets
  /\ UNCHANGED <<there, answer, seen>>

(***************************************************************************)
(* Entry by entry.                                                         *)
(***************************************************************************)
Unread(source) == {e \in source : e > call.cursor}
IsNext(source, e) == e \in Unread(source) /\ \A x \in Unread(source) : e <= x

\* A directory or a file is opened, with an array of n elements.
Opens(f, p, n, gets) ==
  /\ At(f, "called")
  /\ call' = [call EXCEPT !.pc = p, !.room = n]
  /\ held' = held \cup gets
  /\ UNCHANGED <<there, answer, seen>>

\* The next entry is read, and counted if it is in kept.
Counts(f, source, kept) ==
  /\ At(f, "count")
  /\ \E e \in source :
       /\ IsNext(source, e)
       /\ call' = [call EXCEPT !.cursor = e,
                               !.counted = IF e \in kept THEN @ + 1 ELSE @]
  /\ UNCHANGED <<there, held, answer, seen>>

\* All are counted: an array of that many elements, and extra for the end
\* mark; the source is read from its beginning again.
MakesArray(f, source, extra) ==
  /\ At(f, "count") /\ Unread(source) = {} /\ call.counted > 0
  /\ call' = [call EXCEPT !.pc = "fill", !.cursor = 0, !.room = call.counted + extra]
  /\ held' = held \cup {"array"}
  /\ UNCHANGED <<there, answer, seen>>

\* There is nothing to count, or no memory for the array.
MakesNone(f, source, frees) ==
  /\ At(f, "count") /\ Unread(source) = {}
  /\ ReturnsNull(frees)
  /\ seen' = [seen EXCEPT !.starved = call.counted > 0]

\* An element is written.
Stored(c, id, full) == [c EXCEPT !.cells = Append(@, [id |-> id, full |-> full])]

\* An array that is full is made twice as large.
Grown(c) == [c EXCEPT !.room = IF Len(c.cells) >= c.room THEN 2 * c.room ELSE c.room]

\* The next entry is stored in an array that grows, if it is wanted.
Takes(f) ==
  /\ At(f, "fill")
  /\ \E e \in there :
       /\ IsNext(there, e)
       /\ LET c == [call EXCEPT !.cursor = e]
          IN  call' = IF e \in call.wants THEN Stored(Grown(c), e, TRUE) ELSE c
  /\ UNCHANGED <<there, held, answer, seen>>

GrowFails(f, frees) ==
  /\ At(f, "fill") /\ Len(call.cells) >= call.room
  /\ \E e \in call.wants : IsNext(there, e)
  /\ ReturnsNull(frees)
  /\ seen' = [seen EXCEPT !.starved = TRUE]

\* Slip: the loop stops one element short.
MoreShort(source) == Unread(source) # {} /\ Len(call.cells) < call.counted - 1

\* Slip: the loop goes on to the end of the source.
MoreToEnd(source) == Unread(source) # {}

\* The loops that fill an array of fixed size stop when it is full.
More(source) == Unread(source) # {} /\ Len(call.cells) < call.counted

\* The next entry is stored in such an array, full or with what is known of it;
\* those that are not in kept are passed over.
Puts(f, source, kept, full) ==
  /\ At(f, "fill") /\ More(source)
  /\ \E e \in source :
       /\ IsNext(source, e)
       /\ LET c == [call EXCEPT !.cursor = e]
          IN  call' = IF e \in kept THEN Stored(c, e, e \in full) ELSE c
  /\ UNCHANGED <<there, held, answer, seen>>

NextIsThere(source) == \E e \in there : IsNext(source, e)

\* The system does not say what is asked of the next entry: go on without it.
PassesOver(f, source) ==
  /\ At(f, "fill") /\ More(source)
  /\ \E e \in source :
       /\ IsNext(source, e)
       /\ call' = [call EXCEPT !.cursor = e]
       /\ seen' = [seen EXCEPT !.refused = IF e \in there THEN @ \cup {e} ELSE @]
  /\ UNCHANGED <<there, held, answer>>

\* The name of the next entry is read.
Picks(f, source) ==
  /\ At(f, "fill") /\ More(source)
  /\ \E e \in source : IsNext(source, e) /\ call' = [call EXCEPT !.pc = "look", !.cursor = e]
  /\ UNCHANGED <<there, held, answer, seen>>

\* Slip: the name is not moved past.
DescribesAgain(f) ==
  /\ At(f, "look")
  /\ call' = [Stored(call, call.cursor, call.cursor \in there)
               EXCEPT !.pc = "fill", !.cursor = @ - 1]
  /\ UNCHANGED <<there, held, answer, seen>>

\* What there is to say of it is asked for; by now it may be gone, or the system
\* refuses.  The element counts all the same.
Describes(f) ==
  /\ At(f, "look")
  /\ \E full \in {TRUE, FALSE} :
       /\ full => call.cursor \in there
       /\ call' = Stored([call EXCEPT !.pc = "fill"], call.cursor, full)
       /\ seen' = [seen EXCEPT !.refused = IF call.cursor \in there /\ ~full
                                           THEN @ \cup {call.cursor} ELSE @]
  /\ UNCHANGED <<there, held, answer>>

\* The loop ends before the entries in rest, about which the system says
\* nothing.
EndsEarly(c, rest) ==
  /\ call' = [c EXCEPT !.pc = "end"]
  /\ seen' = [seen EXCEPT !.refused = @ \cup rest]
  /\ UNCHANGED <<there, answer>>

(***************************************************************************)
(* Mounted file systems on macOS and the BSDs: getmntinfo's array belongs  *)
(* to the C library.  The same entries are counted and stored, which are   *)
(* all of them if the caller says so.  An element more is the end mark.    *)
(***************************************************************************)
EndMark == [id |-> 0, full |-> TRUE]

MountsOnce(f) ==
  LET list == Copied(call.buffer, Cardinality(call.buffer))
  IN  \/ \E wants \in {Wanted, Entry} : Enter(f, wants)
      \/ Fails(f, "called", {})
      \/ Pictures(f, {}) \/ Fails(f, "pictured", {})
      \/ At(f, "pictured") /\ list = <<>> /\ Nothing({})
      \/ /\ At(f, "pictured") /\ list # <<>>
         /\ Gives(Append(list, EndMark), Len(list) + 1, Len(list) + 1, {})

(***************************************************************************)
(* Numbers.                                                                *)
(***************************************************************************)

\* The next entry goes into the number, if it is wanted.
Adds(f) ==
  /\ At(f, "add")
  /\ \E e \in there :
       /\ IsNext(there, e)
       /\ LET c == [call EXCEPT !.cursor = e]
          IN  call' = IF e \in call.wants THEN Stored(c, e, TRUE) ELSE c
  /\ UNCHANGED <<there, held, answer, seen>>

Number(list, frees) == Gives(list, Len(list), Len(list), frees)

\* All of it has been read.
AddsUp(f, frees) ==
  /\ At(f, "add") /\ Unread(there) = {}
  /\ Number(call.cells, frees)

\* A number made of a directory or a file: opened, read to the end, closed.
Tally(f, wants, gets) ==
  \/ Enter(f, wants) \/ Fails(f, "called", {})
  \/ Opens(f, "add", 0, gets)
  \/ Adds(f) \/ AddsUp(f, gets)
=============================================================================
