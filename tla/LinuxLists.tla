----------------------------- MODULE LinuxLists -----------------------------
(***************************************************************************)
(* The functions of psutil_linux.c that collect a list from a directory or *)
(* a file while its contents change.  Three make the array grow as they    *)
(* read (pids, process_get_open_files, users); three count first and fill  *)
(* in a second pass (process_get_threads, disk_partitions, net_if_stats).  *)
(*                                                                         *)
(* An entry is a number: reading goes upwards through those that are there *)
(* at the moment of each read, as the kernel does for the directories and  *)
(* the tables of /proc.                                                    *)
(***************************************************************************)
EXTENDS Integers, Sequences, FiniteSets

CONSTANTS
  Entry,     \* what can be in the source
  Wanted,    \* the entries that pass the function's filter
  Listings,  \* the functions this program calls (bounds a run)
  Room,      \* the size an array that grows begins with
  MaxFiles   \* descriptors this program may have open for /proc

Growing == {"pids", "open_files", "users"}
TwoPass == {"threads", "disk_partitions", "net_if_stats"}

ASSUME LinuxListsAssumption ==
  /\ Entry \subseteq Nat \ {0}
  /\ Wanted \subseteq Entry
  /\ Listings \subseteq Growing \cup TwoPass
  /\ Room \in Nat \ {0} /\ MaxFiles \in Nat

VARIABLES
  there,    \* the entries of the source
  pc,       \* where the call is, "idle" outside
  fn,       \* the function in progress
  cursor,   \* the last entry read from the directory or file
  entry,    \* the entry being described, 0 between two of them
  counted,  \* what the first pass has counted
  room,     \* elements the array has been allocated for, 0 without an array
  cells,    \* what has been stored; its length is the code's index
  files,    \* open directories and files of the library
  answer,   \* the last answer
  \* History variables, read by the properties only: see Listing.
  since, ever, refused, starved,
  before    \* the files that were open when the call began

callVars  == <<pc, fn, cursor, entry, counted, room, cells, files, answer>>
history   == <<since, ever, refused, starved, before>>
vars      == <<there, callVars, history>>

Cell   == [id : Entry \cup {0}, full : BOOLEAN]
Answer == [fn : Growing \cup TwoPass \cup {"none"}, null : BOOLEAN,
           list : Seq(Cell), room : Nat, counted : Nat]
NoAnswer == [fn |-> "none", null |-> TRUE, list |-> <<>>, room |-> 0, counted |-> 0]

TypeOK ==
  /\ there \in SUBSET Entry
  /\ pc \in {"idle", "count", "scan", "look", "read"}
  /\ fn \in Growing \cup TwoPass \cup {"none"}
  /\ cursor \in Entry \cup {0} /\ entry \in Entry \cup {0}
  /\ counted \in Nat /\ room \in Nat
  /\ cells \in Seq(Cell)
  /\ files \in 0..MaxFiles
  /\ answer \in Answer
  /\ since \in SUBSET Entry /\ ever \in SUBSET Entry /\ refused \in SUBSET Entry
  /\ starved \in BOOLEAN /\ before \in 0..MaxFiles

Init ==
  /\ there \in SUBSET Entry
  /\ pc = "idle" /\ fn = "none"
  /\ cursor = 0 /\ entry = 0 /\ counted = 0 /\ room = 0 /\ files = 0
  /\ cells = <<>>
  /\ answer = NoAnswer
  /\ since = {} /\ ever = {} /\ refused = {} /\ starved = FALSE /\ before = 0

(***************************************************************************)
(* The source.                                                             *)
(***************************************************************************)
Change ==
  /\ \E e \in Entry : there' = IF e \in there THEN there \ {e} ELSE there \cup {e}
  /\ since' = since \cap there'
  /\ ever' = IF pc # "idle" THEN ever \cup there' ELSE ever
  /\ UNCHANGED <<callVars, refused, starved, before>>

\* readdir, fgets, getutent: the next entry, if there is one.
Unread   == {e \in there : e > cursor}
IsNext(e) == e \in Unread /\ \A x \in Unread : e <= x

(***************************************************************************)
(* Ends of a call.                                                         *)
(***************************************************************************)

\* The call is over; nothing that it worked with is left but what it returns.
Over ==
  /\ pc' = "idle" /\ fn' = "none"
  /\ cursor' = 0 /\ entry' = 0 /\ counted' = 0 /\ room' = 0
  /\ cells' = <<>>

AnswerNull ==
  /\ Over
  /\ answer' = [NoAnswer EXCEPT !.fn = fn]

\* Slip: the early return forgets the directory.
GiveUpOpen == AnswerNull /\ starved' = TRUE /\ UNCHANGED <<files, since, ever, refused, before>>

\* Memory, a directory or a descriptor is refused half-way: everything is
\* released, and NULL returned.
GiveUp ==
  /\ AnswerNull
  /\ files' = files - 1
  /\ starved' = TRUE
  /\ UNCHANGED <<since, ever, refused, before>>

\* The array goes to the program.
HandOver(list) ==
  /\ Over
  /\ answer' = [fn |-> fn, null |-> FALSE, list |-> list, room |-> room, counted |-> counted]
  /\ files' = files - 1

(***************************************************************************)
(* Beginning: the first directory or file, the first allocation.           *)
(***************************************************************************)
Begin(f) ==
  /\ pc = "idle" /\ f \in Listings
  /\ since' = there /\ ever' = there /\ refused' = {} /\ before' = files
  /\ \/ /\ files < MaxFiles
        /\ pc' = IF f \in TwoPass THEN "count" ELSE "scan"
        /\ fn' = f
        /\ room' = IF f \in TwoPass THEN 0 ELSE Room
        /\ files' = files + 1
        /\ answer' = NoAnswer
        /\ starved' = FALSE
        /\ UNCHANGED <<cursor, entry, counted, cells>>
     \/ /\ answer' = [NoAnswer EXCEPT !.fn = f]
        /\ starved' = TRUE
        /\ UNCHANGED <<pc, fn, cursor, entry, counted, room, cells, files>>
  /\ UNCHANGED there

(***************************************************************************)
(* The first of two passes.                                                *)
(***************************************************************************)

\* Only disk_partitions filters what it counts.
Kept(e) == fn \in {"threads", "net_if_stats"} \/ e \in Wanted

CountEntry ==
  /\ pc = "count"
  /\ \E e \in there :
       /\ IsNext(e)
       /\ cursor' = e
       /\ counted' = IF Kept(e) THEN counted + 1 ELSE counted
  /\ UNCHANGED <<there, pc, fn, entry, room, cells, files, answer, history>>

\* Slip: no element for the end mark.
AllocateNoMark ==
  /\ pc = "count" /\ Unread = {} /\ counted > 0
  /\ pc' = "scan" /\ cursor' = 0
  /\ room' = counted
  /\ UNCHANGED <<there, fn, entry, counted, cells, files, answer, history>>

\* The array is allocated, disk_partitions' with an element for the end mark;
\* then the source is read from its beginning again.
Allocate ==
  /\ pc = "count" /\ Unread = {} /\ counted > 0
  /\ pc' = "scan" /\ cursor' = 0
  /\ room' = IF fn = "disk_partitions" THEN counted + 1 ELSE counted
  /\ UNCHANGED <<there, fn, entry, counted, cells, files, answer, history>>

AllocateFails ==
  /\ pc = "count" /\ Unread = {} /\ counted > 0
  /\ GiveUp
  /\ UNCHANGED there

CountedNothing ==
  /\ pc = "count" /\ Unread = {} /\ counted = 0
  /\ AnswerNull
  /\ files' = files - 1
  /\ UNCHANGED <<there, history>>

(***************************************************************************)
(* Reading entries into the array.                                         *)
(***************************************************************************)
Store(e, full) == cells' = Append(cells, [id |-> e, full |-> full])

\* Slip: the array grows one element late.
KeepLate(e) ==
  /\ room' = IF fn \in Growing /\ Len(cells) > room THEN 2 * room ELSE room
  /\ Store(e, TRUE)

\* An array that grows is made twice as large when it is full.
Keep(e) ==
  /\ room' = IF fn \in Growing /\ Len(cells) >= room THEN 2 * room ELSE room
  /\ Store(e, TRUE)

\* Slip: the second pass stops one element short.
MoreToReadShort == Unread # {} /\ (fn \in TwoPass => Len(cells) < counted - 1)

\* The second pass stops when the array is full.
MoreToRead == Unread # {} /\ (fn \in TwoPass => Len(cells) < counted)

\* Slip: the entry after this one is passed over.
TakeEntrySkips ==
  /\ pc = "scan" /\ fn \in {"pids", "users", "disk_partitions"} /\ MoreToRead
  /\ \E e \in there :
       /\ IsNext(e)
       /\ cursor' = e + 1
       /\ IF ~Kept(e) THEN UNCHANGED <<room, cells>> ELSE Keep(e)
  /\ UNCHANGED <<there, pc, fn, entry, counted, files, answer, history>>

\* Slip: the same entry is read again.
TakeEntryAgain ==
  /\ pc = "scan" /\ fn \in {"pids", "users", "disk_partitions"} /\ MoreToRead
  /\ \E e \in there :
       /\ IsNext(e)
       /\ cursor' = e - 1
       /\ IF ~Kept(e) THEN UNCHANGED <<room, cells>> ELSE Keep(e)
  /\ UNCHANGED <<there, pc, fn, entry, counted, files, answer, history>>

\* pids, users and disk_partitions take what they need from the entry itself.
TakeEntry ==
  /\ pc = "scan" /\ fn \in {"pids", "users", "disk_partitions"} /\ MoreToRead
  /\ \E e \in there :
       /\ IsNext(e)
       /\ cursor' = e
       /\ IF ~Kept(e) THEN UNCHANGED <<room, cells>> ELSE Keep(e)
  /\ UNCHANGED <<there, pc, fn, entry, counted, files, answer, history>>

\* The others ask the system about it.
PickEntry ==
  /\ pc = "scan" /\ fn \in {"open_files", "threads", "net_if_stats"} /\ MoreToRead
  /\ \E e \in there : IsNext(e) /\ cursor' = e /\ entry' = e
  /\ pc' = "look"
  /\ UNCHANGED <<there, fn, counted, room, cells, files, answer, history>>

\* realloc fails for an entry that is to be stored.
GrowFails ==
  /\ fn \in Growing /\ Len(cells) >= room
  /\ \/ pc = "scan" /\ fn # "open_files" /\ \E e \in there : IsNext(e) /\ Kept(e)
     \/ pc = "look" /\ entry \in there /\ Kept(entry)
  /\ GiveUp
  /\ UNCHANGED there

\* The next entry.
Advance == pc' = "scan" /\ entry' = 0

\* Slip: the index moves on although nothing was stored.
PassOverCounts ==
  /\ pc = "look"
  /\ Advance
  /\ Store(entry, FALSE)
  /\ refused' = IF entry \in there THEN refused \cup {entry} ELSE refused
  /\ UNCHANGED <<there, fn, cursor, counted, room, files, answer, since, ever, starved, before>>

\* The system refuses to describe the entry, or it is gone: go on without it.
PassOver ==
  /\ pc = "look"
  /\ Advance
  /\ refused' = IF entry \in there THEN refused \cup {entry} ELSE refused
  /\ UNCHANGED <<there, fn, cursor, counted, room, cells, files, answer, since, ever, starved, before>>

\* readlink and stat of an open file: only a regular file is listed.
LookOpenFile ==
  /\ pc = "look" /\ fn = "open_files" /\ entry \in there
  /\ IF Kept(entry) THEN Keep(entry) ELSE UNCHANGED <<room, cells>>
  /\ Advance
  /\ UNCHANGED <<there, fn, cursor, counted, files, answer, history>>

\* The ioctls of an interface; one that is gone is listed with zeros.
LookInterface ==
  /\ pc = "look" /\ fn = "net_if_stats"
  /\ Store(entry, entry \in there) /\ UNCHANGED room
  /\ Advance
  /\ UNCHANGED <<there, fn, cursor, counted, files, answer, history>>

\* fopen of a thread's stat file.
OpenThread ==
  /\ pc = "look" /\ fn = "threads" /\ entry \in there /\ files < MaxFiles
  /\ pc' = "read" /\ files' = files + 1
  /\ UNCHANGED <<there, fn, cursor, entry, counted, room, cells, answer, history>>

\* fgets of the file.  If the thread has exited, its times stay as malloc left
\* them and the file stays open; its element counts all the same.
ReadThread ==
  /\ pc = "read"
  /\ Store(entry, entry \in there) /\ UNCHANGED room
  /\ files' = IF entry \in there THEN files - 1 ELSE files
  /\ Advance
  /\ UNCHANGED <<there, fn, cursor, counted, answer, history>>

(***************************************************************************)
(* The end of the source, or of the array.                                 *)
(***************************************************************************)
EndMark == [id |-> 0, full |-> TRUE]

Finish ==
  /\ pc = "scan" /\ ~MoreToRead
  /\ IF fn = "users" /\ cells = <<>>
     THEN AnswerNull /\ files' = files - 1
     ELSE HandOver(IF fn = "disk_partitions" THEN Append(cells, EndMark) ELSE cells)
  /\ UNCHANGED <<there, history>>

Step ==
  \/ CountEntry \/ Allocate \/ AllocateFails \/ CountedNothing
  \/ TakeEntry \/ PickEntry \/ GrowFails \/ PassOver
  \/ LookOpenFile \/ LookInterface \/ OpenThread \/ ReadThread
  \/ Finish

Next == Change \/ (\E f \in Listings : Begin(f)) \/ Step

Spec == Init /\ [][Next]_vars
-----------------------------------------------------------------------------
(***************************************************************************)
(* Properties.                                                             *)
(***************************************************************************)

\* The elements a list holds, the end mark aside.
Ids(list) == {list[i].id : i \in DOMAIN list} \ {0}

\* Nothing is ever written beyond the end of an array: not the elements, not
\* the thread number that is written before the thread's file is opened, not
\* the end mark of disk_partitions.
InBounds ==
  /\ Len(cells) <= room
  /\ pc \in {"look", "read"} /\ fn \in TwoPass => Len(cells) < room
  /\ Len(answer.list) <= answer.room

\* A call leaves no memory allocated, and open only what was open before it, on
\* whichever path it ends.  process_get_threads alone leaves files behind.
NothingHeld ==
  pc = "idle" => room = 0 /\ (answer.fn # "threads" => files = before)

\* A list never names an entry twice.
NoneTwice ==
  \A i, j \in DOMAIN answer.list : i < j => answer.list[i].id # answer.list[j].id

\* The functions that count first can miss an entry that was there all along
\* and that they could describe, but only because the array was too small, and
\* then an entry that was not there all along took an element of it.
MissedForNewcomers ==
  pc = "idle" /\ answer.fn \in TwoPass /\ ~answer.null =>
    \A e \in since \ (Ids(answer.list) \cup refused) :
      (answer.fn = "disk_partitions" => e \in Wanted) =>
        /\ \E x \in Ids(answer.list) : x \notin since
        /\ Cardinality(Ids(answer.list)) = answer.counted

\* An element without its numbers (a thread's times as malloc left them, the flags
\* and MTU of an interface as zeros) is that of an entry that was not there during
\* the whole call.
HalfReadIsGone ==
  \A c \in {answer.list[i] : i \in DOMAIN answer.list} : ~c.full => c.id \notin since

\* Every function keeps the promise of Listing: those whose array grows list
\* all that was there, the others what their first pass has left room for.
Promise == INSTANCE Listing WITH
  busy <- pc # "idle",
  wanted <- {e \in Entry : Kept(e)},
  firm <- fn \notin TwoPass,
  answer <- [null |-> answer.null, ids |-> Ids(answer.list)]
PromiseKept == Promise!Spec
-----------------------------------------------------------------------------
(***************************************************************************)
(* Why they hold: the parts of the inductive invariant.                    *)
(***************************************************************************)

\* What each place of the code may rely on.
Places ==
  /\ pc = "idle" => fn = "none" /\ cells = <<>> /\ room = 0 /\ counted = 0 /\ cursor = 0
  /\ pc # "idle" => fn \in Listings /\ files >= 1
  /\ pc = "count" => fn \in TwoPass /\ cells = <<>> /\ room = 0
  /\ pc = "look" => fn \in {"open_files", "threads", "net_if_stats"}
  /\ pc = "read" => fn = "threads" /\ files >= 2
  /\ IF pc \in {"look", "read"} THEN entry = cursor /\ entry \in Entry ELSE entry = 0

\* The array of the second pass has an element for everything that was counted.
Fits ==
  /\ InBounds
  /\ pc \in {"scan", "look", "read"} =>
       /\ room > 0
       /\ fn \in TwoPass =>
            /\ Len(cells) <= counted
            /\ pc # "scan" => Len(cells) < counted
            /\ counted <= room
            /\ fn = "disk_partitions" => counted < room

\* The entries stored so far go upwards, and none is beyond the cursor.
Ordered ==
  /\ \A i \in DOMAIN cells : cells[i].id \in Entry /\ cells[i].id <= cursor
  /\ \A i \in DOMAIN cells : entry # 0 => cells[i].id < cursor
  /\ \A i, j \in DOMAIN cells : i < j => cells[i].id < cells[j].id
  /\ NoneTwice

\* Everything up to the cursor that has to be listed is stored already, and
\* nothing is stored that was not there or that the filter refuses.
Gathered ==
  pc # "idle" =>
    /\ since \subseteq there /\ there \subseteq ever
    /\ entry # 0 => entry \in ever
    /\ \A x \in Ids(cells) : x \in ever /\ Kept(x)
    /\ pc # "count" =>
         \A e \in since : Kept(e) /\ e <= cursor /\ e # entry => e \in refused \cup Ids(cells)

\* An element without numbers is that of an entry that was not there all along.
NumbersRead == \A i \in DOMAIN cells : ~cells[i].full => cells[i].id \notin since

\* What the first pass has gone over and the call still has to list.
Foreseen == {e \in since : Kept(e) /\ (pc = "count" => e <= cursor)}

\* The first pass has counted at least as many.
Enough ==
  pc # "idle" /\ fn \in TwoPass =>
    IsFiniteSet(Foreseen) /\ Cardinality(Foreseen) <= counted
=============================================================================
