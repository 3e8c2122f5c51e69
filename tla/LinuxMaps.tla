------------------------------ MODULE LinuxMaps ------------------------------
(***************************************************************************)
(* psutil_linux_process_get_memory_maps: /proc/<pid>/smaps is read line by *)
(* line.  A mapping is a header line and the lines of its numbers that     *)
(* follow; the entry being built is saved when the next header arrives and *)
(* at the end of the file.                                                 *)
(*                                                                         *)
(* fgets takes 1023 characters, so that a header with a long path arrives  *)
(* in as many pieces as it takes; each but the first begins with whatever  *)
(* character of the path comes next.  A piece in which the path imitates a *)
(* whole header, or a line of a number, is left out.                       *)
(***************************************************************************)
EXTENDS Integers, Sequences, SequencesExt

CONSTANTS
  Path,      \* what a mapping is of, "[anon]" included
  Kb,        \* sizes in the file
  MaxLines,  \* bound on the lines of the file
  NoPath     \* a path that is empty

ASSUME LinuxMapsAssumption == NoPath \notin Path /\ Kb \subseteq Nat

\* The lines of a mapping that are used, in the kernel's order.
Key == <<"Size", "Rss", "Shared_Clean", "Shared_Dirty", "Private_Clean", "Private_Dirty">>

Header(p)    == [key |-> "header", path |-> p, kb |-> 0]
Detail(k, v) == [key |-> k, path |-> NoPath, kb |-> v]
\* A further piece of a header that fgets has cut; hex if it begins like an address.
Rest(hex)    == [key |-> IF hex THEN "hextail" ELSE "tail", path |-> NoPath, kb |-> 0]

Blank == [path |-> NoPath, vms |-> 0, rss |-> 0, shared |-> 0, dirty |-> 0]

VARIABLES
  text,     \* the lines read so far
  pc,       \* "open", "reading" or "done"
  current,  \* the entry being built
  maps,     \* the entries saved; its length is the code's index
  null      \* whether the answer is NULL

vars == <<text, pc, current, maps, null>>

Entry == [path : Path \cup {NoPath}, vms : Nat, rss : Nat, shared : Nat, dirty : Nat]

Init ==
  /\ text = <<>> /\ pc = "open"
  /\ current = Blank /\ maps = <<>> /\ null = FALSE

OpenSmaps ==
  /\ pc = "open"
  /\ \/ pc' = "reading" /\ null' = FALSE
     \/ pc' = "done" /\ null' = TRUE
  /\ UNCHANGED <<text, current, maps>>

\* What the file holds next: a header, after it the further pieces of it if its path
\* is long, then the numbers in their order.
Position(l) == IF l.key \in Range(Key) THEN CHOOSE i \in DOMAIN Key : Key[i] = l.key ELSE 0

\* Slip: the entry is not cleared for the next mapping.
BeginEntryDirty(p) == current' = [current EXCEPT !.path = p]

BeginEntry(p) == current' = [Blank EXCEPT !.path = p]

\* A line that begins with a hexadecimal digit is taken for a header: the
\* entry before it is saved, if one has been saved already.  The first is saved
\* at the end of the file, so the array, which begins with 64 elements, is
\* never full: what the code does when it cannot be made larger is not reached.
SavePrevious ==
  maps' = IF Len(maps) > 0 /\ current.path # NoPath THEN Append(maps, current) ELSE maps

ReadHeader(p) ==
  /\ pc = "reading" /\ Len(text) < MaxLines
  /\ text' = Append(text, Header(p))
  /\ SavePrevious
  /\ BeginEntry(p)
  /\ UNCHANGED <<pc, null>>

\* A further piece of a long header: if it begins like an address it is taken for a
\* header in which nothing can be parsed; otherwise no key fits it.
ReadTail(hex) ==
  /\ pc = "reading" /\ Len(text) < MaxLines
  /\ text # <<>> /\ Last(text).key \in {"header", "tail", "hextail"}
  /\ text' = Append(text, Rest(hex))
  /\ IF hex THEN SavePrevious /\ BeginEntry(NoPath) ELSE UNCHANGED <<current, maps>>
  /\ UNCHANGED <<pc, null>>

Account(e, k, v) ==
  CASE k = "Size" -> [e EXCEPT !.vms = v]
    [] k = "Rss"  -> [e EXCEPT !.rss = v]
    [] k \in {"Shared_Clean", "Shared_Dirty"}   -> [e EXCEPT !.shared = @ + v]
    [] k \in {"Private_Clean", "Private_Dirty"} -> [e EXCEPT !.dirty = @ + v]

ReadDetail(k, v) ==
  /\ pc = "reading" /\ Len(text) < MaxLines
  /\ text # <<>> /\ Position(Last(text)) < Position(Detail(k, v))
  /\ text' = Append(text, Detail(k, v))
  /\ current' = Account(current, k, v)
  /\ UNCHANGED <<pc, maps, null>>

\* Slip: the last entry is saved on the condition of the others.
EndOfFileGuarded ==
  /\ pc = "reading"
  /\ pc' = "done"
  /\ SavePrevious
  /\ UNCHANGED <<text, current, null>>

EndOfFile ==
  /\ pc = "reading"
  /\ pc' = "done"
  /\ maps' = IF current.path # NoPath THEN Append(maps, current) ELSE maps
  /\ UNCHANGED <<text, current, null>>

Next ==
  \/ OpenSmaps
  \/ \E p \in Path : ReadHeader(p)
  \/ \E hex \in BOOLEAN : ReadTail(hex)
  \/ \E k \in Range(Key), v \in Kb : ReadDetail(k, v)
  \/ EndOfFile

Spec == Init /\ [][Next]_vars
-----------------------------------------------------------------------------
(***************************************************************************)
(* What the file says, read as a whole.                                    *)
(***************************************************************************)

\* The lines at which a mapping begins.
Headers == {i \in DOMAIN text : text[i].key = "header"}

\* The line after the last one of the mapping that begins at line h.
Until(h) == Min({i \in Headers : i > h} \cup {Len(text) + 1})

\* The number that stands in it for a key, which it has once at most.
Number(h, key) ==
  LET lines == {i \in h..(Until(h) - 1) : text[i].key = key}
  IN  IF lines = {} THEN 0 ELSE text[CHOOSE i \in lines : TRUE].kb

Mapping(h) ==
  [path |-> text[h].path, vms |-> Number(h, "Size"), rss |-> Number(h, "Rss"),
   shared |-> Number(h, "Shared_Clean") + Number(h, "Shared_Dirty"),
   dirty |-> Number(h, "Private_Clean") + Number(h, "Private_Dirty")]

\* A header that has been cut where what comes next looks like an address.
Cut(h) == \E i \in h..(Until(h) - 1) : text[i].key = "hextail"

\* What is reported is the path and the numbers of one mapping of the file, never
\* numbers of two mappings together; a mapping of whose header any further piece
\* looks like an address is not reported at all.
ReportedWhole ==
  pc = "done" => \A i \in DOMAIN maps : \E h \in Headers : ~Cut(h) /\ maps[i] = Mapping(h)

\* The last mapping of the file is reported, unless its header is cut so anywhere.
LastReported ==
  pc = "done" /\ ~null /\ Headers # {} =>
    LET h == Max(Headers) IN Cut(h) \/ (maps # <<>> /\ Last(maps) = Mapping(h))

\* "Save previous entry if we have one": every mapping of the file whose header
\* came in one piece is reported.
EveryMappingReported ==
  pc = "done" /\ ~null =>
    \A h \in Headers : Cut(h) \/ \E i \in DOMAIN maps : maps[i] = Mapping(h)
=============================================================================
