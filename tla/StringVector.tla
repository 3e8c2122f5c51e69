---------------------------- MODULE StringVector ----------------------------
(***************************************************************************)
(* The command line and the environment of a process: a text of strings,   *)
(* each ended by a NUL, that is read at once, counted in one pass and      *)
(* copied, string by string, in another.  psutil_free_string_array gives   *)
(* the copies back.                                                        *)
(*                                                                         *)
(* A string is its place in the text.  The platforms differ in how much    *)
(* they read, in how they count (NULs, or strings up to an empty one), in  *)
(* what they copy, in whether they end what they have read by a NUL, and   *)
(* in whether they notice that a copy has failed.                          *)
(***************************************************************************)
EXTENDS Integers, Sequences, FiniteSets

CONSTANTS
  MaxStrings,  \* strings in a text (bounds a run)
  Beyond,      \* strings that memory happens to hold after it (bounds a run)
  Vectors      \* the functions this program calls

LinuxVectors   == {"linux_cmdline", "linux_environ"}
BsdVectors     == {"bsd_cmdline", "bsd_environ"}
AndroidVectors == {"android_cmdline", "android_environ"}
WindowsVectors == {"windows_cmdline", "windows_environ"}

\* Those that read into a buffer of a fixed size, once: 4095 bytes (8191 for the
\* environment on Android), or a block of 16 KB.
Buffered == LinuxVectors \cup AndroidVectors \cup {"windows_environ"}

ASSUME StringVectorAssumption ==
  /\ MaxStrings \in Nat /\ Beyond \in Nat
  /\ Vectors \subseteq LinuxVectors \cup BsdVectors \cup AndroidVectors \cup WindowsVectors
                      \cup {"macos_cmdline"}

VARIABLES
  text,     \* what the call in progress has read, or the last call
  vector,   \* the local variables of the call in progress
  strings   \* the last answer, until it is freed

stringVars == <<text, vector, strings>>

\* len: the strings that were read.  args: those that the process has; if these
\* are more, they did not fit into the buffer, and if they are fewer, on macOS,
\* the environment follows them.  cut: the last string that was read has no NUL,
\* because the buffer was full or the process has written over its arguments; of
\* a block of Windows, that its two NULs were not read.  beyond: how many
\* strings the scan finds in the memory behind it.  read: FALSE on Windows if
\* ReadProcessMemory has failed, and the block is what malloc has left there.
Text ==
  [len : 0..MaxStrings, empty : SUBSET (1..MaxStrings), args : 0..MaxStrings,
   cut : BOOLEAN, beyond : 0..Beyond, read : BOOLEAN]

NoText == [len |-> 0, empty |-> {}, args |-> 0, cut |-> FALSE, beyond |-> 0, read |-> TRUE]

\* An element of the array: a copy of the string at a place; of its start, as far
\* as that was read; of its start and of whatever lies behind the buffer up to a
\* NUL; the NULL of a copy that has failed; a copy of what is no string of the
\* text; or what malloc has left in the array.
Element == [is : {"string", "start", "overrun", "null", "junk", "unset"}, at : Nat]
Unset   == [is |-> "unset", at |-> 0]

NoVector ==
  [fn |-> "none", pc |-> "idle", next |-> 1, count |-> 0, room |-> 0,
   cells |-> <<>>, held |-> {}]
NoStrings == [fn |-> "none", null |-> TRUE, list |-> <<>>, why |-> "none", strays |-> {}]

StringsInit == text = NoText /\ vector = NoVector /\ strings = NoStrings

VectorAt(p) == vector.pc = p
For(fs) == vector.fn \in fs

(***************************************************************************)
(* Reading.                                                                *)
(***************************************************************************)

\* What a function can get.  Only on macOS does the text go on after the
\* arguments, and only a buffer of a fixed size can be too small, which for a
\* block of Windows means that its end was not read.  The scan goes beyond what
\* was read on Linux, and for the two NULs of a block.  Windows splits the
\* command line itself, and the variables of an environment block are never
\* empty.
Gets(f, t) ==
  /\ t.empty \subseteq 1..t.len
  /\ t.cut => t.len > 0 /\ t.len \notin t.empty
  /\ t.args < t.len => f = "macos_cmdline"
  /\ t.args > t.len => f \in Buffered /\ t.len > 0 /\ (f = "windows_environ" => t.cut)
  /\ t.beyond > 0 => t.cut /\ t.read /\ f \in LinuxVectors \cup {"windows_environ"}
  /\ f # "windows_environ" => t.read
  /\ f = "windows_cmdline" => ~t.cut
  /\ f = "windows_environ" => IF t.read THEN t.empty = {} ELSE t.len > 0

Called(f) ==
  /\ VectorAt("idle") /\ f \in Vectors
  /\ vector' = [NoVector EXCEPT !.fn = f, !.pc = "called"]
  /\ text' = NoText /\ strings' = NoStrings

Copies(list) == {list[i].at : i \in {j \in DOMAIN list : list[j].is # "unset"}}

Return(null, list, why, frees) ==
  /\ vector' = NoVector
  /\ strings' = [fn |-> vector.fn, null |-> null, list |-> list, why |-> why,
                 strays |-> vector.held \ (frees \cup Copies(list))]
  /\ UNCHANGED text

\* The process is gone or may not be read, or there is no memory.  On Windows a
\* command line of more than MAX_PATH * 8 bytes is refused as well.
Refused ==
  /\ VectorAt("called") \/ VectorAt("read")
  /\ Return(TRUE, <<>>, "refused", {})

Reads ==
  /\ VectorAt("called")
  /\ \E t \in Text : Gets(vector.fn, t) /\ text' = t
  /\ vector' = [vector EXCEPT !.pc = "read"]
  /\ UNCHANGED strings

(***************************************************************************)
(* Counting.                                                               *)
(***************************************************************************)
Terminated == text.len - (IF text.cut THEN 1 ELSE 0)

\* Up to the first empty string.  After a text that is cut the scan goes on in
\* the memory behind it.
BeforeEmpty(n) ==
  /\ n <= text.len + text.beyond
  /\ \A i \in 1..n : i \notin text.empty
  /\ n < text.len + text.beyond => n + 1 \in text.empty

\* The block of the environment ends with two NULs; the very last is not
\* counted.  The scan for the two takes the number of bytes for one of
\* characters, so that, if they are not in the 16 KB that have been read, it goes
\* on behind them.
BlockCount ==
  IF text.read /\ ~text.cut THEN (IF text.len = 0 THEN 1 ELSE text.len)
  ELSE text.len - 1 + text.beyond

\* Slip: all NULs are counted; on macOS, those of the environment too.
CountedNuls(n) == n = Terminated

\* The elements that the array is made for.
Counted(n) ==
  CASE For(LinuxVectors)                -> BeforeEmpty(n)
    [] For(BsdVectors \cup AndroidVectors) -> n = Terminated
    [] For({"macos_cmdline"})           -> n = text.args
    [] For({"windows_cmdline"})         -> n = text.len
    [] OTHER                            -> n = BlockCount

NothingToList ==
  \/ For(LinuxVectors \cup AndroidVectors) /\ text.len = 0
  \/ For(AndroidVectors \cup {"macos_cmdline"}) /\ Counted(0)

ListsNothing ==
  /\ VectorAt("read") /\ NothingToList
  /\ Return(TRUE, <<>>, "nothing", {})

AllocatesFor(extra) ==
  /\ VectorAt("read") /\ ~NothingToList
  /\ \E n \in 0..(MaxStrings + Beyond) :
       /\ Counted(n)
       /\ vector' = [vector EXCEPT !.pc = "copy", !.count = n, !.room = n + extra]
  /\ UNCHANGED <<text, strings>>

\* Slip: there is no element for the NULL at the end.
AllocatesExactly == AllocatesFor(0)

\* One element more, for the NULL at the end.
Allocates == AllocatesFor(1)

(***************************************************************************)
(* Copying.                                                                *)
(***************************************************************************)

\* Slip: the last of the strings that were counted is left out.
MoreButLast ==
  vector.next <= text.len /\ Len(vector.cells) + 1 < vector.count

\* The BSDs alone do not look at what has been counted.
MoreToCopy ==
  /\ vector.next <= text.len + (IF For(LinuxVectors \cup {"windows_environ"}) THEN text.beyond ELSE 0)
  /\ For(BsdVectors) \/ Len(vector.cells) < vector.count

\* The BSDs and Windows pass over empty strings, macOS over those that precede
\* the first argument, which it takes for padding.
PassedOver(i) ==
  \/ For(BsdVectors \cup {"windows_environ"}) /\ i \in text.empty
  \/ For({"macos_cmdline"}) /\ 1..i \subseteq text.empty

Passes ==
  /\ VectorAt("copy") /\ MoreToCopy /\ PassedOver(vector.next)
  /\ vector' = [vector EXCEPT !.next = @ + 1]
  /\ UNCHANGED <<text, strings>>

Appended(kind, copies) ==
  vector' = [vector EXCEPT !.next = @ + 1, !.held = @ \cup copies,
                           !.cells = Append(@, [is |-> kind, at |-> vector.next])]

\* strdup, and on Windows WideCharToMultiByte, goes on to a NUL.  Linux has put
\* one behind what it has read; the BSDs, macOS and Windows have not.
CopyOf(p) ==
  IF p > text.len \/ ~text.read THEN "junk"
  ELSE IF p < text.len \/ ~text.cut THEN "string"
  ELSE IF For(LinuxVectors) THEN "start" ELSE "overrun"

CopiesOne ==
  /\ VectorAt("copy") /\ MoreToCopy /\ ~PassedOver(vector.next)
  /\ Appended(CopyOf(vector.next), {vector.next})
  /\ UNCHANGED <<text, strings>>

\* Slip: the copies made so far are not released.
CopyFailsKeeps ==
  /\ VectorAt("copy") /\ MoreToCopy /\ ~PassedOver(vector.next)
  /\ \/ /\ For(LinuxVectors \cup {"macos_cmdline"})
        /\ Return(TRUE, <<>>, "refused", {})
     \/ /\ ~For(LinuxVectors \cup {"macos_cmdline"})
        /\ Appended("null", {}) /\ UNCHANGED <<text, strings>>

\* strdup or malloc answers NULL.  Linux and macOS release what they have and
\* answer NULL; the others do not notice, and store it.
CopyFails ==
  /\ VectorAt("copy") /\ MoreToCopy /\ ~PassedOver(vector.next)
  /\ \/ /\ For(LinuxVectors \cup {"macos_cmdline"})
        /\ Return(TRUE, <<>>, "refused", vector.held)
     \/ /\ ~For(LinuxVectors \cup {"macos_cmdline"})
        /\ Appended("null", {}) /\ UNCHANGED <<text, strings>>

\* What the program sees of the array: as many elements as were counted, of
\* which the last may not have been assigned, or on the BSDs overwritten by the
\* NULL at the end.  macOS alone answers the number it has stored.
Seen ==
  IF For({"macos_cmdline"}) THEN vector.cells
  ELSE [i \in 1..vector.count |-> IF i <= Len(vector.cells) THEN vector.cells[i] ELSE Unset]

AnswersStrings ==
  /\ VectorAt("copy") /\ ~MoreToCopy
  /\ IF For({"macos_cmdline"}) /\ vector.cells = <<>>
     THEN Return(TRUE, <<>>, "nothing", {})
     ELSE Return(FALSE, Seen, "none", {})

\* psutil_free_string_array: every element of the answer that is not NULL is
\* freed, and then the array.
Free ==
  /\ VectorAt("idle") /\ ~strings.null
  /\ strings' = [NoStrings EXCEPT !.fn = strings.fn, !.why = "freed", !.strays = strings.strays]
  /\ UNCHANGED <<text, vector>>

StringsNext ==
  \/ \E f \in Vectors : Called(f)
  \/ Refused \/ Reads \/ ListsNothing \/ Allocates
  \/ Passes \/ CopiesOne \/ CopyFails \/ AnswersStrings \/ Free
-----------------------------------------------------------------------------
(***************************************************************************)
(* Properties.                                                             *)
(***************************************************************************)
VectorKind ==
  [fn : Vectors \cup {"none"}, pc : {"idle", "called", "read", "copy"}, next : Nat,
   count : Nat, room : Nat, cells : Seq(Element), held : SUBSET Nat]
Why == {"none", "nothing", "refused", "freed"}
AnswerKind ==
  [fn : Vectors \cup {"none"}, null : BOOLEAN, list : Seq(Element), why : Why, strays : SUBSET Nat]

\* Every variable has a value of its kind in every function.
StringsTypeOK == text \in Text /\ vector \in VectorKind /\ strings \in AnswerKind

\* Neither the strings nor the NULL at the end are written past the array,
\* though what is copied is not always what was counted: on the BSDs, a last
\* string without its NUL takes the element of the end mark.
VectorInBounds ==
  VectorAt("copy") => vector.count < vector.room /\ Len(vector.cells) <= vector.room

\* Every element of an answer is a string of the text, in the order of the
\* text, and on macOS one of the arguments.  Otherwise there is a reason.  It is
\* the start of a string if the text of Linux ended there.  It is a string with
\* foreign memory behind it, if that string had no NUL: on the BSDs only if
\* another one is empty, since the NULL at the end takes its element otherwise,
\* on macOS, and in a block of Windows whose end was not read.  An element is
\* NULL where a failed copy goes unnoticed.  It was never assigned, though
\* psutil_free_string_array will free it, if there are empty strings on the BSDs,
\* or if the block of Windows was not read, or empty.  It is no string of the
\* text if that had no end, or was not read.  It is a variable of the environment
\* if the first argument was empty.
VectorOfText ==
  LET list == strings.list
      f == strings.fn
      last(p) == p = text.len /\ text.cut
  IN  \A i \in DOMAIN list :
        \/ /\ list[i].is \in {"string", "start", "overrun"} /\ list[i].at \in 1..text.len
           /\ list[i].is = "start" => f \in LinuxVectors /\ last(list[i].at)
           /\ list[i].is = "overrun" =>
                /\ last(list[i].at)
                /\ \/ f \in BsdVectors /\ text.empty # {}
                   \/ f \in {"macos_cmdline", "windows_environ"}
           /\ list[i].at > text.args => 1 \in text.empty
           /\ \A j \in 1..(i - 1) : list[j].at < list[i].at
        \/ list[i].is = "null" /\ f \notin LinuxVectors \cup {"macos_cmdline"}
        \/ /\ list[i].is = "unset"
           /\ \/ f \in BsdVectors /\ text.empty # {}
              \/ f = "windows_environ" /\ (~text.read \/ text.len = 0)
        \/ /\ list[i].is = "junk" /\ f \in LinuxVectors \cup {"windows_environ"}
           /\ text.cut \/ ~text.read

\* The strings of the text that have an element, be it one whose copy failed.
Listed(list) ==
  {list[i].at : i \in {j \in DOMAIN list : list[j].is \notin {"junk", "unset"}}}

\* An argument or a variable that the process has is missing from an answer for
\* one of these reasons only: on Linux, Android and, for the environment, Windows
\* it did not fit into the buffer; on Linux an empty string precedes it, or it is
\* one; on the BSDs it is empty; on macOS, it is among the empty ones at the
\* beginning; or it is the last one that was read, and its NUL was not, which on
\* the BSDs matters only if no string is empty.  NULL means that something was
\* refused, or that there is nothing to list.
VectorComplete ==
  LET f == strings.fn
      last(p) == p = text.len /\ text.cut
  IN  /\ ~strings.null => \A p \in 1..text.args \ Listed(strings.list) :
           \/ f \in Buffered /\ p > text.len
           \/ f \in LinuxVectors /\ \E e \in text.empty : e <= p
           \/ f \in BsdVectors /\ (p \in text.empty \/ (last(p) /\ text.empty = {}))
           \/ f \in AndroidVectors /\ last(p)
           \/ f = "macos_cmdline" /\ 1..p \subseteq text.empty
           \/ f = "windows_environ" /\ (last(p) \/ ~text.read)
      /\ strings.why = "nothing" =>
           \/ text.args = 0
           \/ f \in AndroidVectors /\ text.len = 1 /\ text.cut
           \/ f = "macos_cmdline" /\ text.empty = 1..text.len

\* Whichever way a call ends, every copy it has made is in the answer or has
\* been freed, except on the BSDs the one that the NULL at the end has
\* overwritten.
NoStrays == strings.strays # {} => strings.fn \in BsdVectors /\ text.cut
=============================================================================
