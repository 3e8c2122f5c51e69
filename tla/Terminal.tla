------------------------------ MODULE Terminal ------------------------------
(***************************************************************************)
(* process_get_terminal, which writes the name of a terminal into one      *)
(* static array and returns a pointer to it, while others who hold such a  *)
(* pointer read what it points to, or call the function themselves.        *)
(***************************************************************************)
EXTENDS Integers, FiniteSets

CONSTANTS
  Holder,    \* those who call: threads, or places in one thread
  Process,   \* the processes they ask for
  Device     \* the terminals: records of a kind and a number

\* The kinds that names are made up for, and those of no terminal, are no kinds of
\* a device.
ASSUME TerminalAssumption ==
  \A d \in Device :
    /\ d \in [kind : STRING, number : Nat]
    /\ d.kind \notin {"none", "torn", "letter", "minor"}

VARIABLES
  ttyOn,     \* the platform
  ttyOf,     \* the terminal of each process, and whether its name holds a ")"
  ttyName,   \* the static array
  ttyCall    \* what each holder does, or holds

ttyVars == <<ttyOn, ttyOf, ttyName, ttyCall>>

Named(kind, n) == [kind |-> kind, number |-> n]
NoTty == Named("none", 0)
Torn  == Named("torn", 0)

\* disturbed: another has written the array since this one began to, or is
\* writing it.
NoTtyCall == [pc |-> "idle", of |-> NoTty, paren |-> FALSE, failed |-> FALSE, disturbed |-> FALSE]

TtyInit ==
  /\ ttyOn \in {"linux", "android", "macos"}
  /\ ttyOf \in [Process -> [dev : Device \cup {NoTty}, paren : BOOLEAN]]
  /\ ttyName = NoTty
  /\ ttyCall = [h \in Holder |-> NoTtyCall]

TtyAt(h, p) == ttyCall[h].pc = p

AsksTty(h, p) ==
  /\ ttyCall[h].pc \in {"idle", "null", "holds"}
  /\ ttyCall' = [ttyCall EXCEPT ![h] =
       [NoTtyCall EXCEPT !.pc = "asked", !.of = ttyOf[p].dev, !.paren = ttyOf[p].paren]]
  /\ UNCHANGED <<ttyOn, ttyOf, ttyName>>

\* The name ends at the last ")" of the line for Linux, at the first for Android,
\* which finds no numbers then.
Understood(h) ==
  ttyCall[h].of # NoTty /\ ~(ttyOn = "android" /\ ttyCall[h].paren)

NoTerminal(h, ok) ==
  /\ TtyAt(h, "asked") /\ (ok => ~Understood(h))
  /\ ttyCall' = [ttyCall EXCEPT ![h].pc = "null", ![h].failed = ~ok]
  /\ UNCHANGED <<ttyOn, ttyOf, ttyName>>

\* Slip: every device is taken for a console, as on Android.
NameOfConsole(dev) == Named("tty", dev.number)

\* The name of a device, as each platform makes it from the numbers.  Linux knows
\* consoles and pseudo-terminals, and makes up a letter for the others; Android
\* takes all for consoles; macOS has the minor number in hexadecimal.
NameOf(dev) ==
  CASE ttyOn = "linux" /\ dev.kind \in {"tty", "pts"}    -> dev
    [] ttyOn = "linux" /\ dev.kind \notin {"tty", "pts"} -> Named("letter", dev.number)
    [] ttyOn = "android"                                 -> Named("tty", dev.number)
    [] OTHER                                             -> Named("minor", dev.number)

Others(h) == Holder \ {h}
Writing == {h \in Holder : TtyAt(h, "writing")}

\* Slip: a name that was written once is not written again.
StartsNameOnce(h) ==
  /\ TtyAt(h, "asked") /\ Understood(h)
  /\ ttyName' = IF ttyName = NoTty THEN NameOf(ttyCall[h].of) ELSE ttyName
  /\ ttyCall' = [ttyCall EXCEPT ![h].pc = "holds"]
  /\ UNCHANGED <<ttyOn, ttyOf>>

\* snprintf begins: whoever holds the array sees it change.
StartsName(h) ==
  /\ TtyAt(h, "asked") /\ Understood(h)
  /\ ttyName' = Torn
  /\ ttyCall' = [g \in Holder |->
       IF g = h THEN [ttyCall[h] EXCEPT !.pc = "writing", !.disturbed = Writing # {}]
       ELSE [ttyCall[g] EXCEPT !.disturbed = @ \/ TtyAt(g, "writing") \/ TtyAt(g, "holds")]]
  /\ UNCHANGED <<ttyOn, ttyOf>>

\* snprintf ends.  If two write at once, the array may hold a part of each.
EndsName(h) ==
  /\ TtyAt(h, "writing")
  /\ ttyName' \in {NameOf(ttyCall[h].of)} \cup (IF ttyCall[h].disturbed THEN {Torn} ELSE {})
  /\ ttyCall' = [ttyCall EXCEPT ![h].pc = "holds"]
  /\ UNCHANGED <<ttyOn, ttyOf>>

TtyNext ==
  \E h \in Holder :
    \/ \E p \in Process : AsksTty(h, p)
    \/ \E ok \in BOOLEAN : NoTerminal(h, ok)
    \/ StartsName(h) \/ EndsName(h)
-----------------------------------------------------------------------------
(***************************************************************************)
(* Properties.                                                             *)
(***************************************************************************)

\* Whoever holds the array finds in it the terminal of the process it has asked
\* for, unless another has called since or at the same time: on Linux by its
\* name, if it is a console or a pseudo-terminal, and elsewhere by one that a
\* device with the same number has as well.  NULL means that the process has no
\* terminal, that it could not be asked, or, on Android, that its name holds a
\* ")".
TerminalHonest ==
  \A h \in Holder :
    LET c == ttyCall[h]
    IN  /\ c.pc = "holds" /\ ~c.disturbed =>
             /\ ttyName.number = c.of.number
             /\ ttyOn = "linux" => ttyName = c.of \/ c.of.kind \notin {"tty", "pts"}
             /\ ttyOn = "linux" => \A d \in Device : d # c.of => ttyName # d
        /\ c.pc = "null" => c.of = NoTty \/ c.failed \/ (ttyOn = "android" /\ c.paren)
=============================================================================
