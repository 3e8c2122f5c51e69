------------------------------ MODULE LinuxNet ------------------------------
(***************************************************************************)
(* net_connections and process_get_net_connections of psutil_linux.c.      *)
(* The kernel lists the sockets in four files, /proc/net/tcp, tcp6, udp    *)
(* and udp6; the functions read the files that the kind asks for, one      *)
(* after the other, into an array of fixed size.  For one process, the     *)
(* inodes of its sockets are collected first and serve as a filter.        *)
(***************************************************************************)
EXTENDS Integers, Sequences, FiniteSets

CONSTANTS
  Socket,      \* sockets, records (see LinuxNetAssumption)
  Kinds,       \* the kinds this program asks for
  Capacity,    \* elements of net_connections' array: 256 in the code
  OwnCapacity, \* elements of process_get_net_connections' array: 64
  MaxInodes    \* inodes it collects: 512

Tables == <<"tcp", "tcp6", "udp", "udp6">>
Kind   == {"inet", "tcp", "tcp4", "tcp6", "udp", "udp4", "udp6", "unix"}

\* at is the place of the socket in its file, queue the bytes it has still to
\* send, ours whether the process that is asked about has it open, with one
\* descriptor.
ASSUME LinuxNetAssumption ==
  /\ \A s \in Socket : /\ s.at \in Nat \ {0} /\ s.inode \in Nat /\ s.queue \in Nat
                       /\ s.table \in {"tcp", "tcp6", "udp", "udp6"} /\ s.ours \in BOOLEAN
  /\ \A s, t \in Socket : s.table = t.table /\ s.at = t.at => s = t
  /\ Kinds \subseteq Kind
  /\ Capacity \in Nat \ {0} /\ OwnCapacity \in Nat \ {0} /\ MaxInodes \in Nat \ {0}

VARIABLES
  there,   \* the sockets that exist
  pc,      \* "idle", "fds" (collecting inodes) or "tables"
  kind,    \* the kind asked for
  own,     \* whether the call is about one process
  seen,    \* the sockets of the process that have been looked at
  inodes,  \* the inodes collected
  table,   \* the number of the file being read
  cursor,  \* the place of the last line read
  list,    \* the connections stored; its length is the code's index
  closed,  \* the files that could not be opened
  answer,  \* the last answer
  \* History variables, read by the properties only.
  since,   \* the sockets that have existed since the call began
  ever     \* the sockets that existed at some moment of the call

callVars == <<pc, kind, own, seen, inodes, table, cursor, list, closed, answer>>
vars     == <<there, callVars, since, ever>>

\* What a call returned; an empty list stands for NULL.
NoAnswer == [kind |-> "none", own |-> FALSE, list |-> <<>>, inodes |-> {}, closed |-> {}]

Init ==
  /\ there \in SUBSET Socket
  /\ pc = "idle" /\ kind = "none" /\ own = FALSE
  /\ seen = {} /\ inodes = {} /\ table = 1 /\ cursor = 0
  /\ list = <<>> /\ closed = {} /\ answer = NoAnswer
  /\ since = {} /\ ever = {}

\* A socket is opened or closed.
Change ==
  /\ \E s \in Socket : there' = IF s \in there THEN there \ {s} ELSE there \cup {s}
  /\ since' = since \cap there'
  /\ ever' = IF pc # "idle" THEN ever \cup there' ELSE ever
  /\ UNCHANGED callVars

\* Slip: "tcp" asks for both files of udp.
AsksForMixed(k, t) ==
  \/ k = "inet"
  \/ k = "tcp" /\ t \in {"udp", "udp6"}
  \/ k \in {"tcp4", "udp4"} /\ t = IF k = "tcp4" THEN "tcp" ELSE "udp"
  \/ k = t

\* get_tcp, get_tcp6, get_udp, get_udp6: which files a kind asks for.
AsksFor(k, t) ==
  \/ k = "inet"
  \/ k = "tcp" /\ t \in {"tcp", "tcp6"}
  \/ k = "udp" /\ t \in {"udp", "udp6"}
  \/ k = "tcp4" /\ t = "tcp"
  \/ k = "udp4" /\ t = "udp"
  \/ k = "tcp6" /\ t = "tcp6"
  \/ k = "udp6" /\ t = "udp6"

Room == IF own THEN OwnCapacity ELSE Capacity

Return(l) ==
  /\ pc' = "idle" /\ kind' = "none" /\ own' = FALSE
  /\ seen' = {} /\ inodes' = {} /\ table' = 1 /\ cursor' = 0
  /\ list' = <<>> /\ closed' = {}
  /\ answer' = [kind |-> kind, own |-> own, list |-> l, inodes |-> inodes, closed |-> closed]

\* The call begins, or is refused the array or the directory at once.
Begin(k, mine) ==
  /\ pc = "idle" /\ k \in Kinds
  /\ \/ /\ kind' = k /\ own' = mine
        /\ pc' = IF mine THEN "fds" ELSE "tables"
     \/ UNCHANGED <<pc, kind, own>>
  /\ answer' = NoAnswer
  /\ since' = there /\ ever' = there
  /\ UNCHANGED <<there, seen, inodes, table, cursor, list, closed>>

(***************************************************************************)
(* collect_socket_inodes: readdir and readlink in /proc/<pid>/fd.          *)
(***************************************************************************)
CollectInode ==
  /\ pc = "fds" /\ Cardinality(inodes) < MaxInodes
  /\ \E s \in there \ seen :
       /\ s.ours
       /\ seen' = seen \cup {s}
       /\ inodes' = inodes \cup {s.inode}
  /\ UNCHANGED <<there, pc, kind, own, table, cursor, list, closed, answer, since, ever>>

\* The directory has been read: a descriptor opened meanwhile may be missed.
FdsRead == \A s \in since \ seen : ~s.ours

Collected ==
  /\ pc = "fds" /\ inodes # {}
  /\ FdsRead \/ Cardinality(inodes) >= MaxInodes
  /\ pc' = "tables"
  /\ UNCHANGED <<there, kind, own, seen, inodes, table, cursor, list, closed, answer, since, ever>>

\* No inode: NULL, with no file read.
CollectedNone ==
  /\ pc = "fds" /\ FdsRead /\ inodes = {}
  /\ Return(<<>>)
  /\ UNCHANGED <<there, since, ever>>

(***************************************************************************)
(* read_proc_net_tcp and read_proc_net_udp.                                *)
(***************************************************************************)

\* %08X:%04X takes eight digits of an address: a line with a longer one, of
\* IPv6, stops the conversions too early and is passed over.
Parses(s) == s.table \in {"tcp", "udp"}

\* The seventh conversion, which the code calls inode, is the column of the
\* bytes to send.
ParsedInode(s) == s.queue

\* If pid_filter is non-NULL, only connections whose inode is listed are kept.
Passes(s) == ~own \/ ParsedInode(s) \in inodes

\* Slip: the end of the array is looked at after each file only.
HasRoomUnchecked == TRUE

HasRoom == Len(list) < Room

InTable(t) == {s \in there : s.table = t /\ s.at > cursor}

ReadLine ==
  /\ pc = "tables" /\ table <= Len(Tables) /\ AsksFor(kind, Tables[table]) /\ HasRoom
  /\ \E s \in InTable(Tables[table]) :
       /\ \A t \in InTable(Tables[table]) : s.at <= t.at
       /\ cursor' = s.at
       /\ list' = IF Parses(s) /\ Passes(s) THEN Append(list, s) ELSE list
  /\ UNCHANGED <<there, pc, kind, own, seen, inodes, table, closed, answer, since, ever>>

\* Slip: the next file is read on from the place of the last one.
NextTableReadOn ==
  /\ pc = "tables" /\ table <= Len(Tables)
  /\ ~AsksFor(kind, Tables[table]) \/ InTable(Tables[table]) = {} \/ ~HasRoom
  /\ table' = table + 1
  /\ UNCHANGED <<there, pc, kind, own, seen, inodes, cursor, list, closed, answer, since, ever>>

\* On to the next file: this one is not asked for, has been read to its end, or
\* the array is full.
NextTable ==
  /\ pc = "tables" /\ table <= Len(Tables)
  /\ ~AsksFor(kind, Tables[table]) \/ InTable(Tables[table]) = {} \/ ~HasRoom
  /\ table' = table + 1 /\ cursor' = 0
  /\ UNCHANGED <<there, pc, kind, own, seen, inodes, list, closed, answer, since, ever>>

\* A file that cannot be opened adds nothing.
OpenFails ==
  /\ pc = "tables" /\ table <= Len(Tables) /\ AsksFor(kind, Tables[table]) /\ HasRoom
  /\ cursor = 0
  /\ closed' = closed \cup {Tables[table]}
  /\ table' = table + 1
  /\ UNCHANGED <<there, pc, kind, own, seen, inodes, cursor, list, answer, since, ever>>

Finish ==
  /\ pc = "tables" /\ table > Len(Tables)
  /\ Return(list)
  /\ UNCHANGED <<there, since, ever>>

Next ==
  \/ Change
  \/ \E k \in Kinds, mine \in BOOLEAN : Begin(k, mine)
  \/ CollectInode \/ Collected \/ CollectedNone
  \/ ReadLine \/ NextTable \/ OpenFails \/ Finish

Spec == Init /\ [][Next]_vars
-----------------------------------------------------------------------------
Listed == {answer.list[i] : i \in DOMAIN answer.list}
Full   == Len(answer.list) >= (IF answer.own THEN OwnCapacity ELSE Capacity)

\* The files a kind names.
Named == [inet |-> {"tcp", "tcp6", "udp", "udp6"}, tcp |-> {"tcp", "tcp6"}, tcp4 |-> {"tcp"},
          tcp6 |-> {"tcp6"}, udp |-> {"udp", "udp6"}, udp4 |-> {"udp"}, udp6 |-> {"udp6"},
          unix |-> {}, none |-> {}]

TypeOK ==
  /\ there \in SUBSET Socket /\ since \in SUBSET Socket /\ ever \in SUBSET Socket
  /\ pc \in {"idle", "fds", "tables"}
  /\ kind \in Kind \cup {"none"} /\ own \in BOOLEAN
  /\ seen \in SUBSET Socket /\ inodes \in SUBSET Nat
  /\ table \in 1..5 /\ cursor \in Nat
  /\ Len(list) <= Room
  /\ closed \in SUBSET {Tables[i] : i \in DOMAIN Tables}

\* Every connection listed was there during the call, is of the kind asked for,
\* and is listed once.
ListedRight ==
  /\ \A s \in Listed : s \in ever /\ s.table \in Named[answer.kind]
  /\ Cardinality(Listed) = Len(answer.list)

\* An IPv4 connection that was there during the whole of a net_connections call
\* and is of the kind asked for is missing only if its file could not be opened
\* or the array is full.
MissedWhenFull ==
  pc = "idle" /\ ~answer.own =>
    \A s \in since : s.table \in {"tcp", "udp"} \cap Named[answer.kind] =>
      s \in Listed \/ s.table \in answer.closed \/ Full

\* "Get the socket connections opened by the process": the process's TCP
\* connections over IPv4 that were there during the whole call are listed.
OwnConnectionsListed ==
  pc = "idle" /\ answer.own =>
    \A s \in since : s.ours /\ s.table \in {"tcp"} \cap Named[answer.kind] =>
      s \in Listed \/ s.table \in answer.closed \/ Full \/ s.inode \notin answer.inodes
=============================================================================
