-------------------------- MODULE ConnectionTables --------------------------
(***************************************************************************)
(* net_connections of macOS, the BSDs and Windows.  The system has the     *)
(* connections in tables; those that the kind asks for are fetched one     *)
(* after the other, each with a buffer of the size the system has told,    *)
(* and appended to an array that grows.  A table that cannot be had is     *)
(* passed over.                                                            *)
(*                                                                         *)
(* tables is the sequence of what is fetched at once: the macOS and BSD    *)
(* tables hold the connections of both families.                           *)
(***************************************************************************)
EXTENDS ListSteps

\* get_tcp, get_tcp6, get_udp, get_udp6.
AsksFor(kind, t) ==
  \/ kind \in {"inet", t}
  \/ kind = "tcp" /\ t \in {"tcp4", "tcp6"}
  \/ kind = "udp" /\ t \in {"udp4", "udp6"}

IsAsked(kind, tables) == \E t \in tables : AsksFor(kind, t)
InTable(tables) == {e \in Entry : Table[e] \in tables}

\* The first and the last table in a sequence of them, or the end of it.
Current(tables) == tables[call.cursor]
OnTable(f, tables) == At(f, "table") /\ call.cursor <= Len(tables)

Begins(f, tables) ==
  \/ \E kind \in Kinds :
       Enters(f, {e \in Entry : \E i \in DOMAIN tables :
                    Table[e] \in tables[i] /\ IsAsked(kind, tables[i])}, kind)
  \/ Fails(f, "called", {})
  \/ /\ At(f, "called")
     /\ call' = [call EXCEPT !.pc = "table", !.cursor = 1, !.room = Room]
     /\ held' = {"connections"}
     /\ UNCHANGED <<there, answer, seen>>

NotAsked(f, tables) ==
  /\ OnTable(f, tables) /\ ~IsAsked(call.kind, Current(tables))
  /\ call' = [call EXCEPT !.cursor = @ + 1]
  /\ UNCHANGED <<there, held, answer, seen>>

\* The system does not tell the size of the table, or does not fill the buffer
\* because it has become too small; on Windows XP there is no such function.
Skips(f, tables) ==
  /\ \/ OnTable(f, tables) /\ IsAsked(call.kind, Current(tables))
     \/ At(f, "asked")
  /\ call' = [call EXCEPT !.pc = "table", !.cursor = @ + 1, !.size = 0]
  /\ held' = held \ {"table"}
  /\ seen' = [seen EXCEPT !.refused = @ \cup InTable(Current(tables))]
  /\ UNCHANGED <<there, answer>>

SizesTable(f, tables) ==
  /\ OnTable(f, tables) /\ IsAsked(call.kind, Current(tables))
  /\ \E n \in Cardinality(there \cap InTable(Current(tables)))..Cardinality(Entry) :
       call' = [call EXCEPT !.pc = "asked", !.size = n]
  /\ held' = held \cup {"table"}
  /\ UNCHANGED <<there, answer, seen>>

\* The buffer is filled, if what is in the table now fits.
FetchesTable(f, tables) ==
  /\ At(f, "asked")
  /\ LET rows == there \cap InTable(Current(tables))
     IN  /\ Cardinality(rows) <= call.size
         /\ call' = [call EXCEPT !.pc = "rows", !.buffer = rows]
  /\ UNCHANGED <<there, held, answer, seen>>

\* The next row of the buffer is stored, in an array that grows.
TakesRow(f) ==
  /\ At(f, "rows")
  /\ \E e \in call.buffer :
       /\ \A x \in call.buffer : e <= x
       /\ call' = Stored(Grown([call EXCEPT !.buffer = @ \ {e}]), e, TRUE)
  /\ UNCHANGED <<there, held, answer, seen>>

\* realloc fails: both the buffer and the array are released.
GrowTableFails(f) ==
  /\ call.buffer # {} /\ Len(call.cells) >= call.room
  /\ Fails(f, "rows", {"table", "connections"})

\* The last row is stored: the buffer is released, the next table is looked at.
EndsTable(f) ==
  /\ At(f, "rows") /\ call.buffer = {}
  /\ call' = [call EXCEPT !.pc = "table", !.cursor = @ + 1, !.size = 0]
  /\ held' = held \ {"table"}
  /\ UNCHANGED <<there, answer, seen>>

AfterLast(f, tables) ==
  /\ At(f, "table") /\ call.cursor > Len(tables)
  /\ GivesAny(call.cells, Len(call.cells), call.room, {"connections"})

Connections(f, tables) ==
  \/ Begins(f, tables) \/ NotAsked(f, tables) \/ Skips(f, tables)
  \/ SizesTable(f, tables) \/ FetchesTable(f, tables)
  \/ TakesRow(f) \/ GrowTableFails(f) \/ EndsTable(f) \/ AfterLast(f, tables)
=============================================================================
