---------------------------- MODULE WindowsLists ----------------------------
(***************************************************************************)
(* The list functions of psutil_windows.c.                                 *)
(***************************************************************************)
EXTENDS ConnectionTables

\* psutil_windows_pids: EnumProcesses fills the array as far as it goes, and
\* tells how much it has filled.  That is never more than the size, so that the
\* second call, for a larger array, is not made.
WindowsPids ==
  LET f == "windows_pids"
  IN  \/ Enter(f, Entry) \/ Fails(f, "called", {})
      \/ /\ At(f, "called")
         /\ \E some \in SUBSET there :
              /\ Cardinality(some) = MaxPids \/ some = there
              /\ Cardinality(some) <= MaxPids
              /\ call' = [call EXCEPT !.pc = "pictured", !.buffer = some]
              /\ seen' = [seen EXCEPT !.refused = @ \cup (there \ some)]
         /\ UNCHANGED <<there, held, answer>>
      \/ /\ At(f, "pictured")
         /\ Gives(Copied(call.buffer, MaxPids), Cardinality(call.buffer), MaxPids, {})

\* The snapshot of the toolhelp library.  No thread is one; the 1 that is
\* answered without a snapshot says nothing, and is treated as no answer.
WindowsNumThreads ==
  LET f == "windows_num_threads"
      list == Copied(call.buffer, Cardinality(call.buffer))
  IN  \/ Enter(f, Entry) \/ Fails(f, "called", {})
      \/ Pictures(f, {"snapshot"})
      \/ /\ At(f, "pictured")
         /\ Gives(list, IF list = <<>> THEN 1 ELSE Len(list), Len(list), {"snapshot"})

\* The threads of the snapshot are counted and described; one that cannot be
\* opened any more has no times.
WindowsThreads ==
  LET f == "windows_threads"
      n == Cardinality(call.buffer)
  IN  \/ Enter(f, Entry) \/ Fails(f, "called", {})
      \/ Pictures(f, {"snapshot"})
      \/ At(f, "pictured") /\ n = 0 /\ Nothing({"snapshot"})
      \/ n > 0 /\ Fails(f, "pictured", {"snapshot"})
      \/ n > 0 /\ PreparesFill(f, n, {"array"})
      \/ Picks(f, call.buffer) \/ Describes(f)
      \/ /\ At(f, "fill") /\ ~More(call.buffer)
         /\ Gives(call.cells, call.counted, call.room, {"snapshot", "array"})

\* The regions of the address space, one after the other; those that are
\* committed are stored.  The list ends where VirtualQueryEx fails.
WindowsMemoryMaps ==
  LET f == "windows_memory_maps"
      both == {"process", "array"}
  IN  \/ Enter(f, Entry) \/ Fails(f, "called", {})
      \/ Opens(f, "fill", Room, both)
      \/ Takes(f) \/ GrowFails(f, both)
      \/ At(f, "fill") /\ EndsEarly(call, Unread(there)) /\ UNCHANGED held
      \/ At(f, "end") /\ Gives(call.cells, Len(call.cells), call.room, both)

\* The handles of the process are counted in a picture of all handles of the
\* system, for which the size is asked if the first megabyte is not enough.
\* Each handle is duplicated to ask for its type; only files are stored.
WindowsOpenFiles ==
  LET f == "windows_open_files"
      n == Cardinality(call.buffer)
  IN  \/ Enter(f, Wanted) \/ Fails(f, "called", {})
      \/ Pictures(f, {"buffer"})
      \/ Sizes(f, {"buffer"}) \/ Fails(f, "sized", {"buffer"}) \/ Fetches(f)
      \/ At(f, "pictured") /\ n = 0 /\ Nothing({"buffer"})
      \/ n > 0 /\ Fails(f, "pictured", {"buffer"})
      \/ n > 0 /\ PreparesFill(f, n, {"array", "process"})
      \/ /\ n > 0 /\ At(f, "pictured")    \* the process cannot be opened
         /\ EndsEarly([call EXCEPT !.room = n], call.buffer)
         /\ held' = held \cup {"array"}
      \/ NextIsThere(call.buffer) /\ Puts(f, call.buffer, call.wants, Entry)
      \/ PassesOver(f, call.buffer)
      \/ /\ At(f, "end") \/ (At(f, "fill") /\ ~More(call.buffer))
         /\ Gives(call.cells, Len(call.cells), call.room, {"buffer", "array", "process"})

WindowsNetConnections ==
  Connections("windows_net_connections", <<{"tcp4"}, {"tcp6"}, {"udp4"}, {"udp6"}>>)

\* The addresses of all adapters.
WindowsNetIfAddrs ==
  LET f == "windows_net_if_addrs"
      list == Copied(call.buffer, Cardinality(call.buffer))
      frees == {"adapters"}
  IN  \/ Enter(f, Entry) \/ Fails(f, "called", {})
      \/ Sizes(f, frees) \/ Fails(f, "sized", frees)
      \/ Fetches(f) \/ Fails(f, "pictured", frees)
      \/ At(f, "pictured") /\ GivesAny(list, Len(list), Len(list), frees)

\* The interfaces, the loopback left out; the array has room for all.
WindowsNetIfStats ==
  LET f == "windows_net_if_stats"
      n == Cardinality(call.buffer)
      list == Copied(call.buffer, n)
      frees == {"table"}
  IN  \/ Enter(f, Wanted) \/ Fails(f, "called", {})
      \/ Sizes(f, frees) \/ Fails(f, "sized", frees)
      \/ Fetches(f) \/ Fails(f, "pictured", frees)
      \/ At(f, "pictured") /\ GivesAny(list, Len(list), n, frees)

\* The counters of the interfaces in operation.
WindowsNetIoCounters ==
  LET f == "windows_net_io_counters"
  IN  \/ Enter(f, Wanted) \/ Fails(f, "called", {})
      \/ Sizes(f, {"table"}) \/ Fails(f, "sized", {"table"}) \/ Fetches(f)
      \/ /\ At(f, "pictured")
         /\ Number(Copied(call.buffer, Cardinality(call.buffer)), {"table"})

\* GetLogicalDrives gives the drives at once; the type of each is asked when
\* they are counted, and again when they are stored.
WindowsDiskPartitions ==
  LET f == "windows_disk_partitions"
      drives == call.buffer
      qualify == IF call.wants = Entry THEN Entry ELSE there \cap call.wants
  IN  \/ \E wants \in {Wanted, Entry} : Enter(f, wants)
      \/ At(f, "called") /\ there = {} /\ Nothing({})
      \/ /\ At(f, "called") /\ there # {}
         /\ call' = [call EXCEPT !.pc = "count", !.buffer = there]
         /\ UNCHANGED <<there, held, answer, seen>>
      \/ Counts(f, drives, qualify)
      \/ MakesNone(f, drives, {}) \/ MakesArray(f, drives, 1)
      \/ Puts(f, drives, qualify, there)
      \/ /\ At(f, "fill") /\ ~More(drives)
         /\ LET list == Append(call.cells, EndMark)
            IN  Gives(list, Len(list), call.room, {"array"})

\* The sessions are given at once; those that are active or connected are asked
\* for the name of their user, which may fail or be empty, and then for their
\* domain and station.
WindowsUsers ==
  LET f == "windows_users"
      n == Cardinality(call.buffer)
      active == call.buffer \cap call.wants
      both == {"sessions", "array"}
  IN  \/ Enter(f, Wanted) \/ Fails(f, "called", {})
      \/ Pictures(f, {"sessions"})
      \/ At(f, "pictured") /\ n = 0 /\ Nothing({"sessions"})
      \/ n > 0 /\ Fails(f, "pictured", {"sessions"})
      \/ n > 0 /\ PreparesFill(f, n, {"array"})
      \/ NextIsThere(active) /\ Picks(f, active)
      \/ PassesOver(f, active) \/ Describes(f)
      \/ /\ At(f, "fill") /\ ~More(active)
         /\ GivesAny(call.cells, Len(call.cells), call.room, both)

WindowsLists ==
  \/ WindowsPids \/ WindowsNumThreads \/ WindowsThreads \/ WindowsMemoryMaps
  \/ WindowsOpenFiles \/ WindowsNetConnections \/ WindowsNetIfAddrs
  \/ WindowsNetIfStats \/ WindowsNetIoCounters \/ WindowsDiskPartitions \/ WindowsUsers
=============================================================================
