------------------------------ MODULE MacLists ------------------------------
(***************************************************************************)
(* The list functions of psutil_macos.c.                                   *)
(***************************************************************************)
EXTENDS ConnectionTables

\* psutil_macos_pids: sysctl for the size, sysctl for the processes.
MacPids ==
  LET f == "macos_pids"
      n == Cardinality(call.buffer)
  IN  \/ Enter(f, Entry) \/ Fails(f, "called", {})
      \/ Sizes(f, {"procs"}) \/ Fails(f, "sized", {"procs"})
      \/ Fetches(f) \/ Fails(f, "pictured", {"procs"})
      \/ At(f, "pictured") /\ Gives(Copied(call.buffer, n), n, n, {"procs"})

\* The descriptors: those of the directory /dev/fd/<pid>.
MacNumHandles == Tally("macos_num_handles", Entry, {"dir"})

\* thread_info fails: the thread has the number 0 and no times.
ThreadNotDescribed ==
  /\ At("macos_threads", "fill") /\ More(call.buffer)
  /\ \E e \in call.buffer :
       /\ IsNext(call.buffer, e)
       /\ call' = Stored([call EXCEPT !.cursor = e], 0, FALSE)
       /\ seen' = [seen EXCEPT !.refused = IF e \in there THEN @ \cup {e} ELSE @]
  /\ UNCHANGED <<there, held, answer>>

\* task_threads gives an array of ports, which nobody releases, though each
\* port is; thread_info is asked of each in turn.
MacThreads ==
  LET f == "macos_threads"
      n == Cardinality(call.buffer)
  IN  \/ Enter(f, Entry) \/ Fails(f, "called", {})
      \/ Pictures(f, {"task", "thread_list"}) \/ Fails(f, "pictured", {"task"})
      \/ PreparesFill(f, n, {"array"})
      \/ NextIsThere(call.buffer) /\ Puts(f, call.buffer, Entry, Entry)
      \/ ThreadNotDescribed
      \/ /\ At(f, "fill") /\ ~More(call.buffer)
         /\ Gives(call.cells, n, call.room, {"task", "array"})

\* The counters of the interfaces, added up in the buffer.
MacNetIoCounters ==
  LET f == "macos_net_io_counters"
  IN  \/ Enter(f, Entry) \/ Fails(f, "called", {})
      \/ Sizes(f, {"buf"}) \/ Fails(f, "sized", {"buf"}) \/ Fetches(f)
      \/ /\ At(f, "pictured")
         /\ Number(Copied(call.buffer, Cardinality(call.buffer)), {"buf"})

MacNetConnections ==
  Connections("macos_net_connections", <<{"tcp4", "tcp6"}, {"udp4", "udp6"}>>)

\* Slip: the length that is returned is that of the array.
MacNetIfAddrsAll ==
  LET f == "macos_net_if_addrs"
      n == Cardinality(call.buffer)
  IN  \/ Enter(f, Wanted) \/ Fails(f, "called", {})
      \/ Pictures(f, {"ifap"}) \/ Fails(f, "pictured", {"ifap"})
      \/ At(f, "pictured") /\ GivesAny(Copied(call.buffer, n), n, n, {"ifap"})

\* getifaddrs: the array has room for every address, those of other families
\* than IPv4 and IPv6 included, which are not stored.
MacNetIfAddrs ==
  LET f == "macos_net_if_addrs"
      n == Cardinality(call.buffer)
      list == Copied(call.buffer, n)
  IN  \/ Enter(f, Wanted) \/ Fails(f, "called", {})
      \/ Pictures(f, {"ifap"}) \/ Fails(f, "pictured", {"ifap"})
      \/ At(f, "pictured") /\ GivesAny(list, Len(list), n, {"ifap"})

\* Slip: the early return for no interface forgets the buffer.
MacNetIfStatsKeepsBuf ==
  LET f == "macos_net_if_stats"
      n == Cardinality(call.buffer)
  IN  \/ Enter(f, Wanted) \/ Fails(f, "called", {})
      \/ Sizes(f, {"buf"}) \/ Fails(f, "sized", {"buf"})
      \/ Fetches(f) \/ Fails(f, "pictured", {"buf"})
      \/ At(f, "pictured") /\ n = 0 /\ Nothing({})
      \/ At(f, "pictured") /\ n > 0 /\ Gives(Copied(call.buffer, n), n, n, {"buf"})

\* The interfaces are all counted, and only those with a name are stored; the
\* length that is returned is the number of all.
MacNetIfStats ==
  LET f == "macos_net_if_stats"
      n == Cardinality(call.buffer)
  IN  \/ Enter(f, Wanted) \/ Fails(f, "called", {})
      \/ Sizes(f, {"buf"}) \/ Fails(f, "sized", {"buf"})
      \/ Fetches(f) \/ Fails(f, "pictured", {"buf"})
      \/ At(f, "pictured") /\ n = 0 /\ Nothing({"buf"})
      \/ At(f, "pictured") /\ n > 0 /\ Gives(Copied(call.buffer, n), n, n, {"buf"})

\* getmntinfo.
MacDiskPartitions == MountsOnce("macos_disk_partitions")

\* getutxent; the logins among the entries are stored.
MacUsers ==
  LET f == "macos_users"
      both == {"array", "utmp"}
  IN  \/ Enter(f, Wanted) \/ Fails(f, "called", {})
      \/ Opens(f, "fill", Room, both)
      \/ Takes(f) \/ GrowFails(f, both)
      \/ /\ At(f, "fill") /\ Unread(there) = {}
         /\ GivesAny(call.cells, Len(call.cells), call.room, both)

MacLists ==
  \/ MacPids \/ MacNumHandles \/ MacThreads \/ MacNetIoCounters \/ MacNetConnections
  \/ MacNetIfAddrs \/ MacNetIfStats \/ MacDiskPartitions \/ MacUsers
=============================================================================
