------------------------------ MODULE BsdLists ------------------------------
(***************************************************************************)
(* The list functions of psutil_bsd.c.                                     *)
(***************************************************************************)
EXTENDS ConnectionTables

\* psutil_bsd_pids: the directory /proc.
BsdPids ==
  LET f == "bsd_pids"
      both == {"array", "dir"}
  IN  \/ Enter(f, Entry) \/ Fails(f, "called", {})
      \/ Opens(f, "fill", Room, both)
      \/ Takes(f) \/ GrowFails(f, both)
      \/ /\ At(f, "fill") /\ Unread(there) = {}
         /\ Gives(call.cells, Len(call.cells), call.room, both)

BsdNumFds == Tally("bsd_num_fds", Entry, {"dir"})

BsdNetConnections ==
  Connections("bsd_net_connections", <<{"tcp4", "tcp6"}, {"udp4", "udp6"}>>)

\* getifaddrs: the addresses that are there are counted and stored.
BsdNetIfAddrs ==
  LET f == "bsd_net_if_addrs"
      list == Copied(call.buffer, Cardinality(call.buffer))
  IN  \/ Enter(f, Wanted) \/ Fails(f, "called", {})
      \/ Pictures(f, {"ifaddr"}) \/ Fails(f, "pictured", {"ifaddr"})
      \/ At(f, "pictured") /\ GivesAny(list, Len(list), Len(list), {"ifaddr"})

(***************************************************************************)
(* Interfaces by index: ifcount is the highest index in use, and each      *)
(* index up to it is asked for; some have no interface any more.           *)
(***************************************************************************)
ReadsIfCount(f, p, gets) ==
  /\ At(f, "called") /\ there # {}
  /\ call' = [call EXCEPT !.pc = p, !.counted = Max(there),
                          !.room = IF gets = {} THEN 0 ELSE Max(there)]
  /\ held' = gets
  /\ UNCHANGED <<there, answer, seen>>

NoInterface(f) == At(f, "called") /\ there = {} /\ Nothing({})

\* sysctl for an index.
AsksIndex(f, p) ==
  /\ At(f, p) /\ call.cursor < call.counted
  /\ LET i == call.cursor + 1
         c == [call EXCEPT !.cursor = i]
     IN  \/ i \in there /\ call' = Stored(c, i, TRUE) /\ UNCHANGED seen
         \/ /\ call' = c
            /\ seen' = [seen EXCEPT !.refused = IF i \in there THEN @ \cup {i} ELSE @]
  /\ UNCHANGED <<there, held, answer>>

BsdNetIfStats ==
  LET f == "bsd_net_if_stats"
  IN  \/ Enter(f, Entry) \/ Fails(f, "called", {}) \/ NoInterface(f)
      \/ ReadsIfCount(f, "fill", {"array"})
      \/ AsksIndex(f, "fill")
      \/ /\ At(f, "fill") /\ call.cursor = call.counted
         /\ GivesAny(call.cells, Len(call.cells), call.room, {"array"})

BsdNetIoCounters ==
  LET f == "bsd_net_io_counters"
  IN  \/ Enter(f, Entry) \/ Fails(f, "called", {}) \/ NoInterface(f)
      \/ ReadsIfCount(f, "add", {})
      \/ AsksIndex(f, "add")
      \/ At(f, "add") /\ call.cursor = call.counted /\ Number(call.cells, {})

\* The counters of the disks, added up in the buffer.
BsdDiskIoCounters ==
  LET f == "bsd_disk_io_counters"
  IN  \/ Enter(f, Entry) \/ Fails(f, "called", {})
      \/ Sizes(f, {"stats"}) \/ Fails(f, "sized", {"stats"}) \/ Fetches(f)
      \/ /\ At(f, "pictured")
         /\ Number(Copied(call.buffer, Cardinality(call.buffer)), {"stats"})

BsdDiskPartitions == MountsOnce("bsd_disk_partitions")

\* The logins are counted and read again; the length returned is what was
\* counted, whatever has been stored.
BsdUsers ==
  LET f == "bsd_users"
  IN  \/ Enter(f, Wanted)
      \/ Opens(f, "count", 0, {"utmp"})
      \/ Counts(f, there, call.wants)
      \/ MakesNone(f, there, {"utmp"}) \/ MakesArray(f, there, 0)
      \/ Puts(f, there, call.wants, Entry)
      \/ /\ At(f, "fill") /\ ~More(there)
         /\ Gives(call.cells, call.counted, call.room, {"utmp", "array"})

BsdLists ==
  \/ BsdPids \/ BsdNumFds \/ BsdNetConnections \/ BsdNetIfAddrs \/ BsdNetIfStats
  \/ BsdNetIoCounters \/ BsdDiskIoCounters \/ BsdDiskPartitions \/ BsdUsers
=============================================================================
