---------------------------- MODULE AndroidLists ----------------------------
(***************************************************************************)
(* The list functions of psutil_android.c; those that always answer NULL   *)
(* there (memory maps, connections, interface statistics, users) are left  *)
(* out.                                                                    *)
(***************************************************************************)
EXTENDS ListSteps

AndroidPids ==
  LET f == "android_pids"
      both == {"array", "dir"}
  IN  \/ Enter(f, Entry) \/ Fails(f, "called", {})
      \/ Opens(f, "fill", Room, both)
      \/ Takes(f) \/ GrowFails(f, both)
      \/ /\ At(f, "fill") /\ Unread(there) = {}
         /\ Gives(call.cells, Len(call.cells), call.room, both)

AndroidNumFds == Tally("android_num_fds", Entry, {"dir"})

\* A directory that is counted first, then read again: each entry is described
\* by a file or a link of its own, which may be gone, or refused.
Described(f) ==
  \/ Enter(f, Entry) \/ Fails(f, "called", {})
  \/ Opens(f, "count", 0, {"dir"})
  \/ Counts(f, there, Entry)
  \/ MakesNone(f, there, {"dir"}) \/ MakesArray(f, there, 0)
  \/ Picks(f, there) \/ Describes(f)
  \/ /\ At(f, "fill") /\ ~More(there)
     /\ Gives(call.cells, Len(call.cells), call.room, {"dir", "array"})

\* Without its stat file, a thread has times of zero.
AndroidThreads == Described("android_threads")

\* Without its link, an open file has the path "unknown".
AndroidOpenFiles == Described("android_open_files")

\* The interfaces of /proc/net/dev, the loopback left out.
AndroidNetIoCounters == Tally("android_net_io_counters", Wanted, {"fp"})

\* The disks of /proc/diskstats, loop and ram devices left out.
AndroidDiskIoCounters == Tally("android_disk_io_counters", Wanted, {"fp"})

\* getifaddrs: IPv4 and IPv6 addresses are counted and stored.
AndroidNetIfAddrs ==
  LET f == "android_net_if_addrs"
      list == Copied(call.buffer, Cardinality(call.buffer))
  IN  \/ Enter(f, Wanted) \/ Fails(f, "called", {})
      \/ Pictures(f, {"ifaddr"}) \/ Fails(f, "pictured", {"ifaddr"})
      \/ At(f, "pictured") /\ GivesAny(list, Len(list), Len(list), {"ifaddr"})

\* All the lines of /proc/mounts are counted; the file systems that are no
\* real ones are left out when it is read again, unless all are asked for.
AndroidDiskPartitions ==
  LET f == "android_disk_partitions"
  IN  \/ \E wants \in {Wanted, Entry} : Enter(f, wants)
      \/ Fails(f, "called", {})
      \/ Opens(f, "count", 0, {"fp"})
      \/ Counts(f, there, Entry)
      \/ MakesNone(f, there, {"fp"}) \/ MakesArray(f, there, 1)
      \/ Puts(f, there, call.wants, Entry)
      \/ /\ At(f, "fill") /\ ~More(there)
         /\ LET list == Append(call.cells, EndMark)
            IN  Gives(list, Len(list), call.room, {"fp", "array"})

AndroidLists ==
  \/ AndroidPids \/ AndroidNumFds \/ AndroidThreads \/ AndroidOpenFiles
  \/ AndroidNetIoCounters \/ AndroidDiskIoCounters \/ AndroidNetIfAddrs
  \/ AndroidDiskPartitions
=============================================================================
