---------------------------- MODULE MCOtherLists ----------------------------
(***************************************************************************)
(* OtherLists with three entries, two of which pass the filters, and which *)
(* are in three tables when they are connections.                          *)
(***************************************************************************)
EXTENDS OtherLists

Tabled == 1 :> "tcp4" @@ 2 :> "tcp6" @@ 3 :> "udp4"

AllListings == {
  "macos_pids", "macos_num_handles", "macos_threads", "macos_net_io_counters",
  "macos_net_connections", "macos_net_if_addrs", "macos_net_if_stats",
  "macos_disk_partitions", "macos_users",
  "bsd_pids", "bsd_num_fds", "bsd_net_connections", "bsd_net_if_addrs",
  "bsd_net_if_stats", "bsd_net_io_counters", "bsd_disk_io_counters",
  "bsd_disk_partitions", "bsd_users",
  "android_pids", "android_num_fds", "android_threads", "android_open_files",
  "android_net_io_counters", "android_disk_io_counters", "android_net_if_addrs",
  "android_disk_partitions",
  "windows_pids", "windows_num_threads", "windows_threads", "windows_memory_maps",
  "windows_open_files", "windows_net_connections", "windows_net_if_addrs",
  "windows_net_if_stats", "windows_net_io_counters", "windows_disk_partitions",
  "windows_users",
  "linux_num_fds", "linux_net_io_counters", "linux_disk_io_counters", "linux_net_if_addrs" }
=============================================================================
