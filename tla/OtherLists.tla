----------------------------- MODULE OtherLists -----------------------------
(***************************************************************************)
(* The list functions that LinuxLists leaves out: those of the other       *)
(* platforms, and those of Linux that answer at once or with a number.     *)
(* They share what they promise, not their code.                           *)
(***************************************************************************)
EXTENDS MacLists, BsdLists, AndroidLists, WindowsLists

LinuxNumFds == Tally("linux_num_fds", Entry, {"dir"})

\* The interfaces of /proc/net/dev, the loopback left out.
LinuxNetIoCounters == Tally("linux_net_io_counters", Wanted, {"fp"})

\* The disks of /proc/diskstats, loop devices and RAM disks left out.
LinuxDiskIoCounters == Tally("linux_disk_io_counters", Wanted, {"fp"})

\* Slip: an address of another family gets an element as well.
LinuxNetIfAddrsAll ==
  LET f == "linux_net_if_addrs"
      s == SetToSeq(call.buffer)
      list == [i \in DOMAIN s |-> [id |-> s[i], full |-> s[i] \in call.wants]]
  IN  \/ Enter(f, Wanted) \/ Fails(f, "called", {})
      \/ Pictures(f, {"ifaddr"}) \/ Fails(f, "pictured", {"ifaddr"})
      \/ At(f, "pictured") /\ list = <<>> /\ Nothing({"ifaddr"})
      \/ At(f, "pictured") /\ list # <<>> /\ Gives(list, Len(list), Len(list), {"ifaddr"})

\* getifaddrs: the array has room for every address; only IPv4 and IPv6
\* addresses are stored.
LinuxNetIfAddrs ==
  LET f == "linux_net_if_addrs"
      n == Cardinality(call.buffer)
      list == Copied(call.buffer, n)
  IN  \/ Enter(f, Wanted) \/ Fails(f, "called", {})
      \/ Pictures(f, {"ifaddr"}) \/ Fails(f, "pictured", {"ifaddr"})
      \/ At(f, "pictured") /\ n = 0 /\ Nothing({"ifaddr"})
      \/ At(f, "pictured") /\ n > 0 /\ Gives(list, Len(list), n, {"ifaddr"})

LinuxOthers ==
  \/ LinuxNumFds \/ LinuxNetIoCounters \/ LinuxDiskIoCounters \/ LinuxNetIfAddrs

Next == Change \/ MacLists \/ BsdLists \/ AndroidLists \/ WindowsLists \/ LinuxOthers

Spec == Init /\ [][Next]_vars
-----------------------------------------------------------------------------
(***************************************************************************)
(* Properties.                                                             *)
(***************************************************************************)
Ids(list) == {list[i].id : i \in DOMAIN list} \ {0}

\* No function writes past its array, whatever happens between the moment when
\* the size is known and the moment when the elements are written: neither an
\* element, nor what is written of the next one before it is known whether it
\* counts, nor the end mark.
InBounds ==
  /\ call.pc # "add" => Len(call.cells) <= call.room
  /\ call.pc = "look" => Len(call.cells) < call.room
  /\ Len(answer.list) <= answer.room

\* Whichever way a call ends, it has given back every buffer, directory, port
\* and snapshot it has got.  process_get_threads of macOS alone keeps one, the
\* list of ports that task_threads has allocated.
NothingLeft ==
  call.pc = "idle" =>
    held \subseteq IF answer.fn = "macos_threads" THEN {"thread_list"} ELSE {}

\* No entry is listed or counted twice.
NoneTwice ==
  \A i, j \in DOMAIN answer.list :
    i < j /\ answer.list[i].id # 0 => answer.list[i].id # answer.list[j].id

\* The length that a function returns is the number of elements it has written.
\* There are three exceptions.  On the BSDs, users returns what it has counted,
\* also if somebody has logged out since; on macOS, net_if_stats returns the
\* number of all interfaces, also if some have no name and are not stored: the
\* rest of the array is as malloc left it.  On Windows, a process of which the
\* snapshot has no thread is said to have one.
LengthIsWritten ==
  ~answer.null /\ answer.count # Len(answer.list) =>
    \/ answer.fn = "bsd_users" /\ answer.count > Len(answer.list)
       /\ seen.ever \ seen.since # {}
    \/ answer.fn = "macos_net_if_stats" /\ answer.count > Len(answer.list)
       /\ seen.ever \ Wanted # {}
    \/ answer.fn = "windows_num_threads" /\ answer.list = <<>>

\* An element lacks what the system says of the entry only if the entry was
\* going away, or the system refused to describe it.
HalfHasReason ==
  \A c \in {answer.list[i] : i \in DOMAIN answer.list} :
    ~c.full => \/ c.id = 0 /\ answer.fn = "macos_threads"
                  /\ (seen.refused # {} \/ seen.ever \ seen.since # {})
               \/ c.id # 0 /\ (c.id \notin seen.since \/ c.id \in seen.refused)

\* The functions that read their source twice, and may find other entries in it.
TwoPass == {"bsd_users", "android_threads", "android_open_files",
            "android_disk_partitions", "windows_disk_partitions"}

\* Every function keeps the promise of Listing, as those of Linux do: it lists,
\* or counts, all that was there during the call and passes its filter, and
\* nothing that never was.
Promise == INSTANCE Listing WITH
  busy <- call.pc # "idle",
  wanted <- call.wants,
  firm <- call.fn \notin TwoPass,
  since <- seen.since, ever <- seen.ever, refused <- seen.refused, starved <- seen.starved,
  answer <- [null |-> answer.null, ids |-> Ids(answer.list)]
PromiseKept == Promise!Spec
-----------------------------------------------------------------------------
(***************************************************************************)
(* Why they hold: the parts of the inductive invariant.                    *)
(***************************************************************************)
Busy == call.pc # "idle"

\* Functions by the way they collect: into an array that grows, about each
\* entry of a picture, about each index, from tables of connections.
Growing      == {"macos_users", "bsd_pids", "android_pids", "windows_memory_maps"}
Photographed == {"macos_threads", "windows_threads", "windows_open_files", "windows_users"}
ByIndex      == {"bsd_net_if_stats", "bsd_net_io_counters"}
Connecting   == {"macos_net_connections", "bsd_net_connections", "windows_net_connections"}

\* Those that return as the length the size of the picture.
Unfiltered == {"macos_pids", "macos_threads", "windows_pids", "windows_threads"} \cup ByIndex

\* Those that list whatever is there.
Everything == Unfiltered \cup {"android_threads", "android_open_files"}

Named == Listings \cup {"none"}
Call ==
  [fn : Named, kind : Kinds \cup {"none"},
   pc : {"idle", "called", "sized", "pictured", "count", "fill", "look", "add", "end",
         "table", "asked", "rows"},
   wants : SUBSET Entry, size : Nat, buffer : SUBSET Entry, cursor : Nat, counted : Nat,
   room : Nat, cells : Seq(Cell)]

TypeOK ==
  /\ there \in SUBSET Entry
  /\ call \in Call
  /\ answer \in [fn : Named, null : BOOLEAN, list : Seq(Cell), count : Nat, room : Nat]
  /\ seen \in [since : SUBSET Entry, ever : SUBSET Entry, refused : SUBSET Entry,
               starved : BOOLEAN]

\* Between two calls nothing is under way; during a call there is no answer.
\* Before the first element is known nothing has been stored.
Begun ==
  /\ ~Busy => call = Idle
  /\ Busy => answer = NoAnswer
  /\ call.pc \in {"called", "sized", "pictured", "count"} => call.cells = <<>> /\ call.room = 0
  /\ call.pc \in {"called", "sized", "pictured"} => call.cursor = 0 /\ call.counted = 0
  /\ call.pc \in {"called", "sized"} => call.buffer = {}

\* What is known of the source, and what the function is to list of it.
Known ==
  /\ Busy => /\ seen.since \subseteq there /\ there \subseteq seen.ever
             /\ call.buffer \subseteq seen.ever
  /\ Busy /\ call.fn \in Everything => call.wants = Entry
  /\ Busy /\ call.fn = "macos_net_if_stats" => call.wants = Wanted
  /\ \/ call.pc = "pictured"
     \/ /\ call.fn \in Photographed \cup {"windows_disk_partitions"}
        /\ call.pc \in {"count", "fill", "look"}
     => /\ call.fn # "windows_pids" => seen.since \subseteq call.buffer
        /\ seen.since \subseteq call.buffer \cup seen.refused
  /\ call.pc = "pictured" /\ call.fn = "windows_pids" => Cardinality(call.buffer) <= MaxPids

\* The array has room for what is still to be stored.
Fits ==
  /\ call.pc # "add" => Len(call.cells) <= call.room
  /\ call.pc \in {"fill", "look"} /\ call.fn \notin Growing =>
       /\ Len(call.cells) <= call.counted /\ call.counted <= call.room
       /\ call.fn \in {"android_disk_partitions", "windows_disk_partitions"} =>
            call.counted < call.room
  /\ call.pc = "look" => call.fn \notin Growing /\ Len(call.cells) < call.counted
  /\ call.pc = "fill" /\ call.fn \in Growing => call.room > 0
  /\ call.pc \in {"table", "asked", "rows"} => call.room > 0

\* The entries stored are behind the cursor, and no two are the same.
Distinct ==
  /\ \A i \in DOMAIN call.cells :
       /\ call.cells[i].id = 0 => call.fn = "macos_threads"
       /\ call.fn \notin Connecting =>
            /\ call.cells[i].id <= call.cursor
            /\ call.pc = "look" => call.cells[i].id < call.cursor
  /\ \A i, j \in DOMAIN call.cells :
       i < j /\ call.cells[i].id # 0 => call.cells[i].id # call.cells[j].id

\* What the cursor has gone past.
Behind(e) == e <= call.cursor /\ (call.pc = "look" => e # call.cursor)

\* Everything behind the cursor that has to be listed is stored, and nothing is
\* stored that was not there or that the filter refuses.
Listed ==
  /\ Ids(call.cells) \subseteq seen.ever \cap call.wants
  /\ call.pc \in {"fill", "look", "add"} =>
       \A e \in seen.since \cap call.wants : Behind(e) => e \in seen.refused \cup Ids(call.cells)
  /\ call.pc = "look" => call.cursor \in seen.ever \cap call.wants
  /\ call.pc = "end" => seen.since \cap call.wants \subseteq seen.refused \cup Ids(call.cells)

\* What an element without its numbers says of its entry.
Excused(f, c) ==
  \/ c.full
  \/ c.id = 0 /\ f = "macos_threads"
     /\ (seen.refused # {} \/ seen.ever \ seen.since # {})
  \/ c.id # 0 /\ (c.id \notin seen.since \/ c.id \in seen.refused)

HalfExcused == \A i \in DOMAIN call.cells : Excused(call.fn, call.cells[i])

\* One element, at most, for each entry of the picture behind the cursor.
OnePerEntry ==
  call.fn \in Photographed /\ call.pc \in {"fill", "look"} =>
    LET gone == Cardinality({e \in call.buffer : Behind(e)})
    IN  /\ call.counted = Cardinality(call.buffer)
        /\ call.pc = "look" => call.cursor \in call.buffer
        /\ Len(call.cells) <= gone
        /\ call.fn \in Unfiltered => Len(call.cells) = gone

\* One element, at most, for each index.
OnePerIndex ==
  call.fn \in ByIndex /\ call.pc \in {"fill", "add"} =>
    /\ Len(call.cells) <= call.cursor /\ call.cursor <= call.counted
    /\ \A e \in seen.since : e <= call.counted
    /\ call.pc = "fill" => call.counted <= call.room

\* The first of two passes has counted what there is to list since the call
\* began; as long as nothing comes and goes, neither more nor less.
Foreseen == {e \in seen.since \cap call.wants : call.pc = "count" => e <= call.cursor}

CountedEnough ==
  /\ call.fn \in TwoPass /\ call.pc \in {"count", "fill", "look"} =>
       Cardinality(Foreseen) <= call.counted
  /\ call.fn = "bsd_users" /\ seen.ever \subseteq seen.since =>
       /\ call.pc \in {"count", "fill"} => call.counted = Cardinality(Foreseen)
       /\ call.pc = "fill" =>
            Len(call.cells) = Cardinality({e \in Foreseen : e <= call.cursor})

\* The tables of connections are gone through in order.
TablesOf(f) ==
  IF f = "windows_net_connections" THEN <<{"tcp4"}, {"tcp6"}, {"udp4"}, {"udp6"}>>
  ELSE <<{"tcp4", "tcp6"}, {"udp4", "udp6"}>>

InTables ==
  LET tables == TablesOf(call.fn)
  IN  /\ Busy /\ call.fn \in Connecting =>
           call.wants = {e \in Entry : \E k \in DOMAIN tables :
                           Table[e] \in tables[k] /\ IsAsked(call.kind, tables[k])}
      /\ call.pc \in {"table", "asked", "rows"} =>
           /\ call.fn \in Connecting
           /\ call.cursor > 0
           /\ call.pc = "table" \/ call.cursor <= Len(tables)
           /\ call.pc = "rows" \/ call.buffer = {}
           /\ call.pc = "table" \/ IsAsked(call.kind, tables[call.cursor])
           /\ \A e \in call.buffer : Table[e] \in tables[call.cursor]
           /\ \A i \in DOMAIN call.cells : \E k \in DOMAIN tables :
                /\ Table[call.cells[i].id] \in tables[k]
                /\ k < call.cursor \/ (k = call.cursor /\ call.pc = "rows"
                                       /\ call.cells[i].id \notin call.buffer)
           /\ \A k \in DOMAIN tables : \A e \in seen.since \cap call.wants :
                Table[e] \in tables[k] =>
                  /\ k < call.cursor => e \in seen.refused \cup Ids(call.cells)
                  /\ k = call.cursor /\ call.pc = "rows" =>
                       e \in seen.refused \cup Ids(call.cells) \cup call.buffer

\* What a call has got: before it knows what there is to list, and then.
GotFirst(f) ==
  CASE f = "macos_pids" -> {"procs"}
    [] f = "macos_threads" -> {"task", "thread_list"}
    [] f = "macos_users" -> {"array", "utmp"}
    [] f = "macos_net_if_addrs" -> {"ifap"}
    [] f = "bsd_net_if_stats" -> {"array"}
    [] f = "bsd_disk_io_counters" -> {"stats"}
    [] f = "bsd_users" -> {"utmp"}
    [] f = "windows_memory_maps" -> {"process", "array"}
    [] f = "windows_open_files" -> {"buffer"}
    [] f = "windows_net_if_addrs" -> {"adapters"}
    [] f = "windows_users" -> {"sessions"}
    [] f \in {"macos_num_handles", "linux_num_fds", "bsd_num_fds", "android_num_fds",
              "android_threads", "android_open_files"} -> {"dir"}
    [] f \in {"macos_net_io_counters", "macos_net_if_stats"} -> {"buf"}
    [] f \in {"bsd_pids", "android_pids"} -> {"array", "dir"}
    [] f \in {"linux_net_if_addrs", "bsd_net_if_addrs", "android_net_if_addrs"} -> {"ifaddr"}
    [] f \in {"linux_net_io_counters", "linux_disk_io_counters", "android_net_io_counters",
              "android_disk_io_counters", "android_disk_partitions"} -> {"fp"}
    [] f \in {"windows_num_threads", "windows_threads"} -> {"snapshot"}
    [] f \in {"windows_net_if_stats", "windows_net_io_counters"} -> {"table"}
    [] f \in Connecting -> {"connections"}
    [] OTHER -> {}

GotLater(f) ==
  CASE f = "windows_open_files" -> {"array", "process"}
    [] f \in {"macos_threads", "windows_threads", "windows_users", "android_threads",
              "android_open_files", "android_disk_partitions", "windows_disk_partitions",
              "bsd_users"} -> {"array"}
    [] f \in Connecting -> {"table"}
    [] OTHER -> {}

\* What it may have got and not given back at each place.
MayHold(f, p) ==
  IF p = "called" THEN {}
  ELSE IF p \in {"sized", "pictured", "count", "table"} THEN GotFirst(f)
  ELSE GotFirst(f) \cup GotLater(f)

Leaked(f) == IF f = "macos_threads" THEN {"thread_list"} ELSE {}

Held == held \subseteq IF Busy THEN MayHold(call.fn, call.pc) ELSE Leaked(answer.fn)
==============================================================================
