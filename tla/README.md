# A verification of psutil_c_port

psutil_c_port is a C library with the interface of Python's psutil: a program that links it asks about processes, CPUs, memory, disks, network interfaces and users, and sends signals to processes or waits for them. This directory holds TLA+ models of its code, the TLC configurations that check them on small instances, and theorems that TLAPS proves for every instance. Line numbers refer to `libpsutil/arch/linux/psutil_linux.c` unless another file is named.

## The system

`libpsutil/psutil.h` declares about ninety functions. `libpsutil/psutil.c` maps each one, at compile time, to the function of the same name for the platform (`psutil_linux_...`, `psutil_windows_...`, ...), or to a fallback that answers nothing. The platform files under `libpsutil/arch/` hold all the logic. The library has no thread, no lock and no file of its own, and keeps no state but the handles it gives out and a few static buffers. What makes it hard is that every answer is put together from several system calls, on a system that changes between any two of them, and that the program may call it from several threads.

| Component | State it keeps | Operations | What is hard | What makes it correct |
|---|---|---|---|---|
| Process handles (`struct Process`) | pid; cached name, exe, cwd, username, create_time | process_new, process_free, the getters that cache | a pid is given to another process once its process has been reaped; a cached string is handed to the program | what a handle stores is about one process as long as that process exists; a string handed out stays valid until process_free |
| Queries of a process's state | none | get_ppid, get_status, is_running, pid_exists | the file is opened in one step and read in another | an answer was true at some moment of the call |
| Signals and wait | elapsed time of the polling loop | suspend, resume, terminate, kill, wait | exit, reaping and polling interleave; timeouts; two threads that wait; interrupted calls | one exit is reported once; a timeout is kept; every call that has an end returns |
| Lists (pids, threads, open files, partitions, users, interfaces, connections; sums over them) | an array that grows, that a first pass has sized, or of the size the system has told | one function each on each platform | the source changes while it is read; memory runs out half-way | no write outside the array; nothing is leaked; what was there all along is listed, once; the length returned is what was written |
| Memory maps | the entry being built, the array | process_get_memory_maps | one record spans many lines; long lines are cut | each record reported is one record of the file, and all are |
| Connections | an array of fixed size, the inodes of a process | net_connections, process_get_net_connections | four files into one array; a filter by column; two address formats | the connections of the kind asked for, no others, until the array is full |
| Command line and environment | position in the text | get_cmdline, get_environ | terminators that are missing, empty or cut off | every string once, none beyond the text |
| CPU times and percentages | two samples | cpu_times, cpu_percent, cpu_times_percent | counters that do not move, or go back, between two samples | results between 0 and 100 |
| Attributes (nice, affinity, terminal; ionice, uids, gids) | a static buffer (terminal) | get and set | numbers of CPUs that go offline; tables that map there and back; a buffer that all calls share | what was set is what is read; the name read is that of the process asked for |
| Times of the system (boot_time, FILETIMEs) | on Android the first answer | two clocks and their difference | the clock is set, or time passes, between the readings; unsigned subtraction | the moment of the start, up to what passes between the readings |
| Host (memory, swap, disk usage, CPU counts) | none | one read each | the layout of the input | - |
| Dispatch (`psutil.c`) | none | one line each | - | - |
| Initialisation (Windows, Android) | function pointers, SC_CLK_TCK | psutil_init | calls before it, or after it has failed half-way | nothing is called through a pointer that has not been set |

The components meet in three ways. The functions of a process take a handle and use nothing of it but its pid and its cached fields. All functions read the same process table and the same files of `/proc`, which nothing locks. `process_wait` changes the table itself: it collects a child, and with it frees the pid that other handles hold.

## Modules

| Module | What it is | Lines of the code |
|---|---|---|
| `ProcTable` | the kernel's process table, modelled from the calls the library makes: fork, exec, exit, reaping, signals, reuse of pids | external |
| `ProcessApi` | the handle, the call each thread has in progress, and what the interface promises: what any platform's module is built on | `psutil.h` 35-48, 163-308 |
| `ProcessSteps` | the steps that several platforms have in common: handles, fields that are kept, signals, the polling wait | 98-210, 1281-1352 |
| `LinuxProcess` | the process functions on Linux: the getters that read files of `/proc`, is_running | 98-210, 279-405, 1281-1388 |
| `MacProcess` | the same on macOS | `psutil_macos.c` 118-213, 301-393, 833-924 |
| `BsdProcess` | the same on the BSDs | `psutil_bsd.c` 93-191, 258-346, 724-780 |
| `AndroidProcess` | the same on Android; EXTENDS `LinuxProcess` | `psutil_android.c` 57-71, 134-278, 367-456, 1017-1064 |
| `WindowsProcess` | the same on Windows, and the process table as Windows has it | `psutil_windows.c` 272-416, 690-821, 1872-1996 |
| `Platforms` | composes the five, with the platform chosen at the beginning, and says what an answer means on each | `psutil.c` 37-245, 644-754 |
| `LinuxProcess_proofs` | theorems about `LinuxProcess` | |
| `LinuxAnswers_proofs` | theorems about the answers on Linux | |
| `Handles_proofs` | theorems about the handles and process_wait, on all platforms | |
| `Listing` | abstract: what a function promises that lists things while they change | |
| `LinuxLists` | the six functions of Linux that collect a list; all implement `Listing` | 55-96, 839-921, 1162-1229, 1874-1980, 2024-2127, 2143-2201 |
| `LinuxLists_proofs` | its theorems, the refinement of `Listing` among them | |
| `ListSteps` | the steps from which the list functions of the other platforms are made | `psutil_macos.c`, `psutil_bsd.c`, `psutil_android.c`, `psutil_windows.c` |
| `ConnectionTables` | EXTENDS `ListSteps`: net_connections where the system keeps tables | the same |
| `MacLists`, `BsdLists`, `AndroidLists`, `WindowsLists` | the list functions of each of these platforms, one operator each | the same |
| `OtherLists` | composes the four, and the functions of Linux that add up or count (num_fds, counters, addresses); says that all implement `Listing` | |
| `OtherLists_proofs` | its theorems, for all four platforms | |
| `LinuxMaps` | process_get_memory_maps | 1020-1160 |
| `LinuxMaps_proofs` | its theorems | |
| `LinuxNet` | net_connections and process_get_net_connections | 1231-1279, 1623-1799 |
| `LinuxNet_proofs` | its theorems | |
| `StringVector` | process_get_cmdline, process_get_environ and psutil_free_string_array, all platforms | 212-277, 713-778, and their like |
| `CpuTimes` | cpu_times, cpu_percent and cpu_times_percent, all platforms | 1425-1495, and their like |
| `Affinity` | process_get_cpu_affinity and process_set_cpu_affinity | 591-678, and their like |
| `Niceness` | process_get_nice and process_set_nice | `psutil_windows.c` 823-893, and their like |
| `Terminal` | process_get_terminal (Linux, Android, macOS) | 469-511, and their like |
| `Startup` | psutil_init of Windows and Android, and calls around it | `psutil_windows.c` 22-168, `psutil_android.c` 44-54 |
| `Clocks` | boot_time, and FiletimeToUnixTime | 2203-2209, `psutil_windows.c` 199-208, and their like |
| `Answers` | composes the seven parts from `StringVector` to `Clocks`, which share no state: a behaviour is one of a single part | |
| `Answers_proofs` | theorems about each of the seven parts | |
| `MC...` | the sets and symmetries with which TLC checks each | |

### Processes

A step of a process function is one system call and the code up to the next one; between two steps of a thread any process may fork, exec, exit or be reaped, and any other thread may take its steps. A process (`Proc`) and its number (`Pid`) are different things in the model, so that a number that is used again is visible. `hpid` and `cache` are the fields of `struct Process`; a cached string is modelled as the process it was read from and how often that process had changed its image by then. `pc`, `op`, `fp`, `elapsed` and `limit` are where a thread is in a call, the process whose file it has open, and the counters of the polling loop. An open file of `/proc` stays with the process it was opened on: reading it fails when that process is gone, and never reads about the next owner of the pid.

`birth`, `lent`, `struck` and `saw` are history variables. No guard reads them. They record which process a handle was made for, which strings it gave out, which processes its signals reached, and what was true of the pid at some moment of the call.

Every getter has the branches of the code: the early return of a filled field, the failing open, the failing read, the failing strdup. kill is one step. `process_wait` is either a blocked waitpid, which may be interrupted, or the loop of waitpid with WNOHANG, sleep and count.

The platforms differ in what a step is and in what is kept:

- Linux and Android open a file in one step and read it in another. On macOS and the BSDs a getter is one sysctl. On Windows a function opens the process, asks, and closes; the HANDLE stays with the process it was opened on, so this is one step, except for wait, which blocks with the HANDLE open.
- process_new only sets the pid, except on Android, where it reads the stat file twice, and on Windows, where it calls five getters (place "new"). What these store in fields that the program of a run never asks for is not followed.
- All keep what a getter has read, except the BSDs, whose getters free the old string and store a new one.
- is_running looks for a file of `/proc` and at its state letter (Linux), calls waitpid with WNOHANG (macOS), looks for an entry of `/proc` (BSDs, Android), or asks for the exit code (Windows).
- wait polls on Linux, macOS and Android. On Android a timeout of 0 waits for ever and a timeout that has passed is answered -1; on the BSDs there is one waitpid, whatever the timeout; on Windows it is WaitForSingleObject, which collects nothing and works for any process.
- On Windows a process that has exited keeps its entry ("zombie" in the model) until its last HANDLE is closed; nobody has to collect it, and processes do not change their program.

Left out are signals that the program sends to itself, and a second thread that uses the same handle: `struct Process` has no lock, and each thread of the model has a handle of its own.

### Lists

In `LinuxLists` the source of a list is a set of numbers, read upwards from a cursor; between two reads any entry may appear or go away. This is how the kernel reads `/proc`, whose directories are ordered by number and whose tables are ordered by place. `cells` is the array and its length is the code's index, `room` is what the array was allocated for, and `files` counts the directories and files that the library has open. Every allocation and every open may fail. A cell has its number and whether the numbers that belong to it have been set.

`Listing` says what such a function can promise at all. No answer is a photograph of one moment; but it has everything that was there during the whole call and that the system was ready to describe, nothing that was there at no moment of it, and it is NULL only if memory or descriptors were refused or nothing had to be listed. A function that counts first (`firm` is FALSE) may lack a thing, but only if it lists another that was not there all along, which has taken its place. `PromiseKept` says that all functions implement it, with `busy <- pc # "idle"` and the answer mapped to the set of its numbers. `MissedForNewcomers` is stronger for the functions of Linux that count first: what is missing is missing because the array was full.

The other platforms obtain their lists in three ways, which are the steps of `ListSteps`: in one picture, as an array that the system fills; in a picture for which the size is asked beforehand, while entries come and go, so that the second call may refuse; or entry by entry, as on Linux. The size that the system tells may be exact or larger. A table of connections is fetched into a buffer and read row by row; each row that the filter keeps may make the array grow, and a growth that fails ends the table. `held` is the set of what a call has got and has to give back: buffers, directories, ports, snapshots. `OtherLists` has 41 functions. A function that answers a sum or a number is treated as one whose list is what went into the sum. Functions of Android that answer NULL in any case (memory maps, connections, statistics of interfaces, users) are left out.

The code that was read for these modules does some things that their properties state as exceptions, and some that are no part of any property:

- `psutil_windows_pids` never repeats EnumProcesses (`psutil_windows.c` 249): the number of bytes that comes back is never more than the array has, so a system with more than 1024 processes is cut. In the model the ones cut off count as refused.
- users on the BSDs and net_if_stats on macOS return a length that can be larger than what was written (LengthIsWritten).
- process_get_threads on macOS never gives back the list of ports (NothingLeft).
- net_connections of macOS and the BSDs ignores the family that the kind asks for.
- num_handles on macOS opens `/dev/fd/<pid>`; num_fds answers the size of a buffer that leaves room for more.
- num_ctx_switches on Windows always answers zeros.

### Maps and connections

`LinuxMaps` reads a file line by line: a header that begins a mapping, perhaps cut by the buffer of 1024 characters into two or more pieces, each of which may begin with a hexadecimal digit, and the lines of numbers in the order the kernel writes them. Properties compare what was saved with what the lines, read as a whole, say.

`LinuxNet` has one set of sockets, each in a place of one of the four files of `/proc/net`; a line is reduced to what decides whether it is kept: whether its address can be parsed, and the column that the code compares with the inodes of the process. Addresses, ports and states are left out. Each socket has one descriptor.

### Single answers

`StringVector` has a text as the number of strings that were read, the number that the process has, the set of places that are empty strings, and whether the last NUL was read; a string is its place, so that order, loss and repetition show and characters do not. `vector` holds the local variables of the call in progress, `strings` the last answer, until psutil_free_string_array gets it. What is different from platform to platform is how much is read, what is counted, what is copied, and whether a failed strdup is noticed:

- Linux and Android read once into a buffer, of 4095 bytes (8191 for the environment on Android), Windows a block of 16 KB of environment. What does not fit is missing from an answer that says success, and the last string that was read may lack its NUL.
- A last string without its NUL is copied as far as it was read on Linux, which has put a NUL behind the buffer ("start"), and is not counted on Android. On the BSDs, macOS and in a block of Windows nothing ends the buffer, so that the copy goes on in whatever memory lies behind it ("overrun").
- Linux stops at an empty argument, in both passes. If the last NUL is missing the scan goes on behind the text.
- The BSDs count NULs but store only strings that are not empty: the rest of the array is as malloc left it, and psutil_free_string_array frees it. A last string without NUL is not counted: if no string is empty it is stored in the element of the end mark and then overwritten, otherwise it is in the answer with foreign memory behind it.
- macOS passes over empty first arguments as if they were padding, and lists variables of the environment instead.
- Windows refuses a command line of more than MAX_PATH * 8 bytes; an environment block that is empty is counted as one string, and one that could not be read is parsed as it is.

`CpuTimes` keeps a quotient as its two numbers and compares it, in `PercentIsShare`, with what has run between the samples. Nice time is left out on Linux, the BSDs and macOS; cpu_times_percent of Linux divides by the busy time alone, that of the BSDs by any interval, 0 too; a sample that fails is zeros, so that the other is taken for the difference; the ticks of macOS wrap. On macOS the code uses `times.idle`, which `psutil.h` does not have, and so does not compile; it is modelled as it is meant. On Android, `irq`, `softirq` and `steal` stay unassigned if `/proc/stat` has fewer columns; the model does not have these.

`Affinity` has the CPUs that are online and the mask of the process, which others change during a call. Linux takes the number of CPUs online for the bound of their numbers; macOS sets nothing and lists all. Masks are of one word. `Niceness` has setpriority, which clamps (at 20 on the BSDs and macOS, at 19 on Linux and Android), and the two tables of Windows. get_nice answers -1 on Linux and macOS, and 0 elsewhere, when it fails, which are nice values too. `Terminal` has the static array, which is torn while snprintf writes it. Android takes every device for a console and finds nothing if the name of the process holds a ")", macOS writes the minor number in hexadecimal, Linux makes up a letter for serial lines.

`Startup` sets one pointer in a step. cmdline and environ call NtQueryInformationProcess, cpu_count uses SYSTEM_INFO, and on Android times are divided by SC_CLK_TCK without a look at whether psutil_init has set them; `NothingUnset` says that this, and psutil_init called again, are the only ways to use what is not set. `Clocks` counts in parts of a second, with a clock that may be set at any time. On Linux and Android boot_time subtracts the uptime of sysinfo, which the kernel rounds up to a second, from time, which is rounded down, so that the answer is early by up to two seconds; on macOS and the BSDs the kernel tells it. A system call that fails gives 0, which Android does not keep. FiletimeToUnixTime wraps for a time of 0, which the processes of the system have (`psutil_windows.c` 790), and for durations, for which process_get_threads uses it (1504-1505).

## Runs

| Run | Checks | What it shows |
|---|---|---|
| `handles` | HandleIdentity, LentStringsLive | all platforms; one thread, one pid that up to two processes carry after one another; a handle never mixes two processes while the first is in the table, even as a zombie, and no string is replaced while it is lent: on the BSDs, until the same getter is called again |
| `readers` | GetterWitnessed, StatusWitnessed | all platforms; a failure of a getter and a status have a reason during the call, although opening and reading may be two steps |
| `wait` | RunningWitnessed, WaitWitnessed, OneWaitPerExit, WaitIsBounded | all platforms; two threads wait for, and ask about, the same pids, with no timeout, timeout 0 and one that is no multiple of the interval |
| `liveness` | CallsReturn, KilledWaitReturns | Linux, Android and Windows; calls return; a wait without timeout returns when its process has been killed, whoever collects it |
| `mac_running` | IsRunningWitnessed (violated) | see the findings |
| `lists` | InBounds, NothingHeld, NoneTwice, MissedForNewcomers, HalfReadIsGone, PromiseKept | the six functions of `LinuxLists`, one call after another, with arrays that grow twice, every failure of memory and of opening, and a source that changes between any two reads |
| `other_lists` | InBounds, NothingLeft, NoneTwice, LengthIsWritten, HalfHasReason, PromiseKept | the 41 functions of `OtherLists` in the same way, with connections of three tables and every kind, and more processes than EnumProcesses has room for |
| `maps` | ReportedWhole, LastReported | every file of up to seven lines |
| `maps_all` | EveryMappingReported (violated) | see the findings |
| `net` | TypeOK, ListedRight, MissedWhenFull | every kind of connection, for the system and for a process, with sockets that come and go, files that cannot be opened and arrays that fill |
| `net_own` | OwnConnectionsListed (violated) | see the findings |
| `answers` | VectorInBounds, VectorOfText, VectorComplete, NoStrays (`StringVector`), PercentInRange, PercentIsShare (`CpuTimes`), AffinityListed, AffinityAsSet, NiceKept, TerminalHonest, NothingUnset, BootTimeRight, FiletimeRight | texts of every shape; percentages of two samples that fail, are equal or wrap; affinity while CPUs go offline; nice values set and restored; two holders of the terminal's name; calls before, during and after psutil_init; the time of the start while the clock is set and system calls fail. Each property names the cases in which the code falls short of what one would expect, and shows that there are no others |

Each property of a passing run has a slip, a changed form of one definition kept next to it in the module, with which it fails.

### Bounds

- Processes: three, one of which is the program itself, on one pid next to the program's own. This is enough for a pid to be used, freed and used again, which is what a stale handle needs; a third user of the pid shows nothing that the second does not. `MaxExec = 1` lets a process change between two getters.
- Threads: one where only the table interferes, two for wait, where they compete for one child. `Calls` splits the functions over the runs, so that each run has those that act on each other.
- Timeouts: none, 0, and 15 ms, which is between one and two intervals of 10 ms (5 ms in `liveness`). `liveness` leaves out macOS, whose loop is that of Linux, and the BSDs, whose calls are one step.
- Lists: three or four entries, arrays of one element to begin with in place of 1024, 64 and 16, so that they grow twice; one entry that the filter drops; two places in place of 1024 for EnumProcesses, so that three processes are too many.
- Answers: four strings and two that memory holds behind them are enough for an empty string first, in the middle and last, for strings that did not fit into the buffer, and for counting more or fewer than are copied. Two CPUs for three ticks, with a counter of macOS that wraps at 7 in place of 2^32; three CPUs for affinity, the fewest with one online above one that is not. Nice values are the six of Windows, their neighbours and some out of range. Three parts of a second, FILETIMEs of 6 bits, an epoch of 20, a tick count that wraps at 5: each larger than one step and smaller than the run. psutil_init is called twice.
- Maps: seven lines hold a mapping with all its numbers, or one whose header comes in up to seven pieces; shorter ones come in twos and threes. Longer files repeat the same steps.
- Connections: two sockets in tcp and in udp, one in tcp6, arrays of two and of one in place of 256 and 64, two inodes in place of 512. One socket has as many bytes to send as the inode of another.

Deadlock is checked for lists, answers and connections, whose calls always come to an end. It is not checked for processes, where all the processes a run allows may be gone, nor for maps, which model one call.

### Fairness

`liveness` uses `FairPlatformSpec`: weak fairness of `GoesOn(c)` for each thread, since a thread that is in a call goes on executing and none of the system calls concerned waits for anything but a child (on Windows, a process); and weak fairness of the exit of a process that SIGKILL was delivered to, which the kernel guarantees. Nothing is assumed of other processes: they need not exit, and zombies whose parent is not the program need never be reaped. The interruption of a blocked waitpid is not fair either: it may never happen.

## Proofs

All theorems hold for every value of the constants that the modules' ASSUMEs allow: any sets of threads, pids, processes, entries and timeouts, finite or not. tlapm checks every step.

`LinuxProcess_proofs`, about `Spec` of `LinuxProcess`, which is what `Platforms` runs when the platform is Linux:

- **TypeCorrect**: `Spec => []TypeOK`.
- **HandlesKeepIdentity** and **StringsStayLent**, from the inductive invariant `TypeOK /\ CallsSound`. Neither property is inductive. That a handle is about one process needs that two entries of the table never share a pid (`PidUnique`), that the process of a handle, once born, keeps the handle's pid (`HandleSound`), and that an open file belongs to a process that carried that pid (`FileSound`): a file opened before the pid was used again is the way by which a wrong process could enter the cache. `LentSound` ties each string handed out to the field that holds it.
- **WaitStaysBounded**, from `TypeOK` and what each place of the polling loop knows of `elapsed` and `limit` (`WaitSound`).

`LinuxLists_proofs`, from one inductive invariant, whose parts are in the module itself under "Why they hold": `Places` (what each place of the code relies on), `Fits` (in the second pass the array has an element for everything that was counted, and disk_partitions one more), `Ordered` (what is stored goes upwards and is not beyond the cursor), `Gathered` (what has been passed by the cursor, was there all along and is wanted, is stored or was refused) and `NumbersRead` (an element without numbers belongs to an entry that was not there all along):

- **ListsTyped**, **WritesStayInBounds**, **NothingListedTwice** for all six functions.
- **NothingStaysHeld**: no function but process_get_threads, whose leak is described below, leaves a file or a directory open, from `ClosedAgain`.
- **NumbersMissingWhenGone**: HalfReadIsGone, about the threads whose file could not be read and the interfaces of net_if_stats that are gone when they are asked for.
- **MissedOnlyForNewcomers**: MissedForNewcomers. It is a statement about how many: the functions that count first have counted all that was there from the beginning, so that, when one of these is missing at the end, the array is full, and it then lists at least one that came later. The proof follows the counter against the cardinality of what was there all along.
- **ListsKeepPromise**: `Spec => PromiseKept`, for all six. Each action maps to one of `Listing`, or to a stutter: a successful beginning to Start, a refused one to Deny, `PassOver` to Refuse, the end to Finish or Fail.

`OtherLists_proofs` proves the same of the 41 functions of `OtherLists`, for every finite set of entries, filter, size of the array, and assignment of connections to tables. The inductive invariant stands in `OtherLists` under "Why they hold". Besides what the places know (`Begun`, `Known`) it has a part for each way of obtaining a list, because each stays in its array for another reason: `OnePerEntry` for a picture (no more elements than entries of the picture that have been looked at), `OnePerIndex` for those that ask index by index, `CountedEnough` for two passes, `InTables` for the connections, whose cursor is in one table at a time. `Fits`, `Distinct`, `Listed` and `HalfExcused` are what the four have in common. Each step of `ListSteps` is proved once to keep the parts, whatever function takes it; a lemma for each function then names the steps it is made of.

- **ListsTyped**, **ListsInBounds**, **ListsOnce**, **ListsCounted**, **ListsHalvesExplained**: TypeOK, InBounds, NoneTwice, LengthIsWritten and HalfHasReason.
- **ListsLeaveNothing**: NothingLeft, from `Held`, which says for each function and place what it may hold.
- **ListFunctionsKeepPromise**: `Spec => PromiseKept`.

`LinuxNet_proofs`, for any sockets and any sizes of the arrays, two lines of one file never being in the same place:

- **ConnectionsTyped** and **ConnectionsListedRight**, from `NetInv`: what is stored was there, is of a file that the kind names, has been passed (`Passed`: it is in an earlier file, or not beyond the cursor in this one), and is stored once.
- **ConnectionsMissedWhenFull**, from `NoneDropped`: of what has been passed, nothing over IPv4 is lost while there is room.

`LinuxMaps_proofs`, for files of any length, any paths and any numbers:

- **MapsReportedWhole** and **LastMappingReported**, from `MapsInv`: after each line, what has been built is what the lines read so far say of the mapping that began last (`Follows`), or nothing if one of the further pieces of its header looked like an address (`CutAt`, which stays so until the next header), and nothing is saved before the end of the file. As a key stands in a mapping once at most, which is part of the invariant (`Sorted`), a number is that of one line and no sum over the file is needed.

`Answers_proofs`, about `Spec` of `Answers`. A step of `Answers` is one of a single part (`PartSteps`), and each part has invariants of its own:

- **StringsTyped** and **VectorStaysInBounds**, for texts of any length and any memory behind them, from `VectorInv`: the types and `CopyBounded`, which says for each platform what bounds the number of elements stored. It is needed because the loop that copies is not bounded by what was counted: on the BSDs the bound is the number of strings that still follow in the text.
- **StringsLoseNothing**, from that and `HeldStored`: every copy made is in an element of the array.
- **AnswersAreOfText** and **AnswersAreComplete**: VectorOfText and VectorComplete, from `Followed`: each element stands for one string that has been passed, in the order of the text (`StandsFor`), and each string that has been passed has an element or was passed over for a reason (`PassedOver`). That a string with foreign memory behind it is in an answer of the BSDs only if another is empty takes the count (`OverrunOverwritten`): it is the last one, and without an empty string all that were counted precede it, so that its element is that of the NULL at the end.
- **TerminalsHonest**, for any number of holders and any devices, from `WritesAlone` (while somebody has the array undisturbed, nobody else writes it), `HoldsOwnName` (whoever wrote last finds the name of his own device) and `HasReason`.
- **NicenessKept**, for all integers, from `NiceInv`: the priority is one that the last wish leads to, and what was read is the number of a priority. The rest is the two tables of Windows: to map a class to a number and back gives the class (`set_nice` after `get_nice`).
- **NothingUnsetIsUsed**, for any calls, from `StartInv`: during the first psutil_init exactly a beginning of the pointers is loaded, so that, once it has answered 0, all that is not optional is there; and a pointer found by a call in progress stays, as nothing but a second psutil_init takes one away.
- **BootTimesRight** and **FiletimesRight**, for any time of the start and any length of a run, from `ClockInv`: what is read first belongs to the time at which it was read, and what Android keeps is near the time of the start. The bound of less than two seconds is the difference of a time rounded down and one rounded up (`DifferenceOfSeconds`). They need that no time exceeds what a FILETIME can hold.
- **AffinitiesListed** and **AffinitiesAsSet**, for any number of CPUs, from `AffinityInv`. What it takes is that, if Linux counts fewer CPUs than the number of one, a CPU with a number as low was offline at that moment: a count of the CPUs online against their numbers.
- **PercentsInRange** and **PercentsAreShares**, for any number of CPUs and ticks, from `CpuInv`: during the sleep the sum of the counters has grown by one for each CPU and tick, and the first sample is what they were. Then what a counter of 32 bits gives after it has wrapped is still the difference, as long as a whole turn is longer than the run.

`LinuxAnswers_proofs`, about `PlatformSpec` with `Platform \subseteq {"linux"}`, in which it is `Spec` (`LinuxOnly`):

- **LinuxGettersWitnessed**, **LinuxStatusWitnessed**, **LinuxRunningWitnessed**, **LinuxWaitWitnessed**: what is answered was so at some moment of the call. The invariant is `Answered`: each answer was true when it was given (`SaysTrue`), and an exit that was reported stays collected. That an answer was true needs what the call in progress has seen (`Watched`): a file whose process is gone was open at a moment when the pid was free (`FileSound`), and whoever has slept in the polling loop has seen the child alive (`WaitSound`).

`Handles_proofs`, about `PlatformSpec` with any set of platforms:

- **TypeCorrectEverywhere**, **HandlesKeepIdentityEverywhere**, **StringsStayLentEverywhere**, from `TypeOK /\ CallsSound /\ NewSound`: the invariant of `LinuxProcess`, which the steps of the other platforms keep as well, and that nothing is lent while process_new still reads (`NewSound`), since what it stores then replaces what is in the fields. Steps that are those of Linux are not proved again: each platform's action is shown to be one of Linux, to end a call (`Ends`), to fill, replace or store a field, to open the pid, or to strike it.
- **ExitReportedOnce**: `PlatformSpec => []OneWaitPerExit`, from `ReportInv`: a process whose exit has been reported has left the table for good (`Reported`), so that nobody can collect it again.

What the proofs assume of the constants, beyond their kind, is what the code or the system gives: finitely many entries of a source, in places of their own; at least one CPU, and at least one element in every array; a program that calls no other functions than those modelled (`CallsOf`, `Vectors`); a counter that does not turn twice during a run; times that a FILETIME can hold.

The proofs have changed the models where these were wrong or could not be reasoned about. The tables of `Niceness` were CASE expressions with guards that overlapped, which in TLA+ means any of the branches and not the first, as the `if ... else if` of the code does; their guards are now disjoint. `ConnectionTables` took a whole table in one step, and now goes row by row. `LinuxMaps` compared with sums over the lines of a file, where one line has the number.

Only model-checked are:

- CallsReturn and KilledWaitReturns: liveness under fairness, which is out of the prover's reach.
- GetterWitnessed, StatusWitnessed, RunningWitnessed and WaitWitnessed for the platforms other than Linux.

## Findings

1. **process_get_memory_maps** (line 1051): `index > 0` guards the saving of the previous entry, and index grows only there and at the end of the file; so only the last mapping is ever returned.
2. **process_get_net_connections** (line 1676): the column of the bytes to send is read as the inode, so that a process's connections are not found.
3. **process_is_running on macOS** (`psutil_macos.c` 912): waitpid answers only for children of the program, so the function says 0 for every other process that runs; and it collects a child that has exited, so that a later process_wait answers -1.

Not runs of their own, but visible in what the properties have to leave out:

- When a thread exits between the opening and the reading of its file, process_get_threads (line 896) counts its element with times that were never assigned and does not close the file; see HalfReadIsGone and NothingHeld.
- net_connections never parses a line with IPv6 addresses (line 1676), so MissedWhenFull is about IPv4 only.
- get_status reports STATUS_RUNNING for a process that it cannot read (lines 287-289, and the same on macOS, the BSDs and Android), and the BSDs report a stopped process as sleeping (`psutil_bsd.c` 271-273); see StatusWitnessed.
- On the BSDs, getters free the string they returned before (`psutil_bsd.c` 163-165), so a string is lent there only until the same getter is called again; see LentStringsLive. And process_wait answers -1 for a child that runs (line 771), as it does on Android after a timeout (`psutil_android.c` 1056). See WaitWitnessed.
- A command line or an environment that does not fit into the buffer is cut, and the answer is a success: lines 227-228 and 728-729 (4095 bytes), `psutil_android.c` 282 and 675, and the environment of Windows. See VectorComplete.
- A last string without its NUL is copied from a buffer without one: `psutil_bsd.c` 243 and 565, `psutil_macos.c` 277, and the environment block of Windows. See VectorOfText.
- boot_time of Linux and Android (line 2206, `psutil_android.c` 1428) is early by up to two seconds, and is 0.0 on every platform but Windows if the system call fails. See BootTimeRight.
- On the BSDs and Android process_is_running counts zombies, on Linux it does not. See RunningWitnessed.
- On Android process_get_create_time answers 0.0 for ever if process_new could not read it (line 436). See GetterWitnessed. Also, get_status is defined twice (lines 331 and 367), which does not compile; the second definition is modelled.

## Not modelled

- Memory, swap, disk usage, CPU counts and CPU statistics, and of a process memory_info, cpu_num, uids, gids, ionice and io_counters: one read of one source, without state. What could be wrong is the layout of a text or a unit, which a test on one machine shows. (One thing was seen while reading: get_ionice of Linux drops the level within the class.)
- How Windows finds the command line and the environment in the memory of the other process: one step.
- On Windows, exit code 259 (STILL_ACTIVE), and how often a process has been suspended.
- Timeouts between 0 and one millisecond on Android.
- Masks of more than one word, processor groups, and the argument percpu, which no platform uses.
- Dispatch: decided by the preprocessor; what `Platforms` composes stands for it. The fallbacks for an unknown platform are left out.
- The contents of strings, addresses and times; floating-point rounding. In particular a path in smaps of which a further piece imitates a whole header, or the line of a number; and that time() may lag behind the clock by a tick of the kernel, which makes the answer of a call that comes within that tick early by a second more.
- Two threads that use one handle at once: a data race on every field, which psutil.h does not allow for. (Two that hold the static array of the terminal are modelled: nothing in psutil.h says that it is shared.)

## Plan

Done are the process functions, the lists and the single answers of all platforms. What would come next:

1. Theorems: the witnesses of the answers on every platform, along the invariants of `LinuxAnswers_proofs` and `Handles_proofs`.
2. An abstract specification of wait (one exit, one report, one deadline) that Linux, macOS and Windows implement, and the proof of it.
