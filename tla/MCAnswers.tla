----------------------------- MODULE MCAnswers -----------------------------
(***************************************************************************)
(* Answers with every function of its parts, each part by itself.          *)
(***************************************************************************)
EXTENDS Answers, TLC

AllVectors ==
  LinuxVectors \cup BsdVectors \cup AndroidVectors
    \cup {"macos_cmdline", "windows_cmdline", "windows_environ"}

\* The six numbers that Windows can give, their neighbours, and some out of range.
SomeNiceValues == {-30, -20, -19, -15, -14, -10, -5, -1, 0, 1, 10, 15, 19, 20, 40}

\* Two consoles, and two other devices that have the number of the first.
Devices == {Named("tty", 1), Named("tty", 2), Named("pts", 1), Named("serial", 1)}

\* Each way of checking, and of not checking, what psutil_init sets.
AllCalls ==
  "windows" :> {"suspend", "users", "boot_time", "num_ctx_switches", "open_files",
                "ppid", "cmdline", "environ", "cpu_count"}
  @@ "android" :> {"cpu_times", "create_time"}
=============================================================================
