---------------------------- MODULE MCLinuxLists ----------------------------
(***************************************************************************)
(* LinuxLists on small instances: an array that begins with one element    *)
(* grows twice for three entries.                                          *)
(***************************************************************************)
EXTENDS LinuxLists, TLC
=============================================================================
