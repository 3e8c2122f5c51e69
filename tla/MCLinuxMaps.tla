----------------------------- MODULE MCLinuxMaps -----------------------------
(***************************************************************************)
(* LinuxMaps on small files: two paths, and enough lines for a mapping     *)
(* with all its numbers and one before or after it.                        *)
(***************************************************************************)
EXTENDS LinuxMaps
=============================================================================
