----------------------------- MODULE MCLinuxNet -----------------------------
(***************************************************************************)
(* LinuxNet with five sockets and arrays of two and one elements.  One     *)
(* socket has as many bytes to send as another one's inode.                *)
(***************************************************************************)
EXTENDS LinuxNet

At(file, line, inode, queue, ours) ==
  [table |-> file, at |-> line, inode |-> inode, queue |-> queue, ours |-> ours]

Sockets == {
  At("tcp", 1, 11, 0, TRUE), At("tcp", 2, 12, 11, FALSE),
  At("tcp6", 1, 13, 0, TRUE),
  At("udp", 1, 14, 0, TRUE), At("udp", 2, 15, 14, FALSE) }
=============================================================================
