---------------------------- MODULE MCSshChannel ----------------------------
(***************************************************************************)
(* Small instances of SshChannel.  The first write is longer than a packet *)
(* and than the window, so it waits for credit in the middle, and the      *)
(* second finds a window smaller than itself.                              *)
(***************************************************************************)
EXTENDS SshChannel

TwoWrites == <<3, 2>>
=============================================================================
