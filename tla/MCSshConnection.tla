-------------------------- MODULE MCSshConnection --------------------------
(***************************************************************************)
(* Small instances of SshConnection.                                       *)
(***************************************************************************)
EXTENDS SshConnection
=============================================================================
