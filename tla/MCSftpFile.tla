----------------------------- MODULE MCSftpFile -----------------------------
(***************************************************************************)
(* Small instances of SftpFile.                                            *)
(***************************************************************************)
EXTENDS SftpFile
=============================================================================
