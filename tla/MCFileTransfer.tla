---------------------------- MODULE MCFileTransfer ----------------------------
(* FileTransfer for TLC: a file of a little over two chunks through a      *)
(* connection that holds less than a chunk and a half.                     *)
EXTENDS FileTransfer
=============================================================================
