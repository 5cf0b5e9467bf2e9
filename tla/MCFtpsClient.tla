----------------------------- MODULE MCFtpsClient -----------------------------
(* FtpsClient for TLC: a file of three pieces, up to two split replies.    *)
EXTENDS FtpsClient
=============================================================================
