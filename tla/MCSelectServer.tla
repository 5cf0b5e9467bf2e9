---------------------------- MODULE MCSelectServer ----------------------------
(* SelectServer for TLC: two table entries and four descriptors.           *)
EXTENDS SelectServer
=============================================================================
