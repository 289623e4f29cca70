---------------------------- MODULE MCDhcpServer ----------------------------
(* Small instances of DhcpServer for TLC.                                  *)
EXTENDS DhcpServer
=============================================================================
