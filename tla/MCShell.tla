------------------------------- MODULE MCShell -------------------------------
(* Instances of Shell for TLC. *)
EXTENDS ShellProps, TLC

CONSTANTS p1, p2, p3, p4

MCPids == {p1, p2, p3, p4}
=============================================================================
