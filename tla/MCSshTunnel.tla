---------------------------- MODULE MCSshTunnel ----------------------------
(* Small instances of SshTunnel for TLC; tokens are interchangeable, and so *)
(* are connections.                                                         *)
EXTENDS SshTunnel, TLC

Symmetry == Permutations(Tokens) \cup Permutations(Conns)
=============================================================================
