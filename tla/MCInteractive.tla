---------------------------- MODULE MCInteractive ----------------------------
(* Instances of Interactive for TLC.  PTY ids and clients are drawn and    *)
(* compared, never ordered.                                                *)
EXTENDS Interactive, TLC

Interchangeable == Permutations(Pty) \cup Permutations(Client)
=============================================================================
