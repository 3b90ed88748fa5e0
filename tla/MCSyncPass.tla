----------------------------- MODULE MCSyncPass -----------------------------
(* Instances of SyncPass for TLC.                                          *)
EXTENDS SyncPass, TLC

Symmetric == Permutations(Tickets) \cup Permutations(Runs)

=============================================================================
