----------------------------- MODULE MCDaemon -------------------------------
(* Two candidates, two designs and two interchangeable verification plans. *)
EXTENDS Daemon, TLC
MCCandidates == 1..2
MCDesigns    == 1..2
Interchangeable == Permutations(Plans)
=============================================================================
