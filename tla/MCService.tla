------------------------------ MODULE MCService -----------------------------
(***************************************************************************)
(* Service for TLC.  MCService.cfg has two candidates, so that a repair    *)
(* can replace the first while a call of it is still in flight;            *)
(* MCServiceCalls.cfg has two calls that race over one candidate and       *)
(* crashes of the plane between and inside the handlers.                   *)
(***************************************************************************)
EXTENDS Service, TLC

MCSymmetry == Permutations(Candidates) \cup Permutations(Roles)
=============================================================================
