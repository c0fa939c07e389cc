------------------------------ MODULE Machine -------------------------------
(***************************************************************************)
(* The workflow state machine of the control plane (workflow/machine.ts).  *)
(*                                                                         *)
(* `apply(workflow, command)` is a pure function of a stored record and a  *)
(* command; it returns the next record or throws.  Every command is a      *)
(* relation C(w, v) here: it holds when `apply` accepts the command in the *)
(* record w and returns v.  A command that throws relates w to nothing.    *)
(* The relation form lets the service model apply a command to the record  *)
(* a request loaded before it awaited, which need not be the stored one.   *)
(***************************************************************************)
EXTENDS Integers

CONSTANT Candidates    \* identifiers freeze_candidate may mint

Null == "null"

ASSUME CandidateAssumption == Null \notin Candidates

States ==
  {"intake", "routing", "quick_execution", "architecture", "execution",
   "verification", "independent_reviews", "arbitration", "delivery",
   "repair", "paused", "blocked", "completed", "cancelled"}

TERMINAL == {"cancelled", "completed"}

UNPAUSABLE ==
  {"blocked", "cancelled", "completed", "delivery", "paused", "verification"}

Modes == {"full", "quick"}
RepairTargets == {"architecture", "execution"}

Record ==
  [state           : States,
   mode            : Modes \cup {Null},
   candidateId     : Candidates \cup {Null},
   pausedFrom      : States \cup {Null},
   blockedFrom     : States \cup {Null},
   repairTarget    : RepairTargets \cup {Null},
   repairCycles    : Nat,
   maxRepairCycles : Nat]

newWorkflow(budget) ==
  [state |-> "intake", mode |-> Null, candidateId |-> Null,
   pausedFrom |-> Null, blockedFrom |-> Null, repairTarget |-> Null,
   repairCycles |-> 0, maxRepairCycles |-> budget]

isTerminal(w) == w.state \in TERMINAL

-----------------------------------------------------------------------------
(* The commands.                                                           *)

CompleteIntake(w, v) ==
  /\ w.state = "intake"
  /\ v = [w EXCEPT !.state = "routing"]

Route(w, v, mode) ==
  /\ w.state = "routing"
  /\ v = [w EXCEPT !.mode = mode,
                   !.state = IF mode = "quick" THEN "quick_execution"
                                               ELSE "architecture"]

ArchitectureAccepted(w, v) ==
  /\ w.state = "architecture"
  /\ v = [w EXCEPT !.state = "execution"]

(* Mutant: a second freeze accepted while the first is being verified.     *)
CandidateReady_refreeze(w, v, candidateId) ==
  /\ w.state \in {"execution", "quick_execution", "verification"}
  /\ v = [w EXCEPT !.candidateId = candidateId, !.state = "verification"]

CandidateReady(w, v, candidateId) ==
  /\ w.state \in {"execution", "quick_execution"}
  /\ v = [w EXCEPT !.candidateId = candidateId, !.state = "verification"]

(* Mutant: the routes of the two modes swapped.                            *)
VerificationPassed_swapped(w, v) ==
  /\ w.state = "verification" /\ w.candidateId # Null /\ w.mode # Null
  /\ v = [w EXCEPT !.state = IF w.mode = "quick" THEN "independent_reviews"
                                                 ELSE "arbitration"]

VerificationPassed(w, v) ==
  /\ w.state = "verification"
  /\ w.candidateId # Null
  /\ w.mode # Null
  /\ v = [w EXCEPT !.state = IF w.mode = "full" THEN "independent_reviews"
                                                ELSE "arbitration"]

(* Mutant: the budget compared with > grants one repair too many.          *)
Rejected_offByOne(w, v, target) ==
  LET exhausted == w.repairCycles + 1 > w.maxRepairCycles IN
  v = [w EXCEPT !.repairCycles = @ + 1, !.repairTarget = target,
                !.blockedFrom = IF exhausted THEN w.state ELSE @,
                !.state = IF exhausted THEN "blocked" ELSE "repair"]

(* `reject`: a failure costs a repair cycle, and the failure that spends   *)
(* the last one blocks the workflow where it stands.                       *)
Rejected(w, v, target) ==
  LET exhausted == w.repairCycles + 1 >= w.maxRepairCycles IN
  v = [w EXCEPT !.repairCycles = @ + 1,
                !.repairTarget = target,
                !.blockedFrom = IF exhausted THEN w.state ELSE @,
                !.state = IF exhausted THEN "blocked" ELSE "repair"]

VerificationFailed(w, v, target) ==
  /\ w.state = "verification"
  /\ w.candidateId # Null
  /\ Rejected(w, v, target)

(* Mutant: a failure before any candidate exists costs nothing.            *)
ExecutionFailed_free(w, v, target) ==
  /\ w.state \in {"execution", "quick_execution"}
  /\ v = [w EXCEPT !.repairTarget = target, !.state = "repair"]

ExecutionFailed(w, v, target) ==
  /\ w.state \in {"execution", "quick_execution"}
  /\ Rejected(w, v, target)

ReviewsReady(w, v) ==
  /\ w.state = "independent_reviews"
  /\ v = [w EXCEPT !.state = "arbitration"]

Approve(w, v, mandatoryGatesPassed) ==
  /\ w.state = "arbitration"
  /\ w.candidateId # Null
  /\ mandatoryGatesPassed
  /\ v = [w EXCEPT !.state = "delivery"]

Reject(w, v, target) ==
  /\ w.state = "arbitration"
  /\ w.candidateId # Null
  /\ Rejected(w, v, target)

Deliver(w, v) ==
  /\ w.state = "delivery"
  /\ w.candidateId # Null
  /\ v = [w EXCEPT !.state = "completed"]

(* Mutant: the repair keeps the rejected candidate.                        *)
BeginRepair_keeps(w, v) ==
  /\ w.state = "repair" /\ w.repairTarget # Null
  /\ v = [w EXCEPT !.repairTarget = Null, !.state = w.repairTarget]

BeginRepair(w, v) ==
  /\ w.state = "repair"
  /\ w.repairTarget # Null
  /\ v = [w EXCEPT !.candidateId = Null,
                   !.repairTarget = Null,
                   !.state = w.repairTarget]

Replan(w, v) ==
  /\ w.state = "execution"
  /\ v = [w EXCEPT !.state = "architecture"]

Pause(w, v) ==
  /\ w.state \notin UNPAUSABLE
  /\ v = [w EXCEPT !.pausedFrom = w.state, !.state = "paused"]

Resume(w, v) ==
  /\ w.state = "paused"
  /\ w.pausedFrom # Null
  /\ v = [w EXCEPT !.pausedFrom = Null, !.state = w.pausedFrom]

ResumeBlocked(w, v, additionalCycles) ==
  /\ w.state = "blocked"
  /\ additionalCycles >= 1
  /\ v = [w EXCEPT !.blockedFrom = Null,
                   !.maxRepairCycles = @ + additionalCycles,
                   !.state = "repair"]

(* Mutants: a misspelt state, a missing reset.                             *)
Cancel_misspelt(w, v) ==
  ~isTerminal(w) /\ v = [w EXCEPT !.pausedFrom = Null, !.state = "canceled"]
Cancel_keeps(w, v) == ~isTerminal(w) /\ v = [w EXCEPT !.state = "cancelled"]

Cancel(w, v) ==
  /\ ~isTerminal(w)
  /\ v = [w EXCEPT !.pausedFrom = Null, !.state = "cancelled"]

=============================================================================
