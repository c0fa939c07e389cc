------------------------------ MODULE Workflow ------------------------------
(***************************************************************************)
(* The life of one workflow under any sequence of commands: the abstract   *)
(* specification of what the stored row may do.  Service.tla is checked    *)
(* against it.                                                             *)
(***************************************************************************)
EXTENDS Machine

CONSTANTS
  InitialBudgets,      \* the values of max_repair_cycles a run may start with
  Extensions,          \* additionalCycles a resume_blocked may carry
  BudgetBound          \* bound: the largest budget resume_blocked may grant

(* config.ts accepts only integers of at least one.                        *)
ASSUME BudgetAssumption ==
  /\ InitialBudgets \subseteq Nat \ {0}
  /\ Extensions \subseteq Nat \ {0}
  /\ BudgetBound \in Nat

VARIABLE workflow

vars == workflow

Init == \E budget \in InitialBudgets : workflow = newWorkflow(budget)

Start == \/ CompleteIntake(workflow, workflow')
         \/ \E mode \in Modes : Route(workflow, workflow', mode)

Build == \/ ArchitectureAccepted(workflow, workflow')
         \/ \E c \in Candidates : CandidateReady(workflow, workflow', c)

Judge ==
  \/ VerificationPassed(workflow, workflow')
  \/ ReviewsReady(workflow, workflow')
  \/ \E passed \in BOOLEAN : Approve(workflow, workflow', passed)
  \/ Deliver(workflow, workflow')

Fail ==
  \E target \in RepairTargets :
    \/ VerificationFailed(workflow, workflow', target)
    \/ ExecutionFailed(workflow, workflow', target)
    \/ Reject(workflow, workflow', target)

Repair == BeginRepair(workflow, workflow')

Extend ==
  \E n \in Extensions :
    /\ workflow.maxRepairCycles + n <= BudgetBound
    /\ ResumeBlocked(workflow, workflow', n)

PlanDefect == Replan(workflow, workflow')

Control ==
  \/ Pause(workflow, workflow')
  \/ Resume(workflow, workflow')
  \/ Cancel(workflow, workflow')

Next == Start \/ Build \/ Judge \/ Fail \/ Repair \/ Extend \/ PlanDefect
          \/ Control

Spec == Init /\ [][Next]_vars

(* The run loop of skills/run keeps issuing the next command of the        *)
(* workflow; nothing obliges anyone to pause, cancel, replan or retry.     *)
Progress == Start \/ Build \/ Judge \/ Fail \/ Repair

FairSpec == Spec /\ WF_vars(Progress) /\ WF_vars(Resume(workflow, workflow'))

-----------------------------------------------------------------------------
(* Where the work stands: a paused workflow stands where it was paused.    *)
Standing == IF workflow.state = "paused" THEN workflow.pausedFrom
                                         ELSE workflow.state

Unbuilt == {"intake", "routing", "quick_execution", "architecture", "execution"}
Judged  == {"verification", "independent_reviews", "arbitration", "delivery",
            "completed"}

(* Every stored record has the shape machine.ts declares.                  *)
TypeOK == workflow \in Record

(* A workflow being judged has a candidate and one still being built has   *)
(* none, so the `no_candidate` refusals of apply are never met by a        *)
(* command issued in its own state, and no verdict can be passed on the    *)
(* candidate a repair replaced.                                            *)
CandidateMatchesState ==
  /\ Standing \in Judged  => workflow.candidateId # Null
  /\ Standing \in Unbuilt => workflow.candidateId = Null

(* reject and resume_blocked keep the budget exact: a workflow that may    *)
(* still proceed has a cycle left to spend, and a blocked one has spent    *)
(* precisely its budget, so one retry buys exactly one more attempt.       *)
BudgetIsExact ==
  /\ workflow.state \notin {"blocked", "cancelled"} =>
       workflow.repairCycles < workflow.maxRepairCycles
  /\ workflow.state = "blocked" =>
       workflow.repairCycles = workflow.maxRepairCycles

(* Pausing and blocking can always be undone: a paused workflow knows a    *)
(* resumable state to return to, and a workflow waiting for repair knows   *)
(* what to repair, so resume never throws and begin_repair never reports   *)
(* no_repair_target.                                                       *)
WayBackKnown ==
  /\ workflow.state = "paused" <=> workflow.pausedFrom # Null
  /\ workflow.pausedFrom \notin UNPAUSABLE
  /\ Standing \in {"repair", "blocked"} <=>
       /\ workflow.repairTarget # Null
       /\ workflow.state # "cancelled"
  /\ workflow.blockedFrom # Null => workflow.state \in {"blocked", "cancelled"}
  /\ workflow.state = "blocked" =>
       workflow.blockedFrom \in {"execution", "quick_execution",
                                 "verification", "arbitration"}

(* The route is chosen once and respected: no workflow is judged without a *)
(* mode, the quick route never waits for reviewers and only the quick      *)
(* route executes without a plan.                                          *)
RouteRespected ==
  /\ workflow.mode = Null /\ workflow.state # "cancelled" =>
       Standing \in {"intake", "routing"}
  /\ Standing = "independent_reviews" => workflow.mode = "full"
  /\ Standing = "quick_execution"     => workflow.mode = "quick"

(* The frozen candidate is replaced only by a repair that begins with no   *)
(* candidate at all: no command swaps the candidate under a judgement.     *)
CandidateNeverSwapped ==
  [][workflow.candidateId # Null /\ workflow'.candidateId # workflow.candidateId
       => workflow.state = "repair" /\ workflow'.candidateId = Null]_vars

(* A terminal workflow accepts no command.                                 *)
TerminalIsFinal == [][~isTerminal(workflow)]_vars

(* Without replans, pauses and retries the repair loop must end: every     *)
(* way back to execution spends a cycle of a budget that is not extended.  *)
RepairLoopEnds ==
  \/ []<><<PlanDefect \/ Control>>_vars
  \/ <>(workflow.state \in {"completed", "cancelled", "blocked"})

=============================================================================
