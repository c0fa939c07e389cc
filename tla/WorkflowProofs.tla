--------------------------- MODULE WorkflowProofs ---------------------------
(***************************************************************************)
(* Proofs about the workflow machine, for every set of candidates, every   *)
(* initial budget and every bound on its extension.                        *)
(***************************************************************************)
EXTENDS Workflow, TLAPS

(* No conjunct is inductive alone: a rejection leaves a repair target only *)
(* because the machine is well typed, resume returns to a state whose      *)
(* candidate is right only because pausedFrom is a pausable state, and     *)
(* verification_passed finds a mode only because the route was respected.  *)
IInv ==
  /\ TypeOK
  /\ CandidateMatchesState
  /\ BudgetIsExact
  /\ WayBackKnown
  /\ RouteRespected

USE DEF Null

(* newWorkflow satisfies every part of the invariant.                      *)
LEMMA InitIInv == Init => IInv
  <1> SUFFICES ASSUME NEW budget \in InitialBudgets,
                      workflow = newWorkflow(budget)
               PROVE  IInv
    BY DEF Init
  <1>1. budget \in Nat /\ budget > 0
    BY BudgetAssumption
  <1> QED
    BY <1>1 DEF IInv, newWorkflow, TypeOK, Record, States, Modes,
                RepairTargets, CandidateMatchesState, BudgetIsExact,
                WayBackKnown, RouteRespected, Standing, Judged, Unbuilt,
                UNPAUSABLE

(* Every command of apply preserves the invariant.                         *)
LEMMA NextIInv == IInv /\ [Next]_vars => IInv'
  <1> SUFFICES ASSUME IInv, [Next]_vars
               PROVE  IInv'
    OBVIOUS
  <1> USE CandidateAssumption
      DEF IInv, TypeOK, Record, States, Modes, RepairTargets,
          CandidateMatchesState, BudgetIsExact, WayBackKnown, RouteRespected,
          Standing, Judged, Unbuilt, UNPAUSABLE
  <1>1. CASE Start
    <2>1. CASE CompleteIntake(workflow, workflow')
      BY <2>1 DEF CompleteIntake
    <2>2. ASSUME NEW mode \in Modes, Route(workflow, workflow', mode)
          PROVE  IInv'
      BY <2>2 DEF Route
    <2> QED
      BY <1>1, <2>1, <2>2 DEF Start
  <1>2. CASE Build
    <2>1. CASE ArchitectureAccepted(workflow, workflow')
      BY <2>1 DEF ArchitectureAccepted
    <2>2. ASSUME NEW c \in Candidates, CandidateReady(workflow, workflow', c)
          PROVE  IInv'
      BY <2>2 DEF CandidateReady
    <2> QED
      BY <1>2, <2>1, <2>2 DEF Build
  <1>3. CASE Judge
    <2>1. CASE VerificationPassed(workflow, workflow')
      BY <2>1 DEF VerificationPassed
    <2>2. CASE ReviewsReady(workflow, workflow')
      BY <2>2 DEF ReviewsReady
    <2>3. CASE \E passed \in BOOLEAN : Approve(workflow, workflow', passed)
      BY <2>3 DEF Approve
    <2>4. CASE Deliver(workflow, workflow')
      BY <2>4 DEF Deliver
    <2> QED
      BY <1>3, <2>1, <2>2, <2>3, <2>4 DEF Judge
  <1>4. CASE Fail
    <2> SUFFICES ASSUME NEW target \in RepairTargets,
                        workflow.state \in {"verification", "execution",
                                            "quick_execution", "arbitration"},
                        Rejected(workflow, workflow', target)
                 PROVE  IInv'
      BY <1>4 DEF Fail, VerificationFailed, ExecutionFailed, Reject
    <2> DEFINE exhausted == workflow.repairCycles + 1 >= workflow.maxRepairCycles
    <2>1. /\ workflow'.repairCycles = workflow.repairCycles + 1
          /\ workflow'.maxRepairCycles = workflow.maxRepairCycles
          /\ workflow'.state = IF exhausted THEN "blocked" ELSE "repair"
          /\ workflow'.blockedFrom = IF exhausted THEN workflow.state
                                                  ELSE workflow.blockedFrom
          /\ workflow'.repairTarget = target
          /\ workflow'.pausedFrom = workflow.pausedFrom
          /\ workflow'.mode = workflow.mode
      BY DEF Rejected
    <2>2. TypeOK'
      <3>1. workflow.repairCycles + 1 \in Nat
        OBVIOUS
      <3>2. \A k \in Nat :
              [workflow EXCEPT !.repairCycles = k, !.repairTarget = target,
                 !.blockedFrom = IF exhausted THEN workflow.state ELSE @,
                 !.state = IF exhausted THEN "blocked" ELSE "repair"] \in Record
        OBVIOUS
      <3> HIDE DEF exhausted, Record
      <3>3. workflow' =
              [workflow EXCEPT !.repairCycles = workflow.repairCycles + 1,
                 !.repairTarget = target,
                 !.blockedFrom = IF exhausted THEN workflow.state ELSE @,
                 !.state = IF exhausted THEN "blocked" ELSE "repair"]
        BY DEF Rejected, exhausted
      <3> QED
        BY <3>1, <3>2, <3>3
    <2>3. BudgetIsExact'
      BY <2>1
    <2>4. CandidateMatchesState' /\ WayBackKnown' /\ RouteRespected'
      BY <2>1
    <2> QED
      BY <2>2, <2>3, <2>4
  <1>5. CASE Repair
    BY <1>5 DEF Repair, BeginRepair
  <1>6. CASE Extend
    <2> SUFFICES ASSUME NEW n \in Nat, n >= 1,
                        ResumeBlocked(workflow, workflow', n)
                 PROVE  IInv'
      BY <1>6, BudgetAssumption DEF Extend
    <2>1. /\ workflow.state = "blocked"
          /\ workflow'.state = "repair"
          /\ workflow'.maxRepairCycles = workflow.maxRepairCycles + n
          /\ workflow'.repairCycles = workflow.repairCycles
          /\ workflow'.blockedFrom = Null
          /\ workflow'.repairTarget = workflow.repairTarget
          /\ workflow'.pausedFrom = workflow.pausedFrom
          /\ workflow'.mode = workflow.mode
      BY DEF ResumeBlocked
    <2>2. TypeOK'
      <3>1. workflow.maxRepairCycles + n \in Nat
        OBVIOUS
      <3>2. \A k \in Nat : [workflow EXCEPT !.blockedFrom = Null,
                              !.maxRepairCycles = k, !.state = "repair"] \in Record
        OBVIOUS
      <3> QED
        BY <3>1, <3>2 DEF ResumeBlocked
    <2>3. BudgetIsExact'
      BY <2>1
    <2>4. CandidateMatchesState' /\ WayBackKnown' /\ RouteRespected'
      BY <2>1
    <2> QED
      BY <2>2, <2>3, <2>4
  <1>7. CASE PlanDefect
    BY <1>7 DEF PlanDefect, Replan
  <1>8. CASE Control
    <2>1. CASE Pause(workflow, workflow')
      BY <2>1 DEF Pause
    <2>2. CASE Resume(workflow, workflow')
      BY <2>2 DEF Resume
    <2>3. CASE Cancel(workflow, workflow')
      BY <2>3 DEF Cancel, isTerminal, TERMINAL
    <2> QED
      BY <1>8, <2>1, <2>2, <2>3 DEF Control
  <1>9. CASE UNCHANGED vars
    BY <1>9 DEF vars
  <1> QED
    BY <1>1, <1>2, <1>3, <1>4, <1>5, <1>6, <1>7, <1>8, <1>9 DEF Next

(* The inductive invariant holds of every behaviour of the machine.        *)
THEOREM Invariance == Spec => []IInv
  BY InitIInv, NextIInv, PTL DEF Spec

(* Every record the machine stores is well typed.                          *)
THEOREM TypeCorrect == Spec => []TypeOK
  BY Invariance, PTL DEF IInv

(* The candidate is there exactly when it is judged.                       *)
THEOREM CandidateCorrect == Spec => []CandidateMatchesState
  BY Invariance, PTL DEF IInv

(* The repair budget is never overspent and never cut short.               *)
THEOREM BudgetCorrect == Spec => []BudgetIsExact
  BY Invariance, PTL DEF IInv

(* Pausing and blocking never strand a workflow.                           *)
THEOREM WayBackCorrect == Spec => []WayBackKnown
  BY Invariance, PTL DEF IInv

(* The route chosen at the start decides which judges a candidate meets.   *)
THEOREM RouteCorrect == Spec => []RouteRespected
  BY Invariance, PTL DEF IInv

(* No command replaces the candidate under a judgement: the guards of      *)
(* candidate_ready admit only states in which the invariant says that      *)
(* there is no candidate.                                                  *)
THEOREM CandidateStable == Spec => CandidateNeverSwapped
  <1>1. IInv /\ [Next]_vars =>
          [workflow.candidateId # Null
             /\ workflow'.candidateId # workflow.candidateId
             => workflow.state = "repair" /\ workflow'.candidateId = Null]_vars
    <2> SUFFICES ASSUME IInv, Next, workflow'.candidateId # workflow.candidateId,
                        workflow.candidateId # Null
                 PROVE  workflow.state = "repair" /\ workflow'.candidateId = Null
      BY DEF vars
    <2>1. workflow.state \notin {"execution", "quick_execution"}
      BY DEF IInv, CandidateMatchesState, Standing, Unbuilt
    <2> QED
      BY <2>1 DEF IInv, TypeOK, Record, Next, Start, CompleteIntake, Route,
        Build, ArchitectureAccepted, CandidateReady, Judge, VerificationPassed,
        ReviewsReady, Approve, Deliver, Fail, VerificationFailed,
        ExecutionFailed, Reject, Rejected, Repair, BeginRepair, Extend,
        ResumeBlocked, PlanDefect, Replan, Control, Pause, Resume, Cancel
  <1> QED
    BY <1>1, Invariance, PTL DEF Spec, CandidateNeverSwapped

(* No command is accepted in a terminal state.                             *)
THEOREM TerminalStable == Spec => TerminalIsFinal
  <1>1. IInv /\ [Next]_vars => [~isTerminal(workflow)]_vars
    <2> SUFFICES ASSUME IInv, Next
                 PROVE  workflow.state \notin {"cancelled", "completed"}
      BY DEF isTerminal, TERMINAL
    <2> QED
      BY DEF Next, Start, CompleteIntake, Route, Build, ArchitectureAccepted,
        CandidateReady, Judge, VerificationPassed, ReviewsReady, Approve,
        Deliver, Fail, VerificationFailed, ExecutionFailed, Reject, Repair,
        BeginRepair, Extend, ResumeBlocked, PlanDefect, Replan, Control, Pause,
        Resume, Cancel, isTerminal, TERMINAL, UNPAUSABLE
  <1> QED
    BY <1>1, Invariance, PTL DEF Spec, TerminalIsFinal

=============================================================================
