---------------------------- MODULE ServiceProofs ---------------------------
(***************************************************************************)
(* Proofs about the workflow tools, for every set of candidates, reviewers *)
(* and budgets, every number of calls in flight and every number of        *)
(* crashes.                                                                *)
(***************************************************************************)
EXTENDS Service, TLAPS

(* A record whose candidate was approved by everybody who had to approve.  *)
(* The evidence is that of a gate or of a capture: a security proof can    *)
(* take its row back, the others cannot.                                   *)
IsJudged(w) ==
  /\ w.candidateId \in frozen
  /\ arbitration[w.candidateId] = "approved"
  /\ w.mode = "full" => \A r \in Roles : reviews[w.candidateId][r] = "approved"
  /\ \E g \in {"scan", "flow"} : evidence[w.candidateId][g] # "absent"

(* A candidate is recorded before the row names it.                        *)
CandidateFrozen == row.candidateId # Null => row.candidateId \in frozen

(* A pause remembers a state that can be paused, and only while it lasts.  *)
PauseKnown(w) ==
  w.pausedFrom # Null => w.state = "paused" /\ w.pausedFrom \notin UNPAUSABLE

(* The row of a delivery, pending or done, was judged.                     *)
RowJudged ==
  row.state \in {"delivery", "completed"} =>
    row.candidateId # Null /\ IsJudged(row)

(* Once a promotion has loaded the row, the row can only be completed or   *)
(* cancelled: what was loaded stays judged.                                *)
PromotionInv ==
  \A k \in Calls : call[k].op = "promote" =>
    LET loaded == call[k].loaded IN
    /\ loaded.state = "delivery" /\ loaded.pausedFrom = Null
    /\ loaded.candidateId # Null /\ IsJudged(loaded)
    /\ \E to \in {"delivery", "completed", "cancelled"} :
         row = [loaded EXCEPT !.state = to]

(* Only a demonstrated vulnerability is recorded under "proof".            *)
EvidenceInv == \A c \in Candidates : evidence[c].proof # "passed"

(* Nothing is inductive alone.  A delivery is judged when it opens because *)
(* the arbiter read the tables of the candidate the row names, which must  *)
(* be a recorded one; it stays judged because no handler can touch those   *)
(* tables afterwards, and a promotion that stores the row it loaded can    *)
(* find that row only completed or cancelled.                              *)
IInv ==
  /\ TypeOK
  /\ CandidateFrozen /\ PauseKnown(row) /\ RowJudged
  /\ PromotionInv /\ EvidenceInv

USE CandidateAssumption, ServiceAssumption
    DEF Null, tables, Gates, EvidenceStates, Verdicts, Idle, UNPAUSABLE,
        Modes, RepairTargets

(* What a rejection makes of a record.                                     *)
LEMMA RejectedTyped ==
  ASSUME NEW w \in Record, w.pausedFrom = Null, NEW t \in RepairTargets, NEW v,
         Rejected(w, v, t)
  PROVE  /\ v \in Record /\ v.pausedFrom = Null
         /\ v.candidateId = w.candidateId
         /\ v.state \in {"blocked", "repair"}
  <1>1. w.repairCycles + 1 \in Nat
    BY DEF Record
  <1>2. ASSUME NEW n \in Nat, NEW s \in {"blocked", "repair"},
               NEW from \in States \cup {Null},
               v = [w EXCEPT !.repairCycles = n, !.repairTarget = t,
                             !.blockedFrom = from, !.state = s]
        PROVE  /\ v \in Record /\ v.pausedFrom = Null
               /\ v.candidateId = w.candidateId
               /\ v.state \in {"blocked", "repair"}
    BY <1>2, ZenonT(60) DEF Record, States
  <1>3. w.state \in States /\ w.blockedFrom \in States \cup {Null}
    BY DEF Record
  <1> QED
    BY <1>1, <1>2, <1>3 DEF Rejected

(* Every command of the machine keeps the record well formed and the       *)
(* pause resumable, names a new candidate only when it is frozen, enters   *)
(* delivery only from arbitration, and only completes or cancels it.       *)
LEMMA MachineStep ==
  ASSUME row \in Record, PauseKnown(row), Wf!Next
  PROVE  /\ row' \in Record /\ PauseKnown(row')
         /\ row'.candidateId \in {row.candidateId, Null}
              \/ \E c \in Candidates : CandidateReady(row, row', c)
         /\ row'.state = "delivery" =>
              row.state = "arbitration" /\ row' = [row EXCEPT !.state = "delivery"]
         /\ row'.state = "completed" =>
              row.state = "delivery" /\ row' = [row EXCEPT !.state = "completed"]
         /\ row.state = "delivery" => \E to \in {"completed", "cancelled"} :
              row' = [row EXCEPT !.state = to]
         /\ row.state \notin {"completed", "cancelled"}
  <1> USE DEF PauseKnown, Record, States
  <1>1. CASE Wf!Start
    BY <1>1, ZenonT(60) DEF Wf!Start, Wf!CompleteIntake, Wf!Route, Wf!Modes
  <1>2. CASE Wf!Build
    BY <1>2, ZenonT(60)
    DEF Wf!Build, Wf!ArchitectureAccepted, Wf!CandidateReady, CandidateReady
  <1>3. CASE Wf!Judge
    BY <1>3
    DEF Wf!Judge, Wf!VerificationPassed, Wf!ReviewsReady, Wf!Approve,
        Wf!Deliver
  <1>4. CASE Wf!Fail
    <2>1. PICK t \in RepairTargets :
            /\ row.state \in {"verification", "execution", "quick_execution",
                              "arbitration"}
            /\ Rejected(row, row', t)
      BY <1>4
      DEF Wf!Fail, Wf!VerificationFailed, Wf!ExecutionFailed, Wf!Reject,
          Wf!Rejected, Wf!RepairTargets, Rejected
    <2>2. row.pausedFrom = Null
      BY <2>1
    <2> HIDE DEF Record
    <2>3. row' \in Record /\ row'.pausedFrom = Null
          /\ row'.candidateId = row.candidateId
          /\ row'.state \in {"blocked", "repair"}
      BY <2>1, <2>2, RejectedTyped
    <2> QED
      BY <2>1, <2>3
  <1>5. CASE Wf!Repair
    BY <1>5 DEF Wf!Repair, Wf!BeginRepair, Wf!Null
  <1>6. CASE Wf!Extend
    <2>1. PICK n \in Nat : Wf!ResumeBlocked(row, row', n)
      BY <1>6 DEF Wf!Extend
    <2>2. row.maxRepairCycles + n \in Nat
      OBVIOUS
    <2> QED
      BY <2>1, <2>2 DEF Wf!ResumeBlocked, Wf!Null
  <1>7. CASE Wf!PlanDefect
    BY <1>7 DEF Wf!PlanDefect, Wf!Replan
  <1>8. CASE Wf!Control
    <2>1. CASE Wf!Pause(row, row')
      BY <2>1 DEF Wf!Pause, Wf!UNPAUSABLE
    <2>2. CASE Wf!Resume(row, row')
      BY <2>2 DEF Wf!Resume, Wf!Null
    <2>3. CASE Wf!Cancel(row, row')
      BY <2>3 DEF Wf!Cancel, Wf!Null, Wf!isTerminal, Wf!TERMINAL
    <2> QED
      BY <1>8, <2>1, <2>2, <2>3 DEF Wf!Control
  <1> QED
    BY <1>1, <1>2, <1>3, <1>4, <1>5, <1>6, <1>7, <1>8 DEF Wf!Next

(* While a promotion is in flight its workflow is in delivery, or past it. *)
LEMMA NoPromotion ==
  ASSUME TypeOK, PromotionInv, row.state \notin {"delivery", "completed", "cancelled"}
  PROVE  \A k \in Calls : call[k].op # "promote"
  <1> SUFFICES ASSUME NEW k \in Calls, call[k].op = "promote"
               PROVE  FALSE
    OBVIOUS
  <1>1. PICK to \in {"delivery", "completed", "cancelled"} :
          row = [call[k].loaded EXCEPT !.state = to]
    BY DEF PromotionInv
  <1>2. "state" \in DOMAIN call[k].loaded
    BY DEF TypeOK, CallRecords, Record
  <1> QED
    BY <1>1, <1>2

(* A freeze names the candidate it is given.                               *)
LEMMA ReadyNames ==
  ASSUME row \in Record, NEW c \in Candidates, NEW d \in Candidates,
         CandidateReady(row, row', c) \/ UNCHANGED row,
         CandidateReady(row, row', d)
  PROVE  d = c
  <1>1. row'.candidateId = d /\ row'.state = "verification"
    BY DEF CandidateReady
  <1>2. ~UNCHANGED row
    BY <1>1 DEF CandidateReady
  <1> QED
    BY <1>1, <1>2 DEF CandidateReady, Record

(* What a step must leave alone for a judgement of candidate c to stand.   *)
Kept(c) ==
  /\ arbitration'[c] = arbitration[c] /\ reviews'[c] = reviews[c]
  /\ \A g \in {"scan", "flow"} :
       evidence[c][g] # "absent" => evidence'[c][g] # "absent"

(* The frame of every handler but arbitrate and deliver: it makes a step   *)
(* of the machine or none, begins no promotion, approves nothing, and      *)
(* touches no table of a candidate that is being delivered.                *)
LEMMA Frame ==
  ASSUME IInv,
         Wf!Next \/ UNCHANGED row,
         row'.state = "delivery" => row.state = "delivery",
         \A c \in Candidates : CandidateReady(row, row', c) => c \in frozen',
         frozen \subseteq frozen',
         row.state \in {"delivery", "completed", "cancelled"}
           /\ row.candidateId \in Candidates => Kept(row.candidateId),
         \A k \in Calls : call'[k] = call[k] \/ call'[k].op # "promote"
  PROVE  /\ row' \in Record
         /\ CandidateFrozen' /\ PauseKnown(row)' /\ RowJudged'
         /\ PromotionInv'
  <1>1. row \in Record /\ PauseKnown(row) /\ RowJudged /\ CandidateFrozen
    BY DEF IInv, TypeOK
  <1>2. row' \in Record /\ PauseKnown(row)'
    BY <1>1, MachineStep
  <1>3. CandidateFrozen'
    BY <1>1, MachineStep DEF CandidateFrozen, CandidateReady, Record
  <1>4. RowJudged'
    <2> SUFFICES ASSUME row'.state \in {"delivery", "completed"}
                 PROVE  row'.candidateId # Null /\ IsJudged(row)'
      BY DEF RowJudged
    <2>1. /\ row.state \in {"delivery", "completed"}
          /\ row'.candidateId = row.candidateId /\ row'.mode = row.mode
      BY <1>1, MachineStep DEF Record
    <2>2. row.candidateId # Null /\ IsJudged(row)
      BY <1>1, <2>1 DEF RowJudged
    <2>3. Kept(row.candidateId)
      BY <1>1, <2>1, <2>2 DEF Record
    <2> QED
      BY <2>1, <2>2, <2>3 DEF IsJudged, Kept
  <1>5. PromotionInv'
    <2> SUFFICES ASSUME NEW k \in Calls, call'[k] = call[k],
                        call[k].op = "promote"
                 PROVE  LET loaded == call[k].loaded IN
                        /\ loaded.state = "delivery" /\ loaded.pausedFrom = Null
                        /\ loaded.candidateId # Null
                        /\ loaded.candidateId \in frozen'
                        /\ arbitration'[loaded.candidateId] = "approved"
                        /\ loaded.mode = "full" => \A r \in Roles :
                             reviews'[loaded.candidateId][r] = "approved"
                        /\ \E g \in {"scan", "flow"} :
                             evidence'[loaded.candidateId][g] # "absent"
                        /\ \E to \in {"delivery", "completed", "cancelled"} :
                             row' = [loaded EXCEPT !.state = to]
      BY DEF PromotionInv, IsJudged
    <2> DEFINE loaded == call[k].loaded
    <2>1. /\ loaded.state = "delivery" /\ loaded.pausedFrom = Null
          /\ loaded.candidateId # Null /\ IsJudged(loaded)
      BY DEF IInv, PromotionInv
    <2>2. PICK to \in {"delivery", "completed", "cancelled"} :
            row = [loaded EXCEPT !.state = to]
      BY DEF IInv, PromotionInv
    <2>3. loaded \in Record
      BY DEF IInv, TypeOK, CallRecords
    <2> HIDE DEF loaded
    <2>4. row.state = to /\ row.candidateId = loaded.candidateId
      BY <2>2, <2>3
    <2>5. \E s \in {"delivery", "completed", "cancelled"} :
            row' = [loaded EXCEPT !.state = s]
      <3>1. CASE UNCHANGED row
        BY <2>2, <3>1
      <3>2. CASE Wf!Next
        <4>1. PICK s \in {"completed", "cancelled"} :
                row' = [row EXCEPT !.state = s]
          BY <1>1, <2>4, <3>2, MachineStep
        <4> QED
          BY <4>1, <2>2, <2>3
      <3> QED
        BY <3>1, <3>2
    <2>6. Kept(loaded.candidateId)
      BY <2>1, <2>3, <2>4 DEF Record
    <2> QED
      BY <2>1, <2>5, <2>6 DEF IsJudged, Kept, loaded
  <1> QED
    BY <1>2, <1>3, <1>4, <1>5

(* A handler that writes nothing but the row.                              *)
LEMMA RowOnly ==
  ASSUME IInv, Wf!Next,
         row'.state # "delivery" /\ row'.state # "verification",
         UNCHANGED <<frozen, tables, call, crashes>>,
         starting' \in BOOLEAN
  PROVE  IInv'
  <1>1. /\ row' \in Record
        /\ CandidateFrozen' /\ PauseKnown(row)' /\ RowJudged'
        /\ PromotionInv'
    <2>1. row.state \in {"delivery", "completed", "cancelled"} =>
            Kept(row.candidateId)
      BY DEF Kept
    <2>2. \A c \in Candidates : ~CandidateReady(row, row', c)
      BY DEF CandidateReady, IInv, TypeOK, Record
    <2> QED
      BY <2>1, <2>2, Frame
  <1>2. TypeOK'
    BY <1>1 DEF IInv, TypeOK
  <1>3. EvidenceInv'
    BY DEF IInv, EvidenceInv
  <1> QED
    BY <1>1, <1>2, <1>3 DEF IInv

(* start: intake, then the route.                                          *)
LEMMA StartWorkflowStep ==
  ASSUME IInv, StartWorkflow
  PROVE  IInv' /\ [Wf!Next \/ LateDelivery]_row
  <1>1. Wf!Next
    BY DEF StartWorkflow, CompleteIntake, Route, Wf!Next, Wf!Start,
           Wf!CompleteIntake, Wf!Route, Wf!Modes
  <1>2. row'.state # "delivery" /\ row'.state # "verification"
    BY DEF StartWorkflow, CompleteIntake, Route, IInv, TypeOK, Record
  <1>3. starting' \in BOOLEAN
    BY DEF StartWorkflow
  <1> QED
    BY <1>1, <1>2, <1>3, RowOnly DEF StartWorkflow

(* submit_plan.                                                            *)
LEMMA SubmitPlanStep ==
  ASSUME IInv, SubmitPlan
  PROVE  IInv' /\ [Wf!Next \/ LateDelivery]_row
  <1>1. Wf!Next
    BY DEF SubmitPlan, ArchitectureAccepted, Wf!Next, Wf!Build,
           Wf!ArchitectureAccepted
  <1>2. row'.state # "delivery" /\ row'.state # "verification"
    BY DEF SubmitPlan, ArchitectureAccepted
  <1> QED
    BY <1>1, <1>2, RowOnly DEF SubmitPlan, Serving, IInv, TypeOK

(* report_task.                                                            *)
LEMMA ReportTaskStep ==
  ASSUME IInv, ReportTask
  PROVE  IInv' /\ [Wf!Next \/ LateDelivery]_row
  <1>1. Wf!Next
    BY DEF ReportTask, ExecutionFailed, Rejected, Replan, Wf!Next, Wf!Fail,
           Wf!PlanDefect, Wf!ExecutionFailed, Wf!Rejected, Wf!Replan,
           Wf!RepairTargets
  <1>2. row'.state # "delivery" /\ row'.state # "verification"
    BY DEF ReportTask, ExecutionFailed, Rejected, Replan, IInv, TypeOK, Record
  <1> QED
    BY <1>1, <1>2, RowOnly DEF ReportTask, Serving, IInv, TypeOK

(* control: a resumed workflow returns to a state that could be paused,    *)
(* which neither verification nor delivery is.                             *)
LEMMA ControlWorkflowStep ==
  ASSUME IInv, ControlWorkflow
  PROVE  IInv' /\ [Wf!Next \/ LateDelivery]_row
  <1>1. Wf!Next
    BY DEF ControlWorkflow, Pause, Resume, Cancel, BeginRepair, ResumeBlocked,
           isTerminal, TERMINAL, Wf!Next, Wf!Control, Wf!Repair, Wf!Extend,
           Wf!Pause, Wf!Resume, Wf!Cancel, Wf!BeginRepair, Wf!ResumeBlocked,
           Wf!isTerminal, Wf!TERMINAL, Wf!Null, Wf!UNPAUSABLE
  <1>2. row \in Record /\ PauseKnown(row)
    BY DEF IInv, TypeOK
  <1>3. row'.state # "delivery" /\ row'.state # "verification"
    <2>1. CASE Resume(row, row')
      BY <1>2, <2>1 DEF Resume, PauseKnown
    <2>2. CASE BeginRepair(row, row')
      BY <1>2, <2>2 DEF BeginRepair, Record
    <2>3. CASE Pause(row, row') \/ Cancel(row, row')
                 \/ \E n \in Extensions : ResumeBlocked(row, row', n)
      BY <1>2, <2>3 DEF Pause, Cancel, ResumeBlocked, Record
    <2> QED
      BY <2>1, <2>2, <2>3 DEF ControlWorkflow
  <1> QED
    BY <1>1, <1>3, RowOnly DEF ControlWorkflow, Serving, IInv, TypeOK

(* freeze_candidate: nothing was captured for a candidate that is new.     *)
LEMMA FreezeCandidateStep ==
  ASSUME IInv, NEW c \in Candidates, FreezeCandidate(c)
  PROVE  IInv' /\ [Wf!Next \/ LateDelivery]_row
  <1>1. Wf!Next \/ UNCHANGED row
    BY DEF FreezeCandidate, CandidateReady, Wf!Next, Wf!Build,
           Wf!CandidateReady
  <1>2. /\ row' \in Record
        /\ CandidateFrozen' /\ PauseKnown(row)' /\ RowJudged'
        /\ PromotionInv'
    <2>1. row'.state = "delivery" => row.state = "delivery"
      BY DEF FreezeCandidate, CandidateReady, IInv, TypeOK, Record
    <2>2. \A d \in Candidates : CandidateReady(row, row', d) => d \in frozen'
      BY ReadyNames DEF FreezeCandidate, IInv, TypeOK
    <2>3. Kept(row.candidateId)
      BY DEF FreezeCandidate, Kept
    <2> QED
      BY <1>1, <2>1, <2>2, <2>3, Frame DEF FreezeCandidate
  <1>3. TypeOK'
    BY <1>2 DEF FreezeCandidate, Serving, IInv, TypeOK
  <1>4. EvidenceInv'
    BY DEF FreezeCandidate, IInv, EvidenceInv
  <1> QED
    BY <1>1, <1>2, <1>3, <1>4 DEF IInv

(* submit_browser_evidence: the capability is spent with the capture.      *)
LEMMA SubmitBrowserEvidenceStep ==
  ASSUME IInv, NEW role \in Roles, SubmitBrowserEvidence(role)
  PROVE  IInv' /\ [Wf!Next \/ LateDelivery]_row
  <1>1. /\ row' \in Record
        /\ CandidateFrozen' /\ PauseKnown(row)' /\ RowJudged'
        /\ PromotionInv'
    BY Frame DEF SubmitBrowserEvidence, CandidateReady
  <1>2. TypeOK'
    <2> row.candidateId \in Candidates
      BY DEF SubmitBrowserEvidence, IInv, TypeOK, Record
    <2> evidence[row.candidateId].flow \in EvidenceStates
      BY DEF IInv, TypeOK
    <2>1. PICK result \in EvidenceStates :
            evidence' = [evidence EXCEPT ![row.candidateId].flow = result]
      BY DEF SubmitBrowserEvidence
    <2>2. evidence' \in [Candidates -> [Gates -> EvidenceStates]]
      BY <2>1 DEF IInv, TypeOK
    <2>3. tokens' \in [Candidates -> SUBSET Roles]
      BY DEF SubmitBrowserEvidence, IInv, TypeOK
    <2> QED
      BY <1>1, <2>2, <2>3 DEF SubmitBrowserEvidence, Serving, IInv, TypeOK
  <1>3. EvidenceInv'
    BY DEF SubmitBrowserEvidence, IInv, EvidenceInv
  <1> QED
    BY <1>1, <1>2, <1>3 DEF IInv, SubmitBrowserEvidence

(* submit_review_verdict.                                                  *)
LEMMA SubmitReviewVerdictStep ==
  ASSUME IInv, NEW role \in Roles, NEW decision \in {"approved", "rejected"}, SubmitReviewVerdict(role, decision)
  PROVE  IInv' /\ [Wf!Next \/ LateDelivery]_row
  <1>1. Wf!Next \/ UNCHANGED row
    BY DEF SubmitReviewVerdict, ReviewsReady, Wf!Next, Wf!Judge,
           Wf!ReviewsReady
  <1>2. /\ row' \in Record
        /\ CandidateFrozen' /\ PauseKnown(row)' /\ RowJudged'
        /\ PromotionInv'
    BY <1>1, Frame
    DEF SubmitReviewVerdict, ReviewStored, ReviewsReady, CandidateReady, IInv,
        TypeOK, Record
  <1>3. TypeOK'
    BY <1>2 DEF SubmitReviewVerdict, ReviewStored, Serving, IInv, TypeOK
  <1>4. EvidenceInv'
    BY DEF SubmitReviewVerdict, IInv, EvidenceInv
  <1> QED
    BY <1>1, <1>2, <1>3, <1>4 DEF IInv

(* arbitrate: the one handler that opens delivery.                         *)
LEMMA ArbitrateStep ==
  ASSUME IInv, NEW decision \in {"approved", "rejected"}, NEW target \in RepairTargets, Arbitrate(decision, target)
  PROVE  IInv' /\ [Wf!Next \/ LateDelivery]_row
  <1> DEFINE c == row.candidateId
  <1>1. /\ row.state = "arbitration" /\ c \in Candidates /\ c \in frozen
        /\ row.pausedFrom = Null /\ row \in Record
    BY DEF Arbitrate, ArbitrationRecorded, IInv, TypeOK, CandidateFrozen,
           PauseKnown
  <1>2. Wf!Next
    BY DEF Arbitrate, Approve, Reject, Rejected, Wf!Next, Wf!Judge, Wf!Fail,
           Wf!Approve, Wf!Reject, Wf!Rejected, Wf!RepairTargets, Wf!Null
  <1>3. row' \in Record /\ PauseKnown(row)'
    BY <1>2, MachineStep DEF IInv, TypeOK
  <1>4. TypeOK'
    BY <1>1, <1>3 DEF Arbitrate, ArbitrationRecorded, Serving, IInv, TypeOK
  <1>5. CandidateFrozen'
    BY <1>1, <1>2, MachineStep
    DEF Arbitrate, CandidateReady, IInv, CandidateFrozen
  <1>6. RowJudged'
    <2> SUFFICES ASSUME row'.state \in {"delivery", "completed"}
                 PROVE  row'.candidateId # Null /\ IsJudged(row)'
      BY DEF RowJudged
    <2>1. row' = [row EXCEPT !.state = "delivery"]
      BY <1>1, <1>2, MachineStep DEF IInv
    <2>2. row'.candidateId = c /\ row'.mode = row.mode
      BY <1>1, <2>1
    <2>3. decision = "approved" /\ mandatoryGatesPassed(evidence[c])
      <3>1. \A t \in RepairTargets : ~Rejected(row, row', t)
        BY <1>1, <2>1, RejectedTyped
      <3> QED
        BY <3>1 DEF Arbitrate, Approve, Reject
    <2>4. \E g \in {"scan", "flow"} : evidence[c][g] # "absent"
      BY <1>1, <2>3 DEF mandatoryGatesPassed, IInv, TypeOK, EvidenceInv
    <2>5. arbitration'[c] = "approved"
      BY <1>1, <2>3 DEF Arbitrate, ArbitrationRecorded, IInv, TypeOK
    <2>6. row.mode = "full" => \A r \in Roles : reviews[c][r] = "approved"
      BY <1>1, <2>3 DEF Arbitrate, ArbitrationRecorded, IInv, TypeOK
    <2> QED
      BY <1>1, <2>2, <2>4, <2>5, <2>6 DEF IsJudged, Arbitrate
  <1>7. PromotionInv'
    BY <1>1, NoPromotion DEF Arbitrate, PromotionInv, IInv
  <1>8. EvidenceInv'
    BY DEF Arbitrate, IInv, EvidenceInv
  <1> QED
    BY <1>2, <1>3, <1>4, <1>5, <1>6, <1>7, <1>8 DEF IInv

(* verify begins.                                                         *)
LEMMA BeginVerifyStep ==
  ASSUME IInv, NEW k \in Calls, BeginVerify(k)
  PROVE  IInv' /\ [Wf!Next \/ LateDelivery]_row
  <1>1. call' \in [Calls -> CallRecords]
    BY DEF BeginVerify, Begin, IInv, TypeOK, CallRecords, Record
  <1>2. \A j \in Calls : call'[j] = call[j] \/ call'[j].op # "promote"
    BY DEF BeginVerify, Begin
  <1>3. /\ row' \in Record
        /\ CandidateFrozen' /\ PauseKnown(row)' /\ RowJudged'
        /\ PromotionInv'
    BY <1>2, Frame DEF BeginVerify, Kept, CandidateReady, IInv, TypeOK, Record
  <1>4. TypeOK' /\ EvidenceInv'
    BY <1>1
    DEF BeginVerify, Serving, IInv, TypeOK, EvidenceInv
  <1> QED
    BY <1>3, <1>4 DEF IInv, BeginVerify

(* run_proof begins.                                                       *)
LEMMA BeginProofStep ==
  ASSUME IInv, NEW k \in Calls, BeginProof(k)
  PROVE  IInv' /\ [Wf!Next \/ LateDelivery]_row
  <1>1. call' \in [Calls -> CallRecords]
    BY DEF BeginProof, Begin, IInv, TypeOK, CallRecords, Record
  <1>2. \A j \in Calls : call'[j] = call[j] \/ call'[j].op # "promote"
    BY DEF BeginProof, Begin
  <1>3. /\ row' \in Record
        /\ CandidateFrozen' /\ PauseKnown(row)' /\ RowJudged'
        /\ PromotionInv'
    BY <1>2, Frame DEF BeginProof, CandidateReady
  <1>4. TypeOK' /\ EvidenceInv'
    BY <1>1
    DEF BeginProof, Serving, IInv, TypeOK, EvidenceInv
  <1> QED
    BY <1>3, <1>4 DEF IInv, BeginProof

(* The rows of the gates replace no other row and are never absent.        *)
LEMMA GatesRanKeeps ==
  ASSUME IInv, NEW k \in Calls, NEW result \in {"passed", "failed"},
         GatesRan(k, result)
  PROVE  /\ evidence' \in [Candidates -> [Gates -> EvidenceStates]]
         /\ \A c \in Candidates :
              /\ evidence'[c].flow = evidence[c].flow
              /\ evidence'[c].proof = evidence[c].proof
              /\ evidence[c].scan # "absent" => evidence'[c].scan # "absent"
  <1>1. call[k].candidateId \in Candidates
    BY DEF GatesRan, IInv, TypeOK, CallRecords
  <1>2. evidence' \in [Candidates -> [Gates -> EvidenceStates]]
    BY DEF GatesRan, IInv, TypeOK
  <1>3. /\ evidence'[call[k].candidateId].flow = evidence[call[k].candidateId].flow
        /\ evidence'[call[k].candidateId].proof = evidence[call[k].candidateId].proof
        /\ evidence'[call[k].candidateId].scan = result
    BY <1>1 DEF GatesRan, IInv, TypeOK
  <1>4. \A c \in Candidates \ {call[k].candidateId} : evidence'[c] = evidence[c]
    BY <1>1 DEF GatesRan
  <1> QED
    BY <1>2, <1>3, <1>4

(* verify ends: a row in delivery is not being verified any more.          *)
LEMMA VerifyCandidateStep ==
  ASSUME IInv, NEW k \in Calls, VerifyCandidate(k)
  PROVE  IInv' /\ [Wf!Next \/ LateDelivery]_row
  <1>1. Wf!Next \/ UNCHANGED row
    BY DEF VerifyCandidate, VerificationPassed, VerificationFailed, Rejected,
           Wf!Next, Wf!Judge, Wf!Fail, Wf!VerificationPassed,
           Wf!VerificationFailed, Wf!Rejected, Wf!RepairTargets, Wf!Null
  <1>2. /\ evidence' \in [Candidates -> [Gates -> EvidenceStates]]
        /\ \A c \in Candidates :
             /\ evidence'[c].flow = evidence[c].flow
             /\ evidence'[c].proof = evidence[c].proof
             /\ evidence[c].scan # "absent" => evidence'[c].scan # "absent"
    BY GatesRanKeeps DEF VerifyCandidate
  <1>3. call' \in [Calls -> CallRecords]
        /\ \A j \in Calls : call'[j] = call[j] \/ call'[j].op # "promote"
    BY DEF VerifyCandidate, End, IInv, TypeOK, CallRecords
  <1>4. /\ row' \in Record
        /\ CandidateFrozen' /\ PauseKnown(row)' /\ RowJudged'
        /\ PromotionInv'
    <2>1. row'.state = "delivery" => row.state = "delivery"
      BY DEF VerifyCandidate, VerificationPassed, VerificationFailed, Rejected,
             IInv, TypeOK, Record
    <2>2. \A c \in Candidates : CandidateReady(row, row', c) => c \in frozen'
      BY DEF VerifyCandidate, VerificationPassed, VerificationFailed,
             CandidateReady, IInv, TypeOK, Record
    <2>3. row.candidateId \in Candidates => Kept(row.candidateId)
      BY <1>2 DEF VerifyCandidate, Kept
    <2> QED
      BY <1>1, <1>3, <2>1, <2>2, <2>3, Frame DEF VerifyCandidate
  <1>5. TypeOK'
    BY <1>2, <1>3, <1>4 DEF VerifyCandidate, Serving, IInv, TypeOK
  <1>6. EvidenceInv'
    BY <1>2 DEF VerifyCandidate, IInv, EvidenceInv
  <1> QED
    BY <1>1, <1>4, <1>5, <1>6 DEF IInv

(* run_proof ends: it moves nothing but its own row.                       *)
LEMMA RecordProofStep ==
  ASSUME IInv, NEW k \in Calls, RecordProof(k)
  PROVE  IInv' /\ [Wf!Next \/ LateDelivery]_row
  <1>1. call[k].candidateId \in Candidates
    BY DEF RecordProof, IInv, TypeOK, CallRecords
  <1>2. /\ evidence' \in [Candidates -> [Gates -> EvidenceStates]]
        /\ \A c \in Candidates :
             /\ evidence'[c].flow = evidence[c].flow
             /\ evidence'[c].scan = evidence[c].scan
             /\ evidence[c].proof # "passed" => evidence'[c].proof # "passed"
    BY <1>1 DEF RecordProof, IInv, TypeOK
  <1>3. call' \in [Calls -> CallRecords]
        /\ \A j \in Calls : call'[j] = call[j] \/ call'[j].op # "promote"
    BY DEF RecordProof, End, IInv, TypeOK, CallRecords
  <1>4. /\ row' \in Record
        /\ CandidateFrozen' /\ PauseKnown(row)' /\ RowJudged'
        /\ PromotionInv'
    <2>1. row.candidateId \in Candidates => Kept(row.candidateId)
      BY <1>2 DEF RecordProof, Kept
    <2>2. \A c \in Candidates : ~CandidateReady(row, row', c)
      BY DEF RecordProof, CandidateReady, IInv, TypeOK, Record
    <2> QED
      BY <1>3, <2>1, <2>2, Frame DEF RecordProof
  <1>5. TypeOK' /\ EvidenceInv'
    BY <1>2, <1>3, <1>4
    DEF RecordProof, Serving, IInv, TypeOK, EvidenceInv
  <1> QED
    BY <1>4, <1>5 DEF IInv, RecordProof

(* deliver and reconcile begin: what they load is judged.                  *)
LEMMA BeginPromotionStep ==
  ASSUME IInv, NEW k \in Calls, BeginPromotion(k)
  PROVE  IInv' /\ [Wf!Next \/ LateDelivery]_row
  <1>1. row \in Record /\ row = [row EXCEPT !.state = "delivery"]
    BY DEF BeginPromotion, IInv, TypeOK, Record
  <1>2. call' \in [Calls -> CallRecords]
    BY <1>1 DEF BeginPromotion, Begin, IInv, TypeOK, CallRecords
  <1>3. PromotionInv'
    <2> SUFFICES ASSUME NEW j \in Calls, call'[j].op = "promote"
                 PROVE  LET loaded == call'[j].loaded IN
                        /\ loaded.state = "delivery" /\ loaded.pausedFrom = Null
                        /\ loaded.candidateId # Null /\ IsJudged(loaded)
                        /\ \E to \in {"delivery", "completed", "cancelled"} :
                             row = [loaded EXCEPT !.state = to]
      BY DEF PromotionInv, IsJudged, BeginPromotion
    <2>1. CASE j = k
      <3>1. call'[j].loaded = row
        BY <2>1 DEF BeginPromotion, Begin
      <3> QED
        BY <1>1, <3>1 DEF BeginPromotion, IInv, PauseKnown, RowJudged
    <2>2. CASE j # k
      <3>1. call'[j] = call[j]
        BY <2>2 DEF BeginPromotion, Begin
      <3> QED
        BY <3>1 DEF IInv, PromotionInv
    <2> QED
      BY <2>1, <2>2
  <1>4. /\ TypeOK' /\ CandidateFrozen' /\ PauseKnown(row)' /\ RowJudged'
        /\ EvidenceInv'
    BY <1>2
    DEF BeginPromotion, Serving, IInv, TypeOK, CandidateFrozen, RowJudged,
        IsJudged, EvidenceInv
  <1> QED
    BY <1>3, <1>4 DEF IInv, BeginPromotion

(* deliver and reconcile end.  The row they loaded is stored over a row    *)
(* that was completed or cancelled meanwhile, and in both cases it names   *)
(* the candidate that was judged.                                          *)
LEMMA FinishPromotionStep ==
  ASSUME IInv, NEW k \in Calls, FinishPromotion(k)
  PROVE  IInv' /\ [Wf!Next \/ LateDelivery]_row
  <1> DEFINE loaded == call[k].loaded
  <1>1. /\ loaded.state = "delivery" /\ loaded.pausedFrom = Null
        /\ loaded.candidateId # Null /\ IsJudged(loaded)
    BY DEF FinishPromotion, IInv, PromotionInv
  <1>2. PICK to \in {"delivery", "completed", "cancelled"} :
          row = [loaded EXCEPT !.state = to]
    BY DEF FinishPromotion, IInv, PromotionInv
  <1>3. loaded \in Record /\ row \in Record
    BY DEF FinishPromotion, IInv, TypeOK, CallRecords
  <1>4. call' \in [Calls -> CallRecords]
        /\ \A j \in Calls : call'[j] = call[j] \/ call'[j].op # "promote"
    BY DEF FinishPromotion, End, IInv, TypeOK, CallRecords
  <1>5. /\ UNCHANGED <<frozen, tables, starting, crashes>>
        /\ row' = [loaded EXCEPT !.state = "completed"] \/ UNCHANGED row
    BY DEF FinishPromotion, Serving, Deliver
  <1> HIDE DEF loaded
  <1>6. row' = [row EXCEPT !.state = "completed"] \/ UNCHANGED row
    BY <1>2, <1>3, <1>5
  <1>7. /\ row.candidateId = loaded.candidateId /\ row.mode = loaded.mode
        /\ row.pausedFrom = Null /\ row.state = to
    BY <1>1, <1>2, <1>3
  <1>8. [Wf!Next \/ LateDelivery]_row
    <2> SUFFICES ASSUME row' = [row EXCEPT !.state = "completed"]
                 PROVE  Wf!Next \/ LateDelivery \/ row' = row
      BY <1>6
    <2>1. CASE to = "delivery"
      BY <2>1, <1>1, <1>7 DEF Wf!Next, Wf!Judge, Wf!Deliver, Wf!Null
    <2>2. CASE to = "completed"
      BY <2>2, <1>3, <1>7 DEF Record
    <2>3. CASE to = "cancelled"
      BY <2>3, <1>1, <1>7 DEF LateDelivery, IsJudged
    <2> QED
      BY <2>1, <2>2, <2>3
  <1>9. row' \in Record
    BY <1>3, <1>6 DEF Record, States
  <1>10. /\ row'.candidateId = row.candidateId /\ row'.mode = row.mode
         /\ row'.pausedFrom = Null
    BY <1>3, <1>6, <1>7 DEF Record
  <1>11. CandidateFrozen' /\ PauseKnown(row)' /\ RowJudged'
    BY <1>1, <1>5, <1>7, <1>10
    DEF CandidateFrozen, PauseKnown, RowJudged, IsJudged
  <1>12. PromotionInv'
    <2> SUFFICES ASSUME NEW j \in Calls, call'[j] = call[j],
                        call[j].op = "promote"
                 PROVE  LET l == call[j].loaded IN
                        /\ l.state = "delivery" /\ l.pausedFrom = Null
                        /\ l.candidateId # Null /\ IsJudged(l)
                        /\ \E s \in {"delivery", "completed", "cancelled"} :
                             row' = [l EXCEPT !.state = s]
      BY <1>4, <1>5 DEF PromotionInv, IsJudged
    <2>1. PICK s \in {"delivery", "completed", "cancelled"} :
            row = [call[j].loaded EXCEPT !.state = s]
      BY DEF IInv, PromotionInv
    <2>2. call[j].loaded \in Record
      BY DEF IInv, TypeOK, CallRecords
    <2>3. \E t \in {"delivery", "completed", "cancelled"} :
            row' = [call[j].loaded EXCEPT !.state = t]
      BY <1>6, <2>1, <2>2
    <2> QED
      BY <2>3 DEF IInv, PromotionInv
  <1>13. TypeOK' /\ EvidenceInv'
    BY <1>4, <1>5, <1>9 DEF IInv, TypeOK, EvidenceInv
  <1> QED
    BY <1>8, <1>11, <1>12, <1>13 DEF IInv

(* A crash, in the middle of a handler or between two: no call survives.   *)
LEMMA CrashStep ==
  ASSUME IInv, Crash
  PROVE  IInv' /\ [Wf!Next \/ LateDelivery]_row
  <1>1. /\ crashes' \in 0..MaxCrashes
        /\ call' \in [Calls -> CallRecords]
        /\ \A k \in Calls : call'[k].op # "promote"
    BY DEF Crash, IInv, TypeOK, CallRecords
  <1>2. starting' \in BOOLEAN
    BY Zenon DEF Crash
  <1>3. PromotionInv'
    BY <1>1 DEF PromotionInv
  <1> USE DEF IInv, TypeOK, EvidenceInv
  <1>4. CASE UNCHANGED <<row, frozen, tables>>
    BY <1>1, <1>2, <1>3, <1>4 DEF CandidateFrozen, RowJudged, IsJudged
  <1>5. ASSUME NEW c \in Candidates \ frozen, frozen' = frozen \cup {c},
               CandidateReady(row, row', c) \/ UNCHANGED row, UNCHANGED tables
        PROVE  IInv' /\ [Wf!Next]_row
    <2>1. Wf!Next \/ UNCHANGED row
      BY <1>5 DEF CandidateReady, Wf!Next, Wf!Build, Wf!CandidateReady
    <2>2. /\ row' \in Record
          /\ CandidateFrozen' /\ PauseKnown(row)' /\ RowJudged'
      <3>1. \A d \in Candidates : CandidateReady(row, row', d) => d \in frozen'
        BY <1>5, ReadyNames
      <3>2. row'.state = "delivery" => row.state = "delivery"
        BY <1>5 DEF CandidateReady, Record
      <3>3. Kept(row.candidateId)
        BY <1>5 DEF Kept
      <3> QED
        BY <1>1, <1>5, <2>1, <3>1, <3>2, <3>3, Frame
    <2> QED
      BY <1>1, <1>2, <1>3, <1>5, <2>1, <2>2
  <1>6. ASSUME NEW k \in Calls, NEW result \in {"passed", "failed"},
               GatesRan(k, result),
               UNCHANGED <<row, frozen, reviews, arbitration, tokens>>
        PROVE  IInv'
    <2>1. /\ evidence' \in [Candidates -> [Gates -> EvidenceStates]]
          /\ \A c \in Candidates :
               /\ evidence'[c].flow = evidence[c].flow
               /\ evidence'[c].proof = evidence[c].proof
               /\ evidence[c].scan # "absent" => evidence'[c].scan # "absent"
      BY <1>6, GatesRanKeeps
    <2>2. CandidateFrozen' /\ PauseKnown(row)' /\ RowJudged'
      BY <1>6, <2>1 DEF CandidateFrozen, RowJudged, IsJudged
    <2> QED
      BY <1>1, <1>2, <1>3, <1>6, <2>1, <2>2
  <1>7. ASSUME NEW r \in Roles, NEW d \in {"approved", "rejected"},
               ReviewStored(r, d),
               UNCHANGED <<row, frozen, evidence, arbitration, tokens>>
        PROVE  IInv'
    BY <1>1, <1>2, <1>3, <1>7 DEF ReviewStored, CandidateFrozen, RowJudged
  <1>8. ASSUME NEW d \in {"approved", "rejected"}, ArbitrationRecorded(d),
               UNCHANGED <<row, frozen, evidence, reviews, tokens>>
        PROVE  IInv'
    BY <1>1, <1>2, <1>3, <1>8
    DEF ArbitrationRecorded, CandidateFrozen, RowJudged
  <1> QED
    BY <1>4, <1>5, <1>6, <1>7, <1>8 DEF Crash, HalfWritten
(* createWorkflow's row and empty tables satisfy the invariant.            *)
LEMMA InitIInv == Init => IInv
  <1> SUFFICES ASSUME Init
               PROVE  IInv
    OBVIOUS
  <1>1. PICK budget \in Nat : row = newWorkflow(budget)
    BY DEF Init
  <1>2. row \in Record /\ row.candidateId = Null /\ row.pausedFrom = Null
        /\ row.state = "intake"
    BY <1>1 DEF newWorkflow, Record, States
  <1>3. starting \in BOOLEAN
    BY Zenon DEF Init
  <1>4. TypeOK
    BY <1>2, <1>3 DEF Init, TypeOK, CallRecords
  <1> QED
    BY <1>2, <1>4
    DEF Init, IInv, CandidateFrozen, PauseKnown, RowJudged, PromotionInv,
        EvidenceInv

(* Every step keeps the invariant, and is a step of the workflow machine,  *)
(* a late delivery, or none.                                               *)
LEMMA NextIInv ==
  IInv /\ [Next]_vars => IInv' /\ [Wf!Next \/ LateDelivery]_row
  <1> SUFFICES ASSUME IInv, [Next]_vars
               PROVE  IInv' /\ [Wf!Next \/ LateDelivery]_row
    OBVIOUS
  <1>1. CASE UNCHANGED vars
    BY <1>1
    DEF vars, IInv, TypeOK, CandidateFrozen, RowJudged, PromotionInv, IsJudged,
        EvidenceInv
  <1>2. CASE StartWorkflow \/ SubmitPlan \/ ReportTask \/ ControlWorkflow \/ Crash
    BY <1>2, StartWorkflowStep, SubmitPlanStep, ReportTaskStep,
       ControlWorkflowStep, CrashStep
  <1>3. CASE \/ \E c \in Candidates : FreezeCandidate(c)
             \/ \E r \in Roles : SubmitBrowserEvidence(r)
             \/ \E r \in Roles, d \in {"approved", "rejected"} :
                  SubmitReviewVerdict(r, d)
             \/ \E d \in {"approved", "rejected"}, t \in RepairTargets :
                  Arbitrate(d, t)
    BY <1>3, FreezeCandidateStep, SubmitBrowserEvidenceStep,
       SubmitReviewVerdictStep, ArbitrateStep
  <1>4. CASE \E k \in Calls :
               \/ BeginVerify(k) \/ VerifyCandidate(k)
               \/ BeginProof(k) \/ RecordProof(k)
               \/ BeginPromotion(k) \/ FinishPromotion(k)
    BY <1>4, BeginVerifyStep, VerifyCandidateStep, BeginProofStep,
       RecordProofStep, BeginPromotionStep, FinishPromotionStep
  <1> QED
    BY <1>1, <1>2, <1>3, <1>4 DEF Next

(* Every reachable state of the tools satisfies the whole invariant.       *)
THEOREM Invariance == Spec => []IInv
  BY InitIInv, NextIInv, PTL DEF Spec

(* The stored tables and the calls in flight have the shapes the tools     *)
(* declare, whatever crashed, raced or was repeated.                       *)
THEOREM TypeCorrect == Spec => []TypeOK
  <1>1. IInv => TypeOK
    BY DEF IInv
  <1> QED
    BY <1>1, Invariance, PTL

(* Whatever was frozen, repaired, retried or left in flight before, the    *)
(* candidate that deliver promotes is one that arbitrate approved, on the  *)
(* full route one that both reviewers approved, and one with recorded      *)
(* mandatory evidence.                                                     *)
THEOREM DeliveryIsJudged == Spec => []NothingDeliveredUnjudged
  <1>1. IInv => NothingDeliveredUnjudged
    BY DEF IInv, RowJudged, IsJudged, NothingDeliveredUnjudged
  <1> QED
    BY <1>1, Invariance, PTL

(* A mandatory browser capture changes only when a capability issued for   *)
(* that very candidate is spent, and no spent one comes back.              *)
THEOREM CapturesSpendCapabilities == Spec => CaptureIsIndependent
  <1>1. ASSUME IInv, [Next]_vars, NEW c \in Candidates
        PROVE  /\ c \in frozen => tokens'[c] \subseteq tokens[c]
               /\ evidence'[c].flow # evidence[c].flow =>
                    c \in frozen /\ \E r \in tokens[c] : tokens'[c] = tokens[c] \ {r}
    <2>1. CASE UNCHANGED <<evidence, tokens>>
      BY <2>1
    <2>2. CASE /\ tokens' = tokens
               /\ \A d \in Candidates : evidence'[d].flow = evidence[d].flow
      BY <2>2
    <2>3. ASSUME NEW d \in Candidates, FreezeCandidate(d)
          PROVE  evidence' = evidence /\ (c \in frozen => tokens'[c] = tokens[c])
      BY <1>1, <2>3 DEF FreezeCandidate, IInv, TypeOK
    <2>4. ASSUME NEW r \in Roles, SubmitBrowserEvidence(r)
          PROVE  \/ tokens'[c] = tokens[c] /\ evidence'[c] = evidence[c]
                 \/ c \in frozen /\ r \in tokens[c] /\ tokens'[c] = tokens[c] \ {r}
      <3>1. row.candidateId \in Candidates /\ row.candidateId \in frozen
        BY <1>1, <2>4 DEF SubmitBrowserEvidence, IInv, TypeOK, Record, CandidateFrozen
      <3> QED
        BY <1>1, <2>4, <3>1 DEF SubmitBrowserEvidence, IInv, TypeOK
    <2>5. ASSUME NEW k \in Calls, NEW result, GatesRan(k, result)
          PROVE  \A d \in Candidates : evidence'[d].flow = evidence[d].flow
      BY <1>1, <2>5 DEF GatesRan, IInv, TypeOK
    <2>6. ASSUME NEW k \in Calls, VerifyCandidate(k) \/ RecordProof(k)
          PROVE  /\ tokens' = tokens
                 /\ \A d \in Candidates : evidence'[d].flow = evidence[d].flow
      <3>1. CASE VerifyCandidate(k)
        BY <2>5, <3>1 DEF VerifyCandidate
      <3>2. CASE RecordProof(k)
        BY <1>1, <3>2 DEF RecordProof, IInv, TypeOK
      <3> QED
        BY <2>6, <3>1, <3>2
    <2>7. ASSUME Crash
          PROVE  /\ tokens' = tokens
                 /\ \A d \in Candidates : evidence'[d].flow = evidence[d].flow
      BY <2>5, <2>7 DEF Crash, HalfWritten
    <2>8. ASSUME NEW r \in Roles, NEW d \in {"approved", "rejected"}, SubmitReviewVerdict(r, d)
          PROVE  UNCHANGED <<evidence, tokens>>
      BY <2>8 DEF SubmitReviewVerdict
    <2>9. ASSUME NEW d \in {"approved", "rejected"}, NEW t \in RepairTargets, Arbitrate(d, t)
          PROVE  UNCHANGED <<evidence, tokens>>
      BY <2>9 DEF Arbitrate
    <2>10. CASE StartWorkflow \/ SubmitPlan \/ ReportTask \/ ControlWorkflow
      BY <2>1, <2>10 DEF StartWorkflow, SubmitPlan, ReportTask, ControlWorkflow
    <2>11. CASE \E k \in Calls : \/ BeginVerify(k) \/ BeginProof(k)
                                  \/ BeginPromotion(k) \/ FinishPromotion(k)
      BY <2>1, <2>11 DEF BeginVerify, BeginProof, BeginPromotion, FinishPromotion
    <2>12. CASE UNCHANGED vars
      BY <2>1, <2>12 DEF vars
    <2> QED
      BY <1>1, <2>1, <2>2, <2>3, <2>4, <2>6, <2>7, <2>8, <2>9, <2>10, <2>11, <2>12 DEF Next
  <1>2. IInv /\ [Next]_vars =>
          [\A c \in Candidates :
             /\ c \in frozen => tokens'[c] \subseteq tokens[c]
             /\ evidence'[c].flow # evidence[c].flow =>
                  c \in frozen /\ \E r \in tokens[c] : tokens'[c] = tokens[c] \ {r}]_vars
    BY <1>1
  <1> QED
    BY <1>2, Invariance, PTL DEF Spec, CaptureIsIndependent

(* The tools implement the workflow machine: every change they make to the *)
(* stored row is one command of apply, or the completion of a promotion    *)
(* that outlived a cancellation.                                           *)
THEOREM RefinesMachine == Spec => FollowsMachine
  <1>1. Init => Wf!Init
    BY DEF Init, Wf!Init, newWorkflow, Wf!newWorkflow, Wf!Null
  <1> QED
    BY <1>1, Invariance, NextIInv, PTL DEF Spec, FollowsMachine

(* No step but arbitrate opens delivery, and it does so only while the     *)
(* mandatory gates of the candidate stand passed.                          *)
THEOREM DeliveryOpensOnGreen == Spec => ApprovedOnGreenGates
  <1>1. ASSUME IInv, [Next]_vars, row.state # "delivery",
               row'.state = "delivery"
        PROVE  mandatoryGatesPassed(evidence[row.candidateId])
    <2>1. Wf!Next
      <3>1. [Wf!Next \/ LateDelivery]_row
        BY <1>1, NextIInv
      <3>2. ~LateDelivery
        BY <1>1 DEF LateDelivery, IInv, TypeOK, Record
      <3> QED
        BY <1>1, <3>1, <3>2
    <2>2. row.state = "arbitration" /\ row' = [row EXCEPT !.state = "delivery"]
      BY <1>1, <2>1, MachineStep DEF IInv, TypeOK
    <2>3. Next /\ row' # row
      BY <1>1 DEF vars
    <2>4. PICK d \in {"approved", "rejected"}, t \in RepairTargets :
            Arbitrate(d, t)
      <3> row \in Record
        BY <1>1 DEF IInv, TypeOK
      <3>1. ~StartWorkflow /\ ~SubmitPlan /\ ~ReportTask
        BY <2>2
        DEF StartWorkflow, CompleteIntake, Route, SubmitPlan,
            ArchitectureAccepted, ReportTask, ExecutionFailed, Replan
      <3>2. ~ControlWorkflow
        BY <2>2
        DEF ControlWorkflow, Pause, Resume, Cancel, BeginRepair, ResumeBlocked,
            Record
      <3>3. ~Crash
        BY <2>2, <2>3 DEF Crash, HalfWritten, CandidateReady
      <3>4. \A c \in Candidates : ~FreezeCandidate(c)
        BY <2>2, <2>3 DEF FreezeCandidate, CandidateReady
      <3>5. \A r \in Roles : ~SubmitBrowserEvidence(r)
        BY <2>2 DEF SubmitBrowserEvidence
      <3>6. \A r \in Roles, d \in {"approved", "rejected"} :
              ~SubmitReviewVerdict(r, d)
        BY <2>2 DEF SubmitReviewVerdict, ReviewStored
      <3>7. ASSUME NEW k \in Calls
            PROVE  /\ ~BeginVerify(k) /\ ~VerifyCandidate(k)
                   /\ ~BeginProof(k) /\ ~RecordProof(k)
                   /\ ~BeginPromotion(k) /\ ~FinishPromotion(k)
        <4>1. /\ ~BeginVerify(k) /\ ~BeginProof(k) /\ ~RecordProof(k)
              /\ ~BeginPromotion(k)
          BY <2>3 DEF BeginVerify, BeginProof, RecordProof, BeginPromotion
        <4>2. ~VerifyCandidate(k)
          BY <2>2, <2>3
          DEF VerifyCandidate, VerificationPassed, VerificationFailed
        <4>3. ~FinishPromotion(k)
          BY <1>1, <2>2, NoPromotion DEF FinishPromotion, IInv
        <4> QED
          BY <4>1, <4>2, <4>3
      <3> QED
        BY <2>3, <3>1, <3>2, <3>3, <3>4, <3>5, <3>6, <3>7 DEF Next
    <2>5. \A u \in RepairTargets : ~Rejected(row, row', u)
      BY <1>1, <2>2, RejectedTyped DEF IInv, TypeOK, PauseKnown
    <2> QED
      BY <2>4, <2>5 DEF Arbitrate, Approve, Reject
  <1>2. IInv /\ [Next]_vars =>
          [row.state # "delivery" /\ row'.state = "delivery"
             => mandatoryGatesPassed(evidence[row.candidateId])]_vars
    BY <1>1
  <1> QED
    BY <1>2, Invariance, PTL DEF Spec, ApprovedOnGreenGates

=============================================================================
