------------------------------- MODULE Service ------------------------------
(***************************************************************************)
(* The workflow tools of the control plane: server.ts, workflow/service.ts *)
(* and the tables they write.                                              *)
(*                                                                         *)
(* mcp.ts starts a handler for every line it reads and never queues them.  *)
(* A handler without an await is one atomic step.  verify, run_proof,      *)
(* deliver and reconcile await: they keep what they loaded in a call       *)
(* record, other handlers run meanwhile, and a client that timed out may   *)
(* have issued the same call twice.  A crash loses the calls and keeps the *)
(* tables.                                                                 *)
(*                                                                         *)
(* Promotion itself is Delivery.tla; here it succeeds or aborts.  The task *)
(* table is not modelled: of report_task only the transition it makes.     *)
(***************************************************************************)
EXTENDS Machine

CONSTANTS
  InitialBudgets, Extensions, BudgetBound,   \* as in Workflow
  Roles,                                     \* the two independent reviewers
  Calls,                                     \* calls that may be in flight
  MaxCrashes                                 \* bound: crashes of the plane

ASSUME ServiceAssumption ==
  /\ InitialBudgets \subseteq Nat \ {0}
  /\ Extensions \subseteq Nat \ {0}
  /\ BudgetBound \in Nat /\ MaxCrashes \in Nat

VARIABLES
  row,         \* the stored workflow
  frozen,      \* candidates that have been recorded
  evidence,    \* the mandatory evidence of a candidate, by gate
  reviews,     \* the verdict of each reviewer on a candidate
  arbitration, \* the arbiter's recorded verdict on a candidate
  tokens,      \* reviewers holding an unspent capture capability
  call,        \* the calls in flight
  starting,    \* start is between its writes
  crashes      \* crashes so far

tables == <<evidence, reviews, arbitration, tokens>>
vars == <<row, frozen, tables, call, starting, crashes>>

(* "scan" stands for every gate that verify runs: among them integrity and *)
(* the secret scan, which are always mandatory.  "flow" is the browser     *)
(* capture of a reviewer, "proof" a security proof.                        *)
Gates == {"scan", "flow", "proof"}

(* A gate whose row is missing, or is not mandatory, is "absent".          *)
EvidenceStates == {"absent", "passed", "failed"}
Verdicts == {"none", "approved", "rejected"}

Idle == [op |-> "idle"]
CallRecords ==
  {Idle}
    \cup [op : {"verify"}, candidateId : Candidates]
    \cup [op : {"proof"}, candidateId : Candidates]
    \cup [op : {"promote"}, loaded : Record]

TypeOK ==
  /\ row \in Record
  /\ frozen \subseteq Candidates
  /\ evidence \in [Candidates -> [Gates -> EvidenceStates]]
  /\ reviews \in [Candidates -> [Roles -> Verdicts]]
  /\ arbitration \in [Candidates -> Verdicts]
  /\ tokens \in [Candidates -> SUBSET Roles]
  /\ call \in [Calls -> CallRecords]
  /\ starting \in BOOLEAN
  /\ crashes \in 0..MaxCrashes

(* createWorkflow has just inserted the row.                               *)
Init ==
  /\ \E budget \in InitialBudgets : row = newWorkflow(budget)
  /\ frozen = {}
  /\ evidence = [c \in Candidates |-> [g \in Gates |-> "absent"]]
  /\ reviews = [c \in Candidates |-> [r \in Roles |-> "none"]]
  /\ arbitration = [c \in Candidates |-> "none"]
  /\ tokens = [c \in Candidates |-> {}]
  /\ call = [k \in Calls |-> Idle]
  /\ starting = TRUE
  /\ crashes = 0

(* mandatoryGatesPassed, and the outcome verify derives: some mandatory    *)
(* row exists and none of them has a status other than passed.             *)
mandatoryGatesPassed(rows) ==
  /\ \E g \in Gates : rows[g] # "absent"
  /\ \A g \in Gates : rows[g] # "failed"

Begin(k, record) == /\ call[k] = Idle
                    /\ call' = [call EXCEPT ![k] = record]
End(k) == call' = [call EXCEPT ![k] = Idle]

(* start runs to its end, or to a crash, before any other handler.         *)
Serving == ~starting /\ UNCHANGED <<starting, crashes>>

-----------------------------------------------------------------------------
(* The writes startWorkflow makes after the insert, one by one.  A start   *)
(* repeated later rejoins the stored workflow and writes nothing.          *)
StartWorkflow ==
  /\ starting
  /\ \/ CompleteIntake(row, row') /\ UNCHANGED starting
     \/ \E mode \in Modes : Route(row, row', mode) /\ starting' = FALSE
  /\ UNCHANGED <<frozen, tables, call, crashes>>

SubmitPlan ==
  /\ Serving
  /\ ArchitectureAccepted(row, row')
  /\ UNCHANGED <<frozen, tables, call>>

(* Mutant: the work is sent back to where it failed.                       *)
ReportTask_back ==
  /\ Serving
  /\ ExecutionFailed(row, row', row.state) \/ Replan(row, row')
  /\ UNCHANGED <<frozen, tables, call>>

(* A task blocked or out of scope fails the execution; a defective plan is *)
(* replanned; a completed task moves nothing.                              *)
ReportTask ==
  /\ Serving
  /\ ExecutionFailed(row, row', "execution") \/ Replan(row, row')
  /\ UNCHANGED <<frozen, tables, call>>

(* The candidate is recorded before the transition is tried, so a freeze   *)
(* that comes out of turn leaves a candidate no workflow refers to.        *)
FreezeCandidate(c) ==
  /\ Serving
  /\ c \notin frozen
  /\ frozen' = frozen \cup {c}
  /\ \/ /\ CandidateReady(row, row', c)
        /\ tokens' = [tokens EXCEPT ![c] = Roles]
     \/ /\ row.state \notin {"execution", "quick_execution"}
        /\ UNCHANGED <<row, tokens>>
  /\ UNCHANGED <<evidence, reviews, arbitration, call>>

-----------------------------------------------------------------------------
(* verify: verificationInputs asks only for a candidate, in any state.     *)
BeginVerify(k) ==
  /\ Serving
  /\ row.candidateId # Null
  /\ Begin(k, [op |-> "verify", candidateId |-> row.candidateId])
  /\ UNCHANGED <<row, frozen, tables>>

(* The gates have run.  Their rows replace the earlier ones of the         *)
(* candidate the call began with; the outcome is derived from all its      *)
(* mandatory rows; and verifyCandidate applies it to whatever candidate is *)
(* being verified by now.                                                  *)
GatesRan(k, result) ==
  /\ call[k].op = "verify"
  /\ evidence' = [evidence EXCEPT ![call[k].candidateId].scan = result]

(* Mutant: an outcome that failed is reported and not applied.             *)
VerifyCandidate_reportsOnly(k) ==
  /\ Serving
  /\ \E result \in {"passed", "failed"} : GatesRan(k, result)
  /\ \/ /\ mandatoryGatesPassed(evidence'[call[k].candidateId])
        /\ VerificationPassed(row, row')
     \/ /\ \/ ~mandatoryGatesPassed(evidence'[call[k].candidateId])
           \/ row.state # "verification"
        /\ UNCHANGED row
  /\ End(k)
  /\ UNCHANGED <<frozen, reviews, arbitration, tokens>>

VerifyCandidate(k) ==
  /\ Serving
  /\ \E result \in {"passed", "failed"} : GatesRan(k, result)
  /\ LET mandatoryPassed == mandatoryGatesPassed(evidence'[call[k].candidateId]) IN
     \/ mandatoryPassed /\ VerificationPassed(row, row')
     \/ ~mandatoryPassed /\ VerificationFailed(row, row', "execution")
     \/ row.state # "verification" /\ UNCHANGED row
  /\ End(k)
  /\ UNCHANGED <<frozen, reviews, arbitration, tokens>>

(* submitBrowserEvidence with a capability: it is spent before the         *)
(* snapshot is parsed, so a malformed snapshot loses it.  A capture        *)
(* without one is recorded under gates of its own and is never mandatory.  *)
(* Mutant: whether the capability was spent before is not looked at.       *)
SubmitBrowserEvidence_respent(role) ==
  LET c == row.candidateId IN
  /\ Serving
  /\ row.state \in {"verification", "independent_reviews"}
  /\ c # Null
  /\ tokens' = [tokens EXCEPT ![c] = @ \ {role}]
  /\ \E result \in {"passed", "failed", evidence[c].flow} :
       evidence' = [evidence EXCEPT ![c].flow = result]
  /\ UNCHANGED <<row, frozen, reviews, arbitration, call>>

SubmitBrowserEvidence(role) ==
  LET c == row.candidateId IN
  /\ Serving
  /\ row.state \in {"verification", "independent_reviews"}
  /\ c # Null
  /\ role \in tokens[c]
  /\ tokens' = [tokens EXCEPT ![c] = @ \ {role}]
  /\ \E result \in {"passed", "failed", evidence[c].flow} :
       evidence' = [evidence EXCEPT ![c].flow = result]
  /\ UNCHANGED <<row, frozen, reviews, arbitration, call>>

(* submitReview replaces the reviewer's verdict on this candidate, and the *)
(* second reviewer's verdict opens arbitration.                            *)
(* Mutant: a late review is stored in any state.                           *)
ReviewStored_late(role, decision) ==
  /\ row.candidateId # Null
  /\ reviews' = [reviews EXCEPT ![row.candidateId][role] = decision]

ReviewStored(role, decision) ==
  /\ row.state = "independent_reviews"
  /\ row.candidateId # Null
  /\ reviews' = [reviews EXCEPT ![row.candidateId][role] = decision]

SubmitReviewVerdict(role, decision) ==
  LET c == row.candidateId IN
  /\ Serving
  /\ ReviewStored(role, decision)
  /\ IF \A r \in Roles : reviews'[c][r] # "none"
     THEN ReviewsReady(row, row')
     ELSE UNCHANGED row
  /\ UNCHANGED <<frozen, evidence, arbitration, tokens, call>>

(* run_proof: the candidate is read before the proof runs.                 *)
BeginProof(k) ==
  /\ Serving
  /\ row.state \in {"independent_reviews", "arbitration"}
  /\ row.candidateId # Null
  /\ Begin(k, [op |-> "proof", candidateId |-> row.candidateId])
  /\ UNCHANGED <<row, frozen, tables>>

(* A demonstrated proof is a failing mandatory row; any other result       *)
(* replaces it by a row that is not mandatory.                             *)
RecordProof(k) ==
  /\ Serving
  /\ call[k].op = "proof"
  /\ \E result \in {"failed", "absent"} :
       evidence' = [evidence EXCEPT ![call[k].candidateId].proof = result]
  /\ End(k)
  /\ UNCHANGED <<row, frozen, reviews, arbitration, tokens>>

(* arbitrate: on the full route both reviews must be in and an approval    *)
(* needs both to approve.  The verdict is recorded before the transition.  *)
(* Mutant: the reviews are counted and not read.                           *)
ArbitrationRecorded_unread(decision) ==
  LET c == row.candidateId IN
  /\ row.state = "arbitration"
  /\ c # Null
  /\ row.mode = "full" => \A r \in Roles : reviews[c][r] # "none"
  /\ arbitration' = [arbitration EXCEPT ![c] = decision]

ArbitrationRecorded(decision) ==
  LET c == row.candidateId IN
  /\ row.state = "arbitration"
  /\ c # Null
  /\ row.mode = "full" =>
       /\ \A r \in Roles : reviews[c][r] # "none"
       /\ decision = "approved" => \A r \in Roles : reviews[c][r] # "rejected"
  /\ arbitration' = [arbitration EXCEPT ![c] = decision]

(* An approval that the gates refuse becomes a rejection, at the price of  *)
(* a repair cycle.  Mutant: the arbiter's approval overrides the gates.    *)
Arbitrate_overrides(decision, target) ==
  /\ Serving
  /\ ArbitrationRecorded(decision)
  /\ \/ decision = "approved" /\ Approve(row, row', TRUE)
     \/ decision = "rejected" /\ Reject(row, row', target)
  /\ UNCHANGED <<frozen, evidence, reviews, tokens, call>>

Arbitrate(decision, target) ==
  LET passed == mandatoryGatesPassed(evidence[row.candidateId]) IN
  /\ Serving
  /\ ArbitrationRecorded(decision)
  /\ \/ decision = "approved" /\ Approve(row, row', passed)
     \/ decision = "approved" /\ ~passed /\ Reject(row, row', "execution")
     \/ decision = "rejected" /\ Reject(row, row', target)
  /\ UNCHANGED <<frozen, evidence, reviews, tokens, call>>

(* deliver and reconcile load the workflow and await the promotion.        *)
BeginPromotion(k) ==
  /\ Serving
  /\ row.state = "delivery"
  /\ Begin(k, [op |-> "promote", loaded |-> row])
  /\ UNCHANGED <<row, frozen, tables>>

(* An aborted promotion moves nothing; a finished one transitions the      *)
(* record that was loaded before it.                                       *)
(* Mutant: an aborted promotion saves the record it loaded.                *)
FinishPromotion_restores(k) ==
  /\ Serving
  /\ call[k].op = "promote"
  /\ Deliver(call[k].loaded, row') \/ row' = call[k].loaded
  /\ End(k)
  /\ UNCHANGED <<frozen, tables>>

FinishPromotion(k) ==
  /\ Serving
  /\ call[k].op = "promote"
  /\ Deliver(call[k].loaded, row') \/ UNCHANGED row
  /\ End(k)
  /\ UNCHANGED <<frozen, tables>>

(* control: pause, resume, cancel, repair and retry.                       *)
ControlWorkflow ==
  /\ Serving
  /\ \/ Pause(row, row') \/ Resume(row, row') \/ Cancel(row, row')
     \/ BeginRepair(row, row')
     \/ \E n \in Extensions : /\ row.maxRepairCycles + n <= BudgetBound
                              /\ ResumeBlocked(row, row', n)
  /\ UNCHANGED <<frozen, tables, call>>

(* What a handler may have stored when the process dies inside it: each    *)
(* write is a transaction of its own.  Capabilities issued by a freeze     *)
(* that never answered are held by nobody.                                 *)
HalfWritten ==
  \/ /\ \E c \in Candidates \ frozen :
          /\ frozen' = frozen \cup {c}
          /\ CandidateReady(row, row', c) \/ UNCHANGED row
     /\ UNCHANGED tables
  \/ /\ \E k \in Calls, result \in {"passed", "failed"} : GatesRan(k, result)
     /\ UNCHANGED <<row, frozen, reviews, arbitration, tokens>>
  \/ /\ \E r \in Roles, d \in {"approved", "rejected"} : ReviewStored(r, d)
     /\ UNCHANGED <<row, frozen, evidence, arbitration, tokens>>
  \/ /\ \E d \in {"approved", "rejected"} : ArbitrationRecorded(d)
     /\ UNCHANGED <<row, frozen, evidence, reviews, tokens>>

Crash ==
  /\ crashes < MaxCrashes
  /\ crashes' = crashes + 1
  /\ call' = [k \in Calls |-> Idle]
  /\ starting' = FALSE
  /\ \/ UNCHANGED <<row, frozen, tables>>
     \/ ~starting /\ HalfWritten

Next ==
  \/ StartWorkflow \/ SubmitPlan \/ ReportTask \/ ControlWorkflow \/ Crash
  \/ \E c \in Candidates : FreezeCandidate(c)
  \/ \E r \in Roles : SubmitBrowserEvidence(r)
  \/ \E r \in Roles, d \in {"approved", "rejected"} : SubmitReviewVerdict(r, d)
  \/ \E d \in {"approved", "rejected"}, t \in RepairTargets : Arbitrate(d, t)
  \/ \E k \in Calls :
       \/ BeginVerify(k) \/ VerifyCandidate(k)
       \/ BeginProof(k) \/ RecordProof(k)
       \/ BeginPromotion(k) \/ FinishPromotion(k)

Spec == Init /\ [][Next]_vars

(* A call in flight is driven by the event loop (every gate and proof has  *)
(* a timeout), and the run skill verifies what it froze.                   *)
Fairness ==
  /\ WF_vars(StartWorkflow)
  /\ \A k \in Calls :
       /\ WF_vars(VerifyCandidate(k) \/ RecordProof(k) \/ FinishPromotion(k))
       /\ WF_vars(BeginVerify(k) /\ row.state = "verification")

FairSpec == Spec /\ Fairness

-----------------------------------------------------------------------------
(* Nothing is delivered unjudged: whatever was frozen, repaired, retried   *)
(* or left in flight before, the very candidate that is delivered was      *)
(* approved by the arbiter, on the full route by both reviewers, and on    *)
(* recorded mandatory evidence.                                            *)
NothingDeliveredUnjudged ==
  row.state \in {"delivery", "completed"} =>
    LET c == row.candidateId IN
    /\ c \in frozen
    /\ arbitration[c] = "approved"
    /\ row.mode = "full" => \A r \in Roles : reviews[c][r] = "approved"
    /\ \E g \in Gates : evidence[c][g] # "absent"

(* Whatever else rewrites the evidence, the mandatory capture of a         *)
(* candidate changes only at the price of one capability that was issued   *)
(* for it and unspent until then, and none of a recorded candidate is ever *)
(* issued again: two reviewers make two captures at most, retries          *)
(* included.                                                               *)
CaptureIsIndependent ==
  [][\A c \in Candidates :
       /\ c \in frozen => tokens'[c] \subseteq tokens[c]
       /\ evidence'[c].flow # evidence[c].flow =>
            c \in frozen /\ \E r \in tokens[c] : tokens'[c] = tokens[c] \ {r}]_vars

(* Every change of the stored row is a step of the workflow machine, with  *)
(* one exception: a promotion that outlived a cancellation.                *)
Wf == INSTANCE Workflow WITH workflow <- row

LateDelivery ==
  /\ row.state = "cancelled"
  /\ row' = [row EXCEPT !.state = "completed"]
  /\ arbitration[row.candidateId] = "approved"

FollowsMachine == Wf!Init /\ [][Wf!Next \/ LateDelivery]_row

(* An approval opens delivery only while the mandatory gates of the        *)
(* candidate under arbitration stand passed.                               *)
ApprovedOnGreenGates ==
  [][row.state # "delivery" /\ row'.state = "delivery"
       => mandatoryGatesPassed(evidence[row.candidateId])]_vars

(* A frozen candidate does not stay in verification for ever: in spite of  *)
(* crashes that lose the call or only its answer, and of verify calls that *)
(* race, some outcome arrives and moves it.                                *)
VerificationEnds == row.state = "verification" ~> row.state # "verification"

(* service.ts, of a workflow found in intake or in routing: "run /cycle:run *)
(* to route this request", so no workflow is left unrouted for good.       *)
StartedIsRouted ==
  row.state \in {"intake", "routing"} ~> row.state \notin {"intake", "routing"}

(* service.ts: "A cancelled workflow is terminal".                         *)
CancelledIsFinal == [][row.state # "cancelled"]_row

(* engine.ts: "every candidate's changed content is scanned before it can  *)
(* be reviewed".                                                           *)
ScannedBeforeReview ==
  row.state \in {"independent_reviews", "arbitration", "delivery"} =>
    evidence[row.candidateId].scan # "absent"

=============================================================================
