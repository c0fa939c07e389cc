------------------------------- MODULE Daemon -------------------------------
(***************************************************************************)
(* One workflow in the daemon: the request handlers of lifecycle.rs over   *)
(* the store (workflow-store).                                             *)
(*                                                                         *)
(* A handler holds the store's mutex while it runs a series of database    *)
(* transactions; `pending` is what is left of the series.  Freezing and    *)
(* verifying drop the mutex for their long work: they are `flights`, which *)
(* take it again some time after the work is done.  The worktree may       *)
(* change at any time, so comparing it with what was frozen may come out   *)
(* either way.  A crash loses pending transactions and flights; committed  *)
(* transactions remain.  Clients repeat requests, submit them twice and in *)
(* any order.                                                              *)
(***************************************************************************)
EXTENDS Core, Sequences, FiniteSets, Bags

CONSTANTS
  Plans,          \* identifiers of verification plans
  Designs,        \* architecture plans, by digest
  MaxCycles,      \* initial repair budget (five in the code)
  MaxDisturbances \* crashes, pauses, execution reports and overlapping flights

ASSUME DaemonAssumption ==
  /\ 0 \notin Plans /\ Designs \subseteq Nat \ {0}
  /\ MaxCycles \in 1..255
  /\ MaxDisturbances \in Nat

Roles    == {"functional", "security"}
Outcomes == {"passed", "failed", "skipped"}
Verdicts == {"approved"} \cup Targets     \* a rejection names its target

(* discover_for: every gate it plans is mandatory.  The suite stands for   *)
(* the commands, the secret scan and what needs a browser or a service;    *)
(* the other gate compares the worktree with what was frozen.              *)
Gates == {"suite", "integrity"}

VARIABLES
  wf,         \* workflows.state_json
  keys,       \* command_deduplication: <<key, candidate or plan, target>>;
              \* and workflow_constraints: <<"essentiality", 0, NoArg>>
  design,     \* workflow_architecture, 0 when there is none
  plans,      \* workflow_verification_plans
  manifest,   \* workflow_candidates: plan of each, 0 when not saved
  evidence,   \* workflow_evidence: latest outcome of every gate
  reviews,    \* workflow_reviews
  verdict,    \* workflow_arbitration
  reserved,   \* a row in candidate_delivery_reservations
  ledger,     \* audited facts: <<action, candidate, detail>>
  flights,    \* bag of the long operations under way
  pending, promoting, disturbances, crashed

store == <<wf, keys, design, plans, manifest, evidence, reviews, verdict, reserved, ledger>>
vars  == <<store, flights, pending, promoting, disturbances, crashed>>

Flight(kind, c, p) == [kind |-> kind, c |-> c, plan |-> p]

(* A transaction still to run: a command under its idempotency key, a row  *)
(* of evidence, a constraint or an audit record.                           *)
Tx(key, command) == [op |-> "command", key |-> key, command |-> command]
Audit(action, c, detail) == [op |-> "audit", key |-> <<action, c, detail>>,
                             command |-> Command(NoArg, c, NoArg)]
Evidence(c, gate, outcome) == [op |-> "evidence", key |-> <<gate, c, outcome>>,
                               command |-> Command(NoArg, c, NoArg)]
Constraint(kind) == [op |-> "constraint", key |-> <<kind, 0, NoArg>>,
                     command |-> Command(NoArg, NoCandidate, NoArg)]

Init ==
  /\ wf = new(MaxCycles)
  /\ keys = {} /\ design = 0 /\ plans = {}
  /\ manifest = [c \in Candidates |-> 0]
  /\ evidence = [c \in Candidates |-> [g \in Gates |-> NoArg]]
  /\ reviews = [c \in Candidates |-> [r \in Roles |-> NoArg]]
  /\ verdict = [c \in Candidates |-> NoArg]
  /\ reserved = FALSE /\ ledger = {}
  /\ flights = EmptyBag /\ pending = <<>> /\ promoting = FALSE
  /\ disturbances = 0 /\ crashed = FALSE

-----------------------------------------------------------------------------
(* The mutex is free: a request, or a flight whose work is done, takes it. *)
Free == pending = <<>>

(* Clients draw fresh identifiers: here, in order.                         *)
Fresh(id, used) == \A n \in 1..(id - 1) : n \in used

(* One more of what makes a behaviour unusual; bounded for TLC.            *)
Disturb ==
  /\ disturbances < MaxDisturbances
  /\ disturbances' = disturbances + 1

Executing == wf.state \in {"execution", "quick_execution"}
Saved(c)  == manifest[c] # 0

(* Mutant: the persisted result of a command is not looked up.             *)
apply_workflow_command_again(key, command) ==
  IF reserved \/ ~allowed(wf, command)
  THEN pending' = <<>> /\ UNCHANGED <<wf, keys>>
  ELSE /\ wf' = apply(wf, command)
       /\ keys' = keys \cup {key}
       /\ pending' = (IF wf'.state = "repair" /\ wf.state # "repair"
                          /\ command.type \in {"verification_rejected", "reject"}
                      THEN <<Tx(<<"begin-repair", command.candidate, NoArg>>,
                                Command("begin_repair", command.candidate, NoArg))>>
                      ELSE <<>>) \o Tail(pending)

(* apply_workflow_command: refused while a delivery is reserved, answered  *)
(* from the stored result when the key is known, otherwise one transaction *)
(* over state and key.  An error ends the handler.  repair::route continues*)
(* a rejection that left budget with BeginRepair.                          *)
apply_workflow_command(key, command) ==
  IF reserved \/ (key \notin keys /\ ~allowed(wf, command))
  THEN pending' = <<>> /\ UNCHANGED <<wf, keys>>
  ELSE /\ wf' = IF key \in keys THEN wf ELSE apply(wf, command)
       /\ keys' = keys \cup {key}
       /\ pending' = (IF wf'.state = "repair" /\ wf.state # "repair"
                          /\ command.type \in {"verification_rejected", "reject"}
                      THEN <<Tx(<<"begin-repair", command.candidate, NoArg>>,
                                Command("begin_repair", command.candidate, NoArg))>>
                      ELSE <<>>) \o Tail(pending)

(* The identifiers of the evidence come from the plan: when another        *)
(* candidate was verified under it they are taken, and the handler ends.   *)
(* A repeated gate adds an attempt, and the latest attempt counts.         *)
save_evidence_once(c, gate, outcome) ==
  IF \E d \in Candidates \ {c} :
       manifest[d] = manifest[c] /\ evidence[d][gate] # NoArg
  THEN pending' = <<>> /\ UNCHANGED evidence
  ELSE /\ evidence' = [evidence EXCEPT ![c][gate] = outcome]
       /\ pending' = Tail(pending)

(* audit::record: an entry of the chain and, in time, a checkpoint (module *)
(* Ledger).                                                                *)
record(key) == ledger' = ledger \cup {key}

(* A constraint is a row of its own; only its first writer audits it.      *)
save_constraint_once(key) ==
  /\ keys' = keys \cup {key}
  /\ pending' = (IF key \in keys THEN <<>> ELSE <<Audit(key[1], key[2], key[3])>>)
                \o Tail(pending)

(* The handler in progress runs its next transaction.                      *)
Continue ==
  /\ pending # <<>>
  /\ LET tx == Head(pending)
     IN \/ /\ tx.op = "command"
           /\ apply_workflow_command(tx.key, tx.command)
           /\ UNCHANGED <<evidence, ledger>>
        \/ /\ tx.op = "evidence"
           /\ save_evidence_once(tx.key[2], tx.key[1], tx.key[3])
           /\ UNCHANGED <<wf, keys, ledger>>
        \/ /\ tx.op = "audit"
           /\ record(tx.key)
           /\ pending' = Tail(pending)
           /\ UNCHANGED <<wf, keys, evidence>>
        \/ /\ tx.op = "constraint"
           /\ save_constraint_once(tx.key)
           /\ UNCHANGED <<wf, evidence, ledger>>
  /\ UNCHANGED <<design, plans, manifest, reviews, verdict, reserved,
                 flights, promoting, disturbances, crashed>>

-----------------------------------------------------------------------------
(* Requests.                                                               *)

(* What the request and the affected paths show: how many critical         *)
(* categories, and whether a path backs one of them.                       *)
automatic_evidence ==
  {e \in [criticals : 0..2, pathBacked : BOOLEAN] : e.pathBacked => e.criticals > 0}

(* The decision is audited before it is applied.                           *)
decide_and_record(mode) == Audit("route", 0, mode)

(* start_workflow: intake, then the routing decision; a repeated request   *)
(* resumes where the state is.                                             *)
StartWorkflow ==
  /\ Free
  /\ wf.state \in {"intake", "routing"}
  /\ \E preference \in {"auto", "quick", "full"}, found \in automatic_evidence,
        approval \in BOOLEAN :
       LET mode == route_workflow(preference, found.criticals, found.pathBacked, approval)
       IN pending' =
            (IF wf.state = "intake"
             THEN <<Tx(<<"complete-intake", 0, NoArg>>,
                       Command("complete_intake", NoCandidate, NoArg))>>
             ELSE <<>>)
            \o <<decide_and_record(mode),
                 Tx(<<"route", 0, NoArg>>, Command("route", NoCandidate, mode))>>
  /\ UNCHANGED <<store, flights, promoting, disturbances, crashed>>

(* save_architecture_once: another plan only while replanning a repair.    *)
save_architecture_once(d) ==
  /\ Fresh(d, 1..design)
  /\ design \in {0, d} \/ (wf.state = "architecture" /\ wf.cycles > 0)
  /\ design' = d

(* accept_architecture: plan, constraint and its audit entry, then the     *)
(* command.  Quick workflows submit their plan while executing; in other   *)
(* states the request ends with an error, after the constraint is saved.   *)
AcceptArchitecture(d) ==
  /\ Free
  /\ wf.state # "intake"
  /\ save_architecture_once(d)
  /\ pending' =
       <<Constraint("essentiality")>>
       \o (IF wf.state = "architecture"
           THEN <<Tx(<<"architecture-accepted", d, NoArg>>,
                     Command("architecture_accepted", NoCandidate, NoArg))>>
           ELSE <<>>)
  /\ UNCHANGED <<wf, keys, plans, manifest, evidence, reviews, verdict, reserved, ledger,
                 flights, promoting, disturbances, crashed>>

(* report_execution: a blocked execution or a plan defect, under a fresh   *)
(* report identifier.                                                      *)
ReportExecution ==
  /\ Free /\ Disturb /\ wf.state # "intake"
  /\ \E type \in {"block_infrastructure", "replan_execution"} :
       LET command == Command(type, NoCandidate, NoArg)
       IN ~reserved /\ allowed(wf, command) /\ wf' = apply(wf, command)
  /\ UNCHANGED <<keys, design, plans, manifest, evidence, reviews, verdict, reserved, ledger,
                 flights, pending, promoting, crashed>>

(* A retry of a blocked workflow resumes what the infrastructure           *)
(* interrupted, or else extends the repair budget.                         *)
command_of(operation) ==
  LET Do(type) == Command(type, NoCandidate, NoArg)
  IN CASE operation # "retry"      -> Do(operation)
       [] wf.state # "blocked"     -> Do("retry_infrastructure")
       [] allowed(wf, Do("resume_infrastructure")) -> Do("resume_infrastructure")
       [] OTHER                    -> Do("resume_blocked")

(* control::execute, under a fresh operation identifier.                   *)
Control(operation) ==
  /\ Free /\ wf.state # "intake" /\ ~reserved
  /\ IF operation = "pause"
     THEN Disturb ELSE UNCHANGED disturbances
  /\ ~(operation = "retry" /\ wf.state = "delivery")
  /\ allowed(wf, command_of(operation))
  /\ wf' = apply(wf, command_of(operation))
  /\ UNCHANGED <<keys, design, plans, manifest, evidence, reviews, verdict, reserved, ledger,
                 flights, pending, promoting, crashed>>

-----------------------------------------------------------------------------
(* Long operations.                                                        *)

Launch(f) ==
  /\ Free
  /\ IF flights = EmptyBag THEN UNCHANGED disturbances ELSE Disturb
  /\ flights' = flights (+) SetToBag({f})
  /\ UNCHANGED <<store, pending, promoting, crashed>>

(* save_verification_plan_once.                                            *)
save_verification_plan_once(p) == plans' = plans \cup {p}

(* plan_verification.  The state is not looked at again when the gates     *)
(* have been discovered; a plan saved late serves the next execution.      *)
PlanVerification(p) ==
  /\ Free
  /\ p \in Plans \ plans /\ Executing /\ design # 0
  /\ save_verification_plan_once(p)
  /\ UNCHANGED <<wf, keys, design, manifest, evidence, reviews, verdict, reserved, ledger,
                 flights, pending, promoting, disturbances, crashed>>

(* Mutant: a candidate is frozen whatever the workflow is doing.           *)
validate_candidate_state_any(c) == wf.state \notin Terminal

validate_candidate_state(c) ==
  Executing \/ (wf.state = "verification" /\ wf.candidate = c)

(* candidate::freeze reads a clean worktree at a descendant of its base:   *)
(* the frozen manifest carries the evidence identifiers of the plan.       *)
freeze(c, p) == Flight("freeze", c, p)

FreezeCandidate(c, p) ==
  /\ p \in plans /\ ~Saved(c)
  /\ Fresh(c, {d \in Candidates : Saved(d)})
  /\ validate_candidate_state(c)
  /\ Launch(freeze(c, p))

(* A known candidate is only put forward again.                            *)
RefreezeCandidate(c) ==
  /\ Free
  /\ Saved(c) /\ Executing
  /\ pending' = <<Tx(<<"candidate", c, NoArg>>, Command("candidate_ready", c, NoArg))>>
  /\ UNCHANGED <<store, flights, promoting, disturbances, crashed>>

VerifyCandidate(c) ==
  /\ wf.state = "verification" /\ wf.candidate = c
  /\ Launch(Flight("verify", c, manifest[c]))

Landed(f) ==
  /\ Free
  /\ flights' = flights (-) SetToBag({f})
  /\ UNCHANGED <<promoting, disturbances, crashed>>

(* The work failed and the request ends with an error: a worktree that     *)
(* cannot be read or is not the frozen one, a command that cannot be run.  *)
Abandon(f) == Landed(f) /\ UNCHANGED <<store, pending>>

(* A second freeze under the same identifier may have read another         *)
(* worktree, and is then refused.                                          *)
save_candidate_once(c, p) ==
  /\ manifest[c] \in {0, p}
  /\ manifest' = [manifest EXCEPT ![c] = p]

(* The state is checked again; the candidate is saved, made current and    *)
(* audited.                                                                *)
FinishFreeze(f) ==
  /\ f.kind = "freeze"
  /\ Landed(f)
  /\ validate_candidate_state(f.c)
  /\ save_candidate_once(f.c, f.plan)
  /\ pending' = <<Tx(<<"candidate", f.c, NoArg>>, Command("candidate_ready", f.c, NoArg)),
                  Audit("frozen", f.c, NoArg)>>
  /\ UNCHANGED <<wf, keys, design, plans, evidence, reviews, verdict, reserved, ledger>>

(* repair::route refuses a candidate that is no longer the current one.    *)
route(c, target) ==
  IF wf.candidate # c \/ wf.state \notin {"verification", "arbitration"} THEN <<>>
  ELSE <<Tx(<<"reject", c, target>>,
            Command(IF wf.state = "verification" THEN "verification_rejected" ELSE "reject",
                    c, target))>>

(* What the checks may come to: a command exits, or is killed when its     *)
(* time is over; the scan reads the frozen diff and the worktree, which    *)
(* may have changed, and an unreadable file fails it; a browser gate       *)
(* passes with a valid attestation.                                        *)
execute_command      == {"passed", "failed"}
scan                 == {"passed", "failed"}
verify_frozen        == {"passed", "failed"}
managed_browser_gate == {"passed"}

(* A gate that is unavailable and not attested is skipped.                 *)
run_gate(gate) ==
  IF gate = "integrity" THEN verify_frozen
  ELSE execute_command \cup scan \cup managed_browser_gate \cup {"skipped"}

(* run_with_attestations: all gates are mandatory and all of them run.     *)
(* Before them the worktree is compared with what was frozen, and the      *)
(* request abandoned when it differs.                                      *)
mandatory_passed(results)       == \A g \in Gates : results[g] = "passed"
infrastructure_blocked(results) == \E g \in Gates : results[g] = "skipped"

(* The second half of verify_candidate looks at the project only, not at   *)
(* the workflow: evidence is stored and audited gate by gate, and the      *)
(* command is left to the state machine.                                   *)
FinishVerify(f) ==
  /\ f.kind = "verify"
  /\ Landed(f)
  /\ \E results \in [Gates -> Outcomes] :
       /\ \A g \in Gates : results[g] \in run_gate(g)
       /\ LET Stored(gate) == <<Evidence(f.c, gate, results[gate]),
                                Audit("verification", f.c, gate)>>
          IN pending' = Stored("suite") \o Stored("integrity") \o
               CASE mandatory_passed(results) ->
                      <<Tx(<<"verification-passed", f.c, NoArg>>,
                           Command("verification_passed", f.c, NoArg))>>
                 [] infrastructure_blocked(results) ->
                      <<Tx(<<"verification-blocked", f.c, NoArg>>,
                           Command("block_infrastructure", f.c, NoArg))>>
                 [] OTHER -> route(f.c, "execution")
  /\ UNCHANGED store

-----------------------------------------------------------------------------
(* Judgement.                                                              *)

load_candidate_evidence(c) == {g \in Gates : evidence[c][g] # NoArg}

(* A review is bound to the candidate and cites its evidence for every     *)
(* requirement, so some must be stored.                                    *)
validate_review(c) == load_candidate_evidence(c) # {}

(* Mutant: the verdict need not cite evidence.                             *)
validate_verdict_uncited(c, v) == Saved(c)

(* So does the verdict.  A rejection names a target, which Verdicts says.  *)
validate_verdict(c, v) == load_candidate_evidence(c) # {} /\ v \in Verdicts

ReviewsReady(c, saved) ==
  IF (\A r \in Roles : saved[c][r] # NoArg) /\ wf.state = "independent_reviews"
  THEN <<Tx(<<"reviews-ready", c, NoArg>>, Command("reviews_ready", c, NoArg))>>
  ELSE <<>>

(* A repeated review is a duplicate, a different one is refused.           *)
save_review_once(c, r, decision) ==
  /\ \/ reviews[c][r] = decision
     \/ /\ reviews[c][r] = NoArg
        /\ wf.state = "independent_reviews" /\ wf.candidate = c
        /\ validate_review(c)
  /\ reviews' = [reviews EXCEPT ![c][r] = decision]

(* submit_review: the second of the two closes the stage.                  *)
SubmitReview(c, r, decision) ==
  /\ Free
  /\ save_review_once(c, r, decision)
  /\ pending' = (IF reviews[c][r] = decision THEN <<>> ELSE <<Audit("review", c, r)>>)
                \o ReviewsReady(c, reviews')
  /\ UNCHANGED <<wf, keys, design, plans, manifest, evidence, verdict, reserved, ledger,
                 flights, promoting, disturbances, crashed>>

(* Mutant: the arbiter may approve over a rejecting review.                *)
approval_requirements_noReviews(c) ==
  \A g \in load_candidate_evidence(c) : evidence[c][g] = "passed"

approval_requirements(c) ==
  /\ \A g \in load_candidate_evidence(c) : evidence[c][g] = "passed"
  /\ wf.mode = "full" => \A r \in Roles : reviews[c][r] = "approved"

save_arbitration_once(c, v) ==
  /\ verdict[c] = NoArg
  /\ verdict' = [verdict EXCEPT ![c] = v]

(* submit_arbitration.  A repeated verdict returns the stored receipt and  *)
(* applies nothing.                                                        *)
SubmitArbitration(c, v) ==
  /\ Free
  /\ wf.state = "arbitration" /\ wf.candidate = c
  /\ validate_verdict(c, v)
  /\ wf.mode = "full" => \A r \in Roles : reviews[c][r] # NoArg
  /\ v = "approved" => approval_requirements(c)
  /\ save_arbitration_once(c, v)
  /\ pending' =
       (IF v = "approved"
        THEN <<Tx(<<"approved", c, NoArg>>, Command("approve", c, NoArg))>>
        ELSE route(c, v)) \o <<Audit("arbitration", c, v)>>
  /\ UNCHANGED <<wf, keys, design, plans, manifest, evidence, reviews, reserved, ledger,
                 flights, promoting, disturbances, crashed>>

-----------------------------------------------------------------------------
(* PromoteCandidate; module Promotion has what happens in between.         *)

ReserveDelivery(c) ==
  /\ Free /\ ~promoting
  /\ wf.state = "delivery" /\ wf.candidate = c
  /\ verdict[c] = "approved"
  /\ reserved' = TRUE /\ promoting' = TRUE
  /\ UNCHANGED <<wf, keys, design, plans, manifest, evidence, reviews, verdict, ledger,
                 flights, pending, disturbances, crashed>>

(* Delivered; failed and released; failed with a journal left behind.      *)
EndPromotion ==
  /\ Free /\ promoting
  /\ promoting' = FALSE
  /\ \/ wf' = apply(wf, Command("deliver", wf.candidate, NoArg)) /\ reserved' = FALSE
     \/ reserved' = FALSE /\ UNCHANGED wf
     \/ UNCHANGED <<wf, reserved>>
  /\ UNCHANGED <<keys, design, plans, manifest, evidence, reviews, verdict, ledger,
                 flights, pending, disturbances, crashed>>

-----------------------------------------------------------------------------
(* A crash that only loses flights is their abandonment.                   *)
Crash ==
  /\ Disturb
  /\ pending # <<>> \/ promoting
  /\ crashed' = TRUE
  /\ flights' = EmptyBag /\ pending' = <<>> /\ promoting' = FALSE
  /\ UNCHANGED store

Client ==
  \/ StartWorkflow
  \/ \E d \in Designs : AcceptArchitecture(d)
  \/ \E p \in Plans : PlanVerification(p)
  \/ \E c \in Candidates :
       \/ \E p \in Plans : FreezeCandidate(c, p)
       \/ RefreezeCandidate(c)
       \/ VerifyCandidate(c)
       \/ \E r \in Roles, d \in {"approved", "rejected"} : SubmitReview(c, r, d)
       \/ \E v \in Verdicts : SubmitArbitration(c, v)
       \/ ReserveDelivery(c)

Daemon ==
  \/ Continue \/ EndPromotion
  \/ \E f \in BagToSet(flights) : Abandon(f) \/ FinishFreeze(f) \/ FinishVerify(f)

User == ReportExecution \/ \E o \in {"pause", "resume", "cancel", "retry"} : Control(o)

Next == Client \/ Daemon \/ User \/ Crash

Spec == Init /\ [][Next]_vars

-----------------------------------------------------------------------------
(* The state a paused or interrupted workflow will resume in.              *)
Stage ==
  CASE wf.state = "paused" -> wf.paused_from
    [] wf.state = "blocked" /\ wf.blocked_from # NoArg -> wf.blocked_from
    [] OTHER -> wf.state

Rejected == {k[2] : k \in {key \in keys : key[1] = "reject"}}

(* Types.                                                                  *)
TypeOK ==
  /\ wf \in Workflow
  /\ design \in Designs \cup {0} /\ plans \subseteq Plans
  /\ manifest \in [Candidates -> Plans \cup {0}]
  /\ evidence \in [Candidates -> [Gates -> Outcomes \cup {NoArg}]]
  /\ reviews \in [Candidates -> [Roles -> {"approved", "rejected", NoArg}]]
  /\ verdict \in [Candidates -> Verdicts \cup {NoArg}]
  /\ reserved \in BOOLEAN /\ promoting \in BOOLEAN
  /\ disturbances \in 0..MaxDisturbances /\ crashed \in BOOLEAN

(* verify_candidate does not look at the workflow again when its gates     *)
(* have run, so a late run of a rejected candidate can carry its successor *)
(* past verification.  The hole ends before delivery: what is delivered    *)
(* was itself run through the gates, through all of them unless a crash    *)
(* cut the storing of its evidence short.                                  *)
OnlyVerifiedDelivered ==
  Stage \in {"delivery", "completed"} =>
    /\ Saved(wf.candidate)
    /\ \E g \in Gates : evidence[wf.candidate][g] # NoArg
    /\ ~crashed => \A g \in Gates : evidence[wf.candidate][g] # NoArg

(* What is delivered carries the arbiter's approval and, on the full       *)
(* route, both approving reviews, whatever was retried, repeated or        *)
(* interrupted on the way.                                                 *)
DeliveryIsJudged ==
  Stage \in {"delivery", "completed"} =>
    /\ verdict[wf.candidate] = "approved"
    /\ wf.mode = "full" => \A r \in Roles : reviews[wf.candidate][r] = "approved"

(* A rejected candidate is current only until its repair begins: no retry, *)
(* repeated freeze or late run of the gates brings it back.                *)
RejectedNeverReturns ==
  wf.candidate \in Rejected => Stage \in {"repair", "blocked", "cancelled"}

(* Every rejected candidate costs exactly one repair cycle, however often  *)
(* its rejection is attempted.                                             *)
CyclesCountRejections == wf.cycles = Cardinality(Rejected)

(* The audit chain and the store agree between requests: nothing is        *)
(* audited that was not committed, the applied route is an audited one,    *)
(* and without a crash nothing that was committed is missing.              *)
LedgerAgrees ==
  pending = <<>> =>
    /\ wf.mode # NoArg => <<"route", 0, wf.mode>> \in ledger
    /\ \A c \in Candidates :
         /\ <<"frozen", c, NoArg>> \in ledger => <<"candidate", c, NoArg>> \in keys
         /\ \A v \in Verdicts : <<"arbitration", c, v>> \in ledger => verdict[c] = v
         /\ ~crashed =>
              /\ Saved(c) => <<"frozen", c, NoArg>> \in ledger
              /\ verdict[c] # NoArg => <<"arbitration", c, verdict[c]>> \in ledger
              /\ \A r \in Roles : reviews[c][r] # NoArg => <<"review", c, r>> \in ledger
              /\ \A g \in Gates : evidence[c][g] # NoArg =>
                   <<"verification", c, g>> \in ledger
=============================================================================
