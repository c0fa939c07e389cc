------------------------------- MODULE Core ---------------------------------
(***************************************************************************)
(* The workflow aggregate of the daemon (workflow-core, workflow.rs) and   *)
(* the routing decision (routing.rs).                                      *)
(*                                                                         *)
(* `Workflow::apply` accepts a command or returns an error and leaves the  *)
(* aggregate alone: allowed(w, c) says which, apply(w, c) is the aggregate *)
(* after an accepted command.  A command is a record with a type, a        *)
(* candidate and an argument (mode, target or number), unused ones NoArg.  *)
(***************************************************************************)
EXTENDS Integers

CONSTANT Candidates      \* identifiers a client may freeze under

NoCandidate == 0
NoArg       == "none"

ASSUME CoreAssumption == Candidates \subseteq Nat \ {NoCandidate}

Terminal == {"completed", "cancelled"}

WorkflowStates ==
  Terminal \cup
  {"intake", "routing", "quick_execution", "architecture", "execution",
   "verification", "independent_reviews", "arbitration", "delivery",
   "repair", "paused", "blocked"}

Suspended == {"paused", "blocked"}
Running   == WorkflowStates \ (Suspended \cup Terminal)

Modes   == {"quick", "full"}
Targets == {"execution", "architecture"}

Workflow ==
  [state  : WorkflowStates, mode : Modes \cup {NoArg},
   candidate : Candidates \cup {NoCandidate}, target : Targets \cup {NoArg},
   cycles : 0..255, maximum : 1..255,
   paused_from : (Running \ {"verification", "delivery"}) \cup {NoArg},
   blocked_from : Running \cup {NoArg}]

new(maximum) ==
  [state |-> "intake", mode |-> NoArg, candidate |-> NoCandidate,
   target |-> NoArg, cycles |-> 0, maximum |-> maximum,
   paused_from |-> NoArg, blocked_from |-> NoArg]

Command(type, candidate, arg) == [type |-> type, candidate |-> candidate, arg |-> arg]

(* States each command is accepted in.                                     *)
From ==
  [complete_intake       |-> {"intake"},
   route                 |-> {"routing"},
   architecture_accepted |-> {"architecture"},
   candidate_ready       |-> {"quick_execution", "execution"},
   verification_passed   |-> {"verification"},
   verification_rejected |-> {"verification"},
   reviews_ready         |-> {"independent_reviews"},
   approve               |-> {"arbitration"},
   deliver               |-> {"delivery"},
   reject                |-> {"arbitration"},
   begin_repair          |-> {"repair"},
   pause                 |-> Running \ {"verification", "delivery"},
   resume                |-> {"paused"},
   cancel                |-> WorkflowStates \ Terminal,
   retry_infrastructure  |-> Running,
   resume_blocked        |-> {"blocked"},
   block_infrastructure  |-> Running,
   resume_infrastructure |-> {"blocked"},
   replan_execution      |-> {"execution"}]

NeedsCandidate ==
  {"verification_passed", "verification_rejected", "approve", "deliver", "reject"}

(* Cycles a control retry adds to an exhausted budget; the sum is a u8.    *)
AdditionalCycles == 5

(* Mutant: only the state and the candidate are looked at.                 *)
allowed_unguarded(w, c) ==
  /\ w.state \in From[c.type]
  /\ c.type \in NeedsCandidate => w.candidate # NoCandidate

allowed(w, c) ==
  /\ w.state \in From[c.type]
  /\ c.type \in NeedsCandidate => w.candidate # NoCandidate
  /\ c.type = "verification_passed" => w.mode # NoArg
  /\ c.type \in {"verification_rejected", "reject"} => w.cycles < 255
  /\ c.type = "begin_repair" => w.target # NoArg
  /\ c.type = "resume_blocked" => /\ w.blocked_from = NoArg
                                  /\ w.maximum + AdditionalCycles <= 255
  /\ c.type = "resume_infrastructure" => w.blocked_from # NoArg

(* Mutant: the candidate whose last cycle was spent is only blocked.       *)
rejected_uncounted(w, target) ==
  IF w.cycles + 1 >= w.maximum
  THEN [w EXCEPT !.target = target, !.state = "blocked"]
  ELSE [w EXCEPT !.cycles = @ + 1, !.target = target, !.state = "repair"]

rejected(w, target) ==
  [w EXCEPT !.cycles = @ + 1, !.target = target,
            !.state = IF w.cycles + 1 >= w.maximum THEN "blocked" ELSE "repair"]

apply(w, c) ==
  CASE c.type = "complete_intake"       -> [w EXCEPT !.state = "routing"]
    [] c.type = "route"                 ->
         [w EXCEPT !.mode = c.arg,
                   !.state = IF c.arg = "quick" THEN "quick_execution" ELSE "architecture"]
    [] c.type = "architecture_accepted" -> [w EXCEPT !.state = "execution"]
    [] c.type = "candidate_ready"       ->
         [w EXCEPT !.candidate = c.candidate, !.state = "verification"]
    [] c.type = "verification_passed"   ->
         [w EXCEPT !.state = IF w.mode = "quick" THEN "arbitration" ELSE "independent_reviews"]
    [] c.type \in {"verification_rejected", "reject"} -> rejected(w, c.arg)
    [] c.type = "reviews_ready"         -> [w EXCEPT !.state = "arbitration"]
    [] c.type = "approve"               -> [w EXCEPT !.state = "delivery"]
    [] c.type = "deliver"               -> [w EXCEPT !.state = "completed"]
    [] c.type = "begin_repair"          ->
         [w EXCEPT !.state = w.target, !.target = NoArg, !.candidate = NoCandidate]
    [] c.type = "pause"                 ->
         [w EXCEPT !.state = "paused", !.paused_from = w.state]
    [] c.type = "resume"                ->
         [w EXCEPT !.state = w.paused_from, !.paused_from = NoArg]
    [] c.type = "cancel"                ->
         [w EXCEPT !.state = "cancelled", !.paused_from = NoArg]
    [] c.type = "retry_infrastructure"  -> w
    [] c.type = "resume_blocked"        ->
         [w EXCEPT !.state = "repair", !.maximum = @ + AdditionalCycles]
    [] c.type = "block_infrastructure"  ->
         [w EXCEPT !.state = "blocked", !.blocked_from = w.state]
    [] c.type = "resume_infrastructure" ->
         [w EXCEPT !.state = w.blocked_from, !.blocked_from = NoArg]
    [] c.type = "replan_execution"      -> [w EXCEPT !.state = "architecture"]

-----------------------------------------------------------------------------
(* route_workflow: critical categories found, one of them backed by an     *)
(* affected path, the user's preference and his approval of a downgrade.   *)
route_workflow(preference, criticals, pathBacked, approval) ==
  IF \/ preference = "full"
     \/ preference = "quick" /\ criticals > 0 /\ ~approval
     \/ preference = "auto" /\ (pathBacked \/ criticals >= 2)
  THEN "full" ELSE "quick"
=============================================================================
