------------------------------- MODULE Goals --------------------------------
(***************************************************************************)
(* Goals of one project: the aggregate of workflow-core (goal.rs), its     *)
(* tables in workflow-store (goals.rs) and the handler of the daemon       *)
(* (workflowd goal.rs).                                                    *)
(*                                                                         *)
(* A request is handled under the store's mutex as a series of database    *)
(* transactions; `pending` is what is left of the series, and a crash      *)
(* loses it.  A reply may be lost, and the operation is then sent again    *)
(* under the same identifier.                                              *)
(***************************************************************************)
EXTENDS Integers, Sequences, FiniteSets

CONSTANTS
  GoalIds, Workflows, Milestones, Sessions,
  Contents,           \* plan documents
  MaxContinuations,   \* limit a goal is created with
  MaxAmendments,
  MaxCrashes,
  None

ASSUME GoalsAssumption ==
  /\ MaxContinuations \in 1..255
  /\ MaxAmendments \in Nat /\ MaxCrashes \in Nat
  /\ None \notin GoalIds \cup Workflows \cup Milestones \cup Sessions \cup Contents

GoalStates == {"draft", "planning", "ready", "active", "paused", "blocked",
               "completing", "completed", "aborted"}
is_terminal(state) == state \in {"completed", "aborted"}

Pausable  == {"planning", "ready", "active"}
Blockable == {"planning", "active", "completing"}

Goal == [state : GoalStates, continuations : 0..255, amendments : Nat,
         paused_from : Pausable \cup {None}, blocked_from : Blockable \cup {None}]

(* An absent row is neither a goal nor a link.                             *)
ASSUME RowAssumption == None \notin Goal \cup (GoalIds \X Milestones)

new == [state |-> "draft", continuations |-> 0, amendments |-> 0,
        paused_from |-> None, blocked_from |-> None]

VARIABLES
  goals,       \* goals.goal_json, None when there is no row
  focus,       \* goal_focus
  plans,       \* goal_plans: contents in the order of their revisions
  links,       \* goal_workflows: <<goal, milestone>> of each workflow
  workflow,    \* workflow_requests and workflows of the linked side
  unaudited,   \* handled requests of each goal without a ledger record
  operations,  \* distinct continuations and amendments the clients sent
  lost,        \* an applied operation whose reply did not arrive
  late,        \* workflows linked to a goal that had already ended
  pending, crashes

store  == <<goals, focus, plans, links, unaudited>>
client == <<operations, lost, late>>
vars   == <<store, client, workflow, pending, crashes>>

Init ==
  /\ goals = [g \in GoalIds |-> None]
  /\ focus = [s \in Sessions |-> None]
  /\ plans = [g \in GoalIds |-> <<>>]
  /\ links = [w \in Workflows |-> None]
  /\ workflow = [w \in Workflows |-> "absent"]
  /\ unaudited = [g \in GoalIds |-> 0]
  /\ operations = [g \in GoalIds |-> [continue |-> 0, amend |-> 0]]
  /\ lost = None /\ late = {} /\ pending = <<>> /\ crashes = 0

-----------------------------------------------------------------------------
(* Goal::apply.                                                            *)

Actions == {"start_planning", "mark_ready", "activate", "pause", "resume", "block",
            "resume_blocked", "continue", "request_completion",
            "approve_completion", "reject_completion", "abort"}

From ==
  [start_planning     |-> {"draft"},      mark_ready     |-> {"planning"},
   activate           |-> {"ready"},      pause          |-> Pausable,
   resume             |-> {"paused"},     block          |-> Blockable,
   resume_blocked     |-> {"blocked"},    continue       |-> {"active"},
   request_completion |-> {"active"},     approve_completion |-> {"completing"},
   reject_completion  |-> {"completing"},
   abort |-> {state \in GoalStates : ~is_terminal(state)}]

To == [start_planning |-> "planning", mark_ready |-> "ready", activate |-> "active",
       request_completion |-> "completing", approve_completion |-> "completed",
       reject_completion |-> "active"]

(* The continuation that reaches the limit also blocks the goal.           *)
continue_goal(goal) ==
  LET counted == [goal EXCEPT !.continuations = @ + 1]
  IN IF counted.continuations >= MaxContinuations
     THEN [counted EXCEPT !.state = "blocked", !.blocked_from = goal.state]
     ELSE counted

(* Mutant: whatever has not ended can be paused, a pause included.         *)
allowed_pauseTwice(goal, action) ==
  IF action = "pause" THEN ~is_terminal(goal.state)
  ELSE goal.state \in From[action] /\ (action = "continue" => goal.continuations < 255)

allowed(goal, action) ==
  /\ goal.state \in From[action]
  /\ action = "continue" => goal.continuations < 255

apply(goal, action) ==
  CASE action = "pause" -> [goal EXCEPT !.state = "paused", !.paused_from = goal.state]
    [] action = "resume" -> [goal EXCEPT !.state = goal.paused_from, !.paused_from = None]
    [] action = "block" -> [goal EXCEPT !.state = "blocked", !.blocked_from = goal.state]
    [] action = "resume_blocked" ->
         [goal EXCEPT !.state = goal.blocked_from, !.blocked_from = None]
    [] action = "continue" -> continue_goal(goal)
    [] action = "abort" ->
         [goal EXCEPT !.state = "aborted", !.paused_from = None, !.blocked_from = None]
    [] OTHER -> [goal EXCEPT !.state = To[action]]

-----------------------------------------------------------------------------
(* What the handlers share.                                                *)

Idle == pending = <<>>

(* A row whose count is past its limit does not deserialize.               *)
try_from(goal) == goal.continuations <= MaxContinuations

load_goal(g) == goals[g] # None /\ try_from(goals[g])

(* There is one project here, and it owns every goal.                      *)
require_owner(g) == load_goal(g)

goal_workflows(g) == {w \in Workflows : links[w] # None /\ links[w][1] = g}

(* What a handler still has to commit: `rest`, then its ledger record.     *)
Handle(g, rest) ==
  /\ pending' = Append(rest, [op |-> "audit", goal |-> g, detail |-> None])
  /\ unaudited' = [unaudited EXCEPT ![g] = @ + 1]

(* Mutant: milestones are not looked at, only whether the work has ended.  *)
completable_cancelled(g) ==
  LET linked == goal_workflows(g)
  IN linked # {} /\ \A w \in linked : workflow[w] \in {"completed", "cancelled"}

(* validate_control on a completion: all linked work has ended and every   *)
(* milestone has a completed workflow.                                     *)
completable(g) ==
  LET linked == goal_workflows(g)
  IN /\ linked # {}
     /\ \A w \in linked : workflow[w] \in {"completed", "cancelled"}
     /\ \A w \in linked : \E v \in linked :
          links[v][2] = links[w][2] /\ workflow[v] = "completed"

(* Reasons and completion evidence are texts the client brings along.      *)
validate_control(g, action) ==
  /\ action = "mark_ready" => plans[g] # <<>>
  /\ action \in {"request_completion", "approve_completion"} => completable(g)

-----------------------------------------------------------------------------
(* goal::execute.                                                          *)

(* The same goal is accepted again only while it is untouched.             *)
save_goal_once(g) ==
  /\ goals[g] \in {None, new}
  /\ goals' = [goals EXCEPT ![g] = new]

Create(g, s) ==
  /\ Idle
  /\ save_goal_once(g)
  /\ Handle(g, <<[op |-> "focus", goal |-> g, detail |-> s]>>)
  /\ UNCHANGED <<focus, plans, links, client, workflow, crashes>>

append_amendment(goal) == [goal EXCEPT !.amendments = @ + 1]

(* Under an identifier that is new.                                        *)
append_goal_amendment(g) ==
  /\ ~is_terminal(goals[g].state)
  /\ goals' = [goals EXCEPT ![g] = append_amendment(@)]

Amend(g) ==
  /\ Idle /\ require_owner(g)
  /\ goals[g].amendments < MaxAmendments
  /\ append_goal_amendment(g)
  /\ operations' = [operations EXCEPT ![g].amend = @ + 1]
  /\ lost' \in {lost, [goal |-> g, action |-> "amend"]}
  /\ Handle(g, <<>>)
  /\ UNCHANGED <<focus, plans, links, late, workflow, crashes>>

(* Under an identifier that is new: state and identifier in one            *)
(* transaction.                                                            *)
apply_goal_command(g, action) ==
  /\ allowed(goals[g], action)
  /\ goals' = [goals EXCEPT ![g] = apply(@, action)]

Control(g, action) ==
  /\ Idle /\ require_owner(g)
  /\ validate_control(g, action)
  /\ apply_goal_command(g, action)
  /\ operations' = [operations EXCEPT ![g].continue = IF action = "continue" THEN @ + 1 ELSE @]
  /\ lost' \in {lost, [goal |-> g, action |-> action]}
  /\ Handle(g, <<>>)
  /\ UNCHANGED <<focus, plans, links, late, workflow, crashes>>

(* Mutant: the identifier of the operation is not looked up.               *)
Retry_again ==
  /\ Idle /\ lost # None
  /\ lost' = None
  /\ LET g == lost.goal IN
       /\ load_goal(g) /\ ~is_terminal(goals[g].state)
       /\ \/ /\ lost.action = "amend"
             /\ append_goal_amendment(g)
          \/ /\ lost.action # "amend" /\ validate_control(g, lost.action)
             /\ apply_goal_command(g, lost.action)
       /\ Handle(g, <<>>)
  /\ UNCHANGED <<focus, plans, links, operations, late, workflow, crashes>>

(* The operation whose reply was lost is sent again: its checks run again, *)
(* its stored result is returned, and it is audited once more.             *)
Retry ==
  /\ Idle /\ lost # None
  /\ require_owner(lost.goal)
  /\ lost.action # "amend" => validate_control(lost.goal, lost.action)
  /\ lost' = None
  /\ Handle(lost.goal, <<>>)
  /\ UNCHANGED <<goals, focus, plans, links, operations, late, workflow, crashes>>

focus_goal(g, s) == focus' = [focus EXCEPT ![s] = g]

Focus(g, s) ==
  /\ Idle /\ require_owner(g)
  /\ focus_goal(g, s)
  /\ Handle(g, <<>>)
  /\ UNCHANGED <<goals, plans, links, client, workflow, crashes>>

(* A workflow belongs to one goal and one milestone.                       *)
link_goal_workflow(g, w, m) ==
  /\ links[w] \in {None, <<g, m>>}
  /\ links' = [links EXCEPT ![w] = <<g, m>>]

(* The state of the goal is not looked at.                                 *)
LinkWorkflow(g, w, m) ==
  /\ Idle /\ require_owner(g)
  /\ workflow[w] # "absent"
  /\ link_goal_workflow(g, w, m)
  /\ late' = IF links[w] = None /\ is_terminal(goals[g].state) THEN late \cup {w} ELSE late
  /\ Handle(g, <<>>)
  /\ UNCHANGED <<goals, focus, plans, operations, lost, workflow, crashes>>

save_goal_plan(g, content) ==
  IF \E n \in DOMAIN plans[g] : plans[g][n] = content THEN plans
  ELSE [plans EXCEPT ![g] = Append(@, content)]

(* The first plan moves a draft to planning, in a transaction of its own.  *)
SavePlan(g, content) ==
  /\ Idle /\ require_owner(g)
  /\ \/ /\ goals[g].state = "draft"
        /\ apply_goal_command(g, "start_planning")
        /\ Handle(g, <<[op |-> "plan", goal |-> g, detail |-> content]>>)
        /\ UNCHANGED plans
     \/ /\ goals[g].state = "planning"
        /\ plans' = save_goal_plan(g, content)
        /\ Handle(g, <<>>)
        /\ UNCHANGED goals
  /\ UNCHANGED <<focus, links, client, workflow, crashes>>

(* The handler in progress runs its next transaction.                      *)
Proceed ==
  /\ ~Idle
  /\ LET tx == Head(pending) IN
       \/ /\ tx.op = "focus"
          /\ focus_goal(tx.goal, tx.detail)
          /\ UNCHANGED <<plans, unaudited>>
       \/ /\ tx.op = "plan"
          /\ plans' = save_goal_plan(tx.goal, tx.detail)
          /\ UNCHANGED <<focus, unaudited>>
       \/ /\ tx.op = "audit"
          /\ unaudited' = [unaudited EXCEPT ![tx.goal] = @ - 1]
          /\ UNCHANGED <<focus, plans>>
  /\ pending' = Tail(pending)
  /\ UNCHANGED <<goals, links, client, workflow, crashes>>

-----------------------------------------------------------------------------
(* The linked workflow in the daemon: its request is saved before its      *)
(* state, and its terminal states are final.                               *)
WorkflowStep(w) ==
  /\ Idle
  /\ \E to \in CASE workflow[w] = "absent"    -> {"requested"}
                 [] workflow[w] = "requested" -> {"running"}
                 [] workflow[w] = "running"   -> {"completed", "cancelled"}
                 [] OTHER                     -> {} :
       workflow' = [workflow EXCEPT ![w] = to]
  /\ UNCHANGED <<store, client, pending, crashes>>

Crash ==
  /\ ~Idle /\ crashes < MaxCrashes
  /\ crashes' = crashes + 1
  /\ pending' = <<>>
  /\ UNCHANGED <<store, client, workflow>>

Next ==
  \/ \E g \in GoalIds :
       \/ \E s \in Sessions : Create(g, s) \/ Focus(g, s)
       \/ Amend(g)
       \/ \E action \in Actions : Control(g, action)
       \/ \E w \in Workflows, m \in Milestones : LinkWorkflow(g, w, m)
       \/ \E content \in Contents : SavePlan(g, content)
  \/ Retry \/ Proceed \/ Crash
  \/ \E w \in Workflows : WorkflowStep(w)

Spec == Init /\ [][Next]_vars

-----------------------------------------------------------------------------
(* The stage a paused or blocked goal resumes in.                          *)
Stage(goal) ==
  CASE goal.state = "paused"  -> goal.paused_from
    [] goal.state = "blocked" -> goal.blocked_from
    [] OTHER                  -> goal.state

(* Types: a paused or blocked goal always knows the stage it returns to.   *)
TypeOK ==
  /\ goals \in [GoalIds -> Goal \cup {None}]
  /\ focus \in [Sessions -> GoalIds \cup {None}]
  /\ \A g \in GoalIds : plans[g] \in Seq(Contents)
  /\ links \in [Workflows -> (GoalIds \X Milestones) \cup {None}]
  /\ unaudited \in [GoalIds -> 0..(MaxCrashes + 1)]
  /\ \A g \in GoalIds : goals[g] # None => Stage(goals[g]) \in GoalStates

(* An operation counts once, however often it is sent: the amendments and  *)
(* the continuations stored are the distinct ones the clients sent.  A     *)
(* resumed goal can be continued past its limit, and its row can then no   *)
(* longer be read; the damage stops there, one past the limit, with the    *)
(* goal blocked and nobody able to change it.                              *)
OperationsApplyOnce ==
  \A g \in GoalIds : goals[g] # None =>
    /\ goals[g].continuations = operations[g].continue
    /\ goals[g].amendments = operations[g].amend
    /\ goals[g].continuations > MaxContinuations =>
         goals[g].continuations = MaxContinuations + 1 /\ goals[g].state = "blocked"

(* A completed goal stays settled: the workflows it had when it completed  *)
(* have ended for good, and each of their milestones was delivered.  Only  *)
(* workflows linked afterwards may still run.                              *)
CompletedIsSettled ==
  \A g \in GoalIds : goals[g] # None /\ goals[g].state = "completed" =>
    LET had == goal_workflows(g) \ late
    IN /\ had # {}
       /\ \A w \in had :
            /\ workflow[w] \in {"completed", "cancelled"}
            /\ \E v \in had : links[v][2] = links[w][2] /\ workflow[v] = "completed"
=============================================================================
