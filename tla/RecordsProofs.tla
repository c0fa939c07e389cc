---------------------------- MODULE RecordsProofs ---------------------------
(***************************************************************************)
(* Proofs about the records the daemon keeps: goals, the code index,       *)
(* leases, plans with their tasks, and the ledger.                         *)
(***************************************************************************)
EXTENDS MCRecords, ListsProofs, SequenceTheorems, FiniteSetTheorems, TLAPS

-----------------------------------------------------------------------------
(* Goals: every set of goals, workflows, milestones, sessions and plans,   *)
(* every limit and every number of crashes.                                *)

(* A paused or blocked goal knows the stage it returns to.                 *)
Staged(goal) ==
  /\ goal.state = "paused"  => goal.paused_from \in Pausable
  /\ goal.state = "blocked" => goal.blocked_from \in Blockable

(* The rows of goals.                                                      *)
RowsInv ==
  /\ goals \in [GoalIds -> Goal \cup {None}]
  /\ \A g \in GoalIds : goals[g] # None => Staged(goals[g])

(* The tables beside them.                                                 *)
TablesInv ==
  /\ focus \in [Sessions -> GoalIds \cup {None}]
  /\ plans \in [GoalIds -> Seq(Contents)]
  /\ links \in [Workflows -> (GoalIds \X Milestones) \cup {None}]
  /\ workflow \in [Workflows -> {"absent", "requested", "running", "completed",
                                 "cancelled"}]

(* What the clients sent, and what one of them will send again.  A goal    *)
(* that was not created yet has been sent nothing.                         *)
ClientInv ==
  /\ operations \in [GoalIds -> [continue : Nat, amend : Nat]]
  /\ \A g \in GoalIds :
       goals[g] = None => operations[g] = [continue |-> 0, amend |-> 0]
  /\ lost # None =>
       /\ lost.goal \in GoalIds
       /\ lost.action \in Actions \cup {"amend"}

(* A handler of goal g has its ledger record left to commit, and before it *)
(* at most the focus or the plan of that goal.                             *)
Transactions ==
  [op : {"focus", "plan", "audit"}, goal : GoalIds,
   detail : Sessions \cup Contents \cup {None}]

Left(g, series) ==
  /\ series \in Seq(Transactions)
  /\ Len(series) \in 1..2
  /\ \A i \in DOMAIN series : series[i].goal = g
  /\ series[Len(series)].op = "audit"
  /\ Len(series) = 2 =>
       \/ series[1].op = "focus" /\ series[1].detail \in Sessions
       \/ series[1].op = "plan"  /\ series[1].detail \in Contents

(* A request without its ledger record is the one in progress or one that  *)
(* a crash cut short.                                                      *)
PendingInv ==
  /\ crashes \in 0..MaxCrashes
  /\ unaudited \in [GoalIds -> Nat]
  /\ \/ /\ Idle
        /\ \A g \in GoalIds : unaudited[g] <= crashes
     \/ \E h \in GoalIds :
          /\ Left(h, pending)
          /\ unaudited[h] \in 1..(crashes + 1)
          /\ \A g \in GoalIds \ {h} : unaudited[g] <= crashes

(* Late workflows are those of goals that have ended.                      *)
LateInv ==
  /\ \A w \in late : w \in Workflows /\ links[w] # None
  /\ \A g \in GoalIds : \A w \in goal_workflows(g) \cap late :
       goals[g] # None /\ is_terminal(goals[g].state)

(* OperationsApplyOnce needs a goal that does not exist yet to have been   *)
(* sent nothing; CompletedIsSettled needs late workflows to be those of    *)
(* goals that had ended, or an approval could count on one.                *)
GoalInv ==
  /\ RowsInv /\ TablesInv /\ ClientInv /\ PendingInv /\ LateInv
  /\ OperationsApplyOnce /\ CompletedIsSettled

(* A handler has at most one transaction before its ledger record.         *)
LEMMA AppendOne ==
  ASSUME NEW X, NEW s \in Seq(X), NEW e \in X, Len(s) = 1
  PROVE  /\ Append(s, e) \in Seq(X) /\ Len(Append(s, e)) = 2
         /\ Append(s, e)[1] = s[1] /\ Append(s, e)[2] = e
  <1>1. /\ Append(s, e) \in Seq(X)
        /\ Len(Append(s, e)) = Len(s) + 1
        /\ \A i \in 1..Len(s) : Append(s, e)[i] = s[i]
        /\ Append(s, e)[Len(s) + 1] = e
    BY AppendProperties, Zenon
  <1>2. Len(s) + 1 = 2 /\ 1 \in 1..Len(s)
    OBVIOUS
  <1> QED
    BY <1>1, <1>2, Zenon

USE GoalsAssumption
    DEF store, client, Idle, Pausable, Blockable

(* What a command makes of a goal it is allowed in: only an approval ends  *)
(* in "completed", only a continuation is counted, and the one that passes *)
(* the limit leaves the goal blocked.                                      *)
LEMMA ApplyGoal ==
  ASSUME NEW goal \in Goal, Staged(goal), NEW action \in Actions,
         allowed(goal, action), try_from(goal)
  PROVE  LET after == apply(goal, action) IN
         /\ after \in Goal /\ Staged(after)
         /\ after.amendments = goal.amendments
         /\ after.continuations =
              IF action = "continue" THEN goal.continuations + 1
                                     ELSE goal.continuations
         /\ after.continuations > MaxContinuations =>
              /\ after.continuations = MaxContinuations + 1
              /\ after.state = "blocked"
         /\ ~is_terminal(goal.state)
         /\ after.state = "completed" => action = "approve_completion"
  <1> USE DEF GoalStates, Staged, is_terminal
  <1>1. /\ goal.continuations \in Int /\ MaxContinuations \in Int
        /\ goal.continuations <= MaxContinuations
    BY DEF try_from, Goal
  <1>2. CASE action \in {"start_planning", "mark_ready", "activate",
                         "request_completion", "approve_completion",
                         "reject_completion"}
    <2>1. goal.state \in {"draft", "planning", "ready", "active", "completing"}
      BY <1>2 DEF allowed, From
    <2>2. To[action] \in {"planning", "ready", "active", "completing",
                           "completed"}
          /\ (To[action] = "completed" => action = "approve_completion")
      BY <1>2 DEF To
    <2>3. apply(goal, action) = [goal EXCEPT !.state = To[action]]
      BY <1>2 DEF apply
    <2> QED
      BY <1>1, <1>2, <2>1, <2>2, <2>3 DEF Goal
  <1>3. CASE action = "pause"
    <2>1. goal.state \in Pausable
      BY <1>3 DEF allowed, From
    <2>2. apply(goal, action) =
            [goal EXCEPT !.state = "paused", !.paused_from = goal.state]
      BY <1>3 DEF apply
    <2>3. LET after == apply(goal, action) IN
          /\ after \in Goal /\ after.state = "paused"
          /\ after.paused_from = goal.state
          /\ after.blocked_from = goal.blocked_from
          /\ after.continuations = goal.continuations
          /\ after.amendments = goal.amendments
      BY <2>1, <2>2 DEF Goal
    <2> QED
      BY <1>1, <1>3, <2>1, <2>3
  <1>4. CASE action = "block"
    <2>1. goal.state \in Blockable
      BY <1>4 DEF allowed, From
    <2>2. apply(goal, action) =
            [goal EXCEPT !.state = "blocked", !.blocked_from = goal.state]
      BY <1>4 DEF apply
    <2>3. LET after == apply(goal, action) IN
          /\ after \in Goal /\ after.state = "blocked"
          /\ after.paused_from = goal.paused_from
          /\ after.blocked_from = goal.state
          /\ after.continuations = goal.continuations
          /\ after.amendments = goal.amendments
      BY <2>1, <2>2 DEF Goal
    <2> QED
      BY <1>1, <1>4, <2>1, <2>3
  <1>5. CASE action = "resume"
    <2>1. goal.state = "paused"
      BY <1>5 DEF allowed, From
    <2>2. apply(goal, action) =
            [goal EXCEPT !.state = goal.paused_from, !.paused_from = None]
      BY <1>5 DEF apply
    <2>3. LET after == apply(goal, action) IN
          /\ after \in Goal /\ after.state = goal.paused_from
          /\ after.paused_from = None
          /\ after.blocked_from = goal.blocked_from
          /\ after.continuations = goal.continuations
          /\ after.amendments = goal.amendments
      BY <2>1, <2>2 DEF Goal
    <2> QED
      BY <1>1, <1>5, <2>1, <2>3
  <1>6. CASE action = "resume_blocked"
    <2>1. goal.state = "blocked"
      BY <1>6 DEF allowed, From
    <2>2. apply(goal, action) =
            [goal EXCEPT !.state = goal.blocked_from, !.blocked_from = None]
      BY <1>6 DEF apply
    <2>3. LET after == apply(goal, action) IN
          /\ after \in Goal /\ after.state = goal.blocked_from
          /\ after.paused_from = goal.paused_from
          /\ after.blocked_from = None
          /\ after.continuations = goal.continuations
          /\ after.amendments = goal.amendments
      BY <2>1, <2>2 DEF Goal
    <2> QED
      BY <1>1, <1>6, <2>1, <2>3
  <1>7. CASE action = "abort"
    <2>1. ~is_terminal(goal.state)
      BY <1>7 DEF allowed, From
    <2>2. apply(goal, action) = [goal EXCEPT !.state = "aborted",
                                   !.paused_from = None, !.blocked_from = None]
      BY <1>7 DEF apply
    <2>3. LET after == apply(goal, action) IN
          /\ after \in Goal
          /\ after.state = "aborted"
          /\ after.paused_from = None
          /\ after.blocked_from = None
          /\ after.continuations = goal.continuations
          /\ after.amendments = goal.amendments
      BY <1>7, <2>1, <2>2 DEF Goal
    <2> QED
      BY <1>1, <1>7, <2>1, <2>3
  <1>8. CASE action = "continue"
    <2>1. goal.state = "active" /\ goal.continuations + 1 \in 0..255
      BY <1>8 DEF allowed, From, Goal
    <2>2. apply(goal, action) = continue_goal(goal)
      BY <1>8 DEF apply
    <2> DEFINE counted == [goal EXCEPT !.continuations = @ + 1]
    <2>3. /\ counted \in Goal /\ counted.continuations = goal.continuations + 1
          /\ counted.state = "active" /\ counted.amendments = goal.amendments
      BY <2>1 DEF Goal
    <2> HIDE DEF counted
    <2>4. apply(goal, action) =
            IF goal.continuations + 1 >= MaxContinuations
            THEN [counted EXCEPT !.state = "blocked",
                                 !.blocked_from = "active"]
            ELSE counted
      BY <2>1, <2>2, <2>3 DEF continue_goal, counted
    <2>5. CASE goal.continuations + 1 >= MaxContinuations
      <3>1. LET after == apply(goal, action) IN
            /\ after \in Goal /\ after.state = "blocked"
            /\ after.blocked_from = "active"
            /\ after.continuations = goal.continuations + 1
            /\ after.amendments = goal.amendments
        <4>1. apply(goal, action) =
                [counted EXCEPT !.state = "blocked", !.blocked_from = "active"]
          BY <2>4, <2>5
        <4> QED
          BY <2>3, <4>1 DEF Goal
      <3> QED
        BY <1>1, <1>8, <2>1, <3>1
    <2>6. CASE ~(goal.continuations + 1 >= MaxContinuations)
      BY <1>1, <1>8, <2>1, <2>3, <2>4, <2>6
    <2> QED
      BY <2>5, <2>6
  <1> QED
    BY <1>2, <1>3, <1>4, <1>5, <1>6, <1>7, <1>8 DEF Actions

(* A handler begins: one more request of its goal waits for its record.    *)
LEMMA HandlePending ==
  ASSUME PendingInv, Idle, NEW g \in GoalIds, NEW rest, Handle(g, rest),
         \/ rest = <<>>
         \/ \E s \in Sessions :
              rest = <<[op |-> "focus", goal |-> g, detail |-> s]>>
         \/ \E c \in Contents :
              rest = <<[op |-> "plan", goal |-> g, detail |-> c]>>,
         crashes' = crashes
  PROVE  PendingInv'
  <1> DEFINE audit == [op |-> "audit", goal |-> g, detail |-> None]
  <1>1. Left(g, pending')
    <2>1. pending' = Append(rest, audit) /\ audit \in Transactions
      BY DEF Handle, Transactions
    <2> HIDE DEF audit
    <2>2. CASE rest = <<>>
      BY <2>1, <2>2 DEF Left, audit
    <2>3. ASSUME NEW s \in Sessions,
                 rest = <<[op |-> "focus", goal |-> g, detail |-> s]>>
          PROVE  Left(g, pending')
      <3>1. rest \in Seq(Transactions) /\ Len(rest) = 1
        BY <2>3 DEF Transactions
      <3>2. /\ pending' \in Seq(Transactions) /\ Len(pending') = 2
            /\ pending'[1] = rest[1] /\ pending'[2] = audit
        BY <2>1, <3>1, AppendOne
      <3> QED
        BY <2>3, <3>2 DEF Left, audit
    <2>4. ASSUME NEW c \in Contents,
                 rest = <<[op |-> "plan", goal |-> g, detail |-> c]>>
          PROVE  Left(g, pending')
      <3>1. rest \in Seq(Transactions) /\ Len(rest) = 1
        BY <2>4 DEF Transactions
      <3>2. /\ pending' \in Seq(Transactions) /\ Len(pending') = 2
            /\ pending'[1] = rest[1] /\ pending'[2] = audit
        BY <2>1, <3>1, AppendOne
      <3> QED
        BY <2>4, <3>2 DEF Left, audit
    <2> QED
      BY <2>2, <2>3, <2>4
  <1>2. \A h \in GoalIds : unaudited[h] <= crashes
    BY DEF PendingInv, Left
  <1>3. /\ unaudited' \in [GoalIds -> Nat]
        /\ unaudited'[g] \in 1..(crashes + 1)
        /\ \A h \in GoalIds \ {g} : unaudited'[h] <= crashes
    BY <1>2 DEF Handle, PendingInv
  <1> QED
    BY <1>1, <1>3 DEF PendingInv

(* The handler in progress runs a transaction of its own goal, and the     *)
(* ledger record last.                                                     *)
LEMMA ProceedPending ==
  ASSUME PendingInv, Proceed
  PROVE  /\ PendingInv'
         /\ LET tx == Head(pending) IN
            /\ tx.goal \in GoalIds
            /\ tx.op = "focus" => tx.detail \in Sessions
            /\ tx.op = "plan" => tx.detail \in Contents
  <1> DEFINE tx == Head(pending)
  <1>1. PICK g \in GoalIds :
          /\ Left(g, pending)
          /\ unaudited[g] \in 1..(crashes + 1)
          /\ \A h \in GoalIds \ {g} : unaudited[h] <= crashes
    BY DEF PendingInv, Proceed
  <1>2. /\ tx = pending[1] /\ tx.goal = g
        /\ Len(pending) = 1 => tx.op = "audit" /\ Tail(pending) = <<>>
        /\ Len(pending) = 2 => tx.op # "audit" /\ Left(g, Tail(pending))
        /\ tx.op = "focus" => tx.detail \in Sessions
        /\ tx.op = "plan" => tx.detail \in Contents
        /\ Len(pending) \in 1..2
    BY <1>1 DEF Left
  <1>3. PendingInv'
    <2>1. CASE Len(pending) = 1
      BY <1>1, <1>2, <2>1 DEF Proceed, PendingInv
    <2>2. CASE Len(pending) = 2
      BY <1>1, <1>2, <2>2 DEF Proceed, PendingInv
    <2> QED
      BY <1>2, <2>1, <2>2
  <1> QED
    BY <1>2, <1>3

(* A plan is appended to the revisions of its goal, or is one of them.     *)
LEMMA SavePlanTyped ==
  ASSUME plans \in [GoalIds -> Seq(Contents)],
         NEW g \in GoalIds, NEW content \in Contents
  PROVE  save_goal_plan(g, content) \in [GoalIds -> Seq(Contents)]
  <1>1. Append(plans[g], content) \in Seq(Contents)
    OBVIOUS
  <1> QED
    BY <1>1 DEF save_goal_plan

(* Create: a goal that is created again is one nothing was sent to yet.    *)
LEMMA CreateIInv ==
  ASSUME GoalInv, NEW g \in GoalIds, NEW s \in Sessions, Create(g, s)
  PROVE  GoalInv'
  <1> USE DEF GoalInv
  <1>1. RowsInv'
    BY DEF Create, save_goal_once, new, RowsInv, Staged, Goal, GoalStates
  <1>2. TablesInv'
    BY DEF Create, TablesInv
  <1>3. ClientInv'
    BY DEF Create, save_goal_once, ClientInv
  <1>4. PendingInv'
    BY HandlePending DEF Create
  <1>5. LateInv'
    BY DEF Create, save_goal_once, LateInv, goal_workflows
  <1>6. OperationsApplyOnce'
    <2>1. operations[g].continue = 0 /\ operations[g].amend = 0
      <3>1. CASE goals[g] = None
        BY <3>1 DEF ClientInv
      <3>2. CASE goals[g] = new /\ goals[g] # None
        BY <3>2 DEF OperationsApplyOnce, new
      <3> QED
        BY <3>1, <3>2 DEF Create, save_goal_once
    <2>2. /\ new.continuations = 0 /\ new.amendments = 0
          /\ ~(0 > MaxContinuations)
      BY DEF new
    <2>3. goals'[g] = new /\ \A h \in GoalIds \ {g} : goals'[h] = goals[h]
      BY DEF Create, save_goal_once, RowsInv
    <2> QED
      BY <2>1, <2>2, <2>3 DEF Create, OperationsApplyOnce
  <1>7. CompletedIsSettled'
    BY DEF Create, save_goal_once, new, CompletedIsSettled, goal_workflows,
           is_terminal
  <1> QED
    BY <1>1, <1>2, <1>3, <1>4, <1>5, <1>6, <1>7

(* Amend.                                                                  *)
LEMMA AmendIInv ==
  ASSUME GoalInv, NEW g \in GoalIds, Amend(g)
  PROVE  GoalInv'
  <1> USE DEF GoalInv
  <1> DEFINE after == append_amendment(goals[g])
  <1>1. goals[g] \in Goal /\ goals[g] # None /\ Staged(goals[g])
        /\ ~is_terminal(goals[g].state)
    BY DEF Amend, require_owner, load_goal, append_goal_amendment, RowsInv
  <1>2. /\ after \in Goal /\ after.amendments = goals[g].amendments + 1
        /\ after.state = goals[g].state
        /\ after.continuations = goals[g].continuations
        /\ after.paused_from = goals[g].paused_from
        /\ after.blocked_from = goals[g].blocked_from
    BY <1>1 DEF append_amendment, Goal
  <1> HIDE DEF after
  <1>3. goals' = [goals EXCEPT ![g] = after]
    BY DEF Amend, append_goal_amendment, after
  <1>4. RowsInv'
    BY <1>1, <1>2, <1>3 DEF RowsInv, Staged
  <1>5. TablesInv'
    BY DEF Amend, TablesInv
  <1>6. ClientInv'
    <2>1. operations' = [operations EXCEPT ![g].amend = @ + 1]
          /\ lost' \in {lost, [goal |-> g, action |-> "amend"]}
      BY DEF Amend
    <2>2. operations[g].amend + 1 \in Nat
      BY DEF ClientInv
    <2>3. operations' \in [GoalIds -> [continue : Nat, amend : Nat]]
      BY <2>1, <2>2 DEF ClientInv
    <2> QED
      BY RowAssumption, <1>1, <1>2, <1>3, <2>1, <2>3 DEF ClientInv
  <1>7. PendingInv'
    BY HandlePending DEF Amend
  <1>8. LateInv'
    BY <1>1, <1>2, <1>3 DEF Amend, LateInv, goal_workflows
  <1>9. OperationsApplyOnce'
    BY <1>1, <1>2, <1>3 DEF Amend, RowsInv, ClientInv, OperationsApplyOnce
  <1>10. CompletedIsSettled'
    BY <1>1, <1>2, <1>3 DEF Amend, CompletedIsSettled, goal_workflows
  <1> QED
    BY <1>4, <1>5, <1>6, <1>7, <1>8, <1>9, <1>10

(* Control: an approval finds a goal that has not ended, so none of its    *)
(* workflows is late and completable speaks of all of them.                *)
LEMMA ControlIInv ==
  ASSUME GoalInv, NEW g \in GoalIds, NEW action \in Actions, Control(g, action)
  PROVE  GoalInv'
  <1> USE DEF GoalInv
  <1>1. /\ goals[g] \in Goal /\ goals[g] # None /\ Staged(goals[g])
        /\ allowed(goals[g], action) /\ try_from(goals[g])
    BY DEF Control, RowsInv, require_owner, load_goal, apply_goal_command
  <1>2. LET after == apply(goals[g], action) IN
        /\ after \in Goal /\ Staged(after)
        /\ after.amendments = goals[g].amendments
        /\ after.continuations =
             IF action = "continue" THEN goals[g].continuations + 1
                                    ELSE goals[g].continuations
        /\ after.continuations > MaxContinuations =>
             /\ after.continuations = MaxContinuations + 1
             /\ after.state = "blocked"
        /\ ~is_terminal(goals[g].state)
        /\ after.state = "completed" => action = "approve_completion"
    BY <1>1, ApplyGoal
  <1>3. RowsInv'
    BY <1>1, <1>2 DEF Control, apply_goal_command, RowsInv
  <1>4. TablesInv'
    BY <1>1, <1>2 DEF Control, TablesInv
  <1>5. ClientInv'
    BY <1>1, <1>2, RowAssumption
    DEF Control, apply_goal_command, ClientInv, RowsInv
  <1>6. PendingInv'
    BY <1>1, <1>2, HandlePending DEF Control
  <1>7. LateInv'
    BY <1>1, <1>2 DEF Control, apply_goal_command, LateInv, goal_workflows
  <1>8. OperationsApplyOnce'
    <2>1. /\ operations'[g].continue =
               IF action = "continue" THEN operations[g].continue + 1
                                      ELSE operations[g].continue
          /\ operations'[g].amend = operations[g].amend
          /\ \A h \in GoalIds \ {g} : operations'[h] = operations[h]
      BY DEF Control, ClientInv
    <2>2. /\ goals'[g] = apply(goals[g], action)
          /\ \A h \in GoalIds \ {g} : goals'[h] = goals[h]
      BY DEF Control, apply_goal_command, RowsInv
    <2>3. /\ goals[g].continuations = operations[g].continue
          /\ goals[g].amendments = operations[g].amend
      BY <1>1 DEF OperationsApplyOnce
    <2> QED
      BY <1>2, <2>1, <2>2, <2>3 DEF OperationsApplyOnce
  <1>9. CompletedIsSettled'
    BY <1>1, <1>2
    DEF Control, apply_goal_command, validate_control, completable, LateInv,
        CompletedIsSettled, goal_workflows
  <1> QED
    BY <1>3, <1>4, <1>5, <1>6, <1>7, <1>8, <1>9

(* Retry: the checks and the ledger record again, nothing else.            *)
LEMMA RetryIInv ==
  ASSUME GoalInv, Retry
  PROVE  GoalInv'
  <1> USE DEF GoalInv
  <1>1. RowsInv'
    BY DEF Retry, RowsInv
  <1>2. TablesInv'
    BY DEF Retry, TablesInv
  <1>3. ClientInv'
    BY DEF Retry, ClientInv
  <1>4. PendingInv'
    <2>1. lost.goal \in GoalIds
      BY DEF Retry, ClientInv
    <2> QED
      BY <2>1, HandlePending DEF Retry
  <1>5. LateInv'
    BY DEF Retry, LateInv, goal_workflows
  <1>6. OperationsApplyOnce'
    BY DEF Retry, OperationsApplyOnce
  <1>7. CompletedIsSettled'
    BY DEF Retry, CompletedIsSettled, goal_workflows
  <1> QED
    BY <1>1, <1>2, <1>3, <1>4, <1>5, <1>6, <1>7

(* Focus.                                                                  *)
LEMMA FocusIInv ==
  ASSUME GoalInv, NEW g \in GoalIds, NEW s \in Sessions, Focus(g, s)
  PROVE  GoalInv'
  <1> USE DEF GoalInv
  <1>1. RowsInv'
    BY DEF Focus, RowsInv
  <1>2. TablesInv'
    BY DEF Focus, focus_goal, TablesInv
  <1>3. ClientInv'
    BY DEF Focus, ClientInv
  <1>4. PendingInv'
    BY HandlePending DEF Focus
  <1>5. LateInv'
    BY DEF Focus, LateInv, goal_workflows
  <1>6. OperationsApplyOnce'
    BY DEF Focus, OperationsApplyOnce
  <1>7. CompletedIsSettled'
    BY DEF Focus, CompletedIsSettled, goal_workflows
  <1> QED
    BY <1>1, <1>2, <1>3, <1>4, <1>5, <1>6, <1>7

(* LinkWorkflow: a goal that has completed gains only late workflows.      *)
LEMMA LinkWorkflowIInv ==
  ASSUME GoalInv, NEW g \in GoalIds, NEW w \in Workflows, NEW m \in Milestones,
         LinkWorkflow(g, w, m)
  PROVE  GoalInv'
  <1> USE DEF GoalInv
  <1>1. /\ \A v \in Workflows \ {w} : links'[v] = links[v]
        /\ links[w] # None => links'[w] = links[w]
        /\ links'[w] = <<g, m>>
    BY DEF LinkWorkflow, link_goal_workflow, TablesInv
  <1>2. /\ UNCHANGED <<goals, workflow>>
        /\ late' = IF links[w] = None /\ is_terminal(goals[g].state)
                   THEN late \cup {w} ELSE late
        /\ goals[g] # None
    BY DEF LinkWorkflow, require_owner, load_goal
  <1>3. \A h \in GoalIds \ {g} : goal_workflows(h)' = goal_workflows(h)
    BY <1>1 DEF goal_workflows
  <1>4. goal_workflows(g) \subseteq goal_workflows(g)'
        /\ goal_workflows(g)' \subseteq goal_workflows(g) \cup {w}
        /\ links[w] # None => goal_workflows(g)' = goal_workflows(g)
    BY <1>1 DEF goal_workflows
  <1>5. RowsInv'
    BY DEF LinkWorkflow, RowsInv
  <1>6. TablesInv'
    BY DEF LinkWorkflow, link_goal_workflow, TablesInv
  <1>7. ClientInv'
    BY DEF LinkWorkflow, ClientInv
  <1>8. PendingInv'
    BY HandlePending DEF LinkWorkflow
  <1>9. LateInv'
    <2>1. \A v \in late' : v \in Workflows /\ links'[v] # None
      <3>1. <<g, m>> \in GoalIds \X Milestones
        OBVIOUS
      <3>2. links'[w] # None
        BY RowAssumption, <1>1, <3>1
      <3> QED
        BY <1>1, <1>2, <3>2 DEF LateInv
    <2>2. ASSUME NEW h \in GoalIds, NEW v \in goal_workflows(h)' \cap late'
          PROVE  goals[h] # None /\ is_terminal(goals[h].state)
      <3>1. CASE v \in late
        <4>1. v \in goal_workflows(h)
          BY <1>1, <3>1 DEF LateInv, goal_workflows
        <4> QED
          BY <3>1, <4>1 DEF LateInv
      <3>2. CASE v \notin late
        <4>1. v = w /\ is_terminal(goals[g].state)
          BY <1>2, <3>2
        <4>2. h = g
          BY <1>1, <4>1 DEF goal_workflows
        <4> QED
          BY <1>2, <4>1, <4>2
      <3> QED
        BY <3>1, <3>2
    <2> QED
      BY <1>2, <2>1, <2>2 DEF LateInv
  <1>10. OperationsApplyOnce'
    BY DEF LinkWorkflow, OperationsApplyOnce
  <1>11. CompletedIsSettled'
    <2> SUFFICES ASSUME NEW h \in GoalIds, goals[h] # None,
                        goals[h].state = "completed"
                 PROVE  LET had == goal_workflows(h)' \ late' IN
                        /\ had # {}
                        /\ \A x \in had :
                             /\ workflow[x] \in {"completed", "cancelled"}
                             /\ \E v \in had : links'[v][2] = links'[x][2]
                                               /\ workflow[v] = "completed"
      BY <1>2 DEF CompletedIsSettled
    <2>1. goal_workflows(h)' \ late' = goal_workflows(h) \ late
      <3>1. CASE h = g
        <4>1. is_terminal(goals[g].state)
          BY <3>1 DEF is_terminal
        <4>2. CASE links[w] = None
          <5>1. w \notin goal_workflows(g) /\ late' = late \cup {w}
            BY <1>2, <4>1, <4>2 DEF goal_workflows
          <5> QED
            BY <1>1, <3>1, <5>1 DEF goal_workflows
        <4>3. CASE links[w] # None
          BY <1>1, <1>2, <3>1, <4>3 DEF goal_workflows
        <4> QED
          BY <4>2, <4>3
      <3>2. CASE h # g
        BY <1>1, <1>2, <1>3, <3>2 DEF goal_workflows
      <3> QED
        BY <3>1, <3>2
    <2>2. \A x \in goal_workflows(h) : links'[x] = links[x]
      BY <1>1 DEF goal_workflows
    <2> QED
      BY <2>1, <2>2 DEF CompletedIsSettled
  <1> QED
    BY <1>5, <1>6, <1>7, <1>8, <1>9, <1>10, <1>11

(* SavePlan.                                                               *)
LEMMA SavePlanIInv ==
  ASSUME GoalInv, NEW g \in GoalIds, NEW content \in Contents, SavePlan(g, content)
  PROVE  GoalInv'
  <1> USE DEF GoalInv
  <1>1. goals[g] \in Goal /\ goals[g] # None
        /\ goals[g].state \in {"draft", "planning"}
    BY DEF SavePlan, require_owner, load_goal, RowsInv
  <1> DEFINE after == [goals[g] EXCEPT !.state = "planning"]
  <1>2. /\ after \in Goal /\ after.amendments = goals[g].amendments
        /\ after.state = "planning"
        /\ after.continuations = goals[g].continuations
    BY <1>1 DEF Goal, GoalStates
  <1>3. apply(goals[g], "start_planning") = after
    BY DEF apply, To
  <1> HIDE DEF after
  <1>4. goals' = [goals EXCEPT ![g] = after] \/ UNCHANGED goals
    BY <1>3 DEF SavePlan, apply_goal_command
  <1>5. /\ UNCHANGED <<focus, links, client, workflow, crashes>>
        /\ plans' \in {plans, save_goal_plan(g, content)}
    BY DEF SavePlan
  <1>6. RowsInv'
    BY <1>1, <1>2, <1>4 DEF RowsInv, Staged
  <1>7. TablesInv'
    <2>1. plans' \in [GoalIds -> Seq(Contents)]
      BY <1>5, SavePlanTyped DEF TablesInv
    <2> QED
      BY <1>5, <2>1 DEF TablesInv
  <1>8. ClientInv'
    BY RowAssumption, <1>1, <1>2, <1>4, <1>5 DEF RowsInv, ClientInv
  <1>9. PendingInv'
    BY HandlePending DEF SavePlan
  <1>10. LateInv'
    BY <1>1, <1>2, <1>4, <1>5 DEF RowsInv, LateInv, goal_workflows, is_terminal
  <1>11. OperationsApplyOnce'
    BY <1>1, <1>2, <1>4, <1>5 DEF RowsInv, OperationsApplyOnce
  <1>12. CompletedIsSettled'
    BY <1>1, <1>2, <1>4, <1>5 DEF RowsInv, CompletedIsSettled, goal_workflows
  <1> QED
    BY <1>6, <1>7, <1>8, <1>9, <1>10, <1>11, <1>12

(* Proceed.                                                                *)
LEMMA ProceedIInv ==
  ASSUME GoalInv, Proceed
  PROVE  GoalInv'
  <1> USE DEF GoalInv
  <1>1. RowsInv'
    BY DEF Proceed, RowsInv
  <1>2. TablesInv'
    <2>1. /\ \/ focus' = focus
             \/ focus' =
                  [focus EXCEPT ![Head(pending).detail] = Head(pending).goal]
          /\ Head(pending).goal \in GoalIds
      BY ProceedPending DEF Proceed, focus_goal
    <2>2. plans' \in [GoalIds -> Seq(Contents)]
      BY ProceedPending, SavePlanTyped DEF Proceed, TablesInv
    <2>3. focus' \in [Sessions -> GoalIds \cup {None}]
      BY <2>1 DEF TablesInv
    <2> QED
      BY <2>2, <2>3 DEF TablesInv, Proceed
  <1>3. ClientInv'
    BY DEF Proceed, ClientInv
  <1>4. PendingInv'
    BY ProceedPending
  <1>5. LateInv'
    BY DEF Proceed, LateInv, goal_workflows
  <1>6. OperationsApplyOnce'
    BY DEF Proceed, OperationsApplyOnce
  <1>7. CompletedIsSettled'
    BY DEF Proceed, CompletedIsSettled, goal_workflows
  <1> QED
    BY <1>1, <1>2, <1>3, <1>4, <1>5, <1>6, <1>7

(* A workflow that has ended has ended for good.                           *)
LEMMA WorkflowStepIInv ==
  ASSUME GoalInv, NEW w \in Workflows, WorkflowStep(w)
  PROVE  GoalInv'
  <1> USE DEF GoalInv
  <1>1. RowsInv'
    BY DEF WorkflowStep, RowsInv
  <1>2. TablesInv'
    BY DEF WorkflowStep, TablesInv
  <1>3. ClientInv'
    BY DEF WorkflowStep, ClientInv
  <1>4. PendingInv'
    BY DEF WorkflowStep, PendingInv
  <1>5. LateInv'
    BY DEF WorkflowStep, LateInv, goal_workflows
  <1>6. OperationsApplyOnce'
    BY DEF WorkflowStep, OperationsApplyOnce
  <1>7. CompletedIsSettled'
    <2>1. \A v \in Workflows : workflow[v] \in {"completed", "cancelled"} =>
            workflow'[v] = workflow[v]
      BY DEF WorkflowStep
    <2>2. \A g \in GoalIds : /\ goal_workflows(g)' = goal_workflows(g)
                              /\ goal_workflows(g) \subseteq Workflows
      BY DEF WorkflowStep, goal_workflows
    <2> QED
      BY <2>1, <2>2 DEF WorkflowStep, CompletedIsSettled
  <1> QED
    BY <1>1, <1>2, <1>3, <1>4, <1>5, <1>6, <1>7

(* A crash leaves the request it cuts short without a ledger record.       *)
LEMMA CrashIInv ==
  ASSUME GoalInv, Crash
  PROVE  GoalInv'
  <1> USE DEF GoalInv
  <1>1. RowsInv'
    BY DEF Crash, RowsInv
  <1>2. TablesInv'
    BY DEF Crash, TablesInv
  <1>3. ClientInv'
    BY DEF Crash, ClientInv
  <1>4. PendingInv'
    BY DEF Crash, PendingInv
  <1>5. LateInv'
    BY DEF Crash, LateInv, goal_workflows
  <1>6. OperationsApplyOnce'
    BY DEF Crash, OperationsApplyOnce
  <1>7. CompletedIsSettled'
    BY DEF Crash, CompletedIsSettled, goal_workflows
  <1> QED
    BY <1>1, <1>2, <1>3, <1>4, <1>5, <1>6, <1>7
(* The empty tables satisfy the invariant.                                 *)
LEMMA InitGoalInv == Init => GoalInv
  <1> SUFFICES ASSUME Init
               PROVE  GoalInv
    OBVIOUS
  <1>1. RowsInv /\ TablesInv
    BY DEF Init, RowsInv, TablesInv
  <1>2. ClientInv /\ PendingInv
    BY DEF Init, ClientInv, PendingInv
  <1>3. LateInv /\ OperationsApplyOnce /\ CompletedIsSettled
    BY DEF Init, LateInv, OperationsApplyOnce, CompletedIsSettled
  <1> QED
    BY <1>1, <1>2, <1>3 DEF GoalInv

(* Every request, transaction, workflow step and crash preserves it.       *)
LEMMA NextGoalInv == GoalInv /\ [Next]_vars => GoalInv'
  <1> SUFFICES ASSUME GoalInv, [Next]_vars
               PROVE  GoalInv'
    OBVIOUS
  <1>1. CASE UNCHANGED vars
    BY <1>1
    DEF vars, GoalInv, RowsInv, TablesInv, ClientInv, PendingInv, LateInv,
        OperationsApplyOnce, CompletedIsSettled, goal_workflows
  <1>2. CASE \E g \in GoalIds :
               \/ \E s \in Sessions : Create(g, s) \/ Focus(g, s)
               \/ Amend(g)
               \/ \E action \in Actions : Control(g, action)
               \/ \E w \in Workflows, m \in Milestones : LinkWorkflow(g, w, m)
               \/ \E content \in Contents : SavePlan(g, content)
    BY <1>2, CreateIInv, FocusIInv, AmendIInv, ControlIInv, LinkWorkflowIInv,
       SavePlanIInv
  <1>3. CASE Retry \/ Proceed \/ Crash \/ \E w \in Workflows : WorkflowStep(w)
    BY <1>3, RetryIInv, ProceedIInv, CrashIInv, WorkflowStepIInv
  <1> QED
    BY <1>1, <1>2, <1>3 DEF Next

(* Every reachable state satisfies the whole invariant.                    *)
THEOREM GoalInvariance == Spec => []GoalInv
  BY InitGoalInv, NextGoalInv, PTL DEF Spec

(* The tables of goals are well typed, a paused or blocked goal knows the  *)
(* stage it returns to, and no goal has more requests without a ledger     *)
(* record than crashes cut short, and the one in progress.                 *)
THEOREM GoalsTyped == Spec => []TypeOK
  <1>1. GoalInv => TypeOK
    <2> SUFFICES ASSUME GoalInv
                 PROVE  TypeOK
      OBVIOUS
    <2>1. \A g \in GoalIds : goals[g] # None => Stage(goals[g]) \in GoalStates
      BY DEF GoalInv, RowsInv, Staged, Stage, Goal, GoalStates
    <2>2. unaudited \in [GoalIds -> 0..(MaxCrashes + 1)]
      BY DEF GoalInv, PendingInv
    <2> QED
      BY <2>1, <2>2 DEF GoalInv, RowsInv, TablesInv, TypeOK
  <1> QED
    BY <1>1, GoalInvariance, PTL

(* Amendments and continuations count once however often they are sent,    *)
(* and a goal continued past its limit stops there, blocked.               *)
THEOREM CountedOnce == Spec => []OperationsApplyOnce
  <1>1. GoalInv => OperationsApplyOnce
    BY DEF GoalInv
  <1> QED
    BY <1>1, GoalInvariance, PTL

(* A completed goal stays settled: the workflows it had when it completed  *)
(* have ended and each of their milestones was delivered.                  *)
THEOREM SettledForGood == Spec => []CompletedIsSettled
  <1>1. GoalInv => CompletedIsSettled
    BY DEF GoalInv
  <1> QED
    BY <1>1, GoalInvariance, PTL

HIDE GoalsAssumption
  DEF store, client, Idle, Pausable, Blockable

-----------------------------------------------------------------------------
(* The code index: every set of sources and every number of interventions  *)
(* of the user, wherever they and the crashes fall.                        *)

(* Paths name at least a file, and the absence of a fingerprint or of a    *)
(* row is neither.                                                         *)
IndexConstants ==
  /\ \A p \in Paths : p \in Seq(STRING) /\ p # <<>>
  /\ MaxWrites \in Nat
  /\ \A a, b : NoState # <<a, b>>

(* a is an earlier state of the file b is a state of: every write gives a  *)
(* new stamp, so equal stamps are equal contents.                          *)
Older(a, b) == a = b \/ a[2] < b[2]

FileState == Nat \X Nat

IndexTypeInv ==
  /\ tree \in [Paths -> Nat \X (0..MaxWrites)] /\ base \in [Paths -> Nat]
  /\ head \in Nat /\ root \in Nat /\ writes \in 0..MaxWrites
  /\ rows \in [Paths -> {NoState} \cup ((Nat \ {I!Absent}) \X Nat)]
  /\ graph \in [Paths -> Nat]
  /\ listed \in [Paths -> FileState] /\ read \in [Paths -> Nat \cup {I!Unread}]
  /\ step \in {"idle", "begin", "inventory", "read", "after"}
  /\ unsaved \in BOOLEAN /\ restored \subseteq Paths /\ slipped \subseteq Paths
  /\ before # NoState => before[1] \in 0..head
  /\ indexState # NoState => indexState[1] \in 0..root /\ indexState[2][1] \in 0..head

(* Rows and inventory are earlier states of the files.                     *)
StampInv ==
  \A p \in Paths :
    /\ tree[p][2] <= writes
    /\ rows[p] # NoState => Older(rows[p], tree[p])
    /\ step \in {"read", "after"} => Older(listed[p], tree[p])
    /\ step = "read" /\ rows[p] # NoState => Older(rows[p], listed[p])

(* A file is parsed with the content the inventory saw.                    *)
ReadInv ==
  \A p \in Paths : /\ step = "read" => read[p] \in {I!Unread, listed[p][1]}
                   /\ step \in {"idle", "begin", "inventory"} => read[p] = I!Unread

(* A row vouches for the graph.  The exception is a row in a directory     *)
(* named root that outlived its file: it is older than what is there now,  *)
(* and stays in the way of every later batch with that file.               *)
GraphInv ==
  \A p \in Paths :
    /\ rows[p] # NoState =>
         \/ graph[p] = rows[p][1]
         \/ /\ I!scope_of(p) = <<"root">> /\ rows[p][2] < tree[p][2]
            /\ step = "read" => rows[p][2] < listed[p][2]
    /\ rows[p] = NoState /\ ~I!Nested(p) => graph[p] = I!Absent

(* The index is right about p if its content is c.                         *)
Right(p, c) ==
  \/ I!Nested(p) /\ (c = I!Absent \/ graph[p] = c)
  \/ graph[p] = c /\ (c # I!Absent => rows[p] # NoState)

(* A batch that was committed is right about its inventory.                *)
BatchInv == step = "after" => \A p \in Paths : Right(p, listed[p][1])

(* While HEAD is the one of the first fingerprint, a clean file that was   *)
(* not restored since is the one of the inventory.                         *)
WindowInv ==
  step \in {"read", "after"} /\ (before = NoState \/ before[1] = head) =>
    \A p \in Paths \ restored : I!Content(p) = base[p] => listed[p][1] = base[p]

(* While root and HEAD are those of the saved fingerprint, the index is    *)
(* right about what was clean then, if it is as it was at HEAD.            *)
SavedInv ==
  indexState # NoState /\ indexState[1] = root /\ indexState[2][1] = head /\ ~unsaved =>
    \A p \in Paths \ slipped : indexState[2][2][p] = "clean" => Right(p, base[p])

IndexInv == IndexTypeInv /\ StampInv /\ ReadInv /\ GraphInv /\ BatchInv /\ WindowInv /\ SavedInv

-----------------------------------------------------------------------------
(* The directory of a path below the top is the path without its last name. *)
LEMMA DirectoryLen ==
  ASSUME NEW X, NEW p \in Seq(X), Len(p) # 0, Len(p) # 1
  PROVE  Len(SubSeq(p, 1, Len(p) - 1)) = Len(p) - 1
  <1>1. /\ 1 \in Int /\ Len(p) - 1 \in Int /\ 1 <= Len(p) - 1
        /\ \A i \in 1..(Len(p) - 1) : p[i] \in X
    <2>1. Len(p) \in Nat
      OBVIOUS
    <2>2. Len(p) - 1 \in Int
      BY <2>1
    <2>3. 1 <= Len(p) - 1
      <3>1. \A n \in Nat : n # 0 /\ n # 1 => 1 <= n - 1
        OBVIOUS
      <3> QED
        BY <2>1, <3>1, Zenon
    <2>4. \A i \in 1..(Len(p) - 1) : i \in 1..Len(p)
      BY <2>1
    <2>5. \A i \in 1..(Len(p) - 1) : p[i] \in X
      BY <2>1, <2>4
    <2> QED
      BY <2>2, <2>3, <2>5
  <1>2. Len(SubSeq(p, 1, Len(p) - 1)) =
          IF 1 <= Len(p) - 1 THEN (Len(p) - 1) - 1 + 1 ELSE 0
    BY <1>1, SubSeqProperties
  <1> QED
    BY <1>1, <1>2

(* A row in the scope of its path is deleted with the scope, except in the *)
(* directory named root.                                                   *)
LEMMA OwnScope ==
  ASSUME IndexConstants, NEW p \in Paths, I!scope_of(p) # <<"root">> \/ Len(p) = 1
  PROVE  I!Deletes(I!scope_of(p), p)
  <1>1. p \in Seq(STRING) /\ p # <<>> /\ Len(p) \in Nat /\ Len(p) # 0
    BY DEF IndexConstants
  <1>2. CASE Len(p) = 1
    BY <1>2 DEF I!scope_of, I!Deletes
  <1>3. CASE Len(p) # 1
    <2>1. I!scope_of(p) = SubSeq(p, 1, Len(p) - 1) /\ I!scope_of(p) # <<"root">>
      BY <1>3 DEF I!scope_of
    <2>2. Len(SubSeq(p, 1, Len(p) - 1)) = Len(p) - 1
      BY <1>1, <1>3, DirectoryLen
    <2>3. \A i \in 1..(Len(p) - 1) : SubSeq(p, 1, Len(p) - 1)[i] = p[i]
      BY <1>1
    <2>4. \A i \in 1..(Len(p) - 1) : Lower(p[i]) = Lower(SubSeq(p, 1, Len(p) - 1)[i])
      BY <2>3, Zenon
    <2>. QED BY <1>1, <2>1, <2>2, <2>4 DEF I!Deletes
  <1>. QED BY <1>2, <1>3

(* Where an indexing ends.                                                 *)
LEMMA EndTyped ==
  ASSUME I!End
  PROVE  /\ listed' \in [Paths -> FileState] /\ read' \in [Paths -> Nat \cup {I!Unread}]
         /\ step' = "idle" /\ before' = NoState /\ \A p \in Paths : read'[p] = I!Unread
  BY DEF I!End, FileState, I!Absent

(* An indexing ends without touching the tables.                           *)
LEMMA EndStep ==
  ASSUME IndexInv, I!End, UNCHANGED <<I!user, I!tables, I!marks>> PROVE IndexInv'
  <1>1. UNCHANGED <<tree, base, head, root, writes, rows, graph, indexState, restored, slipped, unsaved>>
    BY DEF I!user, I!tables, I!marks
  <1>2. IndexTypeInv'
    BY <1>1, EndTyped DEF IndexInv, IndexTypeInv
  <1>3. StampInv' /\ ReadInv' /\ BatchInv' /\ WindowInv'
    BY <1>1, EndTyped DEF IndexInv, StampInv, ReadInv, BatchInv, WindowInv
  <1>4. GraphInv'
    BY <1>1, EndTyped DEF IndexInv, GraphInv
  <1>5. SavedInv'
    BY <1>1 DEF IndexInv, SavedInv, Right
  <1>. QED BY <1>2, <1>3, <1>4, <1>5 DEF IndexInv

(* An index of another checkout is dropped with its fingerprint.           *)
LEMMA CodeIndexStep ==
  ASSUME IndexConstants, IndexInv, I!CodeIndex PROVE IndexInv'
  <1>1. /\ step' = "begin" /\ restored' = {}
        /\ UNCHANGED <<tree, base, head, root, writes, slipped, unsaved, before, listed, read>>
        /\ step = "idle"
    BY DEF I!CodeIndex, I!user
  <1>2. CASE UNCHANGED I!tables
    <2>1. UNCHANGED <<rows, graph, indexState>>
      BY <1>2 DEF I!tables
    <2>2. IndexTypeInv'
      BY <1>1, <2>1 DEF IndexInv, IndexTypeInv
    <2>3. StampInv' /\ ReadInv' /\ BatchInv' /\ WindowInv'
      BY <1>1, <2>1 DEF IndexInv, StampInv, ReadInv, BatchInv, WindowInv
    <2>4. GraphInv' /\ SavedInv'
      BY <1>1, <2>1 DEF IndexInv, GraphInv, SavedInv, Right
    <2>. QED BY <2>2, <2>3, <2>4 DEF IndexInv
  <1>3. CASE I!reset_project
    <2>1. /\ \A p \in Paths : rows'[p] = NoState /\ graph'[p] = I!Absent
          /\ indexState' = NoState
      BY <1>3 DEF I!reset_project
    <2>2. IndexTypeInv'
      BY <1>1, <1>3 DEF IndexInv, IndexTypeInv, I!reset_project, I!Absent
    <2>3. StampInv' /\ ReadInv' /\ BatchInv' /\ WindowInv'
      BY <1>1, <2>1 DEF IndexInv, StampInv, ReadInv, BatchInv, WindowInv
    <2>4. GraphInv' /\ SavedInv'
      BY <2>1 DEF GraphInv, SavedInv
    <2>. QED BY <2>2, <2>3, <2>4 DEF IndexInv
  <1>. QED BY <1>2, <1>3 DEF I!CodeIndex

(* The index is reused, or the indexing goes on to its inventory.          *)
LEMMA BeginStep ==
  ASSUME IndexConstants, IndexInv, I!Begin PROVE IndexInv'
  <1>1. UNCHANGED <<I!user, I!tables, I!marks>>
    BY DEF I!Begin
  <1>2. CASE I!End
    BY <1>1, <1>2, EndStep
  <1>3. CASE /\ step = "begin" /\ step' = "inventory" /\ before' \in I!git_fingerprint
             /\ UNCHANGED <<listed, read>>
    <2>1. UNCHANGED <<tree, base, head, root, writes, rows, graph, indexState, restored, slipped, unsaved>>
      BY <1>1 DEF I!user, I!tables, I!marks
    <2>2. before' # NoState => before'[1] \in 0..head
      BY <1>3 DEF I!git_fingerprint, I!Fingerprint, IndexInv, IndexTypeInv
    <2>3. IndexTypeInv'
      BY <1>3, <2>1, <2>2 DEF IndexInv, IndexTypeInv
    <2>4. StampInv' /\ ReadInv' /\ BatchInv' /\ WindowInv'
      BY <1>3, <2>1 DEF IndexInv, StampInv, ReadInv, BatchInv, WindowInv
    <2>5. GraphInv' /\ SavedInv'
      BY <1>3, <2>1 DEF IndexInv, GraphInv, SavedInv, Right
    <2>. QED BY <2>3, <2>4, <2>5 DEF IndexInv
  <1>. QED BY <1>2, <1>3 DEF I!Begin

(* The inventory is the tree of that moment.                               *)
LEMMA InventoryStep ==
  ASSUME IndexConstants, IndexInv, I!inventory PROVE IndexInv'
  <1>1. /\ step' = "read" /\ listed' = tree
        /\ UNCHANGED <<tree, base, head, root, writes, rows, graph, indexState, restored, slipped,
                       unsaved, before, read>>
    BY DEF I!inventory, I!user, I!tables, I!marks
  <1>2. IndexTypeInv'
    BY <1>1 DEF IndexInv, IndexTypeInv, FileState, IndexConstants
  <1>3. StampInv' /\ BatchInv' /\ WindowInv'
    BY <1>1 DEF IndexInv, StampInv, BatchInv, WindowInv, Older, I!Content
  <1>4. GraphInv' /\ SavedInv'
    BY <1>1 DEF IndexInv, GraphInv, SavedInv, Right
  <1>5. ReadInv'
    BY <1>1 DEF IndexInv, ReadInv, I!inventory
  <1>. QED BY <1>2, <1>3, <1>4, <1>5 DEF IndexInv

(* A file that is not the one of the inventory any more ends the batch.    *)
LEMMA ReadStep ==
  ASSUME IndexConstants, IndexInv, NEW p \in Paths, I!index_scope(p) PROVE IndexInv'
  <1>1. UNCHANGED <<I!user, I!tables, I!marks>>
    BY DEF I!index_scope
  <1>2. CASE I!End
    BY <1>1, <1>2, EndStep
  <1>3. CASE tree[p] = listed[p]
    <2>1. /\ step = "read" /\ read' = [read EXCEPT ![p] = I!Content(p)]
          /\ UNCHANGED <<step, before, listed>>
      BY <1>3 DEF I!index_scope
    <2>2. UNCHANGED <<tree, base, head, root, writes, rows, graph, indexState, restored, slipped, unsaved>>
      BY <1>1 DEF I!user, I!tables, I!marks
    <2>3. I!Content(p) \in Nat
      BY DEF IndexInv, IndexTypeInv, I!Content
    <2>4. IndexTypeInv'
      BY <2>1, <2>2, <2>3 DEF IndexInv, IndexTypeInv
    <2>5. StampInv' /\ BatchInv'
      BY <2>1, <2>2 DEF IndexInv, StampInv, BatchInv
    <2>6. WindowInv' /\ GraphInv' /\ SavedInv'
      BY <2>1, <2>2 DEF IndexInv, GraphInv, SavedInv, WindowInv, Right, I!Content
    <2>7. ReadInv'
      BY <1>3, <2>1, <2>2 DEF IndexInv, ReadInv, IndexTypeInv, I!Content
    <2>. QED BY <2>4, <2>5, <2>6, <2>7 DEF IndexInv
  <1>. QED BY <1>2, <1>3 DEF I!index_scope

(* What one batch makes of a path.                                         *)
LEMMA BatchFacts ==
  ASSUME IndexConstants, IndexInv, step = "read", \A q \in I!Work : read[q] # I!Unread,
         I!replace_partition, I!replace_manifest_scopes, listed' = listed, NEW p \in Paths
  PROVE  /\ graph'[p] \in Nat
         /\ rows'[p] \in {NoState} \cup ((Nat \ {I!Absent}) \X Nat)
         /\ rows'[p] \in {NoState, rows[p], listed[p]}
         /\ rows'[p] # NoState =>
              \/ graph'[p] = rows'[p][1]
              \/ I!scope_of(p) = <<"root">> /\ rows'[p][2] < tree[p][2]
         /\ rows'[p] = NoState /\ ~I!Nested(p) => graph'[p] = I!Absent
         /\ Right(p, listed[p][1])'
  <1>1. /\ rows'[p] = IF p \in I!Work THEN listed[p]
                      ELSE IF p \in I!Deleted THEN NoState ELSE rows[p]
        /\ graph'[p] = IF p \in I!Work THEN read[p]
                       ELSE IF I!scope_of(p) \in I!affected THEN I!Absent ELSE graph[p]
    BY DEF I!replace_partition, I!replace_manifest_scopes
  <1>2. /\ listed[p] \in Nat \X Nat /\ read[p] \in Nat \cup {I!Unread} /\ graph[p] \in Nat
        /\ rows[p] \in {NoState} \cup ((Nat \ {I!Absent}) \X Nat)
        /\ tree[p] \in Nat \X Nat
        /\ listed[p] # NoState
    BY DEF IndexInv, IndexTypeInv, IndexConstants, FileState
  <1>3. /\ rows[p] # NoState => Older(rows[p], listed[p]) /\ Older(rows[p], tree[p])
        /\ Older(listed[p], tree[p])
    BY DEF IndexInv, StampInv
  <1>4. I!scope_of(p) \in I!affected /\ p \notin I!Work => listed[p][1] = I!Absent
    BY DEF I!Work, I!Listed
  <1>5. /\ listed[p][1] # I!Absent /\ rows[p] # listed[p] => I!scope_of(p) \in I!affected
        /\ listed[p][1] = I!Absent /\ rows[p] # NoState => I!scope_of(p) \in I!affected
    BY DEF I!affected, I!Listed
  <1>6. p \in I!Deleted => I!Nested(p) \/ I!scope_of(p) \in I!affected
    BY DEF I!Deleted, I!Nested, I!affected
  <1>7. I!scope_of(p) \in I!affected /\ I!scope_of(p) # <<"root">> => p \in I!Deleted
    BY OwnScope DEF I!Deleted
  <1>8. /\ rows[p] # NoState =>
             \/ graph[p] = rows[p][1]
             \/ I!scope_of(p) = <<"root">> /\ rows[p][2] < tree[p][2] /\ rows[p][2] < listed[p][2]
        /\ rows[p] = NoState /\ ~I!Nested(p) => graph[p] = I!Absent
    BY DEF IndexInv, GraphInv
  <1>9. CASE p \in I!Work
    <2>1. rows'[p] = listed[p] /\ graph'[p] = listed[p][1]
      BY <1>1, <1>9 DEF IndexInv, ReadInv
    <2>2. listed[p][1] # I!Absent
      BY <1>9 DEF I!Work, I!Listed
    <2>3. Right(p, listed[p][1])'
      BY <1>2, <2>1 DEF Right
    <2>. QED BY <1>2, <2>1, <2>2, <2>3
  <1>10. CASE p \notin I!Work /\ I!scope_of(p) \in I!affected
    <2>1. listed[p][1] = I!Absent /\ graph'[p] = I!Absent
      BY <1>1, <1>4, <1>10
    <2>2. rows'[p] \in {NoState, rows[p]}
      BY <1>1, <1>10
    <2>3. rows'[p] # NoState =>
            rows[p] # NoState /\ I!scope_of(p) = <<"root">> /\ rows'[p][2] < tree[p][2]
      <3>. SUFFICES ASSUME rows'[p] # NoState
                    PROVE  rows[p] # NoState /\ I!scope_of(p) = <<"root">> /\ rows'[p][2] < tree[p][2]
        OBVIOUS
      <3>1. rows'[p] = rows[p] /\ I!scope_of(p) = <<"root">>
        BY <1>1, <1>7, <1>10
      <3>2. rows[p][1] # I!Absent
        BY <1>2, <3>1
      <3>3. rows[p] # listed[p] /\ rows[p][2] < listed[p][2]
        BY <1>3, <2>1, <3>1, <3>2 DEF Older
      <3>. QED BY <1>2, <1>3, <3>1, <3>3 DEF Older
    <2>. QED BY <1>2, <2>1, <2>2, <2>3 DEF Right, I!Absent
  <1>11. CASE p \notin I!Work /\ I!scope_of(p) \notin I!affected
    <2>1. graph'[p] = graph[p] /\ rows'[p] = IF p \in I!Deleted THEN NoState ELSE rows[p]
      BY <1>1, <1>11
    <2>2. p \in I!Deleted => I!Nested(p)
      BY <1>6, <1>11
    <2>3. listed[p][1] # I!Absent => rows[p] = listed[p] /\ graph[p] = listed[p][1]
      BY <1>2, <1>5, <1>8, <1>11
    <2>4. listed[p][1] = I!Absent => rows[p] = NoState
      BY <1>5, <1>11
    <2>. QED BY <1>2, <1>8, <2>1, <2>2, <2>3, <2>4 DEF Right
  <1>. QED BY <1>9, <1>10, <1>11

(* The tables are replaced together.                                       *)
LEMMA CommitBatchStep ==
  ASSUME IndexConstants, IndexInv, I!CommitBatch PROVE IndexInv'
  <1>1. UNCHANGED <<tree, base, head, root, writes, indexState, restored, slipped>>
    BY DEF I!CommitBatch, I!user
  <1>2. CASE I!conflict
    <2>1. I!End /\ UNCHANGED <<I!user, I!tables, I!marks>>
      BY <1>1, <1>2 DEF I!CommitBatch, I!user, I!tables, I!marks
    <2>. QED BY <2>1, EndStep
  <1>3. CASE ~I!conflict
    <2>1. /\ step = "read" /\ \A q \in I!Work : read[q] # I!Unread
          /\ I!replace_partition /\ I!replace_manifest_scopes
          /\ step' = "after" /\ UNCHANGED <<before, listed, read>>
      BY <1>3 DEF I!CommitBatch
    <2>2. unsaved' = TRUE
      BY <1>3, Zenon DEF I!CommitBatch
    <2>3. \A p \in Paths :
            /\ graph'[p] \in Nat
            /\ rows'[p] \in {NoState} \cup ((Nat \ {I!Absent}) \X Nat)
            /\ rows'[p] \in {NoState, rows[p], listed[p]}
            /\ rows'[p] # NoState =>
                 \/ graph'[p] = rows'[p][1]
                 \/ I!scope_of(p) = <<"root">> /\ rows'[p][2] < tree[p][2]
            /\ rows'[p] = NoState /\ ~I!Nested(p) => graph'[p] = I!Absent
            /\ Right(p, listed[p][1])'
      BY <2>1, BatchFacts
    <2>4. IndexTypeInv'
      <3>1. /\ rows' = [p \in Paths |-> rows'[p]] /\ graph' = [p \in Paths |-> graph'[p]]
        BY <2>1 DEF I!replace_partition, I!replace_manifest_scopes
      <3>2. /\ rows' \in [Paths -> {NoState} \cup ((Nat \ {I!Absent}) \X Nat)]
            /\ graph' \in [Paths -> Nat]
        BY <2>3, <3>1
      <3>. QED BY <1>1, <2>1, <2>2, <3>2 DEF IndexInv, IndexTypeInv
    <2>5. StampInv'
      BY <1>1, <2>1, <2>3 DEF IndexInv, StampInv
    <2>6. ReadInv' /\ BatchInv' /\ SavedInv'
      BY <2>1, <2>2, <2>3 DEF ReadInv, BatchInv, SavedInv
    <2>7. GraphInv'
      BY <1>1, <2>1, <2>3 DEF GraphInv
    <2>8. WindowInv'
      BY <1>1, <2>1 DEF IndexInv, WindowInv, I!Content
    <2>. QED BY <2>4, <2>5, <2>6, <2>7, <2>8 DEF IndexInv
  <1>. QED BY <1>2, <1>3

(* A fingerprint is saved over an inventory that is right about what is    *)
(* clean under it.                                                         *)
LEMMA SaveStateStep ==
  ASSUME IndexConstants, IndexInv, I!SaveState PROVE IndexInv'
  <1>1. /\ step = "after" /\ I!End
        /\ UNCHANGED <<tree, base, head, root, writes, rows, graph, restored>>
    BY DEF I!SaveState, I!user
  <1>2. CASE UNCHANGED <<indexState, slipped, unsaved>>
    <2>1. UNCHANGED <<I!user, I!tables, I!marks>>
      BY <1>1, <1>2 DEF I!user, I!tables, I!marks
    <2>. QED BY <1>1, <2>1, EndStep
  <1>3. CASE /\ before = NoState \/ before = I!Fingerprint
             /\ indexState' = <<root, I!Fingerprint>> /\ slipped' = restored /\ unsaved' = FALSE
    <2>1. IndexTypeInv'
      <3>1. indexState'[1] \in 0..root' /\ indexState'[2][1] \in 0..head'
        BY <1>1, <1>3 DEF I!Fingerprint, IndexInv, IndexTypeInv
      <3>2. unsaved' \in BOOLEAN
        BY <1>3, Zenon
      <3>. QED BY <1>1, <1>3, <3>1, <3>2, EndTyped DEF IndexInv, IndexTypeInv
    <2>2. StampInv' /\ ReadInv' /\ BatchInv' /\ WindowInv' /\ GraphInv'
      BY <1>1, EndTyped DEF IndexInv, StampInv, ReadInv, BatchInv, WindowInv, GraphInv
    <2>3. SavedInv'
      <3>1. before = NoState \/ before[1] = head
        BY <1>3 DEF I!Fingerprint
      <3>2. ASSUME NEW p \in Paths \ restored, I!Content(p) = base[p] PROVE Right(p, base[p])
        BY <1>1, <3>1, <3>2 DEF IndexInv, WindowInv, BatchInv
      <3>3. ASSUME NEW p \in Paths, I!Fingerprint[2][p] = "clean" PROVE I!Content(p) = base[p]
        BY <3>3 DEF I!Fingerprint, I!Status
      <3>. QED BY <1>1, <1>3, <3>2, <3>3 DEF SavedInv, Right
    <2>. QED BY <2>1, <2>2, <2>3 DEF IndexInv
  <1>. QED BY <1>2, <1>3 DEF I!SaveState, I!git_fingerprint, I!save_index_state

(* What the user does leaves the tables alone; rows and inventory stay     *)
(* earlier states of the files when stamps only grow.                      *)
LEMMA UserFrame ==
  ASSUME IndexInv, UNCHANGED <<rows, graph, indexState, slipped, unsaved, step, before, listed, read>>,
         tree' \in [Paths -> Nat \X (0..MaxWrites)], writes' \in 0..MaxWrites, writes <= writes',
         \A p \in Paths : tree'[p] = tree[p] \/ (tree'[p][2] = writes' /\ writes < writes')
  PROVE  StampInv' /\ ReadInv' /\ GraphInv' /\ BatchInv'
  <1>1. ASSUME NEW p \in Paths
        PROVE  /\ tree'[p][2] <= writes' /\ tree[p][2] <= tree'[p][2]
               /\ tree[p] = tree'[p] \/ tree[p][2] < tree'[p][2]
    BY <1>1 DEF IndexInv, StampInv, IndexTypeInv
  <1>2. ASSUME NEW p \in Paths
        PROVE  /\ tree[p] \in Nat \X Nat /\ tree'[p] \in Nat \X Nat /\ listed[p] \in Nat \X Nat
               /\ rows[p] # NoState => rows[p] \in Nat \X Nat
    BY <1>2 DEF IndexInv, IndexTypeInv, FileState
  <1>3. StampInv'
    <2>. SUFFICES ASSUME NEW p \in Paths
                  PROVE  /\ tree'[p][2] <= writes'
                         /\ rows[p] # NoState => Older(rows[p], tree'[p])
                         /\ step \in {"read", "after"} => Older(listed[p], tree'[p])
                         /\ step = "read" /\ rows[p] # NoState => Older(rows[p], listed[p])
      BY DEF StampInv, Older
    <2>1. /\ rows[p] # NoState => Older(rows[p], tree[p])
          /\ step \in {"read", "after"} => Older(listed[p], tree[p])
          /\ step = "read" /\ rows[p] # NoState => Older(rows[p], listed[p])
      BY DEF IndexInv, StampInv
    <2>. QED BY <1>1, <1>2, <2>1 DEF Older
  <1>4. GraphInv'
    <2>. SUFFICES ASSUME NEW p \in Paths, rows[p] # NoState, rows[p][2] < tree[p][2]
                  PROVE  rows[p][2] < tree'[p][2]
      BY DEF IndexInv, GraphInv
    <2>. QED BY <1>1, <1>2
  <1>5. ReadInv' /\ BatchInv'
    BY DEF IndexInv, ReadInv, BatchInv, Right
  <1>. QED BY <1>3, <1>4, <1>5

(* A file that returns to HEAD while it is indexed is marked.              *)
LEMMA WriteFileStep ==
  ASSUME IndexConstants, IndexInv, NEW p \in Paths, I!WriteFile(p) PROVE IndexInv'
  <1>1. PICK content \in {I!Absent, writes + 2, base[p]} \ {I!Content(p)} :
          /\ tree' = I!Put(tree, p, content)
          /\ restored' = IF content = base[p] /\ step # "idle" THEN restored \cup {p} ELSE restored
    BY DEF I!WriteFile
  <1>2. /\ writes < MaxWrites /\ writes' = writes + 1
        /\ UNCHANGED <<base, head, root, rows, graph, indexState, slipped, unsaved,
                       step, before, listed, read>>
    BY DEF I!WriteFile, I!Intervene, I!tables, I!local
  <1>3. /\ writes \in Nat /\ writes' \in 0..MaxWrites /\ writes < writes'
        /\ content \in Nat
    BY <1>1, <1>2 DEF IndexInv, IndexTypeInv, IndexConstants, I!Absent
  <1>4. /\ tree' = [tree EXCEPT ![p] = <<content, writes'>>]
        /\ tree' \in [Paths -> Nat \X (0..MaxWrites)]
    BY <1>1, <1>2, <1>3 DEF I!Put, IndexInv, IndexTypeInv
  <1>5. \A q \in Paths : tree'[q] = IF q = p THEN <<content, writes'>> ELSE tree[q]
    BY <1>4 DEF IndexInv, IndexTypeInv
  <1>6. StampInv' /\ ReadInv' /\ GraphInv' /\ BatchInv'
    <2>1. \A q \in Paths : tree'[q] = tree[q] \/ (tree'[q][2] = writes' /\ writes < writes')
      BY <1>3, <1>5
    <2>. QED BY <1>2, <1>3, <1>4, <2>1, UserFrame
  <1>7. IndexTypeInv'
    <2>1. restored' \subseteq Paths
      BY <1>1 DEF IndexInv, IndexTypeInv
    <2>. QED BY <1>2, <1>3, <1>4, <2>1 DEF IndexInv, IndexTypeInv
  <1>8. WindowInv'
    <2>1. ASSUME NEW q \in Paths \ restored', step \in {"read", "after"},
                 tree'[q][1] = base[q]
          PROVE  q \notin restored /\ I!Content(q) = base[q]
      BY <1>1, <1>5, <2>1 DEF I!Content
    <2>. QED BY <1>2, <2>1 DEF IndexInv, WindowInv, I!Content
  <1>9. SavedInv'
    BY <1>2 DEF IndexInv, SavedInv, Right
  <1>. QED BY <1>6, <1>7, <1>8, <1>9 DEF IndexInv

(* HEAD moves: neither fingerprint is that of HEAD any more, and without a *)
(* first one everything is marked.                                         *)
LEMMA HeadMoves ==
  ASSUME IndexConstants, IndexInv, head' = head + 1, restored' = restored \cup I!Unguarded,
         UNCHANGED <<root, rows, graph, indexState, slipped, unsaved, step, before, listed, read>>,
         tree' \in [Paths -> Nat \X (0..MaxWrites)], base' \in [Paths -> Nat],
         writes' = writes + 1, writes < MaxWrites,
         \A p \in Paths : tree'[p] = tree[p] \/ tree'[p][2] = writes'
  PROVE  IndexInv'
  <1>1. writes \in Nat /\ writes' \in 0..MaxWrites /\ writes < writes' /\ head \in Nat
    BY DEF IndexInv, IndexTypeInv, IndexConstants
  <1>2. StampInv' /\ ReadInv' /\ GraphInv' /\ BatchInv'
    BY <1>1, UserFrame
  <1>3. IndexTypeInv'
    <2>1. restored' \subseteq Paths
      BY DEF I!Unguarded, IndexInv, IndexTypeInv
    <2>2. /\ before # NoState => before[1] \in 0..(head + 1)
          /\ indexState # NoState => indexState[1] \in 0..root /\ indexState[2][1] \in 0..(head + 1)
      BY <1>1 DEF IndexInv, IndexTypeInv
    <2>. QED BY <1>1, <2>1, <2>2 DEF IndexInv, IndexTypeInv
  <1>4. WindowInv'
    <2>1. before # NoState => before[1] # head + 1
      BY <1>1 DEF IndexInv, IndexTypeInv
    <2>2. step \in {"read", "after"} /\ before = NoState => restored' = Paths
      BY DEF I!Unguarded, IndexInv, IndexTypeInv
    <2>. QED BY <2>1, <2>2 DEF WindowInv
  <1>5. SavedInv'
    <2>1. indexState # NoState => indexState[2][1] # head + 1
      BY <1>1 DEF IndexInv, IndexTypeInv
    <2>. QED BY <2>1 DEF SavedInv
  <1>. QED BY <1>2, <1>3, <1>4, <1>5 DEF IndexInv

(* A commit of all there is.                                               *)
LEMMA CommitFilesStep ==
  ASSUME IndexConstants, IndexInv, I!CommitFiles PROVE IndexInv'
  <1>1. base' \in [Paths -> Nat]
    BY DEF I!CommitFiles, I!Content, IndexInv, IndexTypeInv
  <1>. QED BY <1>1, HeadMoves DEF I!CommitFiles, I!Intervene, I!tables, I!local, IndexInv, IndexTypeInv

(* A commit from elsewhere.                                                *)
LEMMA PullStep ==
  ASSUME IndexConstants, IndexInv, NEW p \in Paths, I!Pull(p) PROVE IndexInv'
  <1>1. /\ writes < MaxWrites /\ writes' = writes + 1 /\ head' = head + 1
        /\ restored' = restored \cup I!Unguarded
        /\ UNCHANGED <<root, rows, graph, indexState, slipped, unsaved, step, before, listed, read>>
    BY DEF I!Pull, I!Intervene, I!tables, I!local
  <1>2. writes + 2 \in Nat /\ writes + 1 \in 0..MaxWrites
    BY <1>1 DEF IndexInv, IndexTypeInv, IndexConstants
  <1>3. base' \in [Paths -> Nat] /\ tree' \in [Paths -> Nat \X (0..MaxWrites)]
    BY <1>2 DEF I!Pull, I!Put, IndexInv, IndexTypeInv
  <1>4. \A q \in Paths : tree'[q] = tree[q] \/ tree'[q][2] = writes'
    BY <1>1 DEF I!Pull, I!Put, IndexInv, IndexTypeInv
  <1>. QED BY <1>1, <1>3, <1>4, HeadMoves

(* A checkout in another place has no saved fingerprint.                   *)
LEMMA RelocateStep ==
  ASSUME IndexConstants, IndexInv, I!Relocate PROVE IndexInv'
  <1>1. /\ writes < MaxWrites /\ writes' = writes + 1 /\ root' = root + 1 /\ step = "idle"
        /\ tree' = [p \in Paths |-> <<base[p], writes + 1>>]
        /\ UNCHANGED <<base, head, rows, graph, indexState, restored, slipped, unsaved,
                       step, before, listed, read>>
    BY DEF I!Relocate, I!Intervene, I!tables, I!marks, I!local
  <1>2. writes \in Nat /\ writes' \in 0..MaxWrites /\ writes < writes' /\ root \in Nat
    BY <1>1 DEF IndexInv, IndexTypeInv, IndexConstants
  <1>3. /\ tree' \in [Paths -> Nat \X (0..MaxWrites)]
        /\ \A p \in Paths : tree'[p] = tree[p] \/ (tree'[p][2] = writes' /\ writes < writes')
    BY <1>1, <1>2 DEF IndexInv, IndexTypeInv
  <1>4. StampInv' /\ ReadInv' /\ GraphInv' /\ BatchInv'
    BY <1>1, <1>2, <1>3, UserFrame
  <1>5. indexState # NoState => indexState[1] \in 0..(root + 1) /\ indexState[1] # root + 1
    BY <1>2 DEF IndexInv, IndexTypeInv
  <1>6. IndexTypeInv'
    BY <1>1, <1>2, <1>3, <1>5 DEF IndexInv, IndexTypeInv
  <1>7. WindowInv' /\ SavedInv'
    BY <1>1, <1>5 DEF WindowInv, SavedInv
  <1>. QED BY <1>4, <1>6, <1>7 DEF IndexInv

(* An empty index of a checkout at HEAD.                                   *)
LEMMA InitIndexInv ==
  ASSUME IndexConstants, I!Init PROVE IndexInv
  <1>1. IndexTypeInv
    <2>1. unsaved \in BOOLEAN
      BY Zenon DEF I!Init
    <2>. QED BY <2>1 DEF I!Init, IndexTypeInv, IndexConstants, FileState, I!Absent
  <1>2. StampInv /\ ReadInv /\ GraphInv /\ BatchInv
    BY DEF I!Init, StampInv, ReadInv, GraphInv, BatchInv
  <1>3. WindowInv /\ SavedInv
    BY DEF I!Init, WindowInv, SavedInv
  <1>. QED BY <1>1, <1>2, <1>3 DEF IndexInv

(* Every step of the indexing and of the user keeps the invariant.         *)
LEMMA NextIndexInv ==
  ASSUME IndexConstants, IndexInv, [I!Next]_(I!ivars) PROVE IndexInv'
  <1>1. CASE I!CrashIndex
    BY <1>1, EndStep DEF I!CrashIndex
  <1>2. CASE UNCHANGED I!ivars
    <2>1. /\ UNCHANGED <<tree, base, head, root, writes, rows, graph, indexState>>
          /\ UNCHANGED <<restored, slipped, unsaved, step, before, listed, read>>
      BY <1>2 DEF I!ivars, I!user, I!tables, I!marks, I!local
    <2>2. IndexTypeInv' /\ StampInv' /\ ReadInv' /\ GraphInv'
      BY <2>1 DEF IndexInv, IndexTypeInv, StampInv, ReadInv, GraphInv
    <2>3. BatchInv' /\ WindowInv' /\ SavedInv'
      BY <2>1 DEF IndexInv, BatchInv, WindowInv, SavedInv, Right, I!Content
    <2>. QED BY <2>2, <2>3 DEF IndexInv
  <1>. QED BY <1>1, <1>2, CodeIndexStep, BeginStep, InventoryStep, CommitBatchStep,
              SaveStateStep, ReadStep, WriteFileStep, PullStep, CommitFilesStep, RelocateStep
           DEF I!Next

-----------------------------------------------------------------------------
(* The theorems.                                                           *)

(* Every reachable state of the index satisfies the invariant.             *)
THEOREM IndexInvariance == ASSUME IndexConstants PROVE I!Spec => []IndexInv
  <1>1. I!Init => IndexInv
    BY InitIndexInv
  <1>2. IndexInv /\ [I!Next]_(I!ivars) => IndexInv'
    BY NextIndexInv
  <1>. QED BY <1>1, <1>2, PTL DEF I!Spec

(* Contents, stamps, rows and marks of the index are well typed.           *)
THEOREM IndexTyped == ASSUME IndexConstants PROVE I!Spec => []I!TypeOK
  <1>1. IndexInv => I!TypeOK
    BY DEF IndexInv, IndexTypeInv, I!TypeOK, I!Content
  <1>. QED BY IndexInvariance, <1>1, PTL

(* A row of the manifest vouches for what was parsed, and an index that    *)
(* index_and_context reuses is right about every file git calls clean, for *)
(* every tree of sources, whatever is written, deleted, committed or moved *)
(* while it is read, and wherever the process dies.                        *)
THEOREM IndexIsTrue == ASSUME IndexConstants PROVE I!Spec => []I!IndexTellsTruth
  <1>1. IndexInv => I!RowsMatchGraph
    BY DEF IndexInv, GraphInv, I!RowsMatchGraph
  <1>2. IndexConstants /\ IndexInv => I!ReusedIsFresh
    <2>. SUFFICES ASSUME IndexConstants, IndexInv, indexState = <<root, I!Fingerprint>>, ~unsaved,
                         NEW p \in Paths \ slipped, I!Status(p) = "clean"
                  PROVE  Right(p, I!Content(p))
      BY DEF I!ReusedIsFresh, Right
    <2>1. I!Content(p) = base[p]
      BY DEF I!Status
    <2>2. /\ indexState # NoState /\ indexState[1] = root /\ indexState[2][1] = head
          /\ indexState[2][2][p] = "clean"
      BY DEF I!Fingerprint, IndexConstants
    <2>. QED BY <2>1, <2>2 DEF IndexInv, SavedInv
  <1>. QED BY IndexInvariance, <1>1, <1>2, PTL DEF I!IndexTellsTruth

-----------------------------------------------------------------------------
(* Leases: every set of sessions, every duration and every bound on the    *)
(* clock and on the number of leases.                                      *)

(* What a session is told about its lease.                                 *)
Reply == [id : 1..MaxLeases, expires : 0..MaxClock]

(* Times are natural numbers, and the absence of a lease is not a lease.   *)
LeaseConstants ==
  /\ Duration \in Nat /\ MaxClock \in Nat /\ MaxLeases \in Nat
  /\ NoLease \notin S!Row \cup Reply

(* A session calls on a time it has read before.                           *)
ClockInv == \A s \in Workers : at[s] <= clock

(* The row is the lease granted last, and is marked for review only after  *)
(* it has expired.                                                         *)
RowInv ==
  row # NoLease =>
    /\ row.id = granted
    /\ row.status = "uncertain" => row.expires < clock

(* A lease is told to one session only.  While its row exists, the session *)
(* believes no more than the row says, and the row was renewed no later    *)
(* than the session last read the clock, so that renewing it again never   *)
(* shortens it.  Once the row is gone, the session has stopped believing.  *)
HeldInv ==
  \A s \in Workers : held[s] # NoLease =>
    /\ held[s].id <= granted
    /\ \A u \in Workers \ {s} : held[u] # NoLease => held[u].id # held[s].id
    /\ IF row # NoLease /\ row.id = held[s].id
       THEN held[s].expires <= row.expires /\ row.expires <= at[s] + Duration
       ELSE held[s].expires < clock

(* Work that may not be repeated and that nobody has closed is the row's.  *)
OpenInv ==
  \A id \in open : row # NoLease /\ row.id = id /\ row.safety = "non_idempotent"

LeaseInv == S!TypeOK /\ ClockInv /\ RowInv /\ HeldInv /\ OpenInv

(* No lease is granted at first.                                           *)
LEMMA InitLeaseInv == LeaseConstants /\ S!Init => LeaseInv
  BY DEF LeaseConstants, S!Init, LeaseInv, S!TypeOK, ClockInv, RowInv, HeldInv, OpenInv

(* Every call, and every clock tick, review and death of a session between *)
(* the calls, preserves the invariant.                                     *)
LEMMA NextLeaseInv == LeaseConstants /\ LeaseInv /\ [S!Next]_(S!leaseVars) => LeaseInv'
  <1> SUFFICES ASSUME LeaseConstants, LeaseInv, [S!Next]_(S!leaseVars)
               PROVE  LeaseInv'
    OBVIOUS
  <1> USE DEF LeaseConstants, LeaseInv, S!TypeOK, S!Row, Reply, S!Safety, ClockInv, RowInv,
              HeldInv, OpenInv
  <1>1. CASE S!Tick
    BY <1>1 DEF S!Tick
  <1>2. CASE S!Review
    <2>1. S!TypeOK' /\ ClockInv' /\ RowInv' /\ OpenInv'
      BY <1>2 DEF S!Review, S!release_lease
    <2>2. HeldInv'
      BY <1>2 DEF S!Review, S!release_lease
    <2> QED
      BY <2>1, <2>2
  <1>3. ASSUME NEW s \in Workers, S!ReadClock(s)
        PROVE  LeaseInv'
    BY <1>3 DEF S!ReadClock
  <1>4. ASSUME NEW s \in Workers, NEW safety \in S!Safety, S!AcquireLease(s, safety)
        PROVE  LeaseInv'
    <2>1. S!TypeOK' /\ ClockInv'
      BY <1>4 DEF S!AcquireLease, S!acquire, S!Fits, S!Told
    <2>2. RowInv'
      BY <1>4 DEF S!AcquireLease, S!acquire, S!reconcile
    <2>3. HeldInv'
      BY <1>4 DEF S!AcquireLease, S!acquire, S!reconcile, S!Fits, S!Told
    <2>4. OpenInv'
      BY <1>4 DEF S!AcquireLease, S!acquire, S!reconcile, S!Fits, S!Told
    <2> QED
      BY <2>1, <2>2, <2>3, <2>4
  <1>5. ASSUME NEW s \in Workers, S!HeartbeatLease(s)
        PROVE  LeaseInv'
    <2>1. S!TypeOK' /\ ClockInv'
      BY <1>5 DEF S!HeartbeatLease, S!heartbeat, S!Fits, S!Told
    <2>2. RowInv'
      BY <1>5 DEF S!HeartbeatLease, S!heartbeat
    <2>3. HeldInv'
      BY <1>5 DEF S!HeartbeatLease, S!heartbeat, S!Fits, S!Told
    <2>4. OpenInv'
      BY <1>5 DEF S!HeartbeatLease, S!heartbeat, S!Fits, S!Told
    <2> QED
      BY <2>1, <2>2, <2>3, <2>4
  <1>6. ASSUME NEW s \in Workers, S!ReleaseLease(s)
        PROVE  LeaseInv'
    <2>1. S!TypeOK' /\ ClockInv'
      BY <1>6 DEF S!ReleaseLease, S!release_lease
    <2>2. RowInv' /\ OpenInv'
      BY <1>6 DEF S!ReleaseLease, S!release_lease
    <2>3. HeldInv'
      BY <1>6 DEF S!ReleaseLease, S!release_lease
    <2> QED
      BY <2>1, <2>2, <2>3
  <1>7. ASSUME NEW s \in Workers, S!Die(s)
        PROVE  LeaseInv'
    BY <1>7 DEF S!Die
  <1>8. CASE UNCHANGED S!leaseVars
    BY <1>8 DEF S!leaseVars
  <1> QED
    BY <1>1, <1>2, <1>3, <1>4, <1>5, <1>6, <1>7, <1>8 DEF S!Next

(* Every reachable state of the table and its sessions satisfies the       *)
(* invariant.                                                              *)
THEOREM LeaseInvariance == ASSUME LeaseConstants PROVE S!Spec => []LeaseInv
  <1>1. S!Init => LeaseInv
    BY InitLeaseInv
  <1>2. LeaseInv /\ [S!Next]_(S!leaseVars) => LeaseInv'
    BY NextLeaseInv
  <1> QED
    BY <1>1, <1>2, PTL DEF S!Spec

(* acquire_lease never gives the task to a second session while an earlier *)
(* one believes it holds it, and never repeats work that may not be        *)
(* repeated and that nobody has closed, although calls run on stale times, *)
(* replies are lost and sessions die.                                      *)
THEOREM LeaseExclusive == ASSUME LeaseConstants PROVE S!Spec => []S!LeaseIsExclusive
  <1>1. LeaseInv => S!LeaseIsExclusive
    BY DEF LeaseConstants, LeaseInv, S!TypeOK, Reply, S!Row, HeldInv, OpenInv,
           S!LeaseIsExclusive, S!Believes
  <1> QED
    BY <1>1, LeaseInvariance, PTL

-----------------------------------------------------------------------------
(* Plans: every set of submissions over any tasks, requirements and write  *)
(* scopes, and every bound on setbacks.                                    *)

(* The module of plans has copies of its own of the library's operators.   *)
LEMMA PlanLibrary ==
  /\ \A s : P!ToSet(s) = ToSet(s) /\ (P!IsInjective(s) <=> IsInjective(s))
  /\ \A s : P!Cardinality(s) = Cardinality(s)
  /\ \A s, t : P!IsPrefix(s, t) <=> IsPrefix(s, t)
  <1>1. \A s : P!ToSet(s) = ToSet(s)
    BY DEF P!ToSet, ToSet
  <1>2. \A s : P!IsInjective(s) <=> IsInjective(s)
    BY DEF P!IsInjective, IsInjective
  <1>3. \A s : P!Cardinality(s) = Cardinality(s)
    BY DEF P!Cardinality, Cardinality
  <1>4. \A s, t : P!IsPrefix(s, t) <=> IsPrefix(s, t)
    BY DEF P!IsPrefix, IsPrefix
  <1> QED
    BY <1>1, <1>2, <1>3, <1>4

(* A task of a submitted plan.                                             *)
PlanTask == [id : Nat, dependencies : Seq(Nat), requirement_ids : Seq(STRING),
          write_scopes : Seq(Seq(STRING))]

(* Plans are plans, and tasks are ordered by their names.                  *)
PlanConstants ==
  /\ MaxSetbacks \in Nat
  /\ \A p \in Submissions : p # <<>> /\ p.tasks \in Seq(PlanTask)

(* The tasks of a graph are known: what a task depends on is there.        *)
Known(nodes) ==
  /\ nodes \in Seq(PlanTask)
  /\ \A i \in DOMAIN nodes : ToSet(nodes[i].dependencies) \subseteq P!Ids(nodes)

(* The least set with a task that holds the dependencies of its members.   *)
Reach(nodes, task) ==
  {x \in P!Ids(nodes) : \A done \in P!Moments(nodes) : task \in done => x \in done}

(* A task of the graph is where Node finds it.                             *)
LEMMA NodeFound ==
  ASSUME NEW nodes, NEW t \in P!Ids(nodes)
  PROVE  \E i \in DOMAIN nodes : nodes[i].id = t /\ P!Node(nodes, t) = nodes[i]
  BY DEF P!Ids, P!Node

(* Dependencies are tasks of the graph.                                    *)
LEMMA DependenciesKnown ==
  ASSUME NEW nodes, Known(nodes), NEW t
  PROVE  P!Dependencies(nodes, t) \subseteq P!Ids(nodes)
  BY PlanLibrary, NodeFound DEF Known, P!Dependencies

(* There are as many tasks as entries, or fewer.                           *)
LEMMA IdsFinite ==
  ASSUME NEW nodes, Known(nodes)
  PROVE  /\ IsFiniteSet(P!Ids(nodes)) /\ Cardinality(P!Ids(nodes)) \in Nat
         /\ Cardinality(P!Ids(nodes)) <= Len(nodes) /\ P!Ids(nodes) \subseteq Nat
  <1>1. Len(nodes) \in Nat /\ DOMAIN nodes = 1..Len(nodes)
    BY DEF Known
  <1>2. IsFiniteSet(1..Len(nodes)) /\ Cardinality(1..Len(nodes)) = Len(nodes)
    <2>1. \A n \in Nat : IsFiniteSet(1..n) /\ Cardinality(1..n) = n
      <3> SUFFICES ASSUME NEW n \in Nat PROVE IsFiniteSet(1..n) /\ Cardinality(1..n) = n
        OBVIOUS
      <3>1. 1 \in Int /\ n \in Int
        OBVIOUS
      <3>2. IsFiniteSet(1..n) /\ Cardinality(1..n) = IF 1 > n THEN 0 ELSE n - 1 + 1
        BY <3>1, FS_Interval
      <3> QED
        BY <3>2
    <2> QED
      BY <1>1, <2>1
  <1> DEFINE f == [i \in 1..Len(nodes) |-> nodes[i].id]
  <1>3. f \in Surjection(1..Len(nodes), P!Ids(nodes))
    BY <1>1 DEF Surjection, P!Ids
  <1>4. IsFiniteSet(P!Ids(nodes)) /\ Cardinality(P!Ids(nodes)) <= Len(nodes)
    BY <1>2, <1>3, FS_Surjection
  <1>5. P!Ids(nodes) \subseteq Nat
    <2>1. ASSUME NEW i \in DOMAIN nodes PROVE nodes[i].id \in Nat
      <3>1. nodes[i] \in PlanTask
        BY DEF Known
      <3> QED
        BY <3>1 DEF PlanTask
    <2> QED
      BY <2>1 DEF P!Ids
  <1> QED
    BY <1>4, <1>5, FS_CardinalityType

(* What a task reaches is a set of tasks that can be done at some moment.  *)
LEMMA ReachClosed ==
  ASSUME NEW nodes, Known(nodes), NEW t \in P!Ids(nodes)
  PROVE  /\ t \in Reach(nodes, t) /\ Reach(nodes, t) \in P!Moments(nodes)
         /\ \A done \in P!Moments(nodes) : t \in done => Reach(nodes, t) \subseteq done
  <1>1. t \in Reach(nodes, t) /\ Reach(nodes, t) \in SUBSET P!Ids(nodes)
    BY DEF Reach
  <1>2. ASSUME NEW x \in Reach(nodes, t), NEW y \in P!Dependencies(nodes, x)
        PROVE  y \in Reach(nodes, t)
    BY <1>2, DependenciesKnown DEF Reach, P!Moments
  <1> QED
    BY <1>1, <1>2 DEF P!Moments, Reach

(* One round of the search of depends_on.                                  *)
Round(nodes, v) == v \cup UNION {P!Dependencies(nodes, t) : t \in v}

(* The rounds, as the code goes through them.                              *)
Rounds(nodes, task, f) ==
  f = [n \in 0..Len(nodes) |->
        IF n = 0 THEN {task}
        ELSE f[n - 1] \cup UNION {P!Dependencies(nodes, t) : t \in f[n - 1]}]

(* The rounds exist, and each follows from the one before.                 *)
LEMMA RoundsExist ==
  ASSUME NEW nodes, Known(nodes), NEW task \in P!Ids(nodes)
  PROVE  \E f : Rounds(nodes, task, f)
  <1> DEFINE V == SUBSET P!Ids(nodes)
             m == Len(nodes)
             a == {task}
             G == [i \in 1..m |-> [v \in V |-> Round(nodes, v)]]
  <1>1. m \in Nat /\ a \in V
    BY DEF Known
  <1>2. ASSUME NEW v \in V PROVE Round(nodes, v) \in V
    BY DependenciesKnown DEF Round
  <1>3. G \in [1..m -> [V -> V]]
    BY <1>2
  <1> HIDE DEF V, m
  <1>4. PICK f \in [0..m -> V] : f[0] = a /\ \A i \in 1..m : f[i] = G[i][f[i - 1]]
    <2> HIDE DEF G, a
    <2> QED
      BY <1>1, <1>3, Iterates
  <1>5. ASSUME NEW n \in 0..m, n # 0
        PROVE  f[n] = f[n - 1] \cup UNION {P!Dependencies(nodes, t) : t \in f[n - 1]}
    <2>1. n \in 1..m /\ n - 1 \in 0..m
      BY <1>1, <1>5
    <2>2. f[n] = G[n][f[n - 1]] /\ f[n - 1] \in V
      BY <1>4, <2>1
    <2>3. f[n] = Round(nodes, f[n - 1])
      BY <2>1, <2>2
    <2> QED
      BY <2>3 DEF Round
  <1>6. Rounds(nodes, task, f)
    BY <1>1, <1>4, <1>5 DEF Rounds, m
  <1> QED
    BY <1>6

(* depends_on asks for the dependencies of the last round.                 *)
LEMMA LastRound ==
  ASSUME NEW nodes, Known(nodes), NEW task \in P!Ids(nodes)
  PROVE  \E f : /\ Rounds(nodes, task, f)
                /\ \A target : P!depends_on(nodes, task, target)
                      <=> \E t \in f[Len(nodes)] : target \in P!Dependencies(nodes, t)
  <1> DEFINE g == CHOOSE f : Rounds(nodes, task, f)
  <1>1. Rounds(nodes, task, g)
    BY RoundsExist
  <1>2. ASSUME NEW target
        PROVE  P!depends_on(nodes, task, target)
                 <=> \E t \in g[Len(nodes)] : target \in P!Dependencies(nodes, t)
    BY DEF P!depends_on, Rounds
  <1> QED
    BY <1>1, <1>2

(* The search of depends_on ends with all a task reaches: a round that     *)
(* adds nothing is the last to matter, and there are more rounds than      *)
(* tasks to add.                                                           *)
LEMMA SearchReaches ==
  ASSUME NEW nodes, Known(nodes), NEW task \in P!Ids(nodes), NEW f, Rounds(nodes, task, f)
  PROVE  f[Len(nodes)] = Reach(nodes, task)
  <1> DEFINE m == Len(nodes)
             Done(v) == \A t \in v : P!Dependencies(nodes, t) \subseteq v
             T == {n \in Nat : n <= m =>
                     /\ f[n] \in SUBSET Reach(nodes, task) /\ task \in f[n]
                     /\ Done(f[n]) \/ Cardinality(f[n]) >= n + 1}
  <1>1. /\ m \in Nat /\ f[0] = {task}
        /\ \A n \in 0..m : n # 0 => f[n] = Round(nodes, f[n - 1])
    <2>1. m \in Nat /\ 0 \in 0..m
      BY DEF Known
    <2>2. f[0] = {task}
      BY <2>1 DEF Rounds
    <2>3. ASSUME NEW n \in 0..m, n # 0 PROVE f[n] = Round(nodes, f[n - 1])
      BY <2>3 DEF Rounds, Round
    <2> QED
      BY <2>1, <2>2, <2>3
  <1>2. /\ task \in Reach(nodes, task) /\ Reach(nodes, task) \in SUBSET P!Ids(nodes)
        /\ Done(Reach(nodes, task))
    BY ReachClosed DEF P!Moments
  <1>3. 0 \in T
    <2>1. Cardinality(f[0]) = 1
      BY <1>1, FS_Singleton
    <2>2. f[0] \in SUBSET Reach(nodes, task) /\ task \in f[0]
      BY <1>1, <1>2
    <2>3. Cardinality(f[0]) >= 0 + 1
      BY <2>1
    <2> HIDE DEF Done, m
    <2> QED
      BY <2>2, <2>3
  <1>4. ASSUME NEW n \in T PROVE n + 1 \in T
    <2> SUFFICES ASSUME n + 1 <= m
                 PROVE  /\ f[n + 1] \in SUBSET Reach(nodes, task) /\ task \in f[n + 1]
                        /\ Done(f[n + 1]) \/ Cardinality(f[n + 1]) >= (n + 1) + 1
      <3> HIDE DEF Done, m
      <3>1. n + 1 \in Nat
        OBVIOUS
      <3> QED
        BY <3>1
    <2>1. n \in Nat /\ n <= m /\ n + 1 \in 0..m /\ n + 1 # 0 /\ (n + 1) - 1 = n
      BY <1>1
    <2>2. /\ f[n] \in SUBSET Reach(nodes, task) /\ task \in f[n]
          /\ Done(f[n]) \/ Cardinality(f[n]) >= n + 1
      BY <2>1
    <2>3. f[n + 1] = Round(nodes, f[n])
      BY <1>1, <2>1
    <2>4. f[n] \subseteq f[n + 1] /\ f[n + 1] \in SUBSET Reach(nodes, task)
      BY <1>2, <2>2, <2>3 DEF Round
    <2>5. CASE Done(f[n])
      <3>1. f[n + 1] = f[n]
        BY <2>3, <2>5 DEF Round
      <3> QED
        BY <2>2, <2>5, <3>1
    <2>6. CASE ~Done(f[n])
      <3>1. PICK x : x \in f[n + 1] /\ x \notin f[n]
        BY <2>3, <2>6 DEF Round
      <3>2. IsFiniteSet(f[n + 1]) /\ IsFiniteSet(f[n])
        BY <1>2, <2>2, <2>4, IdsFinite, FS_Subset
      <3>3. Cardinality(f[n] \cup {x}) = Cardinality(f[n]) + 1 /\ f[n] \cup {x} \subseteq f[n + 1]
        BY <2>4, <3>1, <3>2, FS_AddElement
      <3>4. Cardinality(f[n] \cup {x}) <= Cardinality(f[n + 1])
        BY <3>2, <3>3, FS_Subset
      <3>5. Cardinality(f[n]) \in Nat /\ Cardinality(f[n + 1]) \in Nat
        BY <3>2, FS_CardinalityType
      <3>6. Cardinality(f[n]) >= n + 1
        BY <2>2, <2>6
      <3>7. Cardinality(f[n + 1]) >= (n + 1) + 1
        <4> HIDE DEF Done, T, m
        <4> QED
          BY <2>1, <3>3, <3>4, <3>5, <3>6
      <3> QED
        BY <2>2, <2>4, <3>7
    <2> QED
      BY <2>5, <2>6
  <1>5. T = Nat
    <2>1. T \in SUBSET Nat
      OBVIOUS
    <2> HIDE DEF T
    <2> QED
      BY <1>3, <1>4, <2>1, NatInduct
  <1>6. /\ f[m] \in SUBSET Reach(nodes, task) /\ task \in f[m]
        /\ Done(f[m]) \/ Cardinality(f[m]) >= m + 1
    <2>1. m \in T /\ m <= m
      BY <1>1, <1>5
    <2> QED
      BY <2>1
  <1>7. Done(f[m])
    <2>1. /\ Cardinality(f[m]) <= Cardinality(P!Ids(nodes)) /\ Cardinality(P!Ids(nodes)) \in Nat
          /\ Cardinality(P!Ids(nodes)) <= m /\ Cardinality(f[m]) \in Nat
      <3>1. f[m] \in SUBSET P!Ids(nodes)
        BY <1>2, <1>6
      <3> QED
        BY <3>1, IdsFinite, FS_Subset, FS_CardinalityType
    <2>2. ~(Cardinality(f[m]) >= m + 1)
      <3> HIDE DEF Done, T, m
      <3> QED
        BY <1>1, <2>1
    <2> QED
      BY <1>6, <2>2
  <1>8. f[m] \in P!Moments(nodes)
    BY <1>2, <1>6, <1>7 DEF P!Moments
  <1> QED
    BY <1>6, <1>8, ReachClosed

(* depends_on looks for a dependency of what the task reaches.             *)
LEMMA DependsOn ==
  ASSUME NEW nodes, Known(nodes), NEW t \in P!Ids(nodes), NEW u
  PROVE  P!depends_on(nodes, t, u) <=> \E x \in Reach(nodes, t) : u \in P!Dependencies(nodes, x)
  <1>1. PICK f : /\ Rounds(nodes, t, f)
                 /\ \A target : P!depends_on(nodes, t, target)
                       <=> \E x \in f[Len(nodes)] : target \in P!Dependencies(nodes, x)
    BY LastRound
  <1>2. f[Len(nodes)] = Reach(nodes, t)
    BY <1>1, SearchReaches
  <1> QED
    BY <1>1, <1>2

(* A task depends on its dependencies and on what they depend on, and on   *)
(* nothing else.                                                           *)
LEMMA DependsFirst ==
  ASSUME NEW nodes, Known(nodes), NEW t \in P!Ids(nodes), NEW u
  PROVE  P!depends_on(nodes, t, u) <=>
           \E y \in P!Dependencies(nodes, t) : y = u \/ P!depends_on(nodes, y, u)
  <1>1. /\ t \in Reach(nodes, t) /\ Reach(nodes, t) \in P!Moments(nodes)
        /\ \A done \in P!Moments(nodes) : t \in done => Reach(nodes, t) \subseteq done
    BY ReachClosed
  <1>2. ASSUME NEW y \in P!Dependencies(nodes, t)
        PROVE  /\ y \in P!Ids(nodes) /\ Reach(nodes, y) \subseteq Reach(nodes, t)
               /\ y \in Reach(nodes, y) /\ Reach(nodes, y) \in P!Moments(nodes)
    <2>1. y \in P!Ids(nodes) /\ y \in Reach(nodes, t)
      BY <1>1, DependenciesKnown DEF P!Moments
    <2> QED
      BY <1>1, <2>1, ReachClosed
  <1>3. ASSUME P!depends_on(nodes, t, u)
        PROVE  \E y \in P!Dependencies(nodes, t) : y = u \/ P!depends_on(nodes, y, u)
    <2> DEFINE done == {t} \cup {x \in P!Ids(nodes) : \E y \in P!Dependencies(nodes, t) : x \in Reach(nodes, y)}
    <2>1. done \in P!Moments(nodes)
      <3>1. done \in SUBSET P!Ids(nodes)
        OBVIOUS
      <3>2. ASSUME NEW x \in done, NEW z \in P!Dependencies(nodes, x) PROVE z \in done
        <4>1. z \in P!Ids(nodes)
          BY DependenciesKnown
        <4>2. CASE x = t
          BY <1>2, <4>1, <4>2
        <4>3. CASE x # t
          <5>1. PICK y \in P!Dependencies(nodes, t) : x \in Reach(nodes, y)
            BY <4>3
          <5>2. z \in Reach(nodes, y)
            BY <1>2, <5>1 DEF P!Moments
          <5> QED
            BY <4>1, <5>2
        <4> QED
          BY <4>2, <4>3
      <3> HIDE DEF done
      <3> QED
        BY <3>1, <3>2 DEF P!Moments
    <2>2. PICK x \in Reach(nodes, t) : u \in P!Dependencies(nodes, x)
      BY <1>3, DependsOn
    <2>3. x \in done
      BY <1>1, <2>1
    <2>4. CASE x = t
      BY <2>2, <2>4
    <2>5. CASE x # t
      <3>1. PICK y \in P!Dependencies(nodes, t) : x \in Reach(nodes, y)
        BY <2>3, <2>5
      <3>2. P!depends_on(nodes, y, u)
        BY <1>2, <2>2, <3>1, DependsOn
      <3> QED
        BY <3>2
    <2> QED
      BY <2>4, <2>5
  <1>4. ASSUME NEW y \in P!Dependencies(nodes, t), y = u \/ P!depends_on(nodes, y, u)
        PROVE  P!depends_on(nodes, t, u)
    <2>1. CASE y = u
      BY <1>1, <2>1, DependsOn
    <2>2. CASE P!depends_on(nodes, y, u)
      <3>1. PICK x \in Reach(nodes, y) : u \in P!Dependencies(nodes, x)
        BY <1>2, <2>2, DependsOn
      <3> QED
        BY <1>2, <3>1, DependsOn
    <2> QED
      BY <1>4, <2>1, <2>2
  <1> QED
    BY <1>3, <1>4

(* What a task depends on depends on its dependencies too.                 *)
LEMMA DependsLast ==
  ASSUME NEW nodes, Known(nodes), NEW t \in P!Ids(nodes), NEW u, P!depends_on(nodes, t, u)
  PROVE  /\ u \in P!Ids(nodes) /\ u \in Reach(nodes, t)
         /\ \A z \in P!Dependencies(nodes, u) : P!depends_on(nodes, t, z)
  <1>1. PICK x \in Reach(nodes, t) : u \in P!Dependencies(nodes, x)
    BY DependsOn
  <1>2. u \in P!Ids(nodes) /\ u \in Reach(nodes, t)
    BY <1>1, DependenciesKnown, ReachClosed DEF P!Moments
  <1> QED
    BY <1>2, DependsOn

(* A graph whose tasks can all be done has no task that depends on itself. *)
LEMMA ExecutableAcyclic ==
  ASSUME NEW nodes, Known(nodes), P!Executable(nodes), NEW u \in P!Ids(nodes)
  PROVE  ~P!depends_on(nodes, u, u)
  <1> SUFFICES ASSUME P!depends_on(nodes, u, u) PROVE FALSE
    OBVIOUS
  <1> DEFINE done == {x \in P!Ids(nodes) : ~P!depends_on(nodes, x, u)}
  <1>1. done \in P!Moments(nodes)
    <2>1. ASSUME NEW x \in done, NEW y \in P!Dependencies(nodes, x) PROVE y \in done
      BY DependsFirst, DependenciesKnown
    <2> QED
      BY <2>1 DEF P!Moments
  <1>2. u \notin done
    OBVIOUS
  <1>3. PICK t \in P!Ids(nodes) \ done : P!Dependencies(nodes, t) \subseteq done
    BY <1>1, <1>2 DEF P!Executable
  <1>4. PICK y \in P!Dependencies(nodes, t) : y = u \/ P!depends_on(nodes, y, u)
    BY <1>3, DependsFirst
  <1> QED
    BY <1>2, <1>3, <1>4

(* Two tasks of such a graph can be ready together exactly when neither    *)
(* depends on the other.                                                   *)
LEMMA TogetherUnordered ==
  ASSUME NEW nodes, Known(nodes), P!Executable(nodes), NEW t \in P!Ids(nodes), NEW u \in P!Ids(nodes)
  PROVE  P!ReadyTogether(nodes, t, u) <=> (~P!depends_on(nodes, t, u) /\ ~P!depends_on(nodes, u, t))
  <1>1. ASSUME NEW v \in P!Ids(nodes), NEW w \in P!Ids(nodes), P!depends_on(nodes, v, w),
               NEW done \in P!Moments(nodes), P!Dependencies(nodes, v) \subseteq done
        PROVE  w \in done
    <2>1. PICK y \in P!Dependencies(nodes, v) : y = w \/ P!depends_on(nodes, y, w)
      BY <1>1, DependsFirst
    <2>2. CASE y = w
      BY <1>1, <2>2
    <2>3. CASE P!depends_on(nodes, y, w)
      <3>1. y \in P!Ids(nodes) /\ y \in done
        BY <1>1, DependenciesKnown
      <3>2. w \in Reach(nodes, y)
        BY <2>3, <3>1, DependsLast
      <3> QED
        BY <3>1, <3>2, ReachClosed
    <2> QED
      BY <2>1, <2>2, <2>3
  <1>2. ASSUME P!ReadyTogether(nodes, t, u)
        PROVE  ~P!depends_on(nodes, t, u) /\ ~P!depends_on(nodes, u, t)
    BY <1>1, <1>2 DEF P!ReadyTogether
  <1>3. ASSUME ~P!depends_on(nodes, t, u), ~P!depends_on(nodes, u, t)
        PROVE  P!ReadyTogether(nodes, t, u)
    <2> DEFINE done == {x \in P!Ids(nodes) : P!depends_on(nodes, t, x) \/ P!depends_on(nodes, u, x)}
    <2>1. done \in P!Moments(nodes)
      <3>1. ASSUME NEW x \in done, NEW y \in P!Dependencies(nodes, x) PROVE y \in done
        BY DependsLast, DependenciesKnown
      <3> QED
        BY <3>1 DEF P!Moments
    <2>2. t \notin done /\ u \notin done
      BY <1>3, ExecutableAcyclic
    <2>3. P!Dependencies(nodes, t) \cup P!Dependencies(nodes, u) \subseteq done
      BY DependsFirst, DependenciesKnown
    <2> QED
      BY <2>1, <2>2, <2>3 DEF P!ReadyTogether
  <1> QED
    BY <1>2, <1>3

(* The tasks that can come next in the order.                              *)
Following(nodes, s) ==
  {t \in P!Ids(nodes) \ P!ToSet(s) : P!Dependencies(nodes, t) \subseteq P!ToSet(s)}

Extended(nodes, s) ==
  IF Following(nodes, s) = {} THEN s ELSE Append(s, P!Min(Following(nodes, s)))

(* The order, as sort builds it.                                           *)
Orders(nodes, f) ==
  f = [n \in 0..Len(nodes) |->
        IF n = 0 THEN <<>>
        ELSE LET done  == P!ToSet(f[n - 1])
                 ready == {t \in P!Ids(nodes) \ done : P!Dependencies(nodes, t) \subseteq done}
             IN IF ready = {} THEN f[n - 1] ELSE Append(f[n - 1], P!Min(ready))]

(* The least of the tasks that can come next is one of them.               *)
LEMMA MinFollows ==
  ASSUME NEW nodes, Known(nodes), NEW s, Following(nodes, s) # {}
  PROVE  P!Min(Following(nodes, s)) \in Following(nodes, s)
  <1> DEFINE U == Following(nodes, s)
  <1>1. U \in SUBSET Nat
    BY IdsFinite DEF Following
  <1> HIDE DEF U
  <1>2. U # {}
    BY DEF U
  <1>3. \E x \in U : \A y \in U : x <= y
    BY <1>1, <1>2, NatLeast
  <1>4. P!Min(U) \in U
    BY <1>3 DEF P!Min
  <1> QED
    BY <1>4 DEF U

(* The order is a sequence of tasks at every step.                         *)
LEMMA OrdersExist ==
  ASSUME NEW nodes, Known(nodes)
  PROVE  \E f : Orders(nodes, f)
  <1> DEFINE V == Seq(P!Ids(nodes))
             m == Len(nodes)
             a == <<>>
             G == [i \in 1..m |-> [s \in V |-> Extended(nodes, s)]]
  <1>1. m \in Nat /\ a \in V
    BY DEF Known
  <1>2. ASSUME NEW s \in V PROVE Extended(nodes, s) \in V
    <2>1. CASE Following(nodes, s) = {}
      BY <2>1 DEF Extended
    <2>2. CASE Following(nodes, s) # {}
      <3>1. P!Min(Following(nodes, s)) \in P!Ids(nodes)
        BY <2>2, MinFollows DEF Following
      <3> QED
        BY <2>2, <3>1 DEF Extended
    <2> QED
      BY <2>1, <2>2
  <1>3. G \in [1..m -> [V -> V]]
    BY <1>2
  <1> HIDE DEF V, m, a
  <1>4. PICK f \in [0..m -> V] : f[0] = a /\ \A i \in 1..m : f[i] = G[i][f[i - 1]]
    <2> HIDE DEF G
    <2> QED
      BY <1>1, <1>3, Iterates
  <1>5. ASSUME NEW n \in 0..m, n # 0
        PROVE  f[n] = Extended(nodes, f[n - 1])
    <2>1. n \in 1..m /\ n - 1 \in 0..m
      BY <1>1, <1>5
    <2>2. f[n] = G[n][f[n - 1]] /\ f[n - 1] \in V
      BY <1>4, <2>1
    <2> QED
      BY <2>1, <2>2
  <1>6. f = [n \in 0..m |-> IF n = 0 THEN <<>> ELSE Extended(nodes, f[n - 1])]
    BY <1>1, <1>4, <1>5 DEF a
  <1>7. Orders(nodes, f)
    BY <1>6 DEF Orders, m, Extended, Following
  <1> QED
    BY <1>7

(* What sort returns: an order in which every task comes after those it    *)
(* depends on, each once, that ends where no task can follow.              *)
LEMMA Sorted ==
  ASSUME NEW nodes, Known(nodes)
  PROVE  \E s \in Seq(P!Ids(nodes)) :
           /\ P!sort(nodes) = s /\ IsInjective(s)
           /\ \A i \in DOMAIN s : \A y \in P!Dependencies(nodes, s[i]) :
                \E j \in 1..(i - 1) : s[j] = y
           /\ Len(s) = Len(nodes) \/ Following(nodes, s) = {}
  <1> DEFINE m == Len(nodes)
             f == CHOOSE g : Orders(nodes, g)
             Ordered(s) == \A i \in DOMAIN s : \A y \in P!Dependencies(nodes, s[i]) :
                             \E j \in 1..(i - 1) : s[j] = y
             Fits(n) == /\ f[n] \in Seq(P!Ids(nodes)) /\ IsInjective(f[n]) /\ Ordered(f[n])
                        /\ Len(f[n]) = n \/ Following(nodes, f[n]) = {}
             T == {n \in Nat : n <= m => Fits(n)}
  <1>1. Orders(nodes, f)
    BY OrdersExist
  <1>2. P!sort(nodes) = f[m]
    BY DEF P!sort, Orders
  <1> HIDE DEF f
  <1>3. /\ m \in Nat /\ f[0] = <<>>
        /\ \A n \in 0..m : n # 0 => f[n] = Extended(nodes, f[n - 1])
    <2>1. m \in Nat /\ 0 \in 0..m
      BY DEF Known
    <2>2. f[0] = <<>>
      BY <1>1, <2>1 DEF Orders
    <2>3. ASSUME NEW n \in 0..m, n # 0 PROVE f[n] = Extended(nodes, f[n - 1])
      BY <1>1, <2>3 DEF Orders, Extended, Following
    <2> QED
      BY <2>1, <2>2, <2>3
  <1>4. 0 \in T
    <2>1. Fits(0)
      BY <1>3 DEF IsInjective
    <2> HIDE DEF Fits
    <2> QED
      BY <2>1
  <1>5. ASSUME NEW n \in T PROVE n + 1 \in T
    <2> SUFFICES ASSUME n + 1 <= m PROVE Fits(n + 1)
      <3> HIDE DEF Fits, m
      <3>1. n + 1 \in Nat
        OBVIOUS
      <3> QED
        BY <3>1
    <2>1. n \in Nat /\ n <= m /\ n + 1 \in 0..m /\ n + 1 # 0 /\ (n + 1) - 1 = n
      BY <1>3
    <2>2. Fits(n)
      <3> HIDE DEF Fits, m
      <3> QED
        BY <2>1
    <2>3. PICK s \in Seq(P!Ids(nodes)) : s = f[n]
      BY <2>2
    <2>4. f[n + 1] = Extended(nodes, s)
      BY <1>3, <2>1, <2>3
    <2>5. IsInjective(s) /\ Ordered(s) /\ (Len(s) = n \/ Following(nodes, s) = {})
      BY <2>2, <2>3
    <2>6. CASE Following(nodes, s) = {}
      <3>1. f[n + 1] = s
        BY <2>4, <2>6 DEF Extended
      <3> HIDE DEF Ordered
      <3> QED
        BY <2>5, <2>6, <3>1
    <2>7. CASE Following(nodes, s) # {}
      <3>1. PICK x : x = P!Min(Following(nodes, s))
        OBVIOUS
      <3>2. /\ x \in P!Ids(nodes) /\ x \notin ToSet(s)
            /\ P!Dependencies(nodes, x) \subseteq ToSet(s)
        BY <2>7, <3>1, MinFollows, PlanLibrary DEF Following
      <3>3. PICK r \in Seq(P!Ids(nodes)) : r = Append(s, x)
        <4>1. Append(s, x) \in Seq(P!Ids(nodes))
          BY <3>2
        <4> QED
          BY <4>1
      <3>4. f[n + 1] = r
        BY <2>4, <2>7, <3>1, <3>3 DEF Extended
      <3>5. IsInjective(r)
        BY <2>5, <3>2, <3>3, InjectiveAppend
      <3>6. Len(s) = n /\ Len(r) = n + 1 /\ DOMAIN s = 1..n /\ DOMAIN r = 1..(n + 1)
        BY <2>5, <2>7, <3>2, <3>3
      <3>7. (\A i \in 1..n : r[i] = s[i]) /\ r[n + 1] = x
        BY <2>1, <3>2, <3>3, <3>6
      <3>8. Ordered(r)
        <4> SUFFICES ASSUME NEW i \in 1..(n + 1), NEW y \in P!Dependencies(nodes, r[i])
                     PROVE  \E j \in 1..(i - 1) : r[j] = y
          BY <3>6
        <4>1. CASE i = n + 1
          <5>1. PICK j \in 1..n : s[j] = y
            BY <3>2, <3>6, <3>7, <4>1 DEF ToSet
          <5> QED
            BY <2>1, <3>7, <4>1, <5>1
        <4>2. CASE i # n + 1
          <5>1. i \in 1..n
            BY <2>1, <4>2
          <5>2. PICK j \in 1..(i - 1) : s[j] = y
            BY <2>5, <3>6, <3>7, <5>1
          <5>3. j \in 1..n
            BY <2>1, <5>1
          <5> QED
            BY <3>7, <5>2, <5>3
        <4> QED
          BY <4>1, <4>2
      <3> HIDE DEF Ordered
      <3> QED
        BY <3>4, <3>5, <3>6, <3>8
    <2> QED
      BY <2>6, <2>7
  <1>6. T = Nat
    <2>1. T \in SUBSET Nat
      OBVIOUS
    <2> HIDE DEF T
    <2> QED
      BY <1>4, <1>5, <2>1, NatInduct
  <1>7. Fits(m)
    <2> HIDE DEF Fits
    <2>1. m \in T /\ m <= m
      BY <1>3, <1>6
    <2> QED
      BY <2>1
  <1> QED
    BY <1>2, <1>7

(* sort lists every task exactly when the tasks can all be done.           *)
LEMMA SortedExecutable ==
  ASSUME NEW nodes, Known(nodes), Cardinality(P!Ids(nodes)) = Len(nodes)
  PROVE  Len(P!sort(nodes)) = Len(nodes) <=> P!Executable(nodes)
  <1>1. PICK s \in Seq(P!Ids(nodes)) :
          /\ P!sort(nodes) = s /\ IsInjective(s)
          /\ \A i \in DOMAIN s : \A y \in P!Dependencies(nodes, s[i]) :
               \E j \in 1..(i - 1) : s[j] = y
          /\ Len(s) = Len(nodes) \/ Following(nodes, s) = {}
    BY Sorted
  <1>2. Cardinality(ToSet(s)) = Len(s)
    BY <1>1, InjectiveSize
  <1>3. ToSet(s) \in SUBSET P!Ids(nodes) /\ Len(s) \in Nat /\ DOMAIN s = 1..Len(s)
    BY DEF ToSet
  <1>4. ToSet(s) = P!Ids(nodes) <=> Len(s) = Len(nodes)
    BY <1>2, <1>3, IdsFinite, FS_Subset
  <1>5. ASSUME Len(s) = Len(nodes) PROVE P!Executable(nodes)
    <2> SUFFICES ASSUME NEW done \in P!Moments(nodes), done # P!Ids(nodes)
                 PROVE  \E t \in P!Ids(nodes) \ done : P!Dependencies(nodes, t) \subseteq done
      BY DEF P!Executable
    <2> DEFINE U == {i \in 1..Len(s) : s[i] \notin done}
    <2>1. ToSet(s) = P!Ids(nodes) /\ done \subseteq P!Ids(nodes)
      BY <1>4, <1>5 DEF P!Moments
    <2>2. U # {} /\ U \in SUBSET Nat
      <3>1. PICK t \in P!Ids(nodes) : t \notin done
        BY <2>1
      <3>2. PICK i \in DOMAIN s : s[i] = t
        BY <2>1 DEF ToSet
      <3> QED
        BY <1>3, <3>1, <3>2
    <2>3. PICK i \in U : \A j \in U : i <= j
      <3> HIDE DEF U
      <3> QED
        BY <2>2, NatLeast
    <2>4. ASSUME NEW y \in P!Dependencies(nodes, s[i]) PROVE y \in done
      <3>1. PICK j \in 1..(i - 1) : s[j] = y
        BY <1>1, <1>3
      <3>2. j \in 1..Len(s) /\ ~(i <= j)
        BY <1>3
      <3> QED
        BY <2>3, <3>1, <3>2
    <2>5. s[i] \in P!Ids(nodes) \ done
      BY <1>3
    <2> QED
      BY <2>4, <2>5
  <1>6. ASSUME P!Executable(nodes), Len(s) # Len(nodes) PROVE FALSE
    <2>1. ToSet(s) \in P!Moments(nodes)
      <3>1. ASSUME NEW t \in ToSet(s), NEW y \in P!Dependencies(nodes, t) PROVE y \in ToSet(s)
        <4>1. PICK i \in DOMAIN s : s[i] = t
          BY DEF ToSet
        <4>2. PICK j \in 1..(i - 1) : s[j] = y
          BY <1>1, <4>1
        <4>3. j \in DOMAIN s
          BY <1>3, <4>1
        <4> QED
          BY <4>2, <4>3 DEF ToSet
      <3> QED
        BY <1>3, <3>1 DEF P!Moments
    <2>2. ToSet(s) # P!Ids(nodes)
      BY <1>4, <1>6
    <2> QED
      BY <1>1, <1>6, <2>1, <2>2, PlanLibrary DEF P!Executable, Following
  <1> QED
    BY <1>1, <1>5, <1>6

(* Of two tasks of a graph that can be carried out, one comes before the   *)
(* other exactly when they are two and cannot be ready together.           *)
LEMMA OrderedApart ==
  ASSUME NEW nodes, Known(nodes), P!Executable(nodes), Cardinality(P!Ids(nodes)) = Len(nodes),
         NEW i \in DOMAIN nodes, NEW j \in DOMAIN nodes
  PROVE  P!dependency_ordered(nodes, nodes[i].id, nodes[j].id)
           <=> i # j /\ ~P!ReadyTogether(nodes, nodes[i].id, nodes[j].id)
  <1>1. PICK a \in P!Ids(nodes) : a = nodes[i].id
    BY DEF P!Ids
  <1>2. PICK b \in P!Ids(nodes) : b = nodes[j].id
    BY DEF P!Ids
  <1>3. P!dependency_ordered(nodes, a, b) <=> ~P!ReadyTogether(nodes, a, b)
    BY TogetherUnordered DEF P!dependency_ordered
  <1>4. i = j => ~P!dependency_ordered(nodes, a, b)
    BY <1>1, <1>2, ExecutableAcyclic DEF P!dependency_ordered
  <1> QED
    BY <1>1, <1>2, <1>3, <1>4

(* TaskDag::validate accepts exactly the graphs that can be carried out    *)
(* without two places that write one path being worked on together.        *)
LEMMA ValidatedSound ==
  ASSUME NEW nodes \in Seq(PlanTask), nodes # <<>>, Cardinality(P!Ids(nodes)) = Len(nodes),
         \A i \in DOMAIN nodes : /\ IsInjective(nodes[i].dependencies)
                                 /\ ToSet(nodes[i].dependencies) \subseteq P!Ids(nodes),
         \A o \in P!Occurrences(nodes) : P!is_safe_relative(nodes[o[1]].write_scopes[o[2]]),
         \A i \in DOMAIN nodes : nodes[i].write_scopes # <<>>
  PROVE  P!validate_dag(nodes) <=>
           /\ P!Executable(nodes)
           /\ \A o, p \in P!Occurrences(nodes) :
                o # p /\ P!overlaps(nodes[o[1]].write_scopes[o[2]], nodes[p[1]].write_scopes[p[2]])
                  => o[1] # p[1] /\ ~P!ReadyTogether(nodes, nodes[o[1]].id, nodes[p[1]].id)
  <1> DEFINE Clash(o, p) ==
               o # p /\ P!overlaps(nodes[o[1]].write_scopes[o[2]], nodes[p[1]].write_scopes[p[2]])
  <1>1. Known(nodes)
    BY DEF Known
  <1>2. Len(P!sort(nodes)) = Len(nodes) <=> P!Executable(nodes)
    BY <1>1, SortedExecutable
  <1>3. ASSUME NEW i \in DOMAIN nodes, NEW k \in DOMAIN nodes[i].write_scopes
        PROVE  P!is_safe_relative(nodes[i].write_scopes[k])
    <2>1. <<i, k>> \in P!Occurrences(nodes)
      BY DEF P!Occurrences
    <2>2. P!is_safe_relative(nodes[<<i, k>>[1]].write_scopes[<<i, k>>[2]])
      BY <2>1
    <2> QED
      BY <2>2
  <1>4. \A o \in P!Occurrences(nodes) : o[1] \in DOMAIN nodes
    BY DEF P!Occurrences
  <1>5. P!validate_nodes(nodes) <=>
          \A o, p \in P!Occurrences(nodes) :
            Clash(o, p) => P!dependency_ordered(nodes, nodes[o[1]].id, nodes[p[1]].id)
    BY PlanLibrary, <1>3 DEF P!validate_nodes
  <1>6. P!Executable(nodes) =>
          \A o, p \in P!Occurrences(nodes) :
            P!dependency_ordered(nodes, nodes[o[1]].id, nodes[p[1]].id)
              <=> o[1] # p[1] /\ ~P!ReadyTogether(nodes, nodes[o[1]].id, nodes[p[1]].id)
    BY <1>1, <1>4, OrderedApart
  <1>7. P!validate_dag(nodes) <=> P!validate_nodes(nodes) /\ P!Executable(nodes)
    BY PlanLibrary, <1>2 DEF P!validate_dag
  <1> HIDE DEF Clash
  <1>8. P!validate_dag(nodes) <=>
           /\ P!Executable(nodes)
           /\ \A o, p \in P!Occurrences(nodes) : Clash(o, p)
                => o[1] # p[1] /\ ~P!ReadyTogether(nodes, nodes[o[1]].id, nodes[p[1]].id)
    BY <1>5, <1>6, <1>7
  <1> QED
    BY <1>8 DEF Clash

-----------------------------------------------------------------------------
(* The inductive invariant.                                                *)

(* The plan is one that was submitted, and its tasks have rows.            *)
PlanInv ==
  /\ accepted \in BOOLEAN
  /\ plan = <<>> => ~accepted /\ status = <<>> /\ bypassed = {} /\ attempts = <<>>
  /\ plan # <<>> => /\ plan \in Submissions /\ accepted = P!validate(plan)
                    /\ status \in [P!Ids(plan.tasks) -> P!TaskStates]
                    /\ attempts \in [P!Ids(plan.tasks) -> Nat]
                    /\ bypassed \subseteq P!Ids(plan.tasks)
  /\ ~accepted => \A t \in DOMAIN status : status[t] = "pending"
  /\ attempts = starts

(* Between two attempts at a task there is a setback.                      *)
AttemptsInv ==
  /\ setbacks \in 0..MaxSetbacks
  /\ \A t \in DOMAIN status :
       /\ attempts[t] <= setbacks + 1
       /\ status[t] \in {"pending", "ready", "leased", "blocked"} => attempts[t] <= setbacks

(* A task that has been ready had its dependencies done, unless it was     *)
(* blocked before.                                                         *)
OrderInv ==
  \A t \in DOMAIN status : status[t] \notin {"pending", "cancelled"} /\ t \notin bypassed =>
    \A x \in P!Dependencies(plan.tasks, t) : x \in DOMAIN status /\ status[x] = "completed"

PlanOK == PlanInv /\ AttemptsInv /\ OrderInv

(* What a command that is not refused does to the state of a task.         *)
LEMMA Applied ==
  ASSUME NEW state \in P!TaskStates, NEW command \in P!TaskCommands, P!apply(state, command) # state
  PROVE  /\ P!apply(state, command) \in P!TaskStates /\ state # "completed"
         /\ P!apply(state, command) # "pending"
         /\ command = "start" => state = "leased" /\ P!apply(state, command) = "running"
         /\ state = "pending" =>
              \/ command = "dependencies_satisfied"
              \/ command = "block" \/ P!apply(state, command) = "cancelled"
         /\ state = "cancelled" => P!apply(state, command) = "cancelled"
         /\ P!apply(state, command) \in {"ready", "leased", "blocked"} =>
              command \in P!Setbacks \/ state \in {"pending", "ready", "leased", "blocked"}
  BY DEF P!apply, P!TaskStates, P!TaskCommands, P!Setbacks, P!is_terminal

(* No plan is there at first.                                              *)
LEMMA InitPlanOK == PlanConstants /\ P!Init => PlanOK
  <1> SUFFICES ASSUME PlanConstants, P!Init PROVE PlanOK
    OBVIOUS
  <1>1. DOMAIN status = {} /\ setbacks \in 0..MaxSetbacks
    BY DEF P!Init, PlanConstants
  <1>2. PlanInv
    BY <1>1, Zenon DEF P!Init, PlanInv
  <1>3. AttemptsInv /\ OrderInv
    BY <1>1 DEF AttemptsInv, OrderInv
  <1> QED
    BY <1>2, <1>3 DEF PlanOK

(* A plan is read once.                                                    *)
LEMMA SubmitIInv ==
  ASSUME PlanConstants, PlanOK, P!Submit PROVE PlanOK'
  <1>1. plan = <<>> /\ bypassed = {} /\ setbacks \in 0..MaxSetbacks
    BY DEF P!Submit, PlanOK, PlanInv, AttemptsInv
  <1>2. PICK p \in Submissions :
          /\ plan' = p /\ accepted' = P!validate(p)
          /\ status' = [t \in P!Ids(p.tasks) |-> "pending"]
          /\ attempts' = [t \in P!Ids(p.tasks) |-> 0] /\ starts' = attempts'
    BY DEF P!Submit
  <1>3. bypassed' = {} /\ setbacks' = setbacks /\ p # <<>>
    BY <1>1, <1>2 DEF P!Submit, PlanConstants
  <1>4. PlanInv'
    <2>1. P!validate(p) \in BOOLEAN
      BY Zenon DEF P!validate
    <2>2. accepted' \in BOOLEAN /\ accepted' = P!validate(plan')
      BY <1>2, <2>1, Zenon
    <2>3. status' \in [P!Ids(p.tasks) -> P!TaskStates] /\ attempts' \in [P!Ids(p.tasks) -> Nat]
      BY <1>2 DEF P!TaskStates
    <2> HIDE DEF PlanInv
    <2> QED
      BY <1>2, <1>3, <2>2, <2>3 DEF PlanInv
  <1>5. AttemptsInv' /\ OrderInv'
    BY <1>1, <1>2, <1>3, PlanConstants DEF AttemptsInv, OrderInv, PlanConstants
  <1> QED
    BY <1>4, <1>5 DEF PlanOK

(* A command leaves a completed task alone, so that what was done when a   *)
(* task became ready stays done.                                           *)
LEMMA CommandIInv ==
  ASSUME PlanConstants, PlanOK, NEW t \in DOMAIN status, NEW command \in P!TaskCommands,
         P!Command(t, command)
  PROVE  PlanOK'
  <1> DEFINE to == P!apply(status[t], command)
  <1>1. /\ accepted /\ plan' = plan /\ accepted' = accepted /\ to # status[t]
        /\ status' = [status EXCEPT ![t] = to]
        /\ attempts' = IF command = "start" THEN [attempts EXCEPT ![t] = @ + 1] ELSE attempts
    BY DEF P!Command, P!apply_task_command
  <1>2. /\ command = "dependencies_satisfied" => t \in P!ready_tasks(P!completed)
        /\ setbacks' = IF command \in P!Setbacks THEN setbacks + 1 ELSE setbacks
        /\ setbacks' <= MaxSetbacks
        /\ starts' = IF command = "start" THEN [starts EXCEPT ![t] = @ + 1] ELSE starts
        /\ bypassed' = IF command = "block" /\ status[t] = "pending" THEN bypassed \cup {t}
                       ELSE bypassed
    BY DEF P!Command
  <1>3. /\ plan # <<>> /\ plan \in Submissions /\ accepted = P!validate(plan)
        /\ status \in [P!Ids(plan.tasks) -> P!TaskStates]
        /\ attempts \in [P!Ids(plan.tasks) -> Nat] /\ bypassed \subseteq P!Ids(plan.tasks)
        /\ attempts = starts /\ accepted \in BOOLEAN /\ t \in P!Ids(plan.tasks)
    BY <1>1 DEF PlanOK, PlanInv
  <1>4. /\ to \in P!TaskStates /\ status[t] # "completed" /\ to # "pending"
        /\ command = "start" => status[t] = "leased" /\ to = "running"
        /\ status[t] = "pending" =>
             command = "dependencies_satisfied" \/ command = "block" \/ to = "cancelled"
        /\ status[t] = "cancelled" => to = "cancelled"
        /\ to \in {"ready", "leased", "blocked"} =>
             command \in P!Setbacks \/ status[t] \in {"pending", "ready", "leased", "blocked"}
    BY <1>1, <1>3, Applied
  <1> HIDE DEF to
  <1>5. /\ status' \in [P!Ids(plan.tasks) -> P!TaskStates] /\ DOMAIN status' = DOMAIN status
        /\ status'[t] = to /\ \A u \in P!Ids(plan.tasks) \ {t} : status'[u] = status[u]
    BY <1>1, <1>3, <1>4
  <1>6. PlanInv'
    <2>1. attempts' \in [P!Ids(plan.tasks) -> Nat] /\ attempts' = starts'
      BY <1>1, <1>2, <1>3
    <2>2. bypassed' \subseteq P!Ids(plan.tasks)
      BY <1>2, <1>3
    <2>3. accepted' \in BOOLEAN /\ accepted' = P!validate(plan')
      BY <1>1, <1>3, Zenon
    <2> QED
      BY <1>1, <1>3, <1>5, <2>1, <2>2, <2>3 DEF PlanInv
  <1>7. AttemptsInv'
    <2>1. setbacks \in Nat /\ MaxSetbacks \in Nat /\ setbacks' \in 0..MaxSetbacks
          /\ setbacks <= setbacks'
      BY <1>2 DEF PlanOK, AttemptsInv, PlanConstants
    <2>2. ASSUME NEW u \in P!Ids(plan.tasks)
          PROVE  /\ attempts'[u] <= setbacks' + 1
                 /\ status'[u] \in {"pending", "ready", "leased", "blocked"}
                      => attempts'[u] <= setbacks'
      <3>1. /\ attempts[u] \in Nat /\ attempts[u] <= setbacks + 1
            /\ status[u] \in {"pending", "ready", "leased", "blocked"}
                 => attempts[u] <= setbacks
        BY <1>3 DEF PlanOK, AttemptsInv
      <3>2. CASE u # t
        <4>1. attempts'[u] = attempts[u] /\ status'[u] = status[u]
          BY <1>1, <1>3, <1>5, <3>2
        <4> QED
          BY <2>1, <3>1, <4>1
      <3>3. CASE u = t /\ command = "start"
        <4>1. attempts'[u] = attempts[u] + 1 /\ status'[u] = "running" /\ status[u] = "leased"
          BY <1>1, <1>3, <1>4, <1>5, <3>3
        <4> QED
          BY <2>1, <3>1, <4>1
      <3>4. CASE u = t /\ command # "start" /\ command \in P!Setbacks
        <4>1. attempts'[u] = attempts[u] /\ setbacks' = setbacks + 1
          BY <1>1, <1>2, <3>4
        <4> QED
          BY <2>1, <3>1, <4>1
      <3>5. CASE u = t /\ command # "start" /\ command \notin P!Setbacks
        <4>1. attempts'[u] = attempts[u] /\ setbacks' = setbacks /\ status'[u] = to
          BY <1>1, <1>2, <1>5, <3>5
        <4> QED
          BY <1>4, <2>1, <3>1, <3>5, <4>1
      <3> QED
        BY <3>2, <3>3, <3>4, <3>5
    <2> QED
      BY <1>5, <2>1, <2>2 DEF AttemptsInv
  <1>8. OrderInv'
    <2>1. ASSUME NEW x \in DOMAIN status, status[x] = "completed" PROVE status'[x] = "completed"
      BY <1>3, <1>4, <1>5, <2>1
    <2> SUFFICES ASSUME NEW u \in P!Ids(plan.tasks), status'[u] \notin {"pending", "cancelled"},
                        u \notin bypassed', NEW x \in P!Dependencies(plan.tasks, u)
                 PROVE  x \in DOMAIN status' /\ status'[x] = "completed"
      BY <1>1, <1>5 DEF OrderInv
    <2>2. u \notin bypassed
      BY <1>2
    <2>3. CASE status[u] \notin {"pending", "cancelled"}
      BY <1>3, <1>5, <2>1, <2>2, <2>3 DEF PlanOK, OrderInv
    <2>4. CASE status[u] \in {"pending", "cancelled"}
      <3>1. u = t /\ status[t] = "pending" /\ command = "dependencies_satisfied"
        BY <1>2, <1>4, <1>5, <2>4
      <3>2. x \in P!completed
        BY <1>2, <3>1 DEF P!ready_tasks
      <3> QED
        BY <1>5, <2>1, <3>2 DEF P!completed
    <2> QED
      BY <2>3, <2>4
  <1> QED
    BY <1>6, <1>7, <1>8 DEF PlanOK

(* Nothing changes when a start is sent again.                             *)
LEMMA NextPlanOK == PlanConstants /\ PlanOK /\ [P!Next]_(P!pvars) => PlanOK'
  <1> SUFFICES ASSUME PlanConstants, PlanOK, [P!Next]_(P!pvars) PROVE PlanOK'
    OBVIOUS
  <1>1. CASE UNCHANGED P!pvars
    BY <1>1 DEF P!pvars, PlanOK, PlanInv, AttemptsInv, OrderInv
  <1>2. ASSUME NEW t \in DOMAIN status, P!Resend(t) PROVE UNCHANGED P!pvars
    BY <1>2 DEF P!Resend, P!apply_task_command, P!pvars
  <1>3. CASE P!Next
    BY <1>1, <1>2, <1>3, SubmitIInv, CommandIInv DEF P!Next
  <1> QED
    BY <1>1, <1>3

(* Every reachable state of the plans satisfies the invariant.             *)
THEOREM PlanInvariance == ASSUME PlanConstants PROVE P!Spec => []PlanOK
  <1>1. P!Init => PlanOK
    BY InitPlanOK
  <1>2. PlanOK /\ [P!Next]_(P!pvars) => PlanOK'
    BY NextPlanOK
  <1> QED
    BY <1>1, <1>2, PTL DEF P!Spec

(* An accepted plan was validated, so its graph is known.                  *)
LEMMA AcceptedKnown ==
  ASSUME PlanConstants, PlanInv, accepted
  PROVE  /\ plan \in Submissions /\ P!validate_nodes(plan.tasks) /\ Known(plan.tasks)
         /\ status \in [P!Ids(plan.tasks) -> P!TaskStates]
  <1>1. plan # <<>> /\ plan \in Submissions /\ P!validate(plan)
    BY Zenon DEF PlanInv
  <1>2. P!validate_nodes(plan.tasks)
    BY <1>1 DEF P!validate, P!validate_dag
  <1>3. plan.tasks \in Seq(PlanTask)
    BY <1>1 DEF PlanConstants
  <1>4. Known(plan.tasks)
    BY PlanLibrary, <1>2, <1>3 DEF Known, P!validate_nodes
  <1> QED
    BY <1>1, <1>2, <1>4 DEF PlanInv

(* A task worked on has everything done that it depends on, and does not   *)
(* depend on another that is worked on.                                    *)
LEMMA WorkingApart ==
  ASSUME PlanConstants, PlanOK, accepted, NEW t \in P!Working, NEW u \in P!Working, t # u,
         ~P!Bypasses(t)
  PROVE  ~P!depends_on(plan.tasks, t, u)
  <1> SUFFICES ASSUME P!depends_on(plan.tasks, t, u) PROVE FALSE
    OBVIOUS
  <1> DEFINE nodes == plan.tasks
             done == {x \in P!Ids(nodes) : x = t \/ (P!depends_on(nodes, t, x) /\ status[x] = "completed")}
  <1>1. Known(nodes) /\ status \in [P!Ids(nodes) -> P!TaskStates]
    BY AcceptedKnown DEF PlanOK
  <1>2. t \in P!Ids(nodes) /\ u \in P!Ids(nodes) /\ status[u] # "completed"
    BY <1>1 DEF P!Working
  <1> HIDE DEF nodes
  <1>3. ASSUME NEW x \in done, NEW y \in P!Dependencies(nodes, x) PROVE y \in done
    <2>1. x \notin bypassed
      BY DEF P!Bypasses, nodes
    <2>2. status[x] \notin {"pending", "cancelled"}
      BY DEF P!Working
    <2>3. y \in P!Ids(nodes) /\ status[y] = "completed"
      BY <1>1, <2>1, <2>2 DEF PlanOK, OrderInv, nodes
    <2>4. P!depends_on(nodes, t, y)
      BY <1>1, <1>2, DependsFirst, DependsLast
    <2> QED
      BY <2>3, <2>4
  <1>4. done \in P!Moments(nodes) /\ t \in done
    BY <1>2, <1>3 DEF P!Moments
  <1>5. u \in Reach(nodes, t)
    BY <1>1, <1>2, DependsLast DEF nodes
  <1>6. u \in done
    BY <1>1, <1>2, <1>4, <1>5, ReachClosed
  <1> QED
    BY <1>2, <1>6

(* Two tasks worked on do not write the same path.                         *)
LEMMA WorkingDisjoint ==
  ASSUME PlanConstants, PlanOK PROVE P!WritersDisjoint
  <1> DEFINE nodes == plan.tasks
  <1> SUFFICES ASSUME NEW t \in P!Working, NEW u \in P!Working, t # u, ~P!Bypasses(t), ~P!Bypasses(u),
                      NEW a \in ToSet(P!Node(nodes, t).write_scopes),
                      NEW b \in ToSet(P!Node(nodes, u).write_scopes), P!overlaps(a, b)
               PROVE  FALSE
    BY PlanLibrary DEF P!WritersDisjoint, P!overlaps
  <1>1. accepted
    <2>1. t \in DOMAIN status /\ status[t] # "pending"
      BY DEF P!Working
    <2> QED
      BY <2>1 DEF PlanOK, PlanInv
  <1>2. Known(nodes) /\ P!validate_nodes(nodes) /\ t \in P!Ids(nodes) /\ u \in P!Ids(nodes)
    BY <1>1, AcceptedKnown DEF PlanOK, P!Working
  <1> HIDE DEF nodes
  <1>3. PICK i \in DOMAIN nodes : nodes[i].id = t /\ P!Node(nodes, t) = nodes[i]
    BY <1>2, NodeFound
  <1>4. PICK j \in DOMAIN nodes : nodes[j].id = u /\ P!Node(nodes, u) = nodes[j]
    BY <1>2, NodeFound
  <1>5. PICK k \in DOMAIN nodes[i].write_scopes : nodes[i].write_scopes[k] = a
    BY <1>3 DEF ToSet
  <1>6. PICK l \in DOMAIN nodes[j].write_scopes : nodes[j].write_scopes[l] = b
    BY <1>4 DEF ToSet
  <1>7. PICK o \in P!Occurrences(nodes) : o[1] = i /\ o[2] = k
    <2>1. <<i, k>> \in P!Occurrences(nodes)
      BY DEF P!Occurrences
    <2> QED
      BY <2>1
  <1>8. PICK p \in P!Occurrences(nodes) : p[1] = j /\ p[2] = l
    <2>1. <<j, l>> \in P!Occurrences(nodes)
      BY DEF P!Occurrences
    <2> QED
      BY <2>1
  <1>9. o # p
    BY <1>3, <1>4, <1>7, <1>8
  <1>10. P!overlaps(nodes[o[1]].write_scopes[o[2]], nodes[p[1]].write_scopes[p[2]])
    BY <1>5, <1>6, <1>7, <1>8
  <1>11. P!dependency_ordered(nodes, nodes[o[1]].id, nodes[p[1]].id)
    BY <1>2, <1>9, <1>10 DEF P!validate_nodes
  <1>12. P!depends_on(nodes, t, u) \/ P!depends_on(nodes, u, t)
    BY <1>3, <1>4, <1>7, <1>8, <1>11 DEF P!dependency_ordered
  <1> QED
    BY <1>1, <1>12, WorkingApart DEF nodes

(* The rows of the tasks are well typed.                                   *)
LEMMA PlanTyped ==
  ASSUME PlanConstants, PlanOK PROVE P!TypeOK
  <1>1. ASSUME NEW t \in DOMAIN status
        PROVE  status[t] \in P!TaskStates /\ attempts[t] \in 0..(MaxSetbacks + 1)
    <2>1. plan # <<>>
      BY DEF PlanOK, PlanInv
    <2>2. /\ status[t] \in P!TaskStates /\ attempts[t] \in Nat /\ setbacks \in Nat
          /\ setbacks <= MaxSetbacks /\ attempts[t] <= setbacks + 1 /\ MaxSetbacks \in Nat
      BY <2>1 DEF PlanOK, PlanInv, AttemptsInv, PlanConstants
    <2> QED
      BY <2>2
  <1>2. accepted \in BOOLEAN /\ bypassed \subseteq DOMAIN status
    BY DEF PlanOK, PlanInv
  <1> QED
    BY <1>1, <1>2 DEF P!TypeOK

(* A plan is accepted exactly when it is sound.                            *)
LEMMA AcceptedSound ==
  ASSUME PlanConstants, PlanOK PROVE P!AcceptedIsSound
  <1> DEFINE nodes == plan.tasks
  <1>1. plan # <<>> => nodes \in Seq(PlanTask)
    BY DEF PlanOK, PlanInv, PlanConstants
  <1> QED
    BY PlanLibrary, <1>1, ValidatedSound DEF P!AcceptedIsSound

(* The tables of plans and tasks are well typed.                           *)
THEOREM PlansTyped == ASSUME PlanConstants PROVE P!Spec => []P!TypeOK
  <1>1. PlanOK => P!TypeOK
    BY PlanTyped
  <1> QED
    BY <1>1, PlanInvariance, PTL

(* For every plan that is submitted: TaskDag::validate accepts exactly the *)
(* graphs that can be carried out without two writers of one path.         *)
THEOREM ValidationIsExact == ASSUME PlanConstants PROVE P!Spec => []P!AcceptedIsSound
  <1>1. PlanOK => P!AcceptedIsSound
    BY AcceptedSound
  <1> QED
    BY <1>1, PlanInvariance, PTL

(* The tasks of an accepted plan are carried out so, whatever fails.       *)
THEOREM WritersStayApart == ASSUME PlanConstants PROVE P!Spec => []P!WritersDisjoint
  <1>1. PlanOK => P!WritersDisjoint
    BY WorkingDisjoint
  <1> QED
    BY <1>1, PlanInvariance, PTL

(* Every attempt is counted once.                                          *)
THEOREM AttemptsAreCounted == ASSUME PlanConstants PROVE P!Spec => []P!AttemptsCounted
  <1>1. PlanOK => P!AttemptsCounted
    BY DEF PlanOK, PlanInv, P!AttemptsCounted
  <1> QED
    BY <1>1, PlanInvariance, PTL

-----------------------------------------------------------------------------
(* The ledger: every set of events, every interval, page size and bound.   *)

(* So has that of the ledger.                                              *)
LEMMA LedgerLibrary ==
  /\ \A s : L!ToSet(s) = ToSet(s) /\ L!Last(s) = Last(s)
  /\ \A s, x : L!Keep(s, x) = Keep(s, x) /\ L!RemoveAt(s, x) = RemoveAt(s, x)
  /\ \A s, t : L!IsPrefix(s, t) <=> IsPrefix(s, t)
  <1>1. \A s : L!ToSet(s) = ToSet(s)
    BY DEF L!ToSet, ToSet
  <1>2. \A s : L!Last(s) = Last(s)
    BY DEF L!Last, Last
  <1>3. \A s, x : L!Keep(s, x) = Keep(s, x)
    BY DEF L!Keep, Keep
  <1>4. \A s, x : L!RemoveAt(s, x) = RemoveAt(s, x)
    BY DEF L!RemoveAt, RemoveAt
  <1>5. \A s, t : L!IsPrefix(s, t) <=> IsPrefix(s, t)
    BY DEF L!IsPrefix, IsPrefix
  <1> QED
    BY <1>1, <1>2, <1>3, <1>4, <1>5

(* Pages and intervals are not empty, and the hash before the first entry  *)
(* is no hash of an entry.                                                 *)
LedgerConstants ==
  /\ Interval \in Nat \ {0} /\ PageSize \in Nat \ {0}
  /\ MaxEntries \in Nat /\ MaxAlterations \in Nat /\ MaxKeys \in Nat
  /\ \A a, b, c : NoHash # <<a, b, c>>

(* A value is a sequence.                                                  *)
IsList(s) == s \in Seq(ToSet(s))

(* A sequence over any set is one over its elements.                       *)
LEMMA ListOf ==
  ASSUME NEW X, NEW s \in Seq(X)
  PROVE  IsList(s) /\ Len(s) \in Nat /\ DOMAIN s = 1..Len(s) /\ ToSet(s) \subseteq X
  <1>1. Len(s) \in Nat /\ DOMAIN s = 1..Len(s) /\ s \in [1..Len(s) -> X]
    OBVIOUS
  <1>2. s \in [1..Len(s) -> ToSet(s)]
    BY <1>1 DEF ToSet
  <1>3. s \in Seq(ToSet(s))
    BY <1>1, <1>2, SeqDef
  <1> QED
    BY <1>1, <1>3 DEF IsList, ToSet

(* An entry more.                                                          *)
LEMMA ListAppend ==
  ASSUME NEW s, IsList(s), NEW x
  PROVE  /\ IsList(Append(s, x)) /\ Len(s) \in Nat /\ Len(Append(s, x)) = Len(s) + 1
         /\ DOMAIN s = 1..Len(s) /\ DOMAIN Append(s, x) = 1..(Len(s) + 1)
         /\ \A i \in 1..Len(s) : Append(s, x)[i] = s[i]
         /\ Append(s, x)[Len(s) + 1] = x
  <1> DEFINE X == ToSet(s) \cup {x}
  <1>1. s \in Seq(ToSet(s)) /\ x \in X
    BY DEF IsList
  <1>2. s \in Seq(X)
    <2>1. \A i \in 1..Len(s) : s[i] \in X
      BY <1>1
    <2>2. Len(s) \in Nat /\ s = [i \in 1..Len(s) |-> s[i]]
      BY <1>1
    <2> HIDE DEF X
    <2>3. s \in [1..Len(s) -> X]
      BY <2>1, <2>2
    <2> QED
      BY <2>2, <2>3, SeqDef
  <1> HIDE DEF X
  <1>3. Append(s, x) \in Seq(X) /\ Len(s) \in Nat /\ Len(Append(s, x)) = Len(s) + 1
    BY <1>1, <1>2
  <1>4. IsList(Append(s, x)) /\ DOMAIN Append(s, x) = 1..Len(Append(s, x)) /\ DOMAIN s = 1..Len(s)
    BY <1>2, <1>3, ListOf
  <1>5. (\A i \in 1..Len(s) : Append(s, x)[i] = s[i]) /\ Append(s, x)[Len(s) + 1] = x
    BY <1>1, <1>2, <1>3
  <1> QED
    BY <1>3, <1>4, <1>5

(* Entries with equal hashes in two chains that verify are the ends of the *)
(* same events.                                                            *)
LEMMA ChainDetermines ==
  ASSUME LedgerConstants, NEW c, IsList(c), L!verify(c), NEW d, IsList(d), L!verify(d),
         NEW n \in Nat, n < Len(c), n < Len(d), c[n + 1].hash = d[n + 1].hash
  PROVE  \A i \in 1..(n + 1) : c[i].event = d[i].event
  <1> DEFINE Same(k) == \A i \in 1..(k + 1) : c[i].event = d[i].event
             T == {k \in Nat : k < Len(c) /\ k < Len(d) /\ c[k + 1].hash = d[k + 1].hash => Same(k)}
  <1>1. /\ Len(c) \in Nat /\ DOMAIN c = 1..Len(c) /\ Len(d) \in Nat /\ DOMAIN d = 1..Len(d)
    BY ListOf DEF IsList
  <1>2. ASSUME NEW k \in Nat, k < Len(c), k < Len(d), c[k + 1].hash = d[k + 1].hash
        PROVE  /\ c[k + 1].event = d[k + 1].event
               /\ L!Previous(c, k + 1) = L!Previous(d, k + 1)
    <2>1. k + 1 \in DOMAIN c /\ k + 1 \in DOMAIN d
      BY <1>1, <1>2
    <2>2. /\ c[k + 1].hash = <<(k + 1) - 1, L!Previous(c, k + 1), c[k + 1].event>>
          /\ d[k + 1].hash = <<(k + 1) - 1, L!Previous(d, k + 1), d[k + 1].event>>
      BY <2>1 DEF L!verify, L!calculate_hash
    <2>3. PICK h : h = c[k + 1].hash /\ h = d[k + 1].hash
      BY <1>2
    <2>4. /\ h[2] = L!Previous(c, k + 1) /\ h[3] = c[k + 1].event
          /\ h[2] = L!Previous(d, k + 1) /\ h[3] = d[k + 1].event
      BY <2>2, <2>3
    <2> QED
      BY <2>4
  <1>3. 0 \in T
    <2> SUFFICES ASSUME 0 < Len(c), 0 < Len(d), c[0 + 1].hash = d[0 + 1].hash PROVE Same(0)
      OBVIOUS
    <2>1. c[0 + 1].event = d[0 + 1].event
      BY <1>2
    <2> QED
      BY <2>1
  <1>4. ASSUME NEW k \in T PROVE k + 1 \in T
    <2> SUFFICES ASSUME k + 1 < Len(c), k + 1 < Len(d),
                        c[(k + 1) + 1].hash = d[(k + 1) + 1].hash
                 PROVE  Same(k + 1)
      <3> HIDE DEF Same
      <3>1. k + 1 \in Nat
        OBVIOUS
      <3> QED
        BY <3>1
    <2>1. k \in Nat /\ k + 1 \in Nat
      OBVIOUS
    <2>2. /\ c[(k + 1) + 1].event = d[(k + 1) + 1].event
          /\ L!Previous(c, (k + 1) + 1) = L!Previous(d, (k + 1) + 1)
      BY <1>2, <2>1
    <2>3. c[k + 1].hash = d[k + 1].hash
      BY <2>1, <2>2 DEF L!Previous
    <2>4. Same(k)
      <3> HIDE DEF Same
      <3>1. k < Len(c) /\ k < Len(d)
        BY <1>1, <2>1
      <3> QED
        BY <2>3, <3>1
    <2> QED
      BY <2>1, <2>2, <2>4
  <1>5. T = Nat
    <2>1. T \in SUBSET Nat
      OBVIOUS
    <2> HIDE DEF T
    <2> QED
      BY <1>3, <1>4, <2>1, NatInduct
  <1>6. Same(n)
    <2> HIDE DEF Same
    <2> QED
      BY <1>5
  <1> QED
    BY <1>6

-----------------------------------------------------------------------------
(* The inductive invariant.                                                *)

EntriesInv == IsList(entries) /\ Len(entries) <= MaxEntries

(* An entry that is considered for a checkpoint is the last one.           *)
SigningInv ==
  signing # <<>> => key # NoKey /\ entries # <<>> /\ signing = <<entries[Len(entries)]>>

(* What was recorded up to a checkpoint a daemon signed, is what its head  *)
(* was made from.                                                          *)
Recorded(c) ==
  \E d : /\ IsList(d) /\ L!verify(d) /\ Len(d) = c.sequence + 1
         /\ d[c.sequence + 1].hash = c.head
         /\ anchored[c] = [i \in 1..(c.sequence + 1) |-> d[i].event]

Signable == {n \in 0..MaxEntries : n % Interval = 0}

(* A stored checkpoint was signed by a daemon, or by nobody.               *)
CheckpointsInv ==
  /\ DOMAIN checkpoints \subseteq Signable
  /\ \A c \in DOMAIN anchored : c.sequence \in Signable /\ Recorded(c)
  /\ \A s \in DOMAIN checkpoints :
       /\ checkpoints[s].sequence = s
       /\ checkpoints[s] \in DOMAIN anchored \/ checkpoints[s].key = NoKey

(* The ledger verifies with the key on disk.                               *)
Verified ==
  /\ L!verify(entries)
  /\ \A s \in DOMAIN checkpoints :
       L!verify_checkpoint(checkpoints[s], keyfile, L!HashAt(entries, checkpoints[s].sequence))

ServedInv ==
  /\ key \in {NoKey, keyfile} /\ alterations \in Nat /\ keys \in 0..MaxKeys
  /\ key # NoKey \/ alterations = 0 => Verified
  /\ alterations = 0 /\ keyfile = NoKey => DOMAIN checkpoints = {}

(* The entries of a project.                                               *)
Own(chain, project) == {entry \in ToSet(chain) : entry.event = project}

(* How many entries the reader has been through.                           *)
Paged == IF reader.done THEN reader.upto ELSE reader.after + 1

ReaderInv ==
  /\ reader = [project |-> reader.project, after |-> reader.after, seen |-> reader.seen,
               upto |-> reader.upto, done |-> reader.done]
  /\ reader.done \in BOOLEAN /\ reader.after \in Int
  /\ key = NoKey => reader = L!NoReader
  /\ Paged \in 0..Len(entries)
  /\ reader.seen = Keep(SubSeq(entries, 1, Paged), Own(entries, reader.project))

LedgerInv == EntriesInv /\ SigningInv /\ CheckpointsInv /\ ServedInv /\ ReaderInv

-----------------------------------------------------------------------------
(* The head of a checkpoint a daemon signed is a hash.                     *)
LEMMA HeadIsHash ==
  ASSUME LedgerConstants, CheckpointsInv, NEW c \in DOMAIN anchored
  PROVE  c.sequence \in Nat /\ c.head # NoHash
  <1>1. PICK s \in Nat : s = c.sequence /\ Recorded(c)
    BY DEF CheckpointsInv, Signable
  <1>2. PICK d : IsList(d) /\ L!verify(d) /\ Len(d) = s + 1 /\ d[s + 1].hash = c.head
    BY <1>1 DEF Recorded
  <1>3. s + 1 \in DOMAIN d
    BY <1>1, <1>2, ListOf DEF IsList
  <1>4. d[s + 1].hash = <<(s + 1) - 1, L!Previous(d, s + 1), d[s + 1].event>>
    BY <1>2, <1>3 DEF L!verify, L!calculate_hash
  <1> QED
    BY <1>1, <1>2, <1>4 DEF LedgerConstants

(* A checkpoint that verifies was signed by a daemon and is within the     *)
(* chain.                                                                  *)
LEMMA HeadWithin ==
  ASSUME LedgerConstants, CheckpointsInv, Verified, keyfile # NoKey,
         NEW s \in DOMAIN checkpoints
  PROVE  /\ s \in Nat /\ s < Len(entries) /\ entries[s + 1].hash = checkpoints[s].head
         /\ checkpoints[s].key = keyfile /\ checkpoints[s].sequence = s
         /\ checkpoints[s] \in DOMAIN anchored
  <1>1. checkpoints[s].sequence = s
    BY DEF CheckpointsInv
  <1>2. checkpoints[s].head = L!HashAt(entries, s) /\ checkpoints[s].key = keyfile
    BY <1>1 DEF Verified, L!verify_checkpoint
  <1>3. checkpoints[s] \in DOMAIN anchored
    BY <1>2 DEF CheckpointsInv
  <1>4. s \in Nat /\ checkpoints[s].head # NoHash
    BY <1>1, <1>3, HeadIsHash
  <1> QED
    BY <1>1, <1>2, <1>3, <1>4 DEF L!HashAt

(* A ledger that verifies holds what was recorded up to its checkpoints.   *)
LEMMA VerifiedHolds ==
  ASSUME LedgerConstants, EntriesInv, CheckpointsInv, Verified, keyfile # NoKey,
         NEW s \in DOMAIN checkpoints, NEW c, c = checkpoints[s]
  PROVE  /\ c \in DOMAIN anchored /\ c.sequence < Len(entries)
         /\ \A i \in DOMAIN anchored[c] : entries[i].event = anchored[c][i]
  <1>1. /\ c \in DOMAIN anchored /\ c.sequence = s /\ s \in Nat /\ s < Len(entries)
        /\ entries[s + 1].hash = c.head
    BY HeadWithin
  <1>2. PICK d : /\ IsList(d) /\ L!verify(d) /\ Len(d) = s + 1
                 /\ d[s + 1].hash = c.head
                 /\ anchored[c] = [i \in 1..(s + 1) |-> d[i].event]
    BY <1>1 DEF CheckpointsInv, Recorded, Signable
  <1>3. s < Len(d) /\ d[s + 1].hash = entries[s + 1].hash
    BY <1>1, <1>2
  <1>4. \A i \in 1..(s + 1) : d[i].event = entries[i].event
    BY <1>1, <1>2, <1>3, ChainDetermines DEF EntriesInv, Verified
  <1> QED
    BY <1>1, <1>2, <1>4

(* The next entry of a chain that verifies.                                *)
LEMMA VerifyAppend ==
  ASSUME NEW c, IsList(c), L!verify(c), NEW event, NEW e,
         e = L!new(Len(c), L!Previous(c, Len(c) + 1), event)
  PROVE  L!verify(Append(c, e))
  <1>1. PICK d : d = Append(c, e)
    OBVIOUS
  <1>2. PICK n \in Nat : n = Len(c)
    BY ListAppend
  <1>3. /\ DOMAIN c = 1..n /\ DOMAIN d = 1..(n + 1)
        /\ \A i \in 1..n : d[i] = c[i]
        /\ d[n + 1] = e
    BY <1>1, <1>2, ListAppend
  <1>4. ASSUME NEW i \in 1..(n + 1) PROVE L!Previous(d, i) = L!Previous(c, i)
    <2>1. i # 1 => i - 1 \in 1..n
      OBVIOUS
    <2> QED
      BY <1>3, <2>1 DEF L!Previous
  <1>5. ASSUME NEW i \in 1..(n + 1)
        PROVE  /\ d[i].sequence = i - 1 /\ d[i].previous = L!Previous(d, i)
               /\ d[i].hash = L!calculate_hash(i - 1, L!Previous(d, i), d[i].event)
    <2>1. CASE i = n + 1
      <3>1. /\ d[i] = e /\ e.sequence = n /\ e.previous = L!Previous(c, n + 1)
            /\ e.hash = L!calculate_hash(n, L!Previous(c, n + 1), e.event)
        BY <1>2, <1>3, <2>1 DEF L!new
      <3>2. (n + 1) - 1 = n
        OBVIOUS
      <3> QED
        BY <1>4, <2>1, <3>1, <3>2
    <2>2. CASE i # n + 1
      <3>1. i \in 1..n
        BY <2>2
      <3> QED
        BY <1>3, <1>4, <3>1 DEF L!verify
    <2> QED
      BY <2>1, <2>2
  <1> QED
    BY <1>1, <1>3, <1>5 DEF L!verify

(* What a reader has been shown stays right when an entry is appended.     *)
LEMMA ShownAppend ==
  ASSUME NEW c, IsList(c), NEW e, NEW q \in 0..Len(c), NEW project
  PROVE  /\ q \in 0..Len(Append(c, e))
         /\ Keep(SubSeq(Append(c, e), 1, q), Own(Append(c, e), project))
              = Keep(SubSeq(c, 1, q), Own(c, project))
  <1>1. PICK d : d = Append(c, e)
    OBVIOUS
  <1>2. /\ IsList(d) /\ Len(c) \in Nat /\ Len(d) = Len(c) + 1
        /\ DOMAIN c = 1..Len(c) /\ DOMAIN d = 1..(Len(c) + 1)
        /\ \A i \in 1..Len(c) : d[i] = c[i]
    BY <1>1, ListAppend
  <1>3. PICK X : X = ToSet(c) /\ c \in Seq(X)
    BY DEF IsList
  <1>4. PICK r \in Seq(X) : r = SubSeq(c, 1, q)
    <2>1. SubSeq(c, 1, q) \in Seq(X)
      BY <1>2, <1>3
    <2> QED
      BY <2>1
  <1>5. Len(r) = q /\ DOMAIN r = 1..q /\ \A i \in 1..q : r[i] = c[i]
    BY <1>2, <1>3, <1>4
  <1>6. PICK Y : Y = ToSet(d) /\ d \in Seq(Y)
    BY <1>2 DEF IsList
  <1>7. SubSeq(d, 1, q) = r
    <2>1. PICK t \in Seq(Y) : t = SubSeq(d, 1, q)
      <3>1. SubSeq(d, 1, q) \in Seq(Y)
        BY <1>2, <1>6
      <3> QED
        BY <3>1
    <2>2. Len(t) = q /\ DOMAIN t = 1..q /\ \A i \in 1..q : t[i] = d[i]
      BY <1>2, <1>6, <2>1
    <2>3. \A i \in 1..q : t[i] = r[i]
      BY <1>2, <1>5, <2>2
    <2>4. t = [i \in 1..q |-> t[i]]
      BY <2>2
    <2>5. r = [i \in 1..q |-> r[i]]
      BY <1>5
    <2>6. [i \in 1..q |-> t[i]] = [i \in 1..q |-> r[i]]
      BY <2>3, Zenon
    <2> QED
      BY <2>1, <2>4, <2>5, <2>6, Zenon
  <1>8. ToSet(r) \cap Own(c, project) = ToSet(r) \cap Own(d, project)
    BY <1>2, <1>5 DEF ToSet, Own
  <1>9. Keep(r, Own(c, project)) = Keep(r, Own(d, project))
    BY <1>8, KeepSame
  <1>10. q \in 0..Len(d)
    BY <1>2
  <1> QED
    BY <1>1, <1>4, <1>7, <1>9, <1>10

(* record appends the entry that follows.                                  *)
LEMMA RecordIInv ==
  ASSUME LedgerConstants, LedgerInv, NEW event, L!Record(event) PROVE LedgerInv'
  <1>1. PICK e : e = L!append_ledger_event(event)
    OBVIOUS
  <1>2. /\ key # NoKey /\ signing = <<>> /\ Len(entries) < MaxEntries
        /\ entries' = Append(entries, e) /\ signing' = <<e>>
        /\ UNCHANGED <<checkpoints, keyfile, key, anchored, alterations, keys, reader>>
    BY <1>1 DEF L!Record
  <1>3. IsList(entries) /\ Verified /\ CheckpointsInv /\ keyfile # NoKey
    BY <1>2 DEF LedgerInv, EntriesInv, ServedInv
  <1>4. PICK n \in Nat : n = Len(entries)
    BY <1>3, ListAppend
  <1>5. /\ IsList(entries') /\ Len(entries') = n + 1
        /\ DOMAIN entries = 1..n /\ DOMAIN entries' = 1..(n + 1)
        /\ \A i \in 1..n : entries'[i] = entries[i]
        /\ entries'[n + 1] = e
    BY <1>2, <1>3, <1>4, ListAppend
  <1>6. e = L!new(n, L!Previous(entries, n + 1), event)
    <2>1. CASE n = 0
      <3>1. PICK X : entries \in Seq(X)
        BY <1>3 DEF IsList
      <3>2. entries = <<>>
        BY <1>4, <2>1, <3>1, EmptySeq
      <3> QED
        BY <1>1, <2>1, <3>2 DEF L!append_ledger_event, L!Previous
    <2>2. CASE n # 0
      <3>1. entries # <<>> /\ Last(entries) = entries[n] /\ n \in DOMAIN entries
        BY <1>3, <1>4, <1>5, <2>2 DEF IsList, Last
      <3>2. entries[n].sequence = n - 1
        BY <1>3, <3>1 DEF Verified, L!verify
      <3>3. Last(entries).sequence + 1 = n /\ n + 1 # 1 /\ (n + 1) - 1 = n
        BY <2>2, <3>1, <3>2
      <3> QED
        BY LedgerLibrary, <1>1, <3>1, <3>3 DEF L!append_ledger_event, L!Previous
    <2> QED
      BY <2>1, <2>2
  <1>7. L!verify(entries')
    <2>1. L!verify(entries)
      BY <1>3 DEF Verified
    <2> QED
      BY <1>2, <1>3, <1>4, <1>6, <2>1, VerifyAppend
  <1>8. EntriesInv'
    BY <1>2, <1>4, <1>5 DEF EntriesInv, LedgerConstants
  <1>9. SigningInv'
    <2>1. entries' # <<>>
      BY <1>4, <1>5
    <2> QED
      BY <1>2, <1>5, <2>1 DEF SigningInv
  <1>10. CheckpointsInv'
    BY <1>2, <1>3 DEF CheckpointsInv, Recorded, Signable
  <1>11. Verified'
    <2>1. ASSUME NEW s \in DOMAIN checkpoints
          PROVE  L!verify_checkpoint(checkpoints[s], keyfile, L!HashAt(entries', checkpoints[s].sequence))
      <3>1. /\ s \in Nat /\ s < Len(entries) /\ entries[s + 1].hash = checkpoints[s].head
            /\ checkpoints[s].key = keyfile /\ checkpoints[s].sequence = s
        BY <1>3, HeadWithin
      <3>2. s < Len(entries') /\ s + 1 \in 1..n
        BY <1>4, <1>5, <3>1
      <3> QED
        BY <1>5, <3>1, <3>2 DEF L!verify_checkpoint, L!HashAt
    <2> QED
      BY <1>2, <1>7, <2>1 DEF Verified
  <1>12. ServedInv'
    BY <1>2, <1>11 DEF LedgerInv, ServedInv
  <1>13. ReaderInv'
    <2>1. Paged' = Paged /\ Paged \in 0..Len(entries)
      BY <1>2 DEF Paged, LedgerInv, ReaderInv
    <2>2. /\ Paged \in 0..Len(entries')
          /\ Keep(SubSeq(entries', 1, Paged), Own(entries', reader.project))
               = Keep(SubSeq(entries, 1, Paged), Own(entries, reader.project))
      <3>1. PICK q \in 0..Len(entries) : q = Paged
        BY <2>1
      <3> QED
        BY <1>2, <1>3, <3>1, ShownAppend
    <2> QED
      BY <1>2, <2>1, <2>2 DEF LedgerInv, ReaderInv
  <1> QED
    BY <1>8, <1>9, <1>10, <1>12, <1>13 DEF LedgerInv

(* run serves a ledger that verifies with the key it loads or makes.       *)
LEMMA StartIInv ==
  ASSUME LedgerConstants, LedgerInv, L!Start PROVE LedgerInv'
  <1>1. /\ key = NoKey /\ key' = (IF L!verify_store THEN keyfile' ELSE NoKey)
        /\ UNCHANGED <<entries, checkpoints, signing, anchored, alterations, reader>>
    BY DEF L!Start
  <1>2. \/ keyfile # NoKey /\ keyfile' = keyfile /\ keys' = keys
        \/ keyfile = NoKey /\ keys < MaxKeys /\ keys' = keys + 1
    BY DEF L!Start, L!load_or_create
  <1>3. keys' \in 0..MaxKeys
    BY <1>2 DEF LedgerInv, ServedInv, LedgerConstants
  <1>4. signing = <<>> /\ reader = L!NoReader
    BY <1>1 DEF LedgerInv, SigningInv, ReaderInv
  <1>5. key' # NoKey => Verified'
    BY <1>1 DEF L!verify_store, Verified
  <1>6. alterations = 0 => Verified'
    <2> SUFFICES ASSUME alterations = 0 PROVE Verified'
      OBVIOUS
    <2>1. Verified
      BY DEF LedgerInv, ServedInv
    <2>2. CASE keyfile' = keyfile
      BY <1>1, <2>1, <2>2 DEF Verified
    <2>3. CASE keyfile = NoKey
      <3>1. DOMAIN checkpoints = {}
        BY <2>3 DEF LedgerInv, ServedInv
      <3> QED
        BY <1>1, <2>1, <3>1 DEF Verified
    <2> QED
      BY <1>2, <2>2, <2>3
  <1>7. alterations = 0 /\ keyfile' = NoKey => DOMAIN checkpoints = {}
    BY <1>2 DEF LedgerInv, ServedInv
  <1>8. ServedInv'
    <2>1. key' \in {NoKey, keyfile'}
      BY <1>1
    <2> QED
      BY <1>1, <1>3, <1>5, <1>6, <1>7, <2>1 DEF LedgerInv, ServedInv
  <1>9. EntriesInv' /\ CheckpointsInv' /\ SigningInv'
    BY <1>1, <1>4 DEF LedgerInv, EntriesInv, CheckpointsInv, Recorded, Signable, SigningInv
  <1>10. ReaderInv'
    BY <1>1, <1>4 DEF LedgerInv, ReaderInv, Paged
  <1> QED
    BY <1>8, <1>9, <1>10 DEF LedgerInv

(* record signs the entry it appended, which is still the last.            *)
LEMMA SignIInv ==
  ASSUME LedgerConstants, LedgerInv, L!SignCheckpoint PROVE LedgerInv'
  <1>1. PICK e : e = signing[1]
    OBVIOUS
  <1>2. /\ signing # <<>> /\ signing' = <<>>
        /\ UNCHANGED <<entries, keyfile, key, alterations, keys, reader>>
    BY DEF L!SignCheckpoint
  <1>3. /\ key # NoKey /\ key = keyfile /\ Verified /\ IsList(entries) /\ entries # <<>>
        /\ e = entries[Len(entries)] /\ CheckpointsInv
    BY <1>1, <1>2 DEF LedgerInv, SigningInv, ServedInv, EntriesInv
  <1>4. PICK n \in Nat : n + 1 = Len(entries)
    <2>1. Len(entries) \in Nat /\ Len(entries) # 0
      BY <1>3 DEF IsList
    <2>2. Len(entries) - 1 \in Nat /\ (Len(entries) - 1) + 1 = Len(entries)
      <3>1. \A k \in Nat : k # 0 => k - 1 \in Nat /\ (k - 1) + 1 = k
        OBVIOUS
      <3> QED
        BY <2>1, <3>1, Zenon
    <2> QED
      BY <2>2
  <1>5. /\ DOMAIN entries = 1..(n + 1) /\ e = entries[n + 1] /\ e.sequence = n
        /\ L!HashAt(entries, n) = e.hash
    <2>1. DOMAIN entries = 1..(n + 1) /\ e = entries[n + 1] /\ n + 1 \in DOMAIN entries
      BY <1>3, <1>4, ListOf DEF IsList
    <2>2. e.sequence = (n + 1) - 1
      BY <1>3, <2>1 DEF Verified, L!verify
    <2> QED
      BY <1>4, <2>1, <2>2 DEF L!HashAt
  <1> DEFINE events == [i \in DOMAIN entries |-> entries[i].event]
  <1>6. EntriesInv' /\ SigningInv' /\ ReaderInv'
    BY <1>2 DEF LedgerInv, EntriesInv, SigningInv, ReaderInv, Paged
  <1>7. CASE n % Interval # 0
    <2>1. UNCHANGED <<checkpoints, anchored>>
      BY <1>1, <1>5, <1>7 DEF L!SignCheckpoint
    <2>2. CheckpointsInv'
      BY <1>3, <2>1 DEF CheckpointsInv, Recorded, Signable
    <2>3. ServedInv'
      BY <1>2, <2>1 DEF LedgerInv, ServedInv, Verified
    <2> QED
      BY <1>6, <2>2, <2>3 DEF LedgerInv
  <1>8. CASE n % Interval = 0
    <2>0. PICK checkpoint : checkpoint = L!sign(n, e.hash, key)
      OBVIOUS
    <2>1. /\ checkpoints' = L!Put(checkpoints, n, checkpoint)
          /\ anchored' = L!Put(anchored, checkpoint, events)
      BY <1>1, <1>5, <1>8, <2>0 DEF L!SignCheckpoint, L!save_checkpoint, L!sign
    <2>2. /\ checkpoint.sequence = n /\ checkpoint.head = e.hash /\ checkpoint.key = keyfile
      BY <1>3, <2>0 DEF L!sign
    <2>3. /\ DOMAIN checkpoints' = DOMAIN checkpoints \cup {n}
          /\ DOMAIN anchored' = DOMAIN anchored \cup {checkpoint}
          /\ checkpoints'[n] = checkpoint /\ anchored'[checkpoint] = events
          /\ \A s \in DOMAIN checkpoints \ {n} : checkpoints'[s] = checkpoints[s]
          /\ \A c \in DOMAIN anchored \ {checkpoint} : anchored'[c] = anchored[c]
      <3> HIDE DEF events
      <3> QED
        BY <2>1 DEF L!Put
    <2>4. CheckpointsInv'
      <3>1. n \in Signable
        BY <1>4, <1>8 DEF LedgerInv, EntriesInv, LedgerConstants, Signable
      <3>2. Recorded(checkpoint)'
        BY <1>3, <1>4, <1>5, <2>2, <2>3 DEF Recorded, Verified
      <3>3. ASSUME NEW c \in DOMAIN anchored' PROVE c.sequence \in Signable /\ Recorded(c)'
        <4>1. CASE c = checkpoint
          BY <2>2, <3>1, <3>2, <4>1
        <4>2. CASE c # checkpoint
          <5>1. c \in DOMAIN anchored /\ c.sequence \in Signable /\ Recorded(c) /\ anchored'[c] = anchored[c]
            BY <1>3, <2>3, <4>2 DEF CheckpointsInv
          <5> QED
            BY <5>1 DEF Recorded
        <4> QED
          BY <4>1, <4>2
      <3>4. ASSUME NEW s \in DOMAIN checkpoints'
            PROVE  /\ checkpoints'[s].sequence = s
                   /\ checkpoints'[s] \in DOMAIN anchored' \/ checkpoints'[s].key = NoKey
        <4>1. CASE s = n
          BY <2>2, <2>3, <4>1
        <4>2. CASE s # n
          BY <1>3, <2>3, <4>2 DEF CheckpointsInv
        <4> QED
          BY <4>1, <4>2
      <3>5. DOMAIN checkpoints' \subseteq Signable
        BY <1>3, <2>3, <3>1 DEF CheckpointsInv
      <3> QED
        BY <3>3, <3>4, <3>5 DEF CheckpointsInv, Signable
    <2>5. Verified'
      <3>1. ASSUME NEW s \in DOMAIN checkpoints'
            PROVE  L!verify_checkpoint(checkpoints'[s], keyfile', L!HashAt(entries', checkpoints'[s].sequence))
        <4>1. CASE s = n
          BY <1>2, <1>5, <2>2, <2>3, <4>1 DEF L!verify_checkpoint
        <4>2. CASE s # n
          BY <1>2, <1>3, <2>3, <4>2 DEF Verified
        <4> QED
          BY <4>1, <4>2
      <3> QED
        BY <1>2, <1>3, <3>1 DEF Verified
    <2>6. ServedInv'
      BY <1>2, <1>3, <2>5 DEF LedgerInv, ServedInv
    <2> QED
      BY <1>6, <2>4, <2>6 DEF LedgerInv
  <1> QED
    BY <1>7, <1>8

(* A chain of n entries is its first q and the rest.                       *)
Parted(X, c, n, q, r, t) ==
  /\ c \in Seq(X) /\ r \in Seq(X) /\ t \in Seq(X) /\ n \in Nat /\ q \in 0..n
  /\ n = Len(c) /\ c = r \o t /\ r = SubSeq(c, 1, q)
  /\ Len(r) = q /\ DOMAIN r = 1..q /\ \A i \in 1..q : r[i] = c[i]
  /\ Len(t) = n - q /\ DOMAIN t = 1..(n - q) /\ \A i \in 1..(n - q) : t[i] = c[q + i]

(* Entries are numbered by their place.                                    *)
Numbered(c, n) == DOMAIN c = 1..n /\ \A i \in 1..n : c[i].sequence = i - 1

(* A page after that number comes after the first q entries.               *)
Follows(after, q) == after \in Int /\ q = after + 1

(* The entries of a project after a number.                                *)
Later(c, project, after) ==
  {entry \in ToSet(c) : entry.event = project /\ entry.sequence > after}

(* Any chain can be parted anywhere.                                       *)
LEMMA Halves ==
  ASSUME NEW X, NEW c \in Seq(X), NEW n \in Nat, n = Len(c), NEW q \in 0..n
  PROVE  \E r, t : Parted(X, c, n, q, r, t)
  <1>1. n = Len(c)
    OBVIOUS
  <1>2. PICK r \in Seq(X) : r = SubSeq(c, 1, q)
    <2>1. SubSeq(c, 1, q) \in Seq(X)
      OBVIOUS
    <2> QED
      BY <2>1
  <1>3. PICK t \in Seq(X) : t = SubSeq(c, q + 1, n)
    <2>1. SubSeq(c, q + 1, n) \in Seq(X)
      BY <1>1
    <2> QED
      BY <2>1
  <1>4. Len(r) = q /\ \A i \in 1..q : r[i] = c[i]
    BY <1>2
  <1>5. Len(t) = n - q /\ \A i \in 1..(n - q) : t[i] = c[q + i]
    BY <1>1, <1>3
  <1>6. PICK u \in Seq(X) : u = r \o t
    <2>1. r \o t \in Seq(X)
      OBVIOUS
    <2> QED
      BY <2>1
  <1>7. Len(u) = n /\ DOMAIN u = 1..n /\ DOMAIN c = 1..n
    <2>1. Len(u) = Len(r) + Len(t)
      BY <1>6
    <2>2. q + (n - q) = n
      BY <1>1
    <2>3. Len(u) = n
      BY <1>4, <1>5, <2>1, <2>2, Zenon
    <2>4. DOMAIN u = 1..Len(u) /\ DOMAIN c = 1..Len(c)
      OBVIOUS
    <2> QED
      BY <1>1, <2>3, <2>4, Zenon
  <1>8. ASSUME NEW i \in 1..n PROVE u[i] = c[i]
    <2>1. CASE i <= q
      BY <1>1, <1>4, <1>5, <1>6, <2>1
    <2>2. CASE ~(i <= q)
      <3>1. i - q \in 1..(n - q) /\ q + (i - q) = i
        BY <1>1, <2>2
      <3>2. u[i] = t[i - q]
        BY <1>1, <1>4, <1>5, <1>6, <2>2
      <3> QED
        BY <1>5, <3>1, <3>2
    <2> QED
      BY <2>1, <2>2
  <1>9. u = c
    BY <1>7, <1>8
  <1>10. DOMAIN r = 1..q /\ DOMAIN t = 1..(n - q)
    <2>1. DOMAIN r = 1..Len(r) /\ DOMAIN t = 1..Len(t)
      OBVIOUS
    <2> QED
      BY <1>4, <1>5, <2>1, Zenon
  <1>11. Parted(X, c, n, q, r, t)
    BY <1>1, <1>2, <1>4, <1>5, <1>6, <1>9, <1>10, Zenon DEF Parted
  <1> QED
    BY <1>11

(* What is left for a reader that has been through the first q entries.    *)
LEMMA RestOf ==
  ASSUME NEW X, NEW c, NEW n, NEW q, NEW r, NEW t, Parted(X, c, n, q, r, t), Numbered(c, n),
         NEW after, Follows(after, q), NEW project
  PROVE  /\ Keep(c, Later(c, project, after)) = Keep(t, Own(c, project))
         /\ Keep(c, Own(c, project)) = Keep(r, Own(c, project)) \o Keep(t, Own(c, project))
  <1>0. /\ c \in Seq(X) /\ r \in Seq(X) /\ t \in Seq(X) /\ n \in Nat /\ q \in 0..n
        /\ after \in Int /\ q = after + 1
        /\ c = r \o t /\ DOMAIN c = 1..n /\ \A i \in 1..n : c[i].sequence = i - 1
        /\ DOMAIN r = 1..q /\ \A i \in 1..q : r[i] = c[i]
        /\ DOMAIN t = 1..(n - q) /\ \A i \in 1..(n - q) : t[i] = c[q + i]
    BY DEF Parted, Numbered, Follows
  <1> DEFINE M == Later(c, project, after)
             N == Own(c, project)
  <1>1. ToSet(r) \cap M = {}
    <2>1. ASSUME NEW i \in 1..q PROVE ~(r[i].sequence > after)
      <3>1. i \in 1..n /\ r[i] = c[i]
        BY <1>0
      <3>2. r[i].sequence = i - 1
        BY <1>0, <3>1
      <3> QED
        BY <1>0, <3>2
    <2> QED
      BY <1>0, <2>1 DEF ToSet, Later
  <1>2. ToSet(t) \cap M = ToSet(t) \cap N
    <2>1. ASSUME NEW i \in 1..(n - q) PROVE t[i].sequence > after
      <3>1. q + i \in 1..n /\ t[i] = c[q + i]
        BY <1>0
      <3>2. t[i].sequence = (q + i) - 1
        BY <1>0, <3>1
      <3> QED
        BY <1>0, <3>2
    <2> QED
      BY <1>0, <2>1 DEF ToSet, Own, Later
  <1> HIDE DEF M, N
  <1>3. Keep(c, M) = Keep(r, M) \o Keep(t, M) /\ Keep(c, N) = Keep(r, N) \o Keep(t, N)
    <2>1. Keep(r \o t, M) = Keep(r, M) \o Keep(t, M)
      BY <1>0, KeepConcat
    <2>2. Keep(r \o t, N) = Keep(r, N) \o Keep(t, N)
      BY <1>0, KeepConcat
    <2> QED
      BY <1>0, <2>1, <2>2, Zenon
  <1>4. Keep(r, M) = <<>>
    BY <1>0, <1>1, KeepNone
  <1>5. Keep(t, M) = Keep(t, N)
    BY <1>0, <1>2, KeepSame
  <1>6. Keep(c, M) = Keep(t, N)
    <2>1. PICK k \in Seq(X) : k = Keep(t, N)
      BY <1>0, KeepElements
    <2>2. <<>> \o k = k
      OBVIOUS
    <2> QED
      BY <1>3, <1>4, <1>5, <2>1, <2>2
  <1> QED
    BY <1>3, <1>6 DEF M, N

(* The first entries, and some of the rest.                                *)
Extends(c, n, q, r, t) ==
  \A j \in 0..(n - q) : r \o SubSeq(t, 1, j) = SubSeq(c, 1, q + j)

(* They are the first entries of the chain again.                          *)
LEMMA LongerPrefix ==
  ASSUME NEW X, NEW c, NEW n, NEW q, NEW r, NEW t, Parted(X, c, n, q, r, t)
  PROVE  Extends(c, n, q, r, t)
  <1> SUFFICES ASSUME NEW j \in 0..(n - q)
               PROVE  r \o SubSeq(t, 1, j) = SubSeq(c, 1, q + j)
    BY DEF Extends
  <1>1. /\ c \in Seq(X) /\ r \in Seq(X) /\ t \in Seq(X) /\ n \in Nat /\ q \in 0..n
        /\ Len(c) = n /\ Len(r) = q /\ \A i \in 1..q : r[i] = c[i]
        /\ Len(t) = n - q /\ \A i \in 1..(n - q) : t[i] = c[q + i]
    BY DEF Parted
  <1>2. \A v \in Seq(X) :
          /\ r \o v \in Seq(X) /\ Len(r \o v) = Len(r) + Len(v)
          /\ \A i \in 1..(Len(r) + Len(v)) :
               (r \o v)[i] = IF i <= Len(r) THEN r[i] ELSE v[i - Len(r)]
    BY <1>1, ConcatProperties
  <1>3. PICK v \in Seq(X) : v = SubSeq(t, 1, j) /\ Len(v) = j /\ \A i \in 1..j : v[i] = t[i]
    <2>1. SubSeq(t, 1, j) \in Seq(X)
      BY <1>1
    <2>2. Len(SubSeq(t, 1, j)) = j /\ \A i \in 1..j : SubSeq(t, 1, j)[i] = t[i]
      BY <1>1
    <2> QED
      BY <2>1, <2>2, Zenon
  <1>4. PICK m \in Nat : m = q + j /\ m <= n
    BY <1>1
  <1>5. PICK w \in Seq(X) : w = SubSeq(c, 1, m) /\ Len(w) = m /\ \A i \in 1..m : w[i] = c[i]
    <2>1. SubSeq(c, 1, m) \in Seq(X)
      BY <1>1, <1>4
    <2>2. Len(SubSeq(c, 1, m)) = m /\ \A i \in 1..m : SubSeq(c, 1, m)[i] = c[i]
      BY <1>1, <1>4
    <2> QED
      BY <2>1, <2>2, Zenon
  <1>6. PICK u \in Seq(X) :
          /\ u = r \o v /\ Len(u) = Len(r) + Len(v)
          /\ \A i \in 1..(Len(r) + Len(v)) : u[i] = IF i <= Len(r) THEN r[i] ELSE v[i - Len(r)]
    BY <1>2, Zenon
  <1>7. /\ u = r \o v /\ Len(u) = m /\ \A i \in 1..m : u[i] = IF i <= q THEN r[i] ELSE v[i - q]
    BY <1>1, <1>3, <1>4, <1>6, Zenon
  <1> HIDE <1>2, <1>6
  <1>8. ASSUME NEW i \in 1..m PROVE u[i] = w[i]
    <2>1. u[i] = IF i <= q THEN r[i] ELSE v[i - q]
      BY <1>7, Zenon
    <2>2. w[i] = c[i]
      BY <1>5, Zenon
    <2>3. CASE i <= q
      <3>1. i \in 1..q
        BY <1>1, <2>3
      <3>2. r[i] = c[i]
        BY <1>1, <3>1, Zenon
      <3> QED
        BY <2>1, <2>2, <2>3, <3>2, Zenon
    <2>4. CASE ~(i <= q)
      <3>1. i - q \in 1..j /\ q + (i - q) = i /\ i - q \in 1..(n - q)
        BY <1>1, <1>4, <2>4
      <3>2. u[i] = v[i - q]
        BY <2>1, <2>4, Zenon
      <3>3. v[i - q] = t[i - q] /\ t[i - q] = c[q + (i - q)]
        BY <1>1, <1>3, <3>1, Zenon
      <3> QED
        BY <2>2, <3>1, <3>2, <3>3, Zenon
    <2> QED
      BY <2>3, <2>4
  <1>9. u = w
    <2>1. \A i \in 1..m : u[i] = w[i]
      BY <1>8
    <2>2. Len(u) = m /\ Len(w) = m
      BY <1>5, <1>7, Zenon
    <2> QED
      BY <2>1, <2>2
  <1> QED
    BY <1>3, <1>4, <1>5, <1>7, <1>9, Zenon

(* The first k of what is left of a project, after the first entries of a  *)
(* chain: they end at some entry p.                                        *)
Ends(c, n, r, t, N) ==
  \A k \in 1..Len(Keep(t, N)) :
    \E p \in 1..n :
      /\ Keep(r, N) \o SubSeq(Keep(t, N), 1, k) = Keep(SubSeq(c, 1, p), N)
      /\ Keep(t, N)[k].sequence = p - 1

(* A page ends at an entry, and its number tells which.                    *)
LEMMA PageEnds ==
  ASSUME NEW X, NEW c, NEW n, NEW q, NEW r, NEW t, Parted(X, c, n, q, r, t), Numbered(c, n),
         NEW N
  PROVE  Ends(c, n, r, t, N)
  <1> SUFFICES ASSUME NEW k \in 1..Len(Keep(t, N))
               PROVE  \E p \in 1..n :
                        /\ Keep(r, N) \o SubSeq(Keep(t, N), 1, k) = Keep(SubSeq(c, 1, p), N)
                        /\ Keep(t, N)[k].sequence = p - 1
    BY DEF Ends
  <1>0. Extends(c, n, q, r, t)
    BY LongerPrefix, Zenon
  <1>1. /\ c \in Seq(X) /\ r \in Seq(X) /\ t \in Seq(X) /\ n \in Nat /\ q \in 0..n
        /\ Len(t) = n - q /\ \A i \in 1..(n - q) : t[i] = c[q + i]
    BY DEF Parted
  <1>2. \A v \in Seq(X) : Keep(r \o v, N) = Keep(r, N) \o Keep(v, N)
    <2>1. r \in Seq(X)
      BY <1>1
    <2> QED
      BY <2>1, KeepConcat
  <1>3. PICK j \in 1..Len(t) :
          /\ t[j] = Keep(t, N)[k]
          /\ SubSeq(Keep(t, N), 1, k) = Keep(SubSeq(t, 1, j), N)
    BY <1>1, KeepFront
  <1>4. j \in 0..(n - q) /\ j \in 1..(n - q)
    BY <1>1
  <1>5. PICK p \in 1..n : p = q + j
    BY <1>1, <1>4
  <1>6. SubSeq(t, 1, j) \in Seq(X)
    BY <1>1, <1>4
  <1>7. r \o SubSeq(t, 1, j) = SubSeq(c, 1, q + j)
    BY <1>0, <1>4, Zenon DEF Extends
  <1>8. Keep(r, N) \o SubSeq(Keep(t, N), 1, k) = Keep(SubSeq(c, 1, p), N)
    BY <1>2, <1>3, <1>5, <1>6, <1>7, Zenon
  <1>9. Keep(t, N)[k].sequence = p - 1
    <2>1. Keep(t, N)[k] = c[p]
      BY <1>1, <1>3, <1>4, <1>5, Zenon
    <2>2. c[p].sequence = p - 1
      BY <1>5, Zenon DEF Numbered
    <2> QED
      BY <2>1, <2>2, Zenon
  <1> QED
    BY <1>8, <1>9, Zenon

(* How many entries a page has, of those that match.                       *)
PageOf(m) == IF Len(m) < PageSize THEN Len(m) ELSE PageSize

(* What query returns.                                                     *)
LEMMA QueryIs ==
  ASSUME NEW project, NEW after
  PROVE  /\ L!query(project, after).entries =
              SubSeq(L!Matching(project, after), 1, PageOf(L!Matching(project, after)))
         /\ L!query(project, after).next =
              IF Len(L!Matching(project, after)) > Len(L!query(project, after).entries)
              THEN Last(L!query(project, after).entries).sequence ELSE -1
  BY LedgerLibrary DEF L!query, PageOf

(* What the pages of a query depend on.                                    *)
Reading(c, n, q, after) == c = entries /\ n = Len(c) /\ L!verify(c) /\ Follows(after, q)

(* A page continues where the reader is and says where it ends.            *)
Continues(c, n, q, project, after) ==
  \E p \in 0..n :
    /\ Keep(SubSeq(c, 1, q), Own(c, project)) \o L!query(project, after).entries
         = Keep(SubSeq(c, 1, p), Own(c, project))
    /\ \/ L!query(project, after).next = -1 /\ p = n
       \/ L!query(project, after).next = p - 1 /\ p # 0

(* Every page does.                                                        *)
LEMMA PageContinues ==
  ASSUME LedgerConstants, NEW X, NEW c \in Seq(X), NEW n \in Nat, NEW q \in 0..n,
         NEW after, Reading(c, n, q, after), NEW project
  PROVE  Continues(c, n, q, project, after)
  <1>1. Numbered(c, n) /\ n = Len(c) /\ Follows(after, q) /\ c = entries
    <2>1. n = Len(c) /\ L!verify(c) /\ Follows(after, q) /\ c = entries
      BY DEF Reading
    <2>2. DOMAIN c = 1..Len(c)
      OBVIOUS
    <2>3. DOMAIN c = 1..n
      BY <2>1, <2>2, Zenon
    <2>4. \A i \in 1..n : c[i].sequence = i - 1
      BY <2>1, <2>3 DEF L!verify
    <2> QED
      BY <2>1, <2>3, <2>4, Zenon DEF Numbered
  <1>2. PICK r, t : Parted(X, c, n, q, r, t)
    BY <1>1, Halves, Zenon
  <1>3. PICK N : N = Own(c, project)
    OBVIOUS
  <1>16. Ends(c, n, r, t, N)
    BY <1>1, <1>2, PageEnds, Zenon
  <1>4. PICK m : m = Keep(t, N)
    OBVIOUS
  <1>5. L!Matching(project, after) = m /\ Keep(c, N) = Keep(r, N) \o m
    <2>1. /\ Keep(c, Later(c, project, after)) = Keep(t, Own(c, project))
          /\ Keep(c, Own(c, project)) = Keep(r, Own(c, project)) \o Keep(t, Own(c, project))
      <3>1. Numbered(c, n) /\ Follows(after, q)
        BY <1>1
      <3> QED
        BY <1>2, <3>1, RestOf
    <2>2. L!Matching(project, after) = Keep(c, Later(c, project, after))
      BY LedgerLibrary, <1>1, Zenon DEF L!Matching, Later
    <2> QED
      BY <1>3, <1>4, <2>1, <2>2, Zenon
  <1>6. m \in Seq(X)
    BY <1>2, <1>4, KeepElements, Zenon DEF Parted
  <1>7. PICK answer : answer = L!query(project, after)
    OBVIOUS
  <1>8. PICK k : k = PageOf(m)
    OBVIOUS
  <1>9. /\ answer.entries = SubSeq(m, 1, k)
        /\ answer.next = IF Len(m) > Len(answer.entries) THEN Last(answer.entries).sequence ELSE -1
    BY <1>5, <1>7, <1>8, QueryIs, Zenon
  <1>10. k \in 0..Len(m) /\ Len(m) \in Nat /\ (Len(m) > k => k \in 1..Len(m))
    BY <1>6, <1>8 DEF PageOf, LedgerConstants
  <1>11. Len(SubSeq(m, 1, k)) = k
    BY <1>6, <1>10
  <1>12. SUFFICES \E p \in 0..n :
           /\ Keep(SubSeq(c, 1, q), N) \o answer.entries = Keep(SubSeq(c, 1, p), N)
           /\ \/ answer.next = -1 /\ p = n
              \/ answer.next = p - 1 /\ p # 0
    BY <1>3, <1>7, Zenon DEF Continues
  <1>13. SubSeq(c, 1, q) = r
    BY <1>2, Zenon DEF Parted
  <1>14. CASE ~(Len(m) > k)
    <2>1. k = Len(m)
      BY <1>10, <1>14
    <2>2. SubSeq(m, 1, Len(m)) = m
      BY <1>6
    <2>3. SubSeq(c, 1, n) = c
      BY <1>1
    <2>4. answer.next = -1
      BY <1>9, <1>11, <1>14, Zenon
    <2>5. Keep(SubSeq(c, 1, q), N) \o answer.entries = Keep(SubSeq(c, 1, n), N)
      BY <1>5, <1>9, <1>13, <2>1, <2>2, <2>3, Zenon
    <2>6. n \in 0..n
      OBVIOUS
    <2> QED
      BY <2>4, <2>5, <2>6, Zenon
  <1>15. CASE Len(m) > k
    <2>1. k \in 1..Len(m)
      BY <1>10, <1>15
    <2>2. PICK p \in 1..n :
            /\ Keep(r, N) \o SubSeq(m, 1, k) = Keep(SubSeq(c, 1, p), N)
            /\ m[k].sequence = p - 1
      <3>1. k \in 1..Len(Keep(t, N))
        BY <1>4, <2>1, Zenon
      <3>2. \E p \in 1..n :
              /\ Keep(r, N) \o SubSeq(Keep(t, N), 1, k) = Keep(SubSeq(c, 1, p), N)
              /\ Keep(t, N)[k].sequence = p - 1
        BY <1>16, <3>1, Zenon DEF Ends
      <3> QED
        BY <1>4, <3>2, Zenon
    <2>3. SubSeq(m, 1, k)[k] = m[k]
      BY <1>6, <2>1
    <2>4. Last(answer.entries) = m[k]
      BY <1>9, <1>11, <2>3, Zenon DEF Last
    <2>5. answer.next = p - 1
      BY <1>9, <1>11, <1>15, <2>2, <2>4, Zenon
    <2>6. p \in 0..n /\ p # 0
      OBVIOUS
    <2>7. Keep(SubSeq(c, 1, q), N) \o answer.entries = Keep(SubSeq(c, 1, p), N)
      BY <1>9, <1>13, <2>2, Zenon
    <2> QED
      BY <2>5, <2>6, <2>7, Zenon
  <1> QED
    BY <1>14, <1>15

(* A query shows the reader one more page.                                 *)
LEMMA QueryIInv ==
  ASSUME LedgerConstants, LedgerInv, L!Query PROVE LedgerInv'
  <1>1. PICK answer : answer = L!query(reader.project, reader.after)
    OBVIOUS
  <1>2. /\ key # NoKey /\ ~reader.done
        /\ reader' = [reader EXCEPT !.seen = @ \o answer.entries, !.after = answer.next,
                                    !.upto = Len(entries), !.done = answer.next = -1]
        /\ UNCHANGED <<entries, checkpoints, keyfile, key, signing, anchored, alterations, keys>>
    BY <1>1 DEF L!Query
  <1>3. /\ reader = [project |-> reader.project, after |-> reader.after, seen |-> reader.seen,
                     upto |-> reader.upto, done |-> reader.done]
        /\ reader.after \in Int /\ Paged \in 0..Len(entries)
        /\ reader.seen = Keep(SubSeq(entries, 1, Paged), Own(entries, reader.project))
        /\ Paged = reader.after + 1
    BY <1>2 DEF LedgerInv, ReaderInv, Paged
  <1>4. /\ reader'.project = reader.project /\ reader'.seen = reader.seen \o answer.entries
        /\ reader'.after = answer.next /\ reader'.upto = Len(entries)
        /\ reader' = [project |-> reader'.project, after |-> reader'.after,
                      seen |-> reader'.seen, upto |-> reader'.upto, done |-> reader'.done]
    BY <1>2, <1>3
  <1>5. reader'.done = (answer.next = -1)
    <2>1. DOMAIN reader = {"project", "after", "seen", "upto", "done"}
      BY <1>3
    <2> QED
      BY <1>2, <2>1, Zenon
  <1>6. PICK n \in Nat : n = Len(entries) /\ Paged \in 0..n
    <2>1. Len(entries) \in Nat
      BY ListAppend DEF LedgerInv, EntriesInv
    <2> QED
      BY <1>3, <2>1
  <1>7. PICK q \in 0..n : q = Paged
    BY <1>6
  <1>8. PICK X : entries \in Seq(X)
    BY DEF LedgerInv, EntriesInv, IsList
  <1>9. Reading(entries, n, q, reader.after)
    <2>1. L!verify(entries)
      BY <1>2 DEF LedgerInv, ServedInv, Verified
    <2> QED
      BY <1>3, <1>6, <1>7, <2>1, Zenon DEF Reading, Follows
  <1>10. PICK p \in 0..n :
           /\ Keep(SubSeq(entries, 1, q), Own(entries, reader.project)) \o answer.entries
                = Keep(SubSeq(entries, 1, p), Own(entries, reader.project))
           /\ \/ answer.next = -1 /\ p = n
              \/ answer.next = p - 1 /\ p # 0
    <2>1. Continues(entries, n, q, reader.project, reader.after)
      BY <1>8, <1>9, PageContinues, Zenon
    <2> QED
      BY <1>1, <2>1, Zenon DEF Continues
  <1>11. reader'.after \in Int /\ Paged' = p
    <2>1. CASE answer.next = -1 /\ p = n
      <3>1. reader'.done
        BY <1>5, <2>1, Zenon
      <3> QED
        BY <1>4, <1>6, <2>1, <3>1 DEF Paged
    <2>2. CASE answer.next = p - 1 /\ p # 0
      <3>1. p - 1 # -1 /\ p - 1 \in Int /\ (p - 1) + 1 = p
        BY <2>2
      <3>2. ~reader'.done
        BY <1>5, <2>2, <3>1, Zenon
      <3>3. reader'.after = p - 1
        BY <1>4, <2>2
      <3>4. Paged' = (p - 1) + 1
        BY <3>2, <3>3, Zenon DEF Paged
      <3> QED
        BY <3>1, <3>3, <3>4, Zenon
    <2> QED
      BY <1>10, <2>1, <2>2
  <1>12. ReaderInv'
    <2>1. reader'.seen = Keep(SubSeq(entries', 1, Paged'), Own(entries', reader'.project))
      BY <1>2, <1>3, <1>4, <1>7, <1>10, <1>11, Zenon
    <2>2. Paged' \in 0..Len(entries') /\ key' # NoKey
      BY <1>2, <1>6, <1>11, Zenon
    <2>3. reader'.done \in BOOLEAN
      BY <1>5, Zenon
    <2> QED
      BY <1>4, <1>11, <2>1, <2>2, <2>3, Zenon DEF ReaderInv
  <1>13. EntriesInv' /\ SigningInv' /\ CheckpointsInv' /\ ServedInv'
    BY <1>2 DEF LedgerInv, EntriesInv, SigningInv, CheckpointsInv, Recorded, Signable, ServedInv, Verified
  <1> QED
    BY <1>12, <1>13 DEF LedgerInv

(* Where there is no reader nothing has been shown.                        *)
LEMMA NoReaderReadsNext ==
  ASSUME IsList(entries'), reader' = L!NoReader PROVE ReaderInv'
  <1>1. /\ reader'.seen = <<>> /\ reader'.after = -1 /\ reader'.upto = 0
        /\ reader' = [project |-> reader'.project, after |-> reader'.after,
                      seen |-> reader'.seen, upto |-> reader'.upto, done |-> reader'.done]
    BY DEF L!NoReader
  <1>2. reader'.done = TRUE
    BY Zenon DEF L!NoReader
  <1>3. Paged' = 0
    BY <1>1, <1>2 DEF Paged
  <1>4. Len(entries') \in Nat /\ SubSeq(entries', 1, 0) = <<>>
    BY DEF IsList
  <1>5. Keep(<<>>, Own(entries', reader'.project)) = <<>>
    BY KeepEmpty
  <1>6. reader'.seen = Keep(SubSeq(entries', 1, Paged'), Own(entries', reader'.project))
    BY <1>1, <1>3, <1>4, <1>5
  <1>7. Paged' \in 0..Len(entries') /\ reader'.after \in Int
    BY <1>1, <1>3, <1>4
  <1> QED
    BY <1>1, <1>2, <1>6, <1>7, Zenon DEF ReaderInv

(* A reader begins before the first entry.                                 *)
LEMMA AskIInv ==
  ASSUME LedgerConstants, LedgerInv, NEW project, L!Ask(project) PROVE LedgerInv'
  <1>1. /\ key # NoKey
        /\ reader' = [project |-> project, after |-> -1, seen |-> <<>>, upto |-> 0, done |-> FALSE]
        /\ UNCHANGED <<entries, checkpoints, keyfile, key, signing, anchored, alterations, keys>>
    BY DEF L!Ask
  <1>2. IsList(entries)
    BY DEF LedgerInv, EntriesInv
  <1>3. Len(entries) \in Nat /\ SubSeq(entries, 1, 0) = <<>>
    BY <1>2 DEF IsList
  <1>4. /\ reader'.seen = <<>> /\ reader'.after = -1 /\ reader'.upto = 0
        /\ reader' = [project |-> reader'.project, after |-> reader'.after,
                      seen |-> reader'.seen, upto |-> reader'.upto, done |-> reader'.done]
    BY <1>1
  <1>5. reader'.done = FALSE
    BY <1>1, Zenon
  <1>6. Paged' = 0
    BY <1>4, <1>5 DEF Paged
  <1>7. Keep(<<>>, Own(entries', reader'.project)) = <<>>
    BY KeepEmpty
  <1>8. reader'.seen = Keep(SubSeq(entries', 1, Paged'), Own(entries', reader'.project))
    BY <1>1, <1>3, <1>4, <1>6, <1>7
  <1>9. Paged' \in 0..Len(entries') /\ reader'.after \in Int /\ key' # NoKey
    BY <1>1, <1>3, <1>4, <1>6
  <1>10. ReaderInv'
    BY <1>4, <1>5, <1>8, <1>9, Zenon DEF ReaderInv
  <1>11. EntriesInv' /\ SigningInv' /\ CheckpointsInv' /\ ServedInv'
    BY <1>1 DEF LedgerInv, EntriesInv, SigningInv, CheckpointsInv, Recorded, Signable, ServedInv, Verified
  <1> QED
    BY <1>10, <1>11 DEF LedgerInv

(* A reader has come to the end.                                           *)
LEMMA ReadIInv ==
  ASSUME LedgerConstants, LedgerInv, L!Read PROVE LedgerInv'
  <1>1. /\ reader' = L!NoReader
        /\ UNCHANGED <<entries, checkpoints, keyfile, key, signing, anchored, alterations, keys>>
    BY DEF L!Read
  <1>2. IsList(entries')
    BY <1>1 DEF LedgerInv, EntriesInv
  <1>3. ReaderInv'
    <2>1. reader' = L!NoReader
      BY <1>1
    <2> QED
      BY <1>2, <2>1, NoReaderReadsNext
  <1>4. EntriesInv' /\ SigningInv' /\ CheckpointsInv' /\ ServedInv'
    BY <1>1 DEF LedgerInv, EntriesInv, SigningInv, CheckpointsInv, Recorded, Signable, ServedInv, Verified
  <1> QED
    BY <1>3, <1>4 DEF LedgerInv

(* The daemon stops, at any moment.                                        *)
LEMMA StopIInv ==
  ASSUME LedgerConstants, LedgerInv, L!Stop PROVE LedgerInv'
  <1>1. /\ key' = NoKey /\ signing' = <<>> /\ reader' = L!NoReader
        /\ UNCHANGED <<entries, checkpoints, keyfile, anchored, alterations, keys>>
    BY DEF L!Stop
  <1>2. IsList(entries')
    BY <1>1 DEF LedgerInv, EntriesInv
  <1>3. ReaderInv'
    BY <1>1, <1>2, NoReaderReadsNext
  <1>4. EntriesInv' /\ SigningInv' /\ CheckpointsInv'
    BY <1>1 DEF LedgerInv, EntriesInv, SigningInv, CheckpointsInv, Recorded, Signable
  <1>5. ServedInv'
    BY <1>1 DEF LedgerInv, ServedInv, Verified
  <1> QED
    BY <1>3, <1>4, <1>5 DEF LedgerInv

-----------------------------------------------------------------------------
(* The entry at j of a chain that is written anew from entry i on.         *)
Anew(chain, i, events, j, s) ==
  IF j < i THEN SubSeq(chain, 1, j)
  ELSE Append(s, L!new(j - 1, IF j = 1 THEN NoHash ELSE s[j - 1].hash, events[j]))

(* The chain as it is written anew.                                        *)
Writing(chain, i, events, n, f) ==
  f = [j \in 0..n |-> IF j = 0 THEN <<>> ELSE Anew(chain, i, events, j, f[j - 1])]

(* Any chain can be written anew.                                          *)
LEMMA WritingExists ==
  ASSUME NEW chain, NEW i, NEW events, NEW n \in Nat
  PROVE  \E f : Writing(chain, i, events, n, f)
  <1> DEFINE T == {m \in Nat : \E f : Writing(chain, i, events, m, f)}
  <1>1. 0 \in T
    <2> DEFINE g == [j \in 0..0 |-> <<>>]
    <2>1. Writing(chain, i, events, 0, g)
      BY DEF Writing
    <2> QED
      BY <2>1
  <1>2. ASSUME NEW m \in T PROVE m + 1 \in T
    <2> m \in Nat
      OBVIOUS
    <2>1. PICK f : Writing(chain, i, events, m, f)
      OBVIOUS
    <2> DEFINE g == [j \in 0..(m + 1) |->
                      IF j <= m THEN f[j] ELSE Anew(chain, i, events, j, f[m])]
    <2>2. ASSUME NEW j \in 0..(m + 1)
          PROVE  g[j] = IF j = 0 THEN <<>> ELSE Anew(chain, i, events, j, g[j - 1])
      <3>1. CASE j <= m
        <4>1. f[j] = IF j = 0 THEN <<>> ELSE Anew(chain, i, events, j, f[j - 1])
          <5>1. j \in 0..m
            BY <3>1
          <5> QED
            BY <2>1, <5>1 DEF Writing
        <4>2. j # 0 => g[j - 1] = f[j - 1]
          BY <3>1
        <4> QED
          BY <3>1, <4>1, <4>2
      <3>2. CASE j = m + 1
        <4>1. g[j - 1] = f[m]
          BY <3>2
        <4> QED
          BY <3>2, <4>1
      <3> QED
        BY <3>1, <3>2
    <2>3. Writing(chain, i, events, m + 1, g)
      BY <2>2 DEF Writing
    <2> QED
      BY <2>3
  <1> HIDE DEF T
  <1>3. T \in SUBSET Nat
    BY DEF T
  <1>4. T = Nat
    BY <1>1, <1>2, <1>3, NatInduct
  <1> QED
    BY <1>4 DEF T

(* A chain written anew has as many entries as before.                     *)
LEMMA RewrittenList ==
  ASSUME NEW c, IsList(c), NEW i, NEW event
  PROVE  IsList(L!Rewritten(c, i, event)) /\ Len(L!Rewritten(c, i, event)) = Len(c)
  <1> DEFINE events == [j \in DOMAIN c |-> IF j = i THEN event ELSE c[j].event]
             g == CHOOSE f : Writing(c, i, events, Len(c), f)
  <1>1. PICK n \in Nat : n = Len(c)
    BY ListAppend
  <1>2. L!Rewritten(c, i, event) = g[Len(c)]
    BY DEF L!Rewritten, Writing, Anew
  <1> HIDE DEF events
  <1>3. Writing(c, i, events, n, g)
    <2>1. \E f : Writing(c, i, events, Len(c), f)
      BY <1>1, WritingExists
    <2> QED
      BY <1>1, <2>1
  <1> HIDE DEF g
  <1> DEFINE T == {m \in Nat : m <= n => IsList(g[m]) /\ Len(g[m]) = m}
  <1>4. 0 \in T
    <2>1. g[0] = <<>>
      BY <1>3 DEF Writing
    <2>2. IsList(<<>>) /\ Len(<<>>) = 0
      BY DEF IsList
    <2> QED
      BY <2>1, <2>2
  <1>5. ASSUME NEW m \in T PROVE m + 1 \in T
    <2>1. m \in Nat /\ m + 1 \in Nat
      OBVIOUS
    <2>2. SUFFICES ASSUME m + 1 <= n PROVE IsList(g[m + 1]) /\ Len(g[m + 1]) = m + 1
      BY <2>1
    <2>3. IsList(g[m]) /\ Len(g[m]) = m
      BY <2>1, <2>2
    <2>4. g[m + 1] = Anew(c, i, events, m + 1, g[m])
      <3>1. PICK j \in 0..n : j = m + 1 /\ j # 0 /\ j - 1 = m
        BY <2>1, <2>2
      <3>2. g[j] = Anew(c, i, events, j, g[j - 1])
        BY <1>3, <3>1 DEF Writing
      <3> QED
        BY <3>1, <3>2, Zenon
    <2>5. CASE m + 1 < i
      <3>1. g[m + 1] = SubSeq(c, 1, m + 1)
        BY <2>4, <2>5 DEF Anew
      <3>2. PICK X : c \in Seq(X)
        BY DEF IsList
      <3>3. PICK s \in Seq(X) : s = SubSeq(c, 1, m + 1) /\ Len(s) = m + 1
        <4>1. SubSeq(c, 1, m + 1) \in Seq(X) /\ Len(SubSeq(c, 1, m + 1)) = m + 1
          BY <1>1, <2>1, <2>2, <3>2
        <4> QED
          BY <4>1
      <3>4. IsList(s)
        BY ListOf
      <3> QED
        BY <3>1, <3>3, <3>4
    <2>6. CASE ~(m + 1 < i)
      <3>1. PICK e : g[m + 1] = Append(g[m], e)
        BY <2>4, <2>6 DEF Anew
      <3>2. PICK s : s = g[m] /\ IsList(s) /\ Len(s) = m
        BY <2>3
      <3>3. IsList(Append(s, e)) /\ Len(Append(s, e)) = Len(s) + 1
        BY <3>2, ListAppend
      <3> QED
        BY <3>1, <3>2, <3>3
    <2> QED
      BY <2>5, <2>6
  <1>6. T = Nat
    <2>1. T \in SUBSET Nat
      OBVIOUS
    <2> HIDE DEF T
    <2> QED
      BY <1>4, <1>5, <2>1, NatInduct
  <1>7. n \in T
    BY <1>6
  <1> QED
    BY <1>1, <1>2, <1>7

(* What can be done to the entries while the daemon is down.               *)
Altered(c, i, event) ==
  {[c EXCEPT ![i].event = event], L!Rewritten(c, i, event), SubSeq(c, 1, i - 1), RemoveAt(c, i)}

(* It leaves a list of no more entries.                                    *)
LEMMA AlteredList ==
  ASSUME NEW c, IsList(c), NEW i \in DOMAIN c, NEW event, NEW d, d \in Altered(c, i, event)
  PROVE  IsList(d) /\ Len(d) \in Nat /\ Len(d) <= Len(c)
  <1>1. PICK n \in Nat : n = Len(c) /\ DOMAIN c = 1..n /\ i \in 1..n
    BY ListOf DEF IsList
  <1>2. PICK X : c \in Seq(X)
    BY DEF IsList
  <1>3. CASE d = [c EXCEPT ![i].event = event]
    <2>1. PICK e : d = [c EXCEPT ![i] = e]
      BY <1>3
    <2>2. PICK Y : Y = X \cup {e}
      OBVIOUS
    <2>3. d \in [1..n -> Y]
      BY <1>1, <1>2, <2>1, <2>2
    <2>4. d \in Seq(Y) /\ Len(d) = n
      BY <2>3, SeqDef
    <2> QED
      BY <1>1, <2>4, ListOf
  <1>4. CASE d = L!Rewritten(c, i, event)
    BY <1>1, <1>4, RewrittenList
  <1>5. CASE d = SubSeq(c, 1, i - 1)
    <2>1. d \in Seq(X) /\ Len(d) = i - 1
      BY <1>1, <1>2, <1>5
    <2> QED
      BY <1>1, <2>1, ListOf
  <1>6. CASE d = RemoveAt(c, i)
    <2>1. PICK r \in Seq(X) : r = SubSeq(c, 1, i - 1) /\ Len(r) = i - 1
      <3>1. SubSeq(c, 1, i - 1) \in Seq(X) /\ Len(SubSeq(c, 1, i - 1)) = i - 1
        BY <1>1, <1>2
      <3> QED
        BY <3>1
    <2>2. PICK t \in Seq(X) : t = SubSeq(c, i + 1, n) /\ Len(t) = n - i
      <3>1. SubSeq(c, i + 1, n) \in Seq(X) /\ Len(SubSeq(c, i + 1, n)) = n - i
        BY <1>1, <1>2
      <3> QED
        BY <3>1
    <2>3. d = r \o t
      BY <1>1, <1>6, <2>1, <2>2 DEF RemoveAt
    <2>4. r \o t \in Seq(X) /\ Len(r \o t) = Len(r) + Len(t)
      BY ConcatProperties
    <2>5. (i - 1) + (n - i) = n - 1 /\ n - 1 \in Nat
      BY <1>1
    <2>6. d \in Seq(X) /\ Len(d) = n - 1
      BY <2>1, <2>2, <2>3, <2>4, <2>5, Zenon
    <2> QED
      BY <1>1, <2>5, <2>6, ListOf
  <1> QED
    BY <1>3, <1>4, <1>5, <1>6, Zenon DEF Altered

(* A row written into the table of checkpoints is one a daemon signed, or  *)
(* one without its key.                                                    *)
LEMMA StoredPut ==
  ASSUME CheckpointsInv, UNCHANGED anchored, NEW c, c.sequence \in Signable,
         c \in DOMAIN anchored \/ c.key = NoKey,
         checkpoints' = L!Put(checkpoints, c.sequence, c)
  PROVE  CheckpointsInv'
  <1>1. /\ DOMAIN checkpoints' = DOMAIN checkpoints \cup {c.sequence}
        /\ checkpoints'[c.sequence] = c
        /\ \A s \in DOMAIN checkpoints \ {c.sequence} : checkpoints'[s] = checkpoints[s]
    BY DEF L!Put
  <1>2. \A d \in DOMAIN anchored : Recorded(d)'
    BY DEF CheckpointsInv, Recorded, Signable
  <1> QED
    BY <1>1, <1>2 DEF CheckpointsInv, Signable

(* Whatever is done to the tables, a checkpoint that is stored was signed  *)
(* by a daemon, or by nobody.                                              *)
LEMMA StoredAltered ==
  ASSUME CheckpointsInv, L!Alter PROVE CheckpointsInv'
  <1>1. UNCHANGED anchored
    BY DEF L!Alter
  <1>2. \A d \in DOMAIN anchored : Recorded(d)'
    BY <1>1 DEF CheckpointsInv, Recorded, Signable
  <1>3. CASE UNCHANGED checkpoints
    BY <1>1, <1>2, <1>3 DEF CheckpointsInv, Signable
  <1>4. CASE \E s \in DOMAIN checkpoints :
               checkpoints' = [t \in DOMAIN checkpoints \ {s} |-> checkpoints[t]]
    <2>1. /\ DOMAIN checkpoints' \subseteq DOMAIN checkpoints
          /\ \A t \in DOMAIN checkpoints' : checkpoints'[t] = checkpoints[t]
      BY <1>4
    <2> QED
      BY <1>1, <1>2, <2>1 DEF CheckpointsInv, Signable
  <1>5. CASE \E c \in DOMAIN anchored : checkpoints' = L!Put(checkpoints, c.sequence, c)
    BY <1>1, <1>5, StoredPut DEF CheckpointsInv
  <1>6. CASE \E s \in DOMAIN checkpoints :
               checkpoints' = L!Put(checkpoints, s, L!sign(s, L!HashAt(entries, s), NoKey))
    <2>1. PICK s \in DOMAIN checkpoints :
            checkpoints' = L!Put(checkpoints, s, L!sign(s, L!HashAt(entries, s), NoKey))
      BY <1>6
    <2>2. PICK c : c = L!sign(s, L!HashAt(entries, s), NoKey)
      OBVIOUS
    <2>3. c.sequence = s /\ c.key = NoKey
      BY <2>2 DEF L!sign
    <2>4. checkpoints' = L!Put(checkpoints, c.sequence, c)
      BY <2>1, <2>2, <2>3, Zenon
    <2>5. c.sequence \in Signable
      BY <2>3 DEF CheckpointsInv
    <2> QED
      BY <1>1, <2>3, <2>4, <2>5, StoredPut
  <1> QED
    BY <1>3, <1>4, <1>5, <1>6, Zenon
    DEF L!Alter, L!AlterEntries, L!AlterCheckpoints, L!LoseKey

(* The database is altered while the daemon is down.                       *)
LEMMA AlterIInv ==
  ASSUME LedgerConstants, LedgerInv, L!Alter PROVE LedgerInv'
  <1>1. /\ key = NoKey /\ alterations' = alterations + 1
        /\ UNCHANGED <<key, signing, anchored, keys, reader>>
    BY DEF L!Alter
  <1>2. IsList(entries) /\ Len(entries) <= MaxEntries /\ Len(entries) \in Nat
    BY ListOf DEF LedgerInv, EntriesInv, IsList
  <1>3. \/ entries' = entries
        \/ \E i \in DOMAIN entries : \E event : entries' \in Altered(entries, i, event)
    BY LedgerLibrary, Zenon
    DEF L!Alter, L!AlterEntries, L!AlterCheckpoints, L!LoseKey, Altered
  <1>4. IsList(entries') /\ Len(entries') \in Nat /\ Len(entries') <= Len(entries)
    <2>1. CASE entries' = entries
      BY <1>2, <2>1
    <2>2. CASE \E i \in DOMAIN entries : \E event : entries' \in Altered(entries, i, event)
      BY <1>2, <2>2, AlteredList
    <2> QED
      BY <1>3, <2>1, <2>2
  <1>5. EntriesInv'
    BY <1>2, <1>4 DEF EntriesInv, LedgerConstants
  <1>6. signing = <<>> /\ reader' = L!NoReader
    BY <1>1 DEF LedgerInv, SigningInv, ReaderInv
  <1>7. SigningInv' /\ CheckpointsInv'
    <2>1. SigningInv'
      BY <1>1, <1>6 DEF SigningInv
    <2> QED
      BY <1>1, <2>1, StoredAltered DEF LedgerInv
  <1>8. ServedInv'
    <2>1. alterations' \in Nat /\ alterations' # 0
      BY <1>1 DEF LedgerInv, ServedInv
    <2> QED
      BY <1>1, <2>1 DEF LedgerInv, ServedInv
  <1>9. ReaderInv'
    BY <1>4, <1>6, NoReaderReadsNext
  <1> QED
    BY <1>5, <1>7, <1>8, <1>9 DEF LedgerInv

-----------------------------------------------------------------------------
(* The invariant holds at the start.                                       *)
LEMMA InitLedgerInv ==
  ASSUME LedgerConstants, L!Init PROVE LedgerInv
  <1>1. /\ entries = <<>> /\ checkpoints = <<>> /\ anchored = <<>> /\ key = NoKey
        /\ keyfile = NoKey /\ signing = <<>> /\ alterations = 0 /\ keys = 0 /\ reader = L!NoReader
    BY DEF L!Init
  <1>2. EntriesInv
    BY <1>1 DEF EntriesInv, IsList, LedgerConstants
  <1>3. SigningInv /\ CheckpointsInv
    BY <1>1 DEF SigningInv, CheckpointsInv
  <1>4. ServedInv
    BY <1>1 DEF ServedInv, Verified, L!verify, LedgerConstants
  <1>5. ReaderInv
    <2>1. /\ reader.seen = <<>> /\ reader.after = -1 /\ reader.upto = 0
          /\ reader = [project |-> reader.project, after |-> reader.after, seen |-> reader.seen,
                       upto |-> reader.upto, done |-> reader.done]
      BY <1>1 DEF L!NoReader
    <2>2. reader.done = TRUE
      BY <1>1, Zenon DEF L!NoReader
    <2>3. Paged = 0
      BY <2>1, <2>2 DEF Paged
    <2>4. SubSeq(entries, 1, 0) = <<>> /\ Len(entries) = 0
      BY <1>1
    <2>5. Keep(<<>>, Own(entries, reader.project)) = <<>>
      BY KeepEmpty
    <2>6. reader.seen = Keep(SubSeq(entries, 1, Paged), Own(entries, reader.project))
      BY <2>1, <2>3, <2>4, <2>5
    <2>7. Paged \in 0..Len(entries) /\ reader.after \in Int
      BY <2>1, <2>3, <2>4
    <2> QED
      BY <1>1, <2>1, <2>2, <2>6, <2>7, Zenon DEF ReaderInv
  <1> QED
    BY <1>2, <1>3, <1>4, <1>5 DEF LedgerInv

(* Every step keeps it.                                                    *)
LEMMA NextLedgerInv ==
  ASSUME LedgerConstants, LedgerInv, [L!Next]_(L!lvars) PROVE LedgerInv'
  <1>1. CASE UNCHANGED L!lvars
    BY <1>1 DEF L!lvars, LedgerInv, EntriesInv, SigningInv, CheckpointsInv, Recorded, Signable, ServedInv,
                Verified, ReaderInv, Paged
  <1>2. CASE L!Start
    BY <1>2, StartIInv
  <1>3. CASE L!SignCheckpoint
    BY <1>3, SignIInv
  <1>4. CASE L!Stop
    BY <1>4, StopIInv
  <1>5. CASE L!Query
    BY <1>5, QueryIInv
  <1>6. CASE L!Read
    BY <1>6, ReadIInv
  <1>7. CASE L!Alter
    BY <1>7, AlterIInv
  <1>8. CASE \E event \in Events : L!Record(event) \/ L!Ask(event)
    BY <1>8, RecordIInv, AskIInv
  <1> QED
    BY <1>1, <1>2, <1>3, <1>4, <1>5, <1>6, <1>7, <1>8, Zenon DEF L!Next

(* The ledger keeps its invariant: every sequence of appends, checkpoints, *)
(* stops, restarts and alterations.                                        *)
THEOREM LedgerInvariance ==
  ASSUME LedgerConstants PROVE L!Spec => []LedgerInv
  <1>1. L!Init => LedgerInv
    BY InitLedgerInv
  <1>2. LedgerInv /\ [L!Next]_(L!lvars) => LedgerInv'
    BY NextLedgerInv
  <1> QED
    BY <1>1, <1>2, PTL DEF L!Spec

(* Types of the ledger.                                                    *)
THEOREM LedgerTyped ==
  ASSUME LedgerConstants PROVE L!Spec => []L!TypeOK
  <1>1. ASSUME LedgerInv PROVE L!TypeOK
    <2>1. Len(signing) <= 1
      <3>1. CASE signing = <<>>
        BY <3>1
      <3>2. CASE signing # <<>>
        <4>1. signing = <<entries[Len(entries)]>>
          BY <1>1, <3>2 DEF LedgerInv, SigningInv
        <4> QED
          BY <4>1
      <3> QED
        BY <3>1, <3>2
    <2>2. reader.seen \in Seq({entries[i] : i \in DOMAIN entries})
      <3>1. PICK X : X = ToSet(entries) /\ entries \in Seq(X)
        BY <1>1 DEF LedgerInv, EntriesInv, IsList
      <3>2. PICK q \in 0..Len(entries) :
              reader.seen = Keep(SubSeq(entries, 1, q), Own(entries, reader.project))
        BY <1>1 DEF LedgerInv, ReaderInv
      <3>3. PICK r \in Seq(X) : r = SubSeq(entries, 1, q)
        <4>1. SubSeq(entries, 1, q) \in Seq(X)
          BY <3>1
        <4> QED
          BY <4>1
      <3>4. Keep(r, Own(entries, reader.project)) \in Seq(X)
        BY KeepElements
      <3>5. X = {entries[i] : i \in DOMAIN entries}
        BY <3>1, Zenon DEF ToSet
      <3> QED
        BY <3>2, <3>3, <3>4, <3>5, Zenon
    <2> QED
      BY <1>1, <2>1, <2>2
      DEF L!TypeOK, LedgerInv, EntriesInv, CheckpointsInv, Signable, ServedInv
  <1> QED
    BY <1>1, LedgerInvariance, PTL

(* The daemon's own ledger verifies, and a ledger that verifies holds what *)
(* was recorded up to the checkpoints it still has.                        *)
THEOREM LedgerIsSound ==
  ASSUME LedgerConstants PROVE L!Spec => []L!VerificationIsSound
  <1>1. ASSUME LedgerInv PROVE L!VerificationIsSound
    <2>1. alterations = 0 \/ key # NoKey => Verified
      BY <1>1 DEF LedgerInv, ServedInv
    <2>2. ASSUME key # NoKey, NEW s \in DOMAIN checkpoints
          PROVE  /\ checkpoints[s] \in DOMAIN anchored
                 /\ checkpoints[s].sequence < Len(entries)
                 /\ \A i \in DOMAIN anchored[checkpoints[s]] :
                      entries[i].event = anchored[checkpoints[s]][i]
      <3>1. keyfile # NoKey
        BY <1>1, <2>2 DEF LedgerInv, ServedInv
      <3> QED
        BY <1>1, <2>1, <2>2, <3>1, VerifiedHolds DEF LedgerInv
    <2> QED
      BY <2>1, <2>2 DEF L!VerificationIsSound, Verified
  <1> QED
    BY <1>1, LedgerInvariance, PTL

(* The start of a sequence in two parts.                                   *)
LEMMA FirstPart ==
  ASSUME NEW X, NEW r \in Seq(X), NEW s \in Seq(X)
  PROVE  IsPrefix(r, r \o s)
  <1>1. PICK u \in Seq(X) :
          /\ u = r \o s /\ Len(u) = Len(r) + Len(s)
          /\ \A i \in 1..(Len(r) + Len(s)) : u[i] = IF i <= Len(r) THEN r[i] ELSE s[i - Len(r)]
    <2>1. /\ r \o s \in Seq(X) /\ Len(r \o s) = Len(r) + Len(s)
          /\ \A i \in 1..(Len(r) + Len(s)) :
               (r \o s)[i] = IF i <= Len(r) THEN r[i] ELSE s[i - Len(r)]
      BY ConcatProperties
    <2> QED
      BY <2>1, Zenon
  <1>2. PICK n \in Nat : n = Len(r) /\ n <= Len(u) /\ \A i \in 1..n : u[i] = r[i]
    <2>1. Len(r) \in Nat /\ Len(s) \in Nat
      OBVIOUS
    <2>2. Len(r) <= Len(u)
      BY <1>1, <2>1
    <2>3. ASSUME NEW i \in 1..Len(r) PROVE u[i] = r[i]
      <3>1. i \in 1..(Len(r) + Len(s)) /\ i <= Len(r)
        BY <2>1
      <3> QED
        BY <1>1, <3>1, Zenon
    <2> QED
      BY <2>1, <2>2, <2>3
  <1> HIDE <1>1
  <1>3. PICK v \in Seq(X) : v = SubSeq(u, 1, n) /\ Len(v) = n /\ \A i \in 1..n : v[i] = u[i]
    <2>1. SubSeq(u, 1, n) \in Seq(X)
      BY <1>2
    <2>2. Len(SubSeq(u, 1, n)) = n /\ \A i \in 1..n : SubSeq(u, 1, n)[i] = u[i]
      BY <1>2
    <2> QED
      BY <2>1, <2>2, Zenon
  <1>4. v = r
    <2>1. Len(v) = n /\ Len(r) = n /\ \A i \in 1..n : v[i] = r[i]
      BY <1>2, <1>3
    <2> QED
      BY <2>1
  <1>5. SubSeq(r, 1, Len(r)) = r
    OBVIOUS
  <1>6. u = r \o s
    BY <1>1
  <1> QED
    BY <1>2, <1>3, <1>4, <1>5, <1>6, Zenon DEF IsPrefix

(* Paging through the ledger leaves nothing out, whatever is recorded in   *)
(* the meantime.                                                           *)
THEOREM PagesAreComplete ==
  ASSUME LedgerConstants PROVE L!Spec => []L!PagesComplete
  <1>1. ASSUME LedgerInv PROVE L!PagesComplete
    <2>1. PICK X : entries \in Seq(X)
      BY <1>1 DEF LedgerInv, EntriesInv, IsList
    <2>2. PICK N : N = Own(entries, reader.project)
      OBVIOUS
    <2>3. /\ reader.seen = Keep(SubSeq(entries, 1, Paged), N)
          /\ Paged \in 0..Len(entries) /\ (reader.done => Paged = reader.upto)
      BY <1>1, <2>2 DEF LedgerInv, ReaderInv, Paged
    <2>4. reader.done => reader.seen = Keep(SubSeq(entries, 1, reader.upto), N)
      BY <2>3, Zenon
    <2>5. PICK n \in Nat : n = Len(entries) /\ Paged \in 0..n
      BY <2>1, <2>3
    <2>6. PICK r, t : Parted(X, entries, n, Paged, r, t)
      BY <2>1, <2>5, Halves, Zenon
    <2>7. r \in Seq(X) /\ t \in Seq(X) /\ entries = r \o t /\ r = SubSeq(entries, 1, Paged)
      BY <2>6, Zenon DEF Parted
    <2>8. Keep(r \o t, N) = Keep(r, N) \o Keep(t, N)
      <3>1. r \in Seq(X) /\ t \in Seq(X)
        BY <2>7
      <3> QED
        BY <3>1, KeepConcat
    <2>9. IsPrefix(Keep(r, N), Keep(r, N) \o Keep(t, N))
      <3>1. PICK k \in Seq(X) : k = Keep(r, N)
        BY <2>7, KeepElements, Zenon
      <3>2. PICK l \in Seq(X) : l = Keep(t, N)
        BY <2>7, KeepElements, Zenon
      <3>3. IsPrefix(k, k \o l)
        BY FirstPart
      <3> QED
        BY <3>1, <3>2, <3>3, Zenon
    <2>10. IsPrefix(reader.seen, Keep(entries, N))
      BY <2>3, <2>7, <2>8, <2>9, Zenon
    <2>12. CASE L!verify(entries)
      <3>1. Keep(entries, Later(entries, reader.project, -1)) = Keep(entries, N)
        <4>1. ASSUME NEW e \in ToSet(entries) PROVE e.sequence > -1
          <5>1. PICK i \in DOMAIN entries : e = entries[i]
            BY DEF ToSet
          <5>2. e.sequence = i - 1 /\ i \in Nat /\ i >= 1
            BY <2>1, <2>12, <5>1 DEF L!verify
          <5> QED
            BY <5>2
        <4>2. Later(entries, reader.project, -1) = N
          BY <2>2, <4>1, Zenon DEF Later, Own
        <4> QED
          BY <4>2
      <3>2. L!Matching(reader.project, -1) = Keep(entries, N)
        BY LedgerLibrary, <3>1, Zenon DEF L!Matching, Later
      <3> QED
        BY LedgerLibrary, <2>2, <2>4, <2>10, <3>2, Zenon DEF L!PagesComplete, Own
    <2>13. CASE reader = L!NoReader
      <3>1. reader.seen = <<>>
        BY <2>13 DEF L!NoReader
      <3>2. PICK k \in Seq(X) : k = L!Matching(reader.project, -1)
        BY LedgerLibrary, <2>1, KeepElements, Zenon DEF L!Matching
      <3>3. IsPrefix(<<>>, k)
        BY DEF IsPrefix
      <3> QED
        BY LedgerLibrary, <2>2, <2>4, <3>1, <3>2, <3>3, Zenon DEF L!PagesComplete, Own
    <2>14. reader = L!NoReader \/ L!verify(entries)
      BY <1>1 DEF LedgerInv, ReaderInv, ServedInv, Verified
    <2> QED
      BY <2>12, <2>13, <2>14
  <1> QED
    BY <1>1, LedgerInvariance, PTL

-----------------------------------------------------------------------------
(* The parts side by side.                                                 *)

(* The initial state of the records is one of every part.                  *)
LEMMA InitOfAll == RecordsInit => Init /\ I!Init /\ L!Init /\ P!Init /\ S!Init
  BY DEF RecordsInit

(* A step of the records is a step of a part, and leaves the others alone. *)
LEMMA StepOfOne ==
  ASSUME [RecordsNext]_<<part, vars, indexVars, ledgerVars, planVars, leaseVars>>
  PROVE  /\ [Next]_vars /\ [I!Next]_(I!ivars) /\ [L!Next]_(L!lvars)
         /\ [P!Next]_(P!pvars) /\ [S!Next]_(S!leaseVars)
  <1>1. [Next]_vars
    BY DEF RecordsNext
  <1>2. [I!Next]_(I!ivars)
    BY DEF RecordsNext, indexVars, I!ivars, I!user, I!tables, I!marks, I!local
  <1>3. [L!Next]_(L!lvars)
    BY DEF RecordsNext, ledgerVars, L!lvars
  <1>4. [P!Next]_(P!pvars)
    BY DEF RecordsNext, planVars, P!pvars
  <1>5. [S!Next]_(S!leaseVars)
    BY DEF RecordsNext, leaseVars, S!leaseVars
  <1> QED
    BY <1>1, <1>2, <1>3, <1>4, <1>5

(* The parts share nothing but the database: every behaviour of all of     *)
(* them is one of each, so that what holds of a part alone holds of it     *)
(* beside the others.                                                      *)
LEMMA RecordsImplementParts ==
  RecordsSpec => Spec /\ I!Spec /\ L!Spec /\ P!Spec /\ S!Spec
  <1>1. /\ [RecordsNext]_<<part, vars, indexVars, ledgerVars, planVars, leaseVars>>
        => /\ [Next]_vars /\ [I!Next]_(I!ivars) /\ [L!Next]_(L!lvars)
           /\ [P!Next]_(P!pvars) /\ [S!Next]_(S!leaseVars)
    BY StepOfOne
  <1> QED
    BY <1>1, InitOfAll, PTL DEF RecordsSpec, Spec, I!Spec, L!Spec, P!Spec, S!Spec

-----------------------------------------------------------------------------
(* What the constants of the parts satisfy.                                *)
RecordsConstants == IndexConstants /\ LeaseConstants /\ PlanConstants /\ LedgerConstants

(* The tables of all five parts are well typed in every behaviour.         *)
THEOREM RecordsTyped ==
  ASSUME RecordsConstants PROVE RecordsSpec => []RecordsTypeOK
  <1>1. IndexConstants /\ LeaseConstants /\ PlanConstants /\ LedgerConstants
    BY DEF RecordsConstants
  <1>2. LeaseInv => S!TypeOK
    BY DEF LeaseInv
  <1>3. TypeOK /\ I!TypeOK /\ L!TypeOK /\ P!TypeOK /\ S!TypeOK => RecordsTypeOK
    BY DEF RecordsTypeOK
  <1>4. Spec => []TypeOK
    BY GoalsTyped
  <1>5. I!Spec => []I!TypeOK
    BY <1>1, IndexTyped
  <1>6. S!Spec => []LeaseInv
    BY <1>1, LeaseInvariance
  <1>7. P!Spec => []P!TypeOK
    BY <1>1, PlansTyped
  <1>8. L!Spec => []L!TypeOK
    BY <1>1, LedgerTyped
  <1> QED
    BY <1>2, <1>3, <1>4, <1>5, <1>6, <1>7, <1>8, RecordsImplementParts, PTL

(* No goal operation counts twice, whatever the other parts do.            *)
THEOREM OperationsCountedOnce == RecordsSpec => []OperationsApplyOnce
  BY CountedOnce, RecordsImplementParts, PTL

(* A goal that is completed stays settled.                                 *)
THEOREM CompletedStaysSettled == RecordsSpec => []CompletedIsSettled
  BY SettledForGood, RecordsImplementParts, PTL

(* The rows of the code index vouch for what was parsed, and an index that *)
(* is reused is right about the files git calls clean; one that lies in,   *)
(* or but for case in, another directory with sources may lose its row.    *)
THEOREM IndexTrue ==
  ASSUME IndexConstants PROVE RecordsSpec => []IndexTellsTruth
  <1>1. I!IndexTellsTruth <=> IndexTellsTruth
    BY DEF IndexTellsTruth
  <1> QED
    BY <1>1, IndexIsTrue, RecordsImplementParts, PTL

(* The daemon never refuses its own ledger, one it serves holds what was   *)
(* recorded up to every checkpoint it still has, and no page leaves an     *)
(* entry out.                                                              *)
THEOREM LedgerTrue ==
  ASSUME LedgerConstants PROVE RecordsSpec => []LedgerTellsTruth
  <1>1. L!VerificationIsSound /\ L!PagesComplete => LedgerTellsTruth
    BY DEF LedgerTellsTruth
  <1> QED
    BY <1>1, LedgerIsSound, PagesAreComplete, RecordsImplementParts, PTL

(* A plan is accepted exactly when it can be carried out without two       *)
(* writers of one path, is carried out so, and its attempts are counted.   *)
THEOREM PlanTrue ==
  ASSUME PlanConstants PROVE RecordsSpec => []PlanTellsTruth
  <1>1. P!AcceptedIsSound /\ P!WritersDisjoint /\ P!AttemptsCounted => PlanTellsTruth
    BY DEF PlanTellsTruth
  <1> QED
    BY <1>1, ValidationIsExact, WritersStayApart, AttemptsAreCounted,
       RecordsImplementParts, PTL

(* A task has one lease holder at a time, and work that may not be         *)
(* repeated is not given to a second one.                                  *)
THEOREM LeaseAlwaysExclusive ==
  ASSUME LeaseConstants PROVE RecordsSpec => []LeaseIsExclusive
  <1>1. S!LeaseIsExclusive => LeaseIsExclusive
    BY DEF LeaseIsExclusive
  <1> QED
    BY <1>1, LeaseExclusive, RecordsImplementParts, PTL
=============================================================================
