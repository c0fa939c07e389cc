-------------------------------- MODULE Plan --------------------------------
(***************************************************************************)
(* Architecture plans and their tasks: ArchitecturePlan::validate          *)
(* (workflow-core architecture.rs), TaskDag (dag.rs, path.rs), the task    *)
(* aggregate (task.rs) and its table (workflow-store tasks.rs).            *)
(*                                                                         *)
(* A plan is validated wherever it is read.  The scheduler of its tasks    *)
(* (external) makes a task ready when ready_tasks names it and sends the   *)
(* other commands in any order the aggregate accepts.  Texts, their bounds *)
(* and the lists that must not be empty are one field, `bounded`; a scope  *)
(* is the sequence of its segments.                                        *)
(***************************************************************************)
EXTENDS Integers, FiniteSets, SequencesExt, FiniteSetsExt

CONSTANTS
  Submissions,   \* plans that are submitted
  MaxSetbacks    \* blocks, failures and cancellations

VARIABLES
  plan, accepted,      \* the plan submitted, and whether it was accepted
  status, attempts,    \* tasks.state_json
  starts,              \* distinct start commands the clients sent
  bypassed,            \* tasks blocked before their dependencies were done
  setbacks

pvars == <<plan, accepted, status, attempts, starts, bypassed, setbacks>>

-----------------------------------------------------------------------------
(* Validation.                                                             *)

is_safe_relative(scope) ==
  scope # <<>> /\ \A i \in DOMAIN scope : scope[i] \notin {"", ".", ".."}

overlaps(first, second) == IsPrefix(first, second) \/ IsPrefix(second, first)

Ids(nodes)      == {nodes[i].id : i \in DOMAIN nodes}
Node(nodes, id) == nodes[CHOOSE i \in DOMAIN nodes : nodes[i].id = id]
Dependencies(nodes, id) ==
  IF id \in Ids(nodes) THEN ToSet(Node(nodes, id).dependencies) ELSE {}

(* depends_on: the worklist holds at most every task once.                 *)
depends_on(nodes, task, target) ==
  LET visited[n \in 0..Len(nodes)] ==
        IF n = 0 THEN {task}
        ELSE visited[n - 1] \cup UNION {Dependencies(nodes, t) : t \in visited[n - 1]}
  IN \E t \in visited[Len(nodes)] : target \in Dependencies(nodes, t)

(* Mutant: transitive dependencies are not looked at.                      *)
dependency_ordered_direct(nodes, first, second) ==
  first \in Dependencies(nodes, second) \/ second \in Dependencies(nodes, first)

dependency_ordered(nodes, first, second) ==
  depends_on(nodes, first, second) \/ depends_on(nodes, second, first)

(* The occurrences of scopes: <<node, place>>.                             *)
Occurrences(nodes) ==
  UNION {{<<i, k>> : k \in DOMAIN nodes[i].write_scopes} : i \in DOMAIN nodes}

validate_nodes(nodes) ==
  /\ \A i \in DOMAIN nodes :
       LET node == nodes[i] IN
       /\ node.write_scopes # <<>>
       /\ \A k \in DOMAIN node.write_scopes : is_safe_relative(node.write_scopes[k])
       /\ IsInjective(node.dependencies)
       /\ ToSet(node.dependencies) \subseteq Ids(nodes)
  /\ \A o, p \in Occurrences(nodes) :
       o # p /\ overlaps(nodes[o[1]].write_scopes[o[2]], nodes[p[1]].write_scopes[p[2]])
         => dependency_ordered(nodes, nodes[o[1]].id, nodes[p[1]].id)

(* sort: of the tasks whose dependencies are listed, the least comes next. *)
sort(nodes) ==
  LET order[n \in 0..Len(nodes)] ==
        IF n = 0 THEN <<>>
        ELSE LET listed == ToSet(order[n - 1])
                 ready  == {t \in Ids(nodes) \ listed : Dependencies(nodes, t) \subseteq listed}
             IN IF ready = {} THEN order[n - 1] ELSE Append(order[n - 1], Min(ready))
  IN order[Len(nodes)]

(* TaskDag::validate.                                                      *)
validate_dag(nodes) ==
  /\ nodes # <<>>
  /\ Cardinality(Ids(nodes)) = Len(nodes)
  /\ validate_nodes(nodes)
  /\ Len(sort(nodes)) = Len(nodes)

(* ArchitecturePlan::validate.                                             *)
validate(p) ==
  /\ p.requirements # <<>> /\ p.tasks # <<>> /\ p.bounded
  /\ IsInjective(p.requirements)
  /\ \A i \in DOMAIN p.tasks :
       LET cited == p.tasks[i].requirement_ids IN
       cited # <<>> /\ IsInjective(cited) /\ ToSet(cited) \subseteq ToSet(p.requirements)
  /\ validate_dag(p.tasks)
  /\ ToSet(p.requirements) = UNION {ToSet(p.tasks[i].requirement_ids) : i \in DOMAIN p.tasks}

-----------------------------------------------------------------------------
(* Tasks.                                                                  *)

TaskStates == {"pending", "ready", "leased", "running", "verifying", "completed",
               "failed", "blocked", "cancelled"}
is_terminal(state) == state \in {"completed", "failed", "cancelled"}
TaskCommands == {"dependencies_satisfied", "lease", "start", "submit_candidate",
                 "verification_passed", "verification_failed", "retryable_failure",
                 "block", "unblock", "cancel"}

Setbacks == {"verification_failed", "retryable_failure", "block", "cancel"}

(* Task::apply: the state a command leads to, itself when it is refused.   *)
(* A verification that passed without its mandatory gates is refused too.  *)
apply(state, command) ==
  CASE command = "dependencies_satisfied" /\ state = "pending"   -> "ready"
    [] command = "lease"                  /\ state = "ready"     -> "leased"
    [] command = "start"                  /\ state = "leased"    -> "running"
    [] command = "submit_candidate"       /\ state = "running"   -> "verifying"
    [] command = "verification_passed"    /\ state = "verifying" -> "completed"
    [] command = "verification_failed"    /\ state = "verifying" -> "failed"
    [] command = "retryable_failure"      /\ state = "verifying" -> "ready"
    [] command = "block" /\ ~is_terminal(state)                  -> "blocked"
    [] command = "unblock"                /\ state = "blocked"   -> "ready"
    [] command = "cancel" /\ ~is_terminal(state)                 -> "cancelled"
    [] OTHER -> state

completed == {t \in DOMAIN status : status[t] = "completed"}

ready_tasks(done) ==
  {t \in Ids(plan.tasks) \ done : Dependencies(plan.tasks, t) \subseteq done}

Init ==
  /\ plan = <<>> /\ accepted = FALSE
  /\ status = <<>> /\ attempts = <<>> /\ starts = <<>>
  /\ bypassed = {} /\ setbacks = 0

(* A plan is read; its tasks have no row, which counts as Task::new.       *)
Submit ==
  /\ plan = <<>>
  /\ \E p \in Submissions :
       /\ plan' = p /\ accepted' = validate(p)
       /\ status' = [t \in Ids(p.tasks) |-> "pending"]
       /\ attempts' = [t \in Ids(p.tasks) |-> 0] /\ starts' = attempts'
  /\ UNCHANGED <<bypassed, setbacks>>

(* apply_task_command: a key seen before gets the stored result, otherwise *)
(* task, events and result are written in one transaction.                 *)
apply_task_command(t, command, duplicate) ==
  /\ accepted /\ UNCHANGED <<plan, accepted>>
  /\ \/ duplicate /\ UNCHANGED <<status, attempts>>
     \/ /\ ~duplicate /\ apply(status[t], command) # status[t]
        /\ status' = [status EXCEPT ![t] = apply(@, command)]
        /\ attempts' = IF command = "start" THEN [attempts EXCEPT ![t] = @ + 1] ELSE attempts

(* A command of the scheduler or of the user, under a key of its own.      *)
Command(t, command) ==
  /\ apply_task_command(t, command, FALSE)
  /\ command = "dependencies_satisfied" => t \in ready_tasks(completed)
  /\ setbacks' = IF command \in Setbacks THEN setbacks + 1 ELSE setbacks
  /\ setbacks' <= MaxSetbacks
  /\ starts' = IF command = "start" THEN [starts EXCEPT ![t] = @ + 1] ELSE starts
  /\ bypassed' = IF command = "block" /\ status[t] = "pending" THEN bypassed \cup {t}
                 ELSE bypassed

(* A start is sent again under its key, perhaps when the task is leased    *)
(* for another attempt.                                                    *)
Resend(t) ==
  /\ starts[t] > 0
  /\ apply_task_command(t, "start", TRUE)
  /\ UNCHANGED <<starts, bypassed, setbacks>>

Next ==
  \/ Submit
  \/ \E t \in DOMAIN status : Resend(t) \/ \E command \in TaskCommands : Command(t, command)

Spec == Init /\ [][Next]_pvars

-----------------------------------------------------------------------------
(* Types.                                                                  *)
TypeOK ==
  /\ accepted \in BOOLEAN
  /\ \A t \in DOMAIN status : status[t] \in TaskStates /\ attempts[t] \in 0..(MaxSetbacks + 1)
  /\ bypassed \subseteq DOMAIN status

(* The graph a plan describes, without walking it: the sets of tasks that  *)
(* can be done at some moment are those that hold the dependencies of      *)
(* their members.                                                          *)
Moments(nodes) ==
  {done \in SUBSET Ids(nodes) : \A t \in done : Dependencies(nodes, t) \subseteq done}

Executable(nodes) ==
  \A done \in Moments(nodes) :
    done # Ids(nodes) => \E t \in Ids(nodes) \ done : Dependencies(nodes, t) \subseteq done

ReadyTogether(nodes, t, u) ==
  \E done \in Moments(nodes) :
    /\ {t, u} \cap done = {}
    /\ Dependencies(nodes, t) \cup Dependencies(nodes, u) \subseteq done

(* A submitted graph is accepted exactly when its tasks can all be done    *)
(* and no two places of the plan that write the same path can be worked on *)
(* together: cycles, transitive dependencies and scopes inside one another *)
(* are seen by depends_on and sort, and nothing else is refused.           *)
AcceptedIsSound ==
  plan # <<>> /\ (\A t \in DOMAIN status : status[t] = "pending") =>
    LET nodes == plan.tasks
        known == Cardinality(Ids(nodes)) = Len(nodes)
                   /\ \A i \in DOMAIN nodes : /\ IsInjective(nodes[i].dependencies)
                                              /\ ToSet(nodes[i].dependencies) \subseteq Ids(nodes)
        safe  == \A o \in Occurrences(nodes) : is_safe_relative(nodes[o[1]].write_scopes[o[2]])
    IN nodes # <<>> /\ known /\ safe /\ (\A i \in DOMAIN nodes : nodes[i].write_scopes # <<>>) =>
         (validate_dag(nodes) <=>
            /\ Executable(nodes)
            /\ \A o, p \in Occurrences(nodes) :
                 o # p /\ overlaps(nodes[o[1]].write_scopes[o[2]], nodes[p[1]].write_scopes[p[2]])
                   => o[1] # p[1] /\ ~ReadyTogether(nodes, nodes[o[1]].id, nodes[p[1]].id))

Working == {t \in DOMAIN status : status[t] \in {"leased", "running", "verifying"}}

(* A task blocked before its dependencies were done, or relying on one.    *)
Bypasses(t) == \E b \in bypassed : t = b \/ depends_on(plan.tasks, t, b)

(* Whatever fails, is retried, blocked or cancelled, two tasks worked on   *)
(* at the same time never write the same path.  Only a task blocked before *)
(* its dependencies were done escapes, with those that rely on it, since   *)
(* unblock makes it ready without looking at them.                         *)
WritersDisjoint ==
  \A t, u \in Working : t # u /\ ~Bypasses(t) /\ ~Bypasses(u) =>
    \A a \in ToSet(Node(plan.tasks, t).write_scopes), b \in ToSet(Node(plan.tasks, u).write_scopes) :
      ~IsPrefix(a, b) /\ ~IsPrefix(b, a)

(* An attempt is counted once, however often its start is sent.            *)
AttemptsCounted == attempts = starts
=============================================================================
