# Verification of the Cycle control plane

Cycle is an evidence-gated delivery control plane for Google Antigravity: a local Node process that
owns workflow state, freezes candidates, runs gates, records reviews and an arbitration, and commits
the approved bytes. Agents do the work and report to it over MCP; everything they report is a claim,
everything the plane stores is the record. The repository holds the plane twice: the shipped
TypeScript process under `src/`, and `workflowd`, a Rust daemon under `crates/` with the same task, a
larger design and most of the code. (The repository's README calls the crates non-shipping research;
they are nevertheless where its concurrency, its recovery and its ledger are worked out.) This
directory models the parts of both that decide what may be delivered and what is kept on record,
checks them with TLC and proves the central facts with TLAPS. `PROJECT.json` maps every definition to
the lines it models.

## The TypeScript plane

| part | state | operations | talks to |
|---|---|---|---|
| workflow machine (`workflow/machine.ts`) | none: a pure function of one record | 17 commands of `apply` | called by the service |
| workflow service (`workflow/service.ts`, `server.ts`, `mcp.ts`) | rows of workflows, candidates, evidence, reviews, arbitrations, capabilities | start, submit_plan, report_task, freeze, verify, submit_review, submit_browser_evidence, run_proof, arbitrate, deliver, reconcile, control | machine, evidence engine, delivery, goals, memory, history |
| evidence engine (`evidence/engine.ts`) | evidence rows of a candidate | run the gates, derive the outcome from the table | git, subprocesses |
| delivery (`evidence/delivery.ts`) | the deliveries journal, working tree, HEAD | promote, recoverDelivery | git, file system |
| execution (`plan.ts`, `scopes.ts`, `reportTask`) | plan and tasks | accept a plan, report a task, reconcile written paths with scopes | git, machine |
| admission (`admission.ts`) | leases shared by every control plane of the machine | request, renew, release, expire | resources |
| goals (`goals.ts`) | goals, milestones, links to workflows | focus, plan, link, advance, extend, complete | service |
| history (`store/history.ts`, `store/checkpoints.ts`) | hash chain, signed checkpoints | append, verify, sign | every handler |
| memory (`memory.ts`) | memories of deliveries and blocks | capture, recall, revoke, supersede | service |

Hard behaviours:

* **No queue.** `mcp.ts` starts a handler per input line. A handler without an `await` is atomic
  within its process; verify, run_proof, deliver and reconcile are not, and they keep what they
  loaded. Clients that lost an answer repeat the call.
* **Crashes.** Every write is a transaction of its own, so a process can die between the writes of
  one handler, between the journal and the workflow row, or between two renames.
* **The working tree is shared** with the developer, who may edit or commit at any await.
* **Budgets**: the repair budget must be exact.

What makes each part correct: the machine never loses or swaps a candidate and spends its budget
exactly; the service delivers only what was judged; delivery lands the approved bytes, says so only
if it did, and finishes what a crash interrupted.

## The daemon

| part | state | operations | talks to |
|---|---|---|---|
| workflow aggregate (`workflow-core/workflow.rs`, `routing.rs`) | none: a pure function of one record | the commands of `apply`, the choice of a route | called by the store |
| request handlers (`workflowd/lifecycle.rs`, `repair.rs`, `control.rs`) over `workflow-store` | workflows, deduplication keys, plans, candidates, evidence, reviews, arbitrations | start, accept architecture, plan verification, freeze, verify, review, arbitrate, promote, control | ledger, verification, promotion |
| promotion (`workflowd/candidate.rs`) | the journal in the git directory, staged files and backups, the working tree | recover, stage, move aside, install, commit, clean up, roll back | the reservation in the store |
| admission (`workflowd/admission.rs`, `resources/`) | active and waiting workflows, queue per project, rotation | acquire, release, reap, repair the queues | handlers |
| goals (`workflow-core/goal.rs`, `workflow-store/goals.rs`, `workflowd/goal.rs`) | goals, focus, plans, links to workflows | create, focus, plan, link, control, amend, complete | ledger |
| plans and tasks (`architecture.rs`, `dag.rs`, `task.rs`, `workflow-store/tasks.rs`) | a row per task | validate a plan, name the ready tasks, apply a command | external scheduler |
| leases (`lease.rs`, `workflow-store/leases.rs`) | a row per task | acquire, heartbeat, release | external sessions |
| code index (`code_intelligence.rs`, `workflow-code-intel`) | manifest rows, graph rows, a fingerprint | reuse or index | git, the working tree |
| ledger (`workflow-ledger`, `audit.rs`, `history.rs`) | hash chain, signed checkpoints, key file | append, sign, verify at start, page | every handler |

Hard behaviours:

* **The mutex is dropped.** A handler holds the store while it runs a series of transactions; freeze
  and verify let go of it for their long work and do not look at the workflow's candidate again.
  Admission reads a workflow's state under one mutex and acts under another.
* **Crashes** fall between any two transactions and any two file operations, again during recovery.
* **Retries** carry a key; a command under a known key is answered from the stored result.
* **The user** edits files while they are frozen, promoted or indexed, and moves HEAD.
* **Time**: leases expire while their holder is still working, and late calls arrive afterwards.

All hazards are listed in `PROJECT.json`, each with the properties that would notice.

## Modules

| module | models | notes |
|---|---|---|
| `Machine` | `machine.ts` | constants-level: one relation `C(w, v)` per command, "apply accepts C in w and returns v". No variables, so that a command can be applied to a record loaded earlier. |
| `Workflow` | the life of one record | the abstract specification: any accepted command, in any order. |
| `Service` | the tools and the tables | one action per atomic stretch of a handler; `call` holds what an awaiting handler loaded; `HalfWritten` is what a crash inside a handler leaves. |
| `Delivery` | `delivery.ts` and the two tools that run it | one action per stretch between awaits, one step per file; edits, foreign commits, failing calls and crashes are the environment. |
| `Core` | `workflow.rs`, `routing.rs` | the daemon's aggregate as operators on one record: which command is allowed, what it makes of the record. |
| `Daemon` | the handlers of one workflow over the store | extends `Core`. `pending` is the rest of a handler's transactions, `flights` the long operations outside the mutex; a crash loses both. |
| `Promotion` | `PromoteCandidate` and `candidate.rs` | a look at a path and the rename or unlink that relies on it are two steps (`Move`/`Rename`, `Moved`/`PutBack`, `Undo`/`Unlink`), with `cursor` the path in between; a hard link checks and acts at once. `IOError` at the marker may leave it created. Promotion is composed with the reservation in the store and the user of the tree. |
| `Admission` | `admission.rs`, `resources/policy.rs`, the admission handlers | time is what is left of each lease; `checked` chooses a build with or without debug assertions. |
| `Goals` | the three goal files | handler as a series of transactions; `lost` is an operation whose reply did not arrive. |
| `Index` | `index_and_context`, `index_project`, the graph store | parsing is abstracted to the content of a file; inventory, reads, batch and fingerprint are separate steps; `Lower` is the case folding of SQLite's `LIKE`. |
| `Ledger` | chain, checkpoints, key file, history pages | a digest is the value it was computed from; entries, checkpoints and key file may be altered while the daemon is down, but a signature needs its key. |
| `Plan` | plan validation, task graph, task aggregate and table | the graph algorithms are recursive functions; the scheduler is external. |
| `Leases` | the lease table | calls run on a time read earlier; sessions are external. |
| `Lists` | `retain` and `filter` of the Rust collections | `Keep(s, S)`, a recursive function; used by `Admission` and `Ledger`. |
| `WorkflowProofs`, `ServiceProofs`, `DeliveryProofs`, `DaemonProofs`, `PromotionProofs`, `AdmissionProofs` | | inductive invariants, theorems and proofs, each about the module it is named after. |
| `RecordsProofs` | | the same for `Goals`, `Index`, `Leases`, `Plan` and `Ledger`, over `MCRecords`, which puts them side by side. |
| `ListsProofs` | | induction principles, and what `Keep` returns. |
| `MC*` | | instances for TLC. `MCRecords` puts five independent parts side by side. |

`Service` instantiates `Workflow` with its stored row: `FollowsMachine` says that every change of the
row, whatever handler, crash or stale record caused it, is a command of the machine, with the one
exception named `LateDelivery`.

Abstractions. In the TypeScript models a candidate is a model value; its content appears only in
`Delivery`, as three classes of bytes per path. Mandatory evidence is kept in three rows per
candidate: `scan` for all that verify runs, `flow` for a capture by a reviewer, `proof` for a
demonstrated vulnerability. What a gate, a reviewer or the arbiter decides is a free choice. History
rows, memories and the goal link are not part of `Service`; of report_task it has the transition and
not the task table.

In the daemon models identifiers are small numbers or model values; a digest stands for what it was
computed from; a SQLite transaction is one step. `Daemon` keeps two gates: the suite, which stands
for the commands, the secret scan and what needs a browser or a service and may be skipped, and the
comparison of the worktree with what was frozen. `Daemon` and `Promotion` share the reservation:
`Daemon` has it as one row and ends a promotion either way, `Promotion` has its protocol. File modes,
directories that become files and journals of an earlier release (`recover_legacy_delivery`) are
left out of `Promotion`. `Leases` has one duration where the code takes one per call; tasks and leases
are so far called from tests only, so their callers are free. `Index` leaves out the ignore policy,
the size limit and the context assembled from an index.
`Plan` folds texts and their bounds into one field, and scopes are sequences of segments.

The definitions whose names end in `_something` and whose comment begins "Mutant" are deliberate
faults. No specification uses them; each is substituted for the definition it precedes to confirm
that a property notices.

## Runs

| run | instance | shows |
|---|---|---|
| `workflow` | 2 candidates, budgets 1 and 2, extended up to 4 | the record stays coherent, no candidate is swapped, terminal is final, the repair loop ends |
| `service` | 2 candidates, 1 call, 1 crash | a repair replaces the candidate while a call on the old one is in flight; nothing unjudged is delivered, captures are independent, approval needs green gates, the row follows `Workflow` |
| `service_calls` | 1 candidate, 2 calls, 2 crashes | verify, proof and promotion race and die half-way; nothing unjudged is delivered and verification ends |
| `delivery` | 3 files (kept, too large to keep, deleted), 2 delivers, 1 reconcile, 2 faults | approved bytes land, claims are true, an interrupted delivery closes |
| `promotion` | a modified, an added and a deleted path, 2 interventions of the user, 2 crashes, 1 failing call | a journal is always reserved, the tree is all base or all candidate once nothing is left to recover, no text of the user is lost that was there at the last look, the outcome matches the tree, a reservation ends unless a stale marker is left (2.2 million states) |
| `daemon` | 2 candidates, 2 plans, 2 designs, 2 repair cycles, 2 disturbances | what is delivered was verified and judged, a rejected candidate never returns and costs one cycle, the audit chain agrees with the store |
| `records` | goals: 1 goal, 2 workflows, 2 milestones, 1 crash; index: 3 paths, one in the top-level directory `root` and two in directories that differ in case and depth, 3 interventions; ledger: 5 entries, 2 alterations, 2 keys; plan: 3 tasks over 3 scopes in every shape of dependencies, 1 setback; leases: 2 sessions, 3 leases | each part keeps its records true (1.7 million states) |
| `admission` | 3 workflows of 2 projects, 1 slot, leases of 2 ticks, 1 mishap | the queues agree, a stopped workflow loses its slot, nobody starves |
| `service_cancel` | violated | a cancelled workflow becomes completed |
| `service_scan` | violated | a candidate reaches review unscanned |
| `service_start` | violated | a start cut short is never routed |
| `delivery_recorded` | violated | a delivery that completed is never recorded |

The bounds are the smallest in which each hazard occurs: two candidates for a replaced one, two
calls for a race, one crash to cut a handler and two to cut its repetition, two faults for an edit
after a crash. A budget of one that a retry raises to two contains a block, an extension, a repair
and a second block. `service` uses the symmetry of candidates and of reviewers, which no property
tells apart; runs with liveness use none. Deadlock is not checked: a delivered or cancelled workflow
has nothing left to do. `admission` does check it: a tick is always possible.

In the daemon's runs: three paths, one of each kind, because promotion treats the kinds differently
and never two paths of one kind together; two crashes so that recovery itself is interrupted; two
interventions so that an edit meets a rollback of an earlier one. Two candidates for a late run of
the first to meet the second; two disturbances (a crash, a pause, a report or a second flight) for
two of them to coincide. The parts of `records` share nothing but the database, so a behaviour is one
of a single part: `part` chooses it, and the state spaces add up instead of multiplying. Checkpoints
are two entries apart (a hundred in the code) so that a chain of five has entries before, between and
after them. Three tasks are what a transitive dependency takes, and one setback is enough for a retry
under an old key, for a block before the dependencies are done and for a cancelled dependency.
Three workflows and one slot give a queue of two in one project and a rotation between two.
`daemon` uses the symmetry of its plans, `records` that of workflows, milestones and plan documents.

### What the passing runs of the daemon leave open

The properties hold as stated; their statements name what the code does not promise.

* `daemon`: `verify_candidate` does not compare candidates after its gates ran, so a late run of a
  rejected candidate can move its successor past verification (as in the TypeScript plane). The hole
  ends before delivery, because a verdict must cite evidence of the candidate it judges. After a
  crash evidence may be incomplete, and it is cited all the same.
* `daemon`: some crashes leave a workflow without a way forward but to cancel it. An arbitration that
  was saved and not applied is answered from its row when it is repeated, and applies nothing; a
  rejection whose repair did not begin, and a command whose key is stored under an earlier state,
  are swallowed in the same way.
* `promotion`: `OutcomeMatchesTree` excludes a failing call for cancelled workflows: a retry that
  fails before it looks at the tree releases the reservation of a delivery that was complete.
* `promotion`: `UserBytesKept` excludes what the user writes to the path in hand after the last look
  (`raced`). A rollback digests a file, or links it to its concurrent name, and then unlinks the path
  by name, and the rename that puts a changed file back replaces what is there: a text saved in
  between exists nowhere afterwards. Without the exception TLC finds such a behaviour.
* `promotion`: `ReservationEnds` excludes a marker over a tree that is not the candidate's
  (`StaleMarker`). `write_committed_marker` may fail in a sync after it created the file; the rollback
  that follows takes the candidate's files out and removes the marker last. Cut short by a crash, it
  leaves a marker that every recovery refuses, because the tree does not verify, and a workflow that
  stays reserved. One failing call and one crash suffice.
* `records`: a goal resumed at its limit can be continued once more and can then never be read again.
  `OperationsApplyOnce` admits that and bounds it. A workflow may be linked to a goal that has ended;
  `CompletedIsSettled` is about those linked before (`late`). The index may be wrong about files git
  does not call clean, about files restored while they were read, after an indexing without a
  fingerprint, and after one that was committed without saving its own; below a directory that holds
  sources, or in one whose name differs from another's in case only, rows are lost with those of the
  other, and a deletion is then not noticed. Of the ledger, `verify_store` looks at the checkpoints
  it finds: what follows the last of them can be rewritten or cut off unseen, and one that was
  removed vouches for nothing. A lost key file stops the daemon from starting while checkpoints of
  the old key are stored. A task blocked before its dependencies are done is ready as soon as it is
  unblocked.
* `admission`: a release build leaves the admitted workflow at the head of its project's queue,
  because it is popped inside `debug_assert_eq!`; `repair_queue_invariants` removes it on the next
  request, which is why nobody starves.

### What the violated runs show

1. `service_cancel`. `deliverCandidate` loads the record, awaits `promote` and transitions the
   loaded record; `saveWorkflow` does not compare. A cancellation accepted meanwhile is overwritten.
2. `service_scan`. `verifyCandidate` reloads the workflow and applies the outcome to whatever
   candidate is in verification. A verify that outlives its candidate (a slow gate, a repair and a
   freeze) moves the new candidate, which has no evidence yet. `ApprovedOnGreenGates` still holds:
   such a candidate cannot be approved, it only loses a repair cycle.
3. `service_start`. Insert, complete_intake and route are three writes. After a crash a repeated
   start rejoins the stored workflow without routing it, and no other tool routes; cancelling is the
   only way out.
4. `delivery_recorded`. After a crash between the journal's `completed` and the workflow's, reconcile
   finds no open row and deliver aborts because HEAD moved.

### Fairness

`Workflow`: the run loop keeps issuing the next command and resumes what is paused; nobody is
obliged to pause, cancel, replan or retry. `Service`: the event loop drives a call in flight (gates
and proofs have timeouts), a start runs to its end unless the process dies, and the run skill
verifies a candidate that is in verification. `Delivery`: a running call is driven, and the user asks
again for a delivery that did not finish. `Promotion`: the blocking task of a promotion runs to its
end, and a reserved delivery is asked for again. `Admission`: requests are answered, time passes,
sessions that are alive keep asking (weak fairness) and do not work for ever (strong fairness, since
a workflow may be paused while it works). Crashes, edits and other faults are bounded and never fair.

## Proofs

Eight modules hold lemmas and theorems, for every value of the constants that satisfies the
assumptions named below. Each `Invariance` theorem states `Spec => []IInv`; the others follow from it.
Every inductive invariant was also checked with TLC: those of `Service`, `Promotion`, `Admission`,
`Goals`, `Index`, `Leases`, `Plan` and `Ledger` exhaustively on the instances of the runs (with the
chain of `Recorded` built from the anchored events), and that of `Daemon` exhaustively with one
disturbance.

**`WorkflowProofs`**: the machine's type invariant, `CandidateMatchesState`, `BudgetIsExact`,
`WayBackKnown`, `RouteRespected`, and the action properties `CandidateNeverSwapped` and
`TerminalIsFinal` (the latter is stated by a theorem alone). The inductive invariant is the
conjunction of the five state invariants; none is inductive alone, because resuming needs what held
when the workflow was paused, and a repair needs its target and a cycle left. Assumptions: `Null` is
no candidate; budgets and extensions are at least one.

**`ServiceProofs`**: the type invariant, `NothingDeliveredUnjudged`, the action properties
`CaptureIsIndependent` and `ApprovedOnGreenGates`, and the refinement `FollowsMachine`: every step of
a tool, call, crash or half-written handler maps to a command of `Workflow`, to a late delivery, or
to a stutter. `IInv` adds to the type invariant

* `CandidateFrozen`: the row names only recorded candidates, so what the arbiter reads is about the
  candidate the row names;
* `RowJudged`: a row that is in delivery, or completed, was judged;
* `PromotionInv`: the record an awaiting promotion has loaded is judged, and the row under it can
  only have been completed or cancelled meanwhile. Without it the late write of a promotion, which
  compares nothing, could store anything;
* `PauseKnown`, so that resuming never re-enters delivery, and `EvidenceInv`: a `proof` row is a
  demonstrated vulnerability and therefore never evidence to approve on.

The argument: nothing but `arbitrate` opens delivery, it reads the tables in its own atomic stretch,
and from then on no handler writes a table of that candidate.

**`DeliveryProofs`**: for any manifest, any number of calls and faults, promotion's type invariant,
`CommitsApprovedBytes` and `CompletedMeansLanded`. The inductive invariant adds to
`CompletedMeansLanded` what a call has established at its step: the verification loop has seen the
approved bytes on every path before its index, a call about to commit has seen them on all, and one
past its commit has landed. A concurrent call preserves this because every write of every call writes
the approved bytes; only an edit breaks it, and `raced` remembers that it did.

**`DaemonProofs`**: the type invariant (which bounds the cycles by the width of a `u8`),
`OnlyVerifiedDelivered`, `DeliveryIsJudged`, `RejectedNeverReturns`, `CyclesCountRejections` and
`LedgerAgrees`, for any candidates, plans, designs, flights and crashes. Assumptions: candidates and
designs are positive numbers, 0 is no plan, and the maximum of cycles lies in 1..255, as the `u8`
and the constructor's check make it. A handler is a series of transactions under one mutex: a
crash may end it between any two of them, a refused command ends it early, and a freeze or a run of
the gates drops the mutex in its middle, so `IInv` has three kinds of parts:

* on the rows, `CoreInv` and `EvidenceInv`: the aggregate is sane (it runs only with a cycle left; a
  pause or a block knows where it came from), the current and the rejected candidates were put
  forward under a key that is spent (`KeyInv`: this is why a rejected one cannot return and a
  rejection cannot count twice), the aggregate stands still while reserved, flights are of known
  candidates, and evidence belongs to one candidate per plan, the suite before the integrity check;
* on the chain, `LedgerInv`: what is missing from it is among the pending transactions, unless a
  crash lost them. A refused command ends its handler, so the proof shows at every refusal that no
  audit behind it is lost (`NoLoss`): `freeze` proposes before it audits, and the proposal is
  accepted because `Proposing` still knows that the state admits it;
* on the handler, `HandlerInv`: one disjunct for each point a handler may stand at, with what it may
  rely on there, since its checks were made several transactions before. `Arbitrating` carries the
  heart of `OnlyVerifiedDelivered` and `DeliveryIsJudged`: between the checks of `submit_arbitration`
  and the command that applies the verdict the state, the reviews and the evidence are those it
  checked.

`ApplyFacts` says once, command by command, what the aggregate does, and is what every step cites.

**`PromotionProofs`**: for any manifest, any number of edits, crashes and failing calls,
`JournalIsReserved`, `AllOrNothing`, `UserBytesKept`, `OutcomeMatchesTree` and the type invariant.
`IInv` says which of reservation, journal and marker exist at each step (`ControlInv`), what they say
about the tree (`DiskInv`: under a journal each untouched path is in place, moved aside or installed;
with the marker all are the candidate's), what the step has established (`StepInv`, `Snapshots`), that
a backup is thrown away only when it is the snapshot the journal recorded (`BackupInv`, the reason no
user text is lost), and what the workflow's state says about the tree (`DeliveredInv`,
`ReleasedInv`). `CursorInv` says what still holds between a look and the step that relies on it: the
backup to be put back is there, and what is about to be unlinked is the base's, the candidate's, kept
under its concurrent name, or written since, and then it is `raced`.

**`ListsProofs`** has the lemmas that replace induction over data. An induction theorem with an
operator as its parameter cannot be instantiated here, so `NatInduct` and `SeqInduct` take a *set*:
a set of numbers (of sequences) that holds 0 (the empty sequence) and is closed under the successor
(under `Append`) holds all. What is to be proved of every `n` is stated as membership of
`{n \in Nat : ...}`. A recursive function `f[i \in 0..n]` of the models is a `CHOOSE`, so nothing
follows from its definition until some function is shown to satisfy the equation: `Iterates` and
`StagesExist` build one, number by number. From these
follow the facts about `Keep` the other proofs cite: its elements, that it is injective where its
argument is, its first element, its length, and how it meets `Append`, `Front` and `\o`.

**`AdmissionProofs`**: `TypeOK` (no more slots taken than there are) and `QueuesAgree`, for any
workflows and projects, any limit, any lease, and both builds. `IInv` is `Agree(adm)`, stated for any
value of the admission and not only for the variable, because `reap`, `remove`, `enqueue`,
`dequeue_front` and `repair_queue_invariants` are applied to one another's results within one
request; there is one lemma for each (`RemoveAgrees`, `RepairAgrees`, `EnqueueAgrees`, ...). Its
parts: `Maps` (types), `Queues` (each queue is not empty, has each workflow once and only those of
its project; who waits is in its queue; the rotation has every project with a queue once), `Ghosts`
(only a build without debug assertions leaves an admitted workflow in a queue, one in all and at the
front) and `Slots`. The key step is that `repair_queue_invariants`, which every request runs before
it looks at the queues, leaves no ghost (`NoGhosts`): so the next admission never adds a second one.

**`RecordsProofs`** is about the five record keepers of `MCRecords`. The lemma
`RecordsImplementParts` says that a behaviour of the composition is a behaviour of each part, since a
step of one leaves the variables of the others alone; each invariant of the run is then proved of its
part and carried over. The hypotheses are `IndexConstants` (a path is a sequence of names and not
empty; `NoState` is no pair), `LeaseConstants` (durations and bounds are natural numbers; no lease is
not a lease), `PlanConstants` (a submission is a sequence of tasks named by numbers),
`LedgerConstants` (interval and page size are positive; the hash before the first entry is not a
hash), together `RecordsConstants`.

* *Goals*: `OperationsApplyOnce` and `CompletedIsSettled`. The invariant adds that a goal that was not
  created yet was sent nothing (or its first amendment could be counted from an earlier life), what
  the handler in progress still has to commit, and that late workflows are those of goals that had
  ended (or an approval could rely on one).
* *Index*: `RowsMatchGraph` and `ReusedIsFresh`, for every tree of sources. The invariant says that
  rows and inventory are earlier states of the files, told apart by their stamps (`StampInv`), that a
  row vouches for the graph unless it lies in a directory named `root` and outlived its file
  (`GraphInv`), that a committed batch is right about its inventory (`BatchInv`), that a clean file
  that was not restored meanwhile is still the one of the inventory as long as HEAD is that of the
  first fingerprint (`WindowInv`), and that the index is right about what was clean when the
  fingerprint was saved, as long as root and HEAD are the saved ones (`SavedInv`). HEAD and root only
  grow, so a fingerprint that matches again has the same base under it.
* *Leases*: `LeaseIsExclusive`. The invariant says of each session that while the row of its lease
  exists it believes no more than the row says, and that the row was renewed no later than the
  session read the clock, so a heartbeat on a stale time never shortens the lease.
* *Plan*: `AcceptedIsSound`, `WritersDisjoint`, `AttemptsCounted`. `AcceptedIsSound` compares an
  algorithm with a definition: `depends_on` and `sort` iterate over the graph, `Executable` and
  `ReadyTogether` quantify over the sets of tasks that may be done at some moment. The link is
  `Reach(nodes, t)`, the least set with `t` that holds the dependencies of its members; `depends_on`
  is shown to compute it (there are more rounds than tasks to add, so some round adds nothing) and
  `sort` to get stuck exactly on a set of tasks that wait for one another.
  `WritersDisjoint` then needs the invariant `OrderInv`: a task that has been ready had its
  dependencies completed, unless it was blocked before; so of two ordered writers the later one runs
  only after the earlier is completed, and completed is final.
* *Ledger*: `VerificationIsSound` and `PagesComplete`. A head determines its chain: two chains that
  verify and end in the same hash hold the same events, by induction along the previous hashes.
  `CheckpointsInv` says of each checkpoint a daemon ever signed that its head is that of a verified
  chain with the events anchored for it (`Recorded`), and of each one stored that it is among those
  or does not have a daemon's key; a start that verifies therefore proves of every checkpoint it
  finds that the stored prefix is that chain, whatever was done to the tables while the daemon was
  down. `SigningInv` says that the entry being considered for a checkpoint is the last, also across a
  crash in between. `ReaderInv` says that a reader has seen exactly the entries of its project among
  the first `Paged` ones; entries are only appended under a reader, and a page that is not full is
  the rest.

Every property that a passing run checks as an invariant, and the action properties
`CandidateNeverSwapped`, `CaptureIsIndependent`, `ApprovedOnGreenGates` and `FollowsMachine`, are
stated by a theorem.

Only model-checked, because liveness under fairness is outside what TLAPS proves here:
`RepairLoopEnds`, `VerificationEnds`, `InterruptedDeliveryCloses`, `ReservationEnds`,
`StoppedFreesSlot` and `NoStarvation`. The properties of the violated runs are refuted, so there is
nothing to prove.

## Plan

1. done: `Machine`, `Workflow`, `Delivery`, their proofs; `Service` and its runs.
2. done: the daemon: `Core`, `Daemon`, `Promotion`, `Admission`, `Goals`, `Index`, `Ledger`, `Plan`,
   `Leases` and their runs.
3. done: proofs of `Service`, `Promotion`, `Goals`, `Leases`, `Index` and `Daemon`.
4. done: proofs of `Admission`, `Plan` and `Ledger`, and of the composition of the record keepers.

Beyond it: the goals, leases and task table of the TypeScript plane, for which five of the hazards in
`PROJECT.json` are listed without a property.

## Not modelled

TypeScript: the task table and scope gate, the lease table, goals, history and memory, whose
counterparts in the daemon are modelled; request classification, verdict and snapshot parsing, gate
discovery, detectors, code intelligence, schema, diagnostics. Daemon: memory (the daemon searches and
revokes single rows), the task queue in memory that only tests use, worktrees and intake (git
subprocesses), transport, secrets and authentication, parsers and queries. They keep no protocol
state, or are text and subprocess I/O whose result the models take as a choice.
