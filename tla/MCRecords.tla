----------------------------- MODULE MCRecords ------------------------------
(***************************************************************************)
(* Goals, the code index, the ledger, plans with their tasks and leases    *)
(* side by side.  They share the daemon's database and nothing else, so    *)
(* each behaviour is one of a single part, chosen at the start, and the    *)
(* others stand still.                                                     *)
(***************************************************************************)
EXTENDS Goals, TLC

CONSTANTS
  Paths, Lower(_), MaxWrites, NoState,
  Events, Interval, MaxEntries, MaxAlterations, MaxKeys, PageSize, NoKey, NoHash,
  Submissions, MaxSetbacks,
  Workers, Duration, MaxClock, MaxLeases, NoLease

VARIABLES
  part,
  tree, base, head, root, rows, graph, indexState, step, before, listed, read,
  writes, restored, slipped, unsaved,
  entries, checkpoints, keyfile, key, signing, anchored, alterations, keys, reader,
  plan, accepted, status, attempts, starts, bypassed, setbacks,
  clock, at, row, held, granted, open

indexVars ==
  <<tree, base, head, root, rows, graph, indexState, step, before, listed, read,
    writes, restored, slipped, unsaved>>
ledgerVars ==
  <<entries, checkpoints, keyfile, key, signing, anchored, alterations, keys, reader>>
planVars  == <<plan, accepted, status, attempts, starts, bypassed, setbacks>>
leaseVars == <<clock, at, row, held, granted, open>>

I == INSTANCE Index
L == INSTANCE Ledger
P == INSTANCE Plan
S == INSTANCE Leases

(* One goal, two workflows and two milestones; the values of each of these *)
(* sets are interchangeable.                                               *)
Interchangeable ==
  Permutations(Workflows) \cup Permutations(Milestones) \cup Permutations(Contents)

(* A file in a directory, one that is below it but for the case of a       *)
(* letter, and one in a directory named root.                              *)
MCPaths == {<<"a", "x">>, <<"A", "b", "y">>, <<"root", "w">>}
MCLower(name) == IF name = "A" THEN "a" ELSE name

(* Three tasks with dependencies in every shape, chains, forks and cycles  *)
(* (up to the names of the tasks), over a directory, a file in it and      *)
(* another file; and plans of up to two entries for the other checks.      *)
Task(id, dependencies, requirement_ids, write_scopes) ==
  [id |-> id, dependencies |-> dependencies, requirement_ids |-> requirement_ids,
   write_scopes |-> write_scopes]
Architecture(requirements, tasks, bounded) ==
  [requirements |-> requirements, tasks |-> tasks, bounded |-> bounded]

MCSubmissions ==
  LET scopes == {<<"a">>, <<"a", "b">>, <<"c">>}
  IN {Architecture(<<"r">>, [i \in 1..3 |-> Task(i, <<d1, d2, d3>>[i], <<"r">>, <<s[i]>>)], TRUE) :
        d1 \in {<<>>, <<3>>}, d2 \in {<<>>, <<1>>, <<3>>, <<1, 3>>},
        d3 \in {<<>>, <<1>>, <<2>>, <<3>>, <<1, 2>>}, s \in [1..3 -> scopes]}
     \cup
     {Architecture(rs, [i \in 1..n |-> Task(1, d, cited, s)], bounded) :
        rs \in {<<>>, <<"r">>, <<"r", "q">>, <<"r", "r">>}, n \in 0..2,
        d \in {<<>>, <<2>>, <<1, 1>>}, cited \in {<<>>, <<"r">>, <<"q">>, <<"r", "r">>},
        s \in {<<>>, <<<<"..">>>>, <<<<"a">>, <<"a", "b">>>>, <<<<"a">>, <<"c">>>>},
        bounded \in BOOLEAN}

RecordsInit ==
  /\ part \in {"goals", "index", "ledger", "plan", "leases"}
  /\ Init /\ I!Init /\ L!Init /\ P!Init /\ S!Init

RecordsNext ==
  /\ part' = part
  /\ \/ part = "goals"  /\ Next   /\ UNCHANGED <<indexVars, ledgerVars, planVars, leaseVars>>
     \/ part = "index"  /\ I!Next /\ UNCHANGED <<vars, ledgerVars, planVars, leaseVars>>
     \/ part = "ledger" /\ L!Next /\ UNCHANGED <<vars, indexVars, planVars, leaseVars>>
     \/ part = "plan"   /\ P!Next /\ UNCHANGED <<vars, indexVars, ledgerVars, leaseVars>>
     \/ part = "leases" /\ S!Next /\ UNCHANGED <<vars, indexVars, ledgerVars, planVars>>

RecordsSpec ==
  RecordsInit /\ [][RecordsNext]_<<part, vars, indexVars, ledgerVars, planVars, leaseVars>>

-----------------------------------------------------------------------------
(* Types of the five parts.                                                *)
RecordsTypeOK == TypeOK /\ I!TypeOK /\ L!TypeOK /\ P!TypeOK /\ S!TypeOK

(* The code index is what it claims to be: the rows of the manifest vouch  *)
(* for what was parsed, and an index that is reused is right about the     *)
(* files git calls clean, but for the windows its fingerprint leaves open. *)
IndexTellsTruth == I!IndexTellsTruth

(* The ledger is what it claims to be: the daemon's own ledger always      *)
(* verifies, one that is served holds what was recorded up to every        *)
(* checkpoint it still has, and paging through it leaves nothing out.      *)
LedgerTellsTruth == L!VerificationIsSound /\ L!PagesComplete

(* A plan is what it claims to be: it is accepted exactly when it can be   *)
(* carried out without two writers of one path, it is then carried out so, *)
(* and every attempt at a task is counted once.                            *)
PlanTellsTruth == P!AcceptedIsSound /\ P!WritersDisjoint /\ P!AttemptsCounted

(* A lease is what it claims to be: one holder at a time, and work that    *)
(* may not be repeated is not given to a second one.                       *)
LeaseIsExclusive == S!LeaseIsExclusive
=============================================================================
