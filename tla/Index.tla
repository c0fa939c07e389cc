------------------------------- MODULE Index --------------------------------
(***************************************************************************)
(* The code index of one project: index_and_context of the daemon          *)
(* (code_intelligence.rs), index_project (workflow-code-intel, index.rs)   *)
(* and the tables of the graph store (graph/store.rs).                     *)
(*                                                                         *)
(* index_gate lets one indexing run at a time; the user keeps writing      *)
(* between any two of its steps, and the process may die there.  Parsing   *)
(* is abstracted to the content of a file, the tables of nodes and edges   *)
(* to the content each path was parsed from.  Every write gives a file new *)
(* metadata; the ignore policy and the size limit are left out.            *)
(***************************************************************************)
EXTENDS Integers, Sequences

CONSTANTS
  Paths,       \* sources, as the sequence of directories and the file name
  Lower(_),    \* a name in ASCII lower case
  MaxWrites,   \* interventions of the user
  NoState      \* no fingerprint, no row, nothing indexed

VARIABLES
  tree,        \* the checkout: <<content, stamp>> of each path
  base,        \* content of each path at HEAD
  head,        \* HEAD, counting commits
  root,        \* directory of the checkout
  rows,        \* code_manifest and code_paths_fts
  graph,       \* code_nodes: content each path was indexed with
  indexState,  \* code_index_state: <<repository_path, fingerprint>>
  step, before, listed, read,  \* the indexing in progress
  writes,
  restored,    \* paths brought back to HEAD while indexing, since it began
  slipped,     \* those of the indexing whose fingerprint was saved
  unsaved      \* an indexing was committed, its fingerprint was not saved

user   == <<tree, base, head, root, writes>>
tables == <<rows, graph, indexState>>
marks  == <<restored, slipped, unsaved>>
local  == <<step, before, listed, read>>
ivars  == <<user, tables, marks, local>>

Absent == 0
Unread == -1

Content(p) == tree[p][1]

scope_of(p) == IF Len(p) = 1 THEN <<"root">> ELSE SubSeq(p, 1, Len(p) - 1)

Init ==
  /\ tree = [p \in Paths |-> <<1, 0>>]
  /\ base = [p \in Paths |-> 1]
  /\ head = 0 /\ root = 0 /\ writes = 0
  /\ rows = [p \in Paths |-> NoState]
  /\ graph = [p \in Paths |-> Absent]
  /\ indexState = NoState
  /\ step = "idle" /\ before = NoState /\ listed = [p \in Paths |-> <<Absent, 0>>]
  /\ read = [p \in Paths |-> Unread]
  /\ restored = {} /\ slipped = {} /\ unsaved = FALSE

-----------------------------------------------------------------------------
(* git_fingerprint: HEAD and the status line of every path, without the    *)
(* contents; nothing when git fails.                                       *)
Status(p) ==
  IF Content(p) = base[p] THEN "clean"
  ELSE IF base[p] = Absent THEN "untracked"
  ELSE IF Content(p) = Absent THEN "deleted"
  ELSE "modified"

Fingerprint == <<head, [p \in Paths |-> Status(p)]>>

git_fingerprint == {Fingerprint, NoState}

reset_project ==
  /\ rows' = [p \in Paths |-> NoState]
  /\ graph' = [p \in Paths |-> Absent]
  /\ indexState' = NoState

End ==
  /\ step' = "idle" /\ before' = NoState /\ listed' = [p \in Paths |-> <<Absent, 0>>]
  /\ read' = [p \in Paths |-> Unread]

(* CodeIndex: an index of another checkout is dropped first.               *)
CodeIndex ==
  /\ step = "idle"
  /\ step' = "begin"
  /\ restored' = {}
  /\ IF indexState # NoState /\ indexState[1] # root THEN reset_project ELSE UNCHANGED tables
  /\ UNCHANGED <<user, slipped, unsaved, before, listed, read>>

(* The stored index is reused when its fingerprint is the current one.     *)
Begin ==
  /\ step = "begin"
  /\ \E fingerprint \in git_fingerprint :
       IF fingerprint # NoState /\ indexState = <<root, fingerprint>>
       THEN End
       ELSE step' = "inventory" /\ before' = fingerprint /\ UNCHANGED <<listed, read>>
  /\ UNCHANGED <<user, tables, marks>>

inventory ==
  /\ step = "inventory"
  /\ listed' = tree
  /\ step' = "read"
  /\ UNCHANGED <<user, tables, marks, before, read>>

Listed == {p \in Paths : listed[p][1] # Absent}

(* Scopes with a new, changed or removed file.                             *)
affected ==
  {scope_of(p) : p \in {q \in Paths : \/ q \in Listed /\ rows[q] # listed[q]
                                      \/ q \notin Listed /\ rows[q] # NoState}}

Work == {p \in Listed : scope_of(p) \in affected}

(* index_scope on one file: its metadata around the read are the ones of   *)
(* the inventory, or the whole batch is rolled back.                       *)
index_scope(p) ==
  /\ step = "read"
  /\ p \in Work /\ read[p] = Unread
  /\ IF tree[p] # listed[p] THEN End
     ELSE read' = [read EXCEPT ![p] = Content(p)] /\ UNCHANGED <<step, before, listed>>
  /\ UNCHANGED <<user, tables, marks>>

(* The rows replace_manifest_scopes deletes for a scope: LIKE 'scope/%'    *)
(* takes those of nested directories too, and it ignores the case of ASCII *)
(* letters.                                                                *)
Deletes(scope, p) ==
  IF scope = <<"root">> THEN Len(p) = 1
  ELSE Len(p) > Len(scope) /\ \A i \in 1..Len(scope) : Lower(p[i]) = Lower(scope[i])

Deleted == {p \in Paths : \E scope \in affected : Deletes(scope, p)}

(* A row that is inserted must not exist any more.                         *)
conflict == \E p \in Work : p \notin Deleted /\ rows[p] # NoState

replace_manifest_scopes ==
  rows' = [p \in Paths |-> IF p \in Work THEN listed[p]
                           ELSE IF p \in Deleted THEN NoState ELSE rows[p]]

replace_partition ==
  graph' = [p \in Paths |-> IF p \in Work THEN read[p]
                            ELSE IF scope_of(p) \in affected THEN Absent ELSE graph[p]]

(* One transaction over the partitions and the manifest.                   *)
CommitBatch ==
  /\ step = "read"
  /\ \A p \in Work : read[p] # Unread
  /\ IF conflict THEN End /\ UNCHANGED <<rows, graph, unsaved>>
     ELSE /\ replace_partition /\ replace_manifest_scopes
          /\ unsaved' = TRUE
          /\ step' = "after" /\ UNCHANGED <<before, listed, read>>
  /\ UNCHANGED <<user, indexState, restored, slipped>>

save_index_state(fingerprint) == indexState' = <<root, fingerprint>>

(* Mutant: the fingerprint is not compared with the one before.            *)
SaveState_unchecked ==
  /\ step = "after"
  /\ \E fingerprint \in git_fingerprint :
       IF fingerprint = NoState
       THEN UNCHANGED <<indexState, slipped, unsaved>>
       ELSE /\ save_index_state(fingerprint)
            /\ slipped' = restored /\ unsaved' = FALSE
  /\ End
  /\ UNCHANGED <<user, rows, graph, restored>>

(* The fingerprint must be the one before, if there was one; it is saved   *)
(* in a statement of its own.                                              *)
SaveState ==
  /\ step = "after"
  /\ \E fingerprint \in git_fingerprint :
       IF fingerprint = NoState \/ (before # NoState /\ fingerprint # before)
       THEN UNCHANGED <<indexState, slipped, unsaved>>
       ELSE /\ save_index_state(fingerprint)
            /\ slipped' = restored /\ unsaved' = FALSE
  /\ End
  /\ UNCHANGED <<user, rows, graph, restored>>

CrashIndex == step # "idle" /\ End /\ UNCHANGED <<user, tables, marks>>

-----------------------------------------------------------------------------
(* The user: a write, a deletion or the return to what HEAD has, a commit  *)
(* of all there is, one from elsewhere, a fresh checkout in another place. *)

Intervene == writes < MaxWrites /\ writes' = writes + 1

Put(f, p, content) == [f EXCEPT ![p] = <<content, writes + 1>>]

WriteFile(p) ==
  /\ Intervene
  /\ \E content \in {Absent, writes + 2, base[p]} \ {Content(p)} :
       /\ tree' = Put(tree, p, content)
       /\ restored' = IF content = base[p] /\ step # "idle" THEN restored \cup {p} ELSE restored
  /\ UNCHANGED <<base, head, root, tables, slipped, unsaved, local>>

(* What slips through an indexing that began without a fingerprint.        *)
Unguarded == IF step # "idle" /\ before = NoState THEN Paths ELSE {}

CommitFiles ==
  /\ Intervene
  /\ base' = [p \in Paths |-> Content(p)]
  /\ head' = head + 1
  /\ restored' = restored \cup Unguarded
  /\ UNCHANGED <<tree, root, tables, slipped, unsaved, local>>

Pull(p) ==
  /\ Intervene
  /\ Status(p) = "clean"
  /\ tree' = Put(tree, p, writes + 2)
  /\ base' = [base EXCEPT ![p] = writes + 2]
  /\ head' = head + 1
  /\ restored' = restored \cup Unguarded
  /\ UNCHANGED <<root, tables, slipped, unsaved, local>>

Relocate ==
  /\ Intervene
  /\ step = "idle"
  /\ root' = root + 1
  /\ tree' = [p \in Paths |-> <<base[p], writes + 1>>]
  /\ UNCHANGED <<base, head, tables, marks, local>>

Next ==
  \/ CodeIndex \/ Begin \/ inventory \/ CommitBatch \/ SaveState \/ CrashIndex
  \/ \E p \in Paths : index_scope(p) \/ WriteFile(p) \/ Pull(p)
  \/ CommitFiles \/ Relocate

Spec == Init /\ [][Next]_ivars

-----------------------------------------------------------------------------
(* Types.                                                                  *)
TypeOK ==
  /\ \A p \in Paths : /\ Content(p) \in Nat /\ tree[p][2] \in 0..MaxWrites
                      /\ rows[p] # NoState => rows[p][1] \in Nat \ {Absent}
                      /\ read[p] \in Nat \cup {Unread} /\ graph[p] \in Nat
  /\ step \in {"idle", "begin", "inventory", "read", "after"}
  /\ writes \in 0..MaxWrites /\ unsaved \in BOOLEAN
  /\ restored \subseteq Paths /\ slipped \subseteq Paths

(* Manifest, path search and graph are replaced together: a listed path    *)
(* was parsed from just the content its row vouches for.  (A directory     *)
(* named root shares the scope of the top level, whose deletion spares     *)
(* its rows.)                                                              *)
RowsMatchGraph ==
  \A p \in Paths : rows[p] # NoState /\ scope_of(p) # <<"root">> => graph[p] = rows[p][1]

(* Another directory that holds sources is above that of p, or its name    *)
(* differs from one above p, or from that of p, in case only.              *)
Nested(p) == \E q \in Paths : scope_of(q) # scope_of(p) /\ Deletes(scope_of(q), p)

(* An index that would be reused is right about every file git calls       *)
(* clean, and finds it by its path.  For a nested path the row may be lost *)
(* with the rows of the other directory: the file is then not found by its *)
(* path, and its deletion is never noticed.  What the fingerprint cannot   *)
(* show is excluded: files git does not call clean, of which it has the    *)
(* status and not the contents, files restored while they were read, an    *)
(* indexing that began without a fingerprint, one that committed and could *)
(* not save its own.                                                       *)
ReusedIsFresh ==
  indexState = <<root, Fingerprint>> /\ ~unsaved =>
    \A p \in Paths \ slipped : Status(p) = "clean" =>
      \/ Nested(p) /\ (Content(p) = Absent \/ graph[p] = Content(p))
      \/ graph[p] = Content(p) /\ (Content(p) # Absent => rows[p] # NoState)

(* The code index is what it claims to be: the rows of the manifest vouch  *)
(* for what was parsed, and an index that is reused is right about the     *)
(* files git calls clean, but for the windows its fingerprint leaves open. *)
IndexTellsTruth == RowsMatchGraph /\ ReusedIsFresh
=============================================================================
