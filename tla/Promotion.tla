----------------------------- MODULE Promotion ------------------------------
(***************************************************************************)
(* Promotion of an approved candidate by the daemon (workflowd).           *)
(*                                                                         *)
(* PromoteCandidate (lifecycle.rs) reserves the delivery in the store,     *)
(* rewrites the working tree under a journal (candidate.rs) and then turns *)
(* the reservation into a completed workflow.  The journal lies in the git *)
(* directory, the reservation in the database, and the tree belongs to a   *)
(* user who keeps editing it: the protocol has to survive a crash between  *)
(* any two of its steps, a failing system call and a concurrent edit.      *)
(*                                                                         *)
(* A look at a path and the rename or unlink that relies on it are two     *)
(* steps, and the user may write in between.  A hard link, which checks    *)
(* and acts at once, and the removal of the name it replaces are one: the  *)
(* second name holds what the first one does.  File modes, directories     *)
(* that become files and the journals of an earlier release are left out.  *)
(***************************************************************************)
EXTENDS Integers, FiniteSets

CONSTANTS
  Modified, Added, Deleted,   \* the paths of the manifest, by kind
  MaxEdits,                   \* writes by the user
  MaxCrashes,                 \* times the daemon is killed
  MaxErrors                   \* failed system calls

Paths == Modified \cup Added \cup Deleted

ASSUME PathAssumption ==
  /\ Modified \cap Added = {} /\ Modified \cap Deleted = {}
  /\ Added \cap Deleted = {}
  /\ MaxEdits \in Nat /\ MaxCrashes \in Nat /\ MaxErrors \in Nat

(* Contents of a path: nothing, what the base revision holds, what the     *)
(* candidate holds, or the n-th text the user wrote.                       *)
Nothing  == -2
Base     == -1
Approved == 0
UserText == 1..MaxEdits
Content  == {Nothing, Base, Approved} \cup UserText

(* The snapshot the journal keeps of a path, and the candidate's version.  *)
capture_journal(p) == IF p \in Added THEN Nothing ELSE Base
candidate_files(p) == IF p \in Deleted THEN Nothing ELSE Approved

(* Digests.  A journal's digest is determined by its random nonce.         *)
NoDigest      == 0
PayloadDigest == 1
Digest        == Nat

VARIABLES
  tree,       \* the working tree: content of each path
  head,       \* TRUE while HEAD is the base revision
  backup,     \* <prefix>-backup-<i>
  incoming,   \* paths with a <prefix>-incoming-<i>
  kept,       \* <prefix>-concurrent-<i>: <<nonce, content>> of each path
  journal,    \* digest of <candidate>.json, NoDigest when there is none
  committed,  \* <candidate>.committed exists
  reserved,   \* the row of candidate_delivery_reservations exists
  bound,      \* its journal_digest
  workflow,   \* state of the workflow
  pc,         \* step of the promotion in progress, "idle" when none is
  todo,       \* paths its current loop has still to visit
  cursor,     \* <<path>> it has looked at and is about to act on, else <<>>
  after,      \* where rollback or cleanup returns to
  expected,   \* journal digest it read with the reservation
  digest,     \* journal digest it works under
  nonce,      \* last nonce drawn
  edits, crashes, errors,
  touched,    \* paths the user has ever written
  live,       \* texts the user wrote and did not replace: <<path, text>>
  raced       \* those written after the last look before a removal

disk  == <<backup, incoming, kept, journal, committed>>
store == <<reserved, bound, workflow>>
local == <<pc, todo, cursor, after, expected, digest>>
world == <<head, edits, crashes, errors, touched, live, raced>>
vars  == <<tree, disk, store, local, world, nonce>>

Steps == {"idle", "recover", "check", "bind", "write", "recheck", "stage",
          "move", "rename", "moved", "putback", "install", "verify", "commit",
          "cleanup", "undo", "unlink", "restore", "deliver", "failed"}

Init ==
  /\ tree = [p \in Paths |-> capture_journal(p)]
  /\ head = TRUE
  /\ backup = [p \in Paths |-> Nothing]
  /\ incoming = {}
  /\ kept = [p \in Paths |-> {}]
  /\ journal = NoDigest /\ committed = FALSE
  /\ reserved = FALSE /\ bound = NoDigest
  /\ workflow = "delivery"
  /\ pc = "idle" /\ todo = {} /\ cursor = <<>> /\ after = "failed"
  /\ expected = NoDigest /\ digest = NoDigest
  /\ nonce = PayloadDigest
  /\ edits = 0 /\ crashes = 0 /\ errors = 0 /\ touched = {}
  /\ live = {} /\ raced = {}

-----------------------------------------------------------------------------
(* Control flow of the promoter.                                           *)

Goto(step, paths) ==
  /\ pc' = step /\ todo' = paths
  /\ cursor' = <<>>
  /\ UNCHANGED <<after, expected, digest>>

(* rollback_payload and cleanup_delivery are called from recovery, which   *)
(* continues with the check, and from apply_payload.                       *)
Call(step, return) ==
  /\ pc' = step /\ todo' = Paths
  /\ cursor' = <<>>
  /\ after' = return
  /\ UNCHANGED <<expected, digest>>

Fail == Goto("failed", {})

(* It has looked at p, which its loop need not visit again, and acts next. *)
LookedAt(p, step) ==
  /\ pc' = step /\ todo' = todo \ {p}
  /\ cursor' = <<p>>
  /\ UNCHANGED <<after, expected, digest>>

verify_promoted == \A p \in Paths : tree[p] = candidate_files(p)
matches_base    == \A p \in Paths : tree[p] = capture_journal(p)

(* A file that exists is compared, with the mode and bytes of the journal. *)
matches_snapshot(content) == content = Base
matches_approved(content) == content = Approved

(* git apply --check: the patch may still apply to a modified file the     *)
(* user has changed elsewhere.                                             *)
git_apply_check ==
  \A p \in Paths : \/ tree[p] = capture_journal(p)
                   \/ p \in Modified /\ tree[p] \in UserText

-----------------------------------------------------------------------------
(* A reservation that is there is taken over with its journal.             *)
reserve_candidate_delivery ==
  /\ reserved' = TRUE
  /\ expected' = IF reserved THEN bound ELSE NoDigest
  /\ bound' = expected'

(* PromoteCandidate, up to spawn_blocking: under the delivery gate.        *)
PromoteCandidate ==
  /\ pc = "idle"
  /\ workflow \in {"delivery", "completed"}
  /\ reserve_candidate_delivery
  /\ pc' = "recover" /\ todo' = {} /\ cursor' = <<>>
  /\ after' = "failed" /\ digest' = NoDigest
  /\ UNCHANGED <<tree, disk, workflow, world, nonce>>

(* Mutant: a marker whose journal is already gone is not recovered.        *)
Recover_orphanMarker ==
  /\ pc = "recover"
  /\ \/ (~head \/ committed) /\ Fail
     \/ head /\ ~committed /\ journal = NoDigest /\ Goto("check", {})
     \/ head /\ ~committed /\ journal # NoDigest /\ Call("undo", "check")
  /\ UNCHANGED <<tree, disk, store, world, nonce>>

(* promote_bound goes on only while HEAD is the base revision.             *)
promote_bound == head

(* recover_delivery_bound.                                                 *)
Recover ==
  /\ pc = "recover"
  /\ \/ ~promote_bound /\ Fail /\ UNCHANGED committed
     \/ promote_bound /\ committed /\ ~verify_promoted /\ Fail /\ UNCHANGED committed
     \/ /\ promote_bound /\ journal = NoDigest
        /\ committed => verify_promoted
        /\ committed' = FALSE
        /\ Goto("check", {})
     \/ /\ promote_bound /\ journal # NoDigest
        /\ committed => verify_promoted
        /\ IF journal # expected THEN Fail
           ELSE Call(IF committed THEN "cleanup" ELSE "undo", "check")
        /\ UNCHANGED committed
  /\ UNCHANGED <<tree, backup, incoming, kept, journal, store, world, nonce>>

(* The compare-and-set of bind_candidate_delivery_journal.                 *)
bind_journal(d) ==
  /\ reserved /\ bound = expected
  /\ bound' = d
  /\ UNCHANGED <<reserved, workflow>>

(* apply_payload between recovery and the first write: an already promoted *)
(* tree only binds; otherwise the preimage is checked and the journal with *)
(* its fresh nonce is captured.                                            *)
Check ==
  /\ pc = "check"
  /\ \/ /\ verify_promoted
        /\ digest' = (IF expected # NoDigest THEN expected ELSE PayloadDigest)
        /\ bind_journal(digest')
        /\ pc' = "deliver" /\ todo' = {} /\ cursor' = <<>>
        /\ UNCHANGED <<after, expected, nonce>>
     \/ /\ ~verify_promoted /\ ~matches_base
        /\ Fail
        /\ UNCHANGED <<store, nonce>>
     \/ /\ ~verify_promoted /\ matches_base
        /\ nonce' = nonce + 1
        /\ digest' = nonce'
        /\ pc' = "bind" /\ todo' = {} /\ cursor' = <<>>
        /\ UNCHANGED <<after, expected, store>>
  /\ UNCHANGED <<tree, disk, world>>

(* Mutant: the journal is published before the reservation is bound to it. *)
Bind_late ==
  /\ pc = "bind"
  /\ journal' = digest
  /\ Goto("write", {})
  /\ UNCHANGED <<tree, backup, incoming, kept, committed, store, world, nonce>>

Bind ==
  /\ pc = "bind"
  /\ bind_journal(digest)
  /\ Goto("write", {})
  /\ UNCHANGED <<tree, disk, world, nonce>>

(* write_journal publishes with a hard link, which never replaces.         *)
WriteJournal ==
  /\ pc = "write"
  /\ journal = NoDigest
  /\ journal' = digest
  /\ Goto("recheck", {})
  /\ UNCHANGED <<tree, backup, incoming, kept, committed, store, world, nonce>>

Recheck ==
  /\ pc = "recheck"
  /\ \/ git_apply_check /\ Goto("stage", Paths \ Deleted)
     \/ ~matches_base /\ Fail
  /\ UNCHANGED <<tree, disk, store, world, nonce>>

-----------------------------------------------------------------------------
(* apply_payload_staged.  The order of its loops depends on the depth of   *)
(* the paths: every order is allowed.                                      *)

Stage ==
  /\ pc = "stage"
  /\ \/ \E p \in todo :
          /\ incoming' = incoming \cup {p}
          /\ Goto("stage", todo \ {p})
     \/ todo = {} /\ Goto("move", Paths) /\ UNCHANGED incoming
  /\ UNCHANGED <<tree, backup, kept, journal, committed, store, world, nonce>>

(* Mutant: the destination is overwritten, without a backup of a file that *)
(* changed after the preimage check.                                       *)
Move_clobber ==
  /\ pc = "move"
  /\ \/ \E p \in todo :
          /\ tree' = [tree EXCEPT ![p] = Nothing]
          /\ backup' = [backup EXCEPT ![p] = capture_journal(p)]
          /\ Goto("move", todo \ {p})
     \/ todo = {} /\ Goto("install", Paths \ Deleted) /\ UNCHANGED <<tree, backup>>
  /\ UNCHANGED <<incoming, kept, journal, committed, store, world, nonce>>

(* A destination that exists is to be renamed to its backup.               *)
Move ==
  /\ pc = "move"
  /\ \/ \E p \in todo :
          \/ tree[p] = Nothing /\ Goto("move", todo \ {p})
          \/ /\ tree[p] # Nothing
             /\ IF backup[p] = Nothing THEN LookedAt(p, "rename")
                ELSE Call("undo", "failed")
     \/ todo = {} /\ Goto("install", Paths \ Deleted)
  /\ UNCHANGED <<tree, disk, store, world, nonce>>

(* The rename takes whatever is there by then; it fails on a missing file. *)
Rename ==
  /\ pc = "rename"
  /\ LET p == cursor[1]
     IN \/ /\ tree[p] # Nothing
           /\ tree' = [tree EXCEPT ![p] = Nothing]
           /\ backup' = [backup EXCEPT ![p] = tree[p]]
           /\ LookedAt(p, "moved")
        \/ /\ tree[p] = Nothing
           /\ Call("undo", "failed")
           /\ UNCHANGED <<tree, backup>>
  /\ UNCHANGED <<incoming, kept, journal, committed, store, world, nonce>>

(* The backup is compared with the journal's snapshot only after the       *)
(* rename; a changed file is to go back if its path is still free.         *)
Moved ==
  /\ pc = "moved"
  /\ LET p == cursor[1]
     IN \/ matches_snapshot(backup[p]) /\ Goto("move", todo)
        \/ /\ ~matches_snapshot(backup[p])
           /\ IF tree[p] = Nothing THEN LookedAt(p, "putback")
              ELSE Call("undo", "failed")
  /\ UNCHANGED <<tree, disk, store, world, nonce>>

(* The rename back replaces what the user may have written meanwhile.      *)
PutBack ==
  /\ pc = "putback"
  /\ LET p == cursor[1]
     IN /\ tree' = [tree EXCEPT ![p] = backup[p]]
        /\ backup' = [backup EXCEPT ![p] = Nothing]
  /\ Call("undo", "failed")
  /\ UNCHANGED <<incoming, kept, journal, committed, store, world, nonce>>

(* Installation by hard link, which fails when the path exists.            *)
Install ==
  /\ pc = "install"
  /\ \/ \E p \in todo :
          \/ /\ tree[p] = Nothing
             /\ tree' = [tree EXCEPT ![p] = Approved]
             /\ incoming' = incoming \ {p}
             /\ Goto("install", todo \ {p})
          \/ /\ tree[p] # Nothing
             /\ Call("undo", "failed")
             /\ UNCHANGED <<tree, incoming>>
     \/ todo = {} /\ Goto("verify", {}) /\ UNCHANGED <<tree, incoming>>
  /\ UNCHANGED <<backup, kept, journal, committed, store, world, nonce>>

Verify ==
  /\ pc = "verify"
  /\ \/ verify_promoted /\ Goto("commit", {})
     \/ ~verify_promoted /\ Call("undo", "failed")
  /\ UNCHANGED <<tree, disk, store, world, nonce>>

(* write_committed_marker: created and synced, together with its           *)
(* directory; how a sync fails is in IOError.                              *)
Commit ==
  /\ pc = "commit"
  /\ committed' = TRUE
  /\ Call("cleanup", "deliver")
  /\ UNCHANGED <<tree, backup, incoming, kept, journal, store, world, nonce>>

(* Mutant: the journal is removed before the files it lists.               *)
Cleanup_journalFirst ==
  /\ pc = "cleanup"
  /\ \/ /\ journal # NoDigest
        /\ journal' = NoDigest /\ UNCHANGED <<backup, incoming, committed>>
        /\ Goto("cleanup", todo)
     \/ /\ journal = NoDigest /\ committed
        /\ committed' = FALSE /\ UNCHANGED <<backup, incoming, journal>>
        /\ Goto("cleanup", todo)
     \/ /\ journal = NoDigest /\ ~committed
        /\ \E p \in todo :
             /\ backup' = [backup EXCEPT ![p] = Nothing]
             /\ incoming' = incoming \ {p}
             /\ Goto("cleanup", todo \ {p})
        /\ UNCHANGED <<journal, committed>>
     \/ /\ journal = NoDigest /\ ~committed /\ todo = {}
        /\ Goto(after, {})
        /\ UNCHANGED <<backup, incoming, journal, committed>>
  /\ UNCHANGED <<tree, kept, store, world, nonce>>

(* cleanup_delivery: backups and staged files, the journal, the marker.    *)
Cleanup ==
  /\ pc = "cleanup"
  /\ \/ \E p \in todo :
          /\ backup' = [backup EXCEPT ![p] = Nothing]
          /\ incoming' = incoming \ {p}
          /\ Goto("cleanup", todo \ {p})
          /\ UNCHANGED <<journal, committed>>
     \/ /\ todo = {} /\ journal # NoDigest
        /\ journal' = NoDigest
        /\ Goto("cleanup", {})
        /\ UNCHANGED <<backup, incoming, committed>>
     \/ /\ todo = {} /\ journal = NoDigest
        /\ committed' = FALSE
        /\ Goto(after, {})
        /\ UNCHANGED <<backup, incoming, journal>>
  /\ UNCHANGED <<tree, kept, store, world, nonce>>

-----------------------------------------------------------------------------
(* rollback_payload, on behalf of the journal on disk.                     *)

Kept(p) == {k \in kept[p] : k[1] = journal}

(* Its first loop takes the candidate's files out of the tree.  A file     *)
(* that is neither the snapshot nor the approved one is first linked to    *)
(* <prefix>-concurrent-<i> (preserve_concurrent); the link fails when a    *)
(* rollback of this journal already kept one there.                        *)
Undo ==
  /\ pc = "undo"
  /\ \/ \E p \in todo :
          \/ /\ tree[p] = Nothing \/ matches_snapshot(tree[p])
             /\ incoming' = incoming \ {p}
             /\ Goto("undo", todo \ {p})
             /\ UNCHANGED kept
          \/ /\ matches_approved(tree[p])
             /\ LookedAt(p, "unlink")
             /\ UNCHANGED <<kept, incoming>>
          \/ /\ tree[p] \in UserText /\ Kept(p) = {}
             /\ kept' = [kept EXCEPT ![p] = @ \cup {<<journal, tree[p]>>}]
             /\ LookedAt(p, "unlink")
             /\ UNCHANGED incoming
          \/ /\ tree[p] \in UserText /\ Kept(p) # {}
             /\ Fail
             /\ UNCHANGED <<kept, incoming>>
     \/ /\ todo = {}
        /\ Goto("restore", Paths)
        /\ UNCHANGED <<kept, incoming>>
  /\ UNCHANGED <<tree, backup, journal, committed, store, world, nonce>>

(* The unlink removes whatever is there by then, and fails on a missing    *)
(* file; the staged file goes after it.                                    *)
Unlink ==
  /\ pc = "unlink"
  /\ LET p == cursor[1]
     IN \/ /\ tree[p] # Nothing
           /\ tree' = [tree EXCEPT ![p] = Nothing]
           /\ incoming' = incoming \ {p}
           /\ Goto("undo", todo)
        \/ /\ tree[p] = Nothing
           /\ Fail
           /\ UNCHANGED <<tree, incoming>>
  /\ UNCHANGED <<backup, kept, journal, committed, store, world, nonce>>

(* The last loop puts the backups back, then journal and marker go.        *)
Restore ==
  /\ pc = "restore"
  /\ \/ \E p \in todo :
          /\ \/ /\ backup[p] = Nothing
                /\ Goto("restore", todo \ {p})
                /\ UNCHANGED <<tree, backup>>
             \/ /\ backup[p] = Base /\ tree[p] \in {Nothing, Base}
                /\ tree' = [tree EXCEPT ![p] = Base]
                /\ backup' = [backup EXCEPT ![p] = Nothing]
                /\ Goto("restore", todo \ {p})
             \/ /\ backup[p] = Base /\ tree[p] \notin {Nothing, Base}
                /\ Fail
                /\ UNCHANGED <<tree, backup>>
             \/ /\ backup[p] \notin {Nothing, Base}
                /\ tree' = [tree EXCEPT ![p] = IF @ = Nothing THEN backup[p] ELSE @]
                /\ Fail
                /\ UNCHANGED backup
          /\ UNCHANGED <<journal, committed>>
     \/ /\ todo = {} /\ journal # NoDigest
        /\ journal' = NoDigest
        /\ Goto("restore", {})
        /\ UNCHANGED <<tree, backup, committed>>
     \/ /\ todo = {} /\ journal = NoDigest
        /\ committed' = FALSE
        /\ Goto(after, {})
        /\ UNCHANGED <<tree, backup, journal>>
  /\ UNCHANGED <<incoming, kept, store, world, nonce>>

-----------------------------------------------------------------------------
(* PromoteCandidate, after spawn_blocking.                                 *)

delivery_recovery_required == journal # NoDigest \/ committed

release_candidate_delivery == reserved' = FALSE /\ bound' = NoDigest

(* On an error the reservation is released unless there is something to    *)
(* recover.                                                                *)
Failed ==
  /\ pc = "failed"
  /\ IF delivery_recovery_required THEN UNCHANGED <<reserved, bound>>
     ELSE release_candidate_delivery
  /\ Goto("idle", {})
  /\ UNCHANGED <<tree, disk, workflow, world, nonce>>

(* One transaction: the reservation, still bound to this journal, turns    *)
(* into a delivered workflow.                                              *)
deliver_reserved_candidate ==
  /\ reserved /\ bound = digest
  /\ workflow' = "completed"
  /\ reserved' = FALSE /\ bound' = NoDigest

(* When the workflow was delivered before, there is only the reservation   *)
(* to give back.                                                           *)
Deliver ==
  /\ pc = "deliver"
  /\ \/ workflow = "delivery" /\ deliver_reserved_candidate
     \/ workflow = "completed" /\ release_candidate_delivery /\ UNCHANGED workflow
  /\ Goto("idle", {})
  /\ UNCHANGED <<tree, disk, world, nonce>>

-----------------------------------------------------------------------------
(* The environment of a promotion.                                         *)

(* Mutant: a reserved workflow can be cancelled.                           *)
Cancel_reserved ==
  /\ workflow = "delivery"
  /\ workflow' = "cancelled"
  /\ UNCHANGED <<tree, disk, reserved, bound, local, world, nonce>>

(* A cancel command: apply_workflow_command refuses it while reserved.     *)
Cancel ==
  /\ workflow = "delivery" /\ ~reserved
  /\ workflow' = "cancelled"
  /\ UNCHANGED <<tree, disk, reserved, bound, local, world, nonce>>

(* The promoter has looked at p for the last time before it removes or     *)
(* replaces what is there.                                                 *)
Window(p) == pc \in {"putback", "unlink"} /\ cursor = <<p>>

(* The user writes or deletes a path.                                      *)
UserWrite(p) ==
  /\ edits < MaxEdits
  /\ edits' = edits + 1
  /\ \E c \in {Nothing, edits'} :
       /\ tree' = [tree EXCEPT ![p] = c]
       /\ touched' = touched \cup {p}
       /\ live' = (live \ {<<p, tree[p]>>}) \cup ({<<p, c>>} \ {<<p, Nothing>>})
       /\ raced' = IF Window(p) /\ c # Nothing THEN raced \cup {<<p, c>>} ELSE raced
  /\ UNCHANGED <<disk, store, local, head, crashes, errors, nonce>>

UserCommit ==
  /\ edits < MaxEdits /\ head
  /\ edits' = edits + 1
  /\ head' = FALSE
  /\ UNCHANGED <<tree, disk, store, local, crashes, errors, touched, live, raced,
                 nonce>>

(* The process is killed.                                                  *)
Crash ==
  /\ pc # "idle" /\ crashes < MaxCrashes
  /\ crashes' = crashes + 1
  /\ pc' = "idle" /\ todo' = {} /\ cursor' = <<>> /\ after' = "failed"
  /\ expected' = NoDigest /\ digest' = NoDigest
  /\ UNCHANGED <<tree, disk, store, head, edits, errors, touched, live, raced,
                 nonce>>

(* A system call fails: inside the closure of apply_payload_staged and at  *)
(* the marker the error rolls back, elsewhere it is returned at once; an   *)
(* error of the last transaction leaves the reservation.  A marker whose   *)
(* sync fails exists already, and the rollback removes it last.            *)
IOError ==
  /\ errors < MaxErrors
  /\ errors' = errors + 1
  /\ \/ /\ pc \in {"move", "rename", "moved", "putback", "install", "verify"}
        /\ Call("undo", "failed")
        /\ UNCHANGED committed
     \/ /\ pc = "commit"
        /\ Call("undo", "failed")
        /\ committed' \in {committed, TRUE}
     \/ /\ pc \in {"recover", "check", "bind", "write", "recheck", "stage",
                   "cleanup", "undo", "unlink", "restore"}
        /\ Fail
        /\ UNCHANGED committed
     \/ pc = "deliver" /\ Goto("idle", {}) /\ UNCHANGED committed
  /\ UNCHANGED <<tree, backup, incoming, kept, journal, store, head, edits,
                 crashes, touched, live, raced, nonce>>

-----------------------------------------------------------------------------
Step ==
  \/ Recover \/ Check \/ Bind \/ WriteJournal \/ Recheck
  \/ Stage \/ Move \/ Rename \/ Moved \/ PutBack \/ Install \/ Verify
  \/ Commit \/ Cleanup \/ Undo \/ Unlink \/ Restore \/ Failed \/ Deliver

Environment ==
  \/ Cancel \/ UserCommit \/ Crash \/ IOError
  \/ \E p \in Paths : UserWrite(p)

Next == PromoteCandidate \/ Step \/ Environment

(* The blocking task of a promotion runs to its end, and a delivery that   *)
(* was interrupted is asked for again.                                     *)
Fairness == WF_vars(Step) /\ WF_vars(reserved /\ PromoteCandidate)

Spec == Init /\ [][Next]_vars /\ Fairness

-----------------------------------------------------------------------------
(* Types.                                                                  *)
TypeOK ==
  /\ tree \in [Paths -> Content] /\ backup \in [Paths -> Content]
  /\ incoming \subseteq Paths /\ todo \subseteq Paths
  /\ kept \in [Paths -> SUBSET (Digest \X UserText)]
  /\ journal \in Digest /\ bound \in Digest /\ nonce \in Digest
  /\ expected \in Digest /\ digest \in Digest
  /\ committed \in BOOLEAN /\ reserved \in BOOLEAN /\ head \in BOOLEAN
  /\ workflow \in {"delivery", "completed", "cancelled"}
  /\ pc \in Steps /\ after \in Steps
  /\ cursor \in {<<>>} \cup {<<p>> : p \in Paths}
  /\ edits \in 0..MaxEdits
  /\ crashes \in 0..MaxCrashes /\ errors \in 0..MaxErrors
  /\ touched \subseteq Paths
  /\ live \subseteq Paths \X UserText /\ raced \subseteq Paths \X UserText

(* A journal or a marker in the git directory belongs to a delivery that   *)
(* is still reserved, and a journal is the one the reservation is bound    *)
(* to: recovery, which refuses any other, is never locked out, and a       *)
(* half-applied tree is never forgotten.                                   *)
JournalIsReserved ==
  /\ journal # NoDigest => reserved /\ bound = journal
  /\ committed => reserved

(* With no promotion running and nothing to recover, the paths the user    *)
(* did not touch are all as in the base or all as in the candidate, and no *)
(* staged file or backup is left behind in the working tree.               *)
AllOrNothing ==
  pc = "idle" /\ journal = NoDigest /\ ~committed =>
    /\ incoming = {} /\ \A p \in Paths : backup[p] = Nothing
    /\ \/ \A p \in Paths \ touched : tree[p] = capture_journal(p)
       \/ \A p \in Paths \ touched : tree[p] = candidate_files(p)

(* A text is at its path, in a backup, or beside it under a concurrent     *)
(* name.                                                                   *)
OnDisk(e) == \/ tree[e[1]] = e[2] \/ backup[e[1]] = e[2]
             \/ \E k \in kept[e[1]] : k[2] = e[2]

(* No text the user wrote and did not replace himself is destroyed, unless *)
(* he wrote it after the promoter's last look at the path: between the     *)
(* digest or the link of a rollback and its unlink, or between the look    *)
(* for a free path and the rename that puts a changed file back.           *)
UserBytesKept == \A e \in live \ raced : OnDisk(e)

(* The workflow tells the truth about the tree: after Completed every path *)
(* the user left alone is the candidate's, and a cancelled workflow left a *)
(* tree nobody else wrote as it was.  (A retry that fails on an I/O error  *)
(* before it looks at the tree releases the reservation of a delivery that *)
(* was complete: with errors = 0 only crashes are considered.)             *)
OutcomeMatchesTree ==
  /\ workflow = "completed" => \A p \in Paths \ touched : tree[p] = candidate_files(p)
  /\ workflow = "cancelled" /\ edits = 0 /\ errors = 0 => matches_base

(* A marker no recovery accepts: its sync failed, and the rollback that    *)
(* was to remove it last was itself cut short.                             *)
StaleMarker == pc = "idle" /\ committed /\ ~verify_promoted

(* A reserved delivery blocks every command on its workflow; unless the    *)
(* user interferes or a stale marker is left, the reservation is always    *)
(* given up in the end.                                                    *)
ReservationEnds == reserved ~> (~reserved \/ edits > 0 \/ StaleMarker)
=============================================================================
