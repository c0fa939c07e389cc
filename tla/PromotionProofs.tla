--------------------------- MODULE PromotionProofs --------------------------
(***************************************************************************)
(* Proofs about the promotion of a candidate by the daemon, for every      *)
(* manifest and every number of edits, crashes and failing calls.          *)
(***************************************************************************)
EXTENDS Promotion, TLAPS

(* What a path the user never wrote can hold.                              *)
Untouched   == Paths \ touched
AsBase      == \A p \in Untouched : tree[p] = capture_journal(p)
AsCandidate == \A p \in Untouched : tree[p] = candidate_files(p)

(* Nothing of a promotion is left in the working tree.                     *)
Clean == incoming = {} /\ \A p \in Paths : backup[p] = Nothing

(* Under a journal a path is in its place, moved aside, or installed.      *)
Recoverable(p) ==
  \/ backup[p] = Nothing /\ tree[p] = capture_journal(p)
  \/ backup[p] = Nothing /\ tree[p] = Approved /\ p \in Added
  \/ backup[p] = Base /\ p \notin Added /\ tree[p] = Nothing
  \/ backup[p] = Base /\ p \in Modified /\ tree[p] = Approved

Moving      == {"move", "rename", "moved", "putback"}
Applying    == {"recheck", "stage", "install", "verify", "commit"} \cup Moving
RollingBack == {"undo", "unlink", "restore"}

(* The steps that act on a path they have looked at before.                *)
Acting == {"rename", "moved", "putback", "unlink"}

(* Which of reservation, journal and marker exist at each step, and where  *)
(* rollback and cleanup return to.                                         *)
ControlInv ==
  /\ pc # "idle" => reserved
  /\ pc \in {"check", "bind", "write", "deliver"} => journal = NoDigest /\ ~committed
  /\ pc \in {"bind", "write"} => digest # NoDigest
  /\ pc = "write" => bound = digest
  /\ pc \in Applying \cup {"undo", "unlink"} => journal # NoDigest
  /\ pc \in Applying => ~committed
  /\ pc = "cleanup" => committed
  /\ pc = "cleanup" => after \in {"check", "deliver"}
  /\ pc \in RollingBack => after \in {"check", "failed"}

(* What journal and marker say about the tree.  A marker whose sync failed *)
(* is there while its delivery is rolled back.                             *)
DiskInv ==
  /\ journal = NoDigest => Clean /\ (AsBase \/ AsCandidate)
  /\ journal # NoDigest /\ (~committed \/ pc \in RollingBack) =>
       \A p \in Untouched : Recoverable(p)
  /\ journal # NoDigest /\ committed =>
       AsCandidate \/ \A p \in Untouched : Recoverable(p)

(* What a promotion has established by the step it stands at.              *)
StepInv ==
  /\ pc \in {"bind", "write", "recheck", "stage"} => AsBase
  /\ pc \in {"recheck", "stage"} => \A p \in Paths : backup[p] = Nothing
  /\ pc \in Moving => \A p \in Untouched : tree[p] # Approved
  /\ pc = "install" => todo \cap Deleted = {}
  /\ pc \in {"commit", "deliver", "cleanup"} => AsCandidate
  /\ pc = "cleanup" => \A p \in Paths \ todo : backup[p] = Nothing /\ p \notin incoming
  /\ pc \in {"undo", "unlink"} =>
       \A p \in Paths \ todo :
         \/ cursor = <<p>>
         \/ p \notin incoming /\ (p \in Untouched => tree[p] # Approved)
  /\ pc = "restore" =>
       /\ incoming = {}
       /\ \A p \in Untouched : tree[p] # Approved
       /\ \A p \in Paths \ todo : backup[p] = Nothing
       /\ journal = NoDigest => AsBase

(* What is known of the path a step acts on: a file is renamed to a free   *)
(* backup; what a rename back or an unlink destroys is the candidate's, is *)
(* kept elsewhere, or was written after the look.                          *)
KeptText(p) == \E k \in kept[p] : k[2] = tree[p]

CursorInv ==
  /\ \/ pc \in Acting /\ \E p \in Paths : cursor = <<p>>
     \/ pc \notin Acting /\ cursor = <<>>
  /\ \A p \in Paths : cursor = <<p>> =>
       /\ pc = "rename" => backup[p] = Nothing
       /\ pc = "moved" => backup[p] # Nothing
       /\ pc = "putback" =>
            /\ backup[p] \notin {Nothing, Base}
            /\ tree[p] = Nothing \/ <<p, tree[p]>> \in raced
       /\ pc = "unlink" =>
            /\ p \in Untouched => tree[p] = Approved
            /\ tree[p] \in UserText => <<p, tree[p]>> \in raced \/ KeptText(p)

(* A backup is thrown away only when it is the snapshot of the journal.    *)
Snapshots == \A p \in Paths : backup[p] \in {Nothing, Base}

BackupInv ==
  /\ committed \/ pc \in {"install", "verify", "commit"} => Snapshots
  /\ pc \in Moving =>
       \A p \in Paths : backup[p] \in {Nothing, Base} \/ cursor = <<p>>

(* What the workflow's state says about the tree.                          *)
DeliveredInv ==
  workflow = "completed" =>
    \/ Untouched = {}
    \/ /\ journal = NoDigest /\ ~committed /\ AsCandidate
       /\ pc \in {"idle", "recover", "check", "deliver", "failed"}

ReleasedInv ==
  /\ workflow = "cancelled" => ~reserved
  /\ edits = 0 => touched = {} /\ head
  /\ edits = 0 /\ errors = 0 =>
       /\ pc = "failed" /\ journal = NoDigest /\ ~committed => AsBase
       /\ ~reserved /\ workflow # "completed" => AsBase

IInv ==
  /\ TypeOK
  /\ JournalIsReserved /\ ControlInv
  /\ DiskInv /\ StepInv
  /\ CursorInv /\ BackupInv /\ UserBytesKept
  /\ DeliveredInv /\ ReleasedInv

(* The vocabulary of contents and control flow is expanded everywhere.     *)
USE DEF Nothing, Base, Approved, NoDigest, PayloadDigest, Goto, Call, Fail,
        LookedAt, Moving, RollingBack, Acting, disk, store, local, world

-----------------------------------------------------------------------------
(* The candidate changes every path of its manifest.                       *)
LEMMA SidesDiffer ==
  ASSUME NEW p \in Paths
  PROVE  capture_journal(p) # candidate_files(p)
  BY PathAssumption DEF capture_journal, candidate_files

(* What journal and marker say about the tree is not disturbed by a step   *)
(* that writes neither, and no text of the user is lost in it.             *)
LEMMA DiskFrame ==
  ASSUME IInv, UNCHANGED <<tree, backup, incoming, kept, journal, committed>>,
         UNCHANGED <<touched, live, raced>>,
         pc' \in RollingBack => pc \in RollingBack \/ ~committed
  PROVE  DiskInv' /\ UserBytesKept'
  <1>1. DiskInv'
    BY DEF IInv, DiskInv, Clean, AsBase, AsCandidate, Recoverable, Untouched
  <1>2. UserBytesKept'
    BY DEF IInv, UserBytesKept, OnDisk
  <1> QED
    BY <1>1, <1>2

(* Between the paths of a loop there is nothing to remember.               *)
LEMMA CursorFrame ==
  ASSUME pc' \notin Acting, cursor' = <<>>
  PROVE  CursorInv'
  BY DEF CursorInv

(* A promotion that has not begun has nothing to recover.                  *)
LEMMA InitIInv == Init => IInv
  <1> SUFFICES ASSUME Init PROVE IInv
    OBVIOUS
  <1>1. TypeOK
    <2>1. committed \in BOOLEAN /\ reserved \in BOOLEAN /\ head \in BOOLEAN
      BY Zenon DEF Init
    <2> QED
      BY <2>1, PathAssumption
      DEF Init, TypeOK, Steps, Content, Digest, capture_journal
  <1>2. JournalIsReserved /\ ControlInv /\ UserBytesKept
    BY DEF Init, JournalIsReserved, ControlInv, Applying, UserBytesKept, OnDisk
  <1>3. DiskInv /\ StepInv /\ BackupInv
    BY DEF Init, DiskInv, StepInv, BackupInv, Clean, AsBase, Untouched
  <1>4. DeliveredInv /\ ReleasedInv
    BY DEF Init, DeliveredInv, ReleasedInv, AsBase, Untouched
  <1>5. CursorInv
    BY DEF Init, CursorInv
  <1> QED
    BY <1>1, <1>2, <1>3, <1>4, <1>5 DEF IInv

-----------------------------------------------------------------------------
(* One lemma per step of the promotion and of its environment.             *)

(* A reservation that is taken over keeps the journal it is bound to.      *)
LEMMA PromoteCandidateIInv ==
  ASSUME IInv, PromoteCandidate
  PROVE  IInv'
  <1>1. TypeOK'
    BY DEF PromoteCandidate, reserve_candidate_delivery, IInv, TypeOK, Steps,
           Digest
  <1>2. JournalIsReserved'
    BY DEF PromoteCandidate, reserve_candidate_delivery, IInv,
           JournalIsReserved
  <1>3. ControlInv'
    BY DEF PromoteCandidate, reserve_candidate_delivery, ControlInv, Applying
  <1>4. DiskInv' /\ UserBytesKept'
    BY DiskFrame DEF PromoteCandidate
  <1>5. StepInv'
    BY DEF PromoteCandidate, StepInv
  <1>6. BackupInv'
    BY DEF PromoteCandidate, IInv, BackupInv, Snapshots
  <1>7. DeliveredInv'
    BY DEF PromoteCandidate, IInv, DeliveredInv, Untouched, AsCandidate
  <1>8. ReleasedInv'
    BY DEF PromoteCandidate, reserve_candidate_delivery, IInv, ReleasedInv
  <1>10. CursorInv'
    BY CursorFrame DEF PromoteCandidate
  <1> QED
    BY <1>1, <1>2, <1>3, <1>4, <1>5, <1>6, <1>7, <1>8, <1>10 DEF IInv

(* Recovery goes on with what the journal and the marker say.              *)
LEMMA RecoverIInv ==
  ASSUME IInv, Recover
  PROVE  IInv'
  <1>1. TypeOK'
    BY PathAssumption
    DEF Recover, promote_bound, verify_promoted, IInv, TypeOK, Steps, Content,
        UserText, Digest
  <1>2. JournalIsReserved'
    BY DEF Recover, IInv, JournalIsReserved
  <1>3. ControlInv'
    BY DEF Recover, IInv, ControlInv, Applying
  <1>4. DiskInv'
    BY DEF Recover, IInv, DiskInv, Clean, Recoverable, Untouched, AsBase,
           AsCandidate
  <1>5. StepInv'
    BY DEF Recover, verify_promoted, IInv, DiskInv, StepInv, Untouched,
           AsCandidate
  <1>6. BackupInv'
    BY DEF Recover, IInv, BackupInv, Snapshots
  <1>7. UserBytesKept'
    BY DEF Recover, IInv, UserBytesKept, OnDisk
  <1>8. DeliveredInv'
    BY DEF Recover, IInv, DeliveredInv, Untouched, AsCandidate
  <1>9. ReleasedInv'
    BY DEF Recover, promote_bound, IInv, ReleasedInv, ControlInv
  <1>10. CursorInv'
    BY CursorFrame DEF Recover
  <1> QED
    BY <1>1, <1>2, <1>3, <1>4, <1>5, <1>6, <1>7, <1>8, <1>9, <1>10 DEF IInv

(* The preimage check finds the base or the candidate, on what is untouched. *)
LEMMA CheckIInv ==
  ASSUME IInv, Check
  PROVE  IInv'
  <1>1. TypeOK'
    BY DEF Check, bind_journal, IInv, TypeOK, Steps, Content, UserText, Digest
  <1>2. JournalIsReserved'
    BY DEF Check, bind_journal, IInv, JournalIsReserved
  <1>3. ControlInv'
    <2>1. nonce + 1 # NoDigest
      BY DEF IInv, TypeOK, Digest
    <2>2. /\ pc' \in {"deliver", "failed", "bind"}
          /\ pc' = "bind" => digest' = nonce + 1
          /\ journal' = NoDigest /\ ~committed' /\ reserved'
      BY DEF Check, bind_journal, IInv, ControlInv
    <2> QED
      BY <2>1, <2>2 DEF ControlInv, Applying
  <1>4. DiskInv' /\ UserBytesKept'
    BY DiskFrame DEF Check
  <1>5. StepInv'
    BY DEF Check, verify_promoted, matches_base, StepInv, Untouched, AsBase,
           AsCandidate
  <1>6. BackupInv'
    BY DEF Check, IInv, BackupInv, ControlInv
  <1>7. DeliveredInv'
    <2>1. CASE ~verify_promoted /\ matches_base
      <3>1. \A p \in Untouched : tree[p] # candidate_files(p)
        BY <2>1, SidesDiffer DEF matches_base, Untouched
      <3>2. workflow = "completed" => Untouched = {}
        BY <3>1 DEF IInv, DeliveredInv, AsCandidate
      <3>3. UNCHANGED <<workflow, touched>>
        BY <2>1 DEF Check
      <3> QED
        BY <3>2, <3>3 DEF DeliveredInv, Untouched
    <2>2. CASE ~(~verify_promoted /\ matches_base)
      BY <2>2
      DEF Check, bind_journal, IInv, DeliveredInv, AsCandidate, Untouched
    <2> QED
      BY <2>1, <2>2
  <1>8. ReleasedInv'
    BY DEF Check, verify_promoted, bind_journal, IInv, ReleasedInv, DiskInv,
           Untouched, AsBase, AsCandidate
  <1>10. CursorInv'
    BY CursorFrame DEF Check
  <1> QED
    BY <1>1, <1>2, <1>3, <1>4, <1>5, <1>6, <1>7, <1>8, <1>10 DEF IInv

(* The reservation is bound before the journal is published.               *)
LEMMA BindIInv ==
  ASSUME IInv, Bind
  PROVE  IInv'
  <1>1. TypeOK'
    BY DEF Bind, bind_journal, IInv, TypeOK, Steps
  <1>2. JournalIsReserved'
    BY DEF Bind, IInv, JournalIsReserved, ControlInv
  <1>3. ControlInv'
    BY DEF Bind, bind_journal, IInv, ControlInv, Applying
  <1>4. DiskInv' /\ UserBytesKept'
    BY DiskFrame DEF Bind
  <1>5. StepInv'
    BY DEF Bind, IInv, StepInv, Untouched, AsBase
  <1>6. BackupInv'
    BY DEF Bind, IInv, BackupInv, ControlInv
  <1>7. DeliveredInv'
    BY DEF Bind, bind_journal, IInv, DeliveredInv, Untouched
  <1>8. ReleasedInv'
    BY DEF Bind, bind_journal, IInv, ReleasedInv
  <1>10. CursorInv'
    BY CursorFrame DEF Bind
  <1> QED
    BY <1>1, <1>2, <1>3, <1>4, <1>5, <1>6, <1>7, <1>8, <1>10 DEF IInv

(* The published journal is the one the reservation is bound to.           *)
LEMMA WriteJournalIInv ==
  ASSUME IInv, WriteJournal
  PROVE  IInv'
  <1>1. TypeOK'
    BY DEF WriteJournal, IInv, TypeOK, Steps
  <1>2. JournalIsReserved'
    BY DEF WriteJournal, IInv, JournalIsReserved, ControlInv
  <1>3. ControlInv'
    BY DEF WriteJournal, IInv, ControlInv
  <1>4. DiskInv'
    BY DEF WriteJournal, IInv, DiskInv, ControlInv, StepInv, Clean,
           Recoverable, Untouched, AsBase
  <1>5. StepInv'
    BY DEF WriteJournal, IInv, StepInv, DiskInv, Clean, Untouched, AsBase
  <1>6. BackupInv'
    BY DEF WriteJournal, IInv, BackupInv, ControlInv
  <1>7. UserBytesKept'
    BY DEF WriteJournal, IInv, UserBytesKept, OnDisk
  <1>8. DeliveredInv'
    BY DEF WriteJournal, IInv, DeliveredInv, Untouched
  <1>9. ReleasedInv'
    BY DEF WriteJournal, IInv, ReleasedInv, ControlInv
  <1>10. CursorInv'
    BY CursorFrame DEF WriteJournal
  <1> QED
    BY <1>1, <1>2, <1>3, <1>4, <1>5, <1>6, <1>7, <1>8, <1>9, <1>10 DEF IInv

(* Nothing has been moved when the preimage is checked again.              *)
LEMMA RecheckIInv ==
  ASSUME IInv, Recheck
  PROVE  IInv'
  <1>1. TypeOK'
    BY DEF Recheck, IInv, TypeOK, Steps
  <1>2. JournalIsReserved'
    BY DEF Recheck, IInv, JournalIsReserved
  <1>3. ControlInv'
    BY DEF Recheck, IInv, ControlInv, Applying
  <1>4. DiskInv' /\ UserBytesKept'
    BY DiskFrame DEF Recheck
  <1>5. StepInv'
    BY DEF Recheck, IInv, StepInv, Untouched, AsBase
  <1>6. BackupInv'
    BY DEF Recheck, IInv, BackupInv, ControlInv, Applying
  <1>7. DeliveredInv'
    BY DEF Recheck, IInv, DeliveredInv, Untouched
  <1>8. ReleasedInv'
    BY DEF Recheck, IInv, ReleasedInv, ControlInv, Applying
  <1>10. CursorInv'
    BY CursorFrame DEF Recheck
  <1> QED
    BY <1>1, <1>2, <1>3, <1>4, <1>5, <1>6, <1>7, <1>8, <1>10 DEF IInv

(* Staged files are beside the tree.                                       *)
LEMMA StageIInv ==
  ASSUME IInv, Stage
  PROVE  IInv'
  <1>1. TypeOK'
    BY DEF Stage, IInv, TypeOK, Steps
  <1>2. JournalIsReserved'
    BY DEF Stage, IInv, JournalIsReserved
  <1>3. ControlInv'
    BY DEF Stage, IInv, ControlInv, Applying
  <1>4. DiskInv'
    BY DEF Stage, IInv, DiskInv, ControlInv, Applying, Recoverable, Untouched
  <1>5. StepInv'
    BY DEF Stage, IInv, StepInv, Untouched, AsBase, capture_journal
  <1>6. BackupInv'
    BY DEF Stage, IInv, BackupInv, ControlInv, StepInv, Applying
  <1>7. UserBytesKept'
    BY DEF Stage, IInv, UserBytesKept, OnDisk
  <1>8. DeliveredInv'
    BY DEF Stage, IInv, DeliveredInv, Untouched
  <1>9. ReleasedInv'
    BY DEF Stage, IInv, ReleasedInv, ControlInv
  <1>10. CursorInv'
    BY CursorFrame DEF Stage
  <1> QED
    BY <1>1, <1>2, <1>3, <1>4, <1>5, <1>6, <1>7, <1>8, <1>9, <1>10 DEF IInv

(* A destination is looked at before it is moved aside.                    *)
LEMMA MoveIInv ==
  ASSUME IInv, Move
  PROVE  IInv'
  <1>1. TypeOK'
    BY DEF Move, IInv, TypeOK, Steps
  <1>2. JournalIsReserved'
    BY DEF Move, IInv, JournalIsReserved
  <1>3. ControlInv'
    BY DEF Move, IInv, ControlInv, Applying
  <1>4. DiskInv' /\ UserBytesKept'
    BY DiskFrame DEF Move, IInv, ControlInv, Applying
  <1>5. StepInv'
    BY DEF Move, IInv, StepInv, Untouched
  <1>6. BackupInv'
    BY DEF Move, IInv, BackupInv, CursorInv, ControlInv, Applying, Snapshots
  <1>7. CursorInv'
    BY DEF Move, IInv, TypeOK, CursorInv
  <1>8. DeliveredInv'
    BY DEF Move, IInv, DeliveredInv, Untouched
  <1>9. ReleasedInv'
    BY DEF Move, IInv, ReleasedInv, ControlInv
  <1> QED
    BY <1>1, <1>2, <1>3, <1>4, <1>5, <1>6, <1>7, <1>8, <1>9 DEF IInv

(* A file that is moved aside has its backup to itself.                    *)
LEMMA RenameIInv ==
  ASSUME IInv, Rename
  PROVE  IInv'
  <1> PICK p \in Paths : cursor = <<p>>
    BY DEF Rename, IInv, CursorInv
  <1>0. cursor[1] = p /\ backup[p] = Nothing
    BY DEF Rename, IInv, CursorInv
  <1>1. TypeOK'
    BY <1>0 DEF Rename, IInv, TypeOK, Steps
  <1>2. JournalIsReserved'
    BY DEF Rename, IInv, JournalIsReserved
  <1>3. ControlInv'
    BY DEF Rename, IInv, ControlInv, Applying
  <1>4. DiskInv'
    BY <1>0 DEF Rename, IInv, DiskInv, ControlInv, StepInv, Applying,
       Recoverable, TypeOK, Untouched, capture_journal
  <1>5. StepInv'
    BY <1>0 DEF Rename, IInv, StepInv, TypeOK, Untouched
  <1>6. BackupInv' /\ CursorInv'
    BY <1>0 DEF Rename, IInv, BackupInv, CursorInv, ControlInv, Applying,
       Snapshots, TypeOK
  <1>7. UserBytesKept'
    BY <1>0 DEF Rename, IInv, UserBytesKept, OnDisk, TypeOK
  <1>8. DeliveredInv'
    BY DEF Rename, IInv, DeliveredInv, Untouched
  <1>9. ReleasedInv'
    BY DEF Rename, IInv, ReleasedInv, ControlInv
  <1> QED
    BY <1>1, <1>2, <1>3, <1>4, <1>5, <1>6, <1>7, <1>8, <1>9 DEF IInv


(* Only a snapshot stays in a backup that will be thrown away.             *)
LEMMA MovedIInv ==
  ASSUME IInv, Moved
  PROVE  IInv'
  <1> PICK p \in Paths : cursor = <<p>>
    BY DEF Moved, IInv, CursorInv
  <1>0. cursor[1] = p /\ backup[p] # Nothing
    BY DEF Moved, IInv, CursorInv
  <1>1. TypeOK'
    BY <1>0 DEF Moved, IInv, TypeOK, Steps
  <1>2. JournalIsReserved'
    BY DEF Moved, IInv, JournalIsReserved
  <1>3. ControlInv'
    BY DEF Moved, IInv, ControlInv, Applying
  <1>4. DiskInv' /\ UserBytesKept'
    BY DiskFrame DEF Moved, IInv, ControlInv, Applying
  <1>5. StepInv'
    BY DEF Moved, IInv, StepInv, Untouched
  <1>6. BackupInv'
    BY <1>0 DEF Moved, matches_snapshot, IInv, BackupInv, CursorInv,
       ControlInv, Applying
  <1>7. CursorInv'
    BY <1>0 DEF Moved, matches_snapshot, IInv, CursorInv
  <1>8. DeliveredInv'
    BY DEF Moved, IInv, DeliveredInv, Untouched
  <1>9. ReleasedInv'
    BY DEF Moved, IInv, ReleasedInv, ControlInv
  <1> QED
    BY <1>1, <1>2, <1>3, <1>4, <1>5, <1>6, <1>7, <1>8, <1>9 DEF IInv


(* A changed file goes back over what was written after the look only.     *)
LEMMA PutBackIInv ==
  ASSUME IInv, PutBack
  PROVE  IInv'
  <1> PICK p \in Paths : cursor = <<p>>
    BY DEF PutBack, IInv, CursorInv
  <1>0. /\ cursor[1] = p /\ backup[p] \notin {Nothing, Base}
        /\ tree[p] = Nothing \/ <<p, tree[p]>> \in raced
    BY DEF PutBack, IInv, CursorInv
  <1>1. TypeOK'
    BY <1>0 DEF PutBack, IInv, TypeOK, Steps, Content
  <1>2. JournalIsReserved'
    BY DEF PutBack, IInv, JournalIsReserved
  <1>3. ControlInv'
    BY DEF PutBack, IInv, ControlInv, Applying
  <1>4. DiskInv'
    BY <1>0 DEF PutBack, IInv, DiskInv, ControlInv, Applying, Recoverable,
       TypeOK, Untouched
  <1>5. StepInv' /\ BackupInv'
    BY DEF PutBack, IInv, StepInv, BackupInv, ControlInv, Applying
  <1>6. CursorInv'
    BY CursorFrame DEF PutBack
  <1>7. UserBytesKept'
    <2> SUFFICES ASSUME NEW e \in live \ raced PROVE OnDisk(e)'
      BY DEF PutBack, UserBytesKept
    <2>1. e = <<e[1], e[2]>> /\ e[1] \in Paths /\ e[2] \in UserText
      BY DEF IInv, TypeOK
    <2>2. e[1] = p => tree[p] # e[2]
      BY <1>0, <2>1 DEF UserText
    <2> QED
      BY <1>0, <2>1, <2>2 DEF PutBack, IInv, UserBytesKept, OnDisk, TypeOK
  <1>8. DeliveredInv'
    BY DEF PutBack, IInv, DeliveredInv, Untouched
  <1>9. ReleasedInv'
    BY DEF PutBack, IInv, ReleasedInv, ControlInv
  <1> QED
    BY <1>1, <1>2, <1>3, <1>4, <1>5, <1>6, <1>7, <1>8, <1>9 DEF IInv

(* A file is installed where nothing is.                                   *)
LEMMA InstallIInv ==
  ASSUME IInv, Install
  PROVE  IInv'
  <1>1. TypeOK'
    BY DEF Install, IInv, TypeOK, Steps, Content
  <1>2. JournalIsReserved'
    BY DEF Install, IInv, JournalIsReserved
  <1>3. ControlInv'
    BY DEF Install, IInv, ControlInv, Applying
  <1>4. DiskInv'
    BY DEF Install, IInv, DiskInv, ControlInv, StepInv, Applying, Recoverable,
           TypeOK, Paths, Untouched, capture_journal
  <1>5. StepInv'
    BY DEF Install, IInv, StepInv
  <1>6. BackupInv'
    BY DEF Install, IInv, BackupInv, Snapshots
  <1>7. UserBytesKept'
    BY DEF Install, IInv, UserBytesKept, OnDisk, TypeOK, UserText
  <1>8. DeliveredInv'
    BY DEF Install, IInv, DeliveredInv, Untouched
  <1>9. ReleasedInv'
    BY DEF Install, IInv, ReleasedInv, ControlInv
  <1>10. CursorInv'
    BY CursorFrame DEF Install
  <1> QED
    BY <1>1, <1>2, <1>3, <1>4, <1>5, <1>6, <1>7, <1>8, <1>9, <1>10 DEF IInv

(* The marker is written only over a verified tree.                        *)
LEMMA VerifyIInv ==
  ASSUME IInv, Verify
  PROVE  IInv'
  <1>1. TypeOK'
    BY DEF Verify, IInv, TypeOK, Steps
  <1>2. JournalIsReserved'
    BY DEF Verify, IInv, JournalIsReserved
  <1>3. ControlInv'
    BY DEF Verify, IInv, ControlInv, Applying
  <1>4. DiskInv' /\ UserBytesKept'
    BY DiskFrame DEF Verify, IInv, ControlInv, Applying
  <1>5. StepInv'
    BY DEF Verify, verify_promoted, StepInv, Untouched, AsCandidate
  <1>6. BackupInv'
    BY DEF Verify, IInv, BackupInv, Snapshots
  <1>7. DeliveredInv'
    BY DEF Verify, IInv, DeliveredInv, Untouched
  <1>8. ReleasedInv'
    BY DEF Verify, IInv, ReleasedInv, ControlInv
  <1>10. CursorInv'
    BY CursorFrame DEF Verify
  <1> QED
    BY <1>1, <1>2, <1>3, <1>4, <1>5, <1>6, <1>7, <1>8, <1>10 DEF IInv

(* From the marker on the delivery only goes forward.                      *)
LEMMA CommitIInv ==
  ASSUME IInv, Commit
  PROVE  IInv'
  <1>1. TypeOK'
    BY DEF Commit, IInv, TypeOK, Steps
  <1>2. JournalIsReserved'
    BY DEF Commit, IInv, JournalIsReserved, ControlInv
  <1>3. ControlInv'
    BY DEF Commit, IInv, ControlInv, Applying
  <1>4. DiskInv'
    BY DEF Commit, IInv, DiskInv, ControlInv, StepInv, Applying, Untouched,
           AsCandidate
  <1>5. StepInv'
    BY DEF Commit, IInv, StepInv, Untouched, AsCandidate
  <1>6. BackupInv'
    BY DEF Commit, IInv, BackupInv, Snapshots
  <1>7. UserBytesKept'
    BY DEF Commit, IInv, UserBytesKept, OnDisk
  <1>8. DeliveredInv'
    BY DEF Commit, IInv, DeliveredInv, Untouched
  <1>9. ReleasedInv'
    BY DEF Commit, IInv, ReleasedInv, ControlInv
  <1>10. CursorInv'
    BY CursorFrame DEF Commit
  <1> QED
    BY <1>1, <1>2, <1>3, <1>4, <1>5, <1>6, <1>7, <1>8, <1>9, <1>10 DEF IInv

(* Cleanup throws away snapshots only, and the marker last.                *)
LEMMA CleanupIInv ==
  ASSUME IInv, Cleanup
  PROVE  IInv'
  <1>1. TypeOK'
    <2>1. committed' \in BOOLEAN
      BY Zenon DEF Cleanup, IInv, TypeOK
    <2>2. after \in Steps /\ (todo = {} => todo \ {} = {})
      BY DEF IInv, TypeOK
    <2> QED
      BY <2>1, <2>2 DEF Cleanup, IInv, TypeOK, Content, Digest
  <1>2. JournalIsReserved'
    BY DEF Cleanup, IInv, JournalIsReserved
  <1>3. ControlInv'
    BY DEF Cleanup, IInv, ControlInv, Applying
  <1>4. DiskInv'
    BY DEF Cleanup, IInv, DiskInv, ControlInv, StepInv, Clean, TypeOK,
           Untouched, AsCandidate
  <1>5. StepInv'
    BY DEF Cleanup, IInv, StepInv, ControlInv, DiskInv, TypeOK, Untouched,
           AsCandidate
  <1>6. BackupInv'
    BY DEF Cleanup, IInv, BackupInv, ControlInv, Snapshots, TypeOK
  <1>7. UserBytesKept'
    BY DEF Cleanup, IInv, UserBytesKept, OnDisk, BackupInv, Snapshots, ControlInv,
           TypeOK, UserText
  <1>8. DeliveredInv'
    BY DEF Cleanup, IInv, DeliveredInv, Untouched
  <1>9. ReleasedInv'
    BY DEF Cleanup, IInv, ReleasedInv, ControlInv
  <1>10. CursorInv'
    BY CursorFrame DEF Cleanup, IInv, ControlInv
  <1> QED
    BY <1>1, <1>2, <1>3, <1>4, <1>5, <1>6, <1>7, <1>8, <1>9, <1>10 DEF IInv

(* Rollback looks at what was installed, and links what the user wrote.    *)
LEMMA UndoIInv ==
  ASSUME IInv, Undo
  PROVE  IInv'
  <1>1. TypeOK'
    BY DEF Undo, IInv, TypeOK, Steps, Content
  <1>2. JournalIsReserved'
    BY DEF Undo, IInv, JournalIsReserved
  <1>3. ControlInv'
    BY DEF Undo, IInv, ControlInv, Applying
  <1>4. DiskInv'
    BY DEF Undo, IInv, DiskInv, ControlInv, Clean, Recoverable, Untouched,
           AsBase, AsCandidate
  <1>5. StepInv'
    BY DEF Undo, matches_snapshot, IInv, StepInv, CursorInv, ControlInv,
           TypeOK, Untouched
  <1>6. BackupInv'
    BY DEF Undo, IInv, BackupInv, ControlInv, Snapshots
  <1>7. \A p \in Paths : \A k \in kept[p] : k \in kept'[p]
    BY DEF Undo, IInv, TypeOK
  <1>8. UserBytesKept'
    <2>1. UNCHANGED <<tree, backup, live, raced>>
      BY DEF Undo
    <2>2. \A e \in live : e[1] \in Paths
      BY DEF IInv, TypeOK
    <2> QED
      BY <1>7, <2>1, <2>2 DEF IInv, UserBytesKept, OnDisk
  <1>9. CursorInv'
    <2>1. CASE pc' = "unlink"
      <3> PICK p \in todo : /\ LookedAt(p, "unlink")
                            /\ \/ matches_approved(tree[p])
                               \/ /\ tree[p] \in UserText
                                  /\ kept' = [kept EXCEPT ![p] = @ \cup {<<journal, tree[p]>>}]
        BY <2>1 DEF Undo
      <3>1. p \in Paths /\ cursor' = <<p>> /\ UNCHANGED <<tree, touched, raced>>
        BY DEF Undo, IInv, TypeOK
      <3>2. p \in Untouched => tree[p] = Approved
        BY <3>1, PathAssumption
        DEF IInv, TypeOK, DiskInv, ControlInv, Undo, Recoverable, UserText,
            matches_approved, capture_journal
      <3>3. tree[p] \in UserText => KeptText(p)'
        <4> SUFFICES ASSUME tree[p] \in UserText PROVE KeptText(p)'
          OBVIOUS
        <4>1. kept' = [kept EXCEPT ![p] = @ \cup {<<journal, tree[p]>>}]
          BY DEF matches_approved, UserText
        <4>2. <<journal, tree[p]>> \in kept'[p]
          BY <3>1, <4>1 DEF IInv, TypeOK
        <4> QED
          BY <3>1, <4>2 DEF KeptText
      <3> QED
        BY <2>1, <3>1, <3>2, <3>3 DEF CursorInv, Untouched
    <2>2. CASE pc' # "unlink"
      BY <2>2, CursorFrame DEF Undo
    <2> QED
      BY <2>1, <2>2
  <1>10. DeliveredInv'
    BY DEF Undo, IInv, DeliveredInv, Untouched
  <1>11. ReleasedInv'
    BY DEF Undo, IInv, ReleasedInv, ControlInv
  <1> QED
    BY <1>1, <1>2, <1>3, <1>4, <1>5, <1>6, <1>8, <1>9, <1>10, <1>11 DEF IInv

(* The unlink destroys a file of the candidate, a file that is kept, or    *)
(* what was written after the look.                                        *)
LEMMA UnlinkIInv ==
  ASSUME IInv, Unlink
  PROVE  IInv'
  <1> PICK p \in Paths : cursor = <<p>>
    BY DEF Unlink, IInv, CursorInv
  <1>0. /\ cursor[1] = p
        /\ p \in Untouched => tree[p] = Approved
        /\ tree[p] \in UserText => <<p, tree[p]>> \in raced \/ KeptText(p)
    BY DEF Unlink, IInv, CursorInv
  <1>1. TypeOK'
    BY <1>0 DEF Unlink, IInv, TypeOK, Steps, Content
  <1>2. JournalIsReserved'
    BY DEF Unlink, IInv, JournalIsReserved
  <1>3. ControlInv'
    BY DEF Unlink, IInv, ControlInv, Applying
  <1>4. DiskInv'
    BY <1>0, PathAssumption
    DEF Unlink, IInv, DiskInv, ControlInv, Recoverable, TypeOK, Untouched,
        capture_journal
  <1>5. StepInv'
    BY <1>0 DEF Unlink, IInv, StepInv, TypeOK, Untouched
  <1>6. BackupInv'
    BY DEF Unlink, IInv, BackupInv, Snapshots
  <1>7. UserBytesKept'
    <2> SUFFICES ASSUME NEW e \in live \ raced PROVE OnDisk(e)'
      BY DEF Unlink, UserBytesKept
    <2>1. e = <<e[1], e[2]>> /\ e[1] \in Paths /\ e[2] \in UserText
      BY DEF IInv, TypeOK
    <2>2. e[1] = p /\ tree[p] = e[2] => \E k \in kept[p] : k[2] = e[2]
      BY <1>0, <2>1 DEF KeptText
    <2> QED
      BY <1>0, <2>1, <2>2 DEF Unlink, IInv, UserBytesKept, OnDisk, TypeOK
  <1>8. CursorInv'
    BY CursorFrame DEF Unlink
  <1>9. DeliveredInv'
    BY DEF Unlink, IInv, DeliveredInv, Untouched
  <1>10. ReleasedInv'
    BY DEF Unlink, IInv, ReleasedInv, ControlInv
  <1> QED
    BY <1>1, <1>2, <1>3, <1>4, <1>5, <1>6, <1>7, <1>8, <1>9, <1>10 DEF IInv

(* Rollback puts every snapshot back before the journal goes.              *)
LEMMA RestoreIInv ==
  ASSUME IInv, Restore
  PROVE  IInv'
  <1>1. TypeOK'
    <2>1. committed' \in BOOLEAN
      BY Zenon DEF Restore, IInv, TypeOK
    <2>2. tree' \in [Paths -> Content] /\ backup' \in [Paths -> Content]
      BY DEF Restore, IInv, TypeOK, Content
    <2> QED
      BY <2>1, <2>2 DEF Restore, IInv, TypeOK, Steps, Digest
  <1>2. JournalIsReserved'
    BY DEF Restore, IInv, JournalIsReserved
  <1>3. ControlInv'
    BY DEF Restore, IInv, ControlInv, Applying
  <1>4. DiskInv'
    BY DEF Restore, IInv, DiskInv, ControlInv, StepInv, Clean, Recoverable,
           TypeOK, Untouched, AsBase, capture_journal
  <1>5. StepInv'
    BY DEF Restore, IInv, StepInv, ControlInv, DiskInv, Clean, Recoverable,
           TypeOK, Untouched, AsBase
  <1>6. BackupInv'
    BY DEF Restore, IInv, BackupInv, ControlInv, Snapshots, TypeOK
  <1>7. UserBytesKept'
    BY DEF Restore, IInv, UserBytesKept, OnDisk, TypeOK, UserText
  <1>8. DeliveredInv'
    BY DEF Restore, IInv, DeliveredInv, Untouched
  <1>9. ReleasedInv'
    <2>1. UNCHANGED <<reserved, workflow, edits, errors, touched, head>> /\ reserved
      BY DEF Restore, IInv, ControlInv
    <2>2. pc' = "failed" /\ journal' = NoDigest /\ ~committed' => AsBase'
      BY DEF Restore, IInv, TypeOK, DiskInv, StepInv, Clean, AsBase, Untouched
    <2> QED
      BY <2>1, <2>2 DEF IInv, ReleasedInv
  <1>10. CursorInv'
    BY CursorFrame DEF Restore, IInv, ControlInv
  <1> QED
    BY <1>1, <1>2, <1>3, <1>4, <1>5, <1>6, <1>7, <1>8, <1>9, <1>10 DEF IInv

(* The reservation is released only with nothing left to recover.          *)
LEMMA FailedIInv ==
  ASSUME IInv, Failed
  PROVE  IInv'
  <1>1. TypeOK'
    BY DEF Failed, delivery_recovery_required, release_candidate_delivery,
           IInv, TypeOK, Steps
  <1>2. JournalIsReserved'
    BY DEF Failed, delivery_recovery_required, IInv, JournalIsReserved
  <1>3. ControlInv'
    BY DEF Failed, ControlInv, Applying
  <1>4. DiskInv' /\ UserBytesKept'
    BY DiskFrame DEF Failed
  <1>5. StepInv'
    BY DEF Failed, StepInv
  <1>6. BackupInv'
    BY DEF Failed, IInv, BackupInv, Snapshots
  <1>7. DeliveredInv'
    BY DEF Failed, IInv, DeliveredInv, Untouched, AsCandidate
  <1>8. ReleasedInv'
    BY DEF Failed, delivery_recovery_required, release_candidate_delivery,
           IInv, ReleasedInv, Untouched, AsBase
  <1>10. CursorInv'
    BY CursorFrame DEF Failed
  <1> QED
    BY <1>1, <1>2, <1>3, <1>4, <1>5, <1>6, <1>7, <1>8, <1>10 DEF IInv

(* The workflow is completed over the candidate's files.                   *)
LEMMA DeliverIInv ==
  ASSUME IInv, Deliver
  PROVE  IInv'
  <1>1. TypeOK'
    <2>1. reserved' \in BOOLEAN
      BY Zenon
      DEF Deliver, deliver_reserved_candidate, release_candidate_delivery
    <2> QED
      BY <2>1
      DEF Deliver, deliver_reserved_candidate, release_candidate_delivery,
          IInv, TypeOK, Steps, Digest
  <1>2. JournalIsReserved'
    BY DEF Deliver, IInv, JournalIsReserved, ControlInv
  <1>3. ControlInv'
    BY DEF Deliver, ControlInv, Applying
  <1>4. DiskInv' /\ UserBytesKept'
    BY DiskFrame DEF Deliver
  <1>5. StepInv'
    BY DEF Deliver, StepInv
  <1>6. BackupInv'
    BY DEF Deliver, IInv, BackupInv, ControlInv
  <1>7. DeliveredInv'
    BY DEF Deliver, IInv, DeliveredInv, ControlInv, StepInv, Untouched,
           AsCandidate
  <1>8. ReleasedInv'
    BY DEF Deliver, deliver_reserved_candidate, IInv, ReleasedInv
  <1>10. CursorInv'
    BY CursorFrame DEF Deliver
  <1> QED
    BY <1>1, <1>2, <1>3, <1>4, <1>5, <1>6, <1>7, <1>8, <1>10 DEF IInv

(* A workflow is cancelled only when nothing of it is in the tree.         *)
LEMMA CancelIInv ==
  ASSUME IInv, Cancel
  PROVE  IInv'
  <1>1. TypeOK'
    BY DEF Cancel, IInv, TypeOK
  <1>2. JournalIsReserved'
    BY DEF Cancel, IInv, JournalIsReserved
  <1>3. ControlInv'
    BY DEF Cancel, IInv, ControlInv
  <1>4. DiskInv' /\ UserBytesKept'
    BY DiskFrame DEF Cancel
  <1>5. StepInv'
    BY DEF Cancel, IInv, StepInv, ControlInv
  <1>6. BackupInv'
    BY DEF Cancel, IInv, BackupInv, Snapshots
  <1>7. DeliveredInv'
    BY DEF Cancel, DeliveredInv
  <1>8. ReleasedInv'
    BY DEF Cancel, IInv, ReleasedInv, Untouched, AsBase
  <1>10. CursorInv'
    BY DEF Cancel, IInv, CursorInv, Untouched, KeptText
  <1> QED
    BY <1>1, <1>2, <1>3, <1>4, <1>5, <1>6, <1>7, <1>8, <1>10 DEF IInv

(* A commit of the user moves HEAD.                                        *)
LEMMA UserCommitIInv ==
  ASSUME IInv, UserCommit
  PROVE  IInv'
  <1>1. TypeOK'
    <2>1. head' \in BOOLEAN
      BY Zenon DEF UserCommit
    <2> QED
      BY <2>1, PathAssumption DEF UserCommit, IInv, TypeOK
  <1>2. JournalIsReserved'
    BY DEF UserCommit, IInv, JournalIsReserved
  <1>3. ControlInv'
    BY DEF UserCommit, IInv, ControlInv
  <1>4. DiskInv' /\ UserBytesKept'
    BY DiskFrame DEF UserCommit
  <1>5. StepInv'
    BY DEF UserCommit, IInv, StepInv, Untouched, AsBase, AsCandidate
  <1>6. BackupInv'
    BY DEF UserCommit, IInv, BackupInv, Snapshots
  <1>7. DeliveredInv'
    BY DEF UserCommit, IInv, DeliveredInv, Untouched, AsCandidate
  <1>8. ReleasedInv'
    <2>1. edits' # 0 /\ UNCHANGED <<workflow, reserved>>
      BY DEF UserCommit, IInv, TypeOK
    <2> QED
      BY <2>1 DEF IInv, ReleasedInv
  <1>10. CursorInv'
    BY DEF UserCommit, IInv, CursorInv, Untouched, KeptText
  <1> QED
    BY <1>1, <1>2, <1>3, <1>4, <1>5, <1>6, <1>7, <1>8, <1>10 DEF IInv

(* What a crash leaves behind is on disk and in the store.                 *)
LEMMA CrashIInv ==
  ASSUME IInv, Crash
  PROVE  IInv'
  <1>1. TypeOK'
    BY PathAssumption DEF Crash, IInv, TypeOK, Steps, Digest
  <1>2. JournalIsReserved'
    BY DEF Crash, IInv, JournalIsReserved
  <1>3. ControlInv'
    BY DEF Crash, ControlInv, Applying
  <1>4. DiskInv'
    BY DEF Crash, IInv, DiskInv, Clean, Recoverable, Untouched, AsBase,
           AsCandidate
  <1>5. StepInv'
    BY DEF Crash, StepInv
  <1>6. BackupInv'
    BY DEF Crash, IInv, BackupInv, Snapshots
  <1>7. UserBytesKept'
    BY DEF Crash, IInv, UserBytesKept, OnDisk, TypeOK
  <1>8. DeliveredInv'
    BY DEF Crash, IInv, DeliveredInv, Untouched, AsCandidate
  <1>9. ReleasedInv'
    BY DEF Crash, IInv, ReleasedInv, ControlInv
  <1>10. CursorInv'
    BY CursorFrame DEF Crash
  <1> QED
    BY <1>1, <1>2, <1>3, <1>4, <1>5, <1>6, <1>7, <1>8, <1>9, <1>10 DEF IInv

(* A failing call rolls back, or leaves the journal to recovery.           *)
LEMMA IOErrorIInv ==
  ASSUME IInv, IOError
  PROVE  IInv'
  <1>0. /\ committed' \in BOOLEAN
        /\ committed' # committed => pc = "commit" /\ pc' = "undo"
    BY Zenon DEF IOError, IInv, TypeOK
  <1>1. TypeOK'
    <2>1. /\ UNCHANGED <<tree, backup, incoming, kept, journal, store, head, edits,
                         crashes, touched, live, raced, nonce, expected, digest>>
          /\ errors' = errors + 1 /\ errors < MaxErrors
          /\ cursor' = <<>>
      BY Zenon DEF IOError
    <2>2. /\ pc' \in {"undo", "failed", "idle"} /\ todo' \in {{}, Paths}
          /\ after' \in {after, "failed"}
      BY Zenon DEF IOError
    <2> QED
      BY <1>0, <2>1, <2>2, PathAssumption DEF IInv, TypeOK, Steps
  <1>2. JournalIsReserved'
    BY <1>0 DEF IOError, IInv, JournalIsReserved, ControlInv
  <1>3. ControlInv'
    <2>1. UNCHANGED <<journal, reserved>>
      BY DEF IOError
    <2>2. /\ pc # "idle"
          /\ \/ pc' = "undo" /\ pc \in Applying /\ after' = "failed"
             \/ pc' \in {"failed", "idle"}
      BY DEF IOError, Applying
    <2> QED
      BY <2>1, <2>2 DEF IInv, ControlInv, Applying
  <1>4. DiskInv' /\ UserBytesKept'
    <2>1. CASE committed' = committed
      BY <2>1, DiskFrame DEF IOError, IInv, ControlInv, Applying
    <2>2. CASE committed' # committed
      <3>1. /\ UNCHANGED <<tree, backup, incoming, kept, journal, touched, live, raced>>
            /\ pc = "commit"
        BY <1>0, <2>2 DEF IOError
      <3>2. journal # NoDigest /\ \A p \in Untouched : Recoverable(p)
        BY <3>1 DEF IInv, ControlInv, Applying, DiskInv
      <3>3. DiskInv'
        BY <3>1, <3>2 DEF DiskInv, Recoverable, Untouched
      <3> QED
        BY <3>1, <3>3 DEF IInv, UserBytesKept, OnDisk
    <2> QED
      BY <2>1, <2>2
  <1>5. StepInv'
    BY DEF IOError, StepInv
  <1>6. BackupInv'
    <2>1. UNCHANGED backup /\ pc' \in {"undo", "failed", "idle"}
      BY DEF IOError
    <2> QED
      BY <1>0, <2>1 DEF IInv, BackupInv, Snapshots
  <1>7. DeliveredInv'
    BY <1>0 DEF IOError, IInv, DeliveredInv, Untouched, AsCandidate
  <1>8. ReleasedInv'
    <2>1. errors' # 0 /\ UNCHANGED <<workflow, reserved, edits, touched, head>>
      BY DEF IOError, IInv, TypeOK
    <2> QED
      BY <2>1 DEF IInv, ReleasedInv
  <1>10. CursorInv'
    BY CursorFrame DEF IOError
  <1> QED
    BY <1>1, <1>2, <1>3, <1>4, <1>5, <1>6, <1>7, <1>8, <1>10 DEF IInv

(* The user may write any path at any time.                                *)
LEMMA UserWriteIInv ==
  ASSUME IInv, NEW p \in Paths, UserWrite(p)
  PROVE  IInv'
  <1>1. TypeOK'
    BY PathAssumption DEF UserWrite, IInv, TypeOK, Content, UserText
  <1>2. JournalIsReserved'
    BY DEF UserWrite, IInv, JournalIsReserved
  <1>3. ControlInv'
    BY DEF UserWrite, IInv, ControlInv
  <1>4. DiskInv'
    BY DEF UserWrite, IInv, DiskInv, Clean, Recoverable, Untouched, AsBase,
           AsCandidate
  <1>5. StepInv'
    BY DEF UserWrite, IInv, StepInv, Untouched, AsBase, AsCandidate
  <1>6. BackupInv'
    BY DEF UserWrite, IInv, BackupInv, Snapshots
  <1>7. UserBytesKept'
    BY DEF UserWrite, IInv, UserBytesKept, OnDisk, TypeOK
  <1>8. DeliveredInv'
    BY DEF UserWrite, IInv, DeliveredInv, Untouched, AsCandidate
  <1>9. ReleasedInv'
    <2>1. edits' # 0 /\ UNCHANGED <<workflow, reserved>>
      BY DEF UserWrite, IInv, TypeOK
    <2> QED
      BY <2>1 DEF IInv, ReleasedInv
  <1>10. CursorInv'
    <2> SUFFICES ASSUME NEW q \in Paths, cursor = <<q>>
                 PROVE  /\ pc = "rename" => backup[q] = Nothing
                        /\ pc = "moved" => backup[q] # Nothing
                        /\ pc = "putback" =>
                             /\ backup[q] \notin {Nothing, Base}
                             /\ tree'[q] = Nothing \/ <<q, tree'[q]>> \in raced'
                        /\ pc = "unlink" =>
                             /\ q \in Untouched' => tree'[q] = Approved
                             /\ tree'[q] \in UserText =>
                                  <<q, tree'[q]>> \in raced' \/ KeptText(q)'
      BY DEF UserWrite, IInv, CursorInv
    <2>1. CASE q # p
      <3>1. tree'[q] = tree[q] /\ raced \subseteq raced' /\ UNCHANGED kept
        BY <2>1 DEF UserWrite, IInv, TypeOK
      <3>2. q \in Untouched' => q \in Untouched
        BY DEF UserWrite, Untouched
      <3> QED
        BY <3>1, <3>2 DEF IInv, CursorInv, KeptText
    <2>2. CASE q = p
      <3>1. p \notin Untouched'
        BY DEF UserWrite, Untouched
      <3>2. pc \in {"putback", "unlink"} =>
              tree'[p] = Nothing \/ <<p, tree'[p]>> \in raced'
        BY <2>2 DEF UserWrite, Window, IInv, TypeOK
      <3>3. /\ pc = "rename" => backup[p] = Nothing
            /\ pc = "moved" => backup[p] # Nothing
            /\ pc = "putback" => backup[p] \notin {Nothing, Base}
        BY <2>2 DEF IInv, CursorInv
      <3>4. Nothing \notin UserText
        BY DEF UserText
      <3> QED
        BY <2>2, <3>1, <3>2, <3>3, <3>4
    <2> QED
      BY <2>1, <2>2
  <1> QED
    BY <1>1, <1>2, <1>3, <1>4, <1>5, <1>6, <1>7, <1>8, <1>9, <1>10 DEF IInv

-----------------------------------------------------------------------------
(* The invariant is inductive.                                             *)
LEMMA NextIInv == IInv /\ [Next]_vars => IInv'
  <1> SUFFICES ASSUME IInv, [Next]_vars PROVE IInv'
    OBVIOUS
  <1>1. CASE PromoteCandidate \/ Step
    BY <1>1, PromoteCandidateIInv, RecoverIInv, CheckIInv, BindIInv,
       WriteJournalIInv, RecheckIInv, StageIInv, MoveIInv, RenameIInv,
       MovedIInv, PutBackIInv, InstallIInv, VerifyIInv, CommitIInv, CleanupIInv,
       UndoIInv, UnlinkIInv, RestoreIInv, FailedIInv, DeliverIInv
    DEF Step
  <1>2. CASE Environment
    BY <1>2, CancelIInv, UserCommitIInv, CrashIInv, IOErrorIInv, UserWriteIInv
    DEF Environment
  <1>3. CASE UNCHANGED vars
    <2>1. DiskInv' /\ UserBytesKept'
      BY <1>3, DiskFrame DEF vars
    <2>2. TypeOK' /\ JournalIsReserved' /\ ControlInv'
      BY <1>3 DEF vars, IInv, TypeOK, JournalIsReserved, ControlInv
    <2>3. CursorInv'
      BY <1>3 DEF vars, IInv, CursorInv, Untouched, KeptText
    <2>4. StepInv' /\ BackupInv' /\ DeliveredInv' /\ ReleasedInv'
      BY <1>3
      DEF vars, IInv, StepInv, BackupInv, DeliveredInv, ReleasedInv, Snapshots,
          AsBase, AsCandidate, Untouched
    <2> QED
      BY <2>1, <2>2, <2>3, <2>4 DEF IInv
  <1> QED
    BY <1>1, <1>2, <1>3 DEF Next

(* The inductive invariant holds of every behaviour.                       *)
THEOREM Invariance == Spec => []IInv
  BY InitIInv, NextIInv, PTL DEF Spec

(* Every state of a promotion is well typed.                               *)
THEOREM TypeCorrect == Spec => []TypeOK
  BY Invariance, PTL DEF IInv

(* A journal or a marker on disk always has its reservation, bound to this *)
(* very journal: recover_delivery_bound is never locked out.               *)
THEOREM JournalReserved == Spec => []JournalIsReserved
  BY Invariance, PTL DEF IInv

(* Once nothing is left to recover, a promotion has happened or it has     *)
(* not, and nothing of it lies about.                                      *)
THEOREM PromotionIsAtomic == Spec => []AllOrNothing
  <1>1. IInv => AllOrNothing
    BY DEF IInv, DiskInv, Clean, AsBase, AsCandidate, Untouched, AllOrNothing
  <1> QED
    BY <1>1, Invariance, PTL

(* No text of the user is destroyed by a promotion, its rollback or its    *)
(* recovery, wherever a crash or a failing call falls, except one written  *)
(* between the promoter's last look at the path and its rename or unlink.  *)
THEOREM UserBytesSafe == Spec => []UserBytesKept
  BY Invariance, PTL DEF IInv

(* Completed and cancelled workflows tell the truth about the tree.        *)
THEOREM OutcomeIsTrue == Spec => []OutcomeMatchesTree
  <1>1. IInv => OutcomeMatchesTree
    BY DEF IInv, DeliveredInv, ReleasedInv, AsBase, AsCandidate, Untouched,
           OutcomeMatchesTree, matches_base
  <1> QED
    BY <1>1, Invariance, PTL

=============================================================================
