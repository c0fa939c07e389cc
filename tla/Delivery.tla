------------------------------ MODULE Delivery ------------------------------
(***************************************************************************)
(* Promotion of an approved candidate (evidence/delivery.ts) and the two   *)
(* tools that run it: deliver and reconcile (workflow/service.ts).         *)
(*                                                                         *)
(* A call is an asynchronous function: it may be suspended at every await, *)
(* where another call, the developer's own editing or a crash of the       *)
(* control plane can intervene.  One action is the code from one await to  *)
(* the next.  The journal row, the workflow row and the working tree       *)
(* survive a crash; the calls do not.                                      *)
(***************************************************************************)
EXTENDS Integers

CONSTANTS
  N,              \* the manifest lists files 1..N in this order
  Kind,           \* how each file is promoted: "kept", "large" or "deleted"
  Delivers,       \* calls of workflow.deliver that may be in flight
  Reconciles,     \* calls of workflow.reconcile that may be in flight
  MaxFaults       \* bound: crashes, failed calls, edits and foreign commits

Files == 1..N
Calls == Delivers \cup Reconciles

ASSUME ManifestAssumption ==
  /\ N \in Nat \ {0}
  /\ Kind \in [Files -> {"kept", "large", "deleted"}]
ASSUME CallAssumption ==
  Delivers \cap Reconciles = {} /\ MaxFaults \in Nat

VARIABLES
  row,            \* the state column of the workflow
  journal,        \* the state column of the candidate's deliveries row
  disk,           \* what each manifest path holds in the working tree
  tree,           \* what each manifest path holds at HEAD
  head,           \* whose commit HEAD is
  stray,          \* a path outside the manifest differs from HEAD
  call,           \* where each call stands: its next step and its file index
  faults,         \* faults so far
  landed,         \* history: a delivery found HEAD holding the approved bytes
  raced           \* history: a path was edited after a running call verified it

vars == <<row, journal, disk, tree, head, stray, call, faults, landed, raced>>

(* "approved" stands for the bytes of the manifest, and for a deleted path *)
(* for its absence; "base" for what the base revision holds.               *)
Contents == {"base", "approved", "foreign"}
JournalStates == {"none", "prepared", "written", "aborted", "completed"}
Steps == {"idle", "head", "tree", "write", "verify", "commit", "complete",
          "finish"}

Idle == [pc |-> "idle", at |-> 1]

TypeOK ==
  /\ row \in {"delivery", "completed", "cancelled"}
  /\ journal \in JournalStates
  /\ disk \in [Files -> Contents]
  /\ tree \in [Files -> Contents]
  /\ head \in {"base", "delivered", "foreign"}
  /\ call \in [Calls -> [pc : Steps, at : Files]]
  /\ faults \in 0..MaxFaults
  /\ stray \in BOOLEAN /\ landed \in BOOLEAN /\ raced \in BOOLEAN

(* The candidate was approved with its bytes in the working tree.          *)
Init ==
  /\ row = "delivery"
  /\ journal = "none"
  /\ disk = [f \in Files |-> "approved"]
  /\ tree = [f \in Files |-> "base"]
  /\ head = "base"
  /\ stray = FALSE
  /\ call = [c \in Calls |-> Idle]
  /\ faults = 0
  /\ landed = FALSE
  /\ raced = FALSE

Goto(c, pc, at) == call' = [call EXCEPT ![c] = [pc |-> pc, at |-> at]]
End(c) == call' = [call EXCEPT ![c] = Idle]
At(c, pc) == call[c].pc = pc

repository == <<disk, tree, head, stray>>
history == <<landed, raced>>

-----------------------------------------------------------------------------
(* deliverCandidate loads the workflow and starts promote.                 *)
BeginDeliver(c) ==
  /\ At(c, "idle")
  /\ row = "delivery"
  /\ Goto(c, "head", 1)
  /\ UNCHANGED <<row, journal, repository, faults, history>>

(* Mutant: recovery forgets the rows that were written but not committed.  *)
Interrupted_prepared == journal = "prepared"

(* recoverDelivery looks for the journal row a crash left open.            *)
Interrupted == journal \in {"prepared", "written"}

(* reconcile resumes it without comparing the candidate again; with no     *)
(* open row it changes nothing.                                            *)
BeginReconcile(c) ==
  /\ At(c, "idle")
  /\ row = "delivery"
  /\ Interrupted
  /\ Goto(c, "write", 1)
  /\ UNCHANGED <<row, journal, repository, faults, history>>

(* assertUnchanged, first await: HEAD is still the base revision.          *)
AssertHead(c) ==
  /\ At(c, "head")
  /\ IF head = "base" THEN Goto(c, "tree", 1) ELSE End(c)
  /\ UNCHANGED <<row, journal, repository, faults, history>>

(* assertUnchanged, second await, with the journal entry that follows it:  *)
(* every path that differs from HEAD is a manifest path holding the        *)
(* approved bytes.  A path that no longer differs is not compared.         *)
Unchanged == /\ ~stray
             /\ \A f \in Files : disk[f] # tree[f] => disk[f] = "approved"

AssertTree(c) ==
  /\ At(c, "tree")
  /\ IF Unchanged THEN Goto(c, "write", 1) /\ journal' = "prepared"
                  ELSE End(c) /\ UNCHANGED journal
  /\ UNCHANGED <<row, repository, faults, history>>

(* Mutant: the write loop runs past the end of the manifest.               *)
WriteFile_overrun(c) ==
  /\ At(c, "write")
  /\ disk' = [disk EXCEPT ![call[c].at] = "approved"]
  /\ Goto(c, "write", call[c].at + 1)
  /\ UNCHANGED <<row, journal, tree, head, stray, faults, history>>

(* One file of the write loop.  A kept file is rewritten from its payload  *)
(* and journalled, a deleted one removed; a file too large to keep is only *)
(* compared, and a mismatch aborts with the journal as it stands.  The     *)
(* last file is followed by the "written" entry.                           *)
WriteFile(c) ==
  LET f == call[c].at IN
  /\ At(c, "write")
  /\ IF Kind[f] = "large" /\ disk[f] # "approved"
     THEN End(c) /\ UNCHANGED <<disk, journal>>
     ELSE /\ disk' = [disk EXCEPT ![f] = "approved"]
          /\ IF f = N THEN Goto(c, "verify", 1) ELSE Goto(c, "write", f + 1)
          /\ journal' = CASE f = N            -> "written"
                          [] Kind[f] = "kept" -> "prepared"
                          [] OTHER            -> journal
  /\ UNCHANGED <<row, tree, head, stray, faults, history>>

(* Mutant: the last file of the manifest is not read back.                 *)
VerifyFile_short(c) ==
  LET f == call[c].at IN
  /\ At(c, "verify")
  /\ IF disk[f] # "approved" /\ f # N
     THEN End(c) /\ journal' = "aborted"
     ELSE /\ IF f = N THEN Goto(c, "commit", 1) ELSE Goto(c, "verify", f + 1)
          /\ UNCHANGED journal
  /\ UNCHANGED <<row, repository, faults, history>>

(* Mutant: the completion is journalled without the commit.                *)
VerifyFile_uncommitted(c) ==
  LET f == call[c].at IN
  /\ At(c, "verify")
  /\ IF disk[f] # "approved"
     THEN End(c) /\ journal' = "aborted"
     ELSE /\ IF f = N THEN Goto(c, "complete", 1) ELSE Goto(c, "verify", f + 1)
          /\ UNCHANGED journal
  /\ UNCHANGED <<row, repository, faults, history>>

(* One file of the verification loop.                                      *)
VerifyFile(c) ==
  LET f == call[c].at IN
  /\ At(c, "verify")
  /\ IF disk[f] # "approved"
     THEN End(c) /\ journal' = "aborted"
     ELSE /\ IF f = N THEN Goto(c, "commit", 1) ELSE Goto(c, "verify", f + 1)
          /\ UNCHANGED journal
  /\ UNCHANGED <<row, repository, faults, history>>

(* commitCandidate: commits the manifest paths alone, or finds nothing     *)
(* pending and takes HEAD for the revision.  (git: external.)              *)
CommitCandidate(c) ==
  /\ At(c, "commit")
  /\ tree' = disk
  /\ head' = IF tree = disk THEN head ELSE "delivered"
  /\ landed' = (landed \/ \A f \in Files : disk[f] = "approved")
  /\ Goto(c, "complete", 1)
  /\ UNCHANGED <<row, journal, disk, stray, faults, raced>>

JournalCompleted(c) ==
  /\ At(c, "complete")
  /\ journal' = "completed"
  /\ Goto(c, "finish", 1)
  /\ UNCHANGED <<row, repository, faults, history>>

(* The deliver transition is applied to the record loaded when the call    *)
(* began, which was in delivery, and saved over whatever is stored.        *)
Finish(c) ==
  /\ At(c, "finish")
  /\ row' = "completed"
  /\ End(c)
  /\ UNCHANGED <<journal, repository, faults, history>>

-----------------------------------------------------------------------------
(* The environment.                                                        *)

(* control cancel is accepted in delivery.                                 *)
Cancel ==
  /\ row = "delivery"
  /\ row' = "cancelled"
  /\ UNCHANGED <<journal, repository, call, faults, history>>

Fault == faults < MaxFaults /\ faults' = faults + 1

(* A file operation or git fails: the call ends where it is.  The journal  *)
(* keeps its state, because only a verification mismatch writes "aborted". *)
CallFails(c) ==
  /\ Fault
  /\ call[c].pc \in {"head", "tree", "write", "commit", "complete"}
  /\ End(c)
  /\ UNCHANGED <<row, journal, repository, history>>

Crash ==
  /\ Fault
  /\ \E c \in Calls : ~At(c, "idle")
  /\ call' = [c \in Calls |-> Idle]
  /\ UNCHANGED <<row, journal, repository, history>>

Verified(c, f) == At(c, "commit") \/ (At(c, "verify") /\ f < call[c].at)

Edit(f, content) ==
  /\ Fault
  /\ disk[f] # content
  /\ disk' = [disk EXCEPT ![f] = content]
  /\ raced' = (raced \/ \E c \in Calls : Verified(c, f))
  /\ UNCHANGED <<row, journal, tree, head, stray, call, landed>>

EditElsewhere ==
  /\ Fault
  /\ stray' = ~stray
  /\ UNCHANGED <<row, journal, disk, tree, head, call, history>>

ForeignCommit ==
  /\ Fault
  /\ tree' \in {tree, disk}
  /\ head' = "foreign"
  /\ UNCHANGED <<row, journal, disk, stray, call, history>>

Promotion(c) ==
  \/ AssertHead(c) \/ AssertTree(c) \/ WriteFile(c) \/ VerifyFile(c)
  \/ CommitCandidate(c) \/ JournalCompleted(c) \/ Finish(c)

Next ==
  \/ \E c \in Delivers : BeginDeliver(c)
  \/ \E c \in Reconciles : BeginReconcile(c)
  \/ \E c \in Calls : Promotion(c) \/ CallFails(c)
  \/ Cancel \/ Crash \/ EditElsewhere \/ ForeignCommit
  \/ \E f \in Files, content \in Contents : Edit(f, content)

Spec == Init /\ [][Next]_vars

(* A running call is driven by the event loop, and the user asks again: a  *)
(* delivery that did not finish is delivered or resumed some time.         *)
Fairness ==
  /\ \A c \in Calls : WF_vars(Promotion(c))
  /\ \A c \in Delivers : WF_vars(BeginDeliver(c))
  /\ \A c \in Reconciles : WF_vars(BeginReconcile(c))

FairSpec == Spec /\ Fairness

-----------------------------------------------------------------------------
(* "The bytes that were approved are the bytes that land": a call about to *)
(* commit has every manifest path on disk as approved, whatever other      *)
(* calls and crashes came before, unless somebody edited a path after this *)
(* very verification read it.                                              *)
CommitsApprovedBytes ==
  \A c \in Calls : At(c, "commit") =>
    raced \/ \A f \in Files : disk[f] = "approved"

(* A workflow that claims to be delivered, and a journal that claims its   *)
(* delivery completed, are both backed by a commit of the approved bytes,  *)
(* across crashes, repeated deliveries and recoveries.                     *)
CompletedMeansLanded ==
  row = "completed" \/ journal = "completed" => landed \/ raced

(* recoverDelivery finishes what a crash interrupted: an open journal row  *)
(* is closed, one way or the other, once faults stop, unless a file that   *)
(* was too large to keep is gone for good.                                 *)
InterruptedDeliveryCloses ==
  row = "delivery" /\ journal \in {"prepared", "written"} ~>
    \/ row # "delivery"
    \/ journal \in {"aborted", "completed"}
    \/ \E f \in Files : Kind[f] = "large" /\ disk[f] # "approved"

(* delivery.ts: a control plane killed in between "finishes the same       *)
(* delivery instead of starting a new one": a promotion that was journalled *)
(* as completed completes its workflow.                                    *)
CompletedDeliveryIsRecorded ==
  journal = "completed" ~> row # "delivery"

=============================================================================
