--------------------------- MODULE DeliveryProofs ---------------------------
(***************************************************************************)
(* Proofs about promotion, for every manifest, every number of deliveries  *)
(* and recoveries in flight and every number of faults.                    *)
(***************************************************************************)
EXTENDS Delivery, TLAPS

(* What a call has established by the step it stands at.  The prefix of    *)
(* the verification loop is what makes CommitsApprovedBytes inductive, and *)
(* the steps after the commit are what makes CompletedMeansLanded so.      *)
CallKeepsPromise(c) ==
  /\ At(c, "verify") =>
       raced \/ \A f \in Files : f < call[c].at => disk[f] = "approved"
  /\ At(c, "commit") => raced \/ \A f \in Files : disk[f] = "approved"
  /\ At(c, "complete") \/ At(c, "finish") => landed \/ raced

IInv ==
  /\ TypeOK
  /\ \A c \in Calls : CallKeepsPromise(c)
  /\ CompletedMeansLanded

CallRecord == [pc : Steps, at : Files]

(* The first file of the manifest exists, so an idle call is well typed.   *)
LEMMA IdleType == Idle \in CallRecord /\ 1 \in Files /\ N \in Files
  BY ManifestAssumption DEF Idle, CallRecord, Files, Steps

(* Moving a call changes that call alone.                                  *)
LEMMA GotoMoves ==
  ASSUME call \in [Calls -> CallRecord], NEW c \in Calls, NEW pc \in Steps,
         NEW at \in Files, Goto(c, pc, at)
  PROVE  /\ call' \in [Calls -> CallRecord]
         /\ call'[c].pc = pc /\ call'[c].at = at
         /\ \A d \in Calls : d # c => call'[d] = call[d]
  BY DEF Goto, CallRecord

(* Ending a call changes that call alone.                                  *)
LEMMA EndMoves ==
  ASSUME call \in [Calls -> CallRecord], NEW c \in Calls, End(c)
  PROVE  /\ call' \in [Calls -> CallRecord]
         /\ call'[c].pc = "idle" /\ call'[c].at = 1
         /\ \A d \in Calls : d # c => call'[d] = call[d]
  BY IdleType DEF End, Idle, CallRecord

(* Nothing is in flight and nothing is claimed when delivery begins.       *)
LEMMA InitIInv == Init => IInv
  <1> SUFFICES ASSUME Init PROVE IInv
    OBVIOUS
  <1>1. call \in [Calls -> CallRecord]
    BY IdleType DEF Init
  <1>2. TypeOK
    <2>1. /\ disk \in [Files -> Contents] /\ tree \in [Files -> Contents]
          /\ faults \in 0..MaxFaults
      BY CallAssumption DEF Init, Contents
    <2>2. stray \in BOOLEAN /\ landed \in BOOLEAN /\ raced \in BOOLEAN
      BY Zenon DEF Init
    <2> QED
      BY <1>1, <2>1, <2>2 DEF Init, TypeOK, JournalStates, CallRecord
  <1>3. ASSUME NEW c \in Calls
        PROVE  CallKeepsPromise(c)
    <2>1. call[c].pc = "idle"
      BY DEF Init, Idle
    <2> QED
      BY <2>1 DEF CallKeepsPromise, At
  <1> QED
    BY <1>2, <1>3 DEF Init, IInv, CompletedMeansLanded

(* A step of one call leaves what the others established intact, as long   *)
(* as it only adds approved bytes and takes back no history.               *)
LEMMA OthersKeepPromise ==
  ASSUME IInv, NEW c \in Calls,
         \A d \in Calls : d # c => call'[d] = call[d],
         raced => raced', landed => landed',
         \A f \in Files : disk[f] = "approved" => disk'[f] = "approved",
         TypeOK', CallKeepsPromise(c)', CompletedMeansLanded'
  PROVE  IInv'
  <1> SUFFICES ASSUME NEW d \in Calls, d # c
               PROVE  CallKeepsPromise(d)'
    BY DEF IInv
  <1> QED
    BY DEF IInv, CallKeepsPromise, At

(* The steps before the first write only read.                             *)
LEMMA ReadingIInv ==
  ASSUME IInv, NEW c \in Calls,
         \/ End(c)
         \/ Goto(c, "head", 1) \/ Goto(c, "tree", 1) \/ Goto(c, "write", 1),
         journal' \in {journal, "prepared"},
         UNCHANGED <<row, repository, history>>, faults' \in 0..MaxFaults
  PROVE  IInv'
  <1>1. call \in [Calls -> CallRecord]
    BY DEF IInv, TypeOK, CallRecord
  <1>2. /\ call' \in [Calls -> CallRecord]
        /\ call'[c].pc \in {"idle", "head", "tree", "write"}
        /\ \A d \in Calls : d # c => call'[d] = call[d]
    BY <1>1, IdleType, GotoMoves, EndMoves DEF Steps
  <1>3. TypeOK'
    BY <1>2 DEF IInv, TypeOK, CallRecord, JournalStates, repository, history
  <1>4. CallKeepsPromise(c)'
    BY <1>2 DEF CallKeepsPromise, At
  <1>5. CompletedMeansLanded'
    BY DEF IInv, CompletedMeansLanded, history
  <1> QED
    BY <1>2, <1>3, <1>4, <1>5, OthersKeepPromise DEF repository, history

(* Every step of a promotion preserves the invariant.                      *)
LEMMA PromotionIInv ==
  ASSUME IInv, NEW c \in Calls, Promotion(c)
  PROVE  IInv'
  <1>1. /\ call \in [Calls -> CallRecord]
        /\ call[c].at \in Files
        /\ faults \in 0..MaxFaults
    BY DEF IInv, TypeOK, CallRecord
  <1> DEFINE f == call[c].at
  <1>f. f # N => f + 1 \in Files
    BY <1>1, ManifestAssumption DEF Files
  <1>2. CASE AssertHead(c)
    BY <1>1, <1>2, ReadingIInv DEF AssertHead
  <1>3. CASE AssertTree(c)
    BY <1>1, <1>3, ReadingIInv DEF AssertTree
  <1>4. CASE WriteFile(c)
    <2>1. CASE Kind[f] = "large" /\ disk[f] # "approved"
      BY <1>1, <1>4, <2>1, ReadingIInv DEF WriteFile, repository
    <2>2. CASE ~(Kind[f] = "large" /\ disk[f] # "approved")
      <3>1. /\ call' \in [Calls -> CallRecord]
            /\ \A d \in Calls : d # c => call'[d] = call[d]
            /\ \/ call'[c].pc = "write"
               \/ call'[c].pc = "verify" /\ call'[c].at = 1
        BY <1>1, <1>f, <1>4, <2>2, IdleType, GotoMoves DEF WriteFile, Steps
      <3>2. disk' = [disk EXCEPT ![f] = "approved"]
        BY <1>4, <2>2 DEF WriteFile
      <3>3. TypeOK'
        BY <1>4, <2>2, <3>1, <3>2
        DEF WriteFile, IInv, TypeOK, CallRecord, JournalStates, Contents,
            history
      <3>4. CallKeepsPromise(c)'
        BY <3>1 DEF CallKeepsPromise, At, Files
      <3>5. CompletedMeansLanded'
        BY <1>4, <2>2 DEF WriteFile, IInv, CompletedMeansLanded, history
      <3>6. \A g \in Files : disk[g] = "approved" => disk'[g] = "approved"
        BY <3>2 DEF IInv, TypeOK
      <3> QED
        BY <1>4, <3>1, <3>3, <3>4, <3>5, <3>6, OthersKeepPromise
        DEF WriteFile, history
    <2> QED
      BY <2>1, <2>2
  <1>5. CASE VerifyFile(c)
    <2>1. /\ call' \in [Calls -> CallRecord]
          /\ \A d \in Calls : d # c => call'[d] = call[d]
          /\ \/ call'[c].pc = "idle"
             \/ disk[f] = "approved" /\ f = N /\ call'[c].pc = "commit"
             \/ /\ disk[f] = "approved" /\ f # N
                /\ call'[c].pc = "verify" /\ call'[c].at = f + 1
      BY <1>1, <1>f, <1>5, IdleType, GotoMoves, EndMoves DEF VerifyFile, Steps
    <2>2. TypeOK'
      BY <1>5, <2>1
      DEF VerifyFile, IInv, TypeOK, CallRecord, JournalStates, repository,
          history
    <2>3. raced \/ \A g \in Files : g < f => disk[g] = "approved"
      BY <1>5 DEF VerifyFile, IInv, CallKeepsPromise, At
    <2>4. CallKeepsPromise(c)'
      <3>1. UNCHANGED <<disk, raced>>
        BY <1>5 DEF VerifyFile, repository, history
      <3>2. CASE call'[c].pc = "idle"
        BY <3>2 DEF CallKeepsPromise, At
      <3>3. CASE disk[f] = "approved" /\ f = N /\ call'[c].pc = "commit"
        <4>1. \A g \in Files : g < N \/ g = N
          BY ManifestAssumption DEF Files
        <4> QED
          BY <2>3, <3>1, <3>3, <4>1 DEF CallKeepsPromise, At
      <3>4. CASE /\ disk[f] = "approved"
                 /\ call'[c].pc = "verify" /\ call'[c].at = f + 1
        <4>1. \A g \in Files : g < f + 1 => g < f \/ g = f
          BY <1>1, ManifestAssumption DEF Files
        <4> QED
          BY <2>3, <3>1, <3>4, <4>1 DEF CallKeepsPromise, At
      <3> QED
        BY <2>1, <3>2, <3>3, <3>4
    <2>5. CompletedMeansLanded'
      BY <1>5 DEF VerifyFile, IInv, CompletedMeansLanded, history
    <2> QED
      BY <1>5, <2>1, <2>2, <2>4, <2>5, OthersKeepPromise
      DEF VerifyFile, repository, history
  <1>6. CASE CommitCandidate(c)
    <2>1. /\ call' \in [Calls -> CallRecord]
          /\ \A d \in Calls : d # c => call'[d] = call[d]
          /\ call'[c].pc = "complete"
      BY <1>1, <1>6, IdleType, GotoMoves DEF CommitCandidate, Steps
    <2>2. TypeOK'
      BY <1>6, <2>1 DEF CommitCandidate, IInv, TypeOK, CallRecord
    <2>3. landed' \/ raced'
      BY <1>6 DEF CommitCandidate, IInv, CallKeepsPromise, At
    <2>4. CallKeepsPromise(c)'
      BY <2>1, <2>3 DEF CallKeepsPromise, At
    <2>5. CompletedMeansLanded'
      BY <2>3 DEF CompletedMeansLanded
    <2> QED
      BY <1>6, <2>1, <2>2, <2>4, <2>5, OthersKeepPromise DEF CommitCandidate
  <1>7. CASE JournalCompleted(c) \/ Finish(c)
    <2>1. /\ call' \in [Calls -> CallRecord]
          /\ \A d \in Calls : d # c => call'[d] = call[d]
          /\ call'[c].pc \in {"finish", "idle"}
      BY <1>1, <1>7, IdleType, GotoMoves, EndMoves
      DEF JournalCompleted, Finish, Steps
    <2>2. TypeOK'
      BY <1>7, <2>1 DEF JournalCompleted, Finish, IInv, TypeOK, CallRecord,
                        JournalStates, repository, history
    <2>3. landed' \/ raced'
      BY <1>7 DEF JournalCompleted, Finish, IInv, CallKeepsPromise, At, history
    <2>4. CallKeepsPromise(c)'
      BY <2>1, <2>3 DEF CallKeepsPromise, At
    <2>5. CompletedMeansLanded'
      BY <2>3 DEF CompletedMeansLanded
    <2> QED
      BY <1>7, <2>1, <2>2, <2>4, <2>5, OthersKeepPromise
      DEF JournalCompleted, Finish, repository, history
  <1> QED
    BY <1>2, <1>3, <1>4, <1>5, <1>6, <1>7 DEF Promotion

(* The developer, a crash and a cancellation preserve the invariant: an    *)
(* edit under a finished verification is what `raced` remembers.           *)
LEMMA EnvironmentIInv ==
  ASSUME IInv,
         \/ Cancel \/ Crash \/ EditElsewhere \/ ForeignCommit
         \/ \E f \in Files, content \in Contents : Edit(f, content)
  PROVE  IInv'
  <1>1. Fault => faults' \in 0..MaxFaults
    BY CallAssumption DEF Fault, IInv, TypeOK
  <1>2. CASE Cancel
    BY <1>2 DEF Cancel, IInv, TypeOK, CallKeepsPromise, At,
                CompletedMeansLanded, repository, history
  <1>3. CASE Crash
    <2>1. \A c \in Calls : call'[c] = Idle
      BY <1>3 DEF Crash
    <2>2. TypeOK'
      BY <1>1, <1>3, IdleType
      DEF Crash, IInv, TypeOK, CallRecord, repository, history
    <2>3. \A c \in Calls : CallKeepsPromise(c)'
      BY <2>1 DEF CallKeepsPromise, At, Idle
    <2> QED
      BY <1>3, <2>2, <2>3 DEF Crash, IInv, CompletedMeansLanded, history
  <1>4. CASE EditElsewhere
    BY <1>1, <1>4 DEF EditElsewhere, IInv, TypeOK, CallKeepsPromise, At,
                      CompletedMeansLanded, history
  <1>5. CASE ForeignCommit
    BY <1>1, <1>5 DEF ForeignCommit, IInv, TypeOK, CallKeepsPromise, At,
                      CompletedMeansLanded, history
  <1>6. ASSUME NEW f \in Files, NEW content \in Contents, Edit(f, content)
        PROVE  IInv'
    <2>1. TypeOK'
      BY <1>1, <1>6 DEF Edit, IInv, TypeOK
    <2>2. ASSUME NEW c \in Calls
          PROVE  CallKeepsPromise(c)'
      <3>1. UNCHANGED <<call, landed>> /\ (raced => raced')
        BY <1>6 DEF Edit
      <3>2. \A g \in Files : g # f => disk'[g] = disk[g]
        BY <1>6 DEF Edit, IInv, TypeOK
      <3>3. Verified(c, f) => raced'
        BY <1>6 DEF Edit
      <3> QED
        BY <3>1, <3>2, <3>3 DEF IInv, CallKeepsPromise, Verified, At
    <2> QED
      BY <1>6, <2>1, <2>2 DEF Edit, IInv, CompletedMeansLanded
  <1> QED
    BY <1>2, <1>3, <1>4, <1>5, <1>6

(* The invariant is inductive.                                             *)
LEMMA NextIInv == IInv /\ [Next]_vars => IInv'
  <1> SUFFICES ASSUME IInv, [Next]_vars PROVE IInv'
    OBVIOUS
  <1>1. faults \in 0..MaxFaults
    BY DEF IInv, TypeOK
  <1>2. ASSUME NEW c \in Delivers, BeginDeliver(c) PROVE IInv'
    BY <1>1, <1>2, ReadingIInv DEF BeginDeliver, Calls
  <1>3. ASSUME NEW c \in Reconciles, BeginReconcile(c) PROVE IInv'
    BY <1>1, <1>3, ReadingIInv DEF BeginReconcile, Calls
  <1>4. ASSUME NEW c \in Calls, CallFails(c) PROVE IInv'
    <2>1. faults' \in 0..MaxFaults
      BY <1>1, <1>4, CallAssumption DEF CallFails, Fault
    <2> QED
      BY <1>4, <2>1, ReadingIInv DEF CallFails
  <1>5. CASE UNCHANGED vars
    BY <1>5 DEF vars, IInv, TypeOK, CallKeepsPromise, At, CompletedMeansLanded
  <1> QED
    BY <1>2, <1>3, <1>4, <1>5, PromotionIInv, EnvironmentIInv DEF Next

(* The inductive invariant holds of every behaviour.                       *)
THEOREM Invariance == Spec => []IInv
  BY InitIInv, NextIInv, PTL DEF Spec

(* Every state of promotion is well typed.                                 *)
THEOREM TypeCorrect == Spec => []TypeOK
  BY Invariance, PTL DEF IInv

(* The approved bytes are the bytes that are committed.                    *)
THEOREM ApprovedBytesLand == Spec => []CommitsApprovedBytes
  <1>1. IInv => CommitsApprovedBytes
    BY DEF IInv, CallKeepsPromise, CommitsApprovedBytes
  <1> QED
    BY <1>1, Invariance, PTL

(* A delivered workflow, and a completed journal, have a commit behind     *)
(* them.                                                                   *)
THEOREM CompletionIsTrue == Spec => []CompletedMeansLanded
  BY Invariance, PTL DEF IInv

=============================================================================
