----------------------------- MODULE DaemonProofs ---------------------------
(***************************************************************************)
(* Proofs about Daemon: whatever the number of candidates, plans and       *)
(* designs, the cycles allowed, the crashes, the pauses and the flights in *)
(* the air, what the daemon delivers was frozen, verified and judged, a    *)
(* rejected candidate never returns, the cycles count the rejections, and  *)
(* the chain tells what the rows say.                                      *)
(*                                                                         *)
(* A handler is a series of transactions under one mutex.  A crash may end *)
(* it between any two, a refused command ends it early, and a freeze or a  *)
(* run of the gates drops the mutex in its middle.  The invariant has a    *)
(* part on the rows (CoreInv, EvidenceInv), a part on the chain and what   *)
(* is still owed to it (LedgerInv), and one disjunct for every point a     *)
(* handler may stand at, with what it may rely on there (HandlerInv).      *)
(***************************************************************************)
EXTENDS Daemon, SequenceTheorems, FiniteSetTheorems, TLAPS

(* The transactions a handler leaves pending, by what they are for.        *)
Intake         == Tx(<<"complete-intake", 0, NoArg>>,
                     Command("complete_intake", NoCandidate, NoArg))
Decision(m)    == Audit("route", 0, m)
Route(m)       == Tx(<<"route", 0, NoArg>>, Command("route", NoCandidate, m))
Accept(d)      == Tx(<<"architecture-accepted", d, NoArg>>,
                     Command("architecture_accepted", NoCandidate, NoArg))
Essential      == Audit("essentiality", 0, NoArg)
Propose(c)     == Tx(<<"candidate", c, NoArg>>, Command("candidate_ready", c, NoArg))
Frozen(c)      == Audit("frozen", c, NoArg)
Ran(c, g)      == Audit("verification", c, g)
Pass(c)        == Tx(<<"verification-passed", c, NoArg>>,
                     Command("verification_passed", c, NoArg))
Block(c)       == Tx(<<"verification-blocked", c, NoArg>>,
                     Command("block_infrastructure", c, NoArg))
Reviewed(c, r) == Audit("review", c, r)
Ready(c)       == Tx(<<"reviews-ready", c, NoArg>>, Command("reviews_ready", c, NoArg))
Approve(c)     == Tx(<<"approved", c, NoArg>>, Command("approve", c, NoArg))
Judged(c, v)   == Audit("arbitration", c, v)
BeginRepair(c) == Tx(<<"begin-repair", c, NoArg>>, Command("begin_repair", c, NoArg))

Rejection(x, c, t) == Tx(<<"reject", c, t>>, Command(x, c, t))

Rejections == {"verification_rejected", "reject"}

CommandsOf(c) ==
  {Propose(c), Pass(c), Block(c), Ready(c), Approve(c), BeginRepair(c)}
  \cup UNION {{Rejection(x, c, t) : t \in Targets} : x \in Rejections}
AuditsOf(c) ==
  {Frozen(c)} \cup {Ran(c, g) : g \in Gates}
  \cup {Reviewed(c, r) : r \in Roles} \cup {Judged(c, v) : v \in Verdicts}
EvidenceOf(c) == UNION {{Evidence(c, g, o) : o \in Outcomes} : g \in Gates}

Step ==
  {Intake, Essential, Constraint("essentiality")}
  \cup {Decision(m) : m \in Modes} \cup {Route(m) : m \in Modes}
  \cup {Accept(d) : d \in Designs}
  \cup UNION {CommandsOf(c) \cup AuditsOf(c) \cup EvidenceOf(c) : c \in Candidates}

Has(s, t) == \E i \in 1..Len(s) : s[i] = t

(* What may follow the evidence of a run of the gates.                     *)
Closing(c) == {<<>>, <<Pass(c)>>, <<Block(c)>>, route(c, "execution")}

-----------------------------------------------------------------------------
(* The inductive invariant.                                                *)

(* The aggregate: where it was suspended is known, and it only runs with   *)
(* cycles left, which keeps the count of cycles below the width of a u8.   *)
Sane(w) ==
  /\ w.state = "paused" <=> w.paused_from # NoArg
  /\ w.state \notin {"blocked", "cancelled"} => w.blocked_from = NoArg
  /\ \/ w.cycles < w.maximum
     \/ /\ w.cycles = w.maximum
        /\ w.state \in {"blocked", "cancelled"} /\ w.blocked_from = NoArg

(* The current candidate and every rejected one were put forward, under a  *)
(* key that cannot be used again, and are saved.                           *)
KeyInv ==
  /\ \A c \in Candidates : <<"candidate", c, NoArg>> \in keys => Saved(c)
  /\ wf.candidate # NoCandidate => <<"candidate", wf.candidate, NoArg>> \in keys
  /\ IsFiniteSet(Rejected)
  /\ \A c \in Rejected : c \in Candidates /\ <<"candidate", c, NoArg>> \in keys

(* The aggregate stands still while a delivery is reserved.                *)
ReserveInv ==
  /\ reserved => wf.state = "delivery"
  /\ promoting => reserved

FlightInv ==
  \A f \in BagToSet(flights) :
    /\ f.c \in Candidates
    /\ f.kind = "freeze" => f.plan \in Plans
    /\ f.kind = "verify" => Saved(f.c)

(* Evidence belongs to saved candidates, of one candidate per plan; both   *)
(* gates are stored, the suite first, unless a crash comes between.        *)
EvidenceInv ==
  \A c \in Candidates :
    /\ \A g \in Gates : evidence[c][g] # NoArg => Saved(c)
    /\ evidence[c]["integrity"] # NoArg => evidence[c]["suite"] # NoArg
    /\ \A d \in Candidates \ {c} :
         manifest[d] = manifest[c] =>
           evidence[c]["suite"] = NoArg \/ evidence[d]["suite"] = NoArg
    /\ ~crashed /\ evidence[c]["suite"] # NoArg =>
         \/ evidence[c]["integrity"] # NoArg
         \/ \E o \in Outcomes : Has(pending, Evidence(c, "integrity", o))

(* What is in the chain, and what is missing from it is about to be added. *)
Recorded(t) == t.key \in ledger \/ Has(pending, t)

LedgerInv ==
  /\ wf.mode # NoArg => <<"route", 0, wf.mode>> \in ledger
  /\ \A c \in Candidates :
       /\ <<"frozen", c, NoArg>> \in ledger => <<"candidate", c, NoArg>> \in keys
       /\ \A v \in Verdicts : <<"arbitration", c, v>> \in ledger => verdict[c] = v
       /\ ~crashed =>
            /\ Saved(c) => Recorded(Frozen(c))
            /\ verdict[c] # NoArg => Recorded(Judged(c, verdict[c]))
            /\ \A r \in Roles : reviews[c][r] # NoArg => Recorded(Reviewed(c, r))
            /\ \A g \in Gates : evidence[c][g] # NoArg => Recorded(Ran(c, g))

(* Where the handler in progress is, and what it knows there.              *)
Starting ==
  \E m \in Modes :
    \/ pending = <<Intake>> \o <<Decision(m), Route(m)>>
    \/ pending = <<Decision(m), Route(m)>>
    \/ pending = <<Route(m)>> /\ <<"route", 0, m>> \in ledger

Accepting ==
  \E s \in {<<>>} \cup {<<Accept(d)>> : d \in Designs} :
    \/ pending = <<Constraint("essentiality")>> \o s
    \/ pending = <<Essential>> \o s
    \/ pending = s

Proposing ==
  \E c \in Candidates :
    /\ Saved(c)
    /\ \/ pending = <<Propose(c)>>
       \/ pending = <<Propose(c), Frozen(c)>> /\ validate_candidate_state(c)
       \/ pending = <<Frozen(c)>> /\ <<"candidate", c, NoArg>> \in keys

Verifying ==
  \E c \in Candidates : \E s \in Closing(c) :
    LET Last(o) == <<Evidence(c, "integrity", o)>> \o (<<Ran(c, "integrity")>> \o s)
    IN /\ Saved(c)
       /\ \/ \E n \in Outcomes, o \in Outcomes :
               pending = <<Evidence(c, "suite", n)>> \o (<<Ran(c, "suite")>> \o Last(o))
          \/ /\ evidence[c]["suite"] # NoArg
             /\ \E o \in Outcomes : pending \in {<<Ran(c, "suite")>> \o Last(o), Last(o)}
          \/ pending \in {<<Ran(c, "integrity")>> \o s, s}

Reviewing ==
  \E c \in Candidates, r \in Roles : \E s \in {<<>>, <<Ready(c)>>} :
    pending \in {<<Reviewed(c, r)>> \o s, s}

Approvable(c) ==
  /\ wf.mode = "full" => \A r \in Roles : reviews[c][r] = "approved"
  /\ \E g \in Gates : evidence[c][g] # NoArg
  /\ ~crashed => \A g \in Gates : evidence[c][g] # NoArg

Arbitrating ==
  \E c \in Candidates : \E v \in Verdicts :
    /\ verdict[c] = v
    /\ \/ /\ pending = <<Approve(c)>> \o <<Judged(c, v)>>
          /\ v = "approved" /\ wf.state = "arbitration" /\ wf.candidate = c
          /\ Approvable(c)
       \/ /\ pending = route(c, v) \o <<Judged(c, v)>>
          /\ v # "approved" /\ wf.state = "arbitration" /\ wf.candidate = c
       \/ /\ pending = <<BeginRepair(c)>> \o <<Judged(c, v)>>
          /\ wf.state = "repair" /\ wf.target # NoArg
       \/ pending = <<Judged(c, v)>>

Repairing == \E c \in Candidates : pending = <<BeginRepair(c)>>

HandlerInv ==
  \/ Free \/ Starting \/ Accepting \/ Proposing
  \/ Verifying \/ Reviewing \/ Arbitrating \/ Repairing

(* What is delivered is a candidate.                                       *)
DeliveryNamed == Stage \in {"delivery", "completed"} => wf.candidate \in Candidates

(* The part of it that does not look at the handler in progress.           *)
CoreInv ==
  /\ TypeOK /\ Sane(wf) /\ KeyInv /\ ReserveInv /\ FlightInv
  /\ DeliveryNamed /\ OnlyVerifiedDelivered /\ DeliveryIsJudged
  /\ RejectedNeverReturns /\ CyclesCountRejections

IInv == CoreInv /\ EvidenceInv /\ LedgerInv /\ HandlerInv
-----------------------------------------------------------------------------
(* Sequences of transactions.                                              *)

(* The first transaction of a handler and the ones after it.               *)
LEMMA StepThen ==
  ASSUME NEW S, NEW a \in S, NEW s \in Seq(S)
  PROVE  /\ <<a>> \o s \in Seq(S)
         /\ Head(<<a>> \o s) = a /\ Tail(<<a>> \o s) = s /\ <<a>> \o s # <<>>
  OBVIOUS

(* A transaction after the first is found one place earlier in the rest.   *)
LEMMA AfterStep ==
  ASSUME NEW S, NEW a \in S, NEW s \in Seq(S), NEW i \in 1..(1 + Len(s)), i # 1
  PROVE  (<<a>> \o s)[i] = s[i - 1]
  <1>1. <<a>> \in Seq(S) /\ Len(<<a>>) = 1
    OBVIOUS
  <1>2. i \in 1..(Len(<<a>>) + Len(s))
    BY <1>1
  <1>3. (<<a>> \o s)[i] = IF i <= Len(<<a>>) THEN <<a>>[i] ELSE s[i - Len(<<a>>)]
    BY <1>1, <1>2, ConcatProperties
  <1>. QED BY <1>1, <1>3

(* Pending transactions are the next one and those of the rest.            *)
LEMMA HasThen ==
  ASSUME NEW S, NEW a \in S, NEW s \in Seq(S), NEW t
  PROVE  Has(<<a>> \o s, t) <=> t = a \/ Has(s, t)
  <1>1. /\ Len(<<a>> \o s) = 1 + Len(s) /\ (<<a>> \o s)[1] = a
        /\ \A i \in 1..Len(s) : (<<a>> \o s)[i + 1] = s[i]
        /\ Len(s) \in Nat
    OBVIOUS
  <1>2. \A i \in 1..(1 + Len(s)) : i = 1 \/ i - 1 \in 1..Len(s)
    BY <1>1
  <1>3. \A i \in 1..Len(s) : i + 1 \in 1..(1 + Len(s))
    BY <1>1
  <1>4. \A i \in 1..(1 + Len(s)) : i # 1 => (<<a>> \o s)[i] = s[i - 1]
    <2>. SUFFICES ASSUME NEW i \in 1..(1 + Len(s)), i # 1 PROVE (<<a>> \o s)[i] = s[i - 1]
      OBVIOUS
    <2>. QED BY AfterStep
  <1>5. ASSUME Has(<<a>> \o s, t), t # a PROVE Has(s, t)
    <2>1. PICK i \in 1..(1 + Len(s)) : (<<a>> \o s)[i] = t
      BY <1>1, <1>5 DEF Has
    <2>2. i # 1
      BY <1>1, <1>5, <2>1
    <2>. QED BY <1>2, <1>4, <2>1, <2>2 DEF Has
  <1>6. ASSUME Has(s, t) PROVE Has(<<a>> \o s, t)
    BY <1>1, <1>3, <1>6 DEF Has
  <1>7. ASSUME t = a PROVE Has(<<a>> \o s, t)
    BY <1>1, <1>7 DEF Has
  <1>. QED BY <1>5, <1>6, <1>7

(* What is pending when at most two transactions are left.                 *)
LEMMA HasFew ==
  ASSUME NEW t
  PROVE  /\ ~Has(<<>>, t)
         /\ \A a : Has(<<a>>, t) <=> t = a
         /\ \A a, b : Has(<<a, b>>, t) <=> t \in {a, b}
  BY DEF Has

(* The flights after one more is launched, one has landed, or all are      *)
(* lost.                                                                   *)
LEMMA BagFacts ==
  ASSUME NEW B, NEW f
  PROVE  /\ BagToSet(B (+) SetToBag({f})) = BagToSet(B) \cup {f}
         /\ BagToSet(B (-) SetToBag({f})) \subseteq BagToSet(B)
         /\ BagToSet(EmptyBag) = {}
  BY DEF (+), (-), BagToSet, SetToBag, EmptyBag

-----------------------------------------------------------------------------
(* The aggregate.                                                          *)

StageOf(w) ==
  CASE w.state = "paused" -> w.paused_from
    [] w.state = "blocked" /\ w.blocked_from # NoArg -> w.blocked_from
    [] OTHER -> w.state

CommandTypes == DOMAIN From

(* A command whose argument is of the kind its type calls for.             *)
Wellformed(c) ==
  /\ c.type = "route" => c.arg \in Modes
  /\ c.type \in {"verification_rejected", "reject"} => c.arg \in Targets
  /\ c.type = "candidate_ready" => c.candidate \in Candidates

Over == {"repair", "blocked", "cancelled"}

(* What Workflow::apply does to the aggregate, command by command: it      *)
(* keeps its type and its sanity, only candidate_ready and begin_repair    *)
(* change the candidate, only route the mode, only a rejection the cycles; *)
(* delivery is entered by approve alone, and repair is left by             *)
(* begin_repair alone.                                                     *)
LEMMA ApplyFacts ==
  ASSUME NEW w \in Workflow, Sane(w), NEW c, c.type \in CommandTypes,
         Wellformed(c), allowed(w, c)
  PROVE  /\ apply(w, c) \in Workflow /\ Sane(apply(w, c))
         /\ c.type \notin {"candidate_ready", "begin_repair"} =>
              apply(w, c).candidate = w.candidate
         /\ c.type # "route" => apply(w, c).mode = w.mode
         /\ c.type \notin Rejections => apply(w, c).cycles = w.cycles
         /\ StageOf(apply(w, c)) \in {"delivery", "completed"} =>
              /\ c.type = "approve" \/ StageOf(w) \in {"delivery", "completed"}
              /\ apply(w, c).candidate = w.candidate
              /\ apply(w, c).mode = w.mode
         /\ StageOf(w) \in Over =>
              StageOf(apply(w, c)) \in Over \/ c.type = "begin_repair"
  <1>. DEFINE Fields ==
         /\ w.state \in WorkflowStates /\ w.cycles \in 0..255 /\ w.maximum \in 1..255
         /\ w.cycles \in Int /\ w.maximum \in Int
         /\ w.paused_from \in (Running \ {"verification", "delivery"}) \cup {NoArg}
         /\ w.blocked_from \in Running \cup {NoArg}
  <1>. HIDE DEF Fields
  <1>0. Fields
    BY DEF Workflow, Fields
  <1>1. CASE c.type = "complete_intake"
    <2>1. w.state = "intake"
      BY <1>1 DEF allowed, From
    <2>2. /\ "routing" \in WorkflowStates
      BY <2>1, <1>0 DEF WorkflowStates
    <2>. DEFINE v == [w EXCEPT !.state = "routing"]
    <2>3. apply(w, c) = v
      BY <1>1 DEF apply
    <2>4. v \in Workflow
      BY <2>2 DEF Workflow
    <2>5. /\ v.state = "routing" /\ v.mode = w.mode
          /\ v.candidate = w.candidate /\ v.target = w.target
          /\ v.cycles = w.cycles /\ v.maximum = w.maximum
          /\ v.paused_from = w.paused_from /\ v.blocked_from = w.blocked_from
      OBVIOUS
    <2>. HIDE DEF v
    <2>6. Sane(v)
      BY <1>1, <2>1, <2>5, <1>0 DEF Sane
    <2>. QED
      BY <1>1, <2>1, <2>3, <2>4, <2>6, <2>5, <1>0 DEF StageOf, Over
  <1>2. CASE c.type = "route"
    <2>. DEFINE s == IF c.arg = "quick" THEN "quick_execution" ELSE "architecture"
    <2>1. w.state = "routing" /\ c.arg \in Modes
      BY <1>2 DEF allowed, From, Wellformed
    <2>2. /\ c.arg \in Modes \cup {NoArg}
          /\ s \in WorkflowStates
      BY <2>1, <1>0 DEF WorkflowStates
    <2>. DEFINE v == [w EXCEPT !.mode = c.arg, !.state = s]
    <2>3. apply(w, c) = v
      BY <1>2 DEF apply
    <2>. HIDE DEF s
    <2>4. v \in Workflow
      BY <2>2 DEF Workflow
    <2>5. /\ v.state = s /\ v.mode = c.arg
          /\ v.candidate = w.candidate /\ v.target = w.target
          /\ v.cycles = w.cycles /\ v.maximum = w.maximum
          /\ v.paused_from = w.paused_from /\ v.blocked_from = w.blocked_from
      OBVIOUS
    <2>. HIDE DEF v
    <2>6. Sane(v)
      BY <1>2, <2>1, <2>5, <1>0 DEF s, Sane
    <2>. QED
      BY <1>2, <2>1, <2>3, <2>4, <2>6, <2>5, <1>0 DEF s, StageOf, Over
  <1>3. CASE c.type = "architecture_accepted"
    <2>1. w.state = "architecture"
      BY <1>3 DEF allowed, From
    <2>2. /\ "execution" \in WorkflowStates
      BY <2>1, <1>0 DEF WorkflowStates
    <2>. DEFINE v == [w EXCEPT !.state = "execution"]
    <2>3. apply(w, c) = v
      BY <1>3 DEF apply
    <2>4. v \in Workflow
      BY <2>2 DEF Workflow
    <2>5. /\ v.state = "execution" /\ v.mode = w.mode
          /\ v.candidate = w.candidate /\ v.target = w.target
          /\ v.cycles = w.cycles /\ v.maximum = w.maximum
          /\ v.paused_from = w.paused_from /\ v.blocked_from = w.blocked_from
      OBVIOUS
    <2>. HIDE DEF v
    <2>6. Sane(v)
      BY <1>3, <2>1, <2>5, <1>0 DEF Sane
    <2>. QED
      BY <1>3, <2>1, <2>3, <2>4, <2>6, <2>5, <1>0 DEF StageOf, Over
  <1>4. CASE c.type = "candidate_ready"
    <2>1. w.state \in {"quick_execution", "execution"} /\ c.candidate \in Candidates
      BY <1>4 DEF allowed, From, Wellformed
    <2>2. /\ c.candidate \in Candidates \cup {NoCandidate}
          /\ "verification" \in WorkflowStates
      BY <2>1, <1>0 DEF WorkflowStates
    <2>. DEFINE v == [w EXCEPT !.candidate = c.candidate, !.state = "verification"]
    <2>3. apply(w, c) = v
      BY <1>4 DEF apply
    <2>4. v \in Workflow
      BY <2>2 DEF Workflow
    <2>5. /\ v.state = "verification" /\ v.mode = w.mode
          /\ v.candidate = c.candidate /\ v.target = w.target
          /\ v.cycles = w.cycles /\ v.maximum = w.maximum
          /\ v.paused_from = w.paused_from /\ v.blocked_from = w.blocked_from
      OBVIOUS
    <2>. HIDE DEF v
    <2>6. Sane(v)
      BY <1>4, <2>1, <2>5, <1>0 DEF Sane
    <2>. QED
      BY <1>4, <2>1, <2>3, <2>4, <2>6, <2>5, <1>0 DEF StageOf, Over
  <1>5. CASE c.type = "verification_passed"
    <2>. DEFINE s == IF w.mode = "quick" THEN "arbitration" ELSE "independent_reviews"
    <2>1. w.state = "verification"
      BY <1>5 DEF allowed, From
    <2>2. /\ s \in WorkflowStates
      BY <2>1, <1>0 DEF WorkflowStates
    <2>. DEFINE v == [w EXCEPT !.state = s]
    <2>3. apply(w, c) = v
      BY <1>5 DEF apply
    <2>. HIDE DEF s
    <2>4. v \in Workflow
      BY <2>2 DEF Workflow
    <2>5. /\ v.state = s /\ v.mode = w.mode
          /\ v.candidate = w.candidate /\ v.target = w.target
          /\ v.cycles = w.cycles /\ v.maximum = w.maximum
          /\ v.paused_from = w.paused_from /\ v.blocked_from = w.blocked_from
      OBVIOUS
    <2>. HIDE DEF v
    <2>6. Sane(v)
      BY <1>5, <2>1, <2>5, <1>0 DEF s, Sane
    <2>. QED
      BY <1>5, <2>1, <2>3, <2>4, <2>6, <2>5, <1>0 DEF s, StageOf, Over
  <1>6. CASE c.type \in Rejections
    <2>. DEFINE s == IF w.cycles + 1 >= w.maximum THEN "blocked" ELSE "repair"
    <2>1. w.state \in {"verification", "arbitration"} /\ c.arg \in Targets /\ w.cycles < 255
      BY <1>6 DEF allowed, From, Wellformed, Rejections
    <2>2. /\ (w.cycles + 1) \in 0..255
          /\ c.arg \in Targets \cup {NoArg}
          /\ s \in WorkflowStates
      BY <2>1, <1>0 DEF Fields, WorkflowStates
    <2>. DEFINE v == [w EXCEPT !.cycles = w.cycles + 1, !.target = c.arg, !.state = s]
    <2>3. apply(w, c) = v
      BY <1>6 DEF apply, rejected, Rejections
    <2>. HIDE DEF s
    <2>4. v \in Workflow
      BY <2>2 DEF Workflow
    <2>5. /\ v.state = s /\ v.mode = w.mode
          /\ v.candidate = w.candidate /\ v.target = c.arg
          /\ v.cycles = (w.cycles + 1) /\ v.maximum = w.maximum
          /\ v.paused_from = w.paused_from /\ v.blocked_from = w.blocked_from
      OBVIOUS
    <2>. HIDE DEF v
    <2>6. Sane(v)
      <3>1. w.cycles < w.maximum /\ w.blocked_from = NoArg /\ w.paused_from = NoArg
        BY <2>1, <1>0 DEF Sane
      <3>2. CASE w.cycles + 1 >= w.maximum
        <4>1. v.state = "blocked" /\ v.cycles = v.maximum
          BY <3>1, <3>2, <2>5, <1>0 DEF Fields, s
        <4>. QED BY <3>1, <4>1, <2>5 DEF Sane, NoArg
      <3>3. CASE w.cycles + 1 < w.maximum
        <4>1. v.state = "repair" /\ v.cycles < v.maximum
          BY <3>1, <3>3, <2>5, <1>0 DEF Fields, s
        <4>. QED BY <3>1, <4>1, <2>5 DEF Sane, NoArg
      <3>. QED BY <3>2, <3>3, <1>0 DEF Fields
    <2>7. v.state \in Over /\ v.state \notin {"paused", "delivery", "completed"}
      BY <2>5 DEF Over, s
    <2>8. v.state = "blocked" => v.blocked_from = NoArg
      BY <2>1, <2>5 DEF Sane
    <2>. QED
      BY <1>6, <2>1, <2>3, <2>4, <2>6, <2>5, <1>0, <2>7, <2>8 DEF StageOf
  <1>7. CASE c.type = "reviews_ready"
    <2>1. w.state = "independent_reviews"
      BY <1>7 DEF allowed, From
    <2>2. /\ "arbitration" \in WorkflowStates
      BY <2>1, <1>0 DEF WorkflowStates
    <2>. DEFINE v == [w EXCEPT !.state = "arbitration"]
    <2>3. apply(w, c) = v
      BY <1>7 DEF apply
    <2>4. v \in Workflow
      BY <2>2 DEF Workflow
    <2>5. /\ v.state = "arbitration" /\ v.mode = w.mode
          /\ v.candidate = w.candidate /\ v.target = w.target
          /\ v.cycles = w.cycles /\ v.maximum = w.maximum
          /\ v.paused_from = w.paused_from /\ v.blocked_from = w.blocked_from
      OBVIOUS
    <2>. HIDE DEF v
    <2>6. Sane(v)
      BY <1>7, <2>1, <2>5, <1>0 DEF Sane
    <2>. QED
      BY <1>7, <2>1, <2>3, <2>4, <2>6, <2>5, <1>0 DEF StageOf, Over
  <1>8. CASE c.type = "approve"
    <2>1. w.state = "arbitration"
      BY <1>8 DEF allowed, From
    <2>2. /\ "delivery" \in WorkflowStates
      BY <2>1, <1>0 DEF WorkflowStates
    <2>. DEFINE v == [w EXCEPT !.state = "delivery"]
    <2>3. apply(w, c) = v
      BY <1>8 DEF apply
    <2>4. v \in Workflow
      BY <2>2 DEF Workflow
    <2>5. /\ v.state = "delivery" /\ v.mode = w.mode
          /\ v.candidate = w.candidate /\ v.target = w.target
          /\ v.cycles = w.cycles /\ v.maximum = w.maximum
          /\ v.paused_from = w.paused_from /\ v.blocked_from = w.blocked_from
      OBVIOUS
    <2>. HIDE DEF v
    <2>6. Sane(v)
      BY <1>8, <2>1, <2>5, <1>0 DEF Sane
    <2>. QED
      BY <1>8, <2>1, <2>3, <2>4, <2>6, <2>5, <1>0 DEF StageOf, Over
  <1>9. CASE c.type = "deliver"
    <2>1. w.state = "delivery"
      BY <1>9 DEF allowed, From
    <2>2. /\ "completed" \in WorkflowStates
      BY <2>1, <1>0 DEF WorkflowStates, Terminal
    <2>. DEFINE v == [w EXCEPT !.state = "completed"]
    <2>3. apply(w, c) = v
      BY <1>9 DEF apply
    <2>4. v \in Workflow
      BY <2>2 DEF Workflow
    <2>5. /\ v.state = "completed" /\ v.mode = w.mode
          /\ v.candidate = w.candidate /\ v.target = w.target
          /\ v.cycles = w.cycles /\ v.maximum = w.maximum
          /\ v.paused_from = w.paused_from /\ v.blocked_from = w.blocked_from
      OBVIOUS
    <2>. HIDE DEF v
    <2>6. Sane(v)
      BY <1>9, <2>1, <2>5, <1>0 DEF Sane
    <2>. QED
      BY <1>9, <2>1, <2>3, <2>4, <2>6, <2>5, <1>0 DEF StageOf, Over
  <1>10. CASE c.type = "begin_repair"
    <2>1. w.state = "repair" /\ w.target \in Targets
      BY <1>10 DEF allowed, From, Workflow
    <2>2. /\ w.target \in WorkflowStates
          /\ NoArg \in Targets \cup {NoArg}
          /\ NoCandidate \in Candidates \cup {NoCandidate}
      BY <2>1, <1>0 DEF WorkflowStates, Targets
    <2>. DEFINE v == [w EXCEPT !.state = w.target, !.target = NoArg, !.candidate = NoCandidate]
    <2>3. apply(w, c) = v
      BY <1>10 DEF apply
    <2>4. v \in Workflow
      BY <2>2 DEF Workflow
    <2>5. /\ v.state = w.target /\ v.mode = w.mode
          /\ v.candidate = NoCandidate /\ v.target = NoArg
          /\ v.cycles = w.cycles /\ v.maximum = w.maximum
          /\ v.paused_from = w.paused_from /\ v.blocked_from = w.blocked_from
      OBVIOUS
    <2>. HIDE DEF v
    <2>6. Sane(v)
      BY <1>10, <2>1, <2>5, <1>0 DEF Sane, Targets
    <2>. QED
      BY <1>10, <2>1, <2>3, <2>4, <2>6, <2>5, <1>0 DEF StageOf, Targets
  <1>11. CASE c.type = "pause"
    <2>1. w.state \in Running \ {"verification", "delivery"}
      BY <1>11 DEF allowed, From
    <2>2. /\ "paused" \in WorkflowStates
          /\ w.state \in (Running \ {"verification", "delivery"}) \cup {NoArg}
      BY <2>1, <1>0 DEF WorkflowStates
    <2>. DEFINE v == [w EXCEPT !.state = "paused", !.paused_from = w.state]
    <2>3. apply(w, c) = v
      BY <1>11 DEF apply
    <2>4. v \in Workflow
      BY <2>2 DEF Workflow
    <2>5. /\ v.state = "paused" /\ v.mode = w.mode
          /\ v.candidate = w.candidate /\ v.target = w.target
          /\ v.cycles = w.cycles /\ v.maximum = w.maximum
          /\ v.paused_from = w.state /\ v.blocked_from = w.blocked_from
      OBVIOUS
    <2>. HIDE DEF v
    <2>6. Sane(v)
      BY <1>11, <2>1, <2>5, <1>0
      DEF Sane, WorkflowStates, Suspended, Running, NoArg
    <2>. QED
      BY <1>11, <2>1, <2>3, <2>4, <2>6, <2>5, <1>0
      DEF StageOf, Suspended, Running
  <1>12. CASE c.type = "resume"
    <2>1. w.state = "paused" /\ w.paused_from # NoArg
      BY <1>12 DEF allowed, From, Sane
    <2>2. /\ w.paused_from \in WorkflowStates
          /\ NoArg \in (Running \ {"verification", "delivery"}) \cup {NoArg}
      BY <2>1, <1>0 DEF Fields, Running
    <2>. DEFINE v == [w EXCEPT !.state = w.paused_from, !.paused_from = NoArg]
    <2>3. apply(w, c) = v
      BY <1>12 DEF apply
    <2>4. v \in Workflow
      BY <2>2 DEF Workflow
    <2>5. /\ v.state = w.paused_from /\ v.mode = w.mode
          /\ v.candidate = w.candidate /\ v.target = w.target
          /\ v.cycles = w.cycles /\ v.maximum = w.maximum
          /\ v.paused_from = NoArg /\ v.blocked_from = w.blocked_from
      OBVIOUS
    <2>. HIDE DEF v
    <2>6. Sane(v)
      BY <1>12, <2>1, <2>5, <1>0 DEF Fields, Sane, Suspended, Running
    <2>. QED
      BY <1>12, <2>1, <2>3, <2>4, <2>6, <2>5, <1>0
      DEF Fields, StageOf, Suspended, Running
  <1>13. CASE c.type = "cancel"
    <2>1. w.state \in WorkflowStates \ Terminal
      BY <1>13 DEF allowed, From
    <2>2. /\ "cancelled" \in WorkflowStates
          /\ NoArg \in (Running \ {"verification", "delivery"}) \cup {NoArg}
      BY <2>1, <1>0 DEF WorkflowStates, Terminal
    <2>. DEFINE v == [w EXCEPT !.state = "cancelled", !.paused_from = NoArg]
    <2>3. apply(w, c) = v
      BY <1>13 DEF apply
    <2>4. v \in Workflow
      BY <2>2 DEF Workflow
    <2>5. /\ v.state = "cancelled" /\ v.mode = w.mode
          /\ v.candidate = w.candidate /\ v.target = w.target
          /\ v.cycles = w.cycles /\ v.maximum = w.maximum
          /\ v.paused_from = NoArg /\ v.blocked_from = w.blocked_from
      OBVIOUS
    <2>. HIDE DEF v
    <2>6. Sane(v)
      BY <1>13, <2>1, <2>5, <1>0 DEF Sane
    <2>. QED
      BY <1>13, <2>1, <2>3, <2>4, <2>6, <2>5, <1>0 DEF StageOf, Over
  <1>14. CASE c.type = "retry_infrastructure"
    <2>1. w.state \in Running
      BY <1>14 DEF allowed, From
    <2>3. apply(w, c) = w
      BY <1>14 DEF apply
    <2>. QED
      BY <1>14, <2>1, <2>3, <1>0
  <1>15. CASE c.type = "resume_blocked"
    <2>1. w.state = "blocked" /\ w.blocked_from = NoArg /\ w.maximum + 5 <= 255
      BY <1>15 DEF allowed, From, AdditionalCycles
    <2>2. /\ "repair" \in WorkflowStates
          /\ (w.maximum + 5) \in 1..255
      BY <2>1, <1>0 DEF Fields, WorkflowStates
    <2>. DEFINE v == [w EXCEPT !.state = "repair", !.maximum = w.maximum + 5]
    <2>3. apply(w, c) = v
      BY <1>15 DEF apply, AdditionalCycles
    <2>4. v \in Workflow
      BY <2>2 DEF Workflow
    <2>5. /\ v.state = "repair" /\ v.mode = w.mode
          /\ v.candidate = w.candidate /\ v.target = w.target
          /\ v.cycles = w.cycles /\ v.maximum = (w.maximum + 5)
          /\ v.paused_from = w.paused_from /\ v.blocked_from = w.blocked_from
      OBVIOUS
    <2>. HIDE DEF v
    <2>6. Sane(v)
      <3>1. v.cycles < v.maximum
        BY <2>5, <1>0 DEF Fields, Sane
      <3>2. v.paused_from = NoArg /\ v.blocked_from = NoArg
        BY <2>1, <2>5, <1>0 DEF Sane
      <3>. QED BY <3>1, <3>2, <2>5 DEF Sane, NoArg
    <2>. QED
      BY <1>15, <2>1, <2>3, <2>4, <2>6, <2>5, <1>0 DEF StageOf, Over
  <1>16. CASE c.type = "block_infrastructure"
    <2>1. w.state \in Running
      BY <1>16 DEF allowed, From
    <2>2. /\ "blocked" \in WorkflowStates
          /\ w.state \in Running \cup {NoArg}
      BY <2>1, <1>0 DEF WorkflowStates
    <2>. DEFINE v == [w EXCEPT !.state = "blocked", !.blocked_from = w.state]
    <2>3. apply(w, c) = v
      BY <1>16 DEF apply
    <2>4. v \in Workflow
      BY <2>2 DEF Workflow
    <2>5. /\ v.state = "blocked" /\ v.mode = w.mode
          /\ v.candidate = w.candidate /\ v.target = w.target
          /\ v.cycles = w.cycles /\ v.maximum = w.maximum
          /\ v.paused_from = w.paused_from /\ v.blocked_from = w.state
      OBVIOUS
    <2>. HIDE DEF v
    <2>6. Sane(v)
      BY <1>16, <2>1, <2>5, <1>0 DEF Sane, WorkflowStates, Suspended, Running
    <2>. QED
      BY <1>16, <2>1, <2>3, <2>4, <2>6, <2>5, <1>0
      DEF StageOf, Over, Suspended, Running
  <1>17. CASE c.type = "resume_infrastructure"
    <2>1. w.state = "blocked" /\ w.blocked_from \in Running
      BY <1>17 DEF allowed, From, Workflow
    <2>2. /\ w.blocked_from \in WorkflowStates
          /\ NoArg \in Running \cup {NoArg}
      BY <2>1, <1>0 DEF Running
    <2>. DEFINE v == [w EXCEPT !.state = w.blocked_from, !.blocked_from = NoArg]
    <2>3. apply(w, c) = v
      BY <1>17 DEF apply
    <2>4. v \in Workflow
      BY <2>2 DEF Workflow
    <2>5. /\ v.state = w.blocked_from /\ v.mode = w.mode
          /\ v.candidate = w.candidate /\ v.target = w.target
          /\ v.cycles = w.cycles /\ v.maximum = w.maximum
          /\ v.paused_from = w.paused_from /\ v.blocked_from = NoArg
      OBVIOUS
    <2>. HIDE DEF v
    <2>6. Sane(v)
      BY <1>17, <2>1, <2>5, <1>0
      DEF Sane, WorkflowStates, Suspended, Running, NoArg
    <2>. QED
      BY <1>17, <2>1, <2>3, <2>4, <2>6, <2>5, <1>0
      DEF Fields, StageOf, Over, WorkflowStates, Running, NoArg
  <1>18. CASE c.type = "replan_execution"
    <2>1. w.state = "execution"
      BY <1>18 DEF allowed, From
    <2>2. /\ "architecture" \in WorkflowStates
      BY <2>1, <1>0 DEF WorkflowStates
    <2>. DEFINE v == [w EXCEPT !.state = "architecture"]
    <2>3. apply(w, c) = v
      BY <1>18 DEF apply
    <2>4. v \in Workflow
      BY <2>2 DEF Workflow
    <2>5. /\ v.state = "architecture" /\ v.mode = w.mode
          /\ v.candidate = w.candidate /\ v.target = w.target
          /\ v.cycles = w.cycles /\ v.maximum = w.maximum
          /\ v.paused_from = w.paused_from /\ v.blocked_from = w.blocked_from
      OBVIOUS
    <2>. HIDE DEF v
    <2>6. Sane(v)
      BY <1>18, <2>1, <2>5, <1>0 DEF Sane
    <2>. QED
      BY <1>18, <2>1, <2>3, <2>4, <2>6, <2>5, <1>0 DEF StageOf, Over
  <1>. QED BY <1>1, <1>2, <1>3, <1>4, <1>5, <1>6, <1>7, <1>8, <1>9, <1>10, <1>11, <1>12,
              <1>13, <1>14, <1>15, <1>16, <1>17, <1>18
           DEF CommandTypes, From, Rejections

-----------------------------------------------------------------------------
(* What a step of a handler is.                                            *)

(* One and two transactions as a first one and a rest.                     *)
LEMMA AsSteps ==
  ASSUME NEW S, NEW a \in S, NEW b \in S
  PROVE  /\ <<a>> \in Seq(S) /\ <<a>> = <<a>> \o <<>>
         /\ <<a, b>> \in Seq(S) /\ <<a, b>> = <<a>> \o <<b>>
  <1>1. /\ <<a, b>> \in Seq(S) /\ <<a>> \o <<b>> \in Seq(S)
        /\ <<a>> \in Seq(S) /\ <<a>> \o <<>> \in Seq(S)
    OBVIOUS
  <1>2. /\ Len(<<a, b>>) = 2 /\ Len(<<a>> \o <<b>>) = 2
        /\ \A i \in 1..2 : <<a, b>>[i] = (<<a>> \o <<b>>)[i]
    OBVIOUS
  <1>3. <<a, b>> = <<a>> \o <<b>>
    BY <1>1, <1>2, SeqEqual
  <1>. QED BY <1>1, <1>3, ConcatEmptySeq

(* Every transaction a handler builds is a step.                           *)
LEMMA StepTypes ==
  /\ Intake \in Step /\ Essential \in Step /\ Constraint("essentiality") \in Step
  /\ \A m \in Modes : Decision(m) \in Step /\ Route(m) \in Step
  /\ \A d \in Designs : Accept(d) \in Step
  /\ \A c \in Candidates :
       /\ Propose(c) \in Step /\ Frozen(c) \in Step /\ Pass(c) \in Step
       /\ Block(c) \in Step /\ Ready(c) \in Step /\ Approve(c) \in Step
       /\ BeginRepair(c) \in Step
       /\ \A g \in Gates : /\ Ran(c, g) \in Step
                           /\ \A o \in Outcomes : Evidence(c, g, o) \in Step
       /\ \A r \in Roles : Reviewed(c, r) \in Step
       /\ \A v \in Verdicts : Judged(c, v) \in Step
       /\ \A t \in Targets : route(c, t) \in Seq(Step)
  <1>1. \A c \in Candidates : CommandsOf(c) \cup AuditsOf(c) \cup EvidenceOf(c) \subseteq Step
    BY Zenon DEF Step
  <1>2. ASSUME NEW c
        PROVE  /\ Propose(c) \in CommandsOf(c) /\ Pass(c) \in CommandsOf(c)
               /\ Block(c) \in CommandsOf(c) /\ Ready(c) \in CommandsOf(c)
               /\ Approve(c) \in CommandsOf(c) /\ BeginRepair(c) \in CommandsOf(c)
    BY Zenon DEF CommandsOf
  <1>3. Intake \in Step /\ Essential \in Step /\ Constraint("essentiality") \in Step
    BY Zenon DEF Step
  <1>4. \A m \in Modes : Decision(m) \in Step /\ Route(m) \in Step
    BY Zenon DEF Step
  <1>5. \A d \in Designs : Accept(d) \in Step
    BY Zenon DEF Step
  <1>6. ASSUME NEW c
        PROVE  /\ Frozen(c) \in AuditsOf(c)
               /\ \A g \in Gates : Ran(c, g) \in AuditsOf(c)
               /\ \A r \in Roles : Reviewed(c, r) \in AuditsOf(c)
               /\ \A v \in Verdicts : Judged(c, v) \in AuditsOf(c)
    BY DEF AuditsOf
  <1>7. ASSUME NEW c, NEW g \in Gates, NEW o \in Outcomes
        PROVE  Evidence(c, g, o) \in EvidenceOf(c)
    BY DEF EvidenceOf
  <1>8. ASSUME NEW c, NEW x \in Rejections, NEW t \in Targets
        PROVE  Rejection(x, c, t) \in CommandsOf(c)
    BY DEF CommandsOf
  <1>9. ASSUME NEW c \in Candidates, NEW t \in Targets PROVE route(c, t) \in Seq(Step)
    <2>1. "reject" \in Rejections /\ "verification_rejected" \in Rejections
      BY DEF Rejections
    <2>2. /\ Rejection("reject", c, t) \in Step
          /\ Rejection("verification_rejected", c, t) \in Step
      BY <1>1, <1>8, <2>1
    <2>. QED BY <2>2 DEF route, Rejection
  <1>. QED BY <1>1, <1>2, <1>3, <1>4, <1>5, <1>6, <1>7, <1>9

(* The handler's next transaction, by its kind: a command is refused, and  *)
(* ends the handler, or it is applied; every other kind is carried out,    *)
(* except evidence whose identifiers are taken.                            *)
Refused(t) == reserved \/ (t.key \notin keys /\ ~allowed(wf, t.command))

Routes(t) ==
  /\ wf'.state = "repair" /\ wf.state # "repair"
  /\ t.command.type \in Rejections

(* What Continue does with the next transaction, whatever follows it.      *)
LEMMA RunStep ==
  ASSUME NEW h \in Step, NEW s \in Seq(Step), pending = <<h>> \o s, Continue
  PROVE  /\ UNCHANGED <<design, plans, manifest, reviews, verdict, reserved,
                        flights, promoting, disturbances, crashed>>
         /\ h.op = "command" =>
              /\ UNCHANGED <<evidence, ledger>>
              /\ Refused(h) => UNCHANGED <<wf, keys>> /\ pending' = <<>>
              /\ ~Refused(h) =>
                   /\ wf' = IF h.key \in keys THEN wf ELSE apply(wf, h.command)
                   /\ keys' = keys \cup {h.key}
                   /\ Routes(h) => pending' = <<BeginRepair(h.command.candidate)>> \o s
                   /\ ~Routes(h) => pending' = s
         /\ h.op = "audit" =>
              /\ UNCHANGED <<wf, keys, evidence>>
              /\ ledger' = ledger \cup {h.key} /\ pending' = s
         /\ h.op = "evidence" =>
              /\ UNCHANGED <<wf, keys, ledger>>
              /\ save_evidence_once(h.key[2], h.key[1], h.key[3])
         /\ h.op = "constraint" =>
              /\ UNCHANGED <<wf, evidence, ledger>>
              /\ keys' = keys \cup {h.key}
              /\ \/ pending' = s
                 \/ pending' = <<Audit(h.key[1], h.key[2], h.key[3])>> \o s
         /\ Tail(pending) = s
  <1>1. Head(pending) = h /\ Tail(pending) = s /\ <<>> \o s = s
    BY StepThen, ConcatEmptySeq
  <1>2. /\ UNCHANGED <<design, plans, manifest, reviews, verdict, reserved,
                        flights, promoting, disturbances, crashed>>
    BY DEF Continue
  <1>3. ASSUME h.op = "command"
        PROVE  /\ UNCHANGED <<evidence, ledger>>
               /\ apply_workflow_command(h.key, h.command)
    BY <1>1, <1>3 DEF Continue
  <1>4. ASSUME h.op = "command", Refused(h) PROVE UNCHANGED <<wf, keys>> /\ pending' = <<>>
    BY <1>3, <1>4 DEF apply_workflow_command, Refused
  <1>5. ASSUME h.op = "command", ~Refused(h)
        PROVE /\ wf' = IF h.key \in keys THEN wf ELSE apply(wf, h.command)
              /\ keys' = keys \cup {h.key}
              /\ Routes(h) => pending' = <<BeginRepair(h.command.candidate)>> \o s
              /\ ~Routes(h) => pending' = s
    BY <1>1, <1>3, <1>5
    DEF apply_workflow_command, Refused, Routes, BeginRepair, Rejections
  <1>6. ASSUME h.op = "audit"
        PROVE /\ UNCHANGED <<wf, keys, evidence>>
              /\ ledger' = ledger \cup {h.key} /\ pending' = s
    BY <1>1, <1>6 DEF Continue, record
  <1>7. ASSUME h.op = "evidence"
        PROVE /\ UNCHANGED <<wf, keys, ledger>>
              /\ save_evidence_once(h.key[2], h.key[1], h.key[3])
    BY <1>1, <1>7 DEF Continue
  <1>8. ASSUME h.op = "constraint"
        PROVE /\ UNCHANGED <<wf, evidence, ledger>>
              /\ keys' = keys \cup {h.key}
              /\ \/ pending' = s
                 \/ pending' = <<Audit(h.key[1], h.key[2], h.key[3])>> \o s
    <2>1. UNCHANGED <<wf, evidence, ledger>> /\ save_constraint_once(h.key)
      BY <1>1, <1>8 DEF Continue
    <2>. QED BY <1>1, <2>1 DEF save_constraint_once
  <1>. QED BY <1>1, <1>2, <1>3, <1>4, <1>5, <1>6, <1>7, <1>8

-----------------------------------------------------------------------------
(* Steps that leave the aggregate alone, or apply a command to it.         *)

LEMMA StageIs == Stage = StageOf(wf) /\ Stage' = StageOf(wf')
  BY DEF Stage, StageOf

(* A key adds a rejected candidate exactly when it is the key of a         *)
(* rejection.                                                              *)
LEMMA RejectedGrows ==
  ASSUME NEW k, keys' = keys \cup {k}
  PROVE  /\ k[1] # "reject" => Rejected' = Rejected
         /\ k[1] = "reject" => Rejected' = Rejected \cup {k[2]}
  BY DEF Rejected

(* A step that only records leaves the rows and their invariant alone.     *)
LEMMA CoreFrame ==
  ASSUME CoreInv, disturbances' \in 0..MaxDisturbances,
         UNCHANGED <<wf, keys, design, plans, manifest, evidence, reviews, verdict,
                     reserved, flights, promoting, crashed>>
  PROVE  CoreInv'
  <1>1. TypeOK' /\ Sane(wf)' /\ KeyInv'
    BY DEF CoreInv, TypeOK, Sane, KeyInv, Saved, Rejected
  <1>2. ReserveInv' /\ FlightInv'
    BY DEF CoreInv, ReserveInv, FlightInv, Saved
  <1>3. DeliveryNamed' /\ OnlyVerifiedDelivered' /\ DeliveryIsJudged'
    BY DEF CoreInv, DeliveryNamed, OnlyVerifiedDelivered, DeliveryIsJudged, Saved, Stage
  <1>4. RejectedNeverReturns' /\ CyclesCountRejections'
    BY DEF CoreInv, RejectedNeverReturns, CyclesCountRejections, Rejected, Stage
  <1>. QED BY <1>1, <1>2, <1>3, <1>4 DEF CoreInv

Plain == CommandTypes \ (Rejections \cup {"candidate_ready", "approve"})

(* A command that neither proposes, rejects nor approves keeps CoreInv.    *)
LEMMA CoreApply ==
  ASSUME CoreInv, NEW c, c.type \in Plain, Wellformed(c), allowed(wf, c),
         wf' = apply(wf, c),
         keys \subseteq keys', Rejected' = Rejected,
         \A d \in Candidates : <<"candidate", d, NoArg>> \in keys' => <<"candidate", d, NoArg>> \in keys,
         UNCHANGED <<design, plans, manifest, evidence, reviews, verdict, flights, crashed>>,
         disturbances' \in 0..MaxDisturbances,
         reserved' = FALSE, promoting' = FALSE
  PROVE  CoreInv'
  <1>. DEFINE S == {"delivery", "completed"}
  <1>1. /\ wf' \in Workflow /\ Sane(wf')
        /\ wf'.cycles = wf.cycles
        /\ wf'.candidate = wf.candidate \/ c.type = "begin_repair"
        /\ StageOf(wf') \in S =>
             StageOf(wf) \in S /\ wf'.candidate = wf.candidate /\ wf'.mode = wf.mode
        /\ StageOf(wf) \in Over => StageOf(wf') \in Over \/ c.type = "begin_repair"
    BY ApplyFacts DEF CoreInv, TypeOK, Plain
  <1>2. c.type = "begin_repair" => wf'.candidate = NoCandidate
    BY DEF apply, CoreInv, TypeOK, Workflow
  <1>3. TypeOK'
    BY <1>1 DEF CoreInv, TypeOK
  <1>4. KeyInv'
    BY <1>1, <1>2 DEF CoreInv, KeyInv, Saved
  <1>5. ReserveInv' /\ FlightInv'
    BY DEF CoreInv, ReserveInv, FlightInv, Saved
  <1>6. DeliveryNamed' /\ OnlyVerifiedDelivered' /\ DeliveryIsJudged'
    BY <1>1, StageIs DEF CoreInv, DeliveryNamed, OnlyVerifiedDelivered, DeliveryIsJudged, Saved
  <1>7. RejectedNeverReturns'
    <2>1. NoCandidate \notin Rejected
      BY CoreAssumption DEF CoreInv, KeyInv
    <2>. QED BY <1>1, <1>2, <2>1, StageIs DEF CoreInv, RejectedNeverReturns, Over
  <1>8. CyclesCountRejections'
    BY <1>1 DEF CoreInv, CyclesCountRejections
  <1>. QED BY <1>1, <1>3, <1>4, <1>5, <1>6, <1>7, <1>8 DEF CoreInv

(* Evidence waits where it waited.                                         *)
LEMMA EvidenceFrame ==
  ASSUME EvidenceInv, UNCHANGED <<evidence, manifest, crashed>>,
         \A t : Has(pending, t) /\ t.op = "evidence" => Has(pending', t)
  PROVE  EvidenceInv'
  <1>1. \A c, g, o : Evidence(c, g, o).op = "evidence"
    BY DEF Evidence
  <1>. QED BY <1>1 DEF EvidenceInv, Saved

(* The records the ledger owes for what is stored.                         *)
Owed(t) ==
  t.op = "audit" /\ t.key[1] \in {"frozen", "arbitration", "review", "verification"}

(* The chain keeps up with the rows as long as no pending audit is lost.   *)
LEMMA LedgerFrame ==
  ASSUME LedgerInv, keys \subseteq keys', crashed' = crashed,
         ledger \subseteq ledger',
         \A t : Has(pending, t) /\ Owed(t) => t.key \in ledger' \/ Has(pending', t),
         wf'.mode # NoArg => <<"route", 0, wf'.mode>> \in ledger',
         \A c \in Candidates :
           /\ <<"frozen", c, NoArg>> \in ledger' \ ledger => <<"candidate", c, NoArg>> \in keys'
           /\ \A v \in Verdicts : <<"arbitration", c, v>> \in ledger' \ ledger => verdict'[c] = v
           /\ verdict'[c] # verdict[c] => verdict[c] = NoArg
           /\ manifest'[c] # 0 => manifest[c] # 0 \/ Has(pending', Frozen(c))
           /\ verdict'[c] # NoArg => verdict'[c] = verdict[c] \/ Has(pending', Judged(c, verdict'[c]))
           /\ \A r \in Roles : reviews'[c][r] # NoArg => reviews[c][r] # NoArg \/ Has(pending', Reviewed(c, r))
           /\ \A g \in Gates : evidence'[c][g] # NoArg => evidence[c][g] # NoArg \/ Has(pending', Ran(c, g))
  PROVE  LedgerInv'
  <1>1. \A c : /\ Owed(Frozen(c)) /\ \A v : Owed(Judged(c, v))
               /\ \A r : Owed(Reviewed(c, r)) /\ \A g : Owed(Ran(c, g))
    BY DEF Owed, Frozen, Judged, Reviewed, Ran, Audit
  <1>2. \A t : Owed(t) /\ Recorded(t) => t.key \in ledger' \/ Has(pending', t)
    BY DEF Recorded
  <1>3. \A c \in Candidates :
          /\ Recorded(Frozen(c)) => Recorded(Frozen(c))'
          /\ \A v : Recorded(Judged(c, v)) => Judged(c, v).key \in ledger' \/ Has(pending', Judged(c, v))
          /\ \A r \in Roles : Recorded(Reviewed(c, r)) => Recorded(Reviewed(c, r))'
          /\ \A g \in Gates : Recorded(Ran(c, g)) => Recorded(Ran(c, g))'
    BY <1>1, <1>2 DEF Recorded, Frozen, Judged, Reviewed, Ran, Audit
  <1>4. \A v \in Verdicts : v # NoArg
    BY DEF Verdicts, Targets, NoArg
  <1>5. ASSUME NEW c \in Candidates
        PROVE  /\ <<"frozen", c, NoArg>> \in ledger' => <<"candidate", c, NoArg>> \in keys'
               /\ \A v \in Verdicts : <<"arbitration", c, v>> \in ledger' => verdict'[c] = v
    BY <1>4 DEF LedgerInv
  <1>6. ASSUME NEW c \in Candidates, ~crashed'
        PROVE  /\ Saved(c)' => Recorded(Frozen(c))'
               /\ verdict'[c] # NoArg => Recorded(Judged(c, verdict[c]))'
               /\ \A r \in Roles : reviews'[c][r] # NoArg => Recorded(Reviewed(c, r))'
               /\ \A g \in Gates : evidence'[c][g] # NoArg => Recorded(Ran(c, g))'
    <2>1. Saved(c)' => Recorded(Frozen(c))'
      BY <1>3, <1>6 DEF LedgerInv, Recorded, Saved, Frozen, Audit
    <2>2. verdict'[c] # NoArg => Recorded(Judged(c, verdict[c]))'
      BY <1>3, <1>6 DEF LedgerInv, Recorded, Judged, Audit
    <2>3. \A r \in Roles : reviews'[c][r] # NoArg => Recorded(Reviewed(c, r))'
      BY <1>3, <1>6 DEF LedgerInv, Recorded, Reviewed, Audit
    <2>4. \A g \in Gates : evidence'[c][g] # NoArg => Recorded(Ran(c, g))'
      BY <1>3, <1>6 DEF LedgerInv, Recorded, Ran, Audit
    <2>. QED BY <2>1, <2>2, <2>3, <2>4
  <1>. QED BY <1>5, <1>6 DEF LedgerInv

-----------------------------------------------------------------------------
(* The handler in progress.                                                *)

(* An audit step files the event that was owed.                            *)
LEMMA AuditStep ==
  ASSUME IInv, NEW h \in Step, NEW s \in Seq(Step), pending = <<h>> \o s, Continue,
         h.op = "audit",
         \A c \in Candidates :
           /\ h.key = <<"frozen", c, NoArg>> => <<"candidate", c, NoArg>> \in keys
           /\ \A v \in Verdicts : h.key = <<"arbitration", c, v>> => verdict[c] = v
  PROVE  /\ CoreInv' /\ EvidenceInv' /\ LedgerInv'
         /\ pending' = s /\ ledger' = ledger \cup {h.key}
         /\ UNCHANGED <<wf, keys, manifest, evidence, verdict, reviews, crashed>>
  <1>1. /\ UNCHANGED <<design, plans, manifest, reviews, verdict, reserved,
                       flights, promoting, disturbances, crashed>>
        /\ UNCHANGED <<wf, keys, evidence>>
        /\ ledger' = ledger \cup {h.key} /\ pending' = s
    BY RunStep
  <1>2. \A t : Has(pending, t) => t = h \/ Has(pending', t)
    BY <1>1, HasThen
  <1>3. CoreInv'
    BY <1>1, CoreFrame DEF IInv, CoreInv, TypeOK
  <1>4. EvidenceInv'
    BY <1>1, <1>2, EvidenceFrame DEF IInv
  <1>5. LedgerInv'
    <2>1. \A t : Has(pending, t) /\ Owed(t) => t.key \in ledger' \/ Has(pending', t)
      BY <1>1, <1>2
    <2>2. wf'.mode # NoArg => <<"route", 0, wf'.mode>> \in ledger'
      BY <1>1 DEF IInv, LedgerInv
    <2>3. \A c \in Candidates :
           /\ <<"frozen", c, NoArg>> \in ledger' \ ledger => <<"candidate", c, NoArg>> \in keys'
           /\ \A v \in Verdicts : <<"arbitration", c, v>> \in ledger' \ ledger => verdict'[c] = v
      BY <1>1
    <2>. QED BY <1>1, <2>1, <2>2, <2>3, LedgerFrame DEF IInv
  <1>. QED BY <1>1, <1>3, <1>4, <1>5

(* What a command that ends the handler would lose.                        *)
Loses(s) == \E t : Has(s, t) /\ (Owed(t) \/ t.op = "evidence")

(* A command step that neither proposes, rejects nor approves, applied or  *)
(* refused; what follows it holds no audit that a refusal could lose.      *)
LEMMA PlainStep ==
  ASSUME IInv, NEW h \in Step, NEW s \in Seq(Step), pending = <<h>> \o s, Continue,
         h.op = "command", h.command.type \in Plain, Wellformed(h.command),
         h.key[1] \notin {"candidate", "reject"},
         h.command.type = "route" => <<"route", 0, h.command.arg>> \in ledger,
         ~Loses(s) \/ ~Refused(h)
  PROVE  /\ CoreInv' /\ EvidenceInv' /\ LedgerInv'
         /\ pending' = s \/ pending' = <<>>
         /\ Loses(s) => pending' = s
         /\ UNCHANGED <<manifest, evidence, verdict, reviews, crashed, ledger>>
  <1>1. UNCHANGED <<design, plans, manifest, reviews, verdict, reserved,
                    flights, promoting, disturbances, crashed, evidence, ledger>>
    BY RunStep
  <1>2. h.op # "evidence" /\ ~Owed(h)
    BY DEF Owed
  <1>3. CASE Refused(h)
    <2>1. UNCHANGED <<wf, keys>> /\ pending' = <<>> /\ ~Loses(s)
      BY <1>3, RunStep
    <2>2. \A t : Has(pending, t) => ~Owed(t) /\ t.op # "evidence"
      BY <1>2, <2>1, HasThen DEF Loses
    <2>3. CoreInv'
      BY <1>1, <2>1, CoreFrame DEF IInv, CoreInv, TypeOK
    <2>4. EvidenceInv'
      BY <1>1, <2>2, EvidenceFrame DEF IInv
    <2>5. LedgerInv'
      <3>1. wf'.mode # NoArg => <<"route", 0, wf'.mode>> \in ledger'
        BY <1>1, <2>1 DEF IInv, LedgerInv
      <3>. QED BY <1>1, <2>1, <2>2, <3>1, LedgerFrame DEF IInv
    <2>. QED BY <1>1, <2>1, <2>3, <2>4, <2>5
  <1>4. CASE ~Refused(h)
    <2>1. /\ wf' = IF h.key \in keys THEN wf ELSE apply(wf, h.command)
          /\ keys' = keys \cup {h.key}
          /\ ~Routes(h) => pending' = s
      BY <1>4, RunStep
    <2>2. pending' = s
      BY <2>1 DEF Routes, Plain
    <2>3. ~reserved /\ (h.key \notin keys => allowed(wf, h.command))
      BY <1>4 DEF Refused
    <2>4. Rejected' = Rejected
      BY <2>1, RejectedGrows
    <2>5. CoreInv'
      <3>1. CASE h.key \in keys
        <4>1. wf' = wf /\ keys' = keys
          BY <2>1, <3>1
        <4>. QED BY <1>1, <4>1, CoreFrame DEF IInv, CoreInv, TypeOK
      <3>2. CASE h.key \notin keys
        <4>1. wf' = apply(wf, h.command) /\ allowed(wf, h.command)
          BY <2>1, <2>3, <3>2
        <4>2. reserved' = FALSE /\ promoting' = FALSE
          BY <1>1, <2>3 DEF IInv, CoreInv, TypeOK, ReserveInv
        <4>3. \A d \in Candidates :
                <<"candidate", d, NoArg>> \in keys' => <<"candidate", d, NoArg>> \in keys
          BY <2>1
        <4>4. disturbances' \in 0..MaxDisturbances
          BY <1>1 DEF IInv, CoreInv, TypeOK
        <4>. QED BY <1>1, <2>1, <2>4, <4>1, <4>2, <4>3, <4>4, CoreApply DEF IInv
      <3>. QED BY <3>1, <3>2
    <2>6. \A t : Has(pending, t) => t = h \/ Has(pending', t)
      BY <2>2, HasThen
    <2>7. EvidenceInv'
      BY <1>1, <1>2, <2>6, EvidenceFrame DEF IInv
    <2>8. LedgerInv'
      <3>1. wf'.mode # NoArg => <<"route", 0, wf'.mode>> \in ledger'
        <4>1. CASE wf'.mode = wf.mode
          BY <1>1, <4>1 DEF IInv, LedgerInv
        <4>2. CASE wf'.mode # wf.mode
          <5>1. h.command.type = "route" /\ wf' = apply(wf, h.command)
            BY <2>1, <2>3, <4>2, ApplyFacts DEF IInv, CoreInv, TypeOK, Plain
          <5>2. wf'.mode = h.command.arg
            BY <5>1 DEF apply, IInv, CoreInv, TypeOK, Workflow
          <5>. QED BY <1>1, <5>1, <5>2
        <4>. QED BY <4>1, <4>2
      <3>2. \A t : Has(pending, t) /\ Owed(t) => t.key \in ledger' \/ Has(pending', t)
        BY <1>2, <2>6
      <3>. QED BY <1>1, <2>1, <3>1, <3>2, LedgerFrame DEF IInv
    <2>. QED BY <1>1, <2>2, <2>5, <2>7, <2>8
  <1>. QED BY <1>3, <1>4

LEMMA WorkflowInts ==
  ASSUME NEW w \in Workflow
  PROVE  w.cycles \in Int /\ w.maximum \in Int /\ w.maximum <= 255
  <1>1. w.maximum \in 1..255 /\ w.cycles \in 0..255
    BY DEF Workflow
  <1>2. \A n \in 1..255 : n \in Int /\ n <= 255
    OBVIOUS
  <1>3. \A n \in 0..255 : n \in Int
    OBVIOUS
  <1>. QED BY <1>1, <1>2, <1>3, Zenon

(* candidate_ready puts a saved candidate forward under its own key, once. *)
LEMMA CorePropose ==
  ASSUME CoreInv, NEW c \in Candidates, Saved(c), ~reserved,
         <<"candidate", c, NoArg>> \notin keys, allowed(wf, Propose(c).command),
         wf' = apply(wf, Propose(c).command),
         keys' = keys \cup {<<"candidate", c, NoArg>>},
         UNCHANGED <<design, plans, manifest, evidence, reviews, verdict, flights, crashed,
                     disturbances, reserved, promoting>>
  PROVE  CoreInv' /\ wf'.mode = wf.mode
  <1>. DEFINE p == Propose(c).command
  <1>1. p.type = "candidate_ready" /\ p.candidate = c
    BY DEF Propose, Tx, Command
  <1>. HIDE DEF p
  <1>2. wf' \in Workflow /\ Sane(wf') /\ wf'.cycles = wf.cycles /\ wf'.mode = wf.mode
    BY <1>1, ApplyFacts DEF CoreInv, TypeOK, p, Wellformed, CommandTypes, From, Rejections
  <1>3. wf'.candidate = c /\ wf'.state = "verification"
    BY <1>1 DEF apply, CoreInv, TypeOK, Workflow, p
  <1>4. Rejected' = Rejected
    BY RejectedGrows
  <1>5. Stage' = "verification"
    BY <1>3, StageIs DEF StageOf
  <1>6. TypeOK'
    BY <1>2 DEF CoreInv, TypeOK
  <1>7. KeyInv'
    BY <1>3, <1>4 DEF CoreInv, KeyInv, Saved
  <1>8. ReserveInv' /\ FlightInv'
    BY DEF CoreInv, ReserveInv, FlightInv, Saved
  <1>9. DeliveryNamed' /\ OnlyVerifiedDelivered' /\ DeliveryIsJudged'
    BY <1>5 DEF DeliveryNamed, OnlyVerifiedDelivered, DeliveryIsJudged
  <1>10. RejectedNeverReturns'
    BY <1>3, <1>4 DEF CoreInv, KeyInv, RejectedNeverReturns
  <1>11. CyclesCountRejections'
    BY <1>2, <1>4 DEF CoreInv, CyclesCountRejections
  <1>. QED BY <1>2, <1>6, <1>7, <1>8, <1>9, <1>10, <1>11 DEF CoreInv

(* The step of FreezeCandidate that proposes the frozen candidate.         *)
LEMMA ProposeStep ==
  ASSUME IInv, NEW c \in Candidates, NEW s \in Seq(Step), pending = <<Propose(c)>> \o s, Continue,
         Saved(c), ~Loses(s) \/ validate_candidate_state(c)
  PROVE  /\ CoreInv' /\ EvidenceInv' /\ LedgerInv'
         /\ pending' = s \/ pending' = <<>>
         /\ Loses(s) => pending' = s
         /\ pending' = <<>> \/ <<"candidate", c, NoArg>> \in keys'
         /\ UNCHANGED <<manifest, evidence, verdict, reviews, crashed, ledger>>
  <1>. DEFINE h == Propose(c)
  <1>1. /\ h \in Step /\ h.op = "command" /\ h.key = <<"candidate", c, NoArg>>
        /\ h.command.type = "candidate_ready" /\ h.command.candidate = c
    BY StepTypes DEF Propose, Tx, Command
  <1>. HIDE DEF h
  <1>2. UNCHANGED <<design, plans, manifest, reviews, verdict, reserved,
                    flights, promoting, disturbances, crashed, evidence, ledger>>
    BY <1>1, RunStep DEF h
  <1>3. h.op # "evidence" /\ ~Owed(h)
    BY <1>1 DEF Owed
  <1>4. CASE Refused(h)
    <2>1. ~validate_candidate_state(c)
      <3>1. ASSUME Executing PROVE ~Refused(h)
        BY <1>1, <3>1
        DEF Refused, Executing, IInv, CoreInv, ReserveInv, allowed, From, NeedsCandidate
      <3>2. ASSUME wf.state = "verification", wf.candidate = c PROVE ~Refused(h)
        BY <1>1, <3>2, CoreAssumption DEF Refused, IInv, CoreInv, ReserveInv, KeyInv
      <3>. QED BY <1>4, <3>1, <3>2 DEF validate_candidate_state
    <2>2. UNCHANGED <<wf, keys>> /\ pending' = <<>> /\ ~Loses(s)
      BY <1>1, <1>4, <2>1, RunStep DEF h
    <2>3. \A t : Has(pending, t) => ~Owed(t) /\ t.op # "evidence"
      BY <1>1, <1>3, <2>2, HasThen DEF Loses, h
    <2>4. CoreInv'
      BY <1>2, <2>2, CoreFrame DEF IInv, CoreInv, TypeOK
    <2>5. EvidenceInv'
      BY <1>2, <2>3, EvidenceFrame DEF IInv
    <2>6. wf'.mode # NoArg => <<"route", 0, wf'.mode>> \in ledger'
      BY <1>2, <2>2 DEF IInv, LedgerInv
    <2>7. LedgerInv'
      BY <1>2, <2>2, <2>3, <2>6, LedgerFrame DEF IInv
    <2>. QED BY <1>2, <2>2, <2>4, <2>5, <2>7
  <1>5. CASE ~Refused(h)
    <2>1. /\ wf' = IF h.key \in keys THEN wf ELSE apply(wf, h.command)
          /\ keys' = keys \cup {h.key}
          /\ ~Routes(h) => pending' = s
      BY <1>1, <1>5, RunStep DEF h
    <2>2. pending' = s
      BY <1>1, <2>1 DEF Routes, Rejections
    <2>3. ~reserved /\ (h.key \notin keys => allowed(wf, h.command))
      BY <1>5 DEF Refused
    <2>4. CoreInv' /\ wf'.mode = wf.mode
      <3>1. CASE h.key \in keys
        <4>1. wf' = wf /\ keys' = keys
          BY <2>1, <3>1
        <4>. QED BY <1>2, <4>1, CoreFrame DEF IInv, CoreInv, TypeOK
      <3>2. CASE h.key \notin keys
        <4>1. wf' = apply(wf, h.command) /\ allowed(wf, h.command)
          BY <2>1, <2>3, <3>2
        <4>. QED BY <1>1, <1>2, <2>1, <2>3, <3>2, <4>1, CorePropose DEF IInv, h
      <3>. QED BY <3>1, <3>2
    <2>5. \A t : Has(pending, t) => t = h \/ Has(pending', t)
      BY <1>1, <2>2, HasThen DEF h
    <2>6. EvidenceInv'
      BY <1>2, <1>3, <2>5, EvidenceFrame DEF IInv
    <2>7. wf'.mode # NoArg => <<"route", 0, wf'.mode>> \in ledger'
      BY <1>2, <2>4 DEF IInv, LedgerInv
    <2>8. \A t : Has(pending, t) /\ Owed(t) => t.key \in ledger' \/ Has(pending', t)
      BY <1>3, <2>5
    <2>9. LedgerInv'
      BY <1>2, <2>1, <2>7, <2>8, LedgerFrame DEF IInv
    <2>. QED BY <1>1, <1>2, <2>1, <2>2, <2>4, <2>6, <2>9
  <1>. QED BY <1>4, <1>5

(* A rejection counts one cycle and makes one more candidate rejected, and *)
(* it never counts twice: its key is spent with the candidate.             *)
LEMMA CoreReject ==
  ASSUME CoreInv, NEW c \in Candidates, NEW x \in Rejections, NEW t \in Targets,
         wf.candidate = c, allowed(wf, Command(x, c, t)),
         wf' = apply(wf, Command(x, c, t)), c \notin Rejected, ~reserved,
         keys' = keys \cup {<<"reject", c, t>>},
         UNCHANGED <<design, plans, manifest, evidence, reviews, verdict, flights, crashed,
                     disturbances, reserved, promoting>>
  PROVE  /\ CoreInv' /\ wf'.mode = wf.mode
         /\ wf'.state \in {"repair", "blocked"} /\ wf'.target # NoArg
  <1>. DEFINE p == Command(x, c, t)
  <1>1. p.type \in Rejections /\ p.arg = t /\ p.type \in CommandTypes /\ Wellformed(p)
    BY DEF Command, Rejections, CommandTypes, From, Wellformed
  <1>. HIDE DEF p
  <1>2. wf' \in Workflow /\ Sane(wf') /\ wf'.mode = wf.mode /\ wf'.candidate = c
    BY <1>1, ApplyFacts DEF CoreInv, TypeOK, p, Rejections
  <1>3. wf' = rejected(wf, t)
    BY <1>1 DEF apply, p, Rejections
  <1>4. wf'.state \in {"repair", "blocked"} /\ wf'.target = t /\ wf'.cycles = wf.cycles + 1
    BY <1>3 DEF rejected, CoreInv, TypeOK, Workflow
  <1>5. Rejected' = Rejected \cup {c}
    <2>. DEFINE k == <<"reject", c, t>>
    <2>1. k[1] = "reject" /\ k[2] = c
      OBVIOUS
    <2>2. keys' = keys \cup {k}
      OBVIOUS
    <2>. HIDE DEF k
    <2>. QED BY <2>1, <2>2, RejectedGrows
  <1>6. wf.state \in {"verification", "arbitration"}
    BY <1>1 DEF allowed, From, Rejections, p
  <1>7. wf'.blocked_from = NoArg
    BY <1>3, <1>6 DEF rejected, CoreInv, TypeOK, Workflow, Sane
  <1>8. Stage' \in {"repair", "blocked"}
    BY <1>4, <1>7, StageIs DEF StageOf
  <1>9. TypeOK'
    BY <1>2 DEF CoreInv, TypeOK
  <1>10. KeyInv'
    <2>1. IsFiniteSet(Rejected')
      BY <1>5, FS_AddElement DEF CoreInv, KeyInv
    <2>2. c # NoCandidate /\ <<"candidate", c, NoArg>> \in keys
      BY CoreAssumption DEF CoreInv, KeyInv
    <2>. QED BY <1>2, <1>5, <2>1, <2>2 DEF CoreInv, KeyInv, Saved
  <1>11. ReserveInv' /\ FlightInv'
    BY DEF CoreInv, ReserveInv, FlightInv, Saved
  <1>12. DeliveryNamed' /\ OnlyVerifiedDelivered' /\ DeliveryIsJudged'
    BY <1>8 DEF DeliveryNamed, OnlyVerifiedDelivered, DeliveryIsJudged
  <1>13. RejectedNeverReturns'
    BY <1>8 DEF RejectedNeverReturns
  <1>14. CyclesCountRejections'
    <2>1. Cardinality(Rejected') = Cardinality(Rejected) + 1
      BY <1>5, FS_AddElement DEF CoreInv, KeyInv
    <2>. QED BY <1>4, <2>1 DEF CoreInv, CyclesCountRejections
  <1>15. t # NoArg
    BY DEF Targets, NoArg
  <1>. QED BY <1>2, <1>4, <1>9, <1>10, <1>11, <1>12, <1>13, <1>14, <1>15 DEF CoreInv

(* The step of a handler that rejects the current candidate.               *)
LEMMA RejectStep ==
  ASSUME IInv, NEW c \in Candidates, NEW x \in Rejections, NEW t \in Targets,
         NEW s \in Seq(Step), pending = <<Rejection(x, c, t)>> \o s, Continue,
         wf.candidate = c, wf.state \in From[x]
  PROVE  /\ CoreInv' /\ EvidenceInv' /\ LedgerInv'
         /\ \/ pending' = s
            \/ pending' = <<BeginRepair(c)>> \o s /\ wf'.state = "repair"
         /\ wf'.target # NoArg
         /\ UNCHANGED <<manifest, evidence, verdict, reviews, crashed, ledger>>
  <1>. DEFINE h == Rejection(x, c, t)
  <1>1. h \in Step
    BY DEF Step, CommandsOf
  <1>2. /\ h.op = "command" /\ h.key = <<"reject", c, t>>
        /\ h.command = Command(x, c, t) /\ h.command.type = x /\ h.command.candidate = c
    BY DEF Rejection, Tx, Command
  <1>. HIDE DEF h
  <1>3. UNCHANGED <<design, plans, manifest, reviews, verdict, reserved,
                    flights, promoting, disturbances, crashed, evidence, ledger>>
    BY <1>1, <1>2, RunStep DEF h
  <1>4. wf.state \in {"verification", "arbitration"}
    BY DEF Rejections, From
  <1>5. c \notin Rejected
    BY <1>4, StageIs DEF StageOf, IInv, CoreInv, RejectedNeverReturns
  <1>6. h.key \notin keys
    BY <1>2, <1>5 DEF Rejected
  <1>7. ~reserved
    BY <1>4 DEF IInv, CoreInv, ReserveInv
  <1>8. allowed(wf, h.command)
    <2>1. wf.cycles < 255
      <3>1. wf.cycles \in Int /\ wf.maximum \in Int /\ wf.maximum <= 255
        BY WorkflowInts DEF IInv, CoreInv, TypeOK
      <3>2. wf.cycles < wf.maximum
        BY <1>4 DEF IInv, CoreInv, Sane
      <3>. QED BY <3>1, <3>2
    <2>2. wf.candidate # NoCandidate
      BY CoreAssumption
    <2>. QED BY <1>2, <2>1, <2>2 DEF allowed, Rejections
  <1>9. ~Refused(h)
    BY <1>7, <1>8 DEF Refused
  <1>10. /\ wf' = apply(wf, h.command) /\ keys' = keys \cup {h.key}
         /\ \/ pending' = s
            \/ pending' = <<BeginRepair(c)>> \o s /\ wf'.state = "repair"
    BY <1>1, <1>2, <1>6, <1>9, RunStep DEF h, Routes
  <1>11. CoreInv' /\ wf'.mode = wf.mode /\ wf'.target # NoArg
    BY <1>2, <1>3, <1>5, <1>7, <1>8, <1>10, CoreReject DEF IInv
  <1>12. h.op # "evidence" /\ ~Owed(h)
    BY <1>2 DEF Owed
  <1>13. \A u : Has(pending, u) => u = h \/ Has(pending', u)
    <2>1. \A u : Has(pending, u) => u = h \/ Has(s, u)
      BY <1>1, HasThen DEF h
    <2>2. \A u : Has(s, u) => Has(<<BeginRepair(c)>> \o s, u)
      BY HasThen, StepTypes
    <2>. QED BY <1>10, <2>1, <2>2
  <1>14. EvidenceInv'
    BY <1>3, <1>12, <1>13, EvidenceFrame DEF IInv
  <1>15. LedgerInv'
    <2>1. wf'.mode # NoArg => <<"route", 0, wf'.mode>> \in ledger'
      BY <1>3, <1>11 DEF IInv, LedgerInv
    <2>2. \A u : Has(pending, u) /\ Owed(u) => u.key \in ledger' \/ Has(pending', u)
      BY <1>12, <1>13
    <2>. QED BY <1>3, <1>10, <2>1, <2>2, LedgerFrame DEF IInv
  <1>. QED BY <1>3, <1>10, <1>11, <1>14, <1>15

(* The step of SubmitArbitration that approves: the evidence and the       *)
(* reviews it was checked against are still those of the store.            *)
LEMMA ApproveStep ==
  ASSUME IInv, NEW c \in Candidates, NEW s \in Seq(Step), pending = <<Approve(c)>> \o s, Continue,
         wf.state = "arbitration", wf.candidate = c, verdict[c] = "approved", Approvable(c)
  PROVE  /\ CoreInv' /\ EvidenceInv' /\ LedgerInv' /\ pending' = s
         /\ UNCHANGED <<manifest, evidence, verdict, reviews, crashed, ledger>>
  <1>. DEFINE h == Approve(c)
  <1>1. /\ h \in Step /\ h.op = "command" /\ h.key = <<"approved", c, NoArg>>
        /\ h.command.type = "approve" /\ h.key[1] = "approved"
    BY StepTypes DEF Approve, Tx, Command
  <1>. HIDE DEF h
  <1>2. UNCHANGED <<design, plans, manifest, reviews, verdict, reserved,
                    flights, promoting, disturbances, crashed, evidence, ledger>>
    BY <1>1, RunStep DEF h
  <1>3. ~reserved
    BY DEF IInv, CoreInv, ReserveInv
  <1>4. allowed(wf, h.command)
    BY <1>1, CoreAssumption DEF allowed, From
  <1>5. /\ wf' = IF h.key \in keys THEN wf ELSE apply(wf, h.command)
        /\ keys' = keys \cup {h.key} /\ pending' = s
    BY <1>1, <1>3, <1>4, RunStep DEF h, Refused, Routes, Rejections
  <1>6. Rejected' = Rejected
    BY <1>1, <1>5, RejectedGrows
  <1>7. c \notin Rejected
    BY StageIs DEF StageOf, IInv, CoreInv, RejectedNeverReturns
  <1>8. /\ wf' \in Workflow /\ Sane(wf') /\ wf'.cycles = wf.cycles
        /\ wf'.mode = wf.mode /\ wf'.candidate = c
    <2>1. CASE wf' = wf
      BY <2>1 DEF IInv, CoreInv, TypeOK
    <2>2. CASE wf' = apply(wf, h.command)
      BY <1>1, <1>4, <2>2, ApplyFacts
      DEF IInv, CoreInv, TypeOK, Wellformed, CommandTypes, From, Rejections
    <2>. QED BY <1>5, <2>1, <2>2
  <1>9. CoreInv'
    <2>1. TypeOK'
      BY <1>2, <1>8 DEF IInv, CoreInv, TypeOK
    <2>2. KeyInv'
      BY <1>1, <1>2, <1>5, <1>6, <1>8 DEF IInv, CoreInv, KeyInv, Saved
    <2>3. ReserveInv' /\ FlightInv'
      BY <1>2, <1>3 DEF IInv, CoreInv, ReserveInv, FlightInv, Saved
    <2>4. Saved(c)
      BY CoreAssumption DEF IInv, CoreInv, KeyInv
    <2>5. DeliveryNamed' /\ OnlyVerifiedDelivered'
      BY <1>2, <1>8, <2>4 DEF DeliveryNamed, OnlyVerifiedDelivered, Saved, Approvable
    <2>6. DeliveryIsJudged'
      BY <1>2, <1>8 DEF DeliveryIsJudged, Approvable
    <2>7. RejectedNeverReturns' /\ CyclesCountRejections'
      BY <1>6, <1>7, <1>8
      DEF IInv, CoreInv, RejectedNeverReturns, CyclesCountRejections
    <2>. QED BY <1>8, <2>1, <2>2, <2>3, <2>5, <2>6, <2>7 DEF CoreInv
  <1>10. h.op # "evidence" /\ ~Owed(h)
    BY <1>1 DEF Owed
  <1>11. \A u : Has(pending, u) => u = h \/ Has(pending', u)
    BY <1>1, <1>5, HasThen DEF h
  <1>12. EvidenceInv'
    BY <1>2, <1>10, <1>11, EvidenceFrame DEF IInv
  <1>13. LedgerInv'
    <2>1. wf'.mode # NoArg => <<"route", 0, wf'.mode>> \in ledger'
      BY <1>2, <1>8 DEF IInv, LedgerInv
    <2>2. \A u : Has(pending, u) /\ Owed(u) => u.key \in ledger' \/ Has(pending', u)
      BY <1>10, <1>11
    <2>. QED BY <1>2, <1>5, <2>1, <2>2, LedgerFrame DEF IInv
  <1>. QED BY <1>2, <1>5, <1>9, <1>12, <1>13

(* The step that stores the result of a gate, unless its identifiers are   *)
(* taken by another candidate of the plan.                                 *)
LEMMA EvidenceStep ==
  ASSUME IInv, NEW c \in Candidates, NEW g \in Gates, NEW o \in Outcomes, NEW s \in Seq(Step),
         pending = <<Evidence(c, g, o)>> \o s, Continue, Saved(c),
         Has(s, Ran(c, g)),
         g = "suite" => \E n \in Outcomes : Has(s, Evidence(c, "integrity", n)),
         g = "integrity" => evidence[c]["suite"] # NoArg,
         \A t : Has(s, t) /\ Owed(t) => \E x \in Gates : t = Ran(c, x),
         \A t : Has(s, t) /\ t.op = "evidence" => \E x \in Gates, n \in Outcomes : t = Evidence(c, x, n)
  PROVE  /\ CoreInv' /\ EvidenceInv' /\ LedgerInv'
         /\ \/ pending' = <<>>
            \/ pending' = s /\ evidence'[c][g] # NoArg
         /\ g = "integrity" => /\ pending' = s
         /\ UNCHANGED <<wf, manifest, verdict, reviews, crashed, ledger>>
  <1>. DEFINE h == Evidence(c, g, o)
  <1>1. /\ h \in Step /\ h.op = "evidence"
        /\ h.key[1] = g /\ h.key[2] = c /\ h.key[3] = o
    BY StepTypes DEF Evidence
  <1>2. /\ UNCHANGED <<design, plans, manifest, reviews, verdict, reserved,
                       flights, promoting, disturbances, crashed, wf, keys, ledger>>
        /\ save_evidence_once(c, g, o) /\ Tail(pending) = s
    BY <1>1, RunStep
  <1>3. ~Owed(h)
    BY <1>1 DEF Owed
  <1>4. \A t : Has(pending, t) => t = h \/ Has(s, t)
    BY <1>1, HasThen
  <1>. DEFINE Taken == \E d \in Candidates \ {c} : manifest[d] = manifest[c] /\ evidence[d][g] # NoArg
  <1>5. Taken => g = "suite" /\ evidence[c]["suite"] = NoArg /\ evidence[c]["integrity"] = NoArg
    BY DEF IInv, EvidenceInv, Gates
  <1>6. CASE Taken
    <2>1. pending' = <<>> /\ evidence' = evidence
      BY <1>2, <1>6 DEF save_evidence_once
    <2>2. CoreInv'
      BY <1>2, <2>1, CoreFrame DEF IInv, CoreInv, TypeOK
    <2>3. EvidenceInv'
      <3>1. ASSUME NEW d \in Candidates, NEW n \in Outcomes, Has(pending, Evidence(d, "integrity", n))
            PROVE  d = c
        <4>1. PICK x \in Gates, m \in Outcomes : Evidence(d, "integrity", n) = Evidence(c, x, m)
          BY <1>4, <3>1 DEF Evidence
        <4>2. Evidence(d, "integrity", n).key[2] = d /\ Evidence(c, x, m).key[2] = c
          BY DEF Evidence
        <4>. QED BY <4>1, <4>2
      <3>. QED BY <1>2, <1>5, <1>6, <2>1, <3>1 DEF IInv, EvidenceInv, Saved
    <2>4. LedgerInv'
      <3>1. ASSUME NEW t, Has(pending, t), Owed(t) PROVE \E x \in Gates : t = Ran(c, x)
        BY <1>3, <1>4, <3>1
      <3>2. \A d \in Candidates :
              /\ ~Has(pending, Frozen(d))
              /\ \A v : ~Has(pending, Judged(d, v))
              /\ \A r \in Roles : ~Has(pending, Reviewed(d, r))
        <4>1. \A x : Ran(c, x).key[1] = "verification"
          BY DEF Ran, Audit
        <4>2. \A d : Owed(Frozen(d)) /\ Frozen(d).key[1] = "frozen"
          BY DEF Owed, Frozen, Audit
        <4>3. \A d, v : Owed(Judged(d, v)) /\ Judged(d, v).key[1] = "arbitration"
          BY DEF Owed, Judged, Audit
        <4>4. \A d, r : Owed(Reviewed(d, r)) /\ Reviewed(d, r).key[1] = "review"
          BY DEF Owed, Reviewed, Audit
        <4>. QED BY <3>1, <4>1, <4>2, <4>3, <4>4
      <3>3. ASSUME NEW d \in Candidates, d # c, NEW x \in Gates PROVE ~Has(pending, Ran(d, x))
        <4>1. /\ Owed(Ran(d, x)) /\ Ran(d, x).key[2] = d
              /\ \A y \in Gates : Ran(c, y).key[2] = c
          BY DEF Owed, Ran, Audit
        <4>. QED BY <3>1, <3>3, <4>1
      <3>4. \A x \in Gates : evidence[c][x] = NoArg
        BY <1>5, <1>6 DEF Gates
      <3>. QED BY <1>2, <2>1, <3>2, <3>3, <3>4 DEF IInv, LedgerInv, Recorded, Saved
    <2>. QED BY <1>2, <1>5, <1>6, <2>1, <2>2, <2>3, <2>4 DEF Gates
  <1>7. CASE ~Taken
    <2>1. pending' = s /\ evidence' = [evidence EXCEPT ![c][g] = o]
      BY <1>2, <1>7 DEF save_evidence_once
    <2>2. o # NoArg
      BY DEF Outcomes, NoArg
    <2>3. /\ evidence' \in [Candidates -> [Gates -> Outcomes \cup {NoArg}]]
          /\ evidence'[c][g] = o
          /\ \A d \in Candidates, x \in Gates : (d # c \/ x # g) => evidence'[d][x] = evidence[d][x]
      BY <2>1 DEF IInv, CoreInv, TypeOK
    <2>4. CoreInv'
      <3>1. TypeOK' /\ Sane(wf)' /\ KeyInv'
        BY <1>2, <2>3 DEF IInv, CoreInv, TypeOK, Sane, KeyInv, Saved, Rejected
      <3>2. ReserveInv' /\ FlightInv'
        BY <1>2 DEF IInv, CoreInv, ReserveInv, FlightInv, Saved
      <3>3. OnlyVerifiedDelivered'
        BY <1>2, <2>2, <2>3
        DEF IInv, CoreInv, DeliveryNamed, OnlyVerifiedDelivered, Saved, Stage
      <3>4. DeliveryNamed' /\ DeliveryIsJudged'
        BY <1>2 DEF IInv, CoreInv, DeliveryNamed, DeliveryIsJudged, Stage
      <3>5. RejectedNeverReturns' /\ CyclesCountRejections'
        BY <1>2 DEF IInv, CoreInv, RejectedNeverReturns, CyclesCountRejections, Rejected, Stage
      <3>. QED BY <3>1, <3>2, <3>3, <3>4, <3>5 DEF CoreInv
    <2>5. EvidenceInv'
      <3>. SUFFICES ASSUME NEW d \in Candidates
                    PROVE  /\ \A x \in Gates : evidence'[d][x] # NoArg => Saved(d)
                           /\ evidence'[d]["integrity"] # NoArg => evidence'[d]["suite"] # NoArg
                           /\ \A e \in Candidates \ {d} :
                                manifest[e] = manifest[d] =>
                                  evidence'[d]["suite"] = NoArg \/ evidence'[e]["suite"] = NoArg
                           /\ ~crashed /\ evidence'[d]["suite"] # NoArg =>
                                \/ evidence'[d]["integrity"] # NoArg
                                \/ \E n \in Outcomes : Has(pending', Evidence(d, "integrity", n))
        BY <1>2 DEF EvidenceInv, Saved
      <3>1. "suite" \in Gates /\ "integrity" \in Gates /\ (g = "suite" \/ g = "integrity")
        BY DEF Gates
      <3>2. \A x \in Gates : evidence'[d][x] # NoArg => Saved(d)
        BY <2>3 DEF IInv, EvidenceInv
      <3>3. evidence'[d]["integrity"] # NoArg => evidence'[d]["suite"] # NoArg
        BY <2>2, <2>3, <3>1 DEF IInv, EvidenceInv
      <3>4. ASSUME NEW e \in Candidates \ {d}, manifest[e] = manifest[d]
            PROVE  evidence'[d]["suite"] = NoArg \/ evidence'[e]["suite"] = NoArg
        BY <1>7, <2>3, <3>1, <3>4 DEF IInv, EvidenceInv
      <3>5. ASSUME ~crashed, evidence'[d]["suite"] # NoArg, evidence'[d]["integrity"] = NoArg
            PROVE  \E n \in Outcomes : Has(pending', Evidence(d, "integrity", n))
        <4>1. CASE d = c
          <5>1. g = "suite"
            BY <2>2, <2>3, <3>1, <3>5, <4>1
          <5>. QED BY <2>1, <4>1, <5>1
        <4>2. CASE d # c
          <5>1. PICK n \in Outcomes : Has(pending, Evidence(d, "integrity", n))
            BY <2>3, <3>1, <3>5, <4>2 DEF IInv, EvidenceInv
          <5>2. Evidence(d, "integrity", n).key[2] = d
            BY DEF Evidence
          <5>. QED BY <1>1, <1>4, <2>1, <4>2, <5>1, <5>2
        <4>. QED BY <4>1, <4>2
      <3>. QED BY <3>2, <3>3, <3>4, <3>5
    <2>6. LedgerInv'
      <3>1. wf'.mode # NoArg => <<"route", 0, wf'.mode>> \in ledger'
        BY <1>2 DEF IInv, LedgerInv
      <3>2. \A t : Has(pending, t) /\ Owed(t) => t.key \in ledger' \/ Has(pending', t)
        BY <1>3, <1>4, <2>1
      <3>3. \A d \in Candidates : \A x \in Gates :
              evidence'[d][x] # NoArg => evidence[d][x] # NoArg \/ Has(pending', Ran(d, x))
        BY <2>1, <2>3
      <3>. QED BY <1>2, <3>1, <3>2, <3>3, LedgerFrame DEF IInv
    <2>. QED BY <1>2, <2>1, <2>2, <2>3, <2>4, <2>5, <2>6
  <1>. QED BY <1>6, <1>7

(* The step that records the essentiality constraint of a design.          *)
LEMMA ConstraintStep ==
  ASSUME IInv, NEW s \in Seq(Step), pending = <<Constraint("essentiality")>> \o s, Continue
  PROVE  /\ CoreInv' /\ EvidenceInv' /\ LedgerInv'
         /\ pending' = s \/ pending' = <<Essential>> \o s
  <1>. DEFINE h == Constraint("essentiality")
  <1>1. /\ h \in Step /\ h.op = "constraint" /\ h.key[1] = "essentiality"
        /\ Audit(h.key[1], h.key[2], h.key[3]) = Essential
    BY StepTypes DEF Constraint, Essential
  <1>2. /\ UNCHANGED <<design, plans, manifest, reviews, verdict, reserved,
                       flights, promoting, disturbances, crashed, wf, evidence, ledger>>
        /\ keys' = keys \cup {h.key}
        /\ pending' = s \/ pending' = <<Essential>> \o s
    BY <1>1, RunStep
  <1>. HIDE DEF h
  <1>3. Rejected' = Rejected
    BY <1>1, <1>2, RejectedGrows
  <1>4. CoreInv'
    <2>1. TypeOK' /\ Sane(wf)'
      BY <1>2 DEF IInv, CoreInv, TypeOK, Sane
    <2>2. KeyInv'
      BY <1>1, <1>2, <1>3 DEF IInv, CoreInv, KeyInv, Saved
    <2>3. ReserveInv' /\ FlightInv'
      BY <1>2 DEF IInv, CoreInv, ReserveInv, FlightInv, Saved
    <2>4. DeliveryNamed' /\ OnlyVerifiedDelivered' /\ DeliveryIsJudged'
      BY <1>2
      DEF IInv, CoreInv, DeliveryNamed, OnlyVerifiedDelivered, DeliveryIsJudged, Saved,
          Stage
    <2>5. RejectedNeverReturns' /\ CyclesCountRejections'
      BY <1>2, <1>3 DEF IInv, CoreInv, RejectedNeverReturns, CyclesCountRejections, Stage
    <2>. QED BY <2>1, <2>2, <2>3, <2>4, <2>5 DEF CoreInv
  <1>5. \A t : Has(pending, t) => t = h \/ Has(pending', t)
    <2>1. \A t : Has(pending, t) => t = h \/ Has(s, t)
      BY <1>1, HasThen DEF h
    <2>2. \A t : Has(s, t) => Has(<<Essential>> \o s, t)
      BY HasThen, StepTypes
    <2>. QED BY <1>2, <2>1, <2>2
  <1>6. h.op # "evidence" /\ ~Owed(h)
    BY <1>1 DEF Owed
  <1>7. EvidenceInv'
    BY <1>2, <1>5, <1>6, EvidenceFrame DEF IInv
  <1>8. wf'.mode # NoArg => <<"route", 0, wf'.mode>> \in ledger'
    BY <1>2 DEF IInv, LedgerInv
  <1>9. LedgerInv'
    BY <1>2, <1>5, <1>6, <1>8, LedgerFrame DEF IInv
  <1>. QED BY <1>2, <1>4, <1>7, <1>9

(* A refusal loses no audit when the steps after it are commands only.     *)
LEMMA NoLoss ==
  /\ ~Loses(<<>>)
  /\ \A m : ~Loses(<<Decision(m), Route(m)>>)
  /\ \A k, p : ~Loses(<<Tx(k, p)>>)
  <1>1. \A k, p : ~Owed(Tx(k, p)) /\ Tx(k, p).op # "evidence"
    BY DEF Owed, Tx
  <1>2. \A m : ~Owed(Decision(m)) /\ Decision(m).op # "evidence"
    BY DEF Owed, Decision, Audit
  <1>. QED BY <1>1, <1>2, HasFew DEF Loses, Route

(* StartWorkflow goes on.                                                  *)
LEMMA StartingStep ==
  ASSUME IInv, Starting, Continue PROVE IInv'
  <1>1. PICK m \in Modes :
          \/ pending = <<Intake>> \o <<Decision(m), Route(m)>>
          \/ pending = <<Decision(m), Route(m)>>
          \/ pending = <<Route(m)>> /\ <<"route", 0, m>> \in ledger
    BY DEF Starting
  <1>2. /\ Intake \in Step /\ Decision(m) \in Step /\ Route(m) \in Step
        /\ <<Decision(m), Route(m)>> \in Seq(Step) /\ <<Route(m)>> \in Seq(Step)
        /\ <<Decision(m), Route(m)>> = <<Decision(m)>> \o <<Route(m)>>
        /\ <<Route(m)>> = <<Route(m)>> \o <<>> /\ <<>> \in Seq(Step)
    BY StepTypes, AsSteps
  <1>3. /\ Route(m).op = "command" /\ Route(m).key[1] = "route"
        /\ Route(m).command.type = "route" /\ Route(m).command.arg = m
        /\ Intake.op = "command" /\ Intake.key[1] = "complete-intake"
        /\ Intake.command.type = "complete_intake"
        /\ Decision(m).op = "audit" /\ Decision(m).key = <<"route", 0, m>>
    BY DEF Route, Intake, Decision, Tx, Audit, Command
  <1>4. /\ "route" \in Plain /\ "complete_intake" \in Plain
        /\ Wellformed(Route(m).command) /\ Wellformed(Intake.command)
    BY <1>3 DEF Plain, CommandTypes, From, Rejections, Wellformed
  <1>5. CASE pending = <<Intake>> \o <<Decision(m), Route(m)>>
    <2>1. /\ CoreInv' /\ EvidenceInv' /\ LedgerInv'
          /\ pending' = <<Decision(m), Route(m)>> \/ pending' = <<>>
      BY <1>2, <1>3, <1>4, <1>5, NoLoss, PlainStep
    <2>2. HandlerInv'
      BY <2>1 DEF HandlerInv, Starting, Free
    <2>. QED BY <2>1, <2>2 DEF IInv
  <1>6. CASE pending = <<Decision(m), Route(m)>>
    <2>1. \A c \in Candidates :
            /\ Decision(m).key # <<"frozen", c, NoArg>>
            /\ \A v \in Verdicts : Decision(m).key # <<"arbitration", c, v>>
      BY <1>3
    <2>2. pending = <<Decision(m)>> \o <<Route(m)>>
      BY <1>2, <1>6
    <2>3. /\ CoreInv' /\ EvidenceInv' /\ LedgerInv'
          /\ pending' = <<Route(m)>> /\ <<"route", 0, m>> \in ledger'
      BY <1>2, <1>3, <2>1, <2>2, AuditStep
    <2>4. HandlerInv'
      BY <2>3 DEF HandlerInv, Starting
    <2>. QED BY <2>3, <2>4 DEF IInv
  <1>7. CASE pending = <<Route(m)>> /\ <<"route", 0, m>> \in ledger
    <2>1. pending = <<Route(m)>> \o <<>>
      BY <1>2, <1>7
    <2>2. CoreInv' /\ EvidenceInv' /\ LedgerInv' /\ pending' = <<>>
      BY <1>2, <1>3, <1>4, <1>7, <2>1, NoLoss, PlainStep
    <2>. QED BY <2>2 DEF IInv, HandlerInv, Free
  <1>. QED BY <1>1, <1>5, <1>6, <1>7

(* AcceptArchitecture goes on.                                             *)
LEMMA AcceptingStep ==
  ASSUME IInv, Accepting, Continue PROVE IInv'
  <1>1. PICK s \in {<<>>} \cup {<<Accept(d)>> : d \in Designs} :
          \/ pending = <<Constraint("essentiality")>> \o s
          \/ pending = <<Essential>> \o s
          \/ pending = s
    BY DEF Accepting
  <1>2. s \in Seq(Step)
    <2>1. \A d \in Designs : <<Accept(d)>> \in Seq(Step)
      BY StepTypes
    <2>2. <<>> \in Seq(Step)
      OBVIOUS
    <2>. QED BY <2>1, <2>2
  <1>3. CASE pending = <<Constraint("essentiality")>> \o s
    <2>1. /\ CoreInv' /\ EvidenceInv' /\ LedgerInv'
          /\ pending' = s \/ pending' = <<Essential>> \o s
      BY <1>2, <1>3, ConstraintStep
    <2>2. Accepting'
      BY <2>1 DEF Accepting
    <2>. QED BY <2>1, <2>2 DEF IInv, HandlerInv
  <1>4. CASE pending = <<Essential>> \o s
    <2>1. /\ Essential \in Step /\ Essential.op = "audit"
          /\ Essential.key = <<"essentiality", 0, NoArg>>
      BY StepTypes DEF Essential, Audit
    <2>2. \A c \in Candidates :
            /\ Essential.key # <<"frozen", c, NoArg>>
            /\ \A v \in Verdicts : Essential.key # <<"arbitration", c, v>>
      BY <2>1
    <2>3. CoreInv' /\ EvidenceInv' /\ LedgerInv' /\ pending' = s
      BY <1>2, <1>4, <2>1, <2>2, AuditStep
    <2>4. Accepting'
      BY <2>3 DEF Accepting
    <2>. QED BY <2>3, <2>4 DEF IInv, HandlerInv
  <1>5. CASE pending = s
    <2>1. PICK d \in Designs : s = <<Accept(d)>>
      BY <1>5 DEF Continue
    <2>2. /\ Accept(d) \in Step /\ Accept(d).op = "command"
          /\ Accept(d).key[1] = "architecture-accepted"
          /\ Accept(d).command.type = "architecture_accepted"
      BY StepTypes DEF Accept, Tx, Command
    <2>3. "architecture_accepted" \in Plain /\ Wellformed(Accept(d).command)
      BY <2>2 DEF Plain, CommandTypes, From, Rejections, Wellformed
    <2>4. pending = <<Accept(d)>> \o <<>> /\ <<>> \in Seq(Step)
      BY <1>5, <2>1, <2>2, AsSteps
    <2>5. CoreInv' /\ EvidenceInv' /\ LedgerInv' /\ pending' = <<>>
      BY <2>2, <2>3, <2>4, NoLoss, PlainStep
    <2>. QED BY <2>5 DEF IInv, HandlerInv, Free
  <1>. QED BY <1>1, <1>3, <1>4, <1>5

(* FreezeCandidate goes on after its flight has landed.                    *)
LEMMA ProposingStep ==
  ASSUME IInv, Proposing, Continue PROVE IInv'
  <1>1. PICK c \in Candidates :
          /\ Saved(c)
          /\ \/ pending = <<Propose(c)>>
             \/ pending = <<Propose(c), Frozen(c)>> /\ validate_candidate_state(c)
             \/ pending = <<Frozen(c)>> /\ <<"candidate", c, NoArg>> \in keys
    BY DEF Proposing
  <1>2. /\ Propose(c) \in Step /\ Frozen(c) \in Step
        /\ <<Frozen(c)>> \in Seq(Step) /\ <<>> \in Seq(Step)
        /\ <<Propose(c)>> = <<Propose(c)>> \o <<>>
        /\ <<Frozen(c)>> = <<Frozen(c)>> \o <<>>
        /\ <<Propose(c), Frozen(c)>> = <<Propose(c)>> \o <<Frozen(c)>>
    BY StepTypes, AsSteps
  <1>3. CASE pending = <<Propose(c)>>
    <2>1. pending = <<Propose(c)>> \o <<>>
      BY <1>2, <1>3
    <2>2. CoreInv' /\ EvidenceInv' /\ LedgerInv' /\ pending' = <<>>
      BY <1>1, <1>2, <2>1, NoLoss, ProposeStep
    <2>. QED BY <2>2 DEF IInv, HandlerInv, Free
  <1>4. CASE pending = <<Propose(c), Frozen(c)>> /\ validate_candidate_state(c)
    <2>1. pending = <<Propose(c)>> \o <<Frozen(c)>>
      BY <1>2, <1>4
    <2>2. /\ CoreInv' /\ EvidenceInv' /\ LedgerInv'
          /\ pending' = <<Frozen(c)>> \/ pending' = <<>>
          /\ pending' = <<>> \/ <<"candidate", c, NoArg>> \in keys'
          /\ manifest' = manifest
      BY <1>1, <1>2, <1>4, <2>1, ProposeStep
    <2>3. HandlerInv'
      BY <1>1, <2>2 DEF HandlerInv, Proposing, Free, Saved
    <2>. QED BY <2>2, <2>3 DEF IInv
  <1>5. CASE pending = <<Frozen(c)>> /\ <<"candidate", c, NoArg>> \in keys
    <2>1. pending = <<Frozen(c)>> \o <<>>
      BY <1>2, <1>5
    <2>2. Frozen(c).op = "audit" /\ Frozen(c).key = <<"frozen", c, NoArg>>
      BY DEF Frozen, Audit
    <2>3. \A d \in Candidates :
            /\ Frozen(c).key = <<"frozen", d, NoArg>> => <<"candidate", d, NoArg>> \in keys
            /\ \A v \in Verdicts : Frozen(c).key # <<"arbitration", d, v>>
      BY <1>5, <2>2
    <2>4. CoreInv' /\ EvidenceInv' /\ LedgerInv' /\ pending' = <<>>
      BY <1>2, <2>1, <2>2, <2>3, AuditStep
    <2>. QED BY <2>4 DEF IInv, HandlerInv, Free
  <1>. QED BY <1>1, <1>3, <1>4, <1>5

(* The rejection that routes a candidate back is one step, by the state.   *)
LEMMA RouteIs ==
  ASSUME NEW c, NEW t, route(c, t) # <<>>
  PROVE  /\ wf.candidate = c
         /\ \E x \in Rejections : wf.state \in From[x] /\ route(c, t) = <<Rejection(x, c, t)>>
  <1>1. wf.candidate = c /\ wf.state \in {"verification", "arbitration"}
    BY DEF route
  <1>2. CASE wf.state = "verification"
    <2>1. route(c, t) = <<Rejection("verification_rejected", c, t)>>
      BY <1>1, <1>2 DEF route, Rejection
    <2>2. "verification_rejected" \in Rejections /\ wf.state \in From["verification_rejected"]
      BY <1>2 DEF Rejections, From
    <2>. QED BY <1>1, <2>1, <2>2
  <1>3. CASE wf.state = "arbitration"
    <2>1. route(c, t) = <<Rejection("reject", c, t)>>
      BY <1>1, <1>3 DEF route, Rejection
    <2>2. "reject" \in Rejections /\ wf.state \in From["reject"]
      BY <1>3 DEF Rejections, From
    <2>. QED BY <1>1, <2>1, <2>2
  <1>. QED BY <1>1, <1>2, <1>3

(* What closes a verification is made of steps, loses no audit, and is the *)
(* same as long as the aggregate is.                                       *)
LEMMA ClosingFacts ==
  ASSUME NEW c \in Candidates, NEW s \in Closing(c)
  PROVE  s \in Seq(Step) /\ ~Loses(s) /\ (wf' = wf => s \in Closing(c)')
  <1>1. CASE s = <<>>
    BY <1>1, NoLoss DEF Closing
  <1>2. CASE s = <<Pass(c)>>
    BY <1>2, NoLoss, StepTypes DEF Closing, Pass
  <1>3. CASE s = <<Block(c)>>
    BY <1>3, NoLoss, StepTypes DEF Closing, Block
  <1>4. CASE s = route(c, "execution")
    <2>1. s \in Seq(Step)
      BY <1>4, StepTypes DEF Targets
    <2>2. ~Loses(s)
      BY <1>4, NoLoss DEF route
    <2>3. wf' = wf => s \in Closing(c)'
      BY <1>4 DEF Closing, route
    <2>. QED BY <2>1, <2>2, <2>3
  <1>. QED BY <1>1, <1>2, <1>3, <1>4 DEF Closing

(* VerifyCandidate closes: it passes, blocks or rejects the candidate.     *)
LEMMA CloseStep ==
  ASSUME IInv, NEW c \in Candidates, pending \in Closing(c), Continue PROVE IInv'
  <1>1. pending # <<>>
    BY DEF Continue
  <1>2. <<>> \in Seq(Step)
    OBVIOUS
  <1>3. ASSUME NEW h \in Step, h.op = "command", h.command.type \in {"verification_passed", "block_infrastructure"},
               h.key[1] \notin {"candidate", "reject"}, pending = <<h>>
        PROVE  IInv'
    <2>1. h.command.type \in Plain /\ Wellformed(h.command) /\ h.command.type # "route"
      BY <1>3 DEF Plain, CommandTypes, From, Rejections, Wellformed
    <2>2. pending = <<h>> \o <<>>
      BY <1>3, AsSteps
    <2>3. CoreInv' /\ EvidenceInv' /\ LedgerInv' /\ pending' = <<>>
      BY <1>2, <1>3, <2>1, <2>2, NoLoss, PlainStep
    <2>. QED BY <2>3 DEF IInv, HandlerInv, Free
  <1>4. CASE pending = <<Pass(c)>>
    <2>1. /\ Pass(c) \in Step /\ Pass(c).op = "command"
          /\ Pass(c).command.type = "verification_passed" /\ Pass(c).key[1] = "verification-passed"
      BY StepTypes DEF Pass, Tx, Command
    <2>. QED BY <1>3, <1>4, <2>1
  <1>5. CASE pending = <<Block(c)>>
    <2>1. /\ Block(c) \in Step /\ Block(c).op = "command"
          /\ Block(c).command.type = "block_infrastructure" /\ Block(c).key[1] = "verification-blocked"
      BY StepTypes DEF Block, Tx, Command
    <2>. QED BY <1>3, <1>5, <2>1
  <1>6. CASE pending = route(c, "execution")
    <2>1. PICK x \in Rejections :
            /\ wf.candidate = c /\ wf.state \in From[x]
            /\ pending = <<Rejection(x, c, "execution")>>
      BY <1>1, <1>6, RouteIs
    <2>2. pending = <<Rejection(x, c, "execution")>> \o <<>>
      BY <2>1, ConcatEmptySeq,
         <<Rejection(x, c, "execution")>> \in Seq({Rejection(x, c, "execution")})
    <2>3. "execution" \in Targets
      BY DEF Targets
    <2>4. /\ CoreInv' /\ EvidenceInv' /\ LedgerInv'
          /\ pending' = <<>> \/ pending' = <<BeginRepair(c)>> \o <<>>
      BY <1>2, <2>1, <2>2, <2>3, RejectStep
    <2>5. <<BeginRepair(c)>> \o <<>> = <<BeginRepair(c)>>
      BY StepTypes, AsSteps
    <2>6. HandlerInv'
      BY <2>4, <2>5 DEF HandlerInv, Free, Repairing
    <2>. QED BY <2>4, <2>6 DEF IInv
  <1>. QED BY <1>1, <1>4, <1>5, <1>6 DEF Closing

(* VerifyCandidate goes on after its flight has landed: evidence, event,   *)
(* evidence, event, and the command that closes it.                        *)
LEMMA VerifyingStep ==
  ASSUME IInv, Verifying, Continue PROVE IInv'
  <1>. DEFINE Last(c, o, s) == <<Evidence(c, "integrity", o)>> \o (<<Ran(c, "integrity")>> \o s)
  <1>. DEFINE At(c, s) ==
          /\ Saved(c)
          /\ \/ \E n \in Outcomes, o \in Outcomes :
                  pending = <<Evidence(c, "suite", n)>> \o (<<Ran(c, "suite")>> \o Last(c, o, s))
             \/ /\ evidence[c]["suite"] # NoArg
                /\ \E o \in Outcomes : pending \in {<<Ran(c, "suite")>> \o Last(c, o, s), Last(c, o, s)}
             \/ pending \in {<<Ran(c, "integrity")>> \o s, s}
  <1>0. PICK c \in Candidates : \E s \in Closing(c) : At(c, s)
    BY DEF Verifying
  <1>1. PICK s \in Closing(c) : At(c, s)
    BY <1>0
  <1>2. /\ "suite" \in Gates /\ "integrity" \in Gates
        /\ Ran(c, "suite") \in Step /\ Ran(c, "integrity") \in Step
        /\ \A o \in Outcomes : /\ Evidence(c, "suite", o) \in Step
                               /\ Evidence(c, "integrity", o) \in Step
    BY StepTypes DEF Gates
  <1>3. s \in Seq(Step) /\ ~Loses(s)
    BY ClosingFacts
  <1>4. <<Ran(c, "integrity")>> \o s \in Seq(Step)
    BY <1>2, <1>3, StepThen
  <1>5. ASSUME NEW o \in Outcomes
        PROVE  Last(c, o, s) \in Seq(Step) /\ <<Ran(c, "suite")>> \o Last(c, o, s) \in Seq(Step)
    BY <1>2, <1>4, StepThen
  <1>6. \A t : Has(<<Ran(c, "integrity")>> \o s, t) <=> t = Ran(c, "integrity") \/ Has(s, t)
    BY <1>2, <1>3, HasThen
  <1>7. ASSUME NEW o \in Outcomes, NEW t
        PROVE  Has(<<Ran(c, "suite")>> \o Last(c, o, s), t) <=>
                 \/ t \in {Ran(c, "suite"), Evidence(c, "integrity", o), Ran(c, "integrity")}
                 \/ Has(s, t)
    <2>1. Has(Last(c, o, s), t) <=>
            t \in {Evidence(c, "integrity", o), Ran(c, "integrity")} \/ Has(s, t)
      <3>. DEFINE q == <<Ran(c, "integrity")>> \o s
      <3>1. Has(q, t) <=> t = Ran(c, "integrity") \/ Has(s, t)
        BY <1>6
      <3>2. q \in Seq(Step)
        BY <1>4
      <3>. HIDE DEF q
      <3>3. Has(<<Evidence(c, "integrity", o)>> \o q, t) <=>
              t = Evidence(c, "integrity", o) \/ Has(q, t)
        BY <1>2, <3>2, HasThen
      <3>. QED BY <3>1, <3>3 DEF q
    <2>. HIDE DEF Last
    <2>. QED BY <1>2, <1>5, <2>1, HasThen
  <1>8. \A x : Ran(c, x).op = "audit" /\ \A o : Evidence(c, x, o).op = "evidence"
    BY DEF Ran, Evidence, Audit
  <1>9. \A x, o : ~Owed(Evidence(c, x, o))
    BY <1>8 DEF Owed
  <1>10. ASSUME NEW x \in Gates
         PROVE  \A d \in Candidates :
                  /\ Ran(c, x).key # <<"frozen", d, NoArg>>
                  /\ \A v \in Verdicts : Ran(c, x).key # <<"arbitration", d, v>>
    BY DEF Ran, Audit
  <1>. HIDE DEF Last
  <1>11. ASSUME NEW n \in Outcomes, NEW o \in Outcomes,
                pending = <<Evidence(c, "suite", n)>> \o (<<Ran(c, "suite")>> \o Last(c, o, s))
         PROVE  IInv'
    <2>. DEFINE r == <<Ran(c, "suite")>> \o Last(c, o, s)
    <2>1. r \in Seq(Step) /\ pending = <<Evidence(c, "suite", n)>> \o r
      BY <1>5, <1>11
    <2>2. Has(r, Ran(c, "suite")) /\ Has(r, Evidence(c, "integrity", o))
      BY <1>7
    <2>3. \A t : Has(r, t) /\ Owed(t) => \E x \in Gates : t = Ran(c, x)
      BY <1>2, <1>3, <1>7, <1>9 DEF Loses
    <2>4. \A t : Has(r, t) /\ t.op = "evidence" =>
            \E x \in Gates, m \in Outcomes : t = Evidence(c, x, m)
      BY <1>2, <1>3, <1>7, <1>8 DEF Loses
    <2>. HIDE DEF r
    <2>5. /\ CoreInv' /\ EvidenceInv' /\ LedgerInv'
          /\ pending' = <<>> \/ (pending' = r /\ evidence'[c]["suite"] # NoArg)
          /\ wf' = wf /\ manifest' = manifest
      BY <1>1, <1>2, <2>1, <2>2, <2>3, <2>4, EvidenceStep
    <2>6. s \in Closing(c)'
      BY <2>5, ClosingFacts
    <2>7. HandlerInv'
      BY <1>1, <2>5, <2>6 DEF HandlerInv, Free, Verifying, Saved, r, Last
    <2>. QED BY <2>5, <2>7 DEF IInv
  <1>12. ASSUME NEW o \in Outcomes, evidence[c]["suite"] # NoArg,
                pending = <<Ran(c, "suite")>> \o Last(c, o, s)
         PROVE  IInv'
    <2>1. /\ CoreInv' /\ EvidenceInv' /\ LedgerInv' /\ pending' = Last(c, o, s)
          /\ wf' = wf /\ manifest' = manifest /\ evidence' = evidence
      BY <1>2, <1>5, <1>8, <1>10, <1>12, AuditStep
    <2>2. s \in Closing(c)'
      BY <2>1, ClosingFacts
    <2>3. HandlerInv'
      BY <1>1, <1>12, <2>1, <2>2 DEF HandlerInv, Verifying, Saved, Last
    <2>. QED BY <2>1, <2>3 DEF IInv
  <1>13. ASSUME NEW o \in Outcomes, evidence[c]["suite"] # NoArg, pending = Last(c, o, s)
         PROVE  IInv'
    <2>. DEFINE r == <<Ran(c, "integrity")>> \o s
    <2>1. r \in Seq(Step) /\ pending = <<Evidence(c, "integrity", o)>> \o r
      BY <1>4, <1>13 DEF Last
    <2>2. Has(r, Ran(c, "integrity"))
      BY <1>6
    <2>3. \A t : Has(r, t) /\ Owed(t) => \E x \in Gates : t = Ran(c, x)
      BY <1>2, <1>3, <1>6 DEF Loses
    <2>4. \A t : Has(r, t) => t.op # "evidence"
      BY <1>3, <1>6, <1>8 DEF Loses
    <2>. HIDE DEF r
    <2>5. /\ CoreInv' /\ EvidenceInv' /\ LedgerInv' /\ pending' = r
          /\ wf' = wf /\ manifest' = manifest
      BY <1>1, <1>2, <1>13, <2>1, <2>2, <2>3, <2>4, EvidenceStep
    <2>6. s \in Closing(c)'
      BY <2>5, ClosingFacts
    <2>7. HandlerInv'
      BY <1>1, <2>5, <2>6 DEF HandlerInv, Verifying, Saved, r
    <2>. QED BY <2>5, <2>7 DEF IInv
  <1>14. ASSUME pending = <<Ran(c, "integrity")>> \o s PROVE IInv'
    <2>1. /\ CoreInv' /\ EvidenceInv' /\ LedgerInv' /\ pending' = s
          /\ wf' = wf /\ manifest' = manifest
      BY <1>2, <1>3, <1>8, <1>10, <1>14, AuditStep
    <2>2. s \in Closing(c)'
      BY <2>1, ClosingFacts
    <2>3. HandlerInv'
      BY <1>1, <2>1, <2>2 DEF HandlerInv, Verifying, Saved
    <2>. QED BY <2>1, <2>3 DEF IInv
  <1>15. ASSUME pending = s PROVE IInv'
    BY <1>15, CloseStep
  <1>. QED BY <1>1, <1>11, <1>12, <1>13, <1>14, <1>15

(* SubmitReview goes on.                                                   *)
LEMMA ReviewingStep ==
  ASSUME IInv, Reviewing, Continue PROVE IInv'
  <1>. DEFINE At(c, r, s) == pending \in {<<Reviewed(c, r)>> \o s, s}
  <1>1. PICK c \in Candidates, r \in Roles : \E s \in {<<>>, <<Ready(c)>>} : At(c, r, s)
    BY DEF Reviewing
  <1>2. PICK s \in {<<>>, <<Ready(c)>>} : At(c, r, s)
    BY <1>1
  <1>3. /\ Reviewed(c, r) \in Step /\ Ready(c) \in Step /\ <<>> \in Seq(Step)
        /\ <<Ready(c)>> \in Seq(Step) /\ <<Ready(c)>> = <<Ready(c)>> \o <<>>
    BY StepTypes, AsSteps
  <1>4. s \in Seq(Step)
    BY <1>3
  <1>5. CASE pending = <<Reviewed(c, r)>> \o s
    <2>1. Reviewed(c, r).op = "audit" /\ Reviewed(c, r).key = <<"review", c, r>>
      BY DEF Reviewed, Audit
    <2>2. \A d \in Candidates :
            /\ Reviewed(c, r).key # <<"frozen", d, NoArg>>
            /\ \A v \in Verdicts : Reviewed(c, r).key # <<"arbitration", d, v>>
      BY <2>1
    <2>3. CoreInv' /\ EvidenceInv' /\ LedgerInv' /\ pending' = s
      BY <1>3, <1>4, <1>5, <2>1, <2>2, AuditStep
    <2>4. HandlerInv'
      BY <2>3 DEF HandlerInv, Reviewing
    <2>. QED BY <2>3, <2>4 DEF IInv
  <1>6. CASE pending = s
    <2>1. pending = <<Ready(c)>> \o <<>>
      BY <1>3, <1>6 DEF Continue
    <2>2. /\ Ready(c).op = "command" /\ Ready(c).key[1] = "reviews-ready"
          /\ Ready(c).command.type = "reviews_ready"
      BY DEF Ready, Tx, Command
    <2>3. "reviews_ready" \in Plain /\ Wellformed(Ready(c).command)
      BY <2>2 DEF Plain, CommandTypes, From, Rejections, Wellformed
    <2>4. CoreInv' /\ EvidenceInv' /\ LedgerInv' /\ pending' = <<>>
      BY <1>3, <2>1, <2>2, <2>3, NoLoss, PlainStep
    <2>. QED BY <2>4 DEF IInv, HandlerInv, Free
  <1>. QED BY <1>2, <1>5, <1>6

(* begin_repair is a plain command with a key of its own.                  *)
LEMMA BeginRepairFacts ==
  ASSUME NEW c \in Candidates
  PROVE  /\ BeginRepair(c) \in Step /\ BeginRepair(c).op = "command"
         /\ BeginRepair(c).key[1] = "begin-repair"
         /\ BeginRepair(c).command.type = "begin_repair"
         /\ "begin_repair" \in Plain /\ Wellformed(BeginRepair(c).command)
  <1>1. /\ BeginRepair(c) \in Step /\ BeginRepair(c).op = "command"
        /\ BeginRepair(c).key[1] = "begin-repair"
        /\ BeginRepair(c).command.type = "begin_repair"
    BY StepTypes DEF BeginRepair, Tx, Command
  <1>. QED BY <1>1 DEF Plain, CommandTypes, From, Rejections, Wellformed

(* A rejection goes on into the repair it ordered.                         *)
LEMMA RepairingStep ==
  ASSUME IInv, Repairing, Continue PROVE IInv'
  <1>1. PICK c \in Candidates : pending = <<BeginRepair(c)>>
    BY DEF Repairing
  <1>2. pending = <<BeginRepair(c)>> \o <<>> /\ <<>> \in Seq(Step)
    BY <1>1, BeginRepairFacts, AsSteps
  <1>3. CoreInv' /\ EvidenceInv' /\ LedgerInv' /\ pending' = <<>>
    BY <1>2, BeginRepairFacts, NoLoss, PlainStep
  <1>. QED BY <1>3 DEF IInv, HandlerInv, Free

(* SubmitArbitration goes on.                                              *)
LEMMA ArbitratingStep ==
  ASSUME IInv, Arbitrating, Continue PROVE IInv'
  <1>1. PICK c \in Candidates, v \in Verdicts :
          /\ verdict[c] = v
          /\ \/ /\ pending = <<Approve(c)>> \o <<Judged(c, v)>>
                /\ v = "approved" /\ wf.state = "arbitration" /\ wf.candidate = c
                /\ Approvable(c)
             \/ /\ pending = route(c, v) \o <<Judged(c, v)>>
                /\ v # "approved" /\ wf.state = "arbitration" /\ wf.candidate = c
             \/ /\ pending = <<BeginRepair(c)>> \o <<Judged(c, v)>>
                /\ wf.state = "repair" /\ wf.target # NoArg
             \/ pending = <<Judged(c, v)>>
    BY DEF Arbitrating
  <1>2. /\ Judged(c, v) \in Step /\ <<>> \in Seq(Step) /\ <<Judged(c, v)>> \in Seq(Step)
        /\ <<Judged(c, v)>> = <<Judged(c, v)>> \o <<>>
    BY StepTypes, AsSteps
  <1>3. Judged(c, v).op = "audit" /\ Judged(c, v).key = <<"arbitration", c, v>>
    BY DEF Judged, Audit
  <1>4. Loses(<<Judged(c, v)>>)
    BY <1>3, HasFew DEF Loses, Owed
  <1>5. CASE /\ pending = <<Approve(c)>> \o <<Judged(c, v)>>
             /\ v = "approved" /\ wf.state = "arbitration" /\ wf.candidate = c
             /\ Approvable(c)
    <2>1. /\ CoreInv' /\ EvidenceInv' /\ LedgerInv' /\ pending' = <<Judged(c, v)>>
          /\ verdict' = verdict
      BY <1>1, <1>2, <1>5, ApproveStep
    <2>2. HandlerInv'
      BY <1>1, <2>1 DEF HandlerInv, Arbitrating
    <2>. QED BY <2>1, <2>2 DEF IInv
  <1>6. CASE /\ pending = route(c, v) \o <<Judged(c, v)>>
             /\ v # "approved" /\ wf.state = "arbitration" /\ wf.candidate = c
    <2>1. v \in Targets /\ "reject" \in Rejections /\ wf.state \in From["reject"]
      BY <1>6 DEF Verdicts, Rejections, From
    <2>2. pending = <<Rejection("reject", c, v)>> \o <<Judged(c, v)>>
      BY <1>6 DEF route, Rejection
    <2>3. /\ CoreInv' /\ EvidenceInv' /\ LedgerInv' /\ verdict' = verdict
          /\ \/ pending' = <<Judged(c, v)>>
             \/ pending' = <<BeginRepair(c)>> \o <<Judged(c, v)>> /\ wf'.state = "repair"
          /\ wf'.target # NoArg
      BY <1>2, <1>6, <2>1, <2>2, RejectStep
    <2>4. HandlerInv'
      BY <1>1, <2>3 DEF HandlerInv, Arbitrating
    <2>. QED BY <2>3, <2>4 DEF IInv
  <1>7. CASE /\ pending = <<BeginRepair(c)>> \o <<Judged(c, v)>>
             /\ wf.state = "repair" /\ wf.target # NoArg
    <2>1. ~Refused(BeginRepair(c))
      BY <1>7, BeginRepairFacts
      DEF Refused, IInv, CoreInv, ReserveInv, allowed, From, NeedsCandidate
    <2>2. CoreInv' /\ EvidenceInv' /\ LedgerInv' /\ pending' = <<Judged(c, v)>> /\ verdict' = verdict
      BY <1>2, <1>4, <1>7, <2>1, BeginRepairFacts, PlainStep
    <2>3. HandlerInv'
      BY <1>1, <2>2 DEF HandlerInv, Arbitrating
    <2>. QED BY <2>2, <2>3 DEF IInv
  <1>8. CASE pending = <<Judged(c, v)>>
    <2>1. pending = <<Judged(c, v)>> \o <<>>
      BY <1>2, <1>8
    <2>2. \A d \in Candidates :
            /\ Judged(c, v).key # <<"frozen", d, NoArg>>
            /\ \A u \in Verdicts : Judged(c, v).key = <<"arbitration", d, u>> => verdict[d] = u
      BY <1>1, <1>3
    <2>3. CoreInv' /\ EvidenceInv' /\ LedgerInv' /\ pending' = <<>>
      BY <1>2, <1>3, <2>1, <2>2, AuditStep
    <2>. QED BY <2>3 DEF IInv, HandlerInv, Free
  <1>. QED BY <1>1, <1>5, <1>6, <1>7, <1>8

(* The handler in progress goes on, wherever it is.                        *)
LEMMA ContinueStep ==
  ASSUME IInv, Continue PROVE IInv'
  <1>1. ~Free
    BY DEF Free, Continue
  <1>. QED
    BY <1>1, StartingStep, AcceptingStep, ProposingStep, VerifyingStep, ReviewingStep,
       ArbitratingStep, RepairingStep
    DEF IInv, HandlerInv

-----------------------------------------------------------------------------
(* Requests, flights, the user and crashes.                                *)

(* A step that leaves the aggregate and its keys alone keeps CoreInv when  *)
(* it keeps the types, the flights and the reservation.                    *)
LEMMA CoreRows ==
  ASSUME CoreInv, UNCHANGED <<wf, keys, evidence, crashed>>, TypeOK', FlightInv', ReserveInv',
         \A c \in Candidates :
           /\ manifest[c] # 0 => manifest'[c] # 0
           /\ verdict[c] # NoArg => verdict'[c] = verdict[c]
           /\ \A r \in Roles : reviews[c][r] # NoArg => reviews'[c][r] = reviews[c][r]
  PROVE  CoreInv'
  <1>1. Sane(wf)' /\ KeyInv'
    BY DEF CoreInv, Sane, KeyInv, Saved, Rejected
  <1>2. DeliveryNamed' /\ OnlyVerifiedDelivered'
    BY DEF CoreInv, DeliveryNamed, OnlyVerifiedDelivered, Saved, Stage
  <1>3. DeliveryIsJudged'
    BY DEF CoreInv, DeliveryNamed, DeliveryIsJudged, Stage, NoArg
  <1>4. RejectedNeverReturns' /\ CyclesCountRejections'
    BY DEF CoreInv, RejectedNeverReturns, CyclesCountRejections, Rejected, Stage
  <1>. QED BY <1>1, <1>2, <1>3, <1>4 DEF CoreInv

(* A handler that begins with no row changed owes nothing to the chain.    *)
LEMMA FreeFrame ==
  ASSUME IInv, Free, wf'.mode = wf.mode,
         UNCHANGED <<keys, evidence, manifest, verdict, reviews, crashed, ledger>>
  PROVE  EvidenceInv' /\ LedgerInv'
  <1>1. \A t : ~Has(pending, t)
    BY HasFew DEF Free
  <1>2. wf'.mode # NoArg => <<"route", 0, wf'.mode>> \in ledger'
    BY DEF IInv, LedgerInv
  <1>3. EvidenceInv'
    BY <1>1, EvidenceFrame DEF IInv
  <1>4. LedgerInv'
    BY <1>1, <1>2, LedgerFrame DEF IInv
  <1>. QED BY <1>3, <1>4

(* The requests of the client begin, each from a free daemon.              *)
LEMMA StartWorkflowStep ==
  ASSUME IInv, StartWorkflow PROVE IInv'
  <1>1. /\ Free /\ UNCHANGED <<flights, promoting, disturbances, crashed>>
        /\ UNCHANGED <<wf, keys, design, plans, manifest, evidence, reviews, verdict, reserved, ledger>>
    BY DEF StartWorkflow, store
  <1>2. PICK m \in Modes :
          pending' = (IF wf.state = "intake" THEN <<Intake>> ELSE <<>>) \o <<Decision(m), Route(m)>>
    <2>1. \A p, n, b, a : route_workflow(p, n, b, a) \in Modes
      BY DEF route_workflow, Modes
    <2>2. PICK p \in {"auto", "quick", "full"}, found \in automatic_evidence, a \in BOOLEAN :
            pending' = (IF wf.state = "intake" THEN <<Intake>> ELSE <<>>)
                       \o <<Decision(route_workflow(p, found.criticals, found.pathBacked, a)),
                            Route(route_workflow(p, found.criticals, found.pathBacked, a))>>
      BY DEF StartWorkflow, Intake, Decision, Route, decide_and_record
    <2>. QED BY <2>1, <2>2
  <1>3. <<>> \o <<Decision(m), Route(m)>> = <<Decision(m), Route(m)>>
    <2>1. <<Decision(m), Route(m)>> \in Seq(Step)
      BY StepTypes, AsSteps
    <2>. QED BY <2>1, ConcatEmptySeq
  <1>4. Starting'
    BY <1>2, <1>3 DEF Starting
  <1>5. CoreInv'
    BY <1>1, CoreFrame DEF IInv, CoreInv, TypeOK
  <1>6. EvidenceInv' /\ LedgerInv'
    BY <1>1, FreeFrame
  <1>. QED BY <1>4, <1>5, <1>6 DEF IInv, HandlerInv

LEMMA AcceptArchitectureStep ==
  ASSUME IInv, NEW d \in Designs, AcceptArchitecture(d) PROVE IInv'
  <1>1. /\ Free /\ design' = d
        /\ UNCHANGED <<wf, keys, plans, manifest, evidence, reviews, verdict, reserved, ledger,
                       flights, promoting, disturbances, crashed>>
    BY DEF AcceptArchitecture, save_architecture_once
  <1>2. pending' = <<Constraint("essentiality")>>
                   \o (IF wf.state = "architecture" THEN <<Accept(d)>> ELSE <<>>)
    BY DEF AcceptArchitecture, Accept
  <1>3. Accepting'
    BY <1>2 DEF Accepting
  <1>4. TypeOK' /\ FlightInv' /\ ReserveInv'
    BY <1>1 DEF IInv, CoreInv, TypeOK, FlightInv, ReserveInv, Saved
  <1>5. CoreInv'
    BY <1>1, <1>4, CoreRows DEF IInv
  <1>6. EvidenceInv' /\ LedgerInv'
    BY <1>1, FreeFrame
  <1>. QED BY <1>3, <1>5, <1>6 DEF IInv, HandlerInv

LEMMA PlanVerificationStep ==
  ASSUME IInv, NEW p \in Plans, PlanVerification(p) PROVE IInv'
  <1>1. /\ Free /\ plans' = plans \cup {p}
        /\ UNCHANGED <<wf, keys, design, manifest, evidence, reviews, verdict, reserved, ledger,
                       flights, pending, promoting, disturbances, crashed>>
    BY DEF PlanVerification, save_verification_plan_once
  <1>2. TypeOK' /\ FlightInv' /\ ReserveInv'
    BY <1>1 DEF IInv, CoreInv, TypeOK, FlightInv, ReserveInv, Saved
  <1>3. CoreInv'
    BY <1>1, <1>2, CoreRows DEF IInv
  <1>4. EvidenceInv' /\ LedgerInv'
    BY <1>1, FreeFrame
  <1>. QED BY <1>1, <1>3, <1>4 DEF IInv, HandlerInv, Free

LEMMA DisturbTyped ==
  ASSUME TypeOK, Disturb PROVE disturbances' \in 0..MaxDisturbances
  BY DaemonAssumption DEF TypeOK, Disturb

(* A flight takes off.                                                     *)
LEMMA LaunchStep ==
  ASSUME IInv, NEW f, Launch(f), f.c \in Candidates,
         f.kind = "freeze" => f.plan \in Plans, f.kind = "verify" => Saved(f.c)
  PROVE  IInv'
  <1>1. /\ Free /\ flights' = flights (+) SetToBag({f})
        /\ UNCHANGED <<wf, keys, design, plans, manifest, evidence, reviews, verdict, reserved,
                       ledger, pending, promoting, crashed>>
    BY DEF Launch, store
  <1>2. disturbances' \in 0..MaxDisturbances
    BY DisturbTyped DEF Launch, IInv, CoreInv, TypeOK
  <1>3. TypeOK' /\ ReserveInv'
    BY <1>1, <1>2 DEF IInv, CoreInv, TypeOK, ReserveInv
  <1>4. FlightInv'
    <2>1. BagToSet(flights') = BagToSet(flights) \cup {f}
      BY <1>1, BagFacts
    <2>. QED BY <1>1, <2>1 DEF IInv, CoreInv, FlightInv, Saved
  <1>5. CoreInv'
    BY <1>1, <1>3, <1>4, CoreRows DEF IInv
  <1>6. EvidenceInv' /\ LedgerInv'
    BY <1>1, FreeFrame
  <1>. QED BY <1>1, <1>5, <1>6 DEF IInv, HandlerInv, Free

LEMMA FreezeCandidateStep ==
  ASSUME IInv, NEW c \in Candidates, NEW p \in Plans, FreezeCandidate(c, p) PROVE IInv'
  <1>. DEFINE f == Flight("freeze", c, p)
  <1>1. f.kind = "freeze" /\ f.c = c /\ f.plan = p
    BY DEF Flight
  <1>2. Launch(f)
    BY DEF FreezeCandidate, freeze
  <1>. HIDE DEF f
  <1>. QED BY <1>1, <1>2, LaunchStep

LEMMA VerifyCandidateStep ==
  ASSUME IInv, NEW c \in Candidates, VerifyCandidate(c) PROVE IInv'
  <1>. DEFINE f == Flight("verify", c, manifest[c])
  <1>1. f.kind = "verify" /\ f.c = c
    BY DEF Flight
  <1>2. Launch(f) /\ wf.candidate = c
    BY DEF VerifyCandidate
  <1>3. Saved(c)
    BY <1>2, CoreAssumption DEF IInv, CoreInv, KeyInv
  <1>. HIDE DEF f
  <1>. QED BY <1>1, <1>2, <1>3, LaunchStep

LEMMA RefreezeCandidateStep ==
  ASSUME IInv, NEW c \in Candidates, RefreezeCandidate(c) PROVE IInv'
  <1>1. /\ Free /\ Saved(c) /\ pending' = <<Propose(c)>>
        /\ UNCHANGED <<wf, keys, design, plans, manifest, evidence, reviews, verdict, reserved,
                       ledger, flights, promoting, disturbances, crashed>>
    BY DEF RefreezeCandidate, store, Propose
  <1>2. Proposing'
    BY <1>1 DEF Proposing, Saved
  <1>3. CoreInv'
    BY <1>1, CoreFrame DEF IInv, CoreInv, TypeOK
  <1>4. EvidenceInv' /\ LedgerInv'
    BY <1>1, FreeFrame
  <1>. QED BY <1>2, <1>3, <1>4 DEF IInv, HandlerInv

LEMMA SubmitReviewStep ==
  ASSUME IInv, NEW c \in Candidates, NEW r \in Roles, NEW d \in {"approved", "rejected"},
         SubmitReview(c, r, d)
  PROVE  IInv'
  <1>1. /\ Free /\ reviews' = [reviews EXCEPT ![c][r] = d] /\ reviews[c][r] \in {d, NoArg}
        /\ UNCHANGED <<wf, keys, design, plans, manifest, evidence, verdict, reserved, ledger,
                       flights, promoting, disturbances, crashed>>
    BY DEF SubmitReview, save_review_once
  <1>2. PICK s \in {<<>>, <<Ready(c)>>} :
          pending' = (IF reviews[c][r] = d THEN <<>> ELSE <<Reviewed(c, r)>>) \o s
    <2>1. ReviewsReady(c, reviews') \in {<<>>, <<Ready(c)>>}
      BY DEF ReviewsReady, Ready
    <2>. QED BY <2>1 DEF SubmitReview, Reviewed
  <1>3. s \in Seq(Step) /\ <<>> \o s = s
    <2>1. <<>> \in Seq(Step) /\ <<Ready(c)>> \in Seq(Step)
      BY StepTypes, AsSteps
    <2>2. s \in Seq(Step)
      BY <2>1
    <2>. QED BY <2>2, ConcatEmptySeq
  <1>4. d # NoArg
    BY DEF NoArg
  <1>5. /\ reviews' \in [Candidates -> [Roles -> {"approved", "rejected", NoArg}]]
        /\ reviews'[c][r] = d
        /\ \A e \in Candidates, x \in Roles : (e # c \/ x # r) => reviews'[e][x] = reviews[e][x]
    BY <1>1 DEF IInv, CoreInv, TypeOK
  <1>6. TypeOK' /\ FlightInv' /\ ReserveInv'
    BY <1>1, <1>5 DEF IInv, CoreInv, TypeOK, FlightInv, ReserveInv, Saved
  <1>7. CoreInv'
    BY <1>1, <1>5, <1>6, CoreRows DEF IInv
  <1>8. Reviewing'
    BY <1>2, <1>3 DEF Reviewing
  <1>9. \A t : ~Has(pending, t)
    BY <1>1, HasFew DEF Free
  <1>10. EvidenceInv'
    BY <1>1, <1>9, EvidenceFrame DEF IInv
  <1>11. LedgerInv'
    <2>1. wf'.mode # NoArg => <<"route", 0, wf'.mode>> \in ledger'
      BY <1>1 DEF IInv, LedgerInv
    <2>2. reviews[c][r] = NoArg => Has(pending', Reviewed(c, r))
      BY <1>2, <1>3, <1>4, HasThen, StepTypes
    <2>3. \A e \in Candidates : \A x \in Roles :
            reviews'[e][x] # NoArg => reviews[e][x] # NoArg \/ Has(pending', Reviewed(e, x))
      BY <1>5, <2>2
    <2>. QED BY <1>1, <1>9, <2>1, <2>3, LedgerFrame DEF IInv
  <1>. QED BY <1>7, <1>8, <1>10, <1>11 DEF IInv, HandlerInv

LEMMA SubmitArbitrationStep ==
  ASSUME IInv, NEW c \in Candidates, NEW v \in Verdicts, SubmitArbitration(c, v) PROVE IInv'
  <1>1. /\ Free /\ verdict[c] = NoArg /\ verdict' = [verdict EXCEPT ![c] = v]
        /\ wf.state = "arbitration" /\ wf.candidate = c
        /\ UNCHANGED <<wf, keys, design, plans, manifest, evidence, reviews, reserved, ledger,
                       flights, promoting, disturbances, crashed>>
    BY DEF SubmitArbitration, save_arbitration_once
  <1>2. /\ v = "approved" => pending' = <<Approve(c)>> \o <<Judged(c, v)>>
        /\ v # "approved" => pending' = route(c, v) \o <<Judged(c, v)>>
    BY DEF SubmitArbitration, Approve, Judged
  <1>3. /\ verdict' \in [Candidates -> Verdicts \cup {NoArg}]
        /\ verdict'[c] = v
        /\ \A e \in Candidates : e # c => verdict'[e] = verdict[e]
    BY <1>1 DEF IInv, CoreInv, TypeOK
  <1>4. TypeOK' /\ FlightInv' /\ ReserveInv'
    BY <1>1, <1>3 DEF IInv, CoreInv, TypeOK, FlightInv, ReserveInv, Saved
  <1>5. CoreInv'
    BY <1>1, <1>3, <1>4, CoreRows DEF IInv
  <1>6. \A t : ~Has(pending, t)
    BY <1>1, HasFew DEF Free
  <1>7. EvidenceInv'
    BY <1>1, <1>6, EvidenceFrame DEF IInv
  <1>8. v = "approved" => Approvable(c)
    <2>1. v = "approved" => approval_requirements(c)
      BY DEF SubmitArbitration
    <2>2. \E g \in Gates : evidence[c][g] # NoArg
      BY DEF SubmitArbitration, validate_verdict, load_candidate_evidence
    <2>3. ~crashed => \A g \in Gates : evidence[c][g] # NoArg
      BY <1>6, <2>2 DEF IInv, EvidenceInv, Gates
    <2>. QED BY <2>1, <2>2, <2>3 DEF Approvable, approval_requirements
  <1>9. Arbitrating'
    <2>1. CASE v = "approved"
      BY <1>1, <1>2, <1>3, <1>8, <2>1 DEF Arbitrating, Approvable
    <2>2. CASE v # "approved"
      BY <1>1, <1>2, <1>3, <2>2 DEF Arbitrating, route
    <2>. QED BY <2>1, <2>2
  <1>10. LedgerInv'
    <2>1. wf'.mode # NoArg => <<"route", 0, wf'.mode>> \in ledger'
      BY <1>1 DEF IInv, LedgerInv
    <2>2. Has(pending', Judged(c, v))
      <3>1. Approve(c) \in Step /\ Judged(c, v) \in Step /\ <<Judged(c, v)>> \in Seq(Step)
        BY StepTypes, AsSteps
      <3>2. Has(<<Judged(c, v)>>, Judged(c, v))
        BY HasFew
      <3>3. CASE v = "approved"
        <4>1. pending' = <<Approve(c)>> \o <<Judged(c, v)>>
          BY <1>2, <3>3
        <4>. QED BY <3>1, <3>2, <4>1, HasThen
      <3>4. CASE v # "approved"
        <4>1. v \in Targets /\ "reject" \in Rejections
          BY <3>4 DEF Verdicts, Rejections
        <4>2. Rejection("reject", c, v) \in Step
          BY <4>1 DEF Step, CommandsOf
        <4>3. pending' = <<Rejection("reject", c, v)>> \o <<Judged(c, v)>>
          BY <1>1, <1>2, <3>4 DEF route, Rejection
        <4>. QED BY <3>1, <3>2, <4>2, <4>3, HasThen
      <3>. QED BY <3>3, <3>4
    <2>. QED BY <1>1, <1>3, <1>6, <2>1, <2>2, LedgerFrame DEF IInv
  <1>. QED BY <1>5, <1>7, <1>9, <1>10 DEF IInv, HandlerInv

LEMMA ReserveDeliveryStep ==
  ASSUME IInv, NEW c \in Candidates, ReserveDelivery(c) PROVE IInv'
  <1>1. /\ Free /\ wf.state = "delivery"
        /\ UNCHANGED <<wf, keys, design, plans, manifest, evidence, reviews, verdict, ledger,
                       flights, pending, disturbances, crashed>>
    BY DEF ReserveDelivery
  <1>2. reserved' = TRUE /\ promoting' = TRUE
    BY Zenon DEF ReserveDelivery
  <1>3. TypeOK' /\ FlightInv' /\ ReserveInv'
    BY <1>1, <1>2 DEF IInv, CoreInv, TypeOK, FlightInv, ReserveInv, Saved
  <1>4. CoreInv'
    BY <1>1, <1>3, CoreRows DEF IInv
  <1>5. EvidenceInv' /\ LedgerInv'
    BY <1>1, FreeFrame
  <1>. QED BY <1>1, <1>4, <1>5 DEF IInv, HandlerInv, Free

(* A promotion ends: the delivery completes, fails or stays reserved.      *)
LEMMA EndPromotionStep ==
  ASSUME IInv, EndPromotion PROVE IInv'
  <1>1. /\ Free /\ promoting
        /\ \/ wf' = apply(wf, Command("deliver", wf.candidate, NoArg)) /\ ~reserved'
           \/ ~reserved' /\ UNCHANGED wf
           \/ UNCHANGED <<wf, reserved>>
        /\ UNCHANGED <<keys, design, plans, manifest, evidence, reviews, verdict, ledger,
                       flights, pending, disturbances, crashed>>
    BY DEF EndPromotion
  <1>2. promoting' = FALSE /\ reserved' \in BOOLEAN
    BY Zenon DEF EndPromotion, IInv, CoreInv, TypeOK
  <1>3. wf.state = "delivery" /\ wf.candidate \in Candidates
    <2>1. wf.state = "delivery"
      BY <1>1 DEF IInv, CoreInv, ReserveInv
    <2>2. Stage = "delivery"
      BY <2>1, StageIs DEF StageOf
    <2>. QED BY <2>1, <2>2 DEF IInv, CoreInv, DeliveryNamed
  <1>4. CASE UNCHANGED wf
    <2>1. TypeOK' /\ FlightInv' /\ ReserveInv'
      BY <1>1, <1>2, <1>4 DEF IInv, CoreInv, TypeOK, FlightInv, ReserveInv, Saved
    <2>2. CoreInv'
      BY <1>1, <1>4, <2>1, CoreRows DEF IInv
    <2>3. EvidenceInv' /\ LedgerInv'
      BY <1>1, <1>4, FreeFrame
    <2>. QED BY <1>1, <2>2, <2>3 DEF IInv, HandlerInv, Free
  <1>5. CASE wf' = apply(wf, Command("deliver", wf.candidate, NoArg)) /\ ~reserved'
    <2>. DEFINE p == Command("deliver", wf.candidate, NoArg)
    <2>1. p.type = "deliver"
      BY DEF Command
    <2>. HIDE DEF p
    <2>2. wf' = apply(wf, p)
      BY <1>5 DEF p
    <2>3. p.type \in Plain /\ Wellformed(p) /\ p.type \in CommandTypes /\ p.type # "route"
      BY <2>1 DEF Plain, CommandTypes, From, Rejections, Wellformed
    <2>4. allowed(wf, p)
      BY <1>3, <2>1, CoreAssumption DEF allowed, From
    <2>5. Rejected' = Rejected /\ reserved' = FALSE /\ disturbances' \in 0..MaxDisturbances
      BY <1>1, <1>2, <1>5 DEF Rejected, IInv, CoreInv, TypeOK
    <2>6. CoreInv'
      BY <1>1, <1>2, <2>2, <2>3, <2>4, <2>5, CoreApply DEF IInv
    <2>7. wf'.mode = wf.mode
      BY <2>2, <2>3, <2>4, ApplyFacts DEF IInv, CoreInv, TypeOK
    <2>8. EvidenceInv' /\ LedgerInv'
      BY <1>1, <2>7, FreeFrame
    <2>. QED BY <1>1, <2>6, <2>8 DEF IInv, HandlerInv, Free
  <1>. QED BY <1>1, <1>4, <1>5

(* A command of the user or of an execution report: no key is stored.      *)
LEMMA UserStep ==
  ASSUME IInv, NEW p, p.type \in Plain, p.type # "route", Wellformed(p), Free, ~reserved,
         allowed(wf, p), wf' = apply(wf, p), disturbances' \in 0..MaxDisturbances,
         UNCHANGED <<keys, design, plans, manifest, evidence, reviews, verdict, reserved, ledger,
                     flights, pending, promoting, crashed>>
  PROVE  IInv'
  <1>1. reserved' = FALSE /\ promoting' = FALSE /\ Rejected' = Rejected
    BY DEF IInv, CoreInv, TypeOK, ReserveInv, Rejected
  <1>2. CoreInv'
    BY <1>1, CoreApply DEF IInv
  <1>3. wf'.mode = wf.mode
    BY ApplyFacts DEF IInv, CoreInv, TypeOK, Plain
  <1>4. EvidenceInv' /\ LedgerInv'
    BY <1>3, FreeFrame
  <1>. QED BY <1>2, <1>4 DEF IInv, HandlerInv, Free

LEMMA ReportExecutionStep ==
  ASSUME IInv, ReportExecution PROVE IInv'
  <1>1. PICK type \in {"block_infrastructure", "replan_execution"} :
          /\ ~reserved /\ allowed(wf, Command(type, NoCandidate, NoArg))
          /\ wf' = apply(wf, Command(type, NoCandidate, NoArg))
    BY DEF ReportExecution
  <1>. DEFINE p == Command(type, NoCandidate, NoArg)
  <1>2. p.type = type
    BY DEF Command
  <1>3. ~reserved /\ allowed(wf, p) /\ wf' = apply(wf, p)
    BY <1>1
  <1>. HIDE DEF p
  <1>4. p.type \in Plain /\ Wellformed(p) /\ p.type # "route"
    BY <1>2 DEF Plain, CommandTypes, From, Rejections, Wellformed
  <1>5. /\ Free /\ disturbances' \in 0..MaxDisturbances
        /\ UNCHANGED <<keys, design, plans, manifest, evidence, reviews, verdict, reserved, ledger,
                       flights, pending, promoting, crashed>>
    BY DisturbTyped DEF ReportExecution, IInv, CoreInv
  <1>. QED BY <1>3, <1>4, <1>5, UserStep

LEMMA ControlStep ==
  ASSUME IInv, NEW o \in {"pause", "resume", "cancel", "retry"}, Control(o) PROVE IInv'
  <1>. DEFINE p == command_of(o)
  <1>1. ~reserved /\ allowed(wf, p) /\ wf' = apply(wf, p) /\ Free
    BY DEF Control
  <1>2. disturbances' \in 0..MaxDisturbances
    BY DisturbTyped DEF Control, IInv, CoreInv, TypeOK
  <1>3. UNCHANGED <<keys, design, plans, manifest, evidence, reviews, verdict, reserved, ledger,
                    flights, pending, promoting, crashed>>
    BY DEF Control
  <1>4. p.type \in {"pause", "resume", "cancel", "retry_infrastructure",
                    "resume_infrastructure", "resume_blocked"}
    BY DEF command_of, Command
  <1>. HIDE DEF p
  <1>5. p.type \in Plain /\ Wellformed(p) /\ p.type # "route"
    BY <1>4 DEF Plain, CommandTypes, From, Rejections, Wellformed
  <1>. QED BY <1>1, <1>2, <1>3, <1>5, UserStep

LEMMA LandedFlights ==
  ASSUME IInv, NEW f, Landed(f)
  PROVE  BagToSet(flights') \subseteq BagToSet(flights)
  <1>1. flights' = flights (-) SetToBag({f})
    BY DEF Landed
  <1>. QED BY <1>1, BagFacts

(* A flight lands on a workflow that has moved on and is dropped.          *)
LEMMA AbandonStep ==
  ASSUME IInv, NEW f, Abandon(f) PROVE IInv'
  <1>1. /\ Free /\ Landed(f)
        /\ UNCHANGED <<wf, keys, design, plans, manifest, evidence, reviews, verdict, reserved,
                       ledger, pending, promoting, disturbances, crashed>>
    BY DEF Abandon, Landed, store
  <1>2. BagToSet(flights') \subseteq BagToSet(flights)
    BY <1>1, LandedFlights
  <1>3. TypeOK' /\ FlightInv' /\ ReserveInv'
    BY <1>1, <1>2 DEF IInv, CoreInv, TypeOK, FlightInv, ReserveInv, Saved
  <1>4. CoreInv'
    BY <1>1, <1>3, CoreRows DEF IInv
  <1>5. EvidenceInv' /\ LedgerInv'
    BY <1>1, FreeFrame
  <1>. QED BY <1>1, <1>4, <1>5 DEF IInv, HandlerInv, Free

(* A freeze lands and its manifest is saved under its candidate.           *)
LEMMA FinishFreezeStep ==
  ASSUME IInv, NEW f \in BagToSet(flights), FinishFreeze(f) PROVE IInv'
  <1>. DEFINE c == f.c
  <1>1. /\ Free /\ Landed(f) /\ f.kind = "freeze" /\ validate_candidate_state(c)
        /\ manifest[c] \in {0, f.plan} /\ manifest' = [manifest EXCEPT ![c] = f.plan]
        /\ pending' = <<Propose(c), Frozen(c)>>
        /\ UNCHANGED <<wf, keys, design, plans, evidence, reviews, verdict, reserved, ledger,
                       promoting, disturbances, crashed>>
    BY DEF FinishFreeze, Landed, save_candidate_once, Propose, Frozen
  <1>2. c \in Candidates /\ f.plan \in Plans /\ f.plan # 0
    BY <1>1, DaemonAssumption DEF IInv, CoreInv, FlightInv
  <1>. HIDE DEF c
  <1>3. /\ manifest' \in [Candidates -> Plans \cup {0}] /\ manifest'[c] = f.plan
        /\ \A d \in Candidates : d # c => manifest'[d] = manifest[d]
    BY <1>1, <1>2 DEF IInv, CoreInv, TypeOK
  <1>4. BagToSet(flights') \subseteq BagToSet(flights)
    BY <1>1, LandedFlights
  <1>5. \A d \in Candidates : manifest[d] # 0 => manifest'[d] = manifest[d]
    BY <1>1, <1>3
  <1>6. TypeOK' /\ FlightInv' /\ ReserveInv'
    BY <1>1, <1>2, <1>3, <1>4, <1>5 DEF IInv, CoreInv, TypeOK, FlightInv, ReserveInv, Saved
  <1>7. CoreInv'
    BY <1>1, <1>5, <1>6, CoreRows DEF IInv
  <1>8. Proposing'
    BY <1>1, <1>2, <1>3 DEF Proposing, Saved, validate_candidate_state, Executing
  <1>9. \A t : ~Has(pending, t)
    BY <1>1, HasFew DEF Free
  <1>10. EvidenceInv'
    <2>. SUFFICES ASSUME NEW d \in Candidates
                  PROVE  /\ \A g \in Gates : evidence[d][g] # NoArg => manifest'[d] # 0
                         /\ \A e \in Candidates \ {d} : manifest'[e] = manifest'[d] =>
                              evidence[d]["suite"] = NoArg \/ evidence[e]["suite"] = NoArg
      BY <1>1, <1>9 DEF IInv, EvidenceInv, Saved
    <2>1. \A e \in Candidates : evidence[e]["suite"] # NoArg => manifest'[e] = manifest[e]
      BY <1>5 DEF IInv, EvidenceInv, Saved, Gates
    <2>. QED BY <1>5, <2>1 DEF IInv, EvidenceInv, Saved
  <1>11. LedgerInv'
    <2>1. wf'.mode # NoArg => <<"route", 0, wf'.mode>> \in ledger'
      BY <1>1 DEF IInv, LedgerInv
    <2>2. \A d \in Candidates : manifest'[d] # 0 => manifest[d] # 0 \/ Has(pending', Frozen(d))
      BY <1>1, <1>3, HasFew
    <2>. QED BY <1>1, <1>9, <2>1, <2>2, LedgerFrame DEF IInv
  <1>. QED BY <1>7, <1>8, <1>10, <1>11 DEF IInv, HandlerInv

(* A run of the gates lands, with the verdict its results call for.        *)
LEMMA FinishVerifyStep ==
  ASSUME IInv, NEW f \in BagToSet(flights), FinishVerify(f) PROVE IInv'
  <1>. DEFINE c == f.c
  <1>1. /\ Free /\ Landed(f) /\ f.kind = "verify"
        /\ UNCHANGED <<wf, keys, design, plans, manifest, evidence, reviews, verdict, reserved,
                       ledger, promoting, disturbances, crashed>>
    BY DEF FinishVerify, Landed, store
  <1>2. c \in Candidates /\ Saved(c)
    BY <1>1 DEF IInv, CoreInv, FlightInv
  <1>3. PICK results \in [Gates -> Outcomes] :
          pending' = (<<Evidence(c, "suite", results["suite"]), Ran(c, "suite")>>
                      \o <<Evidence(c, "integrity", results["integrity"]), Ran(c, "integrity")>>)
                     \o (CASE mandatory_passed(results) -> <<Pass(c)>>
                           [] infrastructure_blocked(results) -> <<Block(c)>>
                           [] OTHER -> route(c, "execution"))
    BY DEF FinishVerify, Ran, Pass, Block
  <1>. HIDE DEF c
  <1>. DEFINE s == CASE mandatory_passed(results) -> <<Pass(c)>>
                     [] infrastructure_blocked(results) -> <<Block(c)>>
                     [] OTHER -> route(c, "execution")
  <1>4. s \in Closing(c)
    BY DEF Closing
  <1>. HIDE DEF s
  <1>5. s \in Seq(Step) /\ s \in Closing(c)'
    BY <1>1, <1>2, <1>4, ClosingFacts
  <1>6. /\ results["suite"] \in Outcomes /\ results["integrity"] \in Outcomes
        /\ "suite" \in Gates /\ "integrity" \in Gates
    BY DEF Gates
  <1>7. pending' = <<Evidence(c, "suite", results["suite"])>> \o (<<Ran(c, "suite")>> \o
                     (<<Evidence(c, "integrity", results["integrity"])>> \o
                       (<<Ran(c, "integrity")>> \o s)))
    <2>. DEFINE n  == Evidence(c, "suite", results["suite"])
                rn == Ran(c, "suite")
                o  == Evidence(c, "integrity", results["integrity"])
                ro == Ran(c, "integrity")
    <2>1. n \in Step /\ rn \in Step /\ o \in Step /\ ro \in Step
      BY <1>2, <1>6, StepTypes
    <2>2. pending' = (<<n, rn>> \o <<o, ro>>) \o s
      BY <1>3, Zenon DEF s
    <2>3. pending' = <<n>> \o (<<rn>> \o (<<o>> \o (<<ro>> \o s)))
      <3>. HIDE DEF n, rn, o, ro
      <3>1. (<<n, rn>> \o <<o, ro>>) \o s = <<n>> \o (<<rn>> \o (<<o>> \o (<<ro>> \o s)))
        <4>1. \A x, y \in Step : <<x, y>> = <<x>> \o <<y>>
          <5>. SUFFICES ASSUME NEW x \in Step, NEW y \in Step PROVE <<x, y>> = <<x>> \o <<y>>
            OBVIOUS
          <5>1. <<x, y>> \in Seq(Step) /\ <<x>> \o <<y>> \in Seq(Step)
            OBVIOUS
          <5>2. Len(<<x, y>>) = 2 /\ Len(<<x>> \o <<y>>) = 2
            OBVIOUS
          <5>3. \A i \in 1..2 : <<x, y>>[i] = (<<x>> \o <<y>>)[i]
            OBVIOUS
          <5>. QED BY <5>1, <5>2, <5>3, SeqEqual
        <4>2. <<n>> \in Seq(Step) /\ <<rn>> \in Seq(Step) /\ <<o>> \in Seq(Step) /\ <<ro>> \in Seq(Step)
          BY <2>1
        <4>3. /\ (<<n>> \o <<rn>>) \o (<<o>> \o <<ro>>) \in Seq(Step)
              /\ <<n>> \o <<rn>> \in Seq(Step) /\ <<o>> \o <<ro>> \in Seq(Step)
              /\ <<ro>> \o s \in Seq(Step) /\ <<o>> \o (<<ro>> \o s) \in Seq(Step)
          BY <1>5, <4>2
        <4>4. ((<<n>> \o <<rn>>) \o (<<o>> \o <<ro>>)) \o s = (<<n>> \o <<rn>>) \o ((<<o>> \o <<ro>>) \o s)
          BY <1>5, <4>3, ConcatAssociative
        <4>5. (<<o>> \o <<ro>>) \o s = <<o>> \o (<<ro>> \o s)
          BY <1>5, <4>2, ConcatAssociative
        <4>6. (<<n>> \o <<rn>>) \o (<<o>> \o (<<ro>> \o s)) = <<n>> \o (<<rn>> \o (<<o>> \o (<<ro>> \o s)))
          BY <1>5, <4>2, <4>3, ConcatAssociative
        <4>. QED BY <2>1, <4>1, <4>4, <4>5, <4>6, Zenon
      <3>. QED BY <2>2, <3>1, Zenon
    <2>. QED BY <2>3
  <1>8. Verifying'
    BY <1>1, <1>2, <1>5, <1>6, <1>7 DEF Verifying, Saved
  <1>9. BagToSet(flights') \subseteq BagToSet(flights)
    BY <1>1, LandedFlights
  <1>10. TypeOK' /\ FlightInv' /\ ReserveInv'
    BY <1>1, <1>9 DEF IInv, CoreInv, TypeOK, FlightInv, ReserveInv, Saved
  <1>11. CoreInv'
    BY <1>1, <1>10, CoreRows DEF IInv
  <1>12. EvidenceInv' /\ LedgerInv'
    BY <1>1, FreeFrame
  <1>. QED BY <1>8, <1>11, <1>12 DEF IInv, HandlerInv

(* A crash loses the flights and the handler in progress; every row stays. *)
LEMMA CrashStep ==
  ASSUME IInv, Crash PROVE IInv'
  <1>1. /\ flights' = EmptyBag /\ pending' = <<>>
        /\ UNCHANGED <<wf, keys, design, plans, manifest, evidence, reviews, verdict, reserved, ledger>>
    BY DEF Crash, store
  <1>2. crashed' = TRUE /\ promoting' = FALSE
    BY Zenon DEF Crash
  <1>3. disturbances' \in 0..MaxDisturbances
    BY DisturbTyped DEF Crash, IInv, CoreInv
  <1>4. BagToSet(flights') = {}
    BY <1>1, BagFacts
  <1>5. TypeOK' /\ Sane(wf)' /\ KeyInv'
    BY <1>1, <1>2, <1>3 DEF IInv, CoreInv, TypeOK, Sane, KeyInv, Saved, Rejected
  <1>6. ReserveInv' /\ FlightInv'
    BY <1>1, <1>2, <1>4 DEF IInv, CoreInv, ReserveInv, FlightInv
  <1>7. DeliveryNamed' /\ OnlyVerifiedDelivered' /\ DeliveryIsJudged'
    BY <1>1, <1>2
    DEF IInv, CoreInv, DeliveryNamed, OnlyVerifiedDelivered, DeliveryIsJudged, Saved, Stage
  <1>8. RejectedNeverReturns' /\ CyclesCountRejections'
    BY <1>1 DEF IInv, CoreInv, RejectedNeverReturns, CyclesCountRejections, Rejected, Stage
  <1>9. EvidenceInv'
    BY <1>1, <1>2 DEF IInv, EvidenceInv, Saved
  <1>10. LedgerInv'
    BY <1>1, <1>2 DEF IInv, LedgerInv
  <1>. QED BY <1>1, <1>5, <1>6, <1>7, <1>8, <1>9, <1>10 DEF IInv, CoreInv, HandlerInv, Free

(* A new workflow satisfies the invariant.                                 *)
LEMMA InitIInv ==
  ASSUME Init PROVE IInv
  <1>1. /\ wf = new(MaxCycles) /\ keys = {} /\ pending = <<>> /\ ledger = {}
        /\ flights = EmptyBag /\ ~reserved /\ ~promoting
    BY DEF Init
  <1>2. /\ wf.state = "intake" /\ wf.mode = NoArg /\ wf.candidate = NoCandidate
        /\ wf.cycles = 0 /\ wf.maximum = MaxCycles
        /\ wf.paused_from = NoArg /\ wf.blocked_from = NoArg
    BY <1>1 DEF new
  <1>3. TypeOK
    <2>1. wf \in Workflow
      BY <1>1, DaemonAssumption
      DEF new, Workflow, WorkflowStates, Terminal, Modes, Targets
    <2>2. reserved \in BOOLEAN /\ promoting \in BOOLEAN /\ crashed \in BOOLEAN
      BY Zenon DEF Init
    <2>. QED BY <2>1, <2>2, DaemonAssumption DEF Init, TypeOK
  <1>4. Sane(wf)
    BY <1>2, DaemonAssumption DEF Sane
  <1>5. Rejected = {}
    BY <1>1 DEF Rejected
  <1>6. KeyInv /\ RejectedNeverReturns /\ CyclesCountRejections
    BY <1>1, <1>2, <1>5, FS_EmptySet DEF KeyInv, RejectedNeverReturns, CyclesCountRejections
  <1>7. ReserveInv /\ FlightInv
    BY <1>1, BagFacts DEF ReserveInv, FlightInv
  <1>8. DeliveryNamed /\ OnlyVerifiedDelivered /\ DeliveryIsJudged
    BY <1>2 DEF DeliveryNamed, OnlyVerifiedDelivered, DeliveryIsJudged, Stage
  <1>9. EvidenceInv
    BY DEF Init, EvidenceInv, Gates
  <1>10. LedgerInv
    BY <1>1, <1>2 DEF Init, LedgerInv, Saved
  <1>. QED BY <1>1, <1>3, <1>4, <1>6, <1>7, <1>8, <1>9, <1>10
           DEF IInv, CoreInv, HandlerInv, Free

(* Every step keeps the invariant.                                         *)
LEMMA NextIInv ==
  ASSUME IInv, [Next]_vars PROVE IInv'
  <1>1. CASE Client
    BY <1>1, StartWorkflowStep, AcceptArchitectureStep, PlanVerificationStep,
       FreezeCandidateStep, RefreezeCandidateStep, VerifyCandidateStep, SubmitReviewStep,
       SubmitArbitrationStep, ReserveDeliveryStep
    DEF Client
  <1>2. CASE Daemon
    BY <1>2, ContinueStep, EndPromotionStep, AbandonStep, FinishFreezeStep, FinishVerifyStep
    DEF Daemon
  <1>3. CASE User
    BY <1>3, ReportExecutionStep, ControlStep DEF User
  <1>4. CASE Crash
    BY <1>4, CrashStep
  <1>5. CASE UNCHANGED vars
    <2>1. /\ UNCHANGED <<wf, keys, design, plans, manifest, evidence, reviews, verdict, reserved, ledger>>
          /\ UNCHANGED <<flights, pending, promoting, disturbances, crashed>>
      BY <1>5 DEF vars, store
    <2>2. CoreInv'
      BY <2>1, CoreFrame DEF IInv, CoreInv, TypeOK
    <2>3. EvidenceInv' /\ LedgerInv'
      BY <2>1 DEF IInv, EvidenceInv, LedgerInv, Recorded, Saved
    <2>4. /\ Free => Free'
          /\ Starting => Starting'
          /\ Accepting => Accepting'
          /\ Reviewing => Reviewing'
          /\ Repairing => Repairing'
      BY <2>1 DEF Free, Starting, Accepting, Reviewing, Repairing
    <2>5. Proposing => Proposing'
      <3>1. \A c \in Candidates : validate_candidate_state(c)' = validate_candidate_state(c)
        BY <2>1 DEF validate_candidate_state, Executing
      <3>. QED BY <2>1, <3>1 DEF Proposing, Saved
    <2>6. Verifying => Verifying'
      <3>1. \A c \in Candidates : Closing(c)' = Closing(c)
        BY <2>1 DEF Closing, route
      <3>. QED BY <2>1, <3>1 DEF Verifying, Saved
    <2>7. Arbitrating => Arbitrating'
      <3>1. \A c \in Candidates, v \in Verdicts : route(c, v)' = route(c, v)
        BY <2>1 DEF route
      <3>2. \A c \in Candidates : Approvable(c)' = Approvable(c)
        BY <2>1 DEF Approvable
      <3>. QED BY <2>1, <3>1, <3>2 DEF Arbitrating
    <2>8. HandlerInv'
      BY <2>4, <2>5, <2>6, <2>7 DEF IInv, HandlerInv
    <2>. QED BY <2>2, <2>3, <2>8 DEF IInv
  <1>. QED BY <1>1, <1>2, <1>3, <1>4, <1>5 DEF Next

-----------------------------------------------------------------------------
(* The theorems.                                                           *)

(* The invariant holds in every state of the daemon.                       *)
THEOREM Invariance == Spec => []IInv
  BY InitIInv, NextIInv, PTL DEF Spec

(* The rows of the store and the flags of the handlers have their types;   *)
(* the repair cycles never leave the width of a u8.                        *)
THEOREM TypeCorrect == Spec => []TypeOK
  <1>1. IInv => TypeOK
    BY DEF IInv, CoreInv
  <1>. QED BY Invariance, <1>1, PTL

(* OnlyVerifiedDelivered for every number of candidates, plans, crashes    *)
(* and overlapping flights: what is delivered was run through the gates.   *)
THEOREM DeliveredWasVerified == Spec => []OnlyVerifiedDelivered
  <1>1. IInv => OnlyVerifiedDelivered
    BY DEF IInv, CoreInv
  <1>. QED BY Invariance, <1>1, PTL

(* DeliveryIsJudged: nothing is delivered without the arbiter's approval   *)
(* and, on the full route, both approving reviews.                         *)
THEOREM DeliveredWasJudged == Spec => []DeliveryIsJudged
  <1>1. IInv => DeliveryIsJudged
    BY DEF IInv, CoreInv
  <1>. QED BY Invariance, <1>1, PTL

(* RejectedNeverReturns: idempotency keys keep a rejected candidate from   *)
(* being put forward again.                                                *)
THEOREM RejectedIsOver == Spec => []RejectedNeverReturns
  <1>1. IInv => RejectedNeverReturns
    BY DEF IInv, CoreInv
  <1>. QED BY Invariance, <1>1, PTL

(* CyclesCountRejections: repair::route spends one cycle per rejected      *)
(* candidate.                                                              *)
THEOREM CyclesAreExact == Spec => []CyclesCountRejections
  <1>1. IInv => CyclesCountRejections
    BY DEF IInv, CoreInv
  <1>. QED BY Invariance, <1>1, PTL

(* LedgerAgrees: between requests the audit chain and the store tell the   *)
(* same story, up to what a crash cut off.                                 *)
THEOREM LedgerTellsTheStory == Spec => []LedgerAgrees
  <1>1. ASSUME IInv PROVE LedgerAgrees
    <2>. SUFFICES ASSUME pending = <<>>
                  PROVE  /\ wf.mode # NoArg => <<"route", 0, wf.mode>> \in ledger
                         /\ \A c \in Candidates :
                              /\ <<"frozen", c, NoArg>> \in ledger => <<"candidate", c, NoArg>> \in keys
                              /\ \A v \in Verdicts : <<"arbitration", c, v>> \in ledger => verdict[c] = v
                              /\ ~crashed =>
                                   /\ Saved(c) => <<"frozen", c, NoArg>> \in ledger
                                   /\ verdict[c] # NoArg => <<"arbitration", c, verdict[c]>> \in ledger
                                   /\ \A r \in Roles : reviews[c][r] # NoArg => <<"review", c, r>> \in ledger
                                   /\ \A g \in Gates : evidence[c][g] # NoArg =>
                                        <<"verification", c, g>> \in ledger
      BY DEF LedgerAgrees
    <2>1. \A t : Recorded(t) => t.key \in ledger
      BY HasFew DEF Recorded
    <2>2. \A c : /\ Frozen(c).key = <<"frozen", c, NoArg>>
                 /\ \A v : Judged(c, v).key = <<"arbitration", c, v>>
                 /\ \A r : Reviewed(c, r).key = <<"review", c, r>>
                 /\ \A g : Ran(c, g).key = <<"verification", c, g>>
      BY DEF Frozen, Judged, Reviewed, Ran, Audit
    <2>. QED BY <1>1, <2>1, <2>2 DEF IInv, LedgerInv
  <1>. QED BY Invariance, <1>1, PTL
=============================================================================
