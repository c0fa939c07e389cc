--------------------------- MODULE AdmissionProofs --------------------------
(***************************************************************************)
(* Proofs about the admission of workflows, for every set of workflows and *)
(* projects, every number of slots and both builds of the daemon.          *)
(***************************************************************************)
EXTENDS Admission, ListsProofs, FiniteSetTheorems

(* The admission is a record of its five maps.                             *)
Fields(a) ==
  a = [active |-> a.active, waiting |-> a.waiting, projects |-> a.projects,
       rotation |-> a.rotation, queued |-> a.queued]

Maps(a) ==
  /\ DOMAIN a.active \subseteq Workflows /\ a.active \in [DOMAIN a.active -> 0..Lease]
  /\ DOMAIN a.waiting \subseteq Workflows /\ a.waiting \in [DOMAIN a.waiting -> 0..Lease]
  /\ DOMAIN a.projects \subseteq Projects
  /\ a.projects \in [DOMAIN a.projects -> Seq(Workflows)]
  /\ a.rotation \in Seq(Projects)
  /\ DOMAIN a.waiting = a.queued

(* The queues are not empty and hold workflows of their project, each in   *)
(* one place; every workflow that waits is in its queue; the rotation has  *)
(* every project with a queue once.                                        *)
Queues(a) ==
  /\ \A p \in DOMAIN a.projects :
       /\ a.projects[p] # <<>> /\ IsInjective(a.projects[p])
       /\ \A w \in ToSet(a.projects[p]) : ProjectOf[w] = p
  /\ \A w \in a.queued : /\ ProjectOf[w] \in DOMAIN a.projects
                         /\ w \in ToSet(a.projects[ProjectOf[w]])
  /\ IsInjective(a.rotation) /\ ToSet(a.rotation) = DOMAIN a.projects

(* A workflow in a queue that does not wait is the first of its queue, it  *)
(* is the only one, and only a build without debug assertions leaves it.   *)
Ghosts(a) ==
  /\ \A p \in DOMAIN a.projects : \A i \in DOMAIN a.projects[p] :
       a.projects[p][i] \notin a.queued => i = 1 /\ ~checked
  /\ \A p, q \in DOMAIN a.projects :
       a.projects[p][1] \notin a.queued /\ a.projects[q][1] \notin a.queued => p = q

NoGhosts(a) == \A p \in DOMAIN a.projects : ToSet(a.projects[p]) \subseteq a.queued

(* What is active does not wait, and has a slot.                           *)
Slots(a) ==
  /\ a.queued \cap DOMAIN a.active = {}
  /\ IsFiniteSet(DOMAIN a.active) /\ Cardinality(DOMAIN a.active) <= MaxActive

Agree(a) == Fields(a) /\ Maps(a) /\ Queues(a) /\ Ghosts(a) /\ Slots(a)

ControllerOK == controller \in [admitted : BOOLEAN, pressured : BOOLEAN, recovery : BOOLEAN]

IInv == Agree(adm) /\ ControllerOK

-----------------------------------------------------------------------------
(* Nothing waits and nothing is active in a new admission.                 *)
LEMMA NewAgrees == Agree(new)
  <1>1. Fields(new) /\ DOMAIN new.active = {} /\ DOMAIN new.waiting = {}
          /\ DOMAIN new.projects = {} /\ new.rotation = <<>> /\ new.queued = {}
    BY DEF Fields, new, EmptyFun
  <1>2. /\ new.active \in [DOMAIN new.active -> 0..Lease]
        /\ new.waiting \in [DOMAIN new.waiting -> 0..Lease]
        /\ new.projects \in [DOMAIN new.projects -> Seq(Workflows)]
    BY DEF new, EmptyFun
  <1>3. IsFiniteSet({}) /\ Cardinality({}) = 0
    BY FS_EmptySet
  <1>4. IsInjective(<<>>) /\ ToSet(<<>>) = {} /\ <<>> \in Seq(Projects)
    BY DEF IsInjective, ToSet
  <1> HIDE DEF new
  <1> QED
    BY <1>1, <1>2, <1>3, <1>4, AdmissionAssumption
    DEF Agree, Maps, Queues, Ghosts, Slots

(* Fewer workflows active.                                                 *)
LEMMA FewerActive ==
  ASSUME NEW S, IsFiniteSet(S), Cardinality(S) <= MaxActive, NEW R, R \subseteq S
  PROVE  IsFiniteSet(R) /\ Cardinality(R) <= MaxActive
  <1>1. IsFiniteSet(R) /\ Cardinality(R) <= Cardinality(S)
    BY FS_Subset
  <1>2. Cardinality(R) \in Nat /\ Cardinality(S) \in Nat
    BY <1>1, FS_CardinalityType
  <1> QED
    BY <1>1, <1>2, AdmissionAssumption

(* remove keeps the maps in agreement, and the one workflow that may be    *)
(* left at the front of a queue stays there.                               *)
LEMMA RemoveAgrees ==
  ASSUME NEW a, Agree(a), NEW gone \in SUBSET Workflows
  PROVE  /\ Agree(remove(a, gone))
         /\ DOMAIN remove(a, gone).active = DOMAIN a.active \ gone
         /\ remove(a, gone).queued = a.queued \ gone
         /\ NoGhosts(a) => NoGhosts(remove(a, gone))
  <1> DEFINE unqueued == gone \cap a.queued
             Kept(p) == Keep(a.projects[p], Workflows \ {w \in unqueued : ProjectOf[w] = p})
             kept == [p \in DOMAIN a.projects |-> Kept(p)]
             emptied == {p \in DOMAIN kept : kept[p] = <<>> /\ \E w \in unqueued : ProjectOf[w] = p}
             r == remove(a, gone)
             left == DOMAIN a.projects \ emptied
  <1>1. /\ Fields(r)
        /\ r.active = Restrict(a.active, DOMAIN a.active \ gone)
        /\ r.waiting = Restrict(a.waiting, DOMAIN a.waiting \ unqueued)
        /\ r.queued = a.queued \ unqueued
        /\ r.projects = Restrict(kept, left)
        /\ r.rotation = Keep(a.rotation, Projects \ emptied)
    <2> DEFINE active == Restrict(a.active, DOMAIN a.active \ gone)
               waiting == Restrict(a.waiting, DOMAIN a.waiting \ unqueued)
               projects == Restrict(kept, left)
               rotation == Keep(a.rotation, Projects \ emptied)
    <2>1. r = [a EXCEPT !.active = active, !.waiting = waiting, !.queued = a.queued \ unqueued,
                        !.projects = projects, !.rotation = rotation]
      BY DEF remove
    <2> HIDE DEF r, active, waiting, projects, rotation
    <2>2. r = [active |-> active, waiting |-> waiting, projects |-> projects,
               rotation |-> rotation, queued |-> a.queued \ unqueued]
      BY <2>1 DEF Agree, Fields
    <2>3. /\ r.active = active /\ r.waiting = waiting /\ r.queued = a.queued \ unqueued
          /\ r.projects = projects /\ r.rotation = rotation
      BY <2>2
    <2> QED
      BY <2>2, <2>3 DEF Fields, active, waiting, projects, rotation
  <1>2. ASSUME NEW p \in DOMAIN a.projects
        PROVE  /\ Kept(p) \in Seq(Workflows) /\ IsInjective(Kept(p))
               /\ ToSet(Kept(p)) = ToSet(a.projects[p]) \ unqueued
               /\ a.projects[p][1] \notin unqueued
                    => Kept(p) # <<>> /\ Kept(p)[1] = a.projects[p][1]
    <2> DEFINE S == Workflows \ {w \in unqueued : ProjectOf[w] = p}
    <2>1. PICK q \in Seq(Workflows) : q = a.projects[p]
      BY DEF Agree, Maps
    <2>2. q # <<>> /\ IsInjective(q) /\ \A w \in ToSet(q) : ProjectOf[w] = p
      BY <2>1 DEF Agree, Queues
    <2>3. ToSet(q) \subseteq Workflows /\ q[1] \in ToSet(q)
      BY <2>2 DEF ToSet
    <2>4. ToSet(q) \cap S = ToSet(q) \ unqueued
      BY <2>2, <2>3
    <2>5. Keep(q, S) \in Seq(Workflows) /\ ToSet(Keep(q, S)) = ToSet(q) \cap S
      <3> HIDE DEF S
      <3> QED
        BY KeepElements
    <2>6. IsInjective(Keep(q, S))
      <3> HIDE DEF S
      <3> QED
        BY <2>2, KeepInjective
    <2>7. q[1] \in S => Keep(q, S) # <<>> /\ Keep(q, S)[1] = q[1]
      <3> HIDE DEF S
      <3> QED
        BY <2>2, KeepFirst
    <2>8. q[1] \notin unqueued => q[1] \in S
      BY <2>3
    <2> QED
      BY <2>1, <2>4, <2>5, <2>6, <2>7, <2>8
  <1>3. /\ r.rotation \in Seq(Projects) /\ IsInjective(r.rotation)
        /\ ToSet(r.rotation) = left
    <2> DEFINE S == Projects \ emptied
    <2>1. PICK q \in Seq(Projects) : q = a.rotation
      BY DEF Agree, Maps
    <2>2. IsInjective(q) /\ ToSet(q) = DOMAIN a.projects /\ DOMAIN a.projects \subseteq Projects
      BY <2>1 DEF Agree, Queues, Maps
    <2>3. ToSet(q) \cap S = left
      BY <2>2
    <2>4. r.rotation = Keep(q, S)
      BY <1>1, <2>1
    <2> HIDE DEF S, r
    <2>5. Keep(q, S) \in Seq(Projects) /\ ToSet(Keep(q, S)) = ToSet(q) \cap S
      BY KeepElements
    <2>6. IsInjective(Keep(q, S))
      BY <2>2, KeepInjective
    <2> QED
      BY <2>3, <2>4, <2>5, <2>6
  <1> HIDE DEF r
  <1>4. /\ DOMAIN r.projects = left
        /\ \A p \in left : r.projects[p] = Kept(p)
    BY <1>1 DEF Restrict
  <1>5. \A p \in left : Kept(p) # <<>>
    <2> SUFFICES ASSUME NEW p \in left PROVE Kept(p) # <<>>
      OBVIOUS
    <2>1. CASE \E w \in unqueued : ProjectOf[w] = p
      BY <2>1
    <2>2. CASE ~\E w \in unqueued : ProjectOf[w] = p
      <3>1. PICK q \in Seq(Workflows) : q = a.projects[p]
        BY DEF Agree, Maps
      <3>2. q # <<>> /\ \A w \in ToSet(q) : ProjectOf[w] = p
        BY <3>1 DEF Agree, Queues
      <3>3. q[1] \notin unqueued
        BY <3>2, <2>2 DEF ToSet
      <3> QED
        BY <1>2, <3>1, <3>3
    <2> QED
      BY <2>1, <2>2
  <1> HIDE DEF Kept
  <1>6. Maps(r)
    <2>1. r.projects \in [left -> Seq(Workflows)]
      BY <1>1, <1>2, <1>4 DEF Restrict
    <2>2. /\ DOMAIN r.active = DOMAIN a.active \ gone
          /\ r.active \in [DOMAIN a.active \ gone -> 0..Lease]
      BY <1>1 DEF Restrict, Agree, Maps
    <2>3. /\ DOMAIN r.waiting = DOMAIN a.waiting \ unqueued
          /\ r.waiting \in [DOMAIN a.waiting \ unqueued -> 0..Lease]
      BY <1>1 DEF Restrict, Agree, Maps
    <2> QED
      BY <1>1, <1>3, <1>4, <2>1, <2>2, <2>3 DEF Agree, Maps
  <1>7. Queues(r)
    <2>1. ASSUME NEW p \in DOMAIN r.projects
          PROVE  /\ r.projects[p] # <<>> /\ IsInjective(r.projects[p])
                 /\ \A w \in ToSet(r.projects[p]) : ProjectOf[w] = p
      <3>1. p \in left /\ p \in DOMAIN a.projects /\ r.projects[p] = Kept(p)
        BY <1>4
      <3>2. ToSet(Kept(p)) \subseteq ToSet(a.projects[p]) /\ IsInjective(Kept(p))
        BY <1>2, <3>1
      <3>3. Kept(p) # <<>>
        BY <1>5, <3>1
      <3> QED
        BY <3>1, <3>2, <3>3 DEF Agree, Queues
    <2>2. ASSUME NEW w \in r.queued
          PROVE  /\ ProjectOf[w] \in DOMAIN r.projects
                 /\ w \in ToSet(r.projects[ProjectOf[w]])
      <3> DEFINE p == ProjectOf[w]
      <3>1. w \in a.queued /\ w \notin unqueued
        BY <1>1
      <3>2. p \in DOMAIN a.projects /\ w \in ToSet(a.projects[p])
        BY <3>1 DEF Agree, Queues
      <3> HIDE DEF p
      <3>3. w \in ToSet(Kept(p))
        BY <1>2, <3>1, <3>2
      <3>4. Kept(p) # <<>>
        BY <3>3 DEF ToSet
      <3>5. p \in left
        BY <3>2, <3>4
      <3> QED
        BY <1>4, <3>3, <3>5 DEF p
    <2> QED
      BY <1>3, <1>4, <2>1, <2>2 DEF Queues
  <1>8. ASSUME NEW p \in left, NEW i \in DOMAIN r.projects[p], r.projects[p][i] \notin r.queued
        PROVE  /\ i = 1 /\ ~checked
               /\ a.projects[p][1] \notin a.queued /\ r.projects[p][1] = a.projects[p][1]
    <2>1. PICK q \in Seq(Workflows) : q = a.projects[p]
      BY DEF Agree, Maps
    <2>2. PICK k \in Seq(Workflows) : k = Kept(p)
      BY <1>2
    <2>3. IsInjective(k) /\ ToSet(k) = ToSet(q) \ unqueued /\ r.projects[p] = k
      BY <1>2, <1>4, <2>1, <2>2
    <2>4. k[i] \in ToSet(q) /\ k[i] \notin unqueued /\ k[i] \notin a.queued
      BY <1>1, <1>8, <2>3 DEF ToSet
    <2>5. PICK j \in DOMAIN q : q[j] = k[i]
      BY <2>4 DEF ToSet
    <2>6. j = 1 /\ ~checked
      BY <2>1, <2>4, <2>5 DEF Agree, Ghosts
    <2>7. k # <<>> /\ k[1] = q[1]
      BY <1>2, <2>1, <2>2, <2>4, <2>5, <2>6
    <2>8. i = 1
      BY <2>3, <2>5, <2>6, <2>7 DEF IsInjective
    <2> QED
      BY <2>1, <2>3, <2>4, <2>5, <2>6, <2>7, <2>8
  <1>9. Ghosts(r)
    <2>1. \A p \in DOMAIN r.projects : \A i \in DOMAIN r.projects[p] :
            r.projects[p][i] \notin r.queued => i = 1 /\ ~checked
      BY <1>4, <1>8
    <2>2. ASSUME NEW p \in DOMAIN r.projects, NEW q \in DOMAIN r.projects,
                 r.projects[p][1] \notin r.queued, r.projects[q][1] \notin r.queued
          PROVE  p = q
      <3>1. 1 \in DOMAIN r.projects[p] /\ 1 \in DOMAIN r.projects[q]
        BY <1>6, <1>7 DEF Maps, Queues
      <3>2. a.projects[p][1] \notin a.queued /\ a.projects[q][1] \notin a.queued
        BY <1>4, <1>8, <2>2, <3>1
      <3> QED
        BY <1>4, <3>2 DEF Agree, Ghosts
    <2> QED
      BY <2>1, <2>2 DEF Ghosts
  <1>10. DOMAIN r.active = DOMAIN a.active \ gone
    BY <1>1 DEF Restrict
  <1>11. Slots(r)
    BY <1>1, <1>10, FewerActive DEF Agree, Slots
  <1>12. NoGhosts(a) => NoGhosts(r)
    <2> SUFFICES ASSUME NoGhosts(a), NEW p \in DOMAIN r.projects
                 PROVE  ToSet(r.projects[p]) \subseteq r.queued
      BY DEF NoGhosts
    <2>1. p \in DOMAIN a.projects /\ r.projects[p] = Kept(p)
      BY <1>4
    <2>2. ToSet(Kept(p)) = ToSet(a.projects[p]) \ unqueued
      BY <1>2, <2>1
    <2> QED
      BY <1>1, <2>1, <2>2 DEF NoGhosts
  <1> QED
    BY <1>1, <1>6, <1>7, <1>9, <1>10, <1>11, <1>12 DEF Agree, r

(* Queues without a workflow that does not wait.                           *)
LEMMA GhostFree ==
  ASSUME NEW a, Maps(a), Queues(a), NoGhosts(a)
  PROVE  Ghosts(a)
  <1>1. \A p \in DOMAIN a.projects : \A i \in DOMAIN a.projects[p] :
          a.projects[p][i] \in a.queued
    BY DEF NoGhosts, ToSet
  <1>2. \A p \in DOMAIN a.projects : 1 \in DOMAIN a.projects[p]
    BY DEF Maps, Queues
  <1> QED
    BY <1>1, <1>2 DEF Ghosts

(* The sequence of the members of an empty set.                            *)
LEMMA SetToSeqEmpty == SetToSeq({}) = <<>>
  <1>1. Cardinality({}) = 0
    BY FS_EmptySet
  <1>2. \A f \in [1..0 -> {}] : f = <<>>
    BY EmptySeq, LenProperties, SeqDef
  <1>3. <<>> \in [1..0 -> {}] /\ IsInjective(<<>>)
    BY DEF IsInjective
  <1> QED
    BY <1>1, <1>2, <1>3 DEF SetToSeq

(* repair_queue_invariants keeps the maps in agreement, and takes out what *)
(* does not wait.                                                          *)
LEMMA RepairAgrees ==
  ASSUME NEW a, Agree(a)
  PROVE  /\ Agree(repair_queue_invariants(a)) /\ NoGhosts(repair_queue_invariants(a))
         /\ repair_queue_invariants(a).active = a.active
         /\ repair_queue_invariants(a).queued = a.queued
  <1> DEFINE Kept(p) == Keep(a.projects[p], {w \in DOMAIN a.waiting \cap a.queued : ProjectOf[w] = p})
             kept == [p \in DOMAIN a.projects |-> Kept(p)]
             left == {p \in DOMAIN kept : kept[p] # <<>>}
             projects == Restrict(kept, left)
             queued == UNION {ToSet(projects[p]) : p \in DOMAIN projects}
             places == Keep([i \in DOMAIN a.rotation |-> i],
                            {i \in DOMAIN a.rotation :
                               /\ a.rotation[i] \in DOMAIN projects
                               /\ \A j \in 1..(i - 1) : a.rotation[j] # a.rotation[i]})
             rotation == [k \in DOMAIN places |-> a.rotation[places[k]]]
             r == repair_queue_invariants(a)
  <1>1. /\ Fields(r) /\ r.active = a.active /\ r.projects = projects
        /\ r.waiting = Restrict(a.waiting, DOMAIN a.waiting \cap queued)
        /\ r.queued = a.queued \cap queued
        /\ r.rotation = rotation \o SetToSeq(DOMAIN projects \ ToSet(rotation))
    <2> DEFINE waiting == Restrict(a.waiting, DOMAIN a.waiting \cap queued)
               all == rotation \o SetToSeq(DOMAIN projects \ ToSet(rotation))
    <2>1. r = [a EXCEPT !.projects = projects, !.waiting = waiting,
                        !.queued = a.queued \cap queued, !.rotation = all]
      BY DEF repair_queue_invariants
    <2> HIDE DEF r, waiting, projects, all, queued, rotation
    <2>2. r = [active |-> a.active, waiting |-> waiting, projects |-> projects,
               rotation |-> all, queued |-> a.queued \cap queued]
      BY <2>1 DEF Agree, Fields
    <2>3. /\ r.active = a.active /\ r.waiting = waiting /\ r.queued = a.queued \cap queued
          /\ r.projects = projects /\ r.rotation = all
      BY <2>2
    <2> QED
      BY <2>2, <2>3 DEF Fields, waiting, all
  <1>2. ASSUME NEW p \in DOMAIN a.projects
        PROVE  /\ Kept(p) \in Seq(Workflows) /\ IsInjective(Kept(p))
               /\ ToSet(Kept(p)) = ToSet(a.projects[p]) \cap a.queued
    <2> DEFINE S == {w \in DOMAIN a.waiting \cap a.queued : ProjectOf[w] = p}
    <2>1. PICK q \in Seq(Workflows) : q = a.projects[p]
      BY DEF Agree, Maps
    <2>2. IsInjective(q) /\ \A w \in ToSet(q) : ProjectOf[w] = p
      BY <2>1 DEF Agree, Queues
    <2>3. ToSet(q) \cap S = ToSet(q) \cap a.queued
      BY <2>2 DEF Agree, Maps
    <2> HIDE DEF S
    <2>4. Keep(q, S) \in Seq(Workflows) /\ ToSet(Keep(q, S)) = ToSet(q) \cap S
      BY KeepElements
    <2>5. IsInjective(Keep(q, S))
      BY <2>2, KeepInjective
    <2> QED
      BY <2>1, <2>3, <2>4, <2>5 DEF S
  <1> HIDE DEF r, Kept
  <1>3. /\ DOMAIN projects = left /\ left \subseteq DOMAIN a.projects
        /\ \A p \in left : projects[p] = Kept(p) /\ Kept(p) # <<>>
    BY DEF Restrict
  <1> HIDE DEF projects, left
  <1>4. /\ queued = a.queued
        /\ \A w \in a.queued : ProjectOf[w] \in left /\ w \in ToSet(Kept(ProjectOf[w]))
    <2>1. ASSUME NEW w \in a.queued
          PROVE  ProjectOf[w] \in left /\ w \in ToSet(Kept(ProjectOf[w]))
      <3> DEFINE p == ProjectOf[w]
      <3>1. p \in DOMAIN a.projects /\ w \in ToSet(a.projects[p])
        BY DEF Agree, Queues
      <3> HIDE DEF p
      <3>2. w \in ToSet(Kept(p))
        BY <1>2, <3>1
      <3>3. Kept(p) # <<>>
        BY <3>2 DEF ToSet
      <3> QED
        BY <3>1, <3>2, <3>3 DEF p, left
    <2>2. ASSUME NEW p \in left PROVE ToSet(projects[p]) \subseteq a.queued
      BY <1>2, <1>3
    <2> QED
      BY <1>3, <2>1, <2>2
  <1>5. /\ r.rotation \in Seq(Projects) /\ IsInjective(r.rotation)
        /\ ToSet(r.rotation) = left
    <2>1. PICK q \in Seq(Projects) : q = a.rotation
      BY DEF Agree, Maps
    <2>2. IsInjective(q) /\ ToSet(q) = DOMAIN a.projects
      BY <2>1 DEF Agree, Queues
    <2> DEFINE n == Len(q)
               id == [i \in 1..n |-> i]
               S == {i \in 1..n : q[i] \in left /\ \A j \in 1..(i - 1) : q[j] # q[i]}
               k == Keep(id, S)
               s == [j \in DOMAIN k |-> q[k[j]]]
    <2>3. n \in Nat /\ DOMAIN q = 1..n
      OBVIOUS
    <2>4. S = {i \in 1..n : q[i] \in left}
      <3>1. \A i \in 1..n : \A j \in 1..(i - 1) : q[j] # q[i]
        BY <2>2, <2>3 DEF IsInjective
      <3> QED
        BY <3>1
    <2>5. rotation = s
      BY <1>3, <2>1, <2>3
    <2> HIDE DEF n, S
    <2>6. id \in Seq(1..n) /\ IsInjective(id) /\ ToSet(id) = 1..n
      BY <2>3 DEF IsInjective, ToSet
    <2> HIDE DEF id
    <2>7. k \in Seq(1..n) /\ ToSet(k) = 1..n \cap S /\ IsInjective(k)
      <3>1. k \in Seq(1..n) /\ ToSet(k) = ToSet(id) \cap S
        BY <2>6, KeepElements
      <3>2. IsInjective(k)
        BY <2>6, KeepInjective
      <3> QED
        BY <2>6, <3>1, <3>2
    <2> HIDE DEF k
    <2>8. /\ Len(k) \in Nat /\ DOMAIN k = 1..Len(k)
          /\ \A j \in DOMAIN k : k[j] \in 1..n /\ k[j] \in S
      BY <2>7 DEF ToSet
    <2>9. \A i \in S : \E j \in DOMAIN k : k[j] = i
      BY <2>4, <2>7 DEF ToSet
    <2>10. s \in Seq(Projects) /\ DOMAIN s = DOMAIN k
      <3>1. \A i \in 1..n : q[i] \in Projects
        BY <2>3
      <3> QED
        BY <2>8, <3>1
    <2>11. IsInjective(s)
      <3> SUFFICES ASSUME NEW i \in DOMAIN k, NEW j \in DOMAIN k, q[k[i]] = q[k[j]]
                   PROVE  i = j
        BY <2>10 DEF IsInjective
      <3>1. k[i] = k[j]
        BY <2>2, <2>3, <2>8 DEF IsInjective
      <3> QED
        BY <2>7, <3>1 DEF IsInjective
    <2>12. ToSet(s) = left
      <3>1. ASSUME NEW p \in left PROVE p \in ToSet(s)
        <4>1. PICK i \in 1..n : q[i] = p
          BY <1>3, <2>2, <2>3 DEF ToSet
        <4>2. PICK j \in DOMAIN k : k[j] = i
          BY <2>4, <2>9, <4>1
        <4>3. s[j] = p /\ j \in DOMAIN s
          BY <2>10, <4>1, <4>2
        <4> QED
          BY <4>3 DEF ToSet
      <3>2. ASSUME NEW p \in ToSet(s) PROVE p \in left
        <4>1. PICK j \in DOMAIN k : p = q[k[j]]
          BY <2>10 DEF ToSet
        <4> QED
          BY <2>4, <2>8, <4>1
      <3> QED
        BY <3>1, <3>2
    <2>13. r.rotation = s
      <3>1. DOMAIN projects \ ToSet(s) = {}
        BY <1>3, <2>12
      <3>2. r.rotation = s \o SetToSeq({})
        BY <1>1, <2>5, <3>1
      <3> HIDE DEF s
      <3> QED
        BY <2>10, <3>2, SetToSeqEmpty, ConcatEmptySeq
    <2> QED
      BY <2>10, <2>11, <2>12, <2>13
  <1>6. r.queued = a.queued
    BY <1>1, <1>4
  <1>7. Maps(r)
    <2>1. projects \in [left -> Seq(Workflows)]
      BY <1>2, <1>3 DEF projects, Restrict
    <2>2. DOMAIN r.waiting = DOMAIN a.waiting /\ r.waiting \in [DOMAIN a.waiting -> 0..Lease]
      BY <1>1, <1>4 DEF Restrict, Agree, Maps
    <2> QED
      BY <1>1, <1>3, <1>5, <1>6, <2>1, <2>2 DEF Agree, Maps
  <1>8. Queues(r)
    <2>1. ASSUME NEW p \in left
          PROVE  /\ projects[p] # <<>> /\ IsInjective(projects[p])
                 /\ \A w \in ToSet(projects[p]) : ProjectOf[w] = p
      <3>1. p \in DOMAIN a.projects /\ projects[p] = Kept(p) /\ Kept(p) # <<>>
        BY <1>3
      <3>2. IsInjective(Kept(p)) /\ ToSet(Kept(p)) \subseteq ToSet(a.projects[p])
        BY <1>2, <3>1
      <3> QED
        BY <3>1, <3>2 DEF Agree, Queues
    <2>2. ASSUME NEW w \in a.queued
          PROVE  ProjectOf[w] \in left /\ w \in ToSet(projects[ProjectOf[w]])
      BY <1>3, <1>4
    <2> QED
      BY <1>1, <1>3, <1>5, <1>6, <2>1, <2>2 DEF Queues
  <1>9. NoGhosts(r)
    <2> SUFFICES ASSUME NEW p \in left PROVE ToSet(projects[p]) \subseteq a.queued
      BY <1>1, <1>3, <1>6 DEF NoGhosts
    <2> QED
      BY <1>2, <1>3
  <1>10. Ghosts(r)
    BY <1>7, <1>8, <1>9, GhostFree
  <1> QED
    BY <1>1, <1>6, <1>7, <1>8, <1>9, <1>10 DEF Agree, Slots, r

(* Leases that ran out leave the others as they are.                       *)
LEMMA LiveAgrees ==
  ASSUME NEW a, Agree(a)
  PROVE  /\ Agree(live(a))
         /\ live(a).waiting = a.waiting /\ live(a).queued = a.queued
         /\ DOMAIN live(a).active \subseteq DOMAIN a.active
  <1> DEFINE r == live(a)
             alive == {w \in DOMAIN a.active : a.active[w] > 0}
             active == Restrict(a.active, alive)
  <1>1. r = [a EXCEPT !.active = active]
    BY DEF live
  <1>2. DOMAIN active = alive /\ active \in [alive -> 0..Lease]
    BY DEF Restrict, Agree, Maps
  <1> HIDE DEF r, active
  <1>3. r = [active |-> active, waiting |-> a.waiting, projects |-> a.projects,
             rotation |-> a.rotation, queued |-> a.queued]
    BY <1>1 DEF Agree, Fields
  <1>4. /\ Fields(r) /\ r.active = active /\ r.waiting = a.waiting /\ r.projects = a.projects
        /\ r.rotation = a.rotation /\ r.queued = a.queued
    BY <1>3 DEF Fields
  <1>5. Maps(r)
    BY <1>2, <1>4 DEF Agree, Maps
  <1>6. Queues(r) /\ Ghosts(r)
    BY <1>4 DEF Agree, Queues, Ghosts
  <1>7. Slots(r)
    BY <1>2, <1>4, FewerActive DEF Agree, Slots
  <1> QED
    BY <1>2, <1>4, <1>5, <1>6, <1>7 DEF Agree, r

(* reap leaves the maps in agreement and nothing in a queue that does not  *)
(* wait.                                                                   *)
LEMMA ReapAgrees ==
  ASSUME NEW a, Agree(a)
  PROVE  Agree(reap(a)) /\ NoGhosts(reap(a))
  <1>1. Agree(live(a)) /\ abandoned(a) \in SUBSET Workflows
    BY LiveAgrees DEF Agree, Maps, abandoned
  <1>2. Agree(remove(live(a), abandoned(a)))
    BY <1>1, RemoveAgrees
  <1> QED
    BY <1>2, RepairAgrees DEF reap

(* enqueue gives a workflow that is not active its place.                  *)
LEMMA EnqueueAgrees ==
  ASSUME NEW a, Agree(a), NoGhosts(a), NEW w \in Workflows, w \notin DOMAIN a.active
  PROVE  /\ Agree(enqueue(a, w)) /\ NoGhosts(enqueue(a, w))
         /\ w \in enqueue(a, w).queued /\ enqueue(a, w).active = a.active
  <1> DEFINE p == ProjectOf[w]
             r == enqueue(a, w)
  <1>0. p \in Projects /\ Lease \in 0..Lease
    BY AdmissionAssumption
  <1>1. CASE w \in DOMAIN a.waiting
    <2> DEFINE waiting == [a.waiting EXCEPT ![w] = Lease]
    <2>1. r = [a EXCEPT !.waiting = waiting]
      BY <1>1 DEF enqueue
    <2>2. DOMAIN waiting = DOMAIN a.waiting /\ waiting \in [DOMAIN a.waiting -> 0..Lease]
      BY <1>0, <1>1 DEF Agree, Maps
    <2> HIDE DEF r, waiting
    <2>3. r = [active |-> a.active, waiting |-> waiting, projects |-> a.projects,
               rotation |-> a.rotation, queued |-> a.queued]
      BY <2>1 DEF Agree, Fields
    <2>4. /\ Fields(r) /\ r.active = a.active /\ r.waiting = waiting /\ r.projects = a.projects
          /\ r.rotation = a.rotation /\ r.queued = a.queued
      BY <2>3 DEF Fields
    <2>5. Maps(r)
      BY <2>2, <2>4 DEF Agree, Maps
    <2>6. Queues(r) /\ Ghosts(r) /\ Slots(r) /\ NoGhosts(r)
      BY <2>4 DEF Agree, Queues, Ghosts, Slots, NoGhosts
    <2> QED
      BY <1>1, <2>4, <2>5, <2>6 DEF Agree, Maps, r
  <1>2. CASE w \notin DOMAIN a.waiting
    <2> DEFINE old == IF p \in DOMAIN a.projects THEN a.projects[p] ELSE <<>>
               waiting == Put(a.waiting, w, Lease)
               projects == Put(a.projects, p, Append(old, w))
               rotation == IF p \in DOMAIN a.projects THEN a.rotation ELSE Append(a.rotation, p)
    <2>1. r = [a EXCEPT !.waiting = waiting, !.queued = a.queued \cup {w},
                        !.projects = projects, !.rotation = rotation]
      BY <1>2 DEF enqueue
    <2>2. /\ DOMAIN waiting = DOMAIN a.waiting \cup {w}
          /\ waiting \in [DOMAIN a.waiting \cup {w} -> 0..Lease]
      BY <1>0 DEF Agree, Maps, Put
    <2>3. PICK q \in Seq(Workflows) : q = old
      <3>1. old \in Seq(Workflows)
        BY DEF Agree, Maps
      <3> QED
        BY <3>1
    <2>4. IsInjective(q) /\ ToSet(q) \subseteq a.queued /\ \A v \in ToSet(q) : ProjectOf[v] = p
      <3>1. CASE p \in DOMAIN a.projects
        BY <2>3, <3>1 DEF Agree, Queues, NoGhosts
      <3>2. CASE p \notin DOMAIN a.projects
        BY <2>3, <3>2 DEF IsInjective, ToSet
      <3> QED
        BY <3>1, <3>2
    <2>5. PICK t \in Seq(Workflows) : t = Append(q, w)
      <3>1. Append(q, w) \in Seq(Workflows)
        OBVIOUS
      <3> QED
        BY <3>1
    <2>6. ToSet(t) = ToSet(q) \cup {w} /\ t # <<>>
      BY <2>5, AppendToSet
    <2>7. IsInjective(t)
      <3>1. w \notin ToSet(q)
        BY <1>2, <2>4 DEF Agree, Maps
      <3> QED
        BY <2>4, <2>5, <3>1, InjectiveAppend
    <2>8. /\ DOMAIN projects = DOMAIN a.projects \cup {p} /\ projects[p] = t
          /\ \A x \in DOMAIN a.projects \ {p} : projects[x] = a.projects[x]
          /\ projects \in [DOMAIN a.projects \cup {p} -> Seq(Workflows)]
      BY <2>3, <2>5 DEF Put, Agree, Maps
    <2>9. /\ rotation \in Seq(Projects) /\ IsInjective(rotation)
          /\ ToSet(rotation) = DOMAIN a.projects \cup {p}
      <3>1. PICK s \in Seq(Projects) : s = a.rotation
        BY DEF Agree, Maps
      <3>2. IsInjective(s) /\ ToSet(s) = DOMAIN a.projects
        BY <3>1 DEF Agree, Queues
      <3>3. CASE p \in DOMAIN a.projects
        BY <3>1, <3>2, <3>3
      <3>4. CASE p \notin DOMAIN a.projects
        <4>1. rotation = Append(s, p)
          BY <3>1, <3>4
        <4>2. Append(s, p) \in Seq(Projects) /\ ToSet(Append(s, p)) = ToSet(s) \cup {p}
          BY <1>0, AppendToSet
        <4>3. IsInjective(Append(s, p))
          BY <1>0, <3>2, <3>4, InjectiveAppend
        <4> QED
          BY <3>2, <4>1, <4>2, <4>3
      <3> QED
        BY <3>3, <3>4
    <2> HIDE DEF r, waiting, projects, rotation, old, p
    <2>10. r = [active |-> a.active, waiting |-> waiting, projects |-> projects,
                rotation |-> rotation, queued |-> a.queued \cup {w}]
      BY <2>1 DEF Agree, Fields
    <2>11. /\ Fields(r) /\ r.active = a.active /\ r.waiting = waiting /\ r.projects = projects
           /\ r.rotation = rotation /\ r.queued = a.queued \cup {w}
      BY <2>10 DEF Fields
    <2>12. Maps(r)
      BY <1>0, <2>2, <2>8, <2>9, <2>11 DEF Agree, Maps
    <2>13. Queues(r)
      <3>1. ASSUME NEW x \in DOMAIN projects
            PROVE  /\ projects[x] # <<>> /\ IsInjective(projects[x])
                   /\ \A v \in ToSet(projects[x]) : ProjectOf[v] = x
        <4>1. CASE x = p
          BY <2>4, <2>6, <2>7, <2>8, <4>1 DEF p
        <4>2. CASE x # p
          BY <2>8, <4>2 DEF Agree, Queues
        <4> QED
          BY <4>1, <4>2
      <3>2. ASSUME NEW v \in a.queued \cup {w}
            PROVE  ProjectOf[v] \in DOMAIN projects /\ v \in ToSet(projects[ProjectOf[v]])
        <4>1. CASE v = w
          BY <2>6, <2>8, <4>1 DEF p
        <4>2. CASE v # w
          <5>1. ProjectOf[v] \in DOMAIN a.projects /\ v \in ToSet(a.projects[ProjectOf[v]])
            BY <4>2 DEF Agree, Queues
          <5>2. CASE ProjectOf[v] = p
            BY <2>3, <2>6, <2>8, <5>1, <5>2 DEF old
          <5>3. CASE ProjectOf[v] # p
            BY <2>8, <5>1, <5>3
          <5> QED
            BY <5>2, <5>3
        <4> QED
          BY <4>1, <4>2
      <3> QED
        BY <2>8, <2>9, <2>11, <3>1, <3>2 DEF Queues
    <2>14. NoGhosts(r)
      <3> SUFFICES ASSUME NEW x \in DOMAIN projects
                   PROVE  ToSet(projects[x]) \subseteq a.queued \cup {w}
        BY <2>11 DEF NoGhosts
      <3>1. CASE x = p
        BY <2>4, <2>6, <2>8, <3>1
      <3>2. CASE x # p
        BY <2>8, <3>2 DEF NoGhosts
      <3> QED
        BY <3>1, <3>2
    <2>15. Ghosts(r)
      BY <2>12, <2>13, <2>14, GhostFree
    <2>16. Slots(r)
      BY <2>11 DEF Agree, Slots
    <2> QED
      BY <2>11, <2>12, <2>13, <2>14, <2>15, <2>16 DEF Agree, r
  <1> QED
    BY <1>1, <1>2

(* The tail of a sequence without repetitions.                             *)
LEMMA TailElements ==
  ASSUME NEW X, NEW s \in Seq(X), s # <<>>, IsInjective(s)
  PROVE  /\ Tail(s) \in Seq(X) /\ IsInjective(Tail(s))
         /\ ToSet(Tail(s)) = ToSet(s) \ {Head(s)}
  <1> DEFINE t == Tail(s)
             n == Len(s)
  <1>1. n \in Nat /\ n # 0 /\ DOMAIN s = 1..n /\ t \in Seq(X) /\ DOMAIN t = 1..(n - 1)
    OBVIOUS
  <1>2. (\A i \in 1..(n - 1) : t[i] = s[i + 1]) /\ Head(s) = s[1]
    OBVIOUS
  <1> HIDE DEF t, n
  <1>3. IsInjective(t)
    <2> SUFFICES ASSUME NEW i \in 1..(n - 1), NEW j \in 1..(n - 1), t[i] = t[j]
                 PROVE  i = j
      BY <1>1 DEF IsInjective
    <2>1. i + 1 \in 1..n /\ j + 1 \in 1..n /\ s[i + 1] = s[j + 1]
      BY <1>1, <1>2
    <2>2. i + 1 = j + 1
      BY <1>1, <2>1 DEF IsInjective
    <2> QED
      BY <2>2
  <1>4. ASSUME NEW x \in ToSet(t) PROVE x \in ToSet(s) /\ x # Head(s)
    <2>1. PICK i \in 1..(n - 1) : x = s[i + 1]
      BY <1>1, <1>2 DEF ToSet
    <2>2. i + 1 \in 1..n /\ 1 \in 1..n /\ i + 1 # 1
      BY <1>1
    <2> QED
      BY <1>1, <1>2, <2>1, <2>2 DEF ToSet, IsInjective
  <1>5. ASSUME NEW x \in ToSet(s), x # Head(s) PROVE x \in ToSet(t)
    <2>1. PICK i \in 1..n : x = s[i]
      BY <1>1 DEF ToSet
    <2>2. i - 1 \in 1..(n - 1) /\ (i - 1) + 1 = i
      BY <1>1, <1>2, <1>5, <2>1
    <2>3. t[i - 1] = x
      BY <1>2, <2>1, <2>2
    <2> QED
      BY <1>1, <2>2, <2>3 DEF ToSet
  <1>6. ToSet(t) = ToSet(s) \ {Head(s)}
    BY <1>4, <1>5
  <1> QED
    BY <1>1, <1>3, <1>6 DEF t

(* What is replaced, and what is not, when a place in the queue is left.   *)
LEMMA PlaceLeft ==
  ASSUME NEW a, Fields(a), NEW u, NEW q
  PROVE  [a EXCEPT !.waiting = u, !.queued = q] =
           [active |-> a.active, waiting |-> u, projects |-> a.projects,
            rotation |-> a.rotation, queued |-> q]
  <1> DEFINE r == [a EXCEPT !.waiting = u]
  <1>1. r = [active |-> a.active, waiting |-> u, projects |-> a.projects,
             rotation |-> a.rotation, queued |-> a.queued]
    BY DEF Fields
  <1>2. [a EXCEPT !.waiting = u, !.queued = q] = [r EXCEPT !.queued = q]
    OBVIOUS
  <1> HIDE DEF r
  <1>3. [r EXCEPT !.queued = q] =
          [active |-> a.active, waiting |-> u, projects |-> a.projects,
           rotation |-> a.rotation, queued |-> q]
    BY <1>1
  <1> QED
    BY <1>2, <1>3

(* dequeue_front, followed by the insertion of the lease, takes a slot for *)
(* the workflow whose turn it is; without debug assertions the workflow    *)
(* stays at the front of its queue.                                        *)
LEMMA DequeueAgrees ==
  ASSUME checked \in BOOLEAN, NEW a, Agree(a), NoGhosts(a), NEW w \in a.queued,
         ~concurrency_limit(a), ~fair_queue(a, w)
  PROVE  Agree([dequeue_front(a, w) EXCEPT !.active = Put(@, w, Lease)])
  <1> DEFINE p == ProjectOf[w]
             queue == IF checked THEN Tail(a.projects[p]) ELSE a.projects[p]
             waiting == Drop(a.waiting, w)
             active == Put(a.active, w, Lease)
             projects == IF queue = <<>> THEN Drop(a.projects, p)
                         ELSE [a.projects EXCEPT ![p] = queue]
             rotation == IF queue = <<>> THEN Tail(a.rotation) ELSE Append(Tail(a.rotation), p)
             r == [dequeue_front(a, w) EXCEPT !.active = Put(@, w, Lease)]
  <1>1. r = [active |-> active, waiting |-> waiting, projects |-> projects,
             rotation |-> rotation, queued |-> a.queued \ {w}]
    <2> DEFINE queued == a.queued \ {w}
               left == [a EXCEPT !.waiting = waiting, !.queued = queued]
    <2>1. left = [active |-> a.active, waiting |-> waiting, projects |-> a.projects,
                  rotation |-> a.rotation, queued |-> queued]
      <3>1. Fields(a)
        BY DEF Agree
      <3> HIDE DEF waiting, p, queue, queued
      <3> QED
        BY <3>1, PlaceLeft DEF left
    <2>2. dequeue_front(a, w) =
            IF queue = <<>> THEN [left EXCEPT !.projects = Drop(@, p), !.rotation = Tail(@)]
            ELSE [left EXCEPT !.projects[p] = queue, !.rotation = Append(Tail(@), p)]
      BY DEF dequeue_front
    <2>3. dequeue_front(a, w) =
            [active |-> a.active, waiting |-> waiting, projects |-> projects,
             rotation |-> rotation, queued |-> a.queued \ {w}]
      <3> HIDE DEF waiting, queue, p, left
      <3>1. CASE queue = <<>>
        BY <2>1, <2>2, <3>1
      <3>2. CASE queue # <<>>
        BY <2>1, <2>2, <3>2
      <3> QED
        BY <3>1, <3>2
    <2> HIDE DEF waiting, projects, rotation
    <2> QED
      BY <2>3
  <1>2. /\ p \in DOMAIN a.projects /\ p \in Projects /\ w \in Workflows
        /\ DOMAIN a.waiting = a.queued
    BY AdmissionAssumption DEF Agree, Maps, Queues
  <1>3. PICK q \in Seq(Workflows) : q = a.projects[p]
    BY <1>2 DEF Agree, Maps
  <1>4. /\ q # <<>> /\ IsInjective(q) /\ ToSet(q) \subseteq a.queued /\ Head(q) = w
        /\ \A v \in ToSet(q) : ProjectOf[v] = p
    BY <1>2, <1>3 DEF Agree, Queues, NoGhosts, fair_queue
  <1>5. PICK s \in Seq(Projects) : s = a.rotation
    BY DEF Agree, Maps
  <1>6. IsInjective(s) /\ ToSet(s) = DOMAIN a.projects /\ Head(s) = p
    BY <1>5 DEF Agree, Queues, fair_queue
  <1>7. s # <<>>
    BY <1>2, <1>6 DEF ToSet
  <1>8. PICK u \in Seq(Workflows) : u = queue
    <2>1. queue \in Seq(Workflows)
      BY <1>3, <1>4
    <2> QED
      BY <2>1
  <1>9. /\ IsInjective(u) /\ ToSet(u) = IF checked THEN ToSet(q) \ {w} ELSE ToSet(q)
        /\ ~checked => u = q
    <2>1. CASE checked
      BY <1>3, <1>4, <1>8, <2>1, TailElements
    <2>2. CASE ~checked
      BY <1>3, <1>4, <1>8, <2>2
    <2> QED
      BY <2>1, <2>2
  <1>10. PICK t \in Seq(Projects) :
           t = Tail(s) /\ IsInjective(t) /\ ToSet(t) = DOMAIN a.projects \ {p}
    BY <1>6, <1>7, TailElements
  <1> DEFINE left == IF u = <<>> THEN DOMAIN a.projects \ {p} ELSE DOMAIN a.projects
  <1>11. rotation \in Seq(Projects) /\ IsInjective(rotation) /\ ToSet(rotation) = left
    <2>1. CASE u = <<>>
      BY <1>5, <1>8, <1>10, <2>1
    <2>2. CASE u # <<>>
      <3>1. rotation = Append(t, p)
        BY <1>5, <1>8, <1>10, <2>2
      <3>2. Append(t, p) \in Seq(Projects) /\ ToSet(Append(t, p)) = ToSet(t) \cup {p}
        BY <1>2, AppendToSet
      <3>3. IsInjective(Append(t, p))
        BY <1>2, <1>10, InjectiveAppend
      <3> QED
        BY <1>2, <1>10, <2>2, <3>1, <3>2, <3>3
    <2> QED
      BY <2>1, <2>2
  <1>12. /\ DOMAIN projects = left /\ projects \in [left -> Seq(Workflows)]
         /\ p \in left => projects[p] = u /\ u # <<>>
         /\ \A x \in left \ {p} : projects[x] = a.projects[x]
    <2>1. CASE u = <<>>
      BY <1>8, <2>1 DEF Agree, Maps, Drop, Restrict
    <2>2. CASE u # <<>>
      BY <1>2, <1>8, <2>2 DEF Agree, Maps
    <2> QED
      BY <2>1, <2>2
  <1>13. /\ DOMAIN waiting = a.queued \ {w}
         /\ waiting \in [a.queued \ {w} -> 0..Lease]
    BY <1>2 DEF Agree, Maps, Drop, Restrict
  <1>14. /\ DOMAIN active = DOMAIN a.active \cup {w}
         /\ active \in [DOMAIN a.active \cup {w} -> 0..Lease]
    BY AdmissionAssumption DEF Agree, Maps, Put
  <1> HIDE DEF r, active, waiting, projects, rotation, queue, left, p
  <1>15. /\ Fields(r) /\ r.active = active /\ r.waiting = waiting /\ r.projects = projects
         /\ r.rotation = rotation /\ r.queued = a.queued \ {w}
    BY <1>1 DEF Fields
  <1>16. left \subseteq DOMAIN a.projects
    BY DEF left
  <1>17. Maps(r)
    BY <1>2, <1>11, <1>12, <1>13, <1>14, <1>15, <1>16 DEF Agree, Maps
  <1>18. Queues(r)
    <2>1. ASSUME NEW x \in left
          PROVE  /\ projects[x] # <<>> /\ IsInjective(projects[x])
                 /\ \A v \in ToSet(projects[x]) : ProjectOf[v] = x
      <3>1. CASE x = p
        <4>1. projects[x] = u /\ u # <<>>
          BY <1>12, <3>1
        <4>2. ToSet(u) \subseteq ToSet(q)
          BY <1>9
        <4> QED
          BY <1>4, <1>9, <3>1, <4>1, <4>2
      <3>2. CASE x # p
        BY <1>12, <1>16, <3>2 DEF Agree, Queues
      <3> QED
        BY <3>1, <3>2
    <2>2. ASSUME NEW v \in a.queued \ {w}
          PROVE  ProjectOf[v] \in left /\ v \in ToSet(projects[ProjectOf[v]])
      <3>1. ProjectOf[v] \in DOMAIN a.projects /\ v \in ToSet(a.projects[ProjectOf[v]])
        BY DEF Agree, Queues
      <3>2. CASE ProjectOf[v] = p
        <4>1. v \in ToSet(u)
          BY <1>3, <1>9, <3>1, <3>2
        <4>2. u # <<>>
          BY <4>1 DEF ToSet
        <4> QED
          BY <1>2, <1>12, <3>2, <4>1, <4>2 DEF left
      <3>3. CASE ProjectOf[v] # p
        BY <1>12, <3>1, <3>3 DEF left
      <3> QED
        BY <3>2, <3>3
    <2> QED
      BY <1>11, <1>12, <1>15, <2>1, <2>2 DEF Queues
  <1>19. ASSUME NEW x \in left, NEW i \in DOMAIN projects[x], projects[x][i] \notin a.queued \ {w}
         PROVE  x = p /\ i = 1 /\ ~checked
    <2>1. projects[x][i] \in ToSet(projects[x])
      BY DEF ToSet
    <2>2. CASE x # p
      <3>1. projects[x] = a.projects[x] /\ x \in DOMAIN a.projects
        BY <1>12, <1>16, <2>2
      <3>2. projects[x][i] \in a.queued /\ ProjectOf[projects[x][i]] = x
        BY <2>1, <3>1 DEF Agree, Queues, NoGhosts
      <3> QED
        BY <1>19, <2>2, <3>2 DEF p
    <2>3. CASE x = p
      <3>1. projects[x] = u
        BY <1>12, <2>3
      <3>2. u[i] \in ToSet(q) /\ u[i] \in a.queued
        BY <1>4, <1>9, <2>1, <3>1
      <3>3. u[i] = w
        BY <1>19, <3>1, <3>2
      <3>4. ~checked /\ u = q
        BY <1>9, <2>1, <3>1, <3>3
      <3>5. i = 1
        BY <1>4, <3>1, <3>3, <3>4 DEF IsInjective
      <3> QED
        BY <2>3, <3>4, <3>5
    <2> QED
      BY <2>2, <2>3
  <1>20. Ghosts(r)
    <2>1. \A x \in left : 1 \in DOMAIN projects[x]
      BY <1>12, <1>15, <1>18 DEF Queues
    <2> QED
      BY <1>12, <1>15, <1>19, <2>1 DEF Ghosts
  <1>21. Slots(r)
    <2>1. w \notin DOMAIN a.active
      BY DEF Agree, Slots
    <2>2. /\ IsFiniteSet(DOMAIN a.active \cup {w})
          /\ Cardinality(DOMAIN a.active \cup {w}) = Cardinality(DOMAIN a.active) + 1
      BY <2>1, FS_AddElement DEF Agree, Slots
    <2>3. Cardinality(DOMAIN a.active) \in Nat /\ ~(Cardinality(DOMAIN a.active) >= MaxActive)
      BY FS_CardinalityType DEF Agree, Slots, concurrency_limit
    <2>4. Cardinality(DOMAIN a.active \cup {w}) <= MaxActive
      BY <2>2, <2>3, AdmissionAssumption
    <2> QED
      BY <1>14, <1>15, <2>1, <2>2, <2>4 DEF Agree, Slots
  <1> QED
    BY <1>15, <1>17, <1>18, <1>20, <1>21 DEF Agree, r

(* What is left of leases and of places in the queue.                      *)
Left(f) == [w \in DOMAIN f |-> IF f[w] = 0 THEN 0 ELSE f[w] - 1]

(* Time passes for the leases and the places in the queue alike.           *)
LEMMA TickAgrees ==
  ASSUME NEW a, Agree(a)
  PROVE  Agree([a EXCEPT !.active = Left(@), !.waiting = Left(@)])
  <1> DEFINE r == [a EXCEPT !.active = Left(@), !.waiting = Left(@)]
  <1>1. Fields(a)
    BY DEF Agree
  <1> DEFINE active == Left(a.active)
             waiting == Left(a.waiting)
  <1>2. r = [active |-> active, waiting |-> waiting,
             projects |-> a.projects, rotation |-> a.rotation, queued |-> a.queued]
    <2>1. r = [a EXCEPT !.active = active, !.waiting = waiting]
      BY <1>1 DEF Fields
    <2> HIDE DEF active, waiting, r
    <2> QED
      BY <1>1, <2>1 DEF Fields
  <1>3. /\ DOMAIN Left(a.active) = DOMAIN a.active
        /\ Left(a.active) \in [DOMAIN a.active -> 0..Lease]
    BY AdmissionAssumption DEF Agree, Maps, Left
  <1>4. /\ DOMAIN Left(a.waiting) = DOMAIN a.waiting
        /\ Left(a.waiting) \in [DOMAIN a.waiting -> 0..Lease]
    BY AdmissionAssumption DEF Agree, Maps, Left
  <1> HIDE DEF r
  <1>5. /\ Fields(r) /\ r.active = Left(a.active) /\ r.waiting = Left(a.waiting)
        /\ r.projects = a.projects /\ r.rotation = a.rotation /\ r.queued = a.queued
    BY <1>2 DEF Fields
  <1>6. Maps(r)
    BY <1>3, <1>4, <1>5 DEF Agree, Maps
  <1>7. Queues(r) /\ Ghosts(r) /\ Slots(r)
    BY <1>3, <1>5 DEF Agree, Queues, Ghosts, Slots
  <1> QED
    BY <1>5, <1>6, <1>7 DEF Agree, r

(* A lease is renewed.                                                     *)
LEMMA RenewAgrees ==
  ASSUME NEW a, Agree(a), NEW w \in DOMAIN a.active
  PROVE  Agree([a EXCEPT !.active[w] = Lease])
  <1> DEFINE active == [a.active EXCEPT ![w] = Lease]
             r == [a EXCEPT !.active[w] = Lease]
  <1>1. Fields(a)
    BY DEF Agree
  <1>2. r = [active |-> active, waiting |-> a.waiting,
             projects |-> a.projects, rotation |-> a.rotation, queued |-> a.queued]
    BY <1>1 DEF Fields
  <1>3. DOMAIN active = DOMAIN a.active /\ active \in [DOMAIN a.active -> 0..Lease]
    BY AdmissionAssumption DEF Agree, Maps
  <1> HIDE DEF r, active
  <1>4. /\ Fields(r) /\ r.active = active /\ r.waiting = a.waiting
        /\ r.projects = a.projects /\ r.rotation = a.rotation /\ r.queued = a.queued
    BY <1>2 DEF Fields
  <1>5. Maps(r)
    BY <1>3, <1>4 DEF Agree, Maps
  <1>6. Queues(r) /\ Ghosts(r) /\ Slots(r)
    BY <1>3, <1>4 DEF Agree, Queues, Ghosts, Slots
  <1> QED
    BY <1>4, <1>5, <1>6 DEF Agree, r

-----------------------------------------------------------------------------
(* The build does not change while the daemon runs.                        *)
LEMMA AgreePrimed ==
  ASSUME checked' = checked, Agree(adm')
  PROVE  Agree(adm)'
  BY DEF Agree, Fields, Maps, Queues, Ghosts, Slots

(* Nothing is admitted at first.                                           *)
LEMMA InitIInv == Init => IInv /\ checked \in BOOLEAN
  <1> SUFFICES ASSUME Init PROVE IInv /\ checked \in BOOLEAN
    OBVIOUS
  <1>1. Agree(adm)
    BY NewAgrees DEF Init
  <1>2. ControllerOK
    <2>1. controller = [admitted |-> FALSE, pressured |-> FALSE, recovery |-> FALSE]
      BY DEF Init, newController
    <2> QED
      BY <2>1 DEF ControllerOK
  <1>3. checked \in BOOLEAN
    BY DEF Init
  <1> QED
    BY <1>1, <1>2, <1>3 DEF IInv

(* The controller keeps its type.                                          *)
LEMMA EvaluateTyped ==
  ASSUME NEW c \in [admitted : BOOLEAN, pressured : BOOLEAN, recovery : BOOLEAN],
         NEW sample \in Samples
  PROVE  /\ evaluate(c, sample).controller
               \in [admitted : BOOLEAN, pressured : BOOLEAN, recovery : BOOLEAN]
         /\ begin_tick(c) \in [admitted : BOOLEAN, pressured : BOOLEAN, recovery : BOOLEAN]
  <1>1. evaluate(c, sample).controller \in {c, [c EXCEPT !.pressured = TRUE], [c EXCEPT !.admitted = TRUE]}
    BY DEF evaluate, Samples
  <1>2. /\ [c EXCEPT !.pressured = TRUE] \in [admitted : BOOLEAN, pressured : BOOLEAN, recovery : BOOLEAN]
        /\ [c EXCEPT !.admitted = TRUE] \in [admitted : BOOLEAN, pressured : BOOLEAN, recovery : BOOLEAN]
    OBVIOUS
  <1>3. begin_tick(c) \in [admitted : BOOLEAN, pressured : BOOLEAN, recovery : BOOLEAN]
    BY DEF begin_tick
  <1> QED
    BY <1>1, <1>2, <1>3

(* An acquisition, in each of its outcomes.                                *)
LEMMA AcquireIInv ==
  ASSUME IInv, checked \in BOOLEAN, NEW w \in Workflows, Acquire(w)
  PROVE  Agree(adm') /\ ControllerOK' /\ checked' = checked
  <1> DEFINE reaped == reap(adm)
             queued == enqueue(reaped, w)
             ticked == IF tickDue THEN begin_tick(controller) ELSE controller
  <1>1. Agree(reaped) /\ NoGhosts(reaped)
    BY ReapAgrees DEF IInv
  <1>2. checked' = checked
    BY DEF Acquire, Answered
  <1>3. CASE /\ w \in DOMAIN reaped.active
             /\ adm' = [reaped EXCEPT !.active[w] = Lease]
             /\ UNCHANGED controller
    <2> HIDE DEF reaped
    <2>1. Agree(adm')
      BY <1>1, <1>3, RenewAgrees
    <2> QED
      BY <1>2, <1>3, <2>1 DEF IInv, ControllerOK
  <1>4. CASE /\ w \notin DOMAIN reaped.active
             /\ adm' = queued /\ UNCHANGED controller
    <2> HIDE DEF reaped
    <2>1. Agree(adm')
      BY <1>1, <1>4, EnqueueAgrees
    <2> QED
      BY <1>2, <1>4, <2>1 DEF IInv, ControllerOK
  <1>5. ASSUME w \notin DOMAIN reaped.active,
               ~concurrency_limit(queued), ~fair_queue(queued, w),
               NEW sample \in Samples,
               controller' = evaluate(ticked, sample).controller,
               adm' = IF evaluate(ticked, sample).decision = "admit"
                      THEN [dequeue_front(queued, w) EXCEPT !.active = Put(@, w, Lease)]
                      ELSE queued
        PROVE  Agree(adm') /\ ControllerOK'
    <2>1. Agree(queued) /\ NoGhosts(queued) /\ w \in queued.queued
      <3> HIDE DEF reaped
      <3> QED
        BY <1>1, <1>5, EnqueueAgrees
    <2> HIDE DEF queued
    <2>2. Agree([dequeue_front(queued, w) EXCEPT !.active = Put(@, w, Lease)])
      BY <1>5, <2>1, DequeueAgrees
    <2>3. Agree(adm')
      BY <1>5, <2>1, <2>2
    <2>4. ticked \in [admitted : BOOLEAN, pressured : BOOLEAN, recovery : BOOLEAN]
      BY EvaluateTyped DEF IInv, ControllerOK, Samples
    <2> HIDE DEF ticked
    <2>5. ControllerOK'
      BY <1>5, <2>4, EvaluateTyped DEF ControllerOK
    <2> QED
      BY <2>3, <2>5
  <1> HIDE DEF reaped, queued, ticked
  <1> QED
    BY <1>2, <1>3, <1>4, <1>5 DEF Acquire, reaped, queued, ticked

(* Every handler preserves the invariant.                                  *)
LEMMA NextIInv ==
  ASSUME IInv, checked \in BOOLEAN, [Next]_vars
  PROVE  IInv' /\ checked' \in BOOLEAN
  <1>1. SUFFICES Agree(adm') /\ ControllerOK' /\ checked' = checked
    BY AgreePrimed DEF IInv
  <1>2. Agree(adm) /\ ControllerOK
    BY DEF IInv
  <1>3. ASSUME NEW w \in Workflows, Acquire(w)
        PROVE  Agree(adm') /\ ControllerOK' /\ checked' = checked
    BY <1>3, AcquireIInv
  <1>4. ASSUME NEW w \in Workflows, Refuse(w) \/ ReleaseCancelled(w)
        PROVE  Agree(adm') /\ ControllerOK' /\ checked' = checked
    <2>1. adm' = remove(adm, {w}) /\ controller' = controller /\ checked' = checked
      BY <1>4 DEF Refuse, ReleaseCancelled
    <2>2. Agree(remove(adm, {w}))
      BY <1>2, RemoveAgrees
    <2> QED
      BY <1>2, <2>1, <2>2 DEF ControllerOK
  <1>5. ASSUME NEW w \in Workflows, Release(w)
        PROVE  Agree(adm') /\ ControllerOK' /\ checked' = checked
    <2>1. adm' = remove(reap(adm), {w}) /\ controller' = controller /\ checked' = checked
      BY <1>5 DEF Release
    <2>2. Agree(reap(adm))
      BY <1>2, ReapAgrees
    <2>3. Agree(remove(reap(adm), {w}))
      BY <2>2, RemoveAgrees
    <2> QED
      BY <1>2, <2>1, <2>3 DEF ControllerOK
  <1>6. ASSUME NEW w \in Workflows,
               Ask(w) \/ Want(w) \/ Finish(w) \/ Depart(w) \/ Control(w)
        PROVE  adm' = adm /\ controller' = controller /\ checked' = checked
    BY <1>6 DEF Ask, Want, Finish, Depart, Control, daemon
  <1>7. CASE Tick
    <2>1. /\ adm' = [adm EXCEPT !.active = Left(@), !.waiting = Left(@)]
          /\ controller' = controller /\ checked' = checked
      BY <1>7 DEF Tick, Left
    <2> QED
      BY <1>2, <2>1, TickAgrees DEF ControllerOK
  <1>8. CASE Restart
    <2>1. /\ adm' = new /\ checked' = checked
          /\ controller' = [admitted |-> FALSE, pressured |-> FALSE, recovery |-> FALSE]
      BY <1>8 DEF Restart, newController
    <2> QED
      BY <2>1, NewAgrees DEF ControllerOK
  <1>9. CASE UNCHANGED vars
    BY <1>2, <1>9 DEF vars, daemon, ControllerOK
  <1>10. CASE adm' = adm /\ controller' = controller /\ checked' = checked
    BY <1>2, <1>10 DEF ControllerOK
  <1> QED
    BY <1>3, <1>4, <1>5, <1>6, <1>7, <1>8, <1>9, <1>10 DEF Next, Answer

-----------------------------------------------------------------------------
(* Every reachable state satisfies the invariant.                          *)
THEOREM Invariance == Spec => []IInv
  <1>1. Init => IInv /\ checked \in BOOLEAN
    BY InitIInv
  <1>2. (IInv /\ checked \in BOOLEAN) /\ [Next]_vars => (IInv /\ checked \in BOOLEAN)'
    BY NextIInv
  <1> QED
    BY <1>1, <1>2, PTL DEF Spec

(* The maps have their types and no more slots are taken than there are.   *)
THEOREM TypeCorrect == Spec => []TypeOK
  <1>1. IInv => TypeOK
    <2> SUFFICES ASSUME IInv PROVE TypeOK
      OBVIOUS
    <2>1. ToSet(adm.rotation) \subseteq Projects
      BY DEF IInv, Agree, Maps, ToSet
    <2> QED
      BY <2>1 DEF IInv, Agree, Maps, Slots, ControllerOK, TypeOK
  <1> QED
    BY <1>1, Invariance, PTL

(* The queues, the rotation and the other maps agree in both builds.       *)
THEOREM QueuesAlwaysAgree == Spec => []QueuesAgree
  <1>1. IInv => QueuesAgree
    <2> SUFFICES ASSUME IInv PROVE QueuesAgree
      OBVIOUS
    <2> DEFINE entries == [p \in DOMAIN adm.projects |-> ToSet(adm.projects[p])]
               ghosts == (UNION {entries[p] : p \in DOMAIN entries}) \ DOMAIN adm.waiting
    <2>1. \A p \in DOMAIN entries : Cardinality(entries[p]) = Len(adm.projects[p])
      BY InjectiveSize DEF IInv, Agree, Maps, Queues
    <2>2. Len(adm.rotation) = Cardinality(DOMAIN entries)
      BY InjectiveSize DEF IInv, Agree, Maps, Queues
    <2>3. ASSUME NEW w \in ghosts
          PROVE  /\ ProjectOf[w] \in DOMAIN adm.projects /\ ~checked
                 /\ adm.projects[ProjectOf[w]][1] = w /\ w \notin adm.queued
                 /\ Head(adm.projects[ProjectOf[w]]) = w
      <3>1. PICK p \in DOMAIN adm.projects : w \in ToSet(adm.projects[p])
        OBVIOUS
      <3>2. PICK i \in DOMAIN adm.projects[p] : adm.projects[p][i] = w
        BY <3>1 DEF ToSet
      <3>3. w \notin adm.queued
        <4>1. w \notin DOMAIN adm.waiting
          OBVIOUS
        <4> HIDE DEF ghosts, entries
        <4> QED
          BY <4>1 DEF IInv, Agree, Maps
      <3>4. i = 1 /\ ~checked
        BY <3>2, <3>3 DEF IInv, Agree, Ghosts
      <3>5. ProjectOf[w] = p
        BY <3>1 DEF IInv, Agree, Queues
      <3>6. Head(adm.projects[p]) = adm.projects[p][1]
        BY DEF IInv, Agree, Maps, Queues
      <3> QED
        BY <3>2, <3>3, <3>4, <3>5, <3>6
    <2>4. Cardinality(ghosts) <= 1
      <3>1. ASSUME NEW v \in ghosts, NEW w \in ghosts PROVE v = w
        <4>1. ProjectOf[v] = ProjectOf[w]
          BY <2>3 DEF IInv, Agree, Ghosts
        <4> QED
          BY <2>3, <4>1
      <3> HIDE DEF ghosts
      <3>2. ghosts = {} \/ \E w \in ghosts : ghosts = {w}
        BY <3>1
      <3>3. Cardinality({}) = 0 /\ \A w : Cardinality({w}) = 1
        BY FS_EmptySet, FS_Singleton
      <3> QED
        BY <3>2, <3>3
    <2>5. checked => ghosts = {}
      BY <2>3
    <2>6. /\ DOMAIN adm.waiting = adm.queued
          /\ DOMAIN adm.waiting \cap DOMAIN adm.active = {}
      BY DEF IInv, Agree, Maps, Slots
    <2>7. \A w \in DOMAIN adm.waiting : ProjectOf[w] \in DOMAIN entries /\ w \in entries[ProjectOf[w]]
      BY <2>6 DEF IInv, Agree, Queues
    <2>8. ToSet(adm.rotation) = DOMAIN entries
      BY DEF IInv, Agree, Queues
    <2> QED
      BY <2>1, <2>2, <2>3, <2>4, <2>5, <2>6, <2>7, <2>8 DEF QueuesAgree
  <1> QED
    BY <1>1, Invariance, PTL
=============================================================================
