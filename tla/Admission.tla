----------------------------- MODULE Admission ------------------------------
(***************************************************************************)
(* Admission of workflows to the slots of the daemon: RuntimeAdmission     *)
(* (admission.rs), its resource controller (resources/policy.rs) and the   *)
(* handlers of lifecycle.rs that use them.                                 *)
(*                                                                         *)
(* A request reads the state of its workflow under the store's mutex, then *)
(* takes the mutex of the admission: what it read may be stale by then.    *)
(* Time is what is left of each lease, in ticks of a second; a client that *)
(* is alive asks once in every tick.                                       *)
(***************************************************************************)
EXTENDS Integers, FiniteSets, Functions, SequencesExt, Lists

CONSTANTS
  Workflows, Projects,
  ProjectOf,       \* project of each workflow's durable request
  Stoppable,       \* workflows that are paused, cancelled or completed
  MaxActive,       \* maximum_active
  Lease,           \* LEASE_MILLIS, in ticks
  MaxMishaps       \* short samples, sessions that disappear and restarts

ASSUME AdmissionAssumption ==
  /\ ProjectOf \in [Workflows -> Projects] /\ Stoppable \subseteq Workflows
  /\ MaxActive \in Nat \ {0} /\ Lease \in Nat \ {0}
  /\ MaxMishaps \in Nat

VARIABLES
  adm,         \* active, waiting: ticks left; projects; rotation; queued
  controller,  \* AdmissionController
  tickDue,     \* a second has passed since last_tick
  checked,     \* debug assertions are compiled in
  state,       \* stored state of each workflow
  client,      \* what the session of each workflow is doing
  asked,       \* sessions that asked in this tick
  request,     \* requests between the two mutexes
  releasing,   \* cancelled workflows whose release is still to come
  mishaps

daemon == <<adm, controller, tickDue>>
vars   == <<daemon, checked, state, client, asked, request, releasing, mishaps>>

(* What goes wrong stops going wrong: nobody starves only if it does.      *)
Mishap == mishaps < MaxMishaps /\ mishaps' = mishaps + 1

EmptyFun == [x \in {} |-> 0]

new == [active |-> EmptyFun, waiting |-> EmptyFun, projects |-> EmptyFun,
        rotation |-> <<>>, queued |-> {}]

newController == [admitted |-> FALSE, pressured |-> FALSE, recovery |-> FALSE]

Init ==
  /\ adm = new /\ controller = newController /\ tickDue = TRUE
  /\ checked \in BOOLEAN
  /\ state = [w \in Workflows |-> "runnable"]
  /\ client = [w \in Workflows |-> "away"]
  /\ asked = {} /\ releasing = {}
  /\ request = [w \in Workflows |-> "none"]
  /\ mishaps = 0

-----------------------------------------------------------------------------
(* RuntimeAdmission.                                                       *)

Put(f, x, value) == [y \in DOMAIN f \cup {x} |-> IF y = x THEN value ELSE f[y]]
Drop(f, x)       == Restrict(f, DOMAIN f \ {x})

(* remove, of each of several workflows: one that waits leaves its queue,  *)
(* and an emptied queue takes its project with it.                         *)
remove(a, gone) ==
  LET unqueued == gone \cap a.queued
      kept == [p \in DOMAIN a.projects |->
                Keep(a.projects[p], Workflows \ {w \in unqueued : ProjectOf[w] = p})]
      emptied == {p \in DOMAIN kept : kept[p] = <<>> /\ \E w \in unqueued : ProjectOf[w] = p}
  IN [a EXCEPT !.active = Restrict(@, DOMAIN @ \ gone),
               !.waiting = Restrict(@, DOMAIN @ \ unqueued),
               !.queued = @ \ unqueued,
               !.projects = Restrict(kept, DOMAIN kept \ emptied),
               !.rotation = Keep(@, Projects \ emptied)]

(* Mutant: nothing is repaired.                                            *)
repair_queue_invariants_none(a) == a

(* Queues keep what is waiting; the other maps and the rotation follow the *)
(* queues: of the rotation the first place of each project, and at its end *)
(* the projects it lacks.                                                  *)
repair_queue_invariants(a) ==
  LET kept == [p \in DOMAIN a.projects |->
                Keep(a.projects[p], {w \in DOMAIN a.waiting \cap a.queued : ProjectOf[w] = p})]
      projects == Restrict(kept, {p \in DOMAIN kept : kept[p] # <<>>})
      queued == UNION {ToSet(projects[p]) : p \in DOMAIN projects}
      places == Keep([i \in DOMAIN a.rotation |-> i],
                     {i \in DOMAIN a.rotation :
                        /\ a.rotation[i] \in DOMAIN projects
                        /\ \A j \in 1..(i - 1) : a.rotation[j] # a.rotation[i]})
      rotation == [k \in DOMAIN places |-> a.rotation[places[k]]]
  IN [a EXCEPT !.projects = projects,
               !.waiting = Restrict(@, DOMAIN @ \cap queued),
               !.queued = @ \cap queued,
               !.rotation = rotation \o SetToSeq(DOMAIN projects \ ToSet(rotation))]

live(a)      == [a EXCEPT !.active = Restrict(@, {w \in DOMAIN @ : a.active[w] > 0})]
abandoned(a) == {w \in DOMAIN a.waiting : a.waiting[w] = 0}

(* Mutant: places in the queue never expire.                               *)
reap_active(a) == repair_queue_invariants(live(a))

(* Mutant: leases never expire.                                            *)
reap_waiting(a) == repair_queue_invariants(remove(a, abandoned(a)))

(* Leases and places in the queue that were not renewed are given up.      *)
reap(a) == repair_queue_invariants(remove(live(a), abandoned(a)))

enqueue(a, w) ==
  LET p == ProjectOf[w]
  IN IF w \in DOMAIN a.waiting THEN [a EXCEPT !.waiting[w] = Lease]
     ELSE [a EXCEPT !.waiting = Put(@, w, Lease),
                    !.queued = @ \cup {w},
                    !.projects = Put(@, p, Append(IF p \in DOMAIN @ THEN @[p] ELSE <<>>, w)),
                    !.rotation = IF p \in DOMAIN a.projects THEN @ ELSE Append(@, p)]

(* The front of the queue is popped inside debug_assert_eq!: a build       *)
(* without debug assertions leaves it there.                               *)
dequeue_front(a, w) ==
  LET p == ProjectOf[w]
      queue == IF checked THEN Tail(a.projects[p]) ELSE a.projects[p]
      left == [a EXCEPT !.waiting = Drop(@, w), !.queued = @ \ {w}]
  IN IF queue = <<>> THEN [left EXCEPT !.projects = Drop(@, p), !.rotation = Tail(@)]
     ELSE [left EXCEPT !.projects[p] = queue, !.rotation = Append(Tail(@), p)]

(* Mutant: the limit is compared one too late.                             *)
concurrency_limit_late(a) == Cardinality(DOMAIN a.active) > MaxActive

concurrency_limit(a) == Cardinality(DOMAIN a.active) >= MaxActive

fair_queue(a, w) ==
  \/ Head(a.rotation) # ProjectOf[w]
  \/ Head(a.projects[ProjectOf[w]]) # w

-----------------------------------------------------------------------------
(* AdmissionController.  One admission in a tick that follows pressure.    *)

begin_tick(c) == [admitted |-> FALSE, pressured |-> FALSE, recovery |-> c.pressured]

(* What the machine may report: enough of everything, a resource that is   *)
(* short, or nothing.                                                      *)
Samples == {"ample", "pressure", "unavailable"}

evaluate(c, sample) ==
  CASE sample = "unavailable" -> [decision |-> "defer", controller |-> c]
    [] sample = "pressure"    ->
         [decision |-> "defer", controller |-> [c EXCEPT !.pressured = TRUE]]
    [] sample = "ample" /\ c.recovery /\ c.admitted ->
         [decision |-> "defer", controller |-> c]
    [] OTHER -> [decision |-> "admit", controller |-> [c EXCEPT !.admitted = TRUE]]

-----------------------------------------------------------------------------
(* Requests of the sessions.                                               *)

admission_allowed(w) == state[w] = "runnable"

(* The first half of the handler: the state is read.                       *)
Ask(w) ==
  /\ client[w] # "away" /\ w \notin asked /\ request[w] = "none"
  /\ asked' = asked \cup {w}
  /\ request' = [request EXCEPT ![w] = IF admission_allowed(w) THEN "acquire" ELSE "refused"]
  /\ UNCHANGED <<daemon, checked, state, client, releasing, mishaps>>

Answered(w, admitted) ==
  /\ request' = [request EXCEPT ![w] = "none"]
  /\ client' = [client EXCEPT ![w] = IF @ = "away" THEN @
                                     ELSE IF admitted THEN "working" ELSE "wanting"]
  /\ UNCHANGED <<checked, state, asked, releasing>>

(* execute on an acquisition: renewed; queued behind others; deferred for  *)
(* want of resources; admitted.                                            *)
Acquire(w) ==
  /\ request[w] = "acquire"
  /\ LET reaped == reap(adm)
         queued == enqueue(reaped, w)
         ticked == IF tickDue THEN begin_tick(controller) ELSE controller
     IN \/ /\ w \in DOMAIN reaped.active
           /\ adm' = [reaped EXCEPT !.active[w] = Lease]
           /\ Answered(w, TRUE)
           /\ UNCHANGED <<controller, tickDue, mishaps>>
        \/ /\ w \notin DOMAIN reaped.active
           /\ concurrency_limit(queued) \/ fair_queue(queued, w)
           /\ adm' = queued
           /\ Answered(w, FALSE)
           /\ UNCHANGED <<controller, tickDue, mishaps>>
        \/ /\ w \notin DOMAIN reaped.active
           /\ ~concurrency_limit(queued) /\ ~fair_queue(queued, w)
           /\ tickDue' = FALSE
           /\ \E sample \in Samples :
                LET result == evaluate(ticked, sample)
                    admitted == result.decision = "admit"
                IN /\ IF sample = "ample" THEN UNCHANGED mishaps ELSE Mishap
                   /\ controller' = result.controller
                   /\ adm' = IF admitted
                             THEN [dequeue_front(queued, w) EXCEPT !.active = Put(@, w, Lease)]
                             ELSE queued
                   /\ Answered(w, admitted)

(* A workflow that may not run gives up its slot, and the session an error.*)
Refuse(w) ==
  /\ request[w] = "refused"
  /\ adm' = remove(adm, {w})
  /\ request' = [request EXCEPT ![w] = "none"]
  /\ client' = [client EXCEPT ![w] = "away"]
  /\ UNCHANGED <<controller, tickDue, checked, state, asked, releasing, mishaps>>

(* execute on a release, which is accepted in every state.                 *)
Release(w) ==
  /\ request[w] = "release"
  /\ adm' = remove(reap(adm), {w})
  /\ request' = [request EXCEPT ![w] = "none"]
  /\ UNCHANGED <<controller, tickDue, checked, state, client, asked, releasing, mishaps>>

-----------------------------------------------------------------------------
(* Sessions and users.                                                     *)

Want(w) ==
  /\ client[w] = "away" /\ state[w] = "runnable" /\ request[w] = "none"
  /\ client' = [client EXCEPT ![w] = "wanting"]
  /\ UNCHANGED <<daemon, checked, state, asked, request, releasing, mishaps>>

Finish(w) ==
  /\ client[w] = "working" /\ request[w] = "none"
  /\ client' = [client EXCEPT ![w] = "away"]
  /\ request' = [request EXCEPT ![w] = "release"]
  /\ UNCHANGED <<daemon, checked, state, asked, releasing, mishaps>>

Depart(w) ==
  /\ client[w] # "away"
  /\ Mishap
  /\ client' = [client EXCEPT ![w] = "away"]
  /\ UNCHANGED <<daemon, checked, state, asked, request, releasing>>

(* Pauses, blocks and their ends, and completions, leave the admission     *)
(* alone; a cancellation releases the slot afterwards.                     *)
Control(w) ==
  /\ w \in Stoppable
  /\ \/ /\ state[w] = "runnable"
        /\ state' = [state EXCEPT ![w] = "suspended"] /\ UNCHANGED releasing
     \/ /\ state[w] = "suspended"
        /\ state' = [state EXCEPT ![w] = "runnable"] /\ UNCHANGED releasing
     \/ /\ state[w] = "runnable"
        /\ state' = [state EXCEPT ![w] = "ended"] /\ UNCHANGED releasing
     \/ /\ state[w] # "ended"
        /\ state' = [state EXCEPT ![w] = "ended"] /\ releasing' = releasing \cup {w}
  /\ UNCHANGED <<daemon, checked, client, asked, request, mishaps>>

ReleaseCancelled(w) ==
  /\ w \in releasing
  /\ releasing' = releasing \ {w}
  /\ adm' = remove(adm, {w})
  /\ UNCHANGED <<controller, tickDue, checked, state, client, asked, request, mishaps>>

Tick ==
  /\ \A w \in Workflows : request[w] = "none" /\ (client[w] # "away" => w \in asked)
  /\ asked' = {} /\ tickDue' = TRUE
  /\ LET Left(f) == [w \in DOMAIN f |-> IF f[w] = 0 THEN 0 ELSE f[w] - 1]
     IN adm' = [adm EXCEPT !.active = Left(@), !.waiting = Left(@)]
  /\ UNCHANGED <<controller, checked, state, client, request, releasing, mishaps>>

(* The admission lives in memory only.                                     *)
Restart ==
  /\ Mishap
  /\ adm' = new /\ controller' = newController /\ tickDue' = TRUE
  /\ request' = [w \in Workflows |-> "none"] /\ releasing' = {}
  /\ UNCHANGED <<checked, state, client, asked>>

Answer(w) == Acquire(w) \/ Refuse(w) \/ Release(w)

Next ==
  \/ \E w \in Workflows :
       \/ Ask(w) \/ Answer(w)
       \/ Want(w) \/ Finish(w) \/ Depart(w) \/ Control(w) \/ ReleaseCancelled(w)
  \/ Tick \/ Restart

(* Requests are answered (an answer is possible just while the request is  *)
(* out, and ends it), time passes, sessions that are alive ask again, and  *)
(* nobody works for ever.                                                  *)
Fairness ==
  /\ WF_vars(Tick)
  /\ \A w \in Workflows :
       /\ []<>(request[w] = "none") /\ []<>(w \notin releasing)
       /\ WF_vars(Ask(w))
       /\ SF_vars(Finish(w))

Spec == Init /\ [][Next]_vars /\ Fairness

-----------------------------------------------------------------------------
(* Types; no more slots are taken than there are.                          *)
TypeOK ==
  /\ DOMAIN adm.active \subseteq Workflows /\ DOMAIN adm.waiting \subseteq Workflows
  /\ \A w \in DOMAIN adm.active : adm.active[w] \in 0..Lease
  /\ \A w \in DOMAIN adm.waiting : adm.waiting[w] \in 0..Lease
  /\ Cardinality(DOMAIN adm.active) <= MaxActive
  /\ ToSet(adm.rotation) \subseteq Projects /\ adm.queued \subseteq Workflows
  /\ controller \in [admitted : BOOLEAN, pressured : BOOLEAN, recovery : BOOLEAN]

(* The four maps agree in both builds: a workflow waits in one place of    *)
(* the queue of its project and is not active, the rotation has each       *)
(* project with a queue once.  What the build without debug assertions     *)
(* leaves behind is one admitted workflow at the front of a queue.         *)
QueuesAgree ==
  LET entries == [p \in DOMAIN adm.projects |-> ToSet(adm.projects[p])]
      ghosts == (UNION {entries[p] : p \in DOMAIN entries}) \ DOMAIN adm.waiting
  IN /\ DOMAIN adm.waiting = adm.queued
     /\ DOMAIN adm.waiting \cap DOMAIN adm.active = {}
     /\ \A w \in DOMAIN adm.waiting :
          ProjectOf[w] \in DOMAIN entries /\ w \in entries[ProjectOf[w]]
     /\ \A p \in DOMAIN entries : Cardinality(entries[p]) = Len(adm.projects[p])
     /\ ToSet(adm.rotation) = DOMAIN entries
     /\ Len(adm.rotation) = Cardinality(DOMAIN entries)
     /\ checked => ghosts = {}
     /\ Cardinality(ghosts) <= 1
     /\ \A w \in ghosts : Head(adm.projects[ProjectOf[w]]) = w

(* A workflow that may no longer run does not keep a slot, although its    *)
(* state was read before the slot was granted and a cancellation releases  *)
(* only once: it runs again, or the next request of anybody finds the slot *)
(* free.                                                                   *)
StoppedFreesSlot ==
  \A w \in Stoppable :
    state[w] # "runnable" ~> (state[w] = "runnable" \/ w \notin DOMAIN reap(adm).active)

(* Nobody starves: a session that keeps asking is admitted, unless its     *)
(* workflow is stopped or it disappears.                                   *)
NoStarvation == \A w \in Workflows : client[w] = "wanting" ~> client[w] # "wanting"
=============================================================================
