------------------------------- MODULE Leases -------------------------------
(***************************************************************************)
(* The lease of one task: Lease (workflow-core lease.rs) and its table     *)
(* (workflow-store leases.rs).  The rows of different tasks are            *)
(* independent.                                                            *)
(*                                                                         *)
(* A session reads the clock, then calls; each call is one transaction,    *)
(* which may run later.  A reply may be lost, a session may die, and a     *)
(* person may release a lease after reviewing what became of its work.     *)
(***************************************************************************)
EXTENDS Integers

CONSTANTS
  Workers,     \* sessions
  Duration,    \* duration_millis, greater than zero
  MaxClock,    \* largest time
  MaxLeases,   \* leases granted
  NoLease

VARIABLES
  clock,
  at,       \* the time each session read for its next call
  row,      \* leases: lease_id, lease_json and status
  held,     \* what each session was told about its lease
  granted,  \* leases granted so far; identifiers are fresh
  open      \* leases of non-idempotent work that nobody has closed

leaseVars == <<clock, at, row, held, granted, open>>

Safety == {"idempotent", "non_idempotent"}

Init ==
  /\ clock = 0 /\ at = [s \in Workers |-> 0]
  /\ row = NoLease /\ held = [s \in Workers |-> NoLease]
  /\ granted = 0 /\ open = {}

Tick == clock < MaxClock /\ clock' = clock + 1 /\ UNCHANGED <<at, row, held, granted, open>>

ReadClock(s) == at' = [at EXCEPT ![s] = clock] /\ UNCHANGED <<clock, row, held, granted, open>>

-----------------------------------------------------------------------------
(* Lease::reconcile.                                                       *)
reconcile(lease, now) ==
  IF now <= lease.expires THEN "active"
  ELSE IF lease.safety = "idempotent" THEN "replayable" ELSE "manual_review"

(* Lease::acquire and Lease::heartbeat; a time past the largest is refused.*)
Fits(now) == now + Duration <= MaxClock

acquire(now, safety) ==
  [id |-> granted + 1, expires |-> now + Duration, safety |-> safety, status |-> "active"]

heartbeat(lease, now) == [lease EXCEPT !.expires = now + Duration]

Told(s, lease) ==
  \/ held' = [held EXCEPT ![s] = [id |-> lease.id, expires |-> lease.expires]]
  \/ held' = held

(* acquire_lease: a row that needs review is marked and stays, one that is *)
(* active refuses, one that may be replayed is replaced.                   *)
AcquireLease(s, safety) ==
  /\ held[s] = NoLease
  /\ \/ /\ row # NoLease
        /\ row.status = "uncertain" \/ reconcile(row, at[s]) = "manual_review"
        /\ row' = [row EXCEPT !.status = "uncertain"]
        /\ UNCHANGED <<held, granted, open>>
     \/ /\ row # NoLease => row.status = "active" /\ reconcile(row, at[s]) = "replayable"
        /\ Fits(at[s]) /\ granted < MaxLeases
        /\ row' = acquire(at[s], safety)
        /\ granted' = granted + 1
        /\ open' = IF safety = "non_idempotent" THEN open \cup {row'.id} ELSE open
        /\ Told(s, row')
  /\ UNCHANGED <<clock, at>>

(* heartbeat_lease, of the lease the session was told about.               *)
HeartbeatLease(s) ==
  /\ held[s] # NoLease /\ row # NoLease
  /\ row.id = held[s].id /\ row.status = "active"
  /\ at[s] <= row.expires /\ Fits(at[s])
  /\ row' = heartbeat(row, at[s])
  /\ Told(s, row')
  /\ UNCHANGED <<clock, at, granted, open>>

(* Mutant: the row of the task is deleted, whichever lease it holds.       *)
release_lease_any(id) == row' = NoLease

release_lease(id) == row' = IF row # NoLease /\ row.id = id THEN NoLease ELSE row

(* A session is done with its work and releases, however late.             *)
ReleaseLease(s) ==
  /\ held[s] # NoLease
  /\ release_lease(held[s].id)
  /\ held' = [held EXCEPT ![s] = NoLease]
  /\ open' = open \ {held[s].id}
  /\ UNCHANGED <<clock, at, granted>>

(* Work marked for review is closed by a person, with the same call.       *)
Review ==
  /\ row # NoLease /\ row.status = "uncertain"
  /\ release_lease(row.id)
  /\ open' = open \ {row.id}
  /\ UNCHANGED <<clock, at, held, granted>>

(* A session dies and forgets its lease.                                   *)
Die(s) ==
  /\ held[s] # NoLease
  /\ held' = [held EXCEPT ![s] = NoLease]
  /\ UNCHANGED <<clock, at, row, granted, open>>

Next ==
  \/ Tick \/ Review
  \/ \E s \in Workers :
       \/ ReadClock(s) \/ HeartbeatLease(s) \/ ReleaseLease(s) \/ Die(s)
       \/ \E safety \in Safety : AcquireLease(s, safety)

Spec == Init /\ [][Next]_leaseVars

-----------------------------------------------------------------------------
(* Types.                                                                  *)
Row == [id : 1..MaxLeases, expires : 0..MaxClock, safety : Safety,
        status : {"active", "uncertain"}]

TypeOK ==
  /\ clock \in 0..MaxClock /\ at \in [Workers -> 0..MaxClock]
  /\ row \in Row \cup {NoLease}
  /\ held \in [Workers -> [id : 1..MaxLeases, expires : 0..MaxClock] \cup {NoLease}]
  /\ granted \in 0..MaxLeases /\ open \subseteq 1..granted

Believes(s) == held[s] # NoLease /\ clock <= held[s].expires

(* No two sessions believe at once that the task is theirs, although their *)
(* calls run on times read earlier and replies are lost; and work that may *)
(* not be repeated is not begun again while nobody has closed it: neither  *)
(* its expiry nor a late call of an earlier holder gives the task away.    *)
LeaseIsExclusive ==
  /\ \A s, u \in Workers : Believes(s) /\ Believes(u) => s = u
  /\ \A id \in open : row # NoLease /\ row.id = id
=============================================================================
