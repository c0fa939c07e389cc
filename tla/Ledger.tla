------------------------------- MODULE Ledger -------------------------------
(***************************************************************************)
(* The audit ledger: hash chain and signed checkpoints (workflow-ledger),  *)
(* their tables (workflow-store, ledger.rs), the daemon that appends to    *)
(* them (audit.rs) and verifies them when it starts, and the client that   *)
(* pages through them (history.rs).                                        *)
(*                                                                         *)
(* A digest is the value it was computed from, a signature the name of its *)
(* key.  The database may be altered while the daemon is down.             *)
(***************************************************************************)
EXTENDS Integers, Sequences, SequencesExt, Lists

CONSTANTS
  Events,       \* events, by project
  Interval,     \* entries from checkpoint to checkpoint (100 in the code)
  MaxEntries, MaxAlterations, MaxKeys,
  PageSize,
  NoKey, NoHash

VARIABLES
  entries,      \* ledger_entries, ordered by sequence
  checkpoints,  \* ledger_checkpoints: sequence |-> signed head
  keyfile,      \* the checkpoint key on disk
  key,          \* the key of the running daemon, NoKey when it is down
  signing,      \* <<entry>> appended and not yet considered for a checkpoint
  anchored,     \* events recorded up to each checkpoint ever signed
  alterations, keys,
  reader        \* a client paging through the entries of one project

lvars == <<entries, checkpoints, keyfile, key, signing, anchored, alterations, keys, reader>>

NoReader == [project |-> NoHash, after |-> -1, seen |-> <<>>, upto |-> 0, done |-> TRUE]

Put(f, x, v) == [y \in DOMAIN f \cup {x} |-> IF y = x THEN v ELSE f[y]]

Init ==
  /\ entries = <<>> /\ checkpoints = <<>> /\ anchored = <<>>
  /\ keyfile = NoKey /\ key = NoKey
  /\ signing = <<>> /\ alterations = 0 /\ keys = 0
  /\ reader = NoReader

-----------------------------------------------------------------------------
(* Hash chain.  Entries count from zero.                                   *)

calculate_hash(sequence, previous, event) == <<sequence, previous, event>>

new(sequence, previous, event) ==
  [sequence |-> sequence, previous |-> previous, event |-> event,
   hash |-> calculate_hash(sequence, previous, event)]

Previous(chain, i) == IF i = 1 THEN NoHash ELSE chain[i - 1].hash

verify(chain) ==
  \A i \in DOMAIN chain :
    /\ chain[i].sequence = i - 1
    /\ chain[i].previous = Previous(chain, i)
    /\ chain[i].hash = calculate_hash(i - 1, Previous(chain, i), chain[i].event)

(* Checkpoints.                                                            *)

sign(sequence, head, by) == [sequence |-> sequence, head |-> head, key |-> by]

(* Checkpoint::verify, given the hash of the entry at its sequence.        *)
verify_checkpoint(checkpoint, by, head) == checkpoint.head = head /\ checkpoint.key = by

HashAt(chain, sequence) == IF sequence < Len(chain) THEN chain[sequence + 1].hash ELSE NoHash

(* Mutant: the stored checkpoints are taken as they are.                   *)
verify_store_chainOnly == verify(entries)

verify_store ==
  /\ verify(entries)
  /\ \A s \in DOMAIN checkpoints :
       verify_checkpoint(checkpoints[s], keyfile', HashAt(entries, checkpoints[s].sequence))

-----------------------------------------------------------------------------
(* The daemon.                                                             *)

load_or_create ==
  IF keyfile # NoKey THEN UNCHANGED <<keyfile, keys>>
  ELSE keys < MaxKeys /\ keys' = keys + 1 /\ keyfile' = keys'

(* run: a daemon serves only when the ledger verifies.                     *)
Start ==
  /\ key = NoKey
  /\ load_or_create
  /\ key' = IF verify_store THEN keyfile' ELSE NoKey
  /\ UNCHANGED <<entries, checkpoints, signing, anchored, alterations, reader>>

(* The entry after the last one stored.                                    *)
append_ledger_event(event) ==
  IF entries = <<>> THEN new(0, NoHash, event)
  ELSE new(Last(entries).sequence + 1, Last(entries).hash, event)

(* record, up to the commit of its append.                                 *)
Record(event) ==
  /\ key # NoKey /\ signing = <<>> /\ Len(entries) < MaxEntries
  /\ LET entry == append_ledger_event(event)
     IN entries' = Append(entries, entry) /\ signing' = <<entry>>
  /\ UNCHANGED <<checkpoints, keyfile, key, anchored, alterations, keys, reader>>

(* save_checkpoint accepts what matches the stored entry, and replaces.    *)
save_checkpoint(checkpoint) ==
  IF checkpoint.head = HashAt(entries, checkpoint.sequence)
  THEN checkpoints' = Put(checkpoints, checkpoint.sequence, checkpoint)
  ELSE UNCHANGED checkpoints

(* record, the rest: every Interval-th entry is signed.                    *)
SignCheckpoint ==
  /\ signing # <<>>
  /\ LET entry == signing[1]
         checkpoint == sign(entry.sequence, entry.hash, key)
     IN IF entry.sequence % Interval = 0
        THEN /\ save_checkpoint(checkpoint)
             /\ anchored' =
                  Put(anchored, checkpoint, [i \in DOMAIN entries |-> entries[i].event])
        ELSE UNCHANGED <<checkpoints, anchored>>
  /\ signing' = <<>>
  /\ UNCHANGED <<entries, keyfile, key, alterations, keys, reader>>

Stop ==
  /\ key # NoKey
  /\ key' = NoKey /\ signing' = <<>> /\ reader' = NoReader
  /\ UNCHANGED <<entries, checkpoints, keyfile, anchored, alterations, keys>>

-----------------------------------------------------------------------------
(* history::execute on a query: the pages of one project, each answered    *)
(* from the entries stored at that time.                                   *)

Matching(project, after) ==
  Keep(entries, {entry \in ToSet(entries) : entry.event = project /\ entry.sequence > after})

Ask(project) ==
  /\ key # NoKey /\ reader = NoReader
  /\ reader' = [project |-> project, after |-> -1, seen |-> <<>>, upto |-> 0, done |-> FALSE]
  /\ UNCHANGED <<entries, checkpoints, keyfile, key, signing, anchored, alterations, keys>>

query(project, after) ==
  LET matching == Matching(project, after)
      page == SubSeq(matching, 1, IF Len(matching) < PageSize THEN Len(matching) ELSE PageSize)
  IN [entries |-> page,
      next |-> IF Len(matching) > Len(page) THEN Last(page).sequence ELSE -1]

Query ==
  /\ key # NoKey /\ ~reader.done /\ signing = <<>>
  /\ LET page == query(reader.project, reader.after)
     IN reader' = [reader EXCEPT !.seen = @ \o page.entries, !.after = page.next,
                                 !.upto = Len(entries), !.done = page.next = -1]
  /\ UNCHANGED <<entries, checkpoints, keyfile, key, signing, anchored, alterations, keys>>

Read == reader # NoReader /\ reader.done /\ reader' = NoReader
        /\ UNCHANGED <<entries, checkpoints, keyfile, key, signing, anchored, alterations, keys>>

-----------------------------------------------------------------------------
(* The database is altered while the daemon is down: an event is changed,  *)
(* entries are dropped or exchanged, or the chain is written anew from     *)
(* some entry on; a checkpoint is removed, one that was signed before is   *)
(* put back, or one no daemon signed is written; or the key file is lost.  *)

Rewritten(chain, i, event) ==
  LET events == [j \in DOMAIN chain |-> IF j = i THEN event ELSE chain[j].event]
      built[j \in 0..Len(chain)] ==
        IF j = 0 THEN <<>>
        ELSE IF j < i THEN SubSeq(chain, 1, j)
        ELSE Append(built[j - 1],
                    new(j - 1, IF j = 1 THEN NoHash ELSE built[j - 1][j - 1].hash, events[j]))
  IN built[Len(chain)]

AlterEntries ==
  /\ \/ \E i \in DOMAIN entries, event \in Events :
          entries' \in {[entries EXCEPT ![i].event = event], Rewritten(entries, i, event)}
     \/ \E i \in DOMAIN entries :
          entries' \in {SubSeq(entries, 1, i - 1), RemoveAt(entries, i)}
  /\ UNCHANGED <<checkpoints, keyfile>>

AlterCheckpoints ==
  /\ \/ \E s \in DOMAIN checkpoints :
          checkpoints' = [t \in DOMAIN checkpoints \ {s} |-> checkpoints[t]]
     \/ \E checkpoint \in DOMAIN anchored :
          checkpoints' = Put(checkpoints, checkpoint.sequence, checkpoint)
     \/ \E s \in DOMAIN checkpoints :
          checkpoints' = Put(checkpoints, s, sign(s, HashAt(entries, s), NoKey))
  /\ UNCHANGED <<entries, keyfile>>

LoseKey == keyfile # NoKey /\ keyfile' = NoKey /\ UNCHANGED <<entries, checkpoints>>

Alter ==
  /\ key = NoKey /\ alterations < MaxAlterations
  /\ alterations' = alterations + 1
  /\ AlterEntries \/ AlterCheckpoints \/ LoseKey
  /\ UNCHANGED <<key, signing, anchored, keys, reader>>

Next ==
  \/ Start \/ SignCheckpoint \/ Stop \/ Query \/ Read \/ Alter
  \/ \E event \in Events : Record(event) \/ Ask(event)

Spec == Init /\ [][Next]_lvars

-----------------------------------------------------------------------------
(* Types.                                                                  *)
TypeOK ==
  /\ Len(entries) <= MaxEntries /\ Len(signing) <= 1
  /\ DOMAIN checkpoints \subseteq {n \in 0..MaxEntries : n % Interval = 0}
  /\ key \in {NoKey, keyfile} /\ keys \in 0..MaxKeys
  /\ reader.seen \in Seq({entries[i] : i \in DOMAIN entries})

(* Nothing the daemon does, and no crash between an append and its         *)
(* checkpoint, makes it refuse its own ledger; and when it serves a ledger *)
(* that was altered, every checkpoint it finds is one it signed, and all   *)
(* that was recorded up to it is there as it was.  A checkpoint that was   *)
(* removed vouches for nothing: verify_store looks at those it finds.      *)
VerificationIsSound ==
  /\ alterations = 0 =>
       /\ verify(entries)
       /\ \A s \in DOMAIN checkpoints :
            verify_checkpoint(checkpoints[s], keyfile, HashAt(entries, checkpoints[s].sequence))
  /\ key # NoKey => \A s \in DOMAIN checkpoints :
       LET checkpoint == checkpoints[s]
       IN /\ checkpoint \in DOMAIN anchored
          /\ checkpoint.sequence < Len(entries)
          /\ \A i \in DOMAIN anchored[checkpoint] :
               entries[i].event = anchored[checkpoint][i]

(* A client that follows the pages sees every entry of its project once    *)
(* and in order, up to those stored when it gets the last page, although   *)
(* the daemon goes on recording.                                           *)
PagesComplete ==
  /\ IsPrefix(reader.seen, Matching(reader.project, -1))
  /\ reader.done => reader.seen =
       Keep(SubSeq(entries, 1, reader.upto),
            {entry \in ToSet(entries) : entry.event = reader.project})
=============================================================================
