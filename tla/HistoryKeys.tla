---------------------------- MODULE HistoryKeys ----------------------------
(***************************************************************************)
(* The run history's store: a row of the run database, a blob file and a   *)
(* data key of its own for each stored run.  The three are in three        *)
(* places; destroying the key is what makes a deleted run unreadable, also *)
(* in old copies of the database.                                          *)
(*                                                                         *)
(* A worker does one of these at a time (RunHistory._lock).  Between       *)
(* workers there are the database's write lock, the key store's short      *)
(* transactions, and the firing lock, which the engine's records, the      *)
(* hourly purge and "Delete run history" hold, but neither the purge at a  *)
(* worker's startup nor the deletion of one run.                           *)
(***************************************************************************)
EXTENDS Naturals, FiniteSets

CONSTANTS Histories,   \* the workers, each with its RunHistory
          Runs,        \* the runs stored
          MaxCrashes,  \* bound: workers that die within an operation
          NoOne

ASSUME KeysAssumption == NoOne \notin Histories

VARIABLES
  rows,     \* the run database, committed
  blobs,    \* blob files
  keys,     \* the key store: "none", "young" (KEY_GRACE_SECONDS), "aged"
  past,     \* runs past the retention
  op,       \* what each worker does
  dbLock,   \* who writes to the run database
  fireLock, \* who holds the firing lock
  begun,    \* bound: runs whose recording has begun
  crashes,
  was,      \* history: runs that were stored
  asked     \* history: runs whose deletion was asked for

keyVars == <<rows, blobs, keys, past, op, dbLock, fireLock, begun, crashes, was, asked>>

Resting == [does |-> "nothing", at |-> "rest", gone |-> {}, live |-> {}]

KeysInit ==
  /\ rows = {} /\ blobs = {} /\ keys = [r \in Runs |-> "none"] /\ past = {}
  /\ op = [s \in Histories |-> Resting] /\ dbLock = NoOne /\ fireLock = NoOne
  /\ begun = {} /\ crashes = 0 /\ was = {} /\ asked = {}

Does(s, what, at) == op[s].does = what /\ op[s].at = at
GoOn(s, at) == op' = [op EXCEPT ![s].at = at]
Begins(s, what, at, rs) == op' = [op EXCEPT ![s] = [does |-> what, at |-> at, gone |-> rs, live |-> {}]]
KeyOf(rs, age) == keys' = [r \in Runs |-> IF r \in rs THEN age ELSE keys[r]]
LocksDb(s) == dbLock = NoOne /\ dbLock' = s
Given(lock, s) == IF lock = s THEN NoOne ELSE lock
Ends(s) == /\ op' = [op EXCEPT ![s] = Resting]
           /\ dbLock' = Given(dbLock, s) /\ fireLock' = Given(fireLock, s)

----------------------------------------------------------------------------
(* record: the key, then the row, then its blob, then the commit. *)

BeginRecord(s) == \E r \in Runs \ begun :
  /\ op[s] = Resting /\ fireLock = NoOne /\ fireLock' = s
  /\ begun' = begun \cup {r} /\ KeyOf({r}, "young")
  /\ Begins(s, "record", "insert", {r})
  /\ UNCHANGED <<rows, blobs, past, dbLock, crashes, was, asked>>

InsertRow(s) ==
  /\ Does(s, "record", "insert") /\ LocksDb(s) /\ GoOn(s, "blob")
  /\ UNCHANGED <<rows, blobs, keys, past, fireLock, begun, crashes, was, asked>>

WriteBlob(s) ==
  /\ Does(s, "record", "blob") /\ GoOn(s, "commit")
  /\ blobs' = blobs \cup op[s].gone
  /\ UNCHANGED <<rows, keys, past, dbLock, fireLock, begun, crashes, was, asked>>

\* A failed write rolls the row back; its key stays behind.
BlobFails(s) ==
  /\ Does(s, "record", "blob") /\ Ends(s)
  /\ UNCHANGED <<rows, blobs, keys, past, begun, crashes, was, asked>>

CommitRow(s) ==
  /\ Does(s, "record", "commit") /\ Ends(s)
  /\ rows' = rows \cup op[s].gone /\ was' = was \cup op[s].gone
  /\ UNCHANGED <<blobs, keys, past, begun, crashes, asked>>

----------------------------------------------------------------------------
(* purge: at startup, and every hour under the firing lock. *)

BeginPurge(s) == \E startup \in BOOLEAN :
  /\ op[s] = Resting
  /\ IF startup THEN UNCHANGED fireLock ELSE fireLock = NoOne /\ fireLock' = s
  /\ Begins(s, "purge", "delete", rows \cap past)
  /\ UNCHANGED <<rows, blobs, keys, past, dbLock, begun, crashes, was, asked>>

\* The rows go, uncommitted, with their blobs; with none to delete nothing is locked.
DeleteRows(s) ==
  /\ Does(s, "purge", "delete") /\ GoOn(s, "look")
  /\ IF op[s].gone = {} THEN UNCHANGED dbLock ELSE LocksDb(s)
  /\ blobs' = blobs \ op[s].gone
  /\ UNCHANGED <<rows, keys, past, fireLock, begun, crashes, was, asked>>

\* The rows that remain, as the transaction sees them from here on.
LookAtRows(s) ==
  /\ Does(s, "purge", "look")
  /\ op' = [op EXCEPT ![s].at = "blobs", ![s].live = rows \ op[s].gone]
  /\ UNCHANGED <<rows, blobs, keys, past, dbLock, fireLock, begun, crashes, was, asked>>

ShredBlobs(s) ==
  /\ Does(s, "purge", "blobs") /\ GoOn(s, "keys")
  /\ blobs' = blobs \cap op[s].live
  /\ UNCHANGED <<rows, keys, past, dbLock, fireLock, begun, crashes, was, asked>>

\* The keys of the rows it deletes.
ShredKeys(s) ==
  /\ Does(s, "purge", "keys") /\ GoOn(s, "orphans") /\ KeyOf(op[s].gone, "none")
  /\ UNCHANGED <<rows, blobs, past, dbLock, fireLock, begun, crashes, was, asked>>

\* Mutant: however young.
AnyKey == {r \in Runs : keys[r] # "none"}

\* Keys old enough to be orphans.
AgedKeys == {r \in Runs : keys[r] = "aged"}

ShredOrphans(s) ==
  /\ Does(s, "purge", "orphans") /\ GoOn(s, "rotate")
  /\ KeyOf(AgedKeys \ op[s].live, "none")
  /\ UNCHANGED <<rows, blobs, past, dbLock, fireLock, begun, crashes, was, asked>>

\* rotate_if_quiet, when no run is left; then the commit.
EndPurge(s) ==
  /\ Does(s, "purge", "rotate") /\ Ends(s)
  /\ IF op[s].gone # {} /\ op[s].live = {} /\ \A r \in Runs : keys[r] # "young" THEN KeyOf(Runs, "none") ELSE UNCHANGED keys
  /\ rows' = rows \ op[s].gone
  /\ UNCHANGED <<blobs, past, begun, crashes, was, asked>>

----------------------------------------------------------------------------
(* One run, or all of them. *)

BeginDelete(s) == \E r \in rows :
  /\ op[s] = Resting /\ LocksDb(s) /\ asked' = asked \cup {r}
  /\ Begins(s, "delete", "shred", {r})
  /\ UNCHANGED <<rows, blobs, keys, past, fireLock, begun, crashes, was>>

BeginDeleteAll(s) ==
  /\ op[s] = Resting /\ LocksDb(s) /\ fireLock = NoOne /\ fireLock' = s
  /\ asked' = asked \cup rows
  /\ Begins(s, "deleteAll", "shred", rows)
  /\ UNCHANGED <<rows, blobs, keys, past, begun, crashes, was>>

\* The blobs, then the keys: "delete all" shreds every file and rotates.
Shred(s) ==
  /\ op[s].at = "shred" /\ GoOn(s, "destroy")
  /\ blobs' = IF op[s].does = "deleteAll" THEN {} ELSE blobs \ op[s].gone
  /\ UNCHANGED <<rows, keys, past, dbLock, fireLock, begun, crashes, was, asked>>

\* Mutant: the key of one deleted run is left to the next purge.
LeftToPurge(s) == IF op[s].does = "deleteAll" THEN Runs ELSE {}

\* Of one run its own, of all of them every key of the store (rotate).
Lost(s) == IF op[s].does = "deleteAll" THEN Runs ELSE op[s].gone

Destroy(s) ==
  /\ op[s].at = "destroy" /\ GoOn(s, "end") /\ KeyOf(Lost(s), "none")
  /\ UNCHANGED <<rows, blobs, past, dbLock, fireLock, begun, crashes, was, asked>>

EndDelete(s) ==
  /\ op[s].at = "end" /\ Ends(s)
  /\ rows' = rows \ op[s].gone
  /\ UNCHANGED <<blobs, keys, past, begun, crashes, was, asked>>

----------------------------------------------------------------------------
(* Time, and death. *)

Expires(r) ==
  /\ r \in rows \ past /\ keys[r] # "young" /\ past' = past \cup {r}
  /\ UNCHANGED <<rows, blobs, keys, op, dbLock, fireLock, begun, crashes, was, asked>>

\* The grace outlasts every operation.
KeyAges(r) ==
  /\ keys[r] = "young" /\ \A s \in Histories : op[s] = Resting
  /\ KeyOf({r}, "aged")
  /\ UNCHANGED <<rows, blobs, past, op, dbLock, fireLock, begun, crashes, was, asked>>

\* What was not committed to the database is undone; files and keys are not.
Crashes(s) ==
  /\ op[s] # Resting /\ crashes < MaxCrashes /\ crashes' = crashes + 1
  /\ Ends(s)
  /\ UNCHANGED <<rows, blobs, keys, past, begun, was, asked>>

OpStep(s) ==
  \/ InsertRow(s) \/ WriteBlob(s) \/ CommitRow(s)
  \/ DeleteRows(s) \/ LookAtRows(s) \/ ShredBlobs(s) \/ ShredKeys(s) \/ ShredOrphans(s) \/ EndPurge(s)
  \/ Shred(s) \/ Destroy(s) \/ EndDelete(s)

KeysNext ==
  \/ \E s \in Histories :
       \/ OpStep(s) \/ BeginRecord(s) \/ BlobFails(s)
       \/ BeginPurge(s) \/ BeginDelete(s) \/ BeginDeleteAll(s) \/ Crashes(s)
  \/ \E r \in Runs : Expires(r) \/ KeyAges(r)

KeysSpec == KeysInit /\ [][KeysNext]_keyVars

----------------------------------------------------------------------------
(* What the store promises. *)

Operations == [does : {"nothing", "record", "purge", "delete", "deleteAll"},
               at : {"rest", "insert", "blob", "commit", "delete", "look", "blobs", "keys", "orphans",
                     "rotate", "shred", "destroy", "end"},
               gone : SUBSET Runs, live : SUBSET Runs]

KeysTypeOK ==
  /\ rows \cup blobs \cup past \cup begun \cup was \cup asked \subseteq Runs
  /\ keys \in [Runs -> {"none", "young", "aged"}]
  /\ op \in [Histories -> Operations]
  /\ dbLock \in Histories \cup {NoOne} /\ fireLock \in Histories \cup {NoOne}

\* A run that was deleted or expired has neither its blob nor its key, wherever a worker died
\* on the way: no copy of the database opens it (crypto.py, "CRYPTO-SHREDDING").
GoneIsShredded == \A r \in was \ rows : keys[r] = "none" /\ r \notin blobs

\* A stored run that is not past the retention and nobody asked to delete has its key, whatever
\* the other workers purge (store.py, KEY_GRACE_SECONDS; crypto.py, rotate_if_quiet).
KeptHasKey == \A r \in rows \ (past \cup asked) : keys[r] # "none"

(* The inductive invariant behind both: what each operation has done so far, and what the     *)
(* others cannot undo meanwhile.  Only a recording makes a key or a blob, of a run that was   *)
(* never stored; and no key ages while an operation is on its way.                            *)

Recording(s) ==
  /\ op[s].at \in {"insert", "blob", "commit"} /\ fireLock = s
  /\ \E r \in begun \ was : op[s].gone = {r} /\ keys[r] = "young"

Purging(s) ==
  /\ op[s].at \in {"delete", "look", "blobs", "keys", "orphans", "rotate"}
  /\ op[s].gone \subseteq was \cap past
  /\ op[s].at # "delete" => op[s].gone \cap blobs = {}
  /\ op[s].at \in {"orphans", "rotate"} => \A r \in op[s].gone : keys[r] = "none"
  /\ op[s].at \in {"blobs", "keys", "orphans", "rotate"} =>
       \A r \in rows \ (op[s].live \cup op[s].gone) : keys[r] # "aged"

Deleting(s) ==
  /\ op[s].at \in {"shred", "destroy", "end"} /\ op[s].gone \subseteq was \cap asked
  /\ op[s].at # "shred" => op[s].gone \cap blobs = {}
  /\ op[s].at = "end" => \A r \in op[s].gone : keys[r] = "none"
  /\ op[s].does = "deleteAll" => fireLock = s /\ rows \subseteq op[s].gone

OnItsWay(s) ==
  /\ op[s].does = "nothing" => op[s] = Resting
  /\ op[s].does = "record" => Recording(s)
  /\ op[s].does = "purge" => Purging(s)
  /\ op[s].does \in {"delete", "deleteAll"} => Deleting(s)

OpInv == \A s \in Histories : OnItsWay(s)

StoredInv == rows \subseteq was /\ was \subseteq begun

KeysInv == KeysTypeOK /\ StoredInv /\ OpInv /\ GoneIsShredded /\ KeptHasKey

=============================================================================
