------------------------- MODULE PartsSafe_proofs -------------------------
(***************************************************************************)
(* Theorems about HistoryKeys and SandboxPool, and about MCPartsSafe.      *)
(*                                                                         *)
(* HistoryKeys.  KeysInv says what each operation has done so far;         *)
(* KeysStep has one step per action.  The firing lock is what keeps        *)
(* "delete all" and a recording apart, and the age of a key what keeps a   *)
(* purge without that lock from a run that was just stored.                *)
(*                                                                         *)
(* SandboxPool.  PoolInv is kept because every record a step takes from a  *)
(* place it puts into another (CarriedOn) or stops (StopsOne), and because *)
(* what a worker knows of a container is one record at a time.             *)
(*                                                                         *)
(* MCPartsSafe.  Its behaviours are those of its parts, so what is proved  *)
(* of each part holds of the composition.                                  *)
(***************************************************************************)
EXTENDS MCPartsSafe, Confirmed_proofs, HistoryThreads_proofs

(***************************************************************************)
(* HistoryKeys                                                             *)
(***************************************************************************)

USE DEF Does, LocksDb, Given

Stages == {"rest", "insert", "blob", "commit", "delete", "look", "blobs", "keys", "orphans",
           "rotate", "shred", "destroy", "end"}

\* What an operation that has ended or not begun looks like.
LEMMA RestingType == Resting \in Operations /\ Resting.does = "nothing"
BY DEF Resting, Operations

\* An operation that begins has the shape of an operation.
LEMMA BeginsType ==
  ASSUME KeysTypeOK, NEW s \in Histories,
         NEW what \in {"record", "purge", "delete", "deleteAll"}, NEW at \in Stages, NEW rs \in SUBSET Runs,
         Begins(s, what, at, rs)
  PROVE  /\ op' \in [Histories -> Operations]
         /\ op'[s] = [does |-> what, at |-> at, gone |-> rs, live |-> {}]
         /\ \A q \in Histories \ {s} : op'[q] = op[q]
<1>1. [does |-> what, at |-> at, gone |-> rs, live |-> {}] \in Operations
  BY DEF Operations, Stages
<1> QED BY <1>1 DEF Begins, KeysTypeOK

\* An operation that goes on keeps what it deletes and the rows it saw.
LEMMA GoOnIs ==
  ASSUME KeysTypeOK, NEW s \in Histories, NEW at \in Stages, GoOn(s, at)
  PROVE  /\ op' \in [Histories -> Operations]
         /\ op'[s] = [op[s] EXCEPT !.at = at]
         /\ op'[s].does = op[s].does /\ op'[s].at = at /\ op'[s].gone = op[s].gone /\ op'[s].live = op[s].live
         /\ \A q \in Histories \ {s} : op'[q] = op[q]
BY DEF GoOn, KeysTypeOK, Operations, Stages

\* A purge that has looked at the rows knows those it does not delete.
LEMMA LooksType ==
  ASSUME KeysTypeOK, NEW s \in Histories, LookAtRows(s)
  PROVE  /\ op' \in [Histories -> Operations]
         /\ op'[s] = [op[s] EXCEPT !.at = "blobs", !.live = rows \ op[s].gone]
         /\ op'[s].does = "purge" /\ op'[s].at = "blobs" /\ op'[s].gone = op[s].gone
         /\ op'[s].live = rows \ op[s].gone
         /\ \A q \in Histories \ {s} : op'[q] = op[q]
<1>1. op[s] \in Operations /\ rows \ op[s].gone \in SUBSET Runs
  BY DEF KeysTypeOK
<1>2. op' = [op EXCEPT ![s] = [op[s] EXCEPT !.at = "blobs", !.live = rows \ op[s].gone]]
  BY DEF LookAtRows
<1>3. [op[s] EXCEPT !.at = "blobs", !.live = rows \ op[s].gone] \in Operations
  BY <1>1 DEF Operations
<1> QED BY <1>1, <1>2, <1>3 DEF LookAtRows, KeysTypeOK, Operations

\* An operation that ends leaves the others alone, and gives back only locks of its own.
LEMMA EndsType ==
  ASSUME KeysTypeOK, NEW s \in Histories, Ends(s)
  PROVE  /\ op' \in [Histories -> Operations]
         /\ op'[s] = Resting
         /\ \A q \in Histories \ {s} : op'[q] = op[q]
         /\ dbLock' \in Histories \cup {NoOne} /\ fireLock' \in Histories \cup {NoOne}
         /\ \A q \in Histories \ {s} : fireLock = q => fireLock' = q
BY RestingType DEF Ends, KeysTypeOK

\* Keys keep their ages' names, and those of other runs their ages.
LEMMA KeyType ==
  ASSUME KeysTypeOK, NEW rs, NEW age \in {"none", "young", "aged"}, KeyOf(rs, age)
  PROVE  /\ keys' \in [Runs -> {"none", "young", "aged"}]
         /\ \A r \in Runs : keys'[r] = IF r \in rs THEN age ELSE keys[r]
BY DEF KeyOf, KeysTypeOK

\* The rows, keys, blobs and operations keep their types.
LEMMA KeysTypeStep == KeysTypeOK /\ [KeysNext]_keyVars => KeysTypeOK'
<1> SUFFICES ASSUME KeysTypeOK, [KeysNext]_keyVars PROVE KeysTypeOK'
  OBVIOUS
<1> DEFINE Ops == op' \in [Histories -> Operations]
<1>1. ASSUME NEW s \in Histories, InsertRow(s) \/ WriteBlob(s) PROVE KeysTypeOK'
  <2>1. Ops
    BY <1>1, GoOnIs DEF InsertRow, WriteBlob, Stages
  <2>2. op[s].gone \subseteq Runs
    BY DEF KeysTypeOK, Operations
  <2> QED BY <1>1, <2>1, <2>2 DEF InsertRow, WriteBlob, KeysTypeOK
<1>2. ASSUME NEW s \in Histories, BlobFails(s) \/ CommitRow(s) PROVE KeysTypeOK'
  <2>1. op[s].gone \subseteq Runs
    BY DEF KeysTypeOK, Operations
  <2> QED BY <1>2, <2>1, EndsType DEF BlobFails, CommitRow, KeysTypeOK
<1>3. ASSUME NEW s \in Histories, BeginRecord(s) PROVE KeysTypeOK'
  <2>1. PICK r \in Runs \ begun : /\ Begins(s, "record", "insert", {r}) /\ KeyOf({r}, "young")
                                 /\ begun' = begun \cup {r} /\ fireLock' = s
                                 /\ UNCHANGED <<rows, blobs, past, dbLock, crashes, was, asked>>
    BY <1>3 DEF BeginRecord
  <2>2. Ops
    <3>1. {r} \in SUBSET Runs /\ "record" \in {"record", "purge", "delete", "deleteAll"} /\ "insert" \in Stages
      BY DEF Stages
    <3> QED BY <2>1, <3>1, BeginsType
  <2> QED BY <2>1, <2>2, KeyType DEF KeysTypeOK
<1>4. ASSUME NEW s \in Histories, BeginPurge(s) PROVE KeysTypeOK'
  <2>1. Ops
    <3>1. rows \cap past \in SUBSET Runs /\ "delete" \in Stages
      BY DEF KeysTypeOK, Stages
    <3>2. Begins(s, "purge", "delete", rows \cap past)
      BY <1>4 DEF BeginPurge
    <3> QED BY <3>1, <3>2, BeginsType
  <2> QED BY <1>4, <2>1 DEF BeginPurge, KeysTypeOK
<1>5. ASSUME NEW s \in Histories, DeleteRows(s) \/ ShredBlobs(s) PROVE KeysTypeOK'
  <2>1. Ops
    BY <1>5, GoOnIs DEF DeleteRows, ShredBlobs, Stages
  <2> QED BY <1>5, <2>1 DEF DeleteRows, ShredBlobs, KeysTypeOK
<1>6. ASSUME NEW s \in Histories, LookAtRows(s) PROVE KeysTypeOK'
  BY <1>6, LooksType DEF LookAtRows, KeysTypeOK
<1>7. ASSUME NEW s \in Histories, ShredKeys(s) \/ ShredOrphans(s) \/ Destroy(s) PROVE KeysTypeOK'
  <2>1. Ops
    BY <1>7, GoOnIs DEF ShredKeys, ShredOrphans, Destroy, Stages
  <2>2. keys' \in [Runs -> {"none", "young", "aged"}]
    BY <1>7, KeyType DEF ShredKeys, ShredOrphans, Destroy
  <2> QED BY <1>7, <2>1, <2>2 DEF ShredKeys, ShredOrphans, Destroy, KeysTypeOK
<1>8. ASSUME NEW s \in Histories, EndPurge(s) PROVE KeysTypeOK'
  <2>1. keys' \in [Runs -> {"none", "young", "aged"}]
    BY <1>8, KeyType DEF EndPurge, KeysTypeOK
  <2> QED BY <1>8, <2>1, EndsType DEF EndPurge, KeysTypeOK
<1>9. ASSUME NEW s \in Histories, BeginDelete(s) \/ BeginDeleteAll(s) PROVE KeysTypeOK'
  <2>1. Ops
    <3>1. PICK rs \in SUBSET Runs : Begins(s, "delete", "shred", rs) \/ Begins(s, "deleteAll", "shred", rs)
      BY <1>9 DEF BeginDelete, BeginDeleteAll, KeysTypeOK
    <3>2. "shred" \in Stages
      BY DEF Stages
    <3> QED BY <3>1, <3>2, BeginsType
  <2> QED BY <1>9, <2>1 DEF BeginDelete, BeginDeleteAll, KeysTypeOK
<1>10. ASSUME NEW s \in Histories, Shred(s) PROVE KeysTypeOK'
  <2>1. Ops
    BY <1>10, GoOnIs DEF Shred, Stages
  <2> QED BY <1>10, <2>1 DEF Shred, KeysTypeOK
<1>11. ASSUME NEW s \in Histories, EndDelete(s) \/ Crashes(s) PROVE KeysTypeOK'
  BY <1>11, EndsType DEF EndDelete, Crashes, KeysTypeOK
<1>12. ASSUME NEW r \in Runs, Expires(r) \/ KeyAges(r) PROVE KeysTypeOK'
  BY <1>12, KeyType DEF Expires, KeyAges, KeysTypeOK
<1>13. CASE UNCHANGED keyVars
  BY <1>13 DEF keyVars, KeysTypeOK
<1> QED BY <1>1, <1>2, <1>3, <1>4, <1>5, <1>6, <1>7, <1>8, <1>9, <1>10, <1>11, <1>12, <1>13
     DEF KeysNext, OpStep

\* What no step does to the stores, whoever takes it.
Gentle ==
  /\ begun \subseteq begun' /\ past \subseteq past' /\ asked \subseteq asked' /\ was \subseteq was'
  /\ blobs' \cap was \subseteq blobs
  /\ \A r \in was : keys[r] = "none" => keys'[r] = "none"
  /\ \A r \in Runs : keys'[r] = "aged" => keys[r] = "aged"
  /\ \A r \in rows' \ rows : keys'[r] # "aged"

\* ... and what a step of s leaves to another worker.
Spares(q) ==
  /\ op'[q] = op[q]
  /\ fireLock = q => fireLock' = q /\ rows' \subseteq rows
  /\ op[q].does = "record" => \A r \in op[q].gone : r \notin was' /\ keys'[r] = "young"

\* An operation is where it was after a step of another worker.
LEMMA Undisturbed ==
  ASSUME KeysInv, KeysTypeOK', NEW q \in Histories, Gentle, Spares(q)
  PROVE  OnItsWay(q)'
<1> USE DEF KeysInv, OpInv, OnItsWay, Gentle, Spares
<1>1. op[q].does = "record" => Recording(q)'
  BY DEF Recording
<1>2. op[q].does = "purge" => Purging(q)'
  BY DEF Purging, KeysTypeOK, Operations
<1>3. op[q].does \in {"delete", "deleteAll"} => Deleting(q)'
  BY DEF Deleting, KeysTypeOK, Operations
<1> QED BY <1>1, <1>2, <1>3

\* What the proof of a step gives: the others are undisturbed, s is where it should be.
LEMMA StepOf ==
  ASSUME KeysInv, KeysTypeOK', NEW s \in Histories, Gentle, \A q \in Histories \ {s} : Spares(q),
         OnItsWay(s)', StoredInv', GoneIsShredded', KeptHasKey'
  PROVE  KeysInv'
BY Undisturbed DEF KeysInv, OpInv

\* Every step of a worker, of the clock and of a death preserves the invariant.
LEMMA KeysStep == KeysInv /\ KeysTypeOK' /\ [KeysNext]_keyVars => KeysInv'
<1> SUFFICES ASSUME KeysInv, KeysTypeOK', [KeysNext]_keyVars PROVE KeysInv'
  OBVIOUS
<1> USE KeysAssumption, RestingType
<1> USE DEF KeysInv, OpInv, OnItsWay, StoredInv, GoneIsShredded, KeptHasKey, KeysTypeOK
<1>1. ASSUME NEW s \in Histories, InsertRow(s) PROVE KeysInv'
  <2>1. Gentle /\ \A q \in Histories \ {s} : Spares(q)
    BY <1>1, GoOnIs DEF InsertRow, Gentle, Spares, Recording, Stages
  <2>2. OnItsWay(s)'
    BY <1>1, GoOnIs DEF InsertRow, Recording, Stages
  <2>3. StoredInv' /\ GoneIsShredded' /\ KeptHasKey'
    BY <1>1, GoOnIs DEF InsertRow, Recording, Stages
  <2> QED BY <2>1, <2>2, <2>3, StepOf
<1>2. ASSUME NEW s \in Histories, WriteBlob(s) PROVE KeysInv'
  <2>1. Gentle /\ \A q \in Histories \ {s} : Spares(q)
    BY <1>2, GoOnIs DEF WriteBlob, Gentle, Spares, Recording, Stages
  <2>2. OnItsWay(s)'
    BY <1>2, GoOnIs DEF WriteBlob, Recording, Stages
  <2>3. StoredInv' /\ GoneIsShredded' /\ KeptHasKey'
    BY <1>2, GoOnIs DEF WriteBlob, Recording, Stages
  <2> QED BY <2>1, <2>2, <2>3, StepOf
<1>3. ASSUME NEW s \in Histories, BlobFails(s) PROVE KeysInv'
  <2>1. Gentle /\ \A q \in Histories \ {s} : Spares(q)
    BY <1>3, EndsType DEF BlobFails, Gentle, Spares, Recording
  <2>2. OnItsWay(s)'
    BY <1>3, EndsType DEF BlobFails, Recording
  <2>3. StoredInv' /\ GoneIsShredded' /\ KeptHasKey'
    BY <1>3, EndsType DEF BlobFails, Recording
  <2> QED BY <2>1, <2>2, <2>3, StepOf
<1>4. ASSUME NEW s \in Histories, CommitRow(s) PROVE KeysInv'
  <2>1. Gentle /\ \A q \in Histories \ {s} : Spares(q)
    BY <1>4, EndsType DEF CommitRow, Gentle, Spares, Recording
  <2>2. OnItsWay(s)'
    BY <1>4, EndsType DEF CommitRow, Recording
  <2>3. StoredInv' /\ GoneIsShredded' /\ KeptHasKey'
    BY <1>4, EndsType DEF CommitRow, Recording
  <2> QED BY <2>1, <2>2, <2>3, StepOf
<1>5. ASSUME NEW s \in Histories, DeleteRows(s) PROVE KeysInv'
  <2>1. Gentle /\ \A q \in Histories \ {s} : Spares(q)
    BY <1>5, GoOnIs DEF DeleteRows, Gentle, Spares, Recording, Purging, Stages
  <2>2. OnItsWay(s)'
    BY <1>5, GoOnIs DEF DeleteRows, Recording, Purging, Stages
  <2>3. StoredInv' /\ GoneIsShredded' /\ KeptHasKey'
    BY <1>5, GoOnIs DEF DeleteRows, Recording, Purging, Stages
  <2> QED BY <2>1, <2>2, <2>3, StepOf
<1>6. ASSUME NEW s \in Histories, LookAtRows(s) PROVE KeysInv'
  <2>0. /\ Purging(s) /\ op[s].at = "look" /\ op[s].does = "purge"
        /\ UNCHANGED <<rows, blobs, keys, past, dbLock, fireLock, begun, crashes, was, asked>>
    BY <1>6 DEF LookAtRows, Does
  <2>a. /\ op'[s].does = "purge" /\ op'[s].at = "blobs" /\ op'[s].gone = op[s].gone
        /\ op'[s].live = rows \ op[s].gone
        /\ \A q \in Histories \ {s} : op'[q] = op[q]
    BY <1>6, LooksType
  <2>1. Gentle /\ \A q \in Histories \ {s} : Spares(q)
    BY <2>0, <2>a DEF Gentle, Spares, Recording, Purging
  <2>2. OnItsWay(s)'
    BY <2>0, <2>a DEF Recording, Purging
  <2>3. StoredInv' /\ GoneIsShredded' /\ KeptHasKey'
    BY <2>0, <2>a DEF Recording, Purging
  <2> QED BY <2>1, <2>2, <2>3, StepOf
<1>7. ASSUME NEW s \in Histories, ShredBlobs(s) PROVE KeysInv'
  <2>1. Gentle /\ \A q \in Histories \ {s} : Spares(q)
    BY <1>7, GoOnIs DEF ShredBlobs, Gentle, Spares, Recording, Purging, Stages
  <2>2. OnItsWay(s)'
    BY <1>7, GoOnIs DEF ShredBlobs, Recording, Purging, Stages
  <2>3. StoredInv' /\ GoneIsShredded' /\ KeptHasKey'
    BY <1>7, GoOnIs DEF ShredBlobs, Recording, Purging, Stages
  <2> QED BY <2>1, <2>2, <2>3, StepOf
<1>8. ASSUME NEW s \in Histories, ShredKeys(s) PROVE KeysInv'
  <2>1. Gentle /\ \A q \in Histories \ {s} : Spares(q)
    BY <1>8, GoOnIs, KeyType DEF ShredKeys, Gentle, Spares, Recording, Purging, Stages
  <2>2. OnItsWay(s)'
    BY <1>8, GoOnIs, KeyType DEF ShredKeys, Recording, Purging, Stages
  <2>3. StoredInv' /\ GoneIsShredded' /\ KeptHasKey'
    BY <1>8, GoOnIs, KeyType DEF ShredKeys, Recording, Purging, Stages
  <2> QED BY <2>1, <2>2, <2>3, StepOf
<1>9. ASSUME NEW s \in Histories, ShredOrphans(s) PROVE KeysInv'
  <2>1. Gentle /\ \A q \in Histories \ {s} : Spares(q)
    BY <1>9, GoOnIs, KeyType DEF ShredOrphans, Gentle, Spares, Recording, Purging, AgedKeys, Stages
  <2>2. OnItsWay(s)'
    BY <1>9, GoOnIs, KeyType DEF ShredOrphans, Recording, Purging, AgedKeys, Stages
  <2>3. StoredInv' /\ GoneIsShredded' /\ KeptHasKey'
    BY <1>9, GoOnIs, KeyType DEF ShredOrphans, Recording, Purging, AgedKeys, Stages
  <2> QED BY <2>1, <2>2, <2>3, StepOf
<1>10. ASSUME NEW s \in Histories, EndPurge(s) PROVE KeysInv'
  <2>1. Gentle /\ \A q \in Histories \ {s} : Spares(q)
    BY <1>10, EndsType, KeyType DEF EndPurge, Gentle, Spares, Recording, Purging
  <2>2. OnItsWay(s)'
    BY <1>10, EndsType, KeyType DEF EndPurge, Recording, Purging
  <2>3. StoredInv' /\ GoneIsShredded' /\ KeptHasKey'
    BY <1>10, EndsType, KeyType DEF EndPurge, Recording, Purging
  <2> QED BY <2>1, <2>2, <2>3, StepOf
<1>11. ASSUME NEW s \in Histories, Shred(s) PROVE KeysInv'
  <2>0. op[s].does \in {"delete", "deleteAll"} /\ Deleting(s)
    BY <1>11, RestingType DEF Shred, Recording, Purging, Resting, Operations
  <2>1. Gentle /\ \A q \in Histories \ {s} : Spares(q)
    BY <1>11, <2>0, GoOnIs DEF Shred, Gentle, Spares, Recording, Purging, Deleting, Stages
  <2>2. OnItsWay(s)'
    BY <1>11, <2>0, GoOnIs DEF Shred, Recording, Purging, Deleting, Stages
  <2>3. StoredInv' /\ GoneIsShredded' /\ KeptHasKey'
    BY <1>11, <2>0, GoOnIs DEF Shred, Recording, Purging, Deleting, Stages
  <2> QED BY <2>1, <2>2, <2>3, StepOf
<1>12. ASSUME NEW s \in Histories, Destroy(s) PROVE KeysInv'
  <2>0. op[s].does \in {"delete", "deleteAll"} /\ Deleting(s)
    BY <1>12, RestingType DEF Destroy, Recording, Purging, Resting, Operations
  <2>1. Gentle /\ \A q \in Histories \ {s} : Spares(q)
    BY <1>12, <2>0, GoOnIs, KeyType DEF Destroy, Gentle, Spares, Recording, Purging, Deleting, Lost, Stages
  <2>2. OnItsWay(s)'
    BY <1>12, <2>0, GoOnIs, KeyType DEF Destroy, Recording, Purging, Deleting, Lost, Stages
  <2>3. StoredInv' /\ GoneIsShredded' /\ KeptHasKey'
    BY <1>12, <2>0, GoOnIs, KeyType DEF Destroy, Recording, Purging, Deleting, Lost, Stages
  <2> QED BY <2>1, <2>2, <2>3, StepOf
<1>13. ASSUME NEW s \in Histories, EndDelete(s) PROVE KeysInv'
  <2>0. op[s].does \in {"delete", "deleteAll"} /\ Deleting(s)
    BY <1>13, RestingType DEF EndDelete, Recording, Purging, Resting, Operations
  <2>1. Gentle /\ \A q \in Histories \ {s} : Spares(q)
    BY <1>13, <2>0, EndsType DEF EndDelete, Gentle, Spares, Recording, Purging, Deleting
  <2>2. OnItsWay(s)'
    BY <1>13, <2>0, EndsType DEF EndDelete, Recording, Purging, Deleting
  <2>3. StoredInv' /\ GoneIsShredded' /\ KeptHasKey'
    BY <1>13, <2>0, EndsType DEF EndDelete, Recording, Purging, Deleting
  <2> QED BY <2>1, <2>2, <2>3, StepOf
<1>14. ASSUME NEW s \in Histories, BeginRecord(s) PROVE KeysInv'
  <2>1. Gentle /\ \A q \in Histories \ {s} : Spares(q)
    BY <1>14, BeginsType, KeyType DEF BeginRecord, Gentle, Spares, Recording, Stages
  <2>2. OnItsWay(s)'
    BY <1>14, BeginsType, KeyType DEF BeginRecord, Recording, Stages
  <2>3. StoredInv' /\ GoneIsShredded' /\ KeptHasKey'
    BY <1>14, BeginsType, KeyType DEF BeginRecord, Recording, Stages
  <2> QED BY <2>1, <2>2, <2>3, StepOf
<1>15. ASSUME NEW s \in Histories, BeginPurge(s) PROVE KeysInv'
  <2>1. Gentle /\ \A q \in Histories \ {s} : Spares(q)
    BY <1>15, BeginsType DEF BeginPurge, Gentle, Spares, Recording, Purging, Stages
  <2>2. OnItsWay(s)'
    BY <1>15, BeginsType DEF BeginPurge, Recording, Purging, Stages
  <2>3. StoredInv' /\ GoneIsShredded' /\ KeptHasKey'
    BY <1>15, BeginsType DEF BeginPurge, Recording, Purging, Stages
  <2> QED BY <2>1, <2>2, <2>3, StepOf
<1>16. ASSUME NEW s \in Histories, BeginDelete(s) PROVE KeysInv'
  <2>0. PICK rs \in SUBSET Runs, what \in {"delete", "deleteAll"} :
          /\ Begins(s, what, "shred", rs) /\ rs \subseteq rows /\ asked' = asked \cup rs
          /\ what = "deleteAll" => fireLock = NoOne /\ fireLock' = s /\ rs = rows
          /\ what = "delete" => fireLock' = fireLock
          /\ op[s] = Resting /\ UNCHANGED <<rows, blobs, keys, past, begun, crashes, was>>
    BY <1>16 DEF BeginDelete
  <2>a. /\ op'[s] = [does |-> what, at |-> "shred", gone |-> rs, live |-> {}]
        /\ \A q \in Histories \ {s} : op'[q] = op[q]
    <3>1. "shred" \in Stages /\ what \in {"record", "purge", "delete", "deleteAll"} /\ KeysTypeOK
      BY DEF Stages
    <3> QED BY <2>0, <3>1, BeginsType
  <2>1. Gentle /\ \A q \in Histories \ {s} : Spares(q)
    BY <2>0, <2>a DEF Gentle, Spares, Recording, Deleting, Stages
  <2>2. OnItsWay(s)'
    BY <2>0, <2>a DEF Recording, Deleting, Stages
  <2>3. StoredInv' /\ GoneIsShredded' /\ KeptHasKey'
    BY <2>0, <2>a DEF Recording, Deleting, Stages
  <2> QED BY <2>1, <2>2, <2>3, StepOf
<1>17. ASSUME NEW s \in Histories, BeginDeleteAll(s) PROVE KeysInv'
  <2>0. PICK rs \in SUBSET Runs, what \in {"delete", "deleteAll"} :
          /\ Begins(s, what, "shred", rs) /\ rs \subseteq rows /\ asked' = asked \cup rs
          /\ what = "deleteAll" => fireLock = NoOne /\ fireLock' = s /\ rs = rows
          /\ what = "delete" => fireLock' = fireLock
          /\ op[s] = Resting /\ UNCHANGED <<rows, blobs, keys, past, begun, crashes, was>>
    BY <1>17 DEF BeginDeleteAll
  <2>a. /\ op'[s] = [does |-> what, at |-> "shred", gone |-> rs, live |-> {}]
        /\ \A q \in Histories \ {s} : op'[q] = op[q]
    <3>1. "shred" \in Stages /\ what \in {"record", "purge", "delete", "deleteAll"} /\ KeysTypeOK
      BY DEF Stages
    <3> QED BY <2>0, <3>1, BeginsType
  <2>1. Gentle /\ \A q \in Histories \ {s} : Spares(q)
    BY <2>0, <2>a DEF Gentle, Spares, Recording, Deleting, Stages
  <2>2. OnItsWay(s)'
    BY <2>0, <2>a DEF Recording, Deleting, Stages
  <2>3. StoredInv' /\ GoneIsShredded' /\ KeptHasKey'
    BY <2>0, <2>a DEF Recording, Deleting, Stages
  <2> QED BY <2>1, <2>2, <2>3, StepOf
<1>18. ASSUME NEW s \in Histories, Crashes(s) PROVE KeysInv'
  <2>1. Gentle /\ \A q \in Histories \ {s} : Spares(q)
    BY <1>18, EndsType DEF Crashes, Gentle, Spares, Recording
  <2>2. OnItsWay(s)'
    BY <1>18, EndsType DEF Crashes, Recording
  <2>3. StoredInv' /\ GoneIsShredded' /\ KeptHasKey'
    BY <1>18, EndsType DEF Crashes, Recording
  <2> QED BY <2>1, <2>2, <2>3, StepOf
<1>19. ASSUME NEW r \in Runs, Expires(r) PROVE KeysInv'
  BY <1>19 DEF Expires, Recording, Purging, Deleting
<1>20. ASSUME NEW r \in Runs, KeyAges(r) PROVE KeysInv'
  BY <1>20, KeyType DEF KeyAges, Recording, Purging, Deleting
<1>21. CASE UNCHANGED keyVars
  BY <1>21 DEF keyVars, Recording, Purging, Deleting
<1> QED BY <1>1, <1>2, <1>3, <1>4, <1>5, <1>6, <1>7, <1>8, <1>9, <1>10, <1>11,
     <1>12, <1>13, <1>14, <1>15, <1>16, <1>17, <1>18, <1>19, <1>20, <1>21
     DEF KeysNext, OpStep

\* The invariant holds throughout.
LEMMA KeysInvariance == KeysSpec => []KeysInv
<1>1. KeysInit => KeysInv
  BY RestingType DEF KeysInit, KeysInv, OpInv, OnItsWay, StoredInv, GoneIsShredded, KeptHasKey, KeysTypeOK,
                     Recording, Purging, Deleting
<1>2. KeysInv => KeysTypeOK
  BY DEF KeysInv
<1> QED BY <1>1, <1>2, KeysStep, KeysTypeStep, PTL DEF KeysSpec

\* A run that was deleted or has expired has neither key nor blob: for any number of runs, workers
\* and deaths, with records, purges with and without the firing lock, and deletions going on
\* together (crypto.py, "CRYPTO-SHREDDING").
THEOREM Shredded == KeysSpec => []GoneIsShredded
<1>1. KeysInv => GoneIsShredded
  BY DEF KeysInv
<1> QED BY <1>1, KeysInvariance, PTL

\* A stored run that nobody asked to delete has its key until it expires, whatever the others purge,
\* delete or leave behind (store.py, KEY_GRACE_SECONDS; crypto.py, rotate_if_quiet).
THEOREM KeysKept == KeysSpec => []KeptHasKey
<1>1. KeysInv => KeptHasKey
  BY DEF KeysInv
<1> QED BY <1>1, KeysInvariance, PTL

(***************************************************************************)
(* SandboxPool                                                             *)
(***************************************************************************)

-----------------------------------------------------------------------------
(* Sequences of records with one per box. *)

(* Without position i, everything but its record is left. *)
LEMMA RemoveAtIs ==
  ASSUME NEW s \in Seq(Records), OneEach(s), NEW i \in DOMAIN s
  PROVE  /\ RemoveAt(s, i) \in Seq(Records) /\ OneEach(RemoveAt(s, i))
         /\ ToSet(RemoveAt(s, i)) = ToSet(s) \ {s[i]}
<1> DEFINE t == RemoveAt(s, i)
<1>1. /\ t \in Seq(Records) /\ Len(t) = Len(s) - 1
      /\ \A j \in 1 .. Len(t) : t[j] = IF j < i THEN s[j] ELSE s[j + 1]
  <2> DEFINE front == SubSeq(s, 1, i - 1)
             back == SubSeq(s, i + 1, Len(s))
  <2>1. front \in Seq(Records) /\ Len(front) = i - 1 /\ \A j \in 1 .. i - 1 : front[j] = s[j]
    OBVIOUS
  <2>2. back \in Seq(Records) /\ Len(back) = Len(s) - i /\ \A j \in 1 .. Len(s) - i : back[j] = s[j + i]
    OBVIOUS
  <2>3. t = front \o back
    BY DEF RemoveAt
  <2> HIDE DEF front, back, t
  <2>4. t \in Seq(Records) /\ Len(t) = Len(s) - 1
    BY <2>1, <2>2, <2>3
  <2>5. ASSUME NEW j \in 1 .. Len(t) PROVE t[j] = IF j < i THEN s[j] ELSE s[j + 1]
    <3>1. CASE j < i
      BY <2>1, <2>2, <2>3, <2>4, <3>1
    <3>2. CASE j >= i
      <4>0. j \in Nat /\ j > Len(front) /\ j <= Len(front) + Len(back)
        BY <2>1, <2>2, <2>4, <3>2
      <4>1. t[j] = back[j - Len(front)]
        <5>1. front \in Seq(Records) /\ back \in Seq(Records)
          BY <2>1, <2>2
        <5>2. \A k \in 1 .. Len(front) + Len(back) :
                 (front \o back)[k] = IF k <= Len(front) THEN front[k] ELSE back[k - Len(front)]
          BY <5>1, ConcatProperties, Zenon
        <5>3. j \in 1 .. Len(front) + Len(back)
          BY <2>1, <2>2, <4>0
        <5>4. (front \o back)[j] = IF j <= Len(front) THEN front[j] ELSE back[j - Len(front)]
          BY <5>2, <5>3, Zenon
        <5>5. ~ (j <= Len(front))
          BY <2>1, <4>0
        <5> QED BY <2>3, <5>4, <5>5, Zenon
      <4>2. back[j - (i - 1)] = s[j - (i - 1) + i]
        BY <2>2, <2>4, <3>2
      <4> QED BY <2>1, <4>1, <4>2, <3>2
    <3> QED BY <3>1, <3>2
  <2> QED BY <2>4, <2>5
<1>2. OneEach(t)
  <2> HIDE DEF t
  <2> SUFFICES ASSUME NEW j \in 1 .. Len(t), NEW l \in 1 .. Len(t), t[j].box = t[l].box PROVE j = l
    BY <1>1 DEF OneEach
  <2> DEFINE old(m) == IF m < i THEN m ELSE m + 1
  <2>1. old(j) \in DOMAIN s /\ old(l) \in DOMAIN s /\ t[j] = s[old(j)] /\ t[l] = s[old(l)]
    BY <1>1
  <2>2. old(j) = old(l)
    BY <2>1 DEF OneEach
  <2> QED BY <2>2
<1>3. ASSUME NEW j \in DOMAIN t PROVE t[j] \in ToSet(s) \ {s[i]}
  BY <1>1, <1>3 DEF OneEach, ToSet
<1>4. ASSUME NEW j \in DOMAIN s, s[j] # s[i] PROVE s[j] \in ToSet(t)
  <2>1. CASE j < i
    <3>1. j \in DOMAIN t /\ t[j] = s[j]
      BY <1>1, <2>1
    <3> QED BY <3>1 DEF ToSet
  <2>2. CASE j > i
    <3>1. j - 1 \in DOMAIN t /\ t[j - 1] = s[j]
      BY <1>1, <2>2
    <3> QED BY <3>1 DEF ToSet
  <2> QED BY <1>4, <2>1, <2>2
<1>5. ToSet(t) = ToSet(s) \ {s[i]}
  <2>1. ToSet(t) \subseteq ToSet(s) \ {s[i]}
    BY <1>3 DEF ToSet
  <2>2. ToSet(s) \ {s[i]} \subseteq ToSet(t)
    BY <1>4 DEF ToSet
  <2> QED BY <2>1, <2>2
<1> QED BY <1>1, <1>2, <1>5

(* A sequence is what comes first and what comes after. *)
LEMMA SplitIs ==
  ASSUME NEW s \in Seq(Records), OneEach(s), NEW n \in 0 .. Len(s)
  PROVE  LET front == SubSeq(s, 1, n)  back == SubSeq(s, n + 1, Len(s))
         IN  /\ front \in Seq(Records) /\ back \in Seq(Records) /\ OneEach(back)
             /\ ToSet(s) = ToSet(front) \cup ToSet(back)
<1> DEFINE front == SubSeq(s, 1, n)
           back == SubSeq(s, n + 1, Len(s))
<1>1. front \in Seq(Records) /\ Len(front) = n /\ \A j \in 1 .. n : front[j] = s[j]
  OBVIOUS
<1>2. back \in Seq(Records) /\ Len(back) = Len(s) - n /\ \A j \in 1 .. Len(s) - n : back[j] = s[j + n]
  OBVIOUS
<1>3. OneEach(back)
  <2> HIDE DEF back
  <2> SUFFICES ASSUME NEW j \in 1 .. Len(s) - n, NEW l \in 1 .. Len(s) - n, back[j].box = back[l].box
               PROVE  j = l
    BY <1>2 DEF OneEach
  <2>1. j + n \in DOMAIN s /\ l + n \in DOMAIN s /\ back[j] = s[j + n] /\ back[l] = s[l + n]
    BY <1>2
  <2> QED BY <2>1 DEF OneEach
<1>4. ASSUME NEW j \in DOMAIN s PROVE s[j] \in ToSet(front) \cup ToSet(back)
  <2>1. CASE j <= n
    <3>1. j \in DOMAIN front /\ front[j] = s[j]
      BY <1>1, <2>1
    <3> QED BY <3>1 DEF ToSet
  <2>2. CASE j > n
    <3>1. j - n \in DOMAIN back /\ back[j - n] = s[j]
      BY <1>2, <2>2
    <3> QED BY <3>1 DEF ToSet
  <2> QED BY <2>1, <2>2
<1>5. ToSet(front) \subseteq ToSet(s) /\ ToSet(back) \subseteq ToSet(s)
  BY <1>1, <1>2 DEF ToSet
<1>6. ToSet(s) \subseteq ToSet(front) \cup ToSet(back)
  BY <1>4 DEF ToSet
<1> QED BY <1>1, <1>2, <1>3, <1>5, <1>6

LEMMA TailIs ==
  ASSUME NEW s \in Seq(Records), OneEach(s), s # <<>>
  PROVE  /\ Head(s) \in Records /\ Tail(s) \in Seq(Records) /\ OneEach(Tail(s))
         /\ ToSet(s) = {Head(s)} \cup ToSet(Tail(s))
<1>1. /\ Tail(s) \in Seq(Records) /\ Len(Tail(s)) = Len(s) - 1 /\ Len(s) > 0
      /\ \A j \in 1 .. Len(s) - 1 : Tail(s)[j] = s[j + 1]
      /\ Head(s) = s[1] /\ s[1] \in Records
  OBVIOUS
<1>2. OneEach(Tail(s))
  BY <1>1 DEF OneEach
<1>3. ASSUME NEW j \in DOMAIN s, j # 1 PROVE s[j] \in ToSet(Tail(s))
  <2>1. j - 1 \in DOMAIN Tail(s) /\ Tail(s)[j - 1] = s[j]
    BY <1>1, <1>3
  <2> QED BY <2>1 DEF ToSet
<1>4. ToSet(s) \subseteq {Head(s)} \cup ToSet(Tail(s))
  BY <1>1, <1>3 DEF ToSet
<1>5. {Head(s)} \cup ToSet(Tail(s)) \subseteq ToSet(s)
  BY <1>1 DEF ToSet
<1> QED BY <1>1, <1>2, <1>4, <1>5

LEMMA RecordAdded ==
  ASSUME NEW s \in Seq(Records), OneEach(s), NEW r \in Records, \A q \in ToSet(s) : q.box # r.box
  PROVE  /\ s \o <<r>> \in Seq(Records) /\ OneEach(s \o <<r>>)
         /\ ToSet(s \o <<r>>) = ToSet(s) \cup {r}
<1> DEFINE t == s \o <<r>>
<1>1. /\ t \in Seq(Records) /\ Len(t) = Len(s) + 1 /\ t[Len(s) + 1] = r
      /\ \A j \in 1 .. Len(s) : t[j] = s[j]
  OBVIOUS
<1>2. OneEach(t)
  <2>1. \A j \in 1 .. Len(s) : s[j].box # r.box
    BY DEF ToSet
  <2> QED BY <1>1, <2>1 DEF OneEach
<1>3. ToSet(t) \subseteq ToSet(s) \cup {r}
  BY <1>1 DEF ToSet
<1>4. ToSet(s) \subseteq ToSet(t)
  BY <1>1 DEF ToSet
<1>5. r \in ToSet(t)
  BY <1>1 DEF ToSet
<1> QED BY <1>1, <1>2, <1>3, <1>4, <1>5

LEMMA OneSeqIs == SetToSeq({}) = <<>> /\ \A r : SetToSeq({r}) = <<r>>
<1>1. SetToSeq({}) = <<>>
  <2>1. Cardinality({}) = 0
    BY FS_EmptySet
  <2>2. <<>> \in [1 .. 0 -> {}] /\ IsInjective(<<>>)
    BY DEF IsInjective
  <2>3. SetToSeq({}) \in [1 .. 0 -> {}]
    BY <2>1, <2>2 DEF SetToSeq
  <2> QED BY <2>3
<1>2. ASSUME NEW r PROVE SetToSeq({r}) = <<r>>
  <2>1. Cardinality({r}) = 1
    BY FS_Singleton
  <2>2. <<r>> \in [1 .. 1 -> {r}] /\ IsInjective(<<r>>)
    BY DEF IsInjective
  <2>3. SetToSeq({r}) \in [1 .. 1 -> {r}]
    BY <2>1, <2>2 DEF SetToSeq
  <2> QED BY <2>3
<1> QED BY <1>1, <1>2

(* What a new worker finds is every container that runs, once. *)
LEMMA FoundIs ==
  ASSUME PoolTypeOK, NEW found \in SetToSeqs(FoundRunning)
  PROVE  /\ found \in Seq(Records) /\ OneEach(found)
         /\ ToSet(found) = FoundRunning /\ FoundRunning \subseteq Records
<1>1. FoundRunning \subseteq Records
  BY PoolConstants DEF FoundRunning, Records, ByName, PoolTypeOK
<1>2. IsFiniteSet(FoundRunning)
  <2> DEFINE Up == {c \in Boxes : running[c] # 0}
             f == [b \in Up |-> [box |-> b, info |-> ByName]]
  <2>1. IsFiniteSet(Up)
    BY PoolConstants, FS_Subset
  <2>2. f \in Surjection(Up, FoundRunning)
    BY DEF Surjection, FoundRunning
  <2> QED BY <2>1, <2>2, FS_Surjection
<1> DEFINE n == Cardinality(FoundRunning)
<1>3. n \in Nat
  BY <1>2, FS_CardinalityType
<1>4. found \in [1 .. n -> FoundRunning] /\ \A i, j \in 1 .. n : i # j => found[i] # found[j]
  BY DEF SetToSeqs
<1>5. found \in Seq(Records) /\ DOMAIN found = 1 .. n
  BY <1>1, <1>3, <1>4
<1>6. OneEach(found)
  <2>1. \A r, s \in FoundRunning : r.box = s.box => r = s
    BY DEF FoundRunning
  <2> QED BY <2>1, <1>4, <1>5 DEF OneEach
<1>7. found \in Injection(1 .. n, FoundRunning)
  BY <1>4 DEF Injection, IsInjective
<1>8. IsFiniteSet(1 .. n) /\ Cardinality(1 .. n) = n
  BY <1>3, FS_Interval
<1>9. found \in Surjection(1 .. n, FoundRunning)
  BY <1>2, <1>7, <1>8, FS_Injection
<1>10. ToSet(found) = FoundRunning
  BY <1>4, <1>5, <1>9 DEF Surjection, ToSet
<1> QED BY <1>1, <1>5, <1>6, <1>10

-----------------------------------------------------------------------------
(* Who has a container in mind. *)

TurnRecords == [at : Acquiring \cup {"use"}, keeper : Keepers, box : Boxes, hand : SUBSET Records]

(* Somebody alive has the record, to use its container or to stop it. *)
IsHeld(r) ==
    \/ \E u \in Turns : r \in turn[u].hand
    \/ \E k \in Keepers : r \in active[k] \cup ToSet(warm[k]) \cup sweep[k].hand \cup sweep[k].warm

LEMMA TendedIs ==
  \A b \in Boxes : Tended(b) <=> \E r : r.box = b /\ IsHeld(r) /\ Hits(r)
<1> TAKE b \in Boxes
<1>1. ASSUME NEW r PROVE r \in Known(b) <=> r.box = b /\ IsHeld(r)
  <2> DEFINE S == {turn[u].hand : u \in Turns}
             T == {active[k] \cup ToSet(warm[k]) : k \in Keepers}
             W == {sweep[k].hand \cup sweep[k].warm : k \in Keepers}
  <2>1. IsHeld(r) <=> r \in UNION S \/ r \in UNION T \/ r \in UNION W
    BY DEF IsHeld
  <2>2. Known(b) = OfBox(b, UNION (S \cup T \cup W))
    BY DEF Known
  <2> HIDE DEF S, T, W
  <2> QED BY <2>1, <2>2 DEF OfBox
<1>2. Tended(b) <=> \E r : r.box = b /\ IsHeld(r) /\ Hits(r)
  BY <1>1 DEF Tended
<1> QED BY <1>2

LEMMA TendedThen == (\A b \in Boxes : Tended(b) <=> \E r : r.box = b /\ IsHeld(r) /\ Hits(r))'
BY TendedIs, PTL

(* A step that stops nothing and drops no record forgets no container. *)
LEMMA CarriedOn ==
  ASSUME NoneForgotten, running' = running,
         \A r : IsHeld(r) => IsHeld(r)',
         \A b \in Boxes : running[b] # 0 /\ running[b] \in left => running[b] \in left' \/ Tended(b)'
  PROVE  NoneForgotten'
<1> SUFFICES ASSUME NEW b \in Boxes, running[b] # 0 PROVE Tended(b)' \/ running[b] \in left'
  BY DEF NoneForgotten
<1>1. CASE running[b] \in left
  BY <1>1
<1>2. CASE Tended(b)
  <2>1. PICK r : r.box = b /\ IsHeld(r) /\ Hits(r)
    BY <1>2, TendedIs
  <2>2. IsHeld(r)' /\ Hits(r)'
    BY <2>1 DEF Hits
  <2> QED BY TendedThen, <2>1, <2>2
<1> QED BY <1>1, <1>2 DEF NoneForgotten

(* Nor does one that tries to stop what it drops. *)
LEMMA StopsOne ==
  ASSUME PoolTypeOK, NoneForgotten, NEW r \in Records, Stop(r),
         \A q : IsHeld(q) /\ q # r => IsHeld(q)'
  PROVE  NoneForgotten'
<1> SUFFICES ASSUME NEW b \in Boxes, running'[b] # 0 PROVE Tended(b)' \/ running'[b] \in left'
  BY DEF NoneForgotten
<1>1. running'[b] = running[b] /\ left \subseteq left' /\ (b = r.box /\ Hits(r) => running[b] \in left')
  BY DEF Stop, PoolTypeOK, Records
<1>2. CASE running[b] \in left
  BY <1>1, <1>2
<1>3. CASE Tended(b) /\ running[b] \notin left'
  <2>1. PICK q : q.box = b /\ IsHeld(q) /\ Hits(q)
    BY <1>3, TendedIs
  <2>2. q # r
    BY <1>1, <1>3, <2>1
  <2>3. IsHeld(q)' /\ Hits(q)'
    BY <1>1, <2>1, <2>2 DEF Hits
  <2> QED BY TendedThen, <2>1, <2>3
<1> QED BY <1>1, <1>2, <1>3 DEF NoneForgotten

LEMMA StopType ==
  ASSUME PoolTypeOK, Numbered, NEW r \in Records, Stop(r), faults' = faults \/ Fault
  PROVE  /\ running' \in [Boxes -> 0 .. MaxMade] /\ left' \subseteq 1 .. MaxMade
         /\ \A b \in Boxes : running'[b] \in {0, running[b]}
         /\ faults' \in 0 .. MaxFaults
<1>1. r.box \in Boxes /\ running[r.box] \in 0 .. MaxMade
  BY DEF Records, PoolTypeOK
<1>2. running' \in [Boxes -> 0 .. MaxMade] /\ \A b \in Boxes : running'[b] \in {0, running[b]}
  BY <1>1, PoolConstants DEF Stop, PoolTypeOK
<1>3. left' \subseteq 1 .. MaxMade
  <2>1. Hits(r) => running[r.box] \in 1 .. MaxMade
    BY <1>1, PoolConstants DEF Hits
  <2> QED BY <2>1 DEF Stop, PoolTypeOK
<1>4. faults' \in 0 .. MaxFaults
  BY PoolConstants DEF Stop, Fault, PoolTypeOK
<1> QED BY <1>2, <1>3, <1>4

LEMMA NumberedStays ==
  ASSUME PoolTypeOK, Numbered, made' = made, \A b \in Boxes : running'[b] \in {0, running[b]}
  PROVE  Numbered'
BY PoolConstants DEF Numbered, PoolTypeOK

-----------------------------------------------------------------------------
(* What turns are at. *)

Becomes(u, t) == turn' = [turn EXCEPT ![u] = t]

LEMMA TurnIs ==
  ASSUME PoolTypeOK, NEW u \in Turns, turn[u].at # "out"
  PROVE  turn[u] \in TurnRecords
BY DEF PoolTypeOK, Outside, TurnRecords

TurnAt(u, p, H) == [at |-> p, keeper |-> turn[u].keeper, box |-> turn[u].box, hand |-> H]

LEMMA TurnMoves ==
  ASSUME PoolTypeOK, NEW u \in Turns, turn[u].at # "out", NEW p, NEW H
  PROVE  /\ Go(u, p) => Becomes(u, TurnAt(u, p, turn[u].hand))
         /\ turn' = [turn EXCEPT ![u].at = p, ![u].hand = H] => Becomes(u, TurnAt(u, p, H))
<1>1. turn[u] \in TurnRecords
  BY TurnIs
<1>2. [turn[u] EXCEPT !.at = p] = TurnAt(u, p, turn[u].hand)
  BY <1>1 DEF TurnAt, TurnRecords
<1>3. [[turn[u] EXCEPT !.at = p] EXCEPT !.hand = H] = TurnAt(u, p, H)
  <2> DEFINE x == [turn[u] EXCEPT !.at = p]
  <2>2. x = TurnAt(u, p, turn[u].hand)
    BY <1>2
  <2> HIDE DEF x
  <2>3. [x EXCEPT !.hand = H] = TurnAt(u, p, H)
    BY <2>2 DEF TurnAt
  <2> QED BY <2>3 DEF x
<1>4. DOMAIN turn = Turns /\ turn = [v \in Turns |-> turn[v]]
  BY DEF PoolTypeOK
<1>5. Go(u, p) => Becomes(u, TurnAt(u, p, turn[u].hand))
  BY <1>2, <1>4 DEF Go, Becomes
<1>6. turn' = [turn EXCEPT ![u].at = p, ![u].hand = H] => Becomes(u, TurnAt(u, p, H))
  BY <1>3, <1>4 DEF Becomes
<1> QED BY <1>5, <1>6

LEMMA BecomesType ==
  ASSUME PoolTypeOK, NEW u \in Turns, NEW t \in {Outside} \cup TurnRecords, Becomes(u, t)
  PROVE  /\ turn' \in [Turns -> {Outside} \cup TurnRecords]
         /\ turn'[u] = t /\ \A v \in Turns \ {u} : turn'[v] = turn[v]
BY DEF PoolTypeOK, Becomes, TurnRecords

Acquires(t, k, b) == t.at \in Acquiring /\ t.keeper = k /\ t.box = b

(* One more acquires only where nobody does. *)
LEMMA StillOneAcquires ==
  ASSUME PoolTypeOK, OneAcquires, NEW u \in Turns, NEW t \in {Outside} \cup TurnRecords, Becomes(u, t),
         \A k \in Keepers, b \in Boxes :
            Acquires(t, k, b) => Acquires(turn[u], k, b) \/ ThreadLockFree(k, b)
  PROVE  OneAcquires'
<1>1. turn' \in [Turns -> {Outside} \cup TurnRecords] /\ turn'[u] = t /\ \A v \in Turns \ {u} : turn'[v] = turn[v]
  BY BecomesType
<1>2. ASSUME NEW v \in Turns, v # u, NEW k \in Keepers, NEW b \in Boxes, Acquires(t, k, b), Acquires(turn[v], k, b)
      PROVE  FALSE
  BY <1>2 DEF OneAcquires, Acquires, ThreadLockFree
<1>3. ASSUME NEW v \in Turns, turn'[v].at \in Acquiring PROVE turn'[v].keeper \in Keepers /\ turn'[v].box \in Boxes
  BY <1>1, <1>3 DEF TurnRecords, Outside, Acquiring, InFileLock
<1> SUFFICES ASSUME NEW v \in Turns, NEW w \in Turns, v # w,
                    turn'[v].at \in Acquiring, turn'[w].at \in Acquiring,
                    turn'[v].keeper = turn'[w].keeper, turn'[v].box = turn'[w].box
             PROVE  FALSE
  BY DEF OneAcquires
<1>4. CASE v = u
  BY <1>1, <1>2, <1>3, <1>4 DEF Acquires
<1>5. CASE w = u
  BY <1>1, <1>2, <1>3, <1>5 DEF Acquires
<1>6. CASE v # u /\ w # u
  BY <1>1, <1>6 DEF OneAcquires
<1> QED BY <1>4, <1>5, <1>6

(* What a turn at t holds, and what its worker then has of its chat. *)
Holds(t) ==
    /\ t.at \notin {"adopt", "evict", "ready"} => t.hand = {}
    /\ \A r, s \in t.hand : r = s
    /\ t.at \in {"adopt", "ready"} => \A r \in t.hand : r.box = t.box

(* No container comes to what a worker has of a chat but by who acquires it. *)
LEMMA TurnsGoOn ==
  ASSUME PoolTypeOK, OneAcquires, \A v \in Turns : TurnInv(v),
         NEW u \in Turns, NEW t \in {Outside} \cup TurnRecords, Becomes(u, t), Holds(t),
         \A k \in Keepers, b \in Boxes :
            /\ Active(k, b)' => Active(k, b) \/ Acquires(turn[u], k, b)
            /\ Warm(k, b)' => Warm(k, b) \/ Active(k, b),
         t.at \in Acquiring => ~Active(t.keeper, t.box)',
         t.at \in InFileLock => ~Warm(t.keeper, t.box)'
  PROVE  \A v \in Turns : TurnInv(v)'
<1>1. turn'[u] = t /\ \A v \in Turns \ {u} : turn'[v] = turn[v]
  BY BecomesType
<1>2. TurnInv(u)'
  <2>1. Active(turn[u].keeper, turn[u].box)' <=> Active(t.keeper, t.box)'
    BY <1>1 DEF Active
  <2> QED BY <1>1 DEF TurnInv, Holds, Active, Warm
<1>3. ASSUME NEW v \in Turns, v # u PROVE TurnInv(v)'
  <2>1. ASSUME turn[v].at \in Acquiring PROVE turn[v].keeper \in Keepers /\ turn[v].box \in Boxes /\ ~Acquires(turn[u], turn[v].keeper, turn[v].box)
    BY <1>3, <2>1 DEF PoolTypeOK, Outside, Acquires, OneAcquires, Acquiring, InFileLock
  <2>2. turn'[v] = turn[v] /\ TurnInv(v)
    BY <1>1, <1>3
  <2>3. turn[v].at \in Acquiring => ~Active(turn[v].keeper, turn[v].box)'
    BY <2>1, <2>2 DEF TurnInv
  <2>4. turn[v].at \in InFileLock => ~Warm(turn[v].keeper, turn[v].box)'
    BY <2>1, <2>2 DEF TurnInv, Acquiring
  <2> QED BY <2>2, <2>3, <2>4 DEF TurnInv, Active, Warm
<1> QED BY <1>2, <1>3

LEMMA TurnsStay ==
  ASSUME PoolTypeOK, \A v \in Turns : TurnInv(v), turn' = turn,
         \A k \in Keepers, b \in Boxes :
            (Active(k, b)' => Active(k, b)) /\ (Warm(k, b)' => Warm(k, b))
  PROVE  \A v \in Turns : TurnInv(v)'
<1> SUFFICES ASSUME NEW v \in Turns PROVE TurnInv(v)'
  OBVIOUS
<1>1. turn[v].at \in Acquiring => turn[v].keeper \in Keepers /\ turn[v].box \in Boxes
  BY TurnIs DEF TurnRecords, Acquiring, InFileLock
<1>2. turn[v].at \in Acquiring => ~Active(turn[v].keeper, turn[v].box)'
  BY <1>1 DEF TurnInv
<1>3. turn[v].at \in InFileLock => ~Warm(turn[v].keeper, turn[v].box)'
  BY <1>1 DEF TurnInv, Acquiring
<1> QED BY <1>2, <1>3 DEF TurnInv, Active, Warm

-----------------------------------------------------------------------------
(* What workers have. *)

Sweeps == [act : SUBSET Boxes, sure : SUBSET Boxes, hand : SUBSET Records, warm : SUBSET Records]

LEMMA TouchIs ==
  ASSUME PoolTypeOK, \A j \in Keepers : SweepInv(j), NEW k \in Keepers, NEW b \in Boxes, Touch(k, b)
  PROVE  /\ sweep' \in [Keepers -> Sweeps]
         /\ \A j \in Keepers : /\ sweep'[j].hand = sweep[j].hand /\ sweep'[j].warm = sweep[j].warm
                               /\ SweepInv(j)'
<1>1. /\ sweep' \in [Keepers -> Sweeps]
      /\ \A j \in Keepers : /\ sweep'[j].hand = sweep[j].hand /\ sweep'[j].warm = sweep[j].warm
                            /\ sweep'[j].sure = sweep[j].sure
  BY ZenonT(60) DEF Touch, PoolTypeOK, Sweeps
<1> QED BY <1>1 DEF SweepInv

(* A worker that has less has still each container once. *)
LEMMA Shrinks ==
  ASSUME \A k \in Keepers : OnePlace(k),
         \A k \in Keepers : /\ active'[k] \subseteq active[k] /\ ToSet(warm'[k]) \subseteq ToSet(warm[k])
                            /\ OneEach(warm'[k])
  PROVE  /\ \A k \in Keepers : OnePlace(k)'
         /\ \A k \in Keepers, b \in Boxes : (Active(k, b)' => Active(k, b)) /\ (Warm(k, b)' => Warm(k, b))
<1>1. \A k \in Keepers, b \in Boxes : (Active(k, b)' => Active(k, b)) /\ (Warm(k, b)' => Warm(k, b))
  BY DEF Active, Warm, OfBox
<1> QED BY <1>1 DEF OnePlace, OneEach

(* The worker keeps a container it has not: nothing it had is lost, and nobody has to find this one. *)
LEMMA KeepIs ==
  ASSUME PoolTypeOK, Numbered, \A j \in Keepers : SweepInv(j),
         NEW k \in Keepers, NEW r \in Records, Keep(k, r), ~Active(k, r.box), running' = running
  PROVE  /\ active' \in [Keepers -> SUBSET Records]
         /\ active'[k] = active[k] \cup {r} /\ \A j \in Keepers \ {k} : active'[j] = active[j]
         /\ sweep' \in [Keepers -> Sweeps]
         /\ \A j \in Keepers : /\ sweep'[j].hand = sweep[j].hand /\ sweep'[j].warm = sweep[j].warm
                               /\ SweepInv(j)'
         /\ left' \subseteq 1 .. MaxMade
         /\ \A c \in Boxes : running[c] # 0 /\ running[c] \in left => running[c] \in left' \/ Tended(c)'
<1>1. r.box \in Boxes
  BY DEF Records
<1>2. /\ active' \in [Keepers -> SUBSET Records]
      /\ active'[k] = active[k] \cup {r} /\ \A j \in Keepers \ {k} : active'[j] = active[j]
  BY DEF Keep, Active, OfBox, PoolTypeOK
<1>3. left' \subseteq 1 .. MaxMade
  BY DEF Keep, PoolTypeOK
<1>4. ASSUME NEW c \in Boxes, running[c] # 0, running[c] \in left, running[c] \notin left' PROVE Tended(c)'
  <2>1. Hits(r) /\ running[c] = running[r.box]
    BY <1>4 DEF Keep
  <2>2. c = r.box
    BY <1>1, <1>4, <2>1 DEF Numbered
  <2>3. Hits(r)'
    BY <2>1 DEF Hits
  <2>4. IsHeld(r)'
    BY <1>2 DEF IsHeld
  <2> QED BY <2>2, <2>3, <2>4, TendedThen
<1> QED BY <1>1, <1>2, <1>3, <1>4, TouchIs DEF Keep

(* The records a worker has are where they were or where it put them. *)
KeepsMemory(k) == active[k] \cup ToSet(warm[k]) \subseteq active'[k] \cup ToSet(warm'[k])

LEMMA GoneIs ==
  ASSUME PoolTypeOK, NEW k \in Keepers, NEW b \in Boxes, OneEach(warm[k])
  PROVE  /\ Gone(k, b) \in Seq(Records) /\ OneEach(Gone(k, b))
         /\ ToSet(Gone(k, b)) = ToSet(warm[k]) \ OfBox(b, ToSet(warm[k]))
<1>1. warm[k] \in Seq(Records)
  BY DEF PoolTypeOK
<1>2. CASE Warm(k, b)
  <2> DEFINE i == Place(k, b)
  <2>1. i \in DOMAIN warm[k] /\ warm[k][i].box = b
    BY <1>2 DEF Place, Warm, OfBox, ToSet
  <2>2. OfBox(b, ToSet(warm[k])) = {warm[k][i]}
    BY <2>1 DEF OfBox, ToSet, OneEach
  <2> HIDE DEF i
  <2>3. Gone(k, b) = RemoveAt(warm[k], i)
    BY <1>2 DEF Gone, i
  <2> QED BY <1>1, <2>1, <2>2, <2>3, RemoveAtIs
<1>3. CASE ~Warm(k, b)
  BY <1>1, <1>3 DEF Gone, Warm
<1> QED BY <1>2, <1>3

(* What was warm is active. *)
LEMMA ClaimIs ==
  ASSUME PoolTypeOK, Numbered, \A j \in Keepers : OnePlace(j) /\ SweepInv(j),
         NEW k \in Keepers, NEW b \in Boxes, Claim(k, b), ~Active(k, b), running' = running
  PROVE  /\ active' \in [Keepers -> SUBSET Records] /\ warm' \in [Keepers -> Seq(Records)]
         /\ \A j \in Keepers : OnePlace(j)' /\ KeepsMemory(j)
         /\ \A j \in Keepers, c \in Boxes : /\ Active(j, c)' => Active(j, c) \/ (j = k /\ c = b)
                                            /\ Warm(j, c)' => Warm(j, c)
         /\ sweep' \in [Keepers -> Sweeps]
         /\ \A j \in Keepers : /\ sweep'[j].hand = sweep[j].hand /\ sweep'[j].warm = sweep[j].warm
                               /\ SweepInv(j)'
         /\ left' \subseteq 1 .. MaxMade
         /\ \A c \in Boxes : running[c] # 0 /\ running[c] \in left => running[c] \in left' \/ Tended(c)'
<1>1. PICK r \in OfBox(b, ToSet(warm[k])) : Keep(k, r)
  BY DEF Claim
<1>2. r \in Records /\ r.box = b
  BY <1>1 DEF OfBox, ToSet, PoolTypeOK
<1>3. /\ active' \in [Keepers -> SUBSET Records]
      /\ active'[k] = active[k] \cup {r} /\ \A j \in Keepers \ {k} : active'[j] = active[j]
  BY <1>1, <1>2, KeepIs
<1>4. /\ warm' \in [Keepers -> Seq(Records)] /\ OneEach(warm'[k])
      /\ ToSet(warm'[k]) = ToSet(warm[k]) \ OfBox(b, ToSet(warm[k]))
      /\ \A j \in Keepers \ {k} : warm'[j] = warm[j]
  BY GoneIs DEF Claim, PoolTypeOK, OnePlace
<1>5. OfBox(b, ToSet(warm[k])) = {r}
  BY <1>1 DEF OfBox, ToSet, OnePlace, OneEach
<1>6. \A j \in Keepers : KeepsMemory(j)
  BY <1>3, <1>4, <1>5 DEF KeepsMemory
<1>7. \A j \in Keepers, c \in Boxes : /\ Active(j, c)' => Active(j, c) \/ (j = k /\ c = b)
                                      /\ Warm(j, c)' => Warm(j, c) /\ ~(j = k /\ c = b)
  BY <1>2, <1>3, <1>4 DEF Active, Warm, OfBox
<1>8. \A j \in Keepers : OnePlace(j)'
  <2> SUFFICES ASSUME NEW j \in Keepers PROVE OnePlace(j)'
    OBVIOUS
  <2>1. OneEach(warm'[j])
    BY <1>4 DEF OnePlace
  <2>2. \A c \in Boxes : ~(Active(j, c)' /\ Warm(j, c)')
    BY <1>7 DEF OnePlace
  <2>3. \A q, s \in active'[j] : q.box = s.box => q = s
    BY <1>2, <1>3 DEF OnePlace, Active, OfBox
  <2> QED BY <2>1, <2>2, <2>3 DEF OnePlace, OneEach
<1> QED BY <1>1, <1>2, <1>3, <1>4, <1>6, <1>7, <1>8, KeepIs

(* A turn's step that keeps the memory, and the record the turn had, forgets nothing. *)
LEMMA NothingDropped ==
  ASSUME PoolTypeOK, NoneForgotten, running' = running,
         NEW u \in Turns, NEW t \in {Outside} \cup TurnRecords, Becomes(u, t),
         \A j \in Keepers : /\ KeepsMemory(j)
                            /\ sweep[j].hand \cup sweep[j].warm \subseteq sweep'[j].hand \cup sweep'[j].warm,
         \A r \in turn[u].hand : r \in t.hand \/ \E j \in Keepers : r \in active'[j],
         \A c \in Boxes : running[c] # 0 /\ running[c] \in left => running[c] \in left' \/ Tended(c)'
  PROVE  NoneForgotten'
<1>1. turn'[u] = t /\ \A v \in Turns \ {u} : turn'[v] = turn[v]
  BY BecomesType
<1>2. ASSUME NEW r, IsHeld(r) PROVE IsHeld(r)'
  <2>1. CASE \E v \in Turns : r \in turn[v].hand
    BY <1>1, <2>1 DEF IsHeld
  <2>2. CASE \E k \in Keepers : r \in active[k] \cup ToSet(warm[k])
    BY <2>2 DEF IsHeld, KeepsMemory
  <2>3. CASE \E k \in Keepers : r \in sweep[k].hand \cup sweep[k].warm
    BY <2>3 DEF IsHeld
  <2> QED BY <1>2, <2>1, <2>2, <2>3 DEF IsHeld
<1> QED BY <1>2, CarriedOn

-----------------------------------------------------------------------------
(* The steps of a turn. *)

LEMMA FastPathKeeps ==
  ASSUME PoolInv, NEW u \in Turns, NEW k \in Keepers, NEW b \in Boxes,
         turn[u].at \in {"out", "use"}, FastPath(u, k, b), calls' \in 0 .. MaxCalls
  PROVE  PoolInv'
<1> DEFINE t(p) == [at |-> p, keeper |-> k, box |-> b, hand |-> {}]
<1>1. turn[u].hand = {} /\ turn[u].at \notin Acquiring
  BY DEF PoolInv, TurnInv, Acquiring, InFileLock
<1>2. PICK p \in {"use", "warm"} :
         /\ Becomes(u, t(p))
         /\ \/ Active(k, b) /\ running[b] # 0 /\ p = "use" /\ UNCHANGED active
            \/ Active(k, b) /\ running[b] = 0 /\ active' = [active EXCEPT ![k] = @ \ OfBox(b, @)]
            \/ ~Active(k, b) /\ UNCHANGED active
  BY DEF FastPath, Becomes
<1>3. t(p) \in TurnRecords
  BY DEF TurnRecords, Acquiring
<1>4. /\ active' \in [Keepers -> SUBSET Records] /\ warm' = warm
      /\ \A j \in Keepers : active'[j] \subseteq active[j]
      /\ \A j \in Keepers : \A q \in active[j] : q \in active'[j] \/ (q.box = b /\ running[b] = 0)
      /\ p = "warm" => ~Active(k, b)'
  <2>1. CASE p = "use" /\ UNCHANGED active
    BY <2>1 DEF FastPath, PoolInv, PoolTypeOK
  <2>2. CASE active' = [active EXCEPT ![k] = @ \ OfBox(b, @)] /\ running[b] = 0
    BY <2>2 DEF FastPath, PoolInv, PoolTypeOK, Active, OfBox
  <2>3. CASE ~Active(k, b) /\ UNCHANGED active
    BY <2>3 DEF FastPath, PoolInv, PoolTypeOK, Active
  <2> QED BY <1>2, <2>1, <2>2, <2>3
<1>5. \A j \in Keepers, c \in Boxes : (Active(j, c)' => Active(j, c)) /\ (Warm(j, c)' => Warm(j, c))
  BY <1>4, Shrinks DEF PoolInv, OnePlace
<1>6. \A j \in Keepers : OnePlace(j)'
  BY <1>4, Shrinks DEF PoolInv, OnePlace
<1>7. /\ sweep' \in [Keepers -> Sweeps]
      /\ \A j \in Keepers : /\ sweep'[j].hand = sweep[j].hand /\ sweep'[j].warm = sweep[j].warm
                            /\ SweepInv(j)'
  <2>1. CASE Touch(k, b)
    BY <2>1, TouchIs DEF PoolInv
  <2>2. CASE UNCHANGED sweep
    BY <2>2 DEF PoolInv, PoolTypeOK, Sweeps, SweepInv
  <2> QED BY <2>1, <2>2 DEF FastPath
<1>8. PoolTypeOK'
  BY <1>2, <1>3, <1>4, <1>7, BecomesType DEF FastPath, PoolInv, PoolTypeOK, TurnRecords, Sweeps
<1>9. Numbered'
  BY NumberedStays DEF FastPath, PoolInv
<1>10. OneAcquires'
  <2>1. ThreadLockFree(k, b)
    BY DEF FastPath
  <2> QED BY <1>2, <1>3, <2>1, StillOneAcquires DEF PoolInv, Acquires
<1>11. \A v \in Turns : TurnInv(v)'
  BY <1>2, <1>3, <1>4, <1>5, TurnsGoOn DEF PoolInv, Holds, Acquiring, InFileLock
<1>12. NoneForgotten'
  <2>1. turn'[u] = t(p) /\ \A v \in Turns \ {u} : turn'[v] = turn[v]
    BY <1>2, <1>3, BecomesType DEF PoolInv
  <2>2. ASSUME NEW r, IsHeld(r), Hits(r) PROVE IsHeld(r)'
    <3>1. CASE \E v \in Turns : r \in turn[v].hand
      BY <1>1, <2>1, <3>1 DEF IsHeld
    <3>2. CASE \E j \in Keepers : r \in active[j] \cup ToSet(warm[j])
      BY <1>4, <2>2, <3>2 DEF IsHeld, Hits
    <3>3. CASE \E j \in Keepers : r \in sweep[j].hand \cup sweep[j].warm
      BY <1>7, <3>3 DEF IsHeld
    <3> QED BY <2>2, <3>1, <3>2, <3>3 DEF IsHeld
  <2>3. running' = running /\ left' = left
    BY DEF FastPath
  <2>4. ASSUME NEW c \in Boxes, Tended(c) PROVE Tended(c)'
    <3>1. PICK r : r.box = c /\ IsHeld(r) /\ Hits(r)
      BY <2>4, TendedIs
    <3>2. IsHeld(r)' /\ Hits(r)'
      BY <2>2, <2>3, <3>1 DEF Hits
    <3> QED BY <3>1, <3>2, TendedThen
  <2> QED BY <2>3, <2>4 DEF NoneForgotten, PoolInv
<1> QED BY <1>6, <1>7, <1>8, <1>9, <1>10, <1>11, <1>12 DEF PoolInv

(* A step of a turn under way that leaves the containers alone: to t, with less or more in memory. *)
LEMMA TurnKeeps ==
  ASSUME PoolInv, NEW u \in Turns, turn[u].at # "out",
         NEW t \in {Outside} \cup TurnRecords, Becomes(u, t), Holds(t),
         \A k \in Keepers, b \in Boxes : Acquires(t, k, b) => Acquires(turn[u], k, b),
         active' \in [Keepers -> SUBSET Records], warm' \in [Keepers -> Seq(Records)],
         sweep' \in [Keepers -> Sweeps], left' \subseteq 1 .. MaxMade,
         \A j \in Keepers : /\ OnePlace(j)' /\ SweepInv(j)' /\ KeepsMemory(j)
                            /\ sweep[j].hand \cup sweep[j].warm \subseteq sweep'[j].hand \cup sweep'[j].warm,
         \A k \in Keepers, b \in Boxes :
            /\ Active(k, b)' => Active(k, b) \/ Acquires(turn[u], k, b)
            /\ Warm(k, b)' => Warm(k, b) \/ Active(k, b),
         t.at \in Acquiring => ~Active(t.keeper, t.box)',
         t.at \in InFileLock => ~Warm(t.keeper, t.box)',
         \A r \in turn[u].hand : r \in t.hand \/ \E j \in Keepers : r \in active'[j],
         \A c \in Boxes : running[c] # 0 /\ running[c] \in left => running[c] \in left' \/ Tended(c)',
         UNCHANGED <<running, made, calls, up, faults>>
  PROVE  PoolInv'
<1>1. PoolTypeOK'
  BY BecomesType DEF PoolInv, PoolTypeOK, TurnRecords, Sweeps
<1>2. Numbered'
  BY NumberedStays DEF PoolInv
<1>3. OneAcquires'
  BY StillOneAcquires DEF PoolInv
<1>4. \A v \in Turns : TurnInv(v)'
  BY TurnsGoOn DEF PoolInv
<1>5. NoneForgotten'
  BY NothingDropped DEF PoolInv
<1> QED BY <1>1, <1>2, <1>3, <1>4, <1>5 DEF PoolInv

(* Memory and sweeps as they were keep what TurnKeeps asks of them. *)
LEMMA SameMemory ==
  ASSUME PoolInv, UNCHANGED <<memory, sweep>>
  PROVE  /\ active' \in [Keepers -> SUBSET Records] /\ warm' \in [Keepers -> Seq(Records)]
         /\ sweep' \in [Keepers -> Sweeps]
         /\ \A j \in Keepers : /\ OnePlace(j)' /\ SweepInv(j)' /\ KeepsMemory(j)
                               /\ sweep[j].hand \cup sweep[j].warm \subseteq sweep'[j].hand \cup sweep'[j].warm
         /\ \A k \in Keepers, b \in Boxes : (Active(k, b)' <=> Active(k, b)) /\ (Warm(k, b)' <=> Warm(k, b))
BY DEF PoolInv, PoolTypeOK, Sweeps, memory, OnePlace, SweepInv, KeepsMemory, Active, Warm, OneEach, OfBox

LEMMA WarmPathKeeps ==
  ASSUME PoolInv, NEW u \in Turns, NEW k \in Keepers, NEW b \in Boxes,
         turn[u].keeper = k, turn[u].box = b, WarmPath(u, k, b)
  PROVE  PoolInv'
<1>1. turn[u].at = "warm" /\ turn[u] \in TurnRecords /\ turn[u].hand = {} /\ ~Active(k, b)
  BY TurnIs DEF WarmPath, PoolInv, TurnInv, Acquiring, InFileLock
<1>2. CASE Claim(k, b) /\ Go(u, "use")
  <2> DEFINE t == TurnAt(u, "use", {})
  <2>1. Becomes(u, t) /\ t \in TurnRecords /\ Holds(t) /\ t.at = "use"
    BY <1>1, <1>2, TurnMoves DEF PoolInv, TurnAt, TurnRecords, Holds
  <2> HIDE DEF t
  <2>2. Acquires(turn[u], k, b)
    BY <1>1 DEF Acquires, Acquiring
  <2>3. running' = running /\ UNCHANGED <<made, calls, up, faults>>
    BY DEF WarmPath
  <2> QED BY <1>1, <1>2, <2>1, <2>2, <2>3, ClaimIs, TurnKeeps DEF PoolInv, Acquires, Acquiring, InFileLock
<1>3. CASE ~Warm(k, b) /\ Go(u, "lock") /\ UNCHANGED <<memory, sweep, left>>
  <2> DEFINE t == TurnAt(u, "lock", {})
  <2>1. /\ Becomes(u, t) /\ t \in TurnRecords /\ Holds(t) /\ t.at = "lock"
        /\ t.keeper = k /\ t.box = b
    BY <1>1, <1>3, TurnMoves DEF PoolInv, TurnAt, TurnRecords, Holds, Acquiring
  <2> HIDE DEF t
  <2>2. \A j \in Keepers, c \in Boxes : Acquires(t, j, c) => Acquires(turn[u], j, c)
    BY <1>1, <2>1 DEF Acquires, Acquiring
  <2>3. left' \subseteq 1 .. MaxMade /\ left' = left
    BY <1>3 DEF PoolInv, PoolTypeOK
  <2> QED BY <1>1, <1>3, <2>1, <2>2, <2>3, SameMemory, TurnKeeps DEF WarmPath, InFileLock
<1> QED BY <1>2, <1>3 DEF WarmPath

LEMMA RecheckKeeps ==
  ASSUME PoolInv, NEW u \in Turns, NEW k \in Keepers, NEW b \in Boxes,
         turn[u].keeper = k, turn[u].box = b, Recheck(u, k, b)
  PROVE  PoolInv'
<1>1. turn[u].at = "lock" /\ turn[u] \in TurnRecords /\ turn[u].hand = {} /\ ~Active(k, b)
  BY TurnIs DEF Recheck, PoolInv, TurnInv, Acquiring, InFileLock
<1>2. CASE Claim(k, b) /\ Go(u, "use")
  <2> DEFINE t == TurnAt(u, "use", {})
  <2>1. Becomes(u, t) /\ t \in TurnRecords /\ Holds(t) /\ t.at = "use"
    BY <1>1, <1>2, TurnMoves DEF PoolInv, TurnAt, TurnRecords, Holds
  <2> HIDE DEF t
  <2>2. Acquires(turn[u], k, b)
    BY <1>1 DEF Acquires, Acquiring
  <2>3. running' = running /\ UNCHANGED <<made, calls, up, faults>>
    BY DEF Recheck
  <2> QED BY <1>1, <1>2, <2>1, <2>2, <2>3, ClaimIs, TurnKeeps DEF PoolInv, Acquires, Acquiring, InFileLock
<1>3. CASE ~Warm(k, b) /\ Go(u, "discover") /\ UNCHANGED <<memory, sweep, left>>
  <2> DEFINE t == TurnAt(u, "discover", {})
  <2>1. /\ Becomes(u, t) /\ t \in TurnRecords /\ Holds(t) /\ t.at = "discover"
        /\ t.keeper = k /\ t.box = b
    BY <1>1, <1>3, TurnMoves DEF PoolInv, TurnAt, TurnRecords, Holds, Acquiring, InFileLock
  <2> HIDE DEF t
  <2>2. \A j \in Keepers, c \in Boxes : Acquires(t, j, c) => Acquires(turn[u], j, c)
    BY <1>1, <2>1 DEF Acquires, Acquiring
  <2>3. left' \subseteq 1 .. MaxMade /\ left' = left
    BY <1>3 DEF PoolInv, PoolTypeOK
  <2> QED BY <1>1, <1>3, <2>1, <2>2, <2>3, SameMemory, TurnKeeps DEF Recheck
<1> QED BY <1>1, <1>2, <1>3 DEF Recheck

(* A step within the file lock that leaves all but the turn alone. *)
LEMMA LockedKeeps ==
  ASSUME PoolInv, NEW u \in Turns, NEW k \in Keepers, NEW b \in Boxes,
         turn[u].keeper = k, turn[u].box = b, turn[u].at \in InFileLock, turn[u].hand = {},
         NEW p \in InFileLock, NEW H \in SUBSET Records, Becomes(u, TurnAt(u, p, H)), Holds(TurnAt(u, p, H)),
         UNCHANGED <<memory, running, made, calls, sweep, up, faults, left>>
  PROVE  PoolInv'
<1> DEFINE t == TurnAt(u, p, H)
<1>1. turn[u] \in TurnRecords /\ ~Active(k, b) /\ ~Warm(k, b) /\ turn[u].at \in Acquiring
  BY TurnIs DEF PoolInv, TurnInv, Acquiring, InFileLock
<1>2. t \in TurnRecords /\ t.at \in Acquiring /\ t.keeper = k /\ t.box = b
  BY <1>1 DEF TurnAt, TurnRecords, Acquiring
<1>3. Becomes(u, t) /\ Holds(t)
  OBVIOUS
<1> HIDE DEF t
<1>4. \A j \in Keepers, c \in Boxes : Acquires(t, j, c) => Acquires(turn[u], j, c)
  BY <1>1, <1>2 DEF Acquires
<1>5. left' \subseteq 1 .. MaxMade /\ left' = left
  BY DEF PoolInv, PoolTypeOK
<1> QED BY <1>1, <1>2, <1>3, <1>4, <1>5, SameMemory, TurnKeeps DEF InFileLock

LEMMA DiscoverKeeps ==
  ASSUME PoolInv, NEW u \in Turns, NEW k \in Keepers, NEW b \in Boxes,
         turn[u].keeper = k, turn[u].box = b, Discover(u, b)
  PROVE  PoolInv'
<1> DEFINE s == [box |-> b, info |-> ByName]
<1>1. s \in Records
  BY PoolConstants DEF Records, ByName
<1>2. turn[u].at = "discover" /\ turn[u].hand = {} /\ turn[u].at \in InFileLock
  BY DEF Discover, PoolInv, TurnInv, InFileLock
<1>3. Becomes(u, TurnAt(u, "adopt", {s}))
  BY <1>2, TurnMoves DEF Discover, Hold, PoolInv
<1>4. Holds(TurnAt(u, "adopt", {s}))
  BY DEF Holds, TurnAt
<1> QED BY <1>1, <1>2, <1>3, <1>4, LockedKeeps DEF Discover, InFileLock

(* The worker keeps what the turn holds. *)
LEMMA KeepsInHand ==
  ASSUME PoolInv, NEW u \in Turns, NEW k \in Keepers, NEW b \in Boxes,
         turn[u].keeper = k, turn[u].box = b, turn[u].at \in {"adopt", "ready"},
         NEW r \in turn[u].hand, Keep(k, r),
         turn' = [turn EXCEPT ![u].at = "use", ![u].hand = {}],
         UNCHANGED <<warm, running, made, calls, up, faults>>
  PROVE  PoolInv'
<1> DEFINE t == TurnAt(u, "use", {})
<1>1. /\ turn[u] \in TurnRecords /\ turn[u].hand = {r} /\ r \in Records /\ r.box = b
      /\ Acquires(turn[u], k, b) /\ ~Active(k, b) /\ ~Warm(k, b)
  <2>1. turn[u] \in TurnRecords
    BY TurnIs DEF PoolInv
  <2> QED BY <2>1 DEF PoolInv, TurnInv, Acquires, Acquiring, InFileLock, TurnRecords
<1>2. Becomes(u, t) /\ t \in TurnRecords /\ Holds(t) /\ t.at = "use"
  <2>1. Becomes(u, t)
    BY TurnMoves DEF PoolInv
  <2> QED BY <1>1, <2>1 DEF TurnAt, TurnRecords, Holds
<1> HIDE DEF t
<1>3. /\ active' \in [Keepers -> SUBSET Records]
      /\ active'[k] = active[k] \cup {r} /\ \A j \in Keepers \ {k} : active'[j] = active[j]
      /\ sweep' \in [Keepers -> Sweeps]
      /\ \A j \in Keepers : /\ sweep'[j].hand = sweep[j].hand /\ sweep'[j].warm = sweep[j].warm
                            /\ SweepInv(j)'
      /\ left' \subseteq 1 .. MaxMade
      /\ \A c \in Boxes : running[c] # 0 /\ running[c] \in left => running[c] \in left' \/ Tended(c)'
  BY <1>1, KeepIs DEF PoolInv
<1>4. \A j \in Keepers, c \in Boxes : /\ Active(j, c)' => Active(j, c) \/ (j = k /\ c = b)
                                      /\ Warm(j, c)' <=> Warm(j, c)
  BY <1>1, <1>3 DEF Active, Warm, OfBox
<1>5. \A j \in Keepers : OnePlace(j)'
  <2> SUFFICES ASSUME NEW j \in Keepers PROVE OnePlace(j)'
    OBVIOUS
  <2>1. OneEach(warm'[j])
    BY DEF PoolInv, OnePlace
  <2>2. \A c \in Boxes : ~(Active(j, c)' /\ Warm(j, c)')
    BY <1>1, <1>4 DEF PoolInv, OnePlace
  <2>3. \A q, s \in active'[j] : q.box = s.box => q = s
    BY <1>1, <1>3 DEF PoolInv, OnePlace, Active, OfBox
  <2> QED BY <2>1, <2>2, <2>3 DEF OnePlace, OneEach
<1>6. \A j \in Keepers : KeepsMemory(j)
  BY <1>3 DEF KeepsMemory
<1>7. warm' \in [Keepers -> Seq(Records)]
  BY DEF PoolInv, PoolTypeOK
<1> QED BY <1>1, <1>2, <1>3, <1>4, <1>5, <1>6, <1>7, TurnKeeps DEF Acquires, Acquiring, InFileLock

LEMMA AdoptKeeps ==
  ASSUME PoolInv, NEW u \in Turns, NEW k \in Keepers, NEW b \in Boxes,
         turn[u].keeper = k, turn[u].box = b, Adopt(u, k)
  PROVE  PoolInv'
BY KeepsInHand DEF Adopt

LEMMA MakeRoomKeeps ==
  ASSUME PoolInv, NEW u \in Turns, NEW k \in Keepers, NEW b \in Boxes,
         turn[u].keeper = k, turn[u].box = b, MakeRoom(u, k)
  PROVE  PoolInv'
<1>1. /\ turn[u].at = "discover" /\ turn[u].hand = {} /\ turn[u].at \in InFileLock
      /\ turn[u] \in TurnRecords /\ ~Active(k, b) /\ ~Warm(k, b)
  <2>1. turn[u] \in TurnRecords
    BY TurnIs DEF MakeRoom, PoolInv
  <2> QED BY <2>1 DEF MakeRoom, PoolInv, TurnInv, InFileLock, Acquiring
<1>2. CASE Go(u, "create") /\ UNCHANGED warm
  <2>1. Becomes(u, TurnAt(u, "create", {})) /\ Holds(TurnAt(u, "create", {}))
    BY <1>1, <1>2, TurnMoves DEF PoolInv, Holds, TurnAt
  <2> QED BY <1>1, <1>2, <2>1, LockedKeeps DEF MakeRoom, InFileLock, memory
<1>3. CASE warm[k] # <<>> /\ Hold(u, "evict", Head(warm[k])) /\ warm' = [warm EXCEPT ![k] = Tail(@)]
  <2> DEFINE h == Head(warm[k])
             t == TurnAt(u, "evict", {h})
  <2>1. /\ h \in Records /\ Tail(warm[k]) \in Seq(Records) /\ OneEach(Tail(warm[k]))
        /\ ToSet(warm[k]) = {h} \cup ToSet(Tail(warm[k]))
    BY <1>3, TailIs DEF PoolInv, PoolTypeOK, OnePlace
  <2>2. /\ warm' \in [Keepers -> Seq(Records)] /\ warm'[k] = Tail(warm[k])
        /\ \A j \in Keepers \ {k} : warm'[j] = warm[j]
    BY <1>3, <2>1 DEF PoolInv, PoolTypeOK
  <2>3. Becomes(u, t)
    BY <1>1, <1>3, TurnMoves DEF Hold, PoolInv
  <2>4. /\ t \in TurnRecords /\ Holds(t) /\ t.at = "evict" /\ t.keeper = k /\ t.box = b
        /\ t.hand = {h}
    BY <1>1, <2>1 DEF TurnAt, TurnRecords, Holds, Acquiring, InFileLock
  <2> HIDE DEF t
  <2>5. UNCHANGED <<active, running, made, calls, sweep, up, faults, left>>
    BY DEF MakeRoom
  <2>6. turn'[u] = t /\ \A v \in Turns \ {u} : turn'[v] = turn[v]
    BY <2>3, <2>4, BecomesType DEF PoolInv
  <2>7. /\ \A j \in Keepers : OnePlace(j)'
        /\ \A j \in Keepers, c \in Boxes : (Active(j, c)' => Active(j, c)) /\ (Warm(j, c)' => Warm(j, c))
    <3>1. \A j \in Keepers : /\ active'[j] \subseteq active[j] /\ ToSet(warm'[j]) \subseteq ToSet(warm[j])
                             /\ OneEach(warm'[j])
      BY <2>1, <2>2, <2>5 DEF PoolInv, OnePlace
    <3> QED BY <3>1, Shrinks DEF PoolInv
  <2>8. PoolTypeOK'
    BY <2>2, <2>3, <2>4, <2>5, BecomesType DEF PoolInv, PoolTypeOK, TurnRecords
  <2>9. Numbered'
    BY <2>5, NumberedStays DEF PoolInv
  <2>10. OneAcquires'
    BY <1>1, <2>3, <2>4, StillOneAcquires DEF PoolInv, Acquires, Acquiring
  <2>11. \A v \in Turns : TurnInv(v)'
    BY <1>1, <2>3, <2>4, <2>7, TurnsGoOn DEF PoolInv
  <2>12. \A j \in Keepers : SweepInv(j)'
    BY <2>5 DEF PoolInv, SweepInv
  <2>13. NoneForgotten'
    <3>1. ASSUME NEW r, IsHeld(r) PROVE IsHeld(r)'
      <4>1. CASE \E v \in Turns : r \in turn[v].hand
        BY <1>1, <2>6, <4>1 DEF IsHeld
      <4>2. CASE r \in ToSet(warm[k])
        BY <2>1, <2>2, <2>4, <2>6, <4>2 DEF IsHeld
      <4>3. CASE \E j \in Keepers : r \in active[j] \cup sweep[j].hand \cup sweep[j].warm
        BY <2>5, <4>3 DEF IsHeld
      <4>4. CASE \E j \in Keepers \ {k} : r \in ToSet(warm[j])
        BY <2>2, <4>4 DEF IsHeld
      <4> QED BY <3>1, <4>1, <4>2, <4>3, <4>4 DEF IsHeld
    <3> QED BY <2>5, <3>1, CarriedOn DEF PoolInv
  <2> QED BY <2>7, <2>8, <2>9, <2>10, <2>11, <2>12, <2>13 DEF PoolInv
<1> QED BY <1>2, <1>3 DEF MakeRoom

(* A turn stops what it holds, and goes on without. *)
LEMMA TurnStops ==
  ASSUME PoolInv, NEW u \in Turns, turn[u].at # "out", NEW r \in turn[u].hand, Stop(r),
         NEW t \in {Outside} \cup TurnRecords, Becomes(u, t), t.hand = {}, t.at \notin {"adopt", "evict", "ready"},
         t.at \in Acquiring => t.keeper = turn[u].keeper /\ t.box = turn[u].box /\ turn[u].at \in InFileLock,
         UNCHANGED <<memory, sweep, made, calls, up>>
  PROVE  PoolInv'
<1>1. r \in Records /\ turn[u].hand = {r} /\ (turn[u].at \in Acquiring => turn[u].keeper \in Keepers /\ turn[u].box \in Boxes)
  <2>1. turn[u] \in TurnRecords
    BY TurnIs DEF PoolInv
  <2> QED BY <2>1 DEF PoolInv, TurnInv, TurnRecords
<1>2. faults' = faults \/ Fault
  BY DEF Stop
<1>3. /\ running' \in [Boxes -> 0 .. MaxMade] /\ left' \subseteq 1 .. MaxMade
      /\ \A c \in Boxes : running'[c] \in {0, running[c]}
      /\ faults' \in 0 .. MaxFaults
  BY <1>1, <1>2, StopType DEF PoolInv
<1>4. turn' \in [Turns -> {Outside} \cup TurnRecords] /\ turn'[u] = t /\ \A v \in Turns \ {u} : turn'[v] = turn[v]
  BY BecomesType DEF PoolInv
<1>5. PoolTypeOK'
  BY <1>3, <1>4 DEF PoolInv, PoolTypeOK, memory, TurnRecords
<1>6. Numbered'
  BY <1>3, NumberedStays DEF PoolInv
<1>7. OneAcquires'
  BY StillOneAcquires DEF PoolInv, Acquires, Acquiring
<1>8. /\ \A j \in Keepers : OnePlace(j)' /\ SweepInv(j)'
      /\ \A j \in Keepers, c \in Boxes : (Active(j, c)' <=> Active(j, c)) /\ (Warm(j, c)' <=> Warm(j, c))
  BY SameMemory
<1>9. \A v \in Turns : TurnInv(v)'
  <2>1. Holds(t)
    BY DEF Holds
  <2>2. turn[u].at \in InFileLock => ~Active(turn[u].keeper, turn[u].box) /\ ~Warm(turn[u].keeper, turn[u].box)
    BY DEF PoolInv, TurnInv, Acquiring
  <2>3. t.at \in Acquiring => ~Active(t.keeper, t.box)' /\ ~Warm(t.keeper, t.box)'
    BY <1>1, <1>8, <2>2 DEF Acquiring
  <2>4. t.at \in InFileLock => t.at \in Acquiring
    BY DEF Acquiring
  <2> QED BY <1>8, <2>1, <2>3, <2>4, TurnsGoOn DEF PoolInv
<1>10. NoneForgotten'
  <2>1. ASSUME NEW q, IsHeld(q), q # r PROVE IsHeld(q)'
    <3>1. CASE \E v \in Turns : q \in turn[v].hand
      BY <1>1, <1>4, <2>1, <3>1 DEF IsHeld
    <3>2. CASE \E j \in Keepers : q \in active[j] \cup ToSet(warm[j]) \cup sweep[j].hand \cup sweep[j].warm
      BY <3>2 DEF IsHeld, memory
    <3> QED BY <2>1, <3>1, <3>2 DEF IsHeld
  <2> QED BY <1>1, <2>1, StopsOne DEF PoolInv
<1> QED BY <1>5, <1>6, <1>7, <1>8, <1>9, <1>10 DEF PoolInv

LEMMA EvictOldestKeeps ==
  ASSUME PoolInv, NEW u \in Turns, NEW k \in Keepers, NEW b \in Boxes,
         turn[u].keeper = k, turn[u].box = b, EvictOldest(u)
  PROVE  PoolInv'
<1> DEFINE t == TurnAt(u, "create", {})
<1>1. turn[u].at = "evict" /\ turn[u] \in TurnRecords /\ turn[u].at \in InFileLock
  BY TurnIs DEF EvictOldest, PoolInv, InFileLock
<1>2. Becomes(u, t)
  BY <1>1, TurnMoves DEF EvictOldest, PoolInv
<1>3. t \in TurnRecords /\ t.hand = {} /\ t.at = "create" /\ t.keeper = turn[u].keeper /\ t.box = turn[u].box
  BY <1>1 DEF TurnAt, TurnRecords, Acquiring, InFileLock
<1> HIDE DEF t
<1>4. PICK r \in turn[u].hand : Stop(r)
  BY DEF EvictOldest
<1>5. UNCHANGED <<memory, sweep, made, calls, up>>
  BY DEF EvictOldest
<1> QED BY <1>1, <1>2, <1>3, <1>4, <1>5, TurnStops

LEMMA WaitReadyKeeps ==
  ASSUME PoolInv, NEW u \in Turns, NEW k \in Keepers, NEW b \in Boxes,
         turn[u].keeper = k, turn[u].box = b, WaitReady(u, k, b)
  PROVE  PoolInv'
<1>1. turn[u].at = "ready" /\ UNCHANGED <<made, calls, up>>
  BY DEF WaitReady
<1>2. PICK r \in turn[u].hand :
        \/ /\ running[b] # 0 /\ Keep(k, r)
           /\ turn' = [turn EXCEPT ![u].at = "use", ![u].hand = {}]
           /\ UNCHANGED <<warm, running, faults>>
        \/ Stop(r) /\ Leave(u) /\ UNCHANGED <<memory, sweep>>
  BY DEF WaitReady
<1>3. CASE Keep(k, r) /\ turn' = [turn EXCEPT ![u].at = "use", ![u].hand = {}] /\ UNCHANGED <<warm, running, faults>>
  BY <1>1, <1>3, KeepsInHand
<1>4. CASE Stop(r) /\ Leave(u) /\ UNCHANGED <<memory, sweep>>
  <2>1. Becomes(u, Outside) /\ Outside.hand = {} /\ Outside.at = "out"
    BY <1>4 DEF Leave, Becomes, Outside
  <2> QED BY <1>1, <1>4, <2>1, TurnStops DEF Acquiring, InFileLock
<1> QED BY <1>2, <1>3, <1>4

LEMMA CreateBoxKeeps ==
  ASSUME PoolInv, NEW u \in Turns, NEW k \in Keepers, NEW b \in Boxes,
         turn[u].keeper = k, turn[u].box = b, CreateBox(u, b)
  PROVE  PoolInv'
<1>1. /\ turn[u].at = "create" /\ turn[u].hand = {} /\ turn[u].at \in InFileLock
      /\ turn[u] \in TurnRecords /\ ~Active(k, b) /\ ~Warm(k, b)
  <2>1. turn[u] \in TurnRecords
    BY TurnIs DEF CreateBox, PoolInv
  <2> QED BY <2>1 DEF CreateBox, PoolInv, TurnInv, InFileLock, Acquiring
<1>2. CASE running[b] # 0 /\ Hold(u, "ready", [box |-> b, info |-> ByName]) /\ UNCHANGED <<running, made>>
  <2> DEFINE s == [box |-> b, info |-> ByName]
  <2>1. s \in Records
    BY PoolConstants DEF Records, ByName
  <2>2. Becomes(u, TurnAt(u, "ready", {s}))
    BY <1>1, <1>2, TurnMoves DEF Hold, PoolInv
  <2>3. Holds(TurnAt(u, "ready", {s}))
    BY DEF Holds, TurnAt
  <2> QED BY <1>1, <1>2, <2>1, <2>2, <2>3, LockedKeeps DEF CreateBox, InFileLock
<1>3. CASE Leave(u) /\ UNCHANGED <<running, made>>
  <2>1. Becomes(u, Outside) /\ Holds(Outside) /\ Outside.at = "out"
    BY <1>3 DEF Leave, Becomes, Outside, Holds
  <2>2. left' \subseteq 1 .. MaxMade /\ left' = left /\ UNCHANGED <<memory, sweep, calls, up, faults>>
    BY DEF CreateBox, PoolInv, PoolTypeOK
  <2> QED BY <1>1, <1>3, <2>1, <2>2, SameMemory, TurnKeeps DEF Acquires, Acquiring, InFileLock
<1>4. CASE /\ running[b] = 0 /\ made < MaxMade /\ made' = made + 1
           /\ running' = [running EXCEPT ![b] = made']
           /\ Hold(u, "ready", [box |-> b, info |-> made'])
  <2> DEFINE s == [box |-> b, info |-> made']
             t == TurnAt(u, "ready", {s})
  <2>1. s \in Records /\ made \in 0 .. MaxMade /\ made' \in 1 .. MaxMade
    BY <1>4, PoolConstants DEF Records, PoolInv, PoolTypeOK
  <2>2. Becomes(u, t)
    BY <1>1, <1>4, TurnMoves DEF Hold, PoolInv
  <2>3. /\ t \in TurnRecords /\ Holds(t) /\ t.at = "ready" /\ t.keeper = k /\ t.box = b
        /\ t.hand = {s}
    BY <1>1, <2>1 DEF TurnAt, TurnRecords, Holds, Acquiring, InFileLock
  <2> HIDE DEF t
  <2>4. UNCHANGED <<memory, calls, sweep, up, faults, left>>
    BY DEF CreateBox
  <2>5. turn' \in [Turns -> {Outside} \cup TurnRecords] /\ turn'[u] = t /\ \A v \in Turns \ {u} : turn'[v] = turn[v]
    BY <2>2, <2>3, BecomesType DEF PoolInv
  <2>6. /\ running' \in [Boxes -> 0 .. MaxMade] /\ running'[b] = made + 1
        /\ \A c \in Boxes \ {b} : running'[c] = running[c]
    BY <1>4, <2>1 DEF PoolInv, PoolTypeOK
  <2>7. PoolTypeOK'
    BY <2>1, <2>4, <2>5, <2>6 DEF PoolInv, PoolTypeOK, memory, TurnRecords
  <2>8. Numbered'
    <3>1. \A c \in Boxes : running[c] \in Int /\ running[c] <= made
      BY DEF PoolInv, PoolTypeOK, Numbered
    <3>2. \A c, d \in Boxes : running[c] = running[d] /\ running[c] # 0 => c = d
      BY DEF PoolInv, Numbered
    <3> QED BY <1>4, <2>1, <2>6, <3>1, <3>2 DEF Numbered
  <2>9. OneAcquires'
    BY <1>1, <2>2, <2>3, StillOneAcquires DEF PoolInv, Acquires, Acquiring
  <2>10. /\ \A j \in Keepers : OnePlace(j)' /\ SweepInv(j)'
         /\ \A j \in Keepers, c \in Boxes : (Active(j, c)' <=> Active(j, c)) /\ (Warm(j, c)' <=> Warm(j, c))
    BY <2>4, SameMemory
  <2>11. \A v \in Turns : TurnInv(v)'
    BY <1>1, <2>2, <2>3, <2>10, TurnsGoOn DEF PoolInv
  <2>12. NoneForgotten'
    <3> SUFFICES ASSUME NEW c \in Boxes, running'[c] # 0 PROVE Tended(c)' \/ running'[c] \in left'
      BY DEF NoneForgotten
    <3>1. CASE c = b
      <4>1. PICK r : r = s
        OBVIOUS
      <4>2. r.box = b /\ r.info = running'[b]
        BY <1>4, <2>6, <4>1
      <4>3. Hits(r)'
        BY <2>1, <2>6, <4>2 DEF Hits
      <4>4. IsHeld(r)'
        BY <2>3, <2>5, <4>1 DEF IsHeld
      <4> QED BY <3>1, <4>2, <4>3, <4>4, TendedThen
    <3>2. CASE c # b /\ Tended(c)
      <4>1. PICK r : r.box = c /\ IsHeld(r) /\ Hits(r)
        BY <3>2, TendedIs
      <4>2. Hits(r)'
        BY <2>6, <3>2, <4>1 DEF Hits
      <4>3. IsHeld(r)'
        BY <1>1, <2>4, <2>5, <4>1 DEF IsHeld, memory
      <4> QED BY <4>1, <4>2, <4>3, TendedThen
    <3> QED BY <2>4, <2>6, <3>1, <3>2 DEF PoolInv, NoneForgotten
  <2> QED BY <2>7, <2>8, <2>9, <2>10, <2>11, <2>12 DEF PoolInv
<1> QED BY <1>2, <1>3, <1>4 DEF CreateBox

LEMMA UseBoxKeeps ==
  ASSUME PoolInv, NEW u \in Turns, NEW k \in Keepers, NEW b \in Boxes,
         turn[u].keeper = k, turn[u].box = b, UseBox(u, k, b)
  PROVE  PoolInv'
<1>1. CASE /\ Active(k, b) /\ Touch(k, b)
           /\ UNCHANGED <<memory, running, made, calls, turn, up, faults, left>>
  <2>1. turn[u] \in TurnRecords /\ turn[u].at = "use" /\ turn[u].hand = {}
    BY TurnIs DEF UseBox, PoolInv, TurnInv
  <2>2. /\ sweep' \in [Keepers -> Sweeps]
        /\ \A j \in Keepers : /\ sweep'[j].hand = sweep[j].hand /\ sweep'[j].warm = sweep[j].warm
                              /\ SweepInv(j)'
    BY <1>1, TouchIs DEF PoolInv
  <2>3. PoolTypeOK'
    BY <1>1, <2>2 DEF PoolInv, PoolTypeOK, memory, Sweeps
  <2>4. Numbered' /\ OneAcquires'
    BY <1>1 DEF PoolInv, Numbered, OneAcquires
  <2>5. /\ \A j \in Keepers : OnePlace(j)'
        /\ \A j \in Keepers, c \in Boxes : (Active(j, c)' => Active(j, c)) /\ (Warm(j, c)' => Warm(j, c))
    BY <1>1, Shrinks DEF PoolInv, memory, OnePlace
  <2>6. \A v \in Turns : TurnInv(v)'
    BY <1>1, <2>5, TurnsStay DEF PoolInv
  <2>7. NoneForgotten'
    <3>1. \A r : IsHeld(r) => IsHeld(r)'
      BY <1>1, <2>2 DEF IsHeld, memory
    <3> QED BY <1>1, <3>1, CarriedOn DEF PoolInv
  <2> QED BY <2>2, <2>3, <2>4, <2>5, <2>6, <2>7 DEF PoolInv
<1>2. CASE FastPath(u, k, b) /\ UNCHANGED calls
  BY <1>2, FastPathKeeps DEF UseBox, PoolInv, PoolTypeOK
<1> QED BY <1>1, <1>2 DEF UseBox

LEMMA AcquireBoxKeeps ==
  ASSUME PoolInv, NEW u \in Turns, NEW k \in Keepers, NEW b \in Boxes, AcquireBox(u, k, b)
  PROVE  PoolInv'
<1>1. calls' \in 0 .. MaxCalls
  BY PoolConstants DEF AcquireBox, PoolInv, PoolTypeOK
<1> QED BY <1>1, FastPathKeeps DEF AcquireBox

LEMMA ReleaseBoxKeeps ==
  ASSUME PoolInv, NEW u \in Turns, NEW k \in Keepers, NEW b \in Boxes,
         turn[u].keeper = k, turn[u].box = b, ReleaseBox(u, k, b)
  PROVE  PoolInv'
<1>1. turn[u].at = "use" /\ turn[u] \in TurnRecords /\ turn[u].hand = {}
  BY TurnIs DEF ReleaseBox, PoolInv, TurnInv
<1> DEFINE R == OfBox(b, active[k])
<1>2. /\ active' \in [Keepers -> SUBSET Records] /\ active'[k] = active[k] \ R
      /\ \A j \in Keepers \ {k} : active'[j] = active[j] /\ warm'[j] = warm[j]
  BY DEF ReleaseBox, PoolInv, PoolTypeOK
<1>3. /\ Parked(k, b) \in Seq(Records) /\ OneEach(Parked(k, b))
      /\ ToSet(Parked(k, b)) = ToSet(warm[k]) \cup R
  <2>1. warm[k] \in Seq(Records) /\ OneEach(warm[k])
    BY DEF PoolInv, PoolTypeOK, OnePlace
  <2>2. CASE Warm(k, b)
    <3>1. R = {}
      BY <2>2 DEF PoolInv, OnePlace, Active
    <3> QED BY <2>1, <2>2, <3>1 DEF Parked
  <2>3. CASE ~Warm(k, b) /\ R = {}
    <3>1. SetToSeq(R) = <<>>
      BY <2>3, OneSeqIs
    <3>2. warm[k] \o <<>> = warm[k]
      BY <2>1
    <3>3. Parked(k, b) = warm[k]
      BY <2>3, <3>1, <3>2 DEF Parked
    <3> QED BY <2>1, <2>3, <3>3
  <2>4. CASE ~Warm(k, b) /\ R # {}
    <3>1. PICK r \in R : r \in active[k] /\ r.box = b
      BY <2>4 DEF OfBox
    <3>2. R = {r} /\ r \in Records
      BY <3>1 DEF PoolInv, OnePlace, OfBox, PoolTypeOK
    <3>3. \A q \in ToSet(warm[k]) : q.box # r.box
      BY <2>4, <3>1 DEF Warm, OfBox
    <3>4. SetToSeq(R) = <<r>>
      BY <3>2, OneSeqIs
    <3>5. Parked(k, b) = warm[k] \o <<r>>
      BY <2>4, <3>4 DEF Parked
    <3> HIDE DEF R
    <3> QED BY <2>1, <3>2, <3>3, <3>5, RecordAdded
  <2> QED BY <2>2, <2>3, <2>4
<1>4. warm' \in [Keepers -> Seq(Records)] /\ warm'[k] = Parked(k, b)
  BY <1>3 DEF ReleaseBox, PoolInv, PoolTypeOK
<1>5. /\ sweep' \in [Keepers -> Sweeps]
      /\ \A j \in Keepers : /\ sweep'[j].hand = sweep[j].hand /\ sweep'[j].warm = sweep[j].warm
                            /\ SweepInv(j)'
  BY TouchIs DEF PoolInv, ReleaseBox
<1>6. \A j \in Keepers, c \in Boxes : /\ Active(j, c)' => Active(j, c) /\ ~(j = k /\ c = b)
                                      /\ Warm(j, c)' => Warm(j, c) \/ (Active(j, c) /\ j = k /\ c = b)
  BY <1>2, <1>3, <1>4 DEF Active, Warm, OfBox
<1>7. \A j \in Keepers : OnePlace(j)'
  <2> SUFFICES ASSUME NEW j \in Keepers PROVE OnePlace(j)'
    OBVIOUS
  <2>1. OneEach(warm'[j])
    BY <1>2, <1>3, <1>4 DEF PoolInv, OnePlace
  <2>2. \A c \in Boxes : ~(Active(j, c)' /\ Warm(j, c)')
    BY <1>6 DEF PoolInv, OnePlace
  <2>3. \A q, s \in active'[j] : q.box = s.box => q = s
    BY <1>2 DEF PoolInv, OnePlace
  <2> QED BY <2>1, <2>2, <2>3 DEF OnePlace, OneEach
<1>8. \A j \in Keepers : KeepsMemory(j)
  BY <1>2, <1>3, <1>4 DEF KeepsMemory
<1>9. Becomes(u, Outside) /\ Holds(Outside) /\ Outside.at = "out"
  BY DEF ReleaseBox, Leave, Becomes, Outside, Holds
<1>10. left' \subseteq 1 .. MaxMade /\ left' = left /\ UNCHANGED <<running, made, calls, up, faults>>
  BY DEF ReleaseBox, PoolInv, PoolTypeOK
<1> QED BY <1>1, <1>2, <1>4, <1>5, <1>6, <1>7, <1>8, <1>9, <1>10, TurnKeeps DEF Acquires, Acquiring, InFileLock

-----------------------------------------------------------------------------
(* The steps of a worker, and of what befalls containers and workers. *)

Everything(k) == active[k] \cup ToSet(warm[k]) \cup sweep[k].hand \cup sweep[k].warm

(* A worker moves records from its memory to its sweep. *)
LEMMA SweepKeeps ==
  ASSUME PoolInv, active' \in [Keepers -> SUBSET Records], warm' \in [Keepers -> Seq(Records)],
         sweep' \in [Keepers -> Sweeps], up' \in [Keepers -> BOOLEAN], faults' \in 0 .. MaxFaults,
         \A j \in Keepers : /\ active'[j] \subseteq active[j] /\ ToSet(warm'[j]) \subseteq ToSet(warm[j])
                            /\ OneEach(warm'[j]) /\ SweepInv(j)'
                            /\ Everything(j) \subseteq Everything(j)',
         UNCHANGED <<running, made, calls, turn, left>>
  PROVE  PoolInv'
<1>1. PoolTypeOK'
  BY DEF PoolInv, PoolTypeOK, Sweeps
<1>2. Numbered' /\ OneAcquires'
  BY DEF PoolInv, Numbered, OneAcquires
<1>3. /\ \A j \in Keepers : OnePlace(j)'
      /\ \A j \in Keepers, c \in Boxes : (Active(j, c)' => Active(j, c)) /\ (Warm(j, c)' => Warm(j, c))
  BY Shrinks DEF PoolInv
<1>4. \A v \in Turns : TurnInv(v)'
  BY <1>3, TurnsStay DEF PoolInv
<1>5. NoneForgotten'
  <2>1. \A r : IsHeld(r) => IsHeld(r)'
    BY DEF IsHeld, Everything
  <2> QED BY <2>1, CarriedOn DEF PoolInv
<1> QED BY <1>1, <1>2, <1>3, <1>4, <1>5 DEF PoolInv

LEMMA SweepRecord ==
  ASSUME NEW s \in Sweeps, NEW A, NEW W
  PROVE  [[s EXCEPT !.act = A] EXCEPT !.warm = W] = [act |-> A, sure |-> s.sure, hand |-> s.hand, warm |-> W]
<1> DEFINE x == [s EXCEPT !.act = A]
<1>1. x = [act |-> A, sure |-> s.sure, hand |-> s.hand, warm |-> s.warm]
  BY DEF Sweeps
<1> HIDE DEF x
<1>2. [x EXCEPT !.warm = W] = [act |-> A, sure |-> s.sure, hand |-> s.hand, warm |-> W]
  BY <1>1
<1> QED BY <1>2 DEF x

LEMMA BeginSweepKeeps ==
  ASSUME PoolInv, NEW k \in Keepers, BeginSweep(k)
  PROVE  PoolInv'
<1>1. PICK noted \in SUBSET {r.box : r \in active[k]}, n \in 0 .. Len(warm[k]) :
        /\ sweep' = [sweep EXCEPT ![k].act = noted, ![k].warm = ToSet(SubSeq(warm[k], 1, n))]
        /\ warm' = [warm EXCEPT ![k] = SubSeq(@, n + 1, Len(@))]
  BY DEF BeginSweep
<1> DEFINE front == SubSeq(warm[k], 1, n)
           back == SubSeq(warm[k], n + 1, Len(warm[k]))
<1>2. /\ front \in Seq(Records) /\ back \in Seq(Records) /\ OneEach(back)
      /\ ToSet(warm[k]) = ToSet(front) \cup ToSet(back)
  BY SplitIs DEF PoolInv, PoolTypeOK, OnePlace
<1>3. noted \in SUBSET Boxes
  BY DEF PoolInv, PoolTypeOK, Records
<1>4. ToSet(front) \in SUBSET Records
  BY <1>2 DEF ToSet
<1>5. /\ warm' \in [Keepers -> Seq(Records)] /\ warm'[k] = back
      /\ \A j \in Keepers \ {k} : warm'[j] = warm[j] /\ sweep'[j] = sweep[j]
  BY <1>1, <1>2 DEF PoolInv, PoolTypeOK
<1>6. /\ sweep' \in [Keepers -> Sweeps] /\ sweep[k] = AtRest
      /\ sweep'[k].hand = {} /\ sweep'[k].warm = ToSet(front) /\ sweep'[k].sure = {}
  <2> HIDE DEF front
  <2>1. sweep' = [sweep EXCEPT ![k].act = noted, ![k].warm = ToSet(front)]
    BY <1>1 DEF front
  <2>2. sweep[k] = AtRest /\ sweep \in [Keepers -> Sweeps]
    BY DEF BeginSweep, PoolInv, PoolTypeOK, Sweeps
  <2> DEFINE y == [act |-> noted, sure |-> {}, hand |-> {}, warm |-> ToSet(front)]
  <2>3. [[sweep[k] EXCEPT !.act = noted] EXCEPT !.warm = ToSet(front)]
          = [act |-> noted, sure |-> sweep[k].sure, hand |-> sweep[k].hand, warm |-> ToSet(front)]
    BY <2>2, SweepRecord
  <2>4. [[sweep[k] EXCEPT !.act = noted] EXCEPT !.warm = ToSet(front)] = y
    <3>1. sweep[k].sure = {} /\ sweep[k].hand = {}
      BY <2>2 DEF AtRest
    <3> QED BY <2>3, <3>1
  <2>5. sweep' = [sweep EXCEPT ![k] = [[sweep[k] EXCEPT !.act = noted] EXCEPT !.warm = ToSet(front)]]
    BY <2>1, <2>2
  <2>6. y \in Sweeps
    BY <1>3, <1>4 DEF Sweeps
  <2>7. y.hand = {} /\ y.warm = ToSet(front) /\ y.sure = {}
    OBVIOUS
  <2> HIDE DEF y
  <2> QED BY <2>2, <2>4, <2>5, <2>6, <2>7
<1> HIDE DEF front, back
<1>7. \A j \in Keepers : ToSet(warm'[j]) \subseteq ToSet(warm[j]) /\ OneEach(warm'[j])
  BY <1>2, <1>5 DEF PoolInv, OnePlace
<1>8. \A j \in Keepers : SweepInv(j)'
  BY <1>5, <1>6 DEF PoolInv, SweepInv
<1>9. \A j \in Keepers : Everything(j) \subseteq Everything(j)'
  <2>1. active' = active
    BY DEF BeginSweep
  <2>2. Everything(k) \subseteq Everything(k)'
    BY <1>2, <1>5, <1>6, <2>1 DEF Everything, AtRest
  <2>3. \A j \in Keepers \ {k} : Everything(j) \subseteq Everything(j)'
    BY <1>5, <2>1 DEF Everything
  <2> QED BY <2>2, <2>3
<1> QED BY <1>5, <1>6, <1>7, <1>8, <1>9, SweepKeeps DEF BeginSweep, PoolInv, PoolTypeOK

LEMMA CheckIdleKeeps ==
  ASSUME PoolInv, NEW k \in Keepers, NEW b \in Boxes, CheckIdle(k, b)
  PROVE  PoolInv'
<1>1. /\ sweep' \in [Keepers -> Sweeps]
      /\ \A j \in Keepers : sweep'[j].hand = sweep[j].hand /\ sweep'[j].warm = sweep[j].warm
      /\ sweep[k].hand = {} /\ \A j \in Keepers \ {k} : sweep'[j] = sweep[j]
  BY ZenonT(60) DEF CheckIdle, PoolInv, PoolTypeOK, Sweeps
<1>2. \A j \in Keepers : SweepInv(j)'
  BY <1>1 DEF PoolInv, SweepInv
<1>3. \A j \in Keepers : /\ active'[j] \subseteq active[j] /\ ToSet(warm'[j]) \subseteq ToSet(warm[j])
                         /\ OneEach(warm'[j]) /\ Everything(j) \subseteq Everything(j)'
  BY <1>1 DEF CheckIdle, memory, PoolInv, OnePlace, Everything
<1> QED BY <1>1, <1>2, <1>3, SweepKeeps DEF CheckIdle, memory, PoolInv, PoolTypeOK

LEMMA DestroyTakesKeeps ==
  ASSUME PoolInv, NEW k \in Keepers, NEW b \in Boxes, DestroyTakes(k, b)
  PROVE  PoolInv'
<1> DEFINE A == OfBox(b, active[k])
           W == OfBox(b, ToSet(warm[k]))
           H == TakenOut(k, b)
<1>1. ToSet(warm[k]) \subseteq Records
  BY DEF ToSet, PoolInv, PoolTypeOK
<1>2. H = A \cup W /\ H \in SUBSET Records /\ \A r, s \in H : r = s
  <2>1. A = {} \/ W = {}
    BY DEF PoolInv, OnePlace, Active, Warm
  <2>2. \A r, s \in A : r = s
    BY DEF PoolInv, OnePlace, OfBox
  <2>3. \A r, s \in W : r = s
    BY DEF PoolInv, OnePlace, OneEach, OfBox, ToSet
  <2>4. H = A \cup W
    BY <2>1 DEF TakenOut, Active
  <2>5. A \subseteq Records /\ W \subseteq Records
    BY <1>1 DEF OfBox, PoolInv, PoolTypeOK
  <2> HIDE DEF A, W, H
  <2> QED BY <2>1, <2>2, <2>3, <2>4, <2>5
<1>3. Gone(k, b) \in Seq(Records) /\ OneEach(Gone(k, b)) /\ ToSet(Gone(k, b)) = ToSet(warm[k]) \ W
  BY GoneIs DEF PoolInv, OnePlace
<1> HIDE DEF A, W, H
<1>4. /\ active' \in [Keepers -> SUBSET Records] /\ warm' \in [Keepers -> Seq(Records)]
      /\ active'[k] = active[k] \ A /\ warm'[k] = Gone(k, b)
      /\ \A j \in Keepers \ {k} : active'[j] = active[j] /\ warm'[j] = warm[j]
  BY <1>3 DEF DestroyTakes, PoolInv, PoolTypeOK, A
<1>5. /\ sweep' \in [Keepers -> Sweeps] /\ sweep'[k].hand = H /\ sweep'[k].sure = {}
      /\ sweep'[k].warm = sweep[k].warm /\ \A j \in Keepers \ {k} : sweep'[j] = sweep[j]
  BY ZenonT(60), <1>2 DEF DestroyTakes, PoolInv, PoolTypeOK, Sweeps, H
<1>6. sweep[k].hand = {}
  BY DEF DestroyTakes, PoolInv, SweepInv
<1>7. \A j \in Keepers : SweepInv(j)'
  BY <1>2, <1>5 DEF PoolInv, SweepInv
<1>8. \A j \in Keepers : /\ active'[j] \subseteq active[j] /\ ToSet(warm'[j]) \subseteq ToSet(warm[j])
                         /\ OneEach(warm'[j])
  BY <1>3, <1>4 DEF PoolInv, OnePlace
<1>9. \A j \in Keepers : Everything(j) \subseteq Everything(j)'
  BY <1>2, <1>3, <1>4, <1>5, <1>6 DEF Everything
<1> QED BY <1>4, <1>5, <1>7, <1>8, <1>9, SweepKeeps DEF DestroyTakes, PoolInv, PoolTypeOK

LEMMA DestroyStopsKeeps ==
  ASSUME PoolInv, NEW k \in Keepers, NEW r \in Records, DestroyStops(k, r)
  PROVE  PoolInv'
<1>1. /\ sweep' \in [Keepers -> Sweeps] /\ \A j \in Keepers \ {k} : sweep'[j] = sweep[j]
      /\ \A j \in Keepers : sweep'[j].sure = sweep[j].sure /\ sweep'[j].hand \subseteq sweep[j].hand
      /\ \A q : q # r /\ q \in sweep[k].hand \cup sweep[k].warm => q \in sweep'[k].hand \cup sweep'[k].warm
  <2>1. CASE r \in sweep[k].hand /\ sweep' = [sweep EXCEPT ![k].hand = {}]
    <3>1. \A q \in sweep[k].hand : q = r
      BY <2>1 DEF PoolInv, SweepInv
    <3> QED BY <2>1, <3>1 DEF PoolInv, PoolTypeOK, Sweeps
  <2>2. CASE r \in sweep[k].warm /\ sweep' = [sweep EXCEPT ![k].warm = @ \ {r}]
    BY <2>2 DEF PoolInv, PoolTypeOK, Sweeps
  <2> QED BY <2>1, <2>2 DEF DestroyStops
<1>2. Stop(r) /\ UNCHANGED <<memory, made, calls, turn, up>> /\ (faults' = faults \/ Fault)
  BY DEF DestroyStops, Stop
<1>3. /\ running' \in [Boxes -> 0 .. MaxMade] /\ left' \subseteq 1 .. MaxMade
      /\ \A c \in Boxes : running'[c] \in {0, running[c]}
      /\ faults' \in 0 .. MaxFaults
  BY <1>2, StopType DEF PoolInv
<1>4. PoolTypeOK'
  BY <1>1, <1>2, <1>3 DEF PoolInv, PoolTypeOK, memory, Sweeps
<1>5. Numbered' /\ OneAcquires'
  BY <1>2, <1>3, NumberedStays DEF PoolInv, OneAcquires
<1>6. \A j \in Keepers : SweepInv(j)'
  BY <1>1 DEF PoolInv, SweepInv
<1>7. /\ \A j \in Keepers : OnePlace(j)'
      /\ \A j \in Keepers, c \in Boxes : (Active(j, c)' => Active(j, c)) /\ (Warm(j, c)' => Warm(j, c))
  BY <1>2, Shrinks DEF PoolInv, memory, OnePlace
<1>8. \A v \in Turns : TurnInv(v)'
  BY <1>2, <1>7, TurnsStay DEF PoolInv
<1>9. NoneForgotten'
  <2>1. \A q : IsHeld(q) /\ q # r => IsHeld(q)'
    BY <1>1, <1>2 DEF IsHeld, memory
  <2> QED BY <1>2, <2>1, StopsOne DEF PoolInv
<1> QED BY <1>4, <1>5, <1>6, <1>7, <1>8, <1>9 DEF PoolInv

LEMMA BoxDiesKeeps ==
  ASSUME PoolInv, NEW b \in Boxes, BoxDies(b)
  PROVE  PoolInv'
<1>1. /\ running' \in [Boxes -> 0 .. MaxMade] /\ faults' \in 0 .. MaxFaults
      /\ \A c \in Boxes : running'[c] \in {0, running[c]}
  BY PoolConstants DEF BoxDies, Fault, PoolInv, PoolTypeOK
<1>2. UNCHANGED <<memory, made, calls, turn, sweep, up, left>>
  BY DEF BoxDies
<1>3. PoolTypeOK'
  BY <1>1, <1>2 DEF PoolInv, PoolTypeOK, memory
<1>4. Numbered' /\ OneAcquires'
  BY <1>1, <1>2, NumberedStays DEF PoolInv, OneAcquires
<1>5. /\ \A j \in Keepers : OnePlace(j)' /\ SweepInv(j)'
      /\ \A j \in Keepers, c \in Boxes : (Active(j, c)' <=> Active(j, c)) /\ (Warm(j, c)' <=> Warm(j, c))
  BY <1>2, SameMemory
<1>6. \A v \in Turns : TurnInv(v)'
  BY <1>2, <1>5, TurnsStay DEF PoolInv
<1>7. NoneForgotten'
  <2> SUFFICES ASSUME NEW c \in Boxes, running'[c] # 0 PROVE Tended(c)' \/ running'[c] \in left'
    BY DEF NoneForgotten
  <2>1. running'[c] = running[c]
    BY <1>1
  <2>2. CASE Tended(c)
    <3>1. PICK r : r.box = c /\ IsHeld(r) /\ Hits(r)
      BY <2>2, TendedIs
    <3>2. IsHeld(r)' /\ Hits(r)'
      BY <1>2, <2>1, <3>1 DEF IsHeld, Hits, memory
    <3> QED BY <3>1, <3>2, TendedThen
  <2> QED BY <1>2, <2>1, <2>2 DEF PoolInv, NoneForgotten
<1> QED BY <1>3, <1>4, <1>5, <1>6, <1>7 DEF PoolInv

(* What only the worker knew is left; all its turns are gone. *)
LEMMA VanishKeeps ==
  ASSUME PoolInv, NEW k \in Keepers, Vanish(k), faults' \in 0 .. MaxFaults
  PROVE  PoolInv'
<1>1. /\ active' \in [Keepers -> SUBSET Records] /\ warm' \in [Keepers -> Seq(Records)]
      /\ active'[k] = {} /\ warm'[k] = <<>>
      /\ \A j \in Keepers \ {k} : active'[j] = active[j] /\ warm'[j] = warm[j]
  BY DEF Vanish, PoolInv, PoolTypeOK
<1>2. AtRest \in Sweeps
  BY DEF AtRest, Sweeps
<1>3. sweep' \in [Keepers -> Sweeps] /\ \A j \in Keepers : sweep'[j] \in {AtRest, sweep[j]}
  BY <1>2 DEF Vanish, PoolInv, PoolTypeOK, Sweeps
<1>4. /\ turn' \in [Turns -> {Outside} \cup TurnRecords]
      /\ \A v \in Turns : turn'[v] = Outside \/ (turn'[v] = turn[v] /\ (turn[v].at # "out" => turn[v].keeper # k))
  BY DEF Vanish, PoolInv, PoolTypeOK, TurnRecords
<1>5. left' \subseteq 1 .. MaxMade
  <2> SUFFICES ASSUME NEW n \in left', n \notin left PROVE n \in 1 .. MaxMade
    BY DEF PoolInv, PoolTypeOK
  <2>1. PICK c \in Boxes : running[c] # 0 /\ n = running[c]
    BY DEF Vanish
  <2> QED BY <2>1, PoolConstants DEF PoolInv, PoolTypeOK
<1>6. up' \in [Keepers -> BOOLEAN] /\ UNCHANGED <<running, made, calls>>
  BY DEF Vanish, PoolInv, PoolTypeOK
<1>7. PoolTypeOK'
  BY <1>1, <1>3, <1>4, <1>5, <1>6 DEF PoolInv, PoolTypeOK, Sweeps, TurnRecords
<1>8. Numbered'
  BY <1>6 DEF PoolInv, Numbered
<1>9. Outside.at = "out" /\ Outside.hand = {} /\ "out" \notin Acquiring
  BY DEF Outside, Acquiring, InFileLock
<1>10. OneAcquires'
  BY <1>4, <1>9 DEF PoolInv, OneAcquires
<1>11. /\ \A j \in Keepers : OnePlace(j)'
       /\ \A j \in Keepers, c \in Boxes : (Active(j, c)' => Active(j, c)) /\ (Warm(j, c)' => Warm(j, c))
  <2>1. OneEach(<<>>) /\ ToSet(<<>>) = {}
    BY DEF OneEach, ToSet
  <2>2. \A j \in Keepers : /\ active'[j] \subseteq active[j] /\ ToSet(warm'[j]) \subseteq ToSet(warm[j])
                           /\ OneEach(warm'[j])
    BY <1>1, <2>1 DEF PoolInv, OnePlace
  <2> QED BY <2>2, Shrinks DEF PoolInv
<1>12. \A v \in Turns : TurnInv(v)'
  <2> SUFFICES ASSUME NEW v \in Turns PROVE TurnInv(v)'
    OBVIOUS
  <2>1. CASE turn'[v] = Outside
    BY <1>9, <2>1 DEF TurnInv, Acquiring
  <2>2. CASE turn'[v] = turn[v] /\ turn[v].at # "out"
    <3>1. turn[v].keeper \in Keepers /\ turn[v].box \in Boxes
      BY <2>2, TurnIs DEF PoolInv, TurnRecords
    <3>2. /\ Active(turn[v].keeper, turn[v].box)' => Active(turn[v].keeper, turn[v].box)
          /\ Warm(turn[v].keeper, turn[v].box)' => Warm(turn[v].keeper, turn[v].box)
      BY <1>11, <2>2, <3>1 DEF Active, Warm
    <3> QED BY <2>2, <3>2 DEF PoolInv, TurnInv, Active, Warm
  <2>3. CASE turn'[v] = turn[v] /\ turn[v].at = "out"
    BY <1>9, <2>3 DEF PoolInv, TurnInv, Acquiring
  <2> QED BY <1>4, <2>1, <2>2, <2>3
<1>13. \A j \in Keepers : SweepInv(j)'
  BY <1>3 DEF PoolInv, SweepInv, AtRest
<1>14. NoneForgotten'
  <2> SUFFICES ASSUME NEW c \in Boxes, running[c] # 0, ~Tended(c)' PROVE running[c] \in left'
    BY <1>6 DEF NoneForgotten
  <2> QED BY DEF Vanish
<1> QED BY <1>7, <1>8, <1>10, <1>11, <1>12, <1>13, <1>14 DEF PoolInv

LEMMA KeeperDiesKeeps ==
  ASSUME PoolInv, NEW k \in Keepers, KeeperDies(k)
  PROVE  PoolInv'
<1>1. faults' \in 0 .. MaxFaults
  BY PoolConstants DEF KeeperDies, Fault, PoolInv, PoolTypeOK
<1> QED BY <1>1, VanishKeeps DEF KeeperDies

LEMMA EndShutdownKeeps ==
  ASSUME PoolInv, NEW k \in Keepers, EndShutdown(k)
  PROVE  PoolInv'
<1>1. faults' \in 0 .. MaxFaults
  BY DEF EndShutdown, PoolInv, PoolTypeOK
<1> QED BY <1>1, VanishKeeps DEF EndShutdown

LEMMA BeginShutdownKeeps ==
  ASSUME PoolInv, NEW k \in Keepers, BeginShutdown(k)
  PROVE  PoolInv'
<1> DEFINE noted == {r.box : r \in active[k]}
           W == ToSet(warm[k])
           y == [act |-> noted, sure |-> {}, hand |-> {}, warm |-> W]
<1>1. noted \in SUBSET Boxes
  BY DEF PoolInv, PoolTypeOK, Records
<1>2. W \in SUBSET Records
  BY DEF ToSet, PoolInv, PoolTypeOK
<1>3. sweep' = [sweep EXCEPT ![k].act = noted, ![k].warm = W] /\ sweep[k] = AtRest
  BY DEF BeginShutdown
<1> HIDE DEF noted, W
<1>4. sweep \in [Keepers -> Sweeps] /\ sweep[k].sure = {} /\ sweep[k].hand = {} /\ sweep[k].warm = {}
  BY <1>3 DEF PoolInv, PoolTypeOK, Sweeps, AtRest
<1>5. [[sweep[k] EXCEPT !.act = noted] EXCEPT !.warm = W] = y
  BY ZenonT(60), <1>4, SweepRecord
<1>6. y \in Sweeps /\ y.hand = {} /\ y.sure = {} /\ y.warm = W
  BY <1>1, <1>2 DEF Sweeps
<1>7. sweep' = [sweep EXCEPT ![k] = [[sweep[k] EXCEPT !.act = noted] EXCEPT !.warm = W]]
  BY <1>3, <1>4
<1> HIDE DEF y
<1>8. sweep' \in [Keepers -> Sweeps] /\ sweep'[k] = y /\ \A j \in Keepers \ {k} : sweep'[j] = sweep[j]
  BY <1>4, <1>5, <1>6, <1>7
<1>9. /\ warm' \in [Keepers -> Seq(Records)] /\ warm'[k] = <<>>
      /\ \A j \in Keepers \ {k} : warm'[j] = warm[j]
      /\ active' = active
  BY DEF BeginShutdown, PoolInv, PoolTypeOK
<1>10. OneEach(<<>>) /\ ToSet(<<>>) = {}
  BY DEF OneEach, ToSet
<1>11. \A j \in Keepers : ToSet(warm'[j]) \subseteq ToSet(warm[j]) /\ OneEach(warm'[j]) /\ SweepInv(j)'
  BY <1>6, <1>8, <1>9, <1>10 DEF PoolInv, OnePlace, SweepInv
<1>12. \A j \in Keepers : Everything(j) \subseteq Everything(j)'
  <2>1. Everything(k) \subseteq Everything(k)'
    BY <1>4, <1>6, <1>8, <1>9 DEF Everything, W
  <2>2. \A j \in Keepers \ {k} : Everything(j) \subseteq Everything(j)'
    BY <1>8, <1>9 DEF Everything
  <2> QED BY <2>1, <2>2
<1>13. /\ up' \in [Keepers -> BOOLEAN] /\ faults' \in 0 .. MaxFaults
       /\ UNCHANGED <<running, made, calls, turn, left>>
  BY PoolConstants DEF BeginShutdown, Fault, PoolInv, PoolTypeOK
<1>14. active' \in [Keepers -> SUBSET Records]
  BY <1>9 DEF PoolInv, PoolTypeOK
<1> QED BY <1>8, <1>9, <1>11, <1>12, <1>13, <1>14, SweepKeeps

LEMMA KeeperStartsKeeps ==
  ASSUME PoolInv, NEW k \in Keepers, KeeperStarts(k)
  PROVE  PoolInv'
<1>1. PICK found \in SetToSeqs(FoundRunning) : warm' = [warm EXCEPT ![k] = found]
  BY DEF KeeperStarts
<1>2. /\ found \in Seq(Records) /\ OneEach(found)
      /\ ToSet(found) = FoundRunning /\ FoundRunning \subseteq Records
  BY FoundIs DEF PoolInv
<1>3. /\ warm' \in [Keepers -> Seq(Records)] /\ warm'[k] = found
      /\ \A j \in Keepers \ {k} : warm'[j] = warm[j]
  BY <1>1, <1>2 DEF PoolInv, PoolTypeOK
<1>4. /\ UNCHANGED <<active, running, made, calls, turn, sweep, faults>> /\ left' = {}
      /\ up' \in [Keepers -> BOOLEAN] /\ active[k] = {}
      /\ \A v \in Turns : turn[v].at # "out" => turn[v].keeper # k
  BY DEF KeeperStarts, PoolInv, PoolTypeOK
<1>5. PoolTypeOK'
  BY <1>3, <1>4 DEF PoolInv, PoolTypeOK
<1>6. Numbered' /\ OneAcquires' /\ \A j \in Keepers : SweepInv(j)'
  BY <1>4 DEF PoolInv, Numbered, OneAcquires, SweepInv
<1>7. /\ \A j \in Keepers, c \in Boxes : Active(j, c)' <=> Active(j, c)
      /\ \A j \in Keepers \ {k}, c \in Boxes : Warm(j, c)' <=> Warm(j, c)
      /\ \A c \in Boxes : ~Active(k, c)
  BY <1>3, <1>4 DEF Active, Warm, OfBox
<1>8. \A j \in Keepers : OnePlace(j)'
  <2>1. \A j \in Keepers : OneEach(warm'[j])
    BY <1>2, <1>3 DEF PoolInv, OnePlace
  <2>2. \A j \in Keepers, c \in Boxes : ~(Active(j, c)' /\ Warm(j, c)')
    BY <1>7 DEF PoolInv, OnePlace
  <2> QED BY <1>4, <2>1, <2>2 DEF PoolInv, OnePlace, OneEach
<1>9. \A v \in Turns : TurnInv(v)'
  <2> SUFFICES ASSUME NEW v \in Turns PROVE TurnInv(v)'
    OBVIOUS
  <2>1. CASE turn[v].at = "out"
    BY <1>4, <2>1 DEF PoolInv, TurnInv, Acquiring, InFileLock
  <2>2. CASE turn[v].at # "out"
    <3>1. turn[v].keeper \in Keepers \ {k} /\ turn[v].box \in Boxes
      BY <1>4, <2>2, TurnIs DEF PoolInv, TurnRecords
    <3>2. /\ Active(turn[v].keeper, turn[v].box)' <=> Active(turn[v].keeper, turn[v].box)
          /\ Warm(turn[v].keeper, turn[v].box)' <=> Warm(turn[v].keeper, turn[v].box)
      BY <1>4, <1>7, <3>1 DEF Active, Warm
    <3> QED BY <1>4, <3>2 DEF PoolInv, TurnInv, Active, Warm
  <2> QED BY <2>1, <2>2
<1>10. NoneForgotten'
  <2> SUFFICES ASSUME NEW c \in Boxes, running[c] # 0 PROVE Tended(c)'
    BY <1>4 DEF NoneForgotten
  <2>1. PICK r : r = [box |-> c, info |-> ByName]
    OBVIOUS
  <2>2. r \in FoundRunning
    BY <2>1 DEF FoundRunning
  <2>3. IsHeld(r)'
    BY <1>2, <1>3, <2>2 DEF IsHeld
  <2>4. Hits(r)' /\ r.box = c
    BY <1>4, <2>1 DEF Hits
  <2> QED BY <2>3, <2>4, TendedThen
<1> QED BY <1>5, <1>6, <1>8, <1>9, <1>10 DEF PoolInv

-----------------------------------------------------------------------------

LEMMA PoolStart == PoolInit => PoolInv
<1> SUFFICES ASSUME PoolInit PROVE PoolInv
  OBVIOUS
<1>1. Outside.at = "out" /\ Outside.hand = {} /\ "out" \notin Acquiring
  BY DEF Outside, Acquiring, InFileLock
<1>2. AtRest \in Sweeps /\ AtRest.sure = {} /\ AtRest.hand = {}
  BY DEF AtRest, Sweeps
<1>3. PoolTypeOK
  BY <1>2, PoolConstants DEF PoolInit, PoolTypeOK, Sweeps
<1>4. Numbered /\ OneAcquires /\ NoneForgotten
  BY <1>1, PoolConstants DEF PoolInit, Numbered, OneAcquires, NoneForgotten
<1>5. \A k \in Keepers : OnePlace(k) /\ SweepInv(k)
  BY <1>2 DEF PoolInit, OnePlace, SweepInv, OneEach, Active, Warm, OfBox, ToSet
<1>6. \A u \in Turns : TurnInv(u)
  BY <1>1 DEF PoolInit, TurnInv, Acquiring
<1> QED BY <1>3, <1>4, <1>5, <1>6 DEF PoolInv

LEMMA PoolStep == PoolInv /\ [PoolNext]_boxVars => PoolInv'
<1> SUFFICES ASSUME PoolInv, [PoolNext]_boxVars PROVE PoolInv'
  OBVIOUS
<1>1. ASSUME NEW u \in Turns, AcquireStep(u) PROVE PoolInv'
  <2>1. PICK k \in Keepers, b \in Boxes :
          /\ turn[u].at # "out" /\ turn[u].keeper = k /\ turn[u].box = b
          /\ \/ WarmPath(u, k, b) \/ Recheck(u, k, b) \/ Discover(u, b) \/ Adopt(u, k)
             \/ MakeRoom(u, k) \/ EvictOldest(u) \/ CreateBox(u, b) \/ WaitReady(u, k, b)
             \/ UseBox(u, k, b) \/ ReleaseBox(u, k, b)
    BY <1>1 DEF AcquireStep
  <2>2. turn[u].keeper = k /\ turn[u].box = b
    BY <2>1
  <2>3. CASE WarmPath(u, k, b)
    BY <2>2, <2>3, WarmPathKeeps
  <2>4. CASE Recheck(u, k, b)
    BY <2>2, <2>4, RecheckKeeps
  <2>5. CASE Discover(u, b)
    BY <2>2, <2>5, DiscoverKeeps
  <2>6. CASE Adopt(u, k)
    BY <2>2, <2>6, AdoptKeeps
  <2>7. CASE MakeRoom(u, k)
    BY <2>2, <2>7, MakeRoomKeeps
  <2>8. CASE EvictOldest(u)
    BY <2>2, <2>8, EvictOldestKeeps
  <2>9. CASE CreateBox(u, b)
    BY <2>2, <2>9, CreateBoxKeeps
  <2>10. CASE WaitReady(u, k, b)
    BY <2>2, <2>10, WaitReadyKeeps
  <2>11. CASE UseBox(u, k, b)
    BY <2>2, <2>11, UseBoxKeeps
  <2>12. CASE ReleaseBox(u, k, b)
    BY <2>2, <2>12, ReleaseBoxKeeps
  <2> QED BY <2>1, <2>3, <2>4, <2>5, <2>6, <2>7, <2>8, <2>9, <2>10, <2>11, <2>12
<1>2. CASE \E u \in Turns, k \in Keepers, b \in Boxes : AcquireBox(u, k, b)
  BY <1>2, AcquireBoxKeeps
<1>3. CASE \E k \in Keepers : BeginSweep(k)
  BY <1>3, BeginSweepKeeps
<1>4. CASE \E k \in Keepers, b \in Boxes : CheckIdle(k, b)
  BY <1>4, CheckIdleKeeps
<1>5. CASE \E k \in Keepers, b \in Boxes : DestroyTakes(k, b)
  BY <1>5, DestroyTakesKeeps
<1>6. CASE \E k \in Keepers, r \in Records : DestroyStops(k, r)
  BY <1>6, DestroyStopsKeeps
<1>7. CASE \E b \in Boxes : BoxDies(b)
  BY <1>7, BoxDiesKeeps
<1>8. CASE \E k \in Keepers : KeeperDies(k) \/ BeginShutdown(k) \/ EndShutdown(k) \/ KeeperStarts(k)
  BY <1>8, KeeperDiesKeeps, BeginShutdownKeeps, EndShutdownKeeps, KeeperStartsKeeps
<1>9. CASE UNCHANGED boxVars
  <2>1. UNCHANGED <<memory, running, made, calls, turn, sweep, up, faults, left>>
    BY <1>9 DEF boxVars, memory
  <2>2. /\ \A j \in Keepers : OnePlace(j)' /\ SweepInv(j)'
        /\ \A j \in Keepers, c \in Boxes : (Active(j, c)' <=> Active(j, c)) /\ (Warm(j, c)' <=> Warm(j, c))
    BY <2>1, SameMemory
  <2>3. \A v \in Turns : TurnInv(v)'
    BY <2>1, <2>2, TurnsStay DEF PoolInv
  <2>4. PoolTypeOK' /\ Numbered' /\ OneAcquires'
    BY <2>1 DEF PoolInv, PoolTypeOK, Numbered, OneAcquires, memory
  <2>5. NoneForgotten'
    <3>1. \A r : IsHeld(r) => IsHeld(r)'
      BY <2>1 DEF IsHeld, memory
    <3> QED BY <2>1, <3>1, CarriedOn DEF PoolInv
  <2> QED BY <2>2, <2>3, <2>4, <2>5 DEF PoolInv
<1> QED BY <1>1, <1>2, <1>3, <1>4, <1>5, <1>6, <1>7, <1>8, <1>9 DEF PoolNext

(* No container is forgotten, for any chats, turns, workers and replicas and any number of faults:
   what runs is in the memory or the hands of somebody alive, or a stop of it failed or its worker
   went and the next one to start finds it (aio_sandbox_provider.py). *)
THEOREM AllTended == PoolSpec => []NoneForgotten
<1>1. PoolInv => NoneForgotten
  BY DEF PoolInv
<1> QED BY <1>1, PoolStart, PoolStep, PTL DEF PoolSpec

(***************************************************************************)
(* MCPartsSafe                                                             *)
(***************************************************************************)

\* Every behaviour of the composed run is, part by part, a behaviour of that part on its own:
\* its step is the part's, and the others' steps leave the part as it is.  So what is proved of
\* ConfirmSlots, LedgerWrites, SandboxPool, HistoryThreads and HistoryKeys holds of the run.
THEOREM SafeParts == PartsSpec => SlotSpec /\ LedgerSpec /\ PoolSpec /\ HistorySpec /\ KeysSpec
<1>1. PartsInit => SlotInit /\ LedgerInit /\ PoolInit /\ HistoryInit /\ KeysInit
  BY DEF PartsInit
<1> DEFINE all == <<slotVars, ledgerVars, boxVars, historyVars, keyVars, part>>
<1>2. [PartsNext]_all => [SlotNext]_slotVars
  BY Zenon DEF PartsNext
<1>3. [PartsNext]_all => [LedgerNext]_ledgerVars
  BY Zenon DEF PartsNext
<1>4. [PartsNext]_all => [PoolNext]_boxVars
  BY Zenon DEF PartsNext
<1>5. [PartsNext]_all => [HistoryNext]_historyVars
  BY Zenon DEF PartsNext
<1>6. [PartsNext]_all => [KeysNext]_keyVars
  BY Zenon DEF PartsNext
<1> QED BY <1>1, <1>2, <1>3, <1>4, <1>5, <1>6, PTL DEF PartsSpec, SlotSpec, LedgerSpec, PoolSpec, HistorySpec, KeysSpec

LEMMA PoolInvariance == PoolSpec => []PoolInv
BY PoolStart, PoolStep, PTL DEF PoolSpec

\* The state of every part keeps its type: the slots a pool has, the rows, versions and counts of
\* a ledger, containers and their locks, chats and checkpoints, runs and their keys.
THEOREM SafePartsTyped == PartsSpec => []PartsTypeOK
<1>1. SlotInv /\ LedgerInv /\ PoolInv /\ ChatsInv /\ KeysInv => PartsTypeOK
  BY DEF PartsTypeOK, SlotInv, LedgerInv, PoolInv, ChatsInv, KeysInv
<1> QED BY <1>1, SafeParts, SlotInvariance, LedgerInvariance, PoolInvariance, ChatsInvariance,
           KeysInvariance, PTL

\* Everything the run checks, for any number of calls, changes, containers, chats and runs.
THEOREM SafePartsKeep ==
  PartsSpec => /\ [](NeverQueued /\ EndIsTold /\ ShownIsChanged /\ WithinCap /\ NoneForgotten /\ GoneIsShredded /\ KeptHasKey)
               /\ UndoLosesNothing /\ PersonKept
BY SafeParts, NoQueue, ToldInChat, PlanAsShown, CapHolds, AllTended, Shredded, KeysKept,
   UndoKeepsEdits, PersonsKept, PTL

=============================================================================
