------------------------ MODULE HistoryThreads_proofs ------------------------
(***************************************************************************)
(* Theorems about HistoryThreads.  What a person wrote in this period is   *)
(* in every later checkpoint of its chat, those included that trims have   *)
(* read and may put back (RecentInv), so in the latest (NowInv), until the *)
(* chat's turn in a sweep comes (SawInv), where it stops a delete nobody   *)
(* asked for.  Only a firing would write without it, and no rule fires in  *)
(* a chat that is trimmed (ForgottenInv).                                  *)
(***************************************************************************)
EXTENDS HistoryThreads, SequenceTheorems, TLAPS

USE DEF Step, Counted

\* A checkpoint is written after the others.
LEMMA AppendIs ==
  ASSUME NEW s \in Seq(Page), NEW p \in Page
  PROVE  /\ Append(s, p) \in Seq(Page) /\ Len(Append(s, p)) = Len(s) + 1
         /\ \A n \in 1 .. Len(s) : Append(s, p)[n] = s[n]
         /\ Append(s, p)[Len(s) + 1] = p
OBVIOUS

\* So it is in its chat, and in no other.
LEMMA WrittenIs ==
  ASSUME HistoryTypeOK, NEW t \in Threads, NEW msgs \in SUBSET Messages, Written(t, msgs)
  PROVE  /\ pages' \in [Threads -> Seq(Page)]
         /\ \A u \in Threads : u # t => pages'[u] = pages[u]
         /\ Len(pages'[t]) = Len(pages[t]) + 1
         /\ \A n \in 1 .. Len(pages[t]) : pages'[t][n] = pages[t][n]
         /\ pages'[t][Len(pages[t]) + 1] = [at |-> period, msgs |-> msgs, there |-> TRUE]
<1> DEFINE p == [at |-> period, msgs |-> msgs, there |-> TRUE]
<1>1. p \in Page /\ pages[t] \in Seq(Page)
  BY DEF HistoryTypeOK, Page
<1>2. pages' = [pages EXCEPT ![t] = Append(pages[t], p)]
  BY DEF Written
<1>3. pages'[t] = Append(pages[t], p)
  BY <1>2 DEF HistoryTypeOK
<1> HIDE DEF p
<1>4. pages' \in [Threads -> Seq(Page)]
  BY <1>1, <1>2, AppendIs DEF HistoryTypeOK
<1>5. \A u \in Threads : u # t => pages'[u] = pages[u]
  BY <1>2 DEF HistoryTypeOK
<1>6. /\ Len(pages'[t]) = Len(pages[t]) + 1
      /\ \A n \in 1 .. Len(pages[t]) : pages'[t][n] = pages[t][n]
      /\ pages'[t][Len(pages[t]) + 1] = p
  BY <1>1, <1>3, AppendIs
<1> QED BY <1>4, <1>5, <1>6 DEF p

\* A sequence with one place for each of s.
LEMMA PlacesAre ==
  ASSUME NEW s \in Seq(Page), NEW new, new \in [1 .. Len(s) -> Page]
  PROVE  new \in Seq(Page) /\ Len(new) = Len(s)
<1>1. Len(s) \in Nat
  OBVIOUS
<1>2. new \in Seq(Page)
  BY <1>1, SeqDef
<1> QED BY <1>1, <1>2, LenProperties

\* The checkpoints of a chat that is cleared are gone, and their places are not.
LEMMA ClearedIs ==
  ASSUME HistoryTypeOK, NEW t \in Threads, Cleared(t)
  PROVE  /\ pages' \in [Threads -> Seq(Page)]
         /\ \A u \in Threads : u # t => pages'[u] = pages[u]
         /\ Len(pages'[t]) = Len(pages[t])
         /\ \A n \in 1 .. Len(pages[t]) : pages'[t][n] = NoPage
<1> DEFINE new == [n \in 1 .. Len(pages[t]) |-> NoPage]
<1>1. pages[t] \in Seq(Page) /\ NoPage \in Page
  <2>1. 0 \in 0 .. MaxTime
    BY HistoryConstants
  <2> QED BY <2>1 DEF HistoryTypeOK, Page, NoPage
<1>2. new \in [1 .. Len(pages[t]) -> Page] /\ \A n \in 1 .. Len(pages[t]) : new[n] = NoPage
  BY <1>1
<1>3. pages' = [pages EXCEPT ![t] = new]
  BY DEF Cleared
<1> HIDE DEF new
<1>4. new \in Seq(Page) /\ Len(new) = Len(pages[t])
  BY <1>1, <1>2, PlacesAre
<1>5. pages'[t] = new /\ \A u \in Threads : u # t => pages'[u] = pages[u]
  BY <1>3 DEF HistoryTypeOK
<1>6. pages' \in [Threads -> Seq(Page)]
  BY <1>3, <1>4 DEF HistoryTypeOK
<1> QED BY <1>2, <1>4, <1>5, <1>6

\* A checkpoint that is rewritten is the one that was read, less what is old.
LEMMA RewrittenIs ==
  ASSUME HistoryTypeOK, NEW t \in Threads, NEW x, x.copy \in Seq(Page),
         Len(x.copy) <= Len(pages[t]), NEW n \in 1 .. Len(x.copy), Rewritten(x, t, n)
  PROVE  /\ n \in 1 .. Len(pages[t])
         /\ pages' \in [Threads -> Seq(Page)]
         /\ \A u \in Threads : u # t => pages'[u] = pages[u]
         /\ Len(pages'[t]) = Len(pages[t])
         /\ \A k \in 1 .. Len(pages[t]) : k # n => pages'[t][k] = pages[t][k]
         /\ pages'[t][n].at = x.copy[n].at /\ pages'[t][n].there = x.copy[n].there
         /\ pages'[t][n].msgs = x.copy[n].msgs \ x.old
<1> DEFINE s == pages[t]
           p == [x.copy[n] EXCEPT !.msgs = @ \ x.old]
           new == [s EXCEPT ![n] = p]
<1>1. s \in Seq(Page) /\ Len(s) \in Nat /\ Len(x.copy) \in Nat /\ n \in 1 .. Len(s)
  BY DEF HistoryTypeOK
<1>2. x.copy[n] \in Page
  OBVIOUS
<1>3. p \in Page /\ p.at = x.copy[n].at /\ p.there = x.copy[n].there /\ p.msgs = x.copy[n].msgs \ x.old
  BY <1>2 DEF Page
<1>4. pages' = [pages EXCEPT ![t] = new]
  BY DEF Rewritten
<1> HIDE DEF p
<1>5. new \in [1 .. Len(s) -> Page] /\ new[n] = p /\ \A k \in 1 .. Len(s) : k # n => new[k] = s[k]
  BY <1>1, <1>3
<1> HIDE DEF new
<1>6. new \in Seq(Page) /\ Len(new) = Len(s)
  BY <1>1, <1>5, PlacesAre
<1>7. pages'[t] = new /\ \A u \in Threads : u # t => pages'[u] = pages[u]
  BY <1>4 DEF HistoryTypeOK
<1>8. pages' \in [Threads -> Seq(Page)]
  BY <1>4, <1>6 DEF HistoryTypeOK
<1> QED BY <1>1, <1>3, <1>5, <1>6, <1>7, <1>8

-----------------------------------------------------------------------------

\* A chat holds messages, of which some are in its latest checkpoint.
LEMMA HeldTypes ==
  ASSUME HistoryTypeOK, NEW t \in Threads
  PROVE  /\ Held(t) \in SUBSET Messages /\ Latest(t) \in SUBSET Messages
         /\ \A cut : OldAt(t, cut) \in SUBSET Messages /\ OldAt(t, cut) \subseteq Held(t)
         /\ Latest(t) \subseteq Held(t)
<1>1. pages[t] \in Seq(Page)
  BY DEF HistoryTypeOK
<1>2. ASSUME NEW n \in 1 .. Len(pages[t]) PROVE pages[t][n].msgs \in SUBSET Messages
  <2>1. pages[t][n] \in Page
    BY <1>1
  <2> QED BY <2>1 DEF Page
<1>3. Held(t) \in SUBSET Messages
  BY <1>2 DEF Held
<1>4. Latest(t) \subseteq Held(t)
  BY DEF Latest, Held, Newest
<1>5. \A cut : OldAt(t, cut) \subseteq Held(t)
  BY DEF OldAt
<1> QED BY <1>3, <1>4, <1>5

\* A trim that reads the checkpoints has them.
LEMMA ReadingIs ==
  ASSUME HistoryTypeOK, NEW t \in Threads, NEW x, NEW cut, x \in Job \/ x \in Stray
  PROVE  LET y == Reading(x, t, cut) IN
         /\ x \in Job => y \in Job /\ \A f \in {"by", "rule", "cur", "whole", "check", "saw"} : y[f] = x[f]
         /\ x \in Stray => y \in Stray /\ y.chat = x.chat /\ y.cut = x.cut
         /\ y.at = "again" /\ y.old = OldAt(t, cut) /\ y.copy = pages[t]
         /\ y.due = {n \in 1 .. Len(pages[t]) : pages[t][n].msgs \cap OldAt(t, cut) # {}}
<1> DEFINE old == OldAt(t, cut)
           due == {n \in 1 .. Len(pages[t]) : pages[t][n].msgs \cap old # {}}
           y == [x EXCEPT !.at = "again", !.old = old, !.copy = pages[t], !.due = due]
<1>1. old \in SUBSET Messages /\ pages[t] \in Seq(Page)
  BY HeldTypes DEF HistoryTypeOK
<1>2. due \in SUBSET Nat
  BY <1>1
<1>3. Reading(x, t, cut) = y
  BY DEF Reading
<1> HIDE DEF old, due
<1>4. ASSUME x \in Job
      PROVE  /\ y \in Job /\ \A f \in {"by", "rule", "cur", "whole", "check", "saw"} : y[f] = x[f]
             /\ y.at = "again" /\ y.old = old /\ y.copy = pages[t] /\ y.due = due
  BY <1>1, <1>2, <1>4 DEF Job, ThreadSteps
<1>5. ASSUME x \in Stray
      PROVE  /\ y \in Stray /\ y.chat = x.chat /\ y.cut = x.cut
             /\ y.at = "again" /\ y.old = old /\ y.copy = pages[t] /\ y.due = due
  BY <1>1, <1>2, <1>5 DEF Stray
<1> HIDE DEF y
<1> QED BY <1>3, <1>4, <1>5 DEF old, due

\* A trim that is over remembers nothing of what it read.
LEMMA OnwardIs ==
  ASSUME HistoryTypeOK, Onward
  PROVE  /\ job' \in Job /\ job'.at = "pick" /\ job'.old = {} /\ job'.due = {}
         /\ \A f \in {"by", "rule", "cur", "whole", "check", "saw"} : job'[f] = job[f]
<1>1. job \in Job /\ <<>> \in Seq(Page)
  BY EmptySeq DEF HistoryTypeOK
<1> QED BY <1>1 DEF Onward, Job

\* What the coroutine of a step that took too long goes on with.
LEMMA GoesOnIs ==
  ASSUME HistoryTypeOK, TakenInv, GoesOn,
         job.at \in {"read", "again", "rewrite", "files", "pages", "traces", "record"}
  PROVE  /\ stray' \in [Overruns -> Stray]
         /\ \A k \in Overruns :
              \/ stray'[k] = stray[k]
              \/ /\ stray'[k].chat = job.cur /\ stray'[k].at = job.at /\ stray'[k].cut = period
                 /\ stray'[k].old = job.old /\ stray'[k].due = job.due /\ stray'[k].copy = job.copy
<1> DEFINE new == [chat |-> job.cur, at |-> job.at, cut |-> period, old |-> job.old, due |-> job.due, copy |-> job.copy]
<1>1. new \in Stray
  BY DEF HistoryTypeOK, Job, Stray
<1>2. /\ new.chat = job.cur /\ new.at = job.at /\ new.cut = period
      /\ new.old = job.old /\ new.due = job.due /\ new.copy = job.copy
  OBVIOUS
<1>3. stray' = [stray EXCEPT ![spent.failures + 1] = new]
  BY DEF GoesOn
<1> HIDE DEF new
<1>4. stray' \in [Overruns -> Stray]
  BY <1>1, <1>3 DEF HistoryTypeOK
<1>5. \A k \in Overruns : stray'[k] = stray[k] \/ stray'[k] = new
  BY <1>3 DEF HistoryTypeOK
<1> QED BY <1>2, <1>4, <1>5

\* A delete that fails is noted in the ledger.
LEMMA FailedTypes ==
  ASSUME HistoryTypeOK, Failed
  PROVE  ledger' \in [Threads -> LedgerRow] /\ job' \in Job
<1>1. job' \in Job
  BY DEF HistoryTypeOK, Failed, Job
<1>2. ASSUME NEW t \in Threads PROVE ledger'[t] \in LedgerRow
  <2>1. ledger[t] \in LedgerRow
    BY DEF HistoryTypeOK
  <2>2. \A why \in {"none", "explicit", "retention"} : [ledger[t] EXCEPT !.pending = TRUE, !.reason = why] \in LedgerRow
    BY <2>1 DEF LedgerRow
  <2>3. ledger[t].reason \in {"none", "explicit", "retention"}
    BY <2>1 DEF LedgerRow
  <2>4. CASE t = job.cur /\ ledger[t].in
    <3> DEFINE why == IF ledger[t].reason # "none" THEN ledger[t].reason
                      ELSE IF job.by = "person" THEN "explicit" ELSE "retention"
    <3>1. why \in {"none", "explicit", "retention"}
      BY <2>3
    <3>2. ledger' = [ledger EXCEPT ![t] = [ledger[t] EXCEPT !.pending = TRUE, !.reason = why]]
      BY <2>4 DEF Failed
    <3> HIDE DEF why
    <3> QED BY <2>2, <3>1, <3>2 DEF HistoryTypeOK
  <2>5. CASE ~(t = job.cur /\ ledger[t].in)
    BY <2>1, <2>5 DEF Failed, HistoryTypeOK
  <2> QED BY <2>4, <2>5
<1>3. ledger' = [t \in Threads |-> ledger'[t]]
  BY DEF Failed, HistoryTypeOK
<1> QED BY <1>1, <1>2, <1>3

\* Every step of the holder of the lock keeps the types.
LEMMA JobTypes ==
  ASSUME HistoryTypeOK, AgesInv, CutInv, TakenInv, JobStep
  PROVE  HistoryTypeOK'
<1> USE HistoryConstants
<1> USE DEF Forgetting
<1>0. job \in Job /\ \A at \in {"note", "map", "turn", "store", "pick", "runs"} \cup ThreadSteps : [job EXCEPT !.at = at] \in Job
  BY DEF HistoryTypeOK, Job
<1>1. CASE CreateThread
  <2>1. chats + 1 \in Threads /\ chats + 1 \in 0 .. MaxThreads
    BY <1>1 DEF CreateThread, HistoryTypeOK, TakenInv, Threads
  <2>2. [job EXCEPT !.cur = chats + 1, !.at = "note"] \in Job
    BY <1>0, <2>1 DEF Job
  <2>3. [stores EXCEPT ![chats + 1] = {"record"}] \in [Threads -> SUBSET Stores]
    BY <2>1 DEF HistoryTypeOK, Stores
  <2> QED BY <1>1, <2>1, <2>2, <2>3 DEF CreateThread, HistoryTypeOK
<1>2. CASE NoteThread
  <2>1. [ledger EXCEPT ![job.cur] = IF @.in THEN @ ELSE Row] \in [Threads -> LedgerRow]
    BY DEF HistoryTypeOK, Row, NoRow, LedgerRow
  <2> QED BY <1>0, <1>2, <2>1 DEF NoteThread, HistoryTypeOK
<1>3. CASE MapThread
  <2>1. job.cur \in Threads \cup {NoThread}
    BY <1>0 DEF Job
  <2> QED BY <1>0, <1>3, <2>1 DEF MapThread, HistoryTypeOK
<1>4. CASE TakesTurn
  <2>1. job.cur \in Threads /\ [job EXCEPT !.at = "store"] \in Job
    BY <1>0, <1>4 DEF TakesTurn, TakenInv
  <2>2. CASE UNCHANGED <<pages, stores>>
    BY <1>4, <2>1, <2>2 DEF TakesTurn, HistoryTypeOK
  <2>3. CASE /\ Written(job.cur, Latest(job.cur) \cup {<<"engine", period>>})
             /\ stores' = [stores EXCEPT ![job.cur] = Stores]
    <3>1. Latest(job.cur) \cup {<<"engine", period>>} \in SUBSET Messages
      BY <2>1, HeldTypes DEF HistoryTypeOK, Messages
    <3>2. pages' \in [Threads -> Seq(Page)]
      BY <2>1, <2>3, <3>1, WrittenIs
    <3> QED BY <1>4, <2>1, <2>3, <3>2 DEF TakesTurn, HistoryTypeOK
  <2> QED BY <1>4, <2>2, <2>3 DEF TakesTurn
<1>5. CASE StoreRun
  <2>1. [ledger EXCEPT ![job.cur] = IF @.in THEN @ ELSE Row] \in [Threads -> LedgerRow]
    BY DEF HistoryTypeOK, Row, NoRow, LedgerRow
  <2>2. Free \in Job
    BY EmptySeq DEF Free, Job
  <2> QED BY <1>5, <2>1, <2>2 DEF StoreRun, HistoryTypeOK, TakenInv
<1>6. CASE MarkPending
  <2>1. ASSUME NEW t \in Threads PROVE [ledger[t] EXCEPT !.pending = TRUE, !.reason = "explicit"] \in LedgerRow
    <3>1. ledger[t] \in LedgerRow
      BY DEF HistoryTypeOK
    <3> QED BY <3>1 DEF LedgerRow
  <2> QED BY <1>0, <1>6, <2>1 DEF MarkPending, HistoryTypeOK
<1>7. CASE Pick
  <2>1. Free \in Job
    BY EmptySeq DEF Free, Job
  <2>2. ASSUME NEW t \in Threads
        PROVE  /\ [job EXCEPT !.cur = t, !.whole = @ \ {t}, !.at = "files"] \in Job
               /\ [job EXCEPT !.cur = t, !.check = @ \ {t}, !.at = "read"] \in Job
    <3>1. job.whole \ {t} \in SUBSET Threads /\ job.check \ {t} \in SUBSET Threads
      BY <1>0 DEF Job
    <3>2. [job EXCEPT !.cur = t, !.whole = job.whole \ {t}, !.at = "files"] \in Job
      BY <1>0, <3>1 DEF Job, ThreadSteps
    <3>3. [job EXCEPT !.cur = t, !.check = job.check \ {t}, !.at = "read"] \in Job
      BY <1>0, <3>1 DEF Job, ThreadSteps
    <3> QED BY <3>2, <3>3
  <2>3. job' \in Job
    <3>1. CASE \E t \in Threads : job' = [job EXCEPT !.cur = t, !.whole = @ \ {t}, !.at = "files"]
      BY <2>2, <3>1
    <3>2. CASE \E t \in Threads : job' = [job EXCEPT !.cur = t, !.check = @ \ {t}, !.at = "read"]
      BY <2>2, <3>2
    <3>3. CASE job' = IF job.by = "person" THEN [job EXCEPT !.at = "runs"] ELSE Free
      BY <1>0, <2>1, <3>3
    <3> QED BY <1>7, <3>1, <3>2, <3>3 DEF Pick
  <2> QED BY <1>7, <2>3 DEF Pick, HistoryTypeOK
<1>8. CASE DeleteRuns
  <2>1. Free \in Job
    BY EmptySeq DEF Free, Job
  <2> QED BY <1>8, <2>1 DEF DeleteRuns, HistoryTypeOK
<1>9. CASE ReadPages \/ LookAgain \/ AllRewritten
  <2>1. job.cur \in Threads
    BY <1>9 DEF ReadPages, LookAgain, AllRewritten, TakenInv, ThreadSteps
  <2>2. CASE TrimDone /\ UNCHANGED <<period, chats, stored, pages, stores, talk, spent>>
    <3>1. [ledger EXCEPT ![job.cur].trim = FALSE] \in [Threads -> LedgerRow]
      <4>1. ledger \in [Threads -> LedgerRow] /\ ledger[job.cur] \in LedgerRow
        BY <2>1 DEF HistoryTypeOK
      <4>2. [ledger[job.cur] EXCEPT !.trim = FALSE] \in LedgerRow
        BY <4>1 DEF LedgerRow
      <4> QED BY <4>1, <4>2
    <3> QED BY <2>2, <3>1, OnwardIs DEF TrimDone, HistoryTypeOK
  <2>3. CASE /\ UNCHANGED <<period, map, chats, ledger, stored, pages, stores, talk, stray, spent>>
             /\ \E at \in ThreadSteps : Step(at)
    BY <1>0, <2>3 DEF HistoryTypeOK
  <2>4. CASE /\ UNCHANGED <<period, map, chats, ledger, stored, pages, stores, talk, stray, spent>>
             /\ job' = Reading(job, job.cur, period)
    BY <1>0, <2>1, <2>4, ReadingIs DEF HistoryTypeOK
  <2> QED BY <1>9, <2>2, <2>3, <2>4 DEF ReadPages, LookAgain, AllRewritten, TrimDone, ThreadSteps
<1>10. CASE RewritePage
  <2>1. PICK n \in job.due : Rewritten(job, job.cur, n) /\ job' = [job EXCEPT !.due = @ \ {n}]
    BY <1>10 DEF RewritePage
  <2>2. job.cur \in Threads /\ job.at = "rewrite"
    BY <1>10 DEF RewritePage, TakenInv, ThreadSteps
  <2>3. /\ job.copy \in Seq(Page) /\ n \in 1 .. Len(job.copy)
        /\ Len(job.copy) <= Len(pages[job.cur])
    BY <1>0, <2>1, <2>2 DEF CutInv, Cuts, AgesInv, Versions, Trims, Job
  <2>4. pages' \in [Threads -> Seq(Page)]
    BY <2>1, <2>2, <2>3, RewrittenIs
  <2>5. job' \in Job
    BY <1>0, <2>1 DEF Job
  <2> QED BY <1>10, <2>4, <2>5 DEF RewritePage, HistoryTypeOK
<1>11. CASE DeleteFiles \/ DeleteTraces \/ DeleteRecord
  <2>1. job' \in Job
    BY <1>0, <1>11 DEF DeleteFiles, DeleteTraces, DeleteRecord, ThreadSteps
  <2>2. stores' \in [Threads -> SUBSET Stores]
    <3>1. \A what : [stores EXCEPT ![job.cur] = @ \ {what}] \in [Threads -> SUBSET Stores]
      BY DEF HistoryTypeOK
    <3> QED BY <1>11, <3>1 DEF DeleteFiles, DeleteTraces, DeleteRecord
  <2> QED BY <1>11, <2>1, <2>2 DEF DeleteFiles, DeleteTraces, DeleteRecord, HistoryTypeOK
<1>12. CASE DeletePages
  <2>1. job.cur \in Threads
    BY <1>12 DEF DeletePages, TakenInv, ThreadSteps
  <2>2. pages' \in [Threads -> Seq(Page)]
    BY <1>12, <2>1, ClearedIs DEF DeletePages
  <2>3. job' \in Job
    BY <1>0, <1>12 DEF DeletePages, ThreadSteps
  <2> QED BY <1>12, <2>2, <2>3 DEF DeletePages, HistoryTypeOK
<1>13. CASE RecheckPages
  <2>1. CASE Step("gone") /\ UNCHANGED ledger
    BY <1>0, <1>13, <2>1 DEF RecheckPages, HistoryTypeOK, ThreadSteps
  <2>2. CASE Failed
    BY <1>13, <2>2, FailedTypes DEF RecheckPages, HistoryTypeOK
  <2> QED BY <1>13, <2>1, <2>2 DEF RecheckPages
<1>14. CASE ThreadGone
  <2>1. NoRow \in LedgerRow
    BY DEF NoRow, LedgerRow
  <2>2. job' \in Job
    BY <1>0, <1>14 DEF ThreadGone, ThreadSteps
  <2> QED BY <1>14, <2>1, <2>2 DEF ThreadGone, HistoryTypeOK
<1>15. CASE ForgetThread
  <2>1. job' \in Job
    BY <1>0, <1>15 DEF ForgetThread
  <2> QED BY <1>15, <2>1 DEF ForgetThread, HistoryTypeOK
<1> QED
  BY <1>1, <1>2, <1>3, <1>4, <1>5, <1>6, <1>7, <1>8, <1>9, <1>10, <1>11, <1>12, <1>13, <1>14, <1>15
  DEF JobStep

\* What a trim that goes on is about to write is a checkpoint it has read.
LEMMA StrayRewriteIs ==
  ASSUME HistoryTypeOK, AgesInv, CutInv, NEW k \in Overruns, NEW n \in stray[k].due, stray[k].at = "rewrite"
  PROVE  /\ stray[k].chat \in Threads /\ stray[k].copy \in Versions(stray[k].chat)
         /\ stray[k].copy \in Seq(Page) /\ n \in 1 .. Len(stray[k].copy) /\ stray[k].copy[n].there
         /\ Len(stray[k].copy) <= Len(pages[stray[k].chat])
         /\ \A m \in stray[k].old : m[2] < period
<1>1. stray[k] \in Stray
  BY DEF HistoryTypeOK
<1>2. stray[k].chat \in Threads /\ stray[k].copy \in Versions(stray[k].chat) /\ stray[k].copy \in Seq(Page)
  BY <1>1 DEF CutInv, Versions, Trims, Stray
<1> QED BY <1>2 DEF CutInv, Cuts, Trims, AgesInv

\* And so of a trim that holds the lock.
LEMMA RewriteIs ==
  ASSUME HistoryTypeOK, AgesInv, CutInv, TakenInv, NEW n \in job.due, job.at = "rewrite"
  PROVE  /\ job.cur \in Threads /\ job.copy \in Versions(job.cur)
         /\ job.copy \in Seq(Page) /\ n \in 1 .. Len(job.copy) /\ job.copy[n].there
         /\ Len(job.copy) <= Len(pages[job.cur])
         /\ \A m \in job.old : m[2] < period
<1>1. job \in Job
  BY DEF HistoryTypeOK
<1>2. job.cur \in Threads /\ job.copy \in Versions(job.cur) /\ job.copy \in Seq(Page)
  BY <1>1 DEF TakenInv, ThreadSteps, Versions, Trims, Job
<1> QED BY <1>2 DEF CutInv, Cuts, Trims, AgesInv

\* What becomes of the coroutine that moves: it goes on in its chat.
LEMMA StrayGoes ==
  ASSUME HistoryTypeOK, CutInv, NEW k \in Overruns,
         StrayDeletes(k) \/ StrayClears(k) \/ StrayReads(k) \/ StrayLooks(k) \/ StrayRewrites(k)
  PROVE  /\ stray' \in [Overruns -> Stray]
         /\ \A i \in Overruns : i # k => stray'[i] = stray[i]
         /\ stray[k].chat \in Threads
         /\ \/ stray'[k] = NoStray
            \/ /\ stray'[k].chat = stray[k].chat /\ stray'[k].cut = stray[k].cut
               /\ \/ /\ stray[k].at \in {"files", "pages", "traces"}
                     /\ stray'[k].at \in Stores \cup {"pages"}
                     /\ stray'[k].old = stray[k].old /\ stray'[k].due = stray[k].due
                     /\ stray'[k].copy = stray[k].copy
                  \/ /\ stray[k].at = "read" /\ stray' = [stray EXCEPT ![k] = Reading(stray[k], stray[k].chat, stray[k].cut)]
                     /\ StrayReads(k)
                  \/ /\ stray[k].at \in Trims /\ stray'[k].at \in Trims
                     /\ stray'[k].old = stray[k].old /\ stray'[k].due \subseteq stray[k].due
                     /\ stray'[k].copy = stray[k].copy
<1> DEFINE x == stray[k]
<1> USE DEF Stores, Trims
<1>0. x \in Stray /\ NoStray \in Stray
  <2>1. 0 \in 0 .. MaxTime
    BY HistoryConstants
  <2>2. NoStray \in Stray
    BY <2>1, EmptySeq DEF NoStray, Stray
  <2> QED BY <2>2 DEF HistoryTypeOK
<1>1. x.at # "none" /\ x.chat \in Threads
  BY DEF StrayDeletes, StrayClears, StrayReads, StrayLooks, StrayRewrites, CutInv
<1>2. CASE StrayEnds(k)
  BY <1>0, <1>1, <1>2 DEF StrayEnds, HistoryTypeOK
<1>3. ASSUME NEW at \in {"pages", "traces", "record", "rewrite"}, StrayAt(k, at)
      PROVE  /\ stray' \in [Overruns -> Stray]
             /\ \A i \in Overruns : i # k => stray'[i] = stray[i]
             /\ stray'[k].chat = x.chat /\ stray'[k].cut = x.cut /\ stray'[k].at = at
             /\ stray'[k].old = x.old /\ stray'[k].due = x.due /\ stray'[k].copy = x.copy
  <2>1. [x EXCEPT !.at = at] \in Stray
    BY <1>0 DEF Stray
  <2>2. stray' = [stray EXCEPT ![k] = [x EXCEPT !.at = at]]
    BY <1>3 DEF StrayAt
  <2>3. stray'[k] = [x EXCEPT !.at = at]
    BY <2>2 DEF HistoryTypeOK
  <2> QED BY <1>0, <2>1, <2>2, <2>3 DEF HistoryTypeOK, Stray
<1>4. CASE StrayDeletes(k)
  BY <1>1, <1>2, <1>3, <1>4 DEF StrayDeletes
<1>5. CASE StrayClears(k)
  BY <1>1, <1>3, <1>5 DEF StrayClears
<1>6. CASE StrayReads(k)
  <2>1. CASE stray' = [stray EXCEPT ![k] = Reading(x, x.chat, x.cut)]
    <3>1. Reading(x, x.chat, x.cut) \in Stray /\ Reading(x, x.chat, x.cut).chat = x.chat /\ Reading(x, x.chat, x.cut).cut = x.cut
      BY <1>0, <1>1, ReadingIs
    <3>2. stray'[k] = Reading(x, x.chat, x.cut) /\ \A i \in Overruns : i # k => stray'[i] = stray[i]
      BY <2>1 DEF HistoryTypeOK
    <3>3. stray' \in [Overruns -> Stray]
      BY <2>1, <3>1 DEF HistoryTypeOK
    <3>4. x.at = "read"
      BY <1>6 DEF StrayReads
    <3> QED BY <1>1, <1>6, <2>1, <3>1, <3>2, <3>3, <3>4
  <2> QED BY <1>2, <1>6, <2>1 DEF StrayReads
<1>7. CASE StrayLooks(k)
  BY <1>1, <1>2, <1>3, <1>7 DEF StrayLooks
<1>8. CASE StrayRewrites(k)
  <2>1. PICK n \in x.due : /\ x.at = "rewrite"
                           /\ IF x.due = {n} THEN StrayEnds(k) ELSE stray' = [stray EXCEPT ![k].due = @ \ {n}]
    BY <1>8 DEF StrayRewrites
  <2>2. CASE stray' = [stray EXCEPT ![k].due = @ \ {n}]
    <3>1. stray' = [stray EXCEPT ![k] = [x EXCEPT !.due = x.due \ {n}]]
      BY <2>2
    <3>2. [x EXCEPT !.due = x.due \ {n}] \in Stray
      BY <1>0 DEF Stray
    <3>3. stray'[k] = [x EXCEPT !.due = x.due \ {n}] /\ \A i \in Overruns : i # k => stray'[i] = stray[i]
      BY <3>1 DEF HistoryTypeOK
    <3>4. stray' \in [Overruns -> Stray]
      BY <3>1, <3>2 DEF HistoryTypeOK
    <3>5. /\ stray'[k].chat = x.chat /\ stray'[k].cut = x.cut /\ stray'[k].at = x.at
          /\ stray'[k].old = x.old /\ stray'[k].due \subseteq x.due /\ stray'[k].copy = x.copy
      BY <1>0, <3>3 DEF Stray
    <3> QED BY <1>1, <2>1, <3>3, <3>4, <3>5
  <2> QED BY <1>2, <2>1, <2>2
<1> QED BY <1>4, <1>5, <1>6, <1>7, <1>8

\* So does every other step.
LEMMA ChatTypes ==
  HistoryTypeOK /\ AgesInv /\ CutInv /\ TakenInv /\ [HistoryNext]_historyVars => HistoryTypeOK'
<1> SUFFICES ASSUME HistoryTypeOK, AgesInv, CutInv, TakenInv, [HistoryNext]_historyVars PROVE HistoryTypeOK'
  OBVIOUS
<1> USE HistoryConstants
<1> USE DEF Forgetting
<1>0. Free \in Job
  BY EmptySeq DEF Free, Job
<1>1. CASE JobStep
  BY <1>1, JobTypes
<1>2. CASE AskDelete
  <2>1. Row \in LedgerRow
    BY DEF HistoryTypeOK, Row, NoRow, LedgerRow
  <2>2. \A all \in SUBSET Threads : [Free EXCEPT !.by = "person", !.at = "mark", !.whole = all] \in Job
    BY <1>0 DEF Free, Job
  <2> QED BY <1>2, <2>1, <2>2 DEF AskDelete, HistoryTypeOK
<1>3. CASE Sweep
  <2> DEFINE saw == {<<t, <<"person", period>>>> : t \in {x \in Threads : <<"person", period>> \in Held(x)}}
  <2>1. saw \in SUBSET (Threads \X Messages)
    BY DEF HistoryTypeOK, Messages
  <2>2. ToSweep \in SUBSET Threads
    BY DEF ToSweep, Listed
  <2> HIDE DEF saw
  <2>3. [Free EXCEPT !.by = "sweep", !.at = "pick", !.whole = (ToSweep \ Busy) \cap ExplicitDeletes,
           !.check = (ToSweep \ Busy) \ ExplicitDeletes, !.saw = saw] \in Job
    BY <1>0, <2>1, <2>2 DEF Free, Job
  <2>4. job' \in Job
    BY <1>3, <2>3 DEF Sweep, saw
  <2> QED BY <1>3, <2>4 DEF Sweep, HistoryTypeOK
<1>4. CASE TrimFails
  <2>0. /\ ledger' = [ledger EXCEPT ![job.cur].trim = ledger[job.cur].in] /\ job.cur \in Threads /\ Onward
        /\ UNCHANGED <<period, map, chats, stored, pages, stores, talk>>
        /\ job.at \in {"read", "again", "rewrite"} /\ (UNCHANGED stray \/ GoesOn)
    BY <1>4 DEF TrimFails, TakenInv, ThreadSteps
  <2>1. [ledger EXCEPT ![job.cur].trim = ledger[job.cur].in] \in [Threads -> LedgerRow]
    <3>1. ledger \in [Threads -> LedgerRow] /\ ledger[job.cur] \in LedgerRow
      BY <2>0 DEF HistoryTypeOK
    <3>2. [ledger[job.cur] EXCEPT !.trim = ledger[job.cur].in] \in LedgerRow
      BY <3>1 DEF LedgerRow
    <3> QED BY <3>1, <3>2
  <2>2. stray' \in [Overruns -> Stray]
    BY <2>0, GoesOnIs DEF HistoryTypeOK
  <2>3. job' \in Job
    BY <2>0, OnwardIs
  <2> QED BY <2>0, <2>1, <2>2, <2>3 DEF HistoryTypeOK
<1>5. CASE DeleteFails
  <2>1. stray' \in [Overruns -> Stray]
    <3>1. CASE UNCHANGED stray
      BY <3>1 DEF HistoryTypeOK
    <3>2. CASE job.at # "recheck" /\ GoesOn
      BY <1>5, <3>2, GoesOnIs DEF DeleteFails
    <3> QED BY <1>5, <3>1, <3>2 DEF DeleteFails
  <2> QED BY <1>5, <2>1, FailedTypes DEF DeleteFails, HistoryTypeOK
<1>6. CASE Dies
  BY <1>0, <1>6 DEF Dies, HistoryTypeOK
<1>7. CASE Purge
  <2>1. PICK first \in [Threads -> 0 .. MaxTime] : ledger' = [t \in Threads |-> [ledger[t] EXCEPT !.seen = first[t]]]
    BY <1>7 DEF Purge
  <2>2. ledger' \in [Threads -> LedgerRow]
    BY ZenonT(60), <2>1 DEF HistoryTypeOK, LedgerRow
  <2> QED BY <1>7, <2>2 DEF Purge, HistoryTypeOK
<1>8. CASE Tick
  BY <1>8 DEF Tick, HistoryTypeOK
<1>9. ASSUME NEW r \in Rules, Fire(r) \/ DropRule(r) PROVE HistoryTypeOK'
  <2>1. CASE Fire(r)
    <3>1. job' \in Job
      BY <1>0, <2>1 DEF Fire, HistoryTypeOK, Free, Job
    <3> QED BY <2>1, <3>1 DEF Fire, HistoryTypeOK
  <2>2. CASE DropRule(r)
    BY <2>2 DEF DropRule, HistoryTypeOK
  <2> QED BY <1>9, <2>1, <2>2
<1>10. ASSUME NEW t \in Threads, Talk(t) PROVE HistoryTypeOK'
  <2> DEFINE msgs == Latest(t) \cup {<<"person", period>>}
  <2>1. msgs \in SUBSET Messages
    BY HeldTypes DEF HistoryTypeOK, Messages
  <2> HIDE DEF msgs
  <2>2. PICK here \in BOOLEAN : talk' = [talk EXCEPT ![t] = [on |-> TRUE, here |-> here, msgs |-> msgs]]
    BY <1>10 DEF Talk, msgs
  <2>3. Written(t, msgs)
    BY <1>10 DEF Talk, msgs
  <2>4. pages' \in [Threads -> Seq(Page)]
    BY <2>1, <2>3, WrittenIs
  <2> QED BY <1>10, <2>1, <2>2, <2>4 DEF Talk, HistoryTypeOK
<1>11. ASSUME NEW t \in Threads, TalkEnds(t) PROVE HistoryTypeOK'
  <2>1. talk[t].msgs \in SUBSET Messages
    BY DEF HistoryTypeOK
  <2>2. pages' \in [Threads -> Seq(Page)]
    BY <1>11, <2>1, WrittenIs DEF TalkEnds
  <2> QED BY <1>11, <2>2 DEF TalkEnds, HistoryTypeOK, Silent, Stores
<1>12. ASSUME NEW k \in Overruns,
              StrayDeletes(k) \/ StrayClears(k) \/ StrayReads(k) \/ StrayLooks(k) \/ StrayRewrites(k)
       PROVE  HistoryTypeOK'
  <2>1. stray' \in [Overruns -> Stray] /\ stray[k].chat \in Threads
    BY <1>12, StrayGoes
  <2>2. CASE StrayDeletes(k)
    <3>1. stores' \in [Threads -> SUBSET Stores]
      BY <2>2 DEF StrayDeletes, HistoryTypeOK
    <3> QED BY <2>1, <2>2, <3>1 DEF StrayDeletes, HistoryTypeOK
  <2>3. CASE StrayClears(k)
    <3>1. pages' \in [Threads -> Seq(Page)]
      BY <2>1, <2>3, ClearedIs DEF StrayClears
    <3>2. [job EXCEPT !.saw = {s \in @ : s[1] # stray[k].chat}] \in Job
      BY DEF HistoryTypeOK, Job
    <3> QED BY <2>1, <2>3, <3>1, <3>2 DEF StrayClears, HistoryTypeOK
  <2>4. CASE StrayReads(k) \/ StrayLooks(k)
    BY <2>1, <2>4 DEF StrayReads, StrayLooks, HistoryTypeOK
  <2>5. CASE StrayRewrites(k)
    <3>1. PICK n \in stray[k].due : stray[k].at = "rewrite" /\ Rewritten(stray[k], stray[k].chat, n)
      BY <2>5 DEF StrayRewrites
    <3>2. pages' \in [Threads -> Seq(Page)]
      BY <3>1, StrayRewriteIs, RewrittenIs
    <3> QED BY <2>1, <2>5, <3>2 DEF StrayRewrites, HistoryTypeOK
  <2> QED BY <1>12, <2>2, <2>3, <2>4, <2>5
<1>13. CASE UNCHANGED historyVars
  BY <1>13 DEF historyVars, HistoryTypeOK
<1> QED
  BY <1>1, <1>2, <1>3, <1>4, <1>5, <1>6, <1>7, <1>8, <1>9, <1>10, <1>11, <1>12, <1>13 DEF HistoryNext

-----------------------------------------------------------------------------

\* The coroutines that trim: those that did, one that has read, one that takes too long.
LEMMA StrayTrims ==
  ASSUME HistoryTypeOK, CutInv, TakenInv, [HistoryNext]_historyVars, NEW k \in Overruns,
         stray'[k].at \in {"read"} \cup Trims
  PROVE  \/ stray'[k] = stray[k]
         \/ /\ stray[k].at \in Trims /\ stray'[k].at \in Trims /\ stray'[k].chat = stray[k].chat
            /\ stray'[k].cut = stray[k].cut /\ stray'[k].old = stray[k].old
            /\ stray'[k].due \subseteq stray[k].due /\ stray'[k].copy = stray[k].copy
         \/ /\ stray[k].at = "read" /\ StrayReads(k) /\ stray[k].chat \in Threads
            /\ stray' = [stray EXCEPT ![k] = Reading(stray[k], stray[k].chat, stray[k].cut)]
            /\ stray'[k].chat = stray[k].chat /\ stray'[k].cut = stray[k].cut
         \/ /\ TrimFails /\ stray'[k].chat = job.cur /\ stray'[k].at = job.at /\ stray'[k].cut = period
            /\ stray'[k].old = job.old /\ stray'[k].due = job.due /\ stray'[k].copy = job.copy
<1>1. CASE UNCHANGED stray
  BY <1>1
<1>2. CASE TrimFails
  <2>1. CASE GoesOn /\ job.at \in {"read", "again", "rewrite"}
    BY <1>2, <2>1, GoesOnIs
  <2> QED BY <1>1, <1>2, <2>1 DEF TrimFails
<1>3. CASE DeleteFails
  <2>1. CASE GoesOn /\ job.at \in {"files", "pages", "traces", "record"}
    BY <2>1, GoesOnIs DEF Trims
  <2> QED BY <1>1, <1>3, <2>1 DEF DeleteFails
<1>4. ASSUME NEW i \in Overruns,
             StrayDeletes(i) \/ StrayClears(i) \/ StrayReads(i) \/ StrayLooks(i) \/ StrayRewrites(i)
      PROVE  \/ stray'[k] = stray[k]
             \/ /\ stray[k].at \in Trims /\ stray'[k].at \in Trims /\ stray'[k].chat = stray[k].chat
                /\ stray'[k].cut = stray[k].cut /\ stray'[k].old = stray[k].old
                /\ stray'[k].due \subseteq stray[k].due /\ stray'[k].copy = stray[k].copy
             \/ /\ stray[k].at = "read" /\ StrayReads(k) /\ stray[k].chat \in Threads
                /\ stray' = [stray EXCEPT ![k] = Reading(stray[k], stray[k].chat, stray[k].cut)]
                /\ stray'[k].chat = stray[k].chat /\ stray'[k].cut = stray[k].cut
  <2>1. CASE i # k
    BY <1>4, <2>1, StrayGoes
  <2>2. CASE i = k
    <3>1. stray'[k] # NoStray /\ stray'[k].at \notin Stores \cup {"pages"}
      BY DEF NoStray, Trims, Stores
    <3> QED BY <1>4, <2>2, <3>1, StrayGoes
  <2> QED BY <2>1, <2>2
<1> QED
  BY <1>1, <1>2, <1>3, <1>4
  DEF HistoryNext, JobStep, historyVars, CreateThread, NoteThread, MapThread, TakesTurn, StoreRun, MarkPending,
      Pick, DeleteRuns, ReadPages, LookAgain, RewritePage, AllRewritten, TrimDone, DeleteFiles, DeletePages,
      DeleteTraces, DeleteRecord, RecheckPages, ThreadGone, ForgetThread, AskDelete, Sweep, Dies, Purge, Tick,
      Fire, DropRule, Talk, TalkEnds

\* Who does not hold the lock has taken nothing.
LEMMA FreeIs ==
  /\ Free.at = "free" /\ Free.whole = {} /\ Free.check = {} /\ Free.old = {} /\ Free.due = {} /\ Free.saw = {}
BY DEF Free

\* How who takes the lock begins.
LEMMA BeginsAs ==
  /\ Sweep => job'.at = "pick"
  /\ AskDelete => job'.at = "mark"
  /\ \A r \in Rules : Fire(r) => job'.at \in {"create", "turn"}
<1>1. Sweep => job'.at = "pick"
  BY DEF Sweep, Free
<1>2. AskDelete => job'.at = "mark"
  BY DEF AskDelete, Free
<1>3. ASSUME NEW r \in Rules, Fire(r) PROVE job'.at \in {"create", "turn"}
  BY <1>3 DEF Fire, Free
<1> QED BY <1>1, <1>2, <1>3

\* A trim that holds the lock is the one that did, or has just read.
LEMMA JobTrims ==
  ASSUME HistoryTypeOK, [HistoryNext]_historyVars, job'.at \in Trims
  PROVE  \/ /\ job.at \in Trims /\ job'.cur = job.cur /\ job'.copy = job.copy /\ job'.old = job.old
            /\ job'.due \subseteq job.due
         \/ ReadPages /\ job' = Reading(job, job.cur, period)
<1> USE DEF Trims
<1>0. job \in Job
  BY DEF HistoryTypeOK
<1>1. CASE UNCHANGED job
  BY <1>1
<1>2. job' # Free
  BY FreeIs
<1>3. ~AskDelete /\ ~Sweep /\ \A r \in Rules : ~Fire(r)
  BY DEF AskDelete, Sweep, Fire, Free
<1>4. ASSUME NEW at, Step(at) PROVE job'.at = at /\ job'.cur = job.cur /\ job'.copy = job.copy /\ job'.old = job.old /\ job'.due = job.due
  BY <1>0, <1>4 DEF Job
<1>5. ~NoteThread /\ ~MapThread /\ ~TakesTurn /\ ~MarkPending
  BY <1>4 DEF NoteThread, MapThread, TakesTurn, MarkPending
<1>6. ~DeleteFiles /\ ~DeletePages /\ ~DeleteTraces /\ ~DeleteRecord /\ ~ThreadGone /\ ~ForgetThread
  BY <1>4 DEF DeleteFiles, DeletePages, DeleteTraces, DeleteRecord, ThreadGone, ForgetThread
<1>7. ~DeleteFails /\ ~RecheckPages
  BY <1>4 DEF DeleteFails, RecheckPages, Failed
<1>8. ~Onward
  BY OnwardIs
<1>9. ~TrimFails /\ ~AllRewritten /\ ~TrimDone
  BY <1>8 DEF TrimFails, AllRewritten, TrimDone
<1>10. ~CreateThread
  BY <1>0 DEF CreateThread, Job
<1>11. ~Pick
  BY <1>0, <1>2, <1>4 DEF Pick, Job
<1>12. CASE ReadPages
  BY <1>4, <1>9, <1>12 DEF ReadPages
<1>13. CASE LookAgain
  BY <1>4, <1>9, <1>13 DEF LookAgain
<1>14. CASE RewritePage
  <2>1. PICK n \in job.due : job' = [job EXCEPT !.due = @ \ {n}] /\ job.at = "rewrite"
    BY <1>14 DEF RewritePage
  <2> QED BY <1>0, <2>1 DEF Job
<1>15. ASSUME NEW k \in Overruns, StrayClears(k)
       PROVE  /\ job'.at = job.at /\ job'.cur = job.cur /\ job'.copy = job.copy
              /\ job'.old = job.old /\ job'.due = job.due
  BY <1>0, <1>15 DEF StrayClears, Job
<1> QED
  BY <1>1, <1>2, <1>3, <1>5, <1>6, <1>7, <1>9, <1>10, <1>11, <1>12, <1>13, <1>14, <1>15
  DEF HistoryNext, JobStep, historyVars, StoreRun, DeleteRuns, Dies, Purge, Tick, DropRule, Talk, TalkEnds,
      StrayDeletes, StrayReads, StrayLooks, StrayRewrites

\* A step adds no checkpoints a trim has read but those there are.
LEMMA VersionsStep ==
  ASSUME HistoryTypeOK, CutInv, TakenInv, [HistoryNext]_historyVars, NEW t \in Threads, NEW q \in Versions(t)'
  PROVE  q = pages'[t] \/ q \in Versions(t)
<1>1. CASE q = job'.copy /\ job'.at \in Trims /\ job'.cur = t
  <2>1. CASE job.at \in Trims /\ job.cur = t /\ job'.copy = job.copy
    BY <1>1, <2>1 DEF Versions
  <2>2. CASE ReadPages /\ job' = Reading(job, job.cur, period)
    <3>1. job \in Job /\ job.cur \in Threads /\ UNCHANGED pages
      BY <2>2, <1>1 DEF HistoryTypeOK, ReadPages, TrimDone, TakenInv, ThreadSteps
    <3>2. job'.copy = pages[job.cur] /\ job'.cur = job.cur
      BY <2>2, <3>1, ReadingIs
    <3> QED BY <1>1, <3>1, <3>2
  <2> QED BY <1>1, <2>1, <2>2, JobTrims
<1>2. ASSUME NEW k \in Overruns, q = stray'[k].copy, stray'[k].at \in Trims, stray'[k].chat = t
      PROVE  q = pages'[t] \/ q \in Versions(t)
  <2>1. CASE stray[k].at \in Trims /\ stray[k].chat = t /\ stray'[k].copy = stray[k].copy
    BY <1>2, <2>1 DEF Versions
  <2>2. CASE TrimFails /\ stray'[k].chat = job.cur /\ stray'[k].at = job.at /\ stray'[k].copy = job.copy
    BY <1>2, <2>2 DEF Versions
  <2>3. CASE /\ StrayReads(k) /\ stray[k].chat = t
             /\ stray' = [stray EXCEPT ![k] = Reading(stray[k], t, stray[k].cut)]
    <3>1. stray[k] \in Stray /\ UNCHANGED pages
      BY <2>3 DEF HistoryTypeOK, StrayReads
    <3>2. stray'[k] = Reading(stray[k], t, stray[k].cut)
      BY <2>3 DEF HistoryTypeOK
    <3>3. stray'[k].copy = pages[t]
      BY <3>1, <3>2, ReadingIs
    <3> QED BY <1>2, <3>1, <3>3
  <2> QED BY <1>2, <2>1, <2>2, <2>3, StrayTrims
<1> QED BY <1>1, <1>2 DEF Versions

-----------------------------------------------------------------------------

\* x writes back the place n of t, as it has read it.
Puts(x, t, n) ==
  /\ Rewritten(x, t, n)
  /\ x.copy \in Versions(t) /\ x.copy \in Seq(Page) /\ Len(x.copy) <= Len(pages[t])
  /\ n \in 1 .. Len(x.copy) /\ x.copy[n].there
  /\ \A m \in x.old : m[2] < period

\* The other places are left alone.
LEMMA PutsIs ==
  ASSUME HistoryTypeOK, NEW t \in Threads, NEW x, NEW n, Puts(x, t, n)
  PROVE  /\ n \in 1 .. Len(pages[t]) /\ Len(pages'[t]) = Len(pages[t])
         /\ \A u \in Threads : u # t => pages'[u] = pages[u]
         /\ \A i \in 1 .. Len(pages[t]) : i # n => pages'[t][i] = pages[t][i]
         /\ pages'[t][n].at = x.copy[n].at /\ pages'[t][n].there = x.copy[n].there
         /\ pages'[t][n].msgs = x.copy[n].msgs \ x.old
<1>1. /\ Rewritten(x, t, n) /\ x.copy \in Seq(Page) /\ Len(x.copy) <= Len(pages[t])
      /\ n \in 1 .. Len(x.copy)
  BY DEF Puts
<1>2. n \in 1 .. Len(pages[t])
  BY <1>1, RewrittenIs
<1>3. Len(pages'[t]) = Len(pages[t]) /\ \A u \in Threads : u # t => pages'[u] = pages[u]
  BY <1>1, RewrittenIs
<1>4. \A i \in 1 .. Len(pages[t]) : i # n => pages'[t][i] = pages[t][i]
  BY <1>1, RewrittenIs
<1>5. /\ pages'[t][n].at = x.copy[n].at /\ pages'[t][n].there = x.copy[n].there
      /\ pages'[t][n].msgs = x.copy[n].msgs \ x.old
  BY <1>1, RewrittenIs
<1> QED BY <1>2, <1>3, <1>4, <1>5

\* A run writes msgs, which a person's run still has if it goes on.
Writes(t, msgs) ==
  /\ Written(t, msgs) /\ UNCHANGED period /\ \A u \in Threads : u # t => talk'[u] = talk[u]
  /\ \/ /\ msgs = Latest(t) \cup {<<"engine", period>>} /\ job.at = "turn" /\ job.cur = t
        /\ ~talk[t].on /\ talk' = talk
     \/ msgs = Latest(t) \cup {Recent} /\ talk'[t].msgs = msgs
     \/ msgs = talk[t].msgs /\ talk[t].on /\ ~talk'[t].on /\ talk'[t].msgs = {}

\* What a step does to the checkpoints.
LEMMA PagesStep ==
  ASSUME HistoryTypeOK, AgesInv, CutInv, TakenInv, [HistoryNext]_historyVars
  PROVE  \/ UNCHANGED <<period, pages, talk>>
         \/ Tick
         \/ \E t \in Threads : \E msgs \in SUBSET Messages : Writes(t, msgs)
         \/ /\ UNCHANGED <<period, talk>>
            /\ \E t \in Threads : Cleared(t) /\ (OverrunClears(t) \/ (DeletePages /\ t = job.cur))
         \/ /\ UNCHANGED <<period, talk>>
            /\ \E t \in Threads : \E x : \E n : Puts(x, t, n)
<1>1. CASE TakesTurn
  <2>1. job.cur \in Threads
    BY <1>1 DEF TakesTurn, TakenInv
  <2>2. Latest(job.cur) \cup {<<"engine", period>>} \in SUBSET Messages
    BY <2>1, HeldTypes DEF HistoryTypeOK, Messages
  <2> QED BY <1>1, <2>1, <2>2 DEF TakesTurn, Writes
<1>2. ASSUME NEW t \in Threads, Talk(t)
      PROVE  \E msgs \in SUBSET Messages : Writes(t, msgs)
  <2> DEFINE msgs == Latest(t) \cup {Recent}
  <2>1. msgs \in SUBSET Messages
    BY HeldTypes DEF HistoryTypeOK, Messages, Recent
  <2>2. /\ Written(t, msgs) /\ UNCHANGED period
        /\ \E here \in BOOLEAN : talk' = [talk EXCEPT ![t] = [on |-> TRUE, here |-> here, msgs |-> msgs]]
    BY <1>2 DEF Talk, Recent
  <2> HIDE DEF msgs
  <2>3. talk'[t].msgs = msgs /\ \A u \in Threads : u # t => talk'[u] = talk[u]
    BY <2>2 DEF HistoryTypeOK
  <2> QED BY <2>1, <2>2, <2>3 DEF Writes, msgs
<1>3. ASSUME NEW t \in Threads, TalkEnds(t)
      PROVE  \E msgs \in SUBSET Messages : Writes(t, msgs)
  <2>1. /\ Written(t, talk[t].msgs) /\ UNCHANGED period /\ talk[t].on
        /\ talk'[t] = Silent /\ \A u \in Threads : u # t => talk'[u] = talk[u]
    BY <1>3 DEF TalkEnds, HistoryTypeOK
  <2>2. talk[t].msgs \in SUBSET Messages
    BY DEF HistoryTypeOK
  <2> QED BY <2>1, <2>2 DEF Writes, Silent
<1>4. CASE RewritePage
  <2>1. PICK n \in job.due : job.at = "rewrite" /\ Rewritten(job, job.cur, n)
    BY <1>4 DEF RewritePage
  <2>2. job.cur \in Threads /\ Puts(job, job.cur, n)
    BY <2>1, RewriteIs DEF Puts
  <2> QED BY <1>4, <2>2 DEF RewritePage
<1>5. ASSUME NEW k \in Overruns, StrayRewrites(k)
      PROVE  /\ UNCHANGED <<period, talk>>
             /\ \E t \in Threads : \E x : \E n : Puts(x, t, n)
  <2>1. PICK n \in stray[k].due : stray[k].at = "rewrite" /\ Rewritten(stray[k], stray[k].chat, n)
    BY <1>5 DEF StrayRewrites
  <2>2. stray[k].chat \in Threads /\ Puts(stray[k], stray[k].chat, n)
    BY <2>1, StrayRewriteIs DEF Puts
  <2> QED BY <1>5, <2>2 DEF StrayRewrites
<1>6. CASE DeletePages
  <2>1. job.cur \in Threads
    BY <1>6 DEF DeletePages, TakenInv, ThreadSteps
  <2> QED BY <1>6, <2>1 DEF DeletePages
<1>7. ASSUME NEW k \in Overruns, StrayClears(k)
      PROVE  /\ UNCHANGED <<period, talk>>
             /\ \E t \in Threads : Cleared(t) /\ OverrunClears(t)
  <2>1. stray[k].chat \in Threads
    BY <1>7 DEF StrayClears, CutInv
  <2> QED BY <1>7, <2>1 DEF StrayClears, OverrunClears
<1> QED
  BY <1>1, <1>2, <1>3, <1>4, <1>5, <1>6, <1>7
  DEF HistoryNext, JobStep, historyVars, CreateThread, NoteThread, MapThread, StoreRun, MarkPending, Pick,
      DeleteRuns, ReadPages, LookAgain, AllRewritten, TrimDone, DeleteFiles, DeleteTraces, DeleteRecord,
      RecheckPages, ThreadGone, ForgetThread, AskDelete, Sweep, TrimFails, DeleteFails, Dies, Purge, Fire,
      DropRule, StrayDeletes, StrayReads, StrayLooks

\* What a chat holds is not from the future.
LEMMA HeldAges ==
  ASSUME HistoryTypeOK, AgesInv, NEW t \in Threads, NEW m \in Held(t)
  PROVE  m[2] \in Nat /\ m[2] <= period
<1>1. PICK n \in 1 .. Len(pages[t]) : m \in pages[t][n].msgs
  BY DEF Held
<1>2. pages[t][n] \in Page /\ Aged(pages[t][n])
  BY DEF HistoryTypeOK, AgesInv, Versions
<1>3. pages[t][n].at \in Nat /\ m \in Messages /\ m[2] \in Nat /\ period \in Nat
  BY <1>1, <1>2, HistoryConstants DEF HistoryTypeOK, Page, Messages
<1> QED BY <1>1, <1>2, <1>3 DEF Aged

\* What was old stays old, and is of an earlier period.
LEMMA OldAges ==
  ASSUME HistoryTypeOK, AgesInv, NEW t \in Threads, NEW cut \in 0 .. MaxTime, cut <= period, NEW m \in OldAt(t, cut)
  PROVE  m[2] < period
<1>1. PICK n \in 1 .. Len(pages[t]) : m \in pages[t][n].msgs /\ pages[t][n].at < cut
  BY DEF OldAt
<1>2. pages[t][n] \in Page /\ Aged(pages[t][n])
  <2>1. pages[t] \in Seq(Page) /\ pages[t] \in Versions(t)
    BY DEF HistoryTypeOK, Versions
  <2> QED BY <2>1 DEF AgesInv
<1>3. pages[t][n].at \in Nat /\ m \in Messages /\ m[2] \in Nat /\ period \in Nat /\ cut \in Nat
  BY <1>1, <1>2, HistoryConstants DEF HistoryTypeOK, Page, Messages
<1> QED BY <1>1, <1>2, <1>3 DEF Aged

\* A checkpoint has a time.
LEMMA VersionsAre ==
  ASSUME HistoryTypeOK, NEW t \in Threads, NEW q \in Versions(t)
  PROVE  /\ q \in Seq(Page) /\ Len(q) \in Nat
         /\ \A n \in 1 .. Len(q) : q[n].at \in Nat /\ q[n].there \in BOOLEAN /\ q[n].msgs \in SUBSET Messages
<1>1. q \in Seq(Page)
  BY DEF Versions, HistoryTypeOK, Job, Stray
<1>2. \A n \in 1 .. Len(q) : q[n] \in Page
  BY <1>1
<1> QED BY <1>1, <1>2, HistoryConstants DEF Page

\* The checkpoints of a chat after a step: those before it, one a trim has read less what
\* is old, one more, or none.
LEMMA PagesAre ==
  ASSUME HistoryTypeOK, AgesInv, CutInv, TakenInv, [HistoryNext]_historyVars, NEW t \in Threads
  PROVE  /\ Len(pages'[t]) \in Nat /\ Len(pages[t]) \in Nat /\ Len(pages[t]) <= Len(pages'[t])
         /\ \A n \in 1 .. Len(pages'[t]) :
              \/ n \in 1 .. Len(pages[t]) /\ pages'[t][n] = pages[t][n]
              \/ pages'[t][n] = NoPage
              \/ \E q \in Versions(t) : \E old : /\ n \in 1 .. Len(q) /\ \A m \in old : m[2] < period
                                                 /\ pages'[t][n].at = q[n].at
                                                 /\ pages'[t][n].there = q[n].there
                                                 /\ pages'[t][n].msgs = q[n].msgs \ old
              \/ /\ n = Len(pages[t]) + 1
                 /\ \E msgs \in SUBSET Messages : /\ Writes(t, msgs)
                                                  /\ pages'[t][n] = [at |-> period, msgs |-> msgs, there |-> TRUE]
<1>0. pages[t] \in Seq(Page) /\ Len(pages[t]) \in Nat
  BY DEF HistoryTypeOK
<1>1. CASE UNCHANGED pages
  BY <1>0, <1>1
<1>2. ASSUME NEW u \in Threads, NEW msgs \in SUBSET Messages, Writes(u, msgs)
      PROVE  /\ Len(pages'[t]) \in Nat /\ Len(pages[t]) <= Len(pages'[t])
             /\ \A n \in 1 .. Len(pages'[t]) :
                  \/ n \in 1 .. Len(pages[t]) /\ pages'[t][n] = pages[t][n]
                  \/ /\ n = Len(pages[t]) + 1 /\ Writes(t, msgs)
                     /\ pages'[t][n] = [at |-> period, msgs |-> msgs, there |-> TRUE]
  <2>1. Written(u, msgs)
    BY <1>2 DEF Writes
  <2>2. CASE u # t
    BY <1>0, <2>1, <2>2, WrittenIs
  <2>3. CASE u = t
    <3>1. Len(pages'[t]) = Len(pages[t]) + 1
      BY <2>1, <2>3, WrittenIs
    <3>2. \A n \in 1 .. Len(pages'[t]) : n \in 1 .. Len(pages[t]) \/ n = Len(pages[t]) + 1
      BY <1>0, <3>1
    <3>3. Len(pages'[t]) \in Nat /\ Len(pages[t]) <= Len(pages'[t])
      BY <1>0, <3>1
    <3> QED BY <1>2, <2>1, <2>3, <3>2, <3>3, WrittenIs
  <2> QED BY <2>2, <2>3
<1>3. ASSUME NEW u \in Threads, Cleared(u)
      PROVE  /\ Len(pages'[t]) = Len(pages[t])
             /\ \A n \in 1 .. Len(pages'[t]) : pages'[t][n] = pages[t][n] \/ pages'[t][n] = NoPage
  BY <1>3, ClearedIs
<1>4. ASSUME NEW u \in Threads, NEW x, NEW k, Puts(x, u, k)
      PROVE  /\ Len(pages'[t]) = Len(pages[t])
             /\ \A n \in 1 .. Len(pages'[t]) :
                  \/ pages'[t][n] = pages[t][n]
                  \/ \E q \in Versions(t) : \E old : /\ n \in 1 .. Len(q) /\ \A m \in old : m[2] < period
                                                     /\ pages'[t][n].at = q[n].at
                                                     /\ pages'[t][n].there = q[n].there
                                                     /\ pages'[t][n].msgs = q[n].msgs \ old
  <2>1. x.copy \in Versions(u) /\ k \in 1 .. Len(x.copy) /\ \A m \in x.old : m[2] < period
    BY <1>4 DEF Puts
  <2>2. CASE u # t
    BY <1>4, <2>2, PutsIs
  <2>3. CASE u = t
    <3>1. /\ Len(pages'[t]) = Len(pages[t]) /\ \A n \in 1 .. Len(pages[t]) : n # k => pages'[t][n] = pages[t][n]
          /\ pages'[t][k].at = x.copy[k].at /\ pages'[t][k].there = x.copy[k].there
          /\ pages'[t][k].msgs = x.copy[k].msgs \ x.old
      BY <1>4, <2>3, PutsIs
    <3> DEFINE old == x.old
               q == x.copy
    <3>2. q \in Versions(t) /\ k \in 1 .. Len(q) /\ \A m \in old : m[2] < period
      BY <2>1, <2>3
    <3>3. /\ pages'[t][k].at = q[k].at /\ pages'[t][k].there = q[k].there
          /\ pages'[t][k].msgs = q[k].msgs \ old
      BY <3>1
    <3> HIDE DEF old, q
    <3> QED BY <3>1, <3>2, <3>3
  <2> QED BY <2>2, <2>3
<1>5. CASE \E u \in Threads : \E msgs \in SUBSET Messages : Writes(u, msgs)
  BY <1>0, <1>2, <1>5
<1>6. CASE \E u \in Threads : Cleared(u)
  BY <1>0, <1>3, <1>6
<1>7. CASE \E u \in Threads : \E x : \E n : Puts(x, u, n)
  <2>1. PICK u \in Threads : \E x : \E n : Puts(x, u, n)
    BY <1>7
  <2>2. PICK x, n : Puts(x, u, n)
    BY <2>1
  <2>3. /\ Len(pages'[t]) = Len(pages[t])
        /\ \A i \in 1 .. Len(pages'[t]) :
             \/ pages'[t][i] = pages[t][i]
             \/ \E q \in Versions(t) : \E old : /\ i \in 1 .. Len(q) /\ \A m \in old : m[2] < period
                                                /\ pages'[t][i].at = q[i].at
                                                /\ pages'[t][i].there = q[i].there
                                                /\ pages'[t][i].msgs = q[i].msgs \ old
    BY <1>4, <2>2
  <2>4. /\ Len(pages'[t]) \in Nat /\ Len(pages[t]) <= Len(pages'[t])
        /\ \A i \in 1 .. Len(pages'[t]) : i \in 1 .. Len(pages[t])
    BY <1>0, <2>3
  <2> QED BY <1>0, <2>3, <2>4
<1> QED BY <1>1, <1>5, <1>6, <1>7, PagesStep DEF Tick

\* Every step keeps messages from being of the future, and what is gone empty.
LEMMA AgesStep ==
  HistoryTypeOK /\ AgesInv /\ CutInv /\ TakenInv /\ [HistoryNext]_historyVars => AgesInv'
<1> SUFFICES ASSUME HistoryTypeOK, AgesInv, CutInv, TakenInv, [HistoryNext]_historyVars, NEW t \in Threads
             PROVE  /\ \A q \in Versions(t)' :
                         /\ Len(q) <= Len(pages'[t])
                         /\ \A n \in 1 .. Len(q) : /\ q[n].at <= period' /\ (\A m \in q[n].msgs : m[2] <= q[n].at)
                                                   /\ (q[n].msgs # {} => q[n].there)
                    /\ \A m \in talk'[t].msgs : m[2] <= period'
  BY DEF AgesInv, Aged
<1> DEFINE aged(p) == p.at <= period' /\ (\A m \in p.msgs : m[2] <= p.at) /\ (p.msgs # {} => p.there)
<1>0. /\ period \in Nat /\ period' \in Nat /\ period <= period'
      /\ talk[t].msgs \in SUBSET Messages /\ HistoryTypeOK'
  <2>1. period \in Nat
    BY HistoryConstants DEF HistoryTypeOK
  <2>2. UNCHANGED period \/ period' = period + 1
    BY PagesStep DEF Tick, Writes
  <2> QED BY <2>1, <2>2, ChatTypes DEF HistoryTypeOK
\* What was no younger than the clock still is.
<1>1. ASSUME NEW at \in Nat, at <= period PROVE at <= period'
  BY <1>0, <1>1
<1>2. ASSUME NEW q \in Versions(t), NEW n \in 1 .. Len(q) PROVE aged(q[n])
  <2>1. Aged(q[n]) /\ q[n].at \in Nat
    BY <1>2, VersionsAre DEF AgesInv
  <2> QED BY <1>1, <2>1 DEF Aged
<1>3. ASSUME NEW msgs \in SUBSET Messages, Writes(t, msgs)
      PROVE  \A m \in msgs : m[2] <= period
  <2>1. ASSUME NEW m \in Latest(t) PROVE m[2] <= period
    BY <2>1, HeldTypes, HeldAges
  <2>2. \A m \in talk[t].msgs : m[2] <= period
    BY DEF AgesInv
  <2>3. period <= period
    BY <1>0
  <2> QED BY <1>3, <2>1, <2>2, <2>3 DEF Writes, Recent
<1>4. ASSUME NEW n \in 1 .. Len(pages'[t]) PROVE aged(pages'[t][n])
  <2>1. pages[t] \in Versions(t)
    BY DEF Versions
  <2>2. CASE n \in 1 .. Len(pages[t]) /\ pages'[t][n] = pages[t][n]
    BY <1>2, <2>1, <2>2
  <2>3. CASE pages'[t][n] = NoPage
    BY <1>0, <2>3 DEF NoPage
  <2>4. ASSUME NEW q \in Versions(t), NEW old, n \in 1 .. Len(q), pages'[t][n].at = q[n].at,
               pages'[t][n].there = q[n].there, pages'[t][n].msgs = q[n].msgs \ old
        PROVE  aged(pages'[t][n])
    <3>1. aged(q[n])
      BY <1>2, <2>4
    <3> QED BY <2>4, <3>1
  <2>5. ASSUME NEW msgs \in SUBSET Messages, Writes(t, msgs),
               pages'[t][n] = [at |-> period, msgs |-> msgs, there |-> TRUE]
        PROVE  aged(pages'[t][n])
    <3>1. UNCHANGED period
      BY <2>5 DEF Writes
    <3> QED BY <1>0, <1>3, <2>5, <3>1
  <2> QED BY <2>2, <2>3, <2>4, <2>5, PagesAre
<1>5. ASSUME NEW q \in Versions(t)'
      PROVE  Len(q) <= Len(pages'[t]) /\ \A n \in 1 .. Len(q) : aged(q[n])
  <2>1. CASE q = pages'[t]
    <3>1. Len(pages'[t]) \in Nat
      BY PagesAre
    <3> QED BY <1>4, <2>1, <3>1
  <2>2. CASE q \in Versions(t)
    <3>1. Len(q) \in Nat /\ Len(q) <= Len(pages[t])
      BY <2>2, VersionsAre DEF AgesInv
    <3>2. Len(pages'[t]) \in Nat /\ Len(pages[t]) \in Nat /\ Len(pages[t]) <= Len(pages'[t])
      BY PagesAre
    <3> QED BY <1>2, <2>2, <3>1, <3>2
  <2> QED BY <2>1, <2>2, VersionsStep
<1>6. \A m \in talk'[t].msgs : m[2] <= period'
  <2>1. ASSUME NEW m \in talk[t].msgs PROVE m[2] <= period'
    BY <1>0, <1>1, HistoryConstants DEF AgesInv, Messages
  <2>2. ASSUME NEW u \in Threads, NEW msgs \in SUBSET Messages, Writes(u, msgs), NEW m \in talk'[t].msgs
        PROVE  m[2] <= period'
    <3>1. CASE u # t
      BY <2>1, <2>2, <3>1 DEF Writes
    <3>2. CASE u = t
      BY <1>0, <1>3, <2>1, <2>2, <3>2 DEF Writes
    <3> QED BY <3>1, <3>2
  <2> QED BY <2>1, <2>2, PagesStep DEF Tick
<1> QED BY <1>5, <1>6

\* Every step keeps what a person wrote in this period in every later checkpoint, and in
\* the latest.  No firing writes without it: no other version of its chat is to be put back.
LEMMA RecentStep ==
  ASSUME HistoryTypeOK, AgesInv, RecentInv, NowInv, CutInv, TakenInv, ForgottenInv, [HistoryNext]_historyVars
  PROVE  RecentInv' /\ NowInv'
<1>0. period \in Nat /\ HistoryTypeOK'
  BY ChatTypes, HistoryConstants DEF HistoryTypeOK
<1>1. ASSUME NEW t \in Threads
      PROVE  /\ Len(pages[t]) \in Nat /\ Len(pages'[t]) \in Nat /\ Len(pages[t]) <= Len(pages'[t])
             /\ pages[t] \in Versions(t)
             /\ \A q \in Versions(t) : Len(q) \in Nat /\ Len(q) <= Len(pages[t])
  BY PagesAre, VersionsAre DEF AgesInv, Versions
<1>2. CASE Tick
  <2>1. period' = period + 1 /\ UNCHANGED <<pages, talk, job, stray>> /\ Recent' = <<"person", period + 1>>
    BY <1>2 DEF Tick, Recent
  <2>2. ASSUME NEW t \in Threads, NEW q \in Versions(t), NEW n \in 1 .. Len(q) PROVE Recent' \notin q[n].msgs
    <3>1. q[n].at \in Nat /\ q[n].at <= period /\ \A m \in q[n].msgs : m[2] <= q[n].at
      BY VersionsAre DEF AgesInv, Aged
    <3>2. Recent'[2] = period + 1 /\ ~(period + 1 <= q[n].at)
      BY <1>0, <2>1, <3>1
    <3> QED BY <3>1, <3>2
  <2>3. ASSUME NEW t \in Threads PROVE Versions(t)' = Versions(t) /\ Held(t)' = Held(t)
    BY <2>1 DEF Versions, Held
  <2>4. RecentInv'
    BY <2>2, <2>3 DEF RecentInv
  <2>5. ASSUME NEW t \in Threads PROVE Recent' \notin Held(t)'
    <3>1. \A n \in 1 .. Len(pages[t]) : Recent' \notin pages[t][n].msgs
      BY <1>1, <2>2
    <3>2. Recent' \notin Held(t)
      BY <3>1 DEF Held
    <3> QED BY <2>3, <3>2
  <2>6. NowInv'
    BY <2>5 DEF NowInv
  <2> QED BY <2>4, <2>6
<1>3. CASE UNCHANGED <<period, pages, talk>>
  <2>1. Recent' = Recent /\ \A t \in Threads : Versions(t)' \subseteq Versions(t)
    BY <1>1, <1>3, VersionsStep DEF Recent
  <2>2. RecentInv'
    BY <1>3, <2>1 DEF RecentInv
  <2>3. NowInv'
    BY <1>3, <2>1 DEF NowInv, Held, Latest, Newest
  <2> QED BY <2>2, <2>3
\* One chat at a time.
<1>4. SUFFICES ASSUME UNCHANGED period, NEW t \in Threads
               PROVE  /\ \A p \in Versions(t)' : \A i \in 1 .. Len(p) : Recent \in p[i].msgs =>
                           /\ \A q \in Versions(t)' : \A j \in i .. Len(q) : q[j].there => Recent \in q[j].msgs
                           /\ talk'[t].on => Recent \in talk'[t].msgs
                      /\ Recent \in Held(t)' => Recent \in Latest(t)'
  <2>1. UNCHANGED period \/ Tick
    BY PagesStep DEF Writes
  <2>2. UNCHANGED period => Recent' = Recent
    BY DEF Recent
  <2> QED BY <1>2, <1>4, <2>1, <2>2 DEF RecentInv, NowInv
<1> DEFINE spread == \A p \in Versions(t)' : \A i \in 1 .. Len(p) : Recent \in p[i].msgs =>
                       /\ \A q \in Versions(t)' : \A j \in i .. Len(q) : q[j].there => Recent \in q[j].msgs
                       /\ talk'[t].on => Recent \in talk'[t].msgs
           now == Recent \in Held(t)' => Recent \in Latest(t)'
\* A place is what it was in some version, or has nothing of a person's.
<1>5. ASSUME talk'[t] = talk[t],
             \A n \in 1 .. Len(pages'[t]) :
               \/ pages'[t][n] = NoPage
               \/ \E q \in Versions(t) : /\ n \in 1 .. Len(q) /\ pages'[t][n].there = q[n].there
                                         /\ Recent \in pages'[t][n].msgs <=> Recent \in q[n].msgs
      PROVE  spread
  <2>1. ASSUME NEW p \in Versions(t)', NEW i \in 1 .. Len(p)
        PROVE  \/ p[i] = NoPage
               \/ \E q \in Versions(t) : /\ i \in 1 .. Len(q) /\ p[i].there = q[i].there
                                         /\ Recent \in p[i].msgs <=> Recent \in q[i].msgs
    BY <1>5, <2>1, VersionsStep
  <2>2. ~NoPage.there /\ Recent \notin NoPage.msgs
    BY DEF NoPage
  <2>3. ASSUME NEW p \in Versions(t)', NEW i \in 1 .. Len(p), Recent \in p[i].msgs
        PROVE  /\ \A q \in Versions(t)' : \A j \in i .. Len(q) : q[j].there => Recent \in q[j].msgs
               /\ talk'[t].on => Recent \in talk'[t].msgs
    <3>1. PICK p0 \in Versions(t) : i \in 1 .. Len(p0) /\ Recent \in p0[i].msgs
      BY <2>1, <2>2, <2>3
    <3>2. ASSUME NEW q \in Versions(t)', NEW j \in i .. Len(q), q[j].there PROVE Recent \in q[j].msgs
      <4>1. j \in 1 .. Len(q)
        BY <2>3
      <4>2. PICK q0 \in Versions(t) : /\ j \in 1 .. Len(q0) /\ q0[j].there
                                      /\ Recent \in q[j].msgs <=> Recent \in q0[j].msgs
        BY <2>1, <2>2, <3>2, <4>1
      <4>3. j \in i .. Len(q0)
        BY <3>2, <4>2
      <4> QED BY <3>1, <4>2, <4>3 DEF RecentInv
    <3> QED BY <1>5, <3>1, <3>2 DEF RecentInv
  <2> QED BY <2>3
<1> HIDE DEF spread
<1>6. ASSUME pages'[t] = pages[t], talk'[t] = talk[t] PROVE spread /\ now
  <2>1. spread
    BY <1>1, <1>5, <1>6
  <2>2. now
    BY <1>6 DEF NowInv, Held, Latest, Newest
  <2> QED BY <2>1, <2>2
<1>7. ASSUME NEW msgs \in SUBSET Messages, Writes(t, msgs) PROVE spread /\ now
  <2> DEFINE l == Len(pages[t])
  <2>1. /\ Len(pages'[t]) = l + 1 /\ l \in Nat
        /\ \A n \in 1 .. l : pages'[t][n] = pages[t][n]
        /\ pages'[t][l + 1].msgs = msgs /\ pages'[t][l + 1].there
    <3>1. Written(t, msgs)
      BY <1>7 DEF Writes
    <3>2. /\ Len(pages'[t]) = Len(pages[t]) + 1
          /\ \A n \in 1 .. Len(pages[t]) : pages'[t][n] = pages[t][n]
          /\ pages'[t][Len(pages[t]) + 1] = [at |-> period, msgs |-> msgs, there |-> TRUE]
      BY <3>1, WrittenIs
    <3> QED BY <1>1, <3>2
  <2> HIDE DEF l
  <2>2. talk'[t].on => Recent \in talk'[t].msgs
    BY <1>7 DEF Writes
  <2>3. ASSUME NEW p \in Versions(t), NEW i \in 1 .. Len(p), Recent \in p[i].msgs PROVE Recent \in msgs
    <3>1. CASE job.at = "turn" /\ job.cur = t /\ msgs = Latest(t) \cup {<<"engine", period>>}
      <4>1. ~Trimmed(t)
        BY <3>1 DEF ForgottenInv
      <4>2. p = pages[t]
        BY <3>1, <4>1 DEF Versions, Trimmed, Trims
      <4> QED BY <2>3, <3>1, <4>2 DEF NowInv, Held
    <3>2. CASE Recent \in msgs
      BY <3>2
    <3>3. CASE msgs = talk[t].msgs /\ talk[t].on
      BY <2>3, <3>3 DEF RecentInv
    <3> QED BY <1>7, <3>1, <3>2, <3>3 DEF Writes
  <2>4. ASSUME NEW p \in Versions(t)', NEW i \in 1 .. Len(p)
        PROVE  \/ i = l + 1 /\ p[i].msgs = msgs
               \/ /\ i \in 1 .. l
                  /\ \E q \in Versions(t) : i \in 1 .. Len(q) /\ p[i] = q[i]
    <3>1. CASE p = pages'[t]
      <4>1. i = l + 1 \/ i \in 1 .. l
        BY <2>1, <3>1
      <4> QED BY <1>1, <2>1, <3>1, <4>1 DEF l
    <3>2. CASE p \in Versions(t)
      <4>1. Len(p) \in Nat /\ Len(p) <= l
        BY <1>1, <3>2 DEF l
      <4>2. i \in 1 .. l
        BY <2>1, <4>1
      <4> QED BY <3>2, <4>2
    <3> QED BY <3>1, <3>2, VersionsStep
  <2>5. ASSUME NEW p \in Versions(t)', NEW i \in 1 .. Len(p), Recent \in p[i].msgs PROVE Recent \in msgs
    BY <2>3, <2>4, <2>5
  <2>6. ASSUME NEW p \in Versions(t)', NEW i \in 1 .. Len(p), Recent \in p[i].msgs,
               NEW q \in Versions(t)', NEW j \in i .. Len(q), q[j].there
        PROVE  Recent \in q[j].msgs
    <3>0. i \in Nat /\ j \in 1 .. Len(q) /\ i <= j
      BY <2>6
    <3>1. CASE j = l + 1 /\ q[j].msgs = msgs
      BY <2>5, <2>6, <3>1
    <3>2. CASE j \in 1 .. l
      <4>1. i # l + 1
        BY <2>1, <3>0, <3>2
      <4>2. PICK p0 \in Versions(t) : i \in 1 .. Len(p0) /\ p[i] = p0[i]
        BY <2>4, <4>1
      <4>3. j # l + 1
        BY <2>1, <3>2
      <4>4. PICK q0 \in Versions(t) : j \in 1 .. Len(q0) /\ q[j] = q0[j]
        BY <2>4, <3>0, <4>3
      <4>5. j \in i .. Len(q0)
        BY <3>0, <4>4
      <4> QED BY <2>6, <4>2, <4>4, <4>5 DEF RecentInv
    <3> QED BY <2>4, <3>0, <3>1, <3>2
  <2>7. spread
    BY <2>2, <2>6 DEF spread
  <2>8. now
    <3>1. pages'[t] \in Versions(t)'
      BY DEF Versions
    <3>2. Recent \in Held(t)' => Recent \in msgs
      BY <2>5, <3>1 DEF Held
    <3>3. l + 1 \in Newest(pages'[t])
      BY <2>1 DEF Newest
    <3> QED BY <2>1, <3>2, <3>3 DEF Latest
  <2> QED BY <2>7, <2>8
<1>8. ASSUME Cleared(t), talk'[t] = talk[t] PROVE spread /\ now
  <2>1. \A n \in 1 .. Len(pages'[t]) : pages'[t][n] = NoPage
    BY <1>8, ClearedIs
  <2>2. Recent \notin Held(t)'
    BY <2>1 DEF Held, NoPage
  <2> QED BY <1>5, <1>8, <2>1, <2>2
<1>9. ASSUME NEW x, NEW k, Puts(x, t, k), talk'[t] = talk[t] PROVE spread /\ now
  <2> DEFINE c == x.copy
             l == Len(pages[t])
  <2>1. /\ c \in Versions(t) /\ k \in 1 .. Len(c) /\ c[k].there
        /\ k \in 1 .. l /\ l \in Nat /\ Len(pages'[t]) = l
        /\ \A n \in 1 .. l : n # k => pages'[t][n] = pages[t][n]
        /\ pages'[t][k].there = c[k].there /\ pages'[t][k].msgs = c[k].msgs \ x.old
    <3>1. x.copy \in Versions(t) /\ k \in 1 .. Len(x.copy) /\ x.copy[k].there
      BY <1>9 DEF Puts
    <3>2. /\ k \in 1 .. Len(pages[t]) /\ Len(pages'[t]) = Len(pages[t])
          /\ \A n \in 1 .. Len(pages[t]) : n # k => pages'[t][n] = pages[t][n]
          /\ pages'[t][k].there = x.copy[k].there /\ pages'[t][k].msgs = x.copy[k].msgs \ x.old
      BY <1>9, PutsIs
    <3> QED BY <1>1, <3>1, <3>2
  <2>2. Recent \notin x.old
    <3>1. Recent[2] = period /\ ~(period < period)
      BY <1>0 DEF Recent
    <3> QED BY <1>9, <3>1 DEF Puts
  <2> HIDE DEF c, l
  <2>3. Recent \in pages'[t][k].msgs <=> Recent \in c[k].msgs
    BY <2>1, <2>2
  <2>4. ASSUME NEW n \in 1 .. Len(pages'[t])
        PROVE  \E q \in Versions(t) : /\ n \in 1 .. Len(q) /\ pages'[t][n].there = q[n].there
                                      /\ Recent \in pages'[t][n].msgs <=> Recent \in q[n].msgs
    <3>1. CASE n = k
      BY <2>1, <2>3, <3>1
    <3>2. CASE n # k
      BY <1>1, <2>1, <3>2 DEF l
    <3> QED BY <3>1, <3>2
  <2>5. spread
    BY <1>5, <1>9, <2>4
  <2>6. ASSUME Recent \in c[k].msgs, \A n \in k + 1 .. l : ~pages[t][n].there PROVE Recent \in Latest(t)'
    <3>0. \A n \in k + 1 .. l : n \in 1 .. l /\ n # k
      BY <2>1
    <3>1. k \in Newest(pages'[t])
      BY <2>1, <2>6, <3>0 DEF Newest
    <3> QED BY <2>3, <2>6, <3>1 DEF Latest
  <2>7. CASE Recent \in Held(t)
    <3>1. PICK i \in Newest(pages[t]) : Recent \in pages[t][i].msgs
      BY <2>7 DEF NowInv, Latest
    <3>2. i \in 1 .. l /\ pages[t][i].there /\ \A n \in i + 1 .. l : ~pages[t][n].there
      BY <3>1 DEF Newest, l
    <3>3. CASE k < i
      <4>1. pages'[t][i] = pages[t][i] /\ \A n \in i + 1 .. l : pages'[t][n] = pages[t][n]
        BY <2>1, <3>2, <3>3
      <4>2. i \in Newest(pages'[t])
        BY <2>1, <3>2, <4>1 DEF Newest
      <4> QED BY <2>5, <3>1, <4>1, <4>2 DEF Latest
    <3>4. CASE i <= k
      <4>1. k \in i .. Len(c)
        BY <2>1, <3>2, <3>4
      <4>2. Recent \in c[k].msgs
        BY <1>1, <2>1, <3>1, <3>2, <4>1 DEF RecentInv, l
      <4>3. \A n \in k + 1 .. l : n \in i + 1 .. l
        BY <2>1, <3>2, <3>4
      <4> QED BY <2>5, <2>6, <3>2, <4>2, <4>3
    <3>5. k < i \/ i <= k
      BY <2>1, <3>2
    <3> QED BY <3>3, <3>4, <3>5
  <2>8. CASE Recent \notin Held(t) /\ Recent \in Held(t)'
    <3>1. PICK n \in 1 .. l : Recent \in pages'[t][n].msgs
      BY <2>1, <2>8 DEF Held
    <3>2. n = k
      BY <2>1, <2>8, <3>1 DEF Held, l
    <3>3. ASSUME NEW j \in k + 1 .. l, pages[t][j].there PROVE FALSE
      <4>1. j \in 1 .. l /\ j \in k .. l
        BY <2>1, <3>3
      <4>2. Recent \in pages[t][j].msgs
        BY <1>1, <2>1, <2>3, <3>1, <3>2, <3>3, <4>1 DEF RecentInv, l
      <4> QED BY <2>8, <4>1, <4>2 DEF Held, l
    <3> QED BY <2>3, <2>5, <2>6, <3>1, <3>2, <3>3
  <2> QED BY <2>5, <2>7, <2>8
\* No chat but that of the step has other checkpoints.
<1>10. ASSUME NEW u \in Threads, NEW msgs \in SUBSET Messages, Writes(u, msgs) PROVE spread /\ now
  <2>1. u # t => pages'[t] = pages[t] /\ talk'[t] = talk[t]
    BY <1>10, WrittenIs DEF Writes
  <2> QED BY <1>6, <1>7, <1>10, <2>1 DEF spread
<1>11. ASSUME NEW u \in Threads, Cleared(u), UNCHANGED talk PROVE spread /\ now
  <2>1. u # t => pages'[t] = pages[t]
    BY <1>11, ClearedIs
  <2> QED BY <1>6, <1>8, <1>11, <2>1 DEF spread
<1>12. ASSUME NEW u \in Threads, NEW x, NEW k, Puts(x, u, k), UNCHANGED talk PROVE spread /\ now
  <2>1. u # t => pages'[t] = pages[t]
    BY <1>12, PutsIs
  <2> QED BY <1>6, <1>9, <1>12, <2>1 DEF spread
<1>13. spread /\ now
  BY <1>6, <1>10, <1>11, <1>12, PagesStep DEF Tick, spread
<1> QED BY <1>13 DEF spread

\* Every step keeps trims to what they have read and to what is of an earlier period.
LEMMA CutStep ==
  HistoryTypeOK /\ AgesInv /\ CutInv /\ TakenInv /\ [HistoryNext]_historyVars => CutInv'
<1> SUFFICES ASSUME HistoryTypeOK, AgesInv, CutInv, TakenInv, [HistoryNext]_historyVars PROVE CutInv'
  OBVIOUS
<1>0. period \in Nat /\ period' \in Nat /\ period <= period'
  <2>1. period \in Nat
    BY HistoryConstants DEF HistoryTypeOK
  <2>2. UNCHANGED period \/ period' = period + 1
    BY PagesStep DEF Tick, Writes
  <2> QED BY <2>1, <2>2
\* Who reads now.
<1>1. ASSUME NEW t \in Threads, NEW x, x \in Job \/ x \in Stray, NEW cut \in 0 .. MaxTime, cut <= period, NEW y,
             y = Reading(x, t, cut)
      PROVE  /\ \A n \in y.due : n \in 1 .. Len(y.copy) /\ y.copy[n].there
             /\ \A m \in y.old : m[2] < period
  <2>1. /\ y.old = OldAt(t, cut) /\ y.copy = pages[t]
        /\ y.due = {n \in 1 .. Len(pages[t]) : pages[t][n].msgs \cap OldAt(t, cut) # {}}
    BY <1>1, ReadingIs
  <2>2. \A n \in 1 .. Len(pages[t]) : Aged(pages[t][n])
    BY DEF AgesInv, Versions
  <2>3. \A m \in OldAt(t, cut) : m[2] < period
    BY <1>1, OldAges
  <2> QED BY <2>1, <2>2, <2>3 DEF Aged
\* Who had read.
<1>2. ASSUME NEW old, old \in SUBSET Messages, \A m \in old : m[2] < period PROVE \A m \in old : m[2] < period'
  <2> TAKE m \in old
  <2>1. m[2] \in Nat
    BY <1>2, HistoryConstants DEF Messages
  <2> QED BY <1>0, <1>2, <2>1
<1>3. job \in Job /\ \A k \in Overruns : stray[k] \in Stray /\ stray[k].old \in SUBSET Messages
  BY DEF HistoryTypeOK, Stray
<1>4. Cuts(job)'
  <2> SUFFICES ASSUME job'.at \in Trims
               PROVE  /\ \A n \in job'.due : n \in 1 .. Len(job'.copy) /\ job'.copy[n].there
                      /\ \A m \in job'.old : m[2] < period'
    BY DEF Cuts, Trims
  <2>1. CASE job.at \in Trims /\ job'.copy = job.copy /\ job'.old = job.old /\ job'.due \subseteq job.due
    <3>1. job.old \in SUBSET Messages
      BY <1>3 DEF Job
    <3>2. Cuts(job)
      BY DEF CutInv
    <3> QED BY <1>2, <2>1, <3>1, <3>2 DEF Cuts
  <2>2. CASE ReadPages /\ job' = Reading(job, job.cur, period)
    <3>1. job.cur \in Threads /\ period \in 0 .. MaxTime /\ period <= period
      BY <1>0, <2>2 DEF ReadPages, TakenInv, ThreadSteps, HistoryTypeOK
    <3>2. job'.old \in SUBSET Messages
      BY <1>3, <2>2, <3>1, ReadingIs, HeldTypes
    <3> QED BY <1>1, <1>2, <1>3, <2>2, <3>1, <3>2
  <2> QED BY <2>1, <2>2, JobTrims
<1>5. ASSUME NEW k \in Overruns PROVE Cuts(stray[k])'
  <2> SUFFICES ASSUME stray'[k].at \in Trims
               PROVE  /\ \A n \in stray'[k].due : n \in 1 .. Len(stray'[k].copy) /\ stray'[k].copy[n].there
                      /\ \A m \in stray'[k].old : m[2] < period'
    BY DEF Cuts, Trims
  <2>0. Cuts(job) /\ Cuts(stray[k])
    BY DEF CutInv
  <2>1. CASE /\ stray[k].at \in Trims /\ stray'[k].copy = stray[k].copy /\ stray'[k].old = stray[k].old
             /\ stray'[k].due \subseteq stray[k].due
    BY <1>2, <1>3, <2>0, <2>1 DEF Cuts
  <2>2. CASE stray'[k] = stray[k]
    BY <1>2, <1>3, <2>0, <2>2 DEF Cuts
  <2>3. CASE /\ stray[k].chat \in Threads
             /\ stray' = [stray EXCEPT ![k] = Reading(stray[k], stray[k].chat, stray[k].cut)]
    <3>1. stray[k].cut \in 0 .. MaxTime /\ stray[k].cut <= period
      BY <1>3 DEF CutInv, Stray
    <3>2. stray'[k] = Reading(stray[k], stray[k].chat, stray[k].cut)
      BY <2>3 DEF HistoryTypeOK
    <3>3. stray'[k].old \in SUBSET Messages
      BY <1>3, <2>3, <3>2, ReadingIs, HeldTypes
    <3> QED BY <1>1, <1>2, <1>3, <2>3, <3>1, <3>2, <3>3
  <2>4. CASE /\ stray'[k].at = job.at /\ stray'[k].old = job.old /\ stray'[k].due = job.due
             /\ stray'[k].copy = job.copy
    <3>1. job.old \in SUBSET Messages
      BY <1>3 DEF Job
    <3> QED BY <1>2, <2>0, <2>4, <3>1 DEF Cuts
  <2> QED BY <2>1, <2>2, <2>3, <2>4, StrayTrims
<1>6. ASSUME NEW k \in Overruns
      PROVE  stray'[k].cut <= period' /\ (stray'[k].at # "none" => stray'[k].chat \in Threads)
  <2>0. stray[k].cut \in Nat /\ stray[k].cut <= period /\ (stray[k].at # "none" => stray[k].chat \in Threads)
    BY <1>3, HistoryConstants DEF CutInv, Stray
  <2>1. CASE stray'[k] = stray[k]
    BY <1>0, <2>0, <2>1
  <2>2. ASSUME GoesOn, job.at \in {"read", "again", "rewrite", "files", "pages", "traces", "record"}
        PROVE  stray'[k].cut <= period' /\ (stray'[k].at # "none" => stray'[k].chat \in Threads)
    <3>1. job.cur \in Threads
      BY <2>2 DEF TakenInv, ThreadSteps
    <3> QED BY <1>0, <2>1, <2>2, <3>1, GoesOnIs
  <2>3. CASE TrimFails \/ DeleteFails
    BY <2>1, <2>2, <2>3 DEF TrimFails, DeleteFails
  <2>4. ASSUME NEW i \in Overruns,
               StrayDeletes(i) \/ StrayClears(i) \/ StrayReads(i) \/ StrayLooks(i) \/ StrayRewrites(i)
        PROVE  stray'[k].cut <= period' /\ (stray'[k].at # "none" => stray'[k].chat \in Threads)
    <3>1. NoStray.cut = 0 /\ NoStray.at = "none"
      BY DEF NoStray
    <3>2. CASE i # k
      BY <2>1, <2>4, <3>2, StrayGoes
    <3>3. CASE i = k
      <4>1. stray[k].chat \in Threads /\ (stray'[k] = NoStray \/ (stray'[k].chat = stray[k].chat /\ stray'[k].cut = stray[k].cut))
        BY <2>4, <3>3, StrayGoes
      <4> QED BY <1>0, <2>0, <3>1, <4>1
    <3> QED BY <3>2, <3>3
  <2> QED
    BY <2>1, <2>3, <2>4
    DEF HistoryNext, JobStep, historyVars, CreateThread, NoteThread, MapThread, TakesTurn, StoreRun,
        MarkPending, Pick, DeleteRuns, ReadPages, LookAgain, RewritePage, AllRewritten, TrimDone, DeleteFiles,
        DeletePages, DeleteTraces, DeleteRecord, RecheckPages, ThreadGone, ForgetThread, AskDelete, Sweep, Dies,
        Purge, Tick, Fire, DropRule, Talk, TalkEnds
<1> QED BY <1>4, <1>5, <1>6 DEF CutInv

-----------------------------------------------------------------------------

\* How the holder of the lock goes on.
LEMMA JobMoves ==
  ASSUME HistoryTypeOK, [HistoryNext]_historyVars
  PROVE  \/ job' = Free \/ Sweep \/ AskDelete \/ \E r \in Rules : Fire(r)
         \/ /\ CreateThread /\ job'.at = "note" /\ job'.cur = chats + 1
            /\ job'.whole = job.whole /\ job'.check = job.check /\ job'.saw = job.saw
         \/ /\ job'.at = job.at /\ job'.cur = job.cur /\ job'.whole = job.whole /\ job'.check = job.check
            /\ job'.saw \subseteq job.saw
         \/ /\ job'.cur = job.cur /\ job'.whole = job.whole /\ job'.check = job.check /\ job'.saw = job.saw
            /\ \/ job.at = "note" /\ job'.at = "map"
               \/ job.at = "map" /\ job'.at = "turn"
               \/ job.at = "turn" /\ job'.at = "store"
               \/ job.at = "mark" /\ job'.at = "pick" /\ MarkPending
               \/ job.at = "pick" /\ job'.at = "runs"
               \/ job.at = "read" /\ job'.at = "files" /\ ~InWindow(job.cur, period) /\ ReadPages
               \/ job.at = "read" /\ job'.at = "again"
               \/ job.at = "again" /\ job'.at = "rewrite"
               \/ job.at \in ThreadSteps /\ job'.at = "pick"
               \/ job.at = "files" /\ job'.at = "pages"
               \/ job.at = "pages" /\ job'.at = "traces"
               \/ job.at = "traces" /\ job'.at = "record"
               \/ job.at = "record" /\ job'.at = "recheck"
               \/ job.at = "recheck" /\ job'.at = "gone"
               \/ job.at = "gone" /\ job'.at = "forget"
         \/ /\ job.at = "pick" /\ job'.at = "files" /\ job'.cur \in job.whole
            /\ job'.whole = job.whole \ {job'.cur} /\ job'.check = job.check /\ job'.saw = job.saw
         \/ /\ job.at = "pick" /\ job'.at = "read" /\ job'.cur \in job.check
            /\ job'.whole = {} /\ job'.check = job.check \ {job'.cur} /\ job'.saw = job.saw
<1>0. job \in Job
  BY DEF HistoryTypeOK
<1>1. ASSUME NEW at, Step(at)
      PROVE  /\ job'.at = at /\ job'.cur = job.cur /\ job'.whole = job.whole /\ job'.check = job.check
             /\ job'.saw = job.saw
  BY <1>0, <1>1 DEF Job
<1>2. CASE UNCHANGED job
  BY <1>2
<1>3. CASE NoteThread \/ MapThread \/ TakesTurn \/ MarkPending
  BY <1>1, <1>3 DEF NoteThread, MapThread, TakesTurn, MarkPending
<1>4. CASE DeleteFiles \/ DeletePages \/ DeleteTraces \/ DeleteRecord
  BY <1>1, <1>4 DEF DeleteFiles, DeletePages, DeleteTraces, DeleteRecord
<1>5. CASE ThreadGone \/ ForgetThread \/ RecheckPages \/ DeleteFails
  BY <1>1, <1>5 DEF ThreadGone, ForgetThread, RecheckPages, DeleteFails, Failed, ThreadSteps
<1>6. ASSUME Onward
      PROVE  /\ job'.at = "pick" /\ job'.cur = job.cur /\ job'.whole = job.whole /\ job'.check = job.check
             /\ job'.saw = job.saw
  BY <1>6, OnwardIs
<1>7. CASE LookAgain \/ AllRewritten \/ TrimFails
  BY <1>1, <1>6, <1>7 DEF LookAgain, AllRewritten, TrimFails, TrimDone, ThreadSteps
<1>8. CASE ReadPages
  <2>1. CASE ~InWindow(job.cur, period)
    BY <1>1, <1>8, <2>1 DEF ReadPages
  <2>2. CASE TrimDone
    BY <1>6, <1>8, <2>2 DEF ReadPages, TrimDone, ThreadSteps
  <2>3. CASE job' = Reading(job, job.cur, period)
    <3>1. /\ job'.at = "again" /\ job'.cur = job.cur /\ job'.whole = job.whole /\ job'.check = job.check
          /\ job'.saw = job.saw
      BY <1>0, <2>3 DEF Job, Reading
    <3> QED BY <1>8, <3>1 DEF ReadPages
  <2> QED BY <1>8, <2>1, <2>2, <2>3 DEF ReadPages
<1>9. CASE RewritePage \/ \E k \in Overruns : StrayClears(k)
  <2>1. /\ job'.at = job.at /\ job'.cur = job.cur /\ job'.whole = job.whole /\ job'.check = job.check
        /\ job'.saw \subseteq job.saw
    BY <1>0, <1>9 DEF RewritePage, StrayClears, Job
  <2> QED BY <2>1
<1>10. CASE CreateThread
  BY <1>0, <1>10 DEF CreateThread, Job
<1>11. CASE Pick
  <2>1. CASE job' = Free \/ Step("runs")
    BY <1>1, <1>11, <2>1 DEF Pick
  <2>2. ASSUME NEW t \in job.whole, job' = [job EXCEPT !.cur = t, !.whole = @ \ {t}, !.at = "files"]
        PROVE  /\ job'.at = "files" /\ job'.cur = t
               /\ job'.whole = job.whole \ {t} /\ job'.check = job.check /\ job'.saw = job.saw
    BY <1>0, <2>2 DEF Job
  <2>3. ASSUME NEW t \in job.check, job' = [job EXCEPT !.cur = t, !.check = @ \ {t}, !.at = "read"], job.whole = {}
        PROVE  /\ job'.at = "read" /\ job'.cur = t
               /\ job'.whole = {} /\ job'.check = job.check \ {t} /\ job'.saw = job.saw
    BY <1>0, <2>3 DEF Job
  <2> QED BY <1>11, <2>1, <2>2, <2>3 DEF Pick, Least
<1> QED
  BY <1>2, <1>3, <1>4, <1>5, <1>7, <1>8, <1>9, <1>10, <1>11
  DEF HistoryNext, JobStep, historyVars, StoreRun, DeleteRuns, Dies, Purge, Tick, DropRule, Talk, TalkEnds,
      StrayDeletes, StrayReads, StrayLooks, StrayRewrites

\* How what the ledger knows of a chat changes.
LEMMA LedgerStep ==
  ASSUME HistoryTypeOK, TakenInv, [HistoryNext]_historyVars, NEW t \in Threads
  PROVE  LET row == ledger[t]
             new == ledger'[t]
         IN \/ new.in = row.in /\ new.pending = row.pending /\ new.trim = row.trim /\ new.reason = row.reason
            \/ /\ new = Row /\ ~row.in
               /\ \/ job.at \in {"note", "store"} /\ t = job.cur
                  \/ AskDelete /\ \E run \in stored : run[1] = t
            \/ /\ MarkPending /\ t \in job.whole /\ row.in
               /\ new.in /\ new.pending /\ new.reason = "explicit" /\ new.trim = row.trim
            \/ /\ job.at \in {"read"} \cup Trims /\ t = job.cur
               /\ new.in = row.in /\ new.pending = row.pending /\ new.reason = row.reason
               /\ new.trim \in {FALSE, row.in}
            \/ /\ job.at \in {"files", "pages", "traces", "record", "recheck"} /\ t = job.cur /\ row.in
               /\ new.in /\ new.pending /\ (row.reason = "explicit" => new.reason = "explicit")
            \/ ThreadGone /\ t = job.cur /\ new = NoRow
<1> DEFINE row == ledger[t]
           new == ledger'[t]
<1> USE DEF Trims
<1>0. row \in LedgerRow
  BY DEF HistoryTypeOK
<1>1. CASE UNCHANGED ledger
  BY <1>1
<1>2. CASE NoteThread \/ StoreRun
  <2>1. job.at \in {"note", "store"} /\ ledger' = [ledger EXCEPT ![job.cur] = IF @.in THEN @ ELSE Row]
    BY <1>2 DEF NoteThread, StoreRun
  <2>2. new = row \/ (new = Row /\ ~row.in /\ t = job.cur)
    BY <2>1 DEF HistoryTypeOK
  <2> QED BY <2>1, <2>2
<1>3. CASE AskDelete
  BY <1>3 DEF AskDelete
<1>4. CASE MarkPending
  BY <1>0, <1>4 DEF MarkPending, LedgerRow
<1>5. ASSUME NEW trim, ledger' = [ledger EXCEPT ![job.cur].trim = trim]
      PROVE  \/ new = row
             \/ /\ t = job.cur /\ new.in = row.in /\ new.pending = row.pending /\ new.reason = row.reason
                /\ new.trim = trim
  <2>1. new = row \/ (t = job.cur /\ new = [row EXCEPT !.trim = trim])
    BY <1>5 DEF HistoryTypeOK
  <2> QED BY <1>0, <2>1 DEF LedgerRow
<1>6. CASE TrimDone /\ job.at \in {"read", "again", "rewrite"}
  BY <1>5, <1>6 DEF TrimDone
<1>7. CASE TrimFails
  BY <1>5, <1>7 DEF TrimFails
<1>8. CASE Failed /\ job.at \in {"files", "pages", "traces", "record", "recheck"}
  <2>1. CASE t # job.cur \/ ~row.in
    BY <1>8, <2>1 DEF Failed, HistoryTypeOK
  <2>2. CASE t = job.cur /\ row.in
    <3> DEFINE why == IF row.reason # "none" THEN row.reason
                      ELSE IF job.by = "person" THEN "explicit" ELSE "retention"
    <3>1. ledger' = [ledger EXCEPT ![t] = [row EXCEPT !.pending = TRUE, !.reason = why]]
      BY <1>8, <2>2 DEF Failed
    <3>2. row.reason = "explicit" => why = "explicit"
      OBVIOUS
    <3> HIDE DEF why
    <3>3. new = [row EXCEPT !.pending = TRUE, !.reason = why]
      BY <3>1 DEF HistoryTypeOK
    <3>4. new.in /\ new.pending /\ (row.reason = "explicit" => new.reason = "explicit")
      BY <1>0, <2>2, <3>2, <3>3 DEF LedgerRow
    <3> QED BY <1>8, <2>2, <3>4
  <2> QED BY <2>1, <2>2
<1>9. CASE Purge
  <2>1. PICK first \in [Threads -> 0 .. MaxTime] : ledger' = [u \in Threads |-> [ledger[u] EXCEPT !.seen = first[u]]]
    BY <1>9 DEF Purge
  <2>2. new = [row EXCEPT !.seen = first[t]]
    BY <2>1
  <2> QED BY <1>0, <2>2 DEF LedgerRow
<1>10. CASE ThreadGone
  BY <1>10 DEF ThreadGone, HistoryTypeOK
<1> QED
  BY <1>1, <1>2, <1>3, <1>4, <1>6, <1>7, <1>8, <1>9, <1>10
  DEF HistoryNext, JobStep, historyVars, CreateThread, MapThread, TakesTurn, Pick, DeleteRuns, ReadPages,
      LookAgain, RewritePage, AllRewritten, DeleteFiles, DeletePages, DeleteTraces, DeleteRecord,
      RecheckPages, ForgetThread, Sweep, DeleteFails, Dies, Tick, Fire, DropRule, Talk, TalkEnds,
      StrayDeletes, StrayClears, StrayReads, StrayLooks, StrayRewrites

\* A rule has a chat it had, unless the chat was made for it.
LEMMA MapStep ==
  ASSUME HistoryTypeOK, [HistoryNext]_historyVars, NEW t \in Mapped'
  PROVE  \/ t \in Mapped
         \/ MapThread /\ t = job.cur
<1>1. PICK r \in Rules : t = map'[r] /\ t # NoThread
  BY DEF Mapped
<1>2. ASSUME NEW ts, Forgetting(ts) PROVE t \in Mapped
  BY <1>1, <1>2 DEF Forgetting, Mapped
<1>3. CASE UNCHANGED map
  BY <1>1, <1>3 DEF Mapped
<1>4. CASE MapThread
  BY <1>1, <1>4 DEF MapThread, Mapped, HistoryTypeOK
<1>5. ASSUME NEW s \in Rules, DropRule(s) PROVE t \in Mapped
  BY <1>1, <1>5 DEF DropRule, Mapped, HistoryTypeOK
<1> QED
  BY <1>2, <1>3, <1>4, <1>5
  DEF HistoryNext, JobStep, historyVars, CreateThread, NoteThread, TakesTurn, StoreRun, MarkPending, Pick,
      DeleteRuns, ReadPages, LookAgain, RewritePage, AllRewritten, TrimDone, DeleteFiles, DeletePages,
      DeleteTraces, DeleteRecord, RecheckPages, ThreadGone, ForgetThread, AskDelete, Sweep, TrimFails,
      DeleteFails, Dies, Purge, Tick, Fire, Talk, TalkEnds, StrayDeletes, StrayClears, StrayReads, StrayLooks,
      StrayRewrites

\* A chat is trimmed by a coroutine that did, or by one that takes too long.
LEMMA TrimmedStep ==
  ASSUME HistoryTypeOK, CutInv, TakenInv, [HistoryNext]_historyVars, NEW t \in Threads, Trimmed(t)'
  PROVE  Trimmed(t) \/ (job.at \in {"read"} \cup Trims /\ job'.at = "pick" /\ t = job.cur)
<1>1. PICK k \in Overruns : stray'[k].at \in {"read"} \cup Trims /\ stray'[k].chat = t
  BY DEF Trimmed
<1>2. TrimFails => job.at \in {"read"} \cup Trims /\ job'.at = "pick"
  BY OnwardIs DEF TrimFails, Trims
<1> QED BY <1>1, <1>2, StrayTrims DEF Trimmed

\* Every step keeps a chat from being taken twice.
LEMMA TakenStep ==
  ASSUME HistoryTypeOK, TakenInv, [HistoryNext]_historyVars
  PROVE  TakenInv'
<1> USE FreeIs DEF ThreadSteps
<1>0. /\ job \in Job /\ job.whole \subseteq Threads /\ job.check \subseteq Threads
      /\ chats \in Nat /\ chats' \in Nat
      /\ (chats' = chats \/ CreateThread)
  <2>1. job \in Job
    BY DEF HistoryTypeOK
  <2>2. chats' = chats \/ CreateThread
    BY DEF HistoryNext, JobStep, historyVars, NoteThread, MapThread, TakesTurn, StoreRun, MarkPending, Pick,
      DeleteRuns, ReadPages, LookAgain, RewritePage, AllRewritten, TrimDone, DeleteFiles, DeletePages,
      DeleteTraces, DeleteRecord, RecheckPages, ThreadGone, ForgetThread, AskDelete, Sweep, TrimFails,
      DeleteFails, Dies, Purge, Tick, Fire, DropRule, Talk, TalkEnds, StrayDeletes, StrayClears, StrayReads,
      StrayLooks, StrayRewrites
  <2>3. chats \in Nat /\ (CreateThread => chats' = chats + 1)
    BY HistoryConstants DEF HistoryTypeOK, CreateThread
  <2> QED BY <2>1, <2>2, <2>3 DEF Job
<1>1. CASE job' = Free
  BY <1>1 DEF TakenInv
<1>2. CASE Sweep
  <2>1. job'.at = "pick" /\ job'.whole \cap job'.check = {}
    BY <1>2 DEF Sweep, Free
  <2> QED BY <2>1 DEF TakenInv
<1>3. CASE AskDelete
  <2>1. job'.at = "mark" /\ job'.check = {}
    BY <1>3 DEF AskDelete, Free
  <2> QED BY <2>1 DEF TakenInv
<1>4. ASSUME NEW r \in Rules, Fire(r) PROVE TakenInv'
  <2>1. /\ job'.check = {} /\ chats' = chats
        /\ job'.at = IF map[r] = NoThread THEN "create" ELSE "turn"
        /\ job'.cur = map[r] /\ (map[r] = NoThread => chats < MaxThreads)
    BY <1>4 DEF Fire, Free
  <2>2. map[r] = NoThread \/ map[r] \in Threads
    BY DEF HistoryTypeOK
  <2> QED BY <2>1, <2>2 DEF TakenInv
<1>5. CASE CreateThread /\ job'.at = "note" /\ job'.cur = chats + 1 /\ job'.whole = job.whole /\ job'.check = job.check
  <2>1. chats + 1 \in Threads
    BY <1>0, <1>5, HistoryConstants DEF CreateThread, TakenInv, Threads
  <2> QED BY <1>5, <2>1 DEF TakenInv
<1>6. CASE job'.at = job.at /\ job'.cur = job.cur /\ job'.whole = job.whole /\ job'.check = job.check
  <2>1. CASE chats' = chats
    BY <1>6, <2>1 DEF TakenInv
  <2>2. CASE CreateThread
    BY <1>6, <2>2 DEF CreateThread, TakenInv, Job, HistoryTypeOK
  <2> QED BY <1>0, <2>1, <2>2
<1>7. ASSUME job'.cur = job.cur, job'.whole = job.whole, job'.check = job.check,
             job'.at # "create",
             job'.at \in ThreadSteps => job.at \in ThreadSteps,
             job'.at \in {"note", "map", "turn", "store"} => job.at \in {"note", "map", "turn", "store"}
      PROVE  TakenInv'
  BY <1>7 DEF TakenInv
<1>8. CASE /\ job.at = "pick" /\ job'.at = "files" /\ job'.cur \in job.whole
           /\ job'.whole = job.whole \ {job'.cur} /\ job'.check = job.check
  BY <1>0, <1>8 DEF TakenInv
<1>9. CASE /\ job.at = "pick" /\ job'.at = "read" /\ job'.cur \in job.check
           /\ job'.whole = {} /\ job'.check = job.check \ {job'.cur}
  BY <1>0, <1>9 DEF TakenInv
<1> QED BY <1>1, <1>2, <1>3, <1>4, <1>5, <1>6, <1>7, <1>8, <1>9, JobMoves

\* A deletion that was asked for stays one until its chat is gone.
LEMMA AskedKept ==
  ASSUME HistoryTypeOK, TakenInv, [HistoryNext]_historyVars, NEW t \in Threads, Asked(t)
  PROVE  Asked(t)' \/ (ThreadGone /\ t = job.cur)
BY LedgerStep DEF Asked

\* Every step keeps what is pending in the ledger, and what is deleted asked for.
LEMMA RowsStep ==
  ASSUME HistoryTypeOK, TakenInv, RowsInv, [HistoryNext]_historyVars
  PROVE  RowsInv'
<1> USE FreeIs
<1>0. job.whole \in SUBSET Threads
  BY DEF HistoryTypeOK, Job
<1>1. ASSUME NEW t \in Threads PROVE (Unfinished(t) => ledger[t].in)' /\ (Asked(t) => ledger[t].pending)'
  <2>1. (Unfinished(t) => ledger[t].in) /\ (Asked(t) => ledger[t].pending)
    BY DEF RowsInv
  <2>2. Row.in /\ ~Row.pending /\ ~Row.trim /\ Row.reason = "none"
    BY DEF Row, NoRow
  <2>3. ~NoRow.in /\ ~NoRow.pending /\ ~NoRow.trim /\ NoRow.reason = "none"
    BY DEF NoRow
  <2> QED BY <2>1, <2>2, <2>3, LedgerStep DEF Unfinished, Asked
<1>2. ASSUME NEW t \in Threads, ledger[t].in PROVE ledger'[t].in \/ (job.at = "gone" /\ t = job.cur)
  BY <1>2, LedgerStep DEF ThreadGone, Row, NoRow
<1>3. ASSUME NEW t \in job.whole, job.at # "mark" PROVE Asked(t)'
  BY <1>0, <1>3, AskedKept DEF RowsInv, ThreadGone, TakenInv, ThreadSteps
<1>4. /\ job'.at = "mark" => job'.whole \subseteq Listed'
      /\ job'.at # "mark" => \A t \in job'.whole : Asked(t)'
  <2>1. CASE job' = Free
    BY <2>1
  <2>2. CASE Sweep
    BY <1>0, <2>2 DEF Sweep, Free, ExplicitDeletes, Listed, Asked
  <2>3. CASE AskDelete
    BY <2>3 DEF AskDelete, Free, Listed
  <2>4. ASSUME NEW r \in Rules, Fire(r) PROVE job'.at # "mark" /\ job'.whole = {}
    BY <2>4 DEF Fire, Free
  <2>5. CASE CreateThread /\ job'.at = "note" /\ job'.whole = job.whole
    BY <1>3, <2>5 DEF CreateThread
  <2>6. CASE job'.at = job.at /\ job'.whole = job.whole
    <3>1. CASE job.at = "mark"
      BY <1>0, <1>2, <2>6, <3>1 DEF RowsInv, Listed
    <3> QED BY <1>3, <2>6, <3>1
  <2>7. CASE job'.whole = job.whole /\ job'.at # "mark" /\ job.at # "mark"
    BY <1>3, <2>7
  <2>8. CASE job'.whole = job.whole /\ job'.at = "pick" /\ MarkPending
    <3>1. \A t \in job.whole : ledger[t].in
      BY <2>8 DEF MarkPending, RowsInv, Listed
    <3>2. ASSUME NEW t \in job.whole PROVE Asked(t)'
      <4>1. ledger'[t] = [ledger[t] EXCEPT !.pending = TRUE, !.reason = "explicit"] /\ ledger[t] \in LedgerRow
        BY <1>0, <2>8, <3>1 DEF MarkPending, HistoryTypeOK
      <4> QED BY <3>1, <4>1 DEF Asked, LedgerRow
    <3> QED BY <2>8, <3>2
  <2>9. CASE job.at = "pick" /\ job'.at \in {"files", "read"} /\ job'.whole \subseteq job.whole
    BY <1>3, <2>9
  <2> QED BY <2>1, <2>2, <2>3, <2>4, <2>5, <2>6, <2>7, <2>8, <2>9, JobMoves DEF ThreadSteps
<1> QED BY <1>1, <1>4 DEF RowsInv

\* Every step keeps what has not been created from being anywhere.
LEMMA CreatedStep ==
  ASSUME HistoryTypeOK, CutInv, TakenInv, RowsInv, CreatedInv, [HistoryNext]_historyVars
  PROVE  CreatedInv'
<1> USE FreeIs DEF ThreadSteps, Trims
<1>0. /\ chats \in Nat /\ chats' \in Nat /\ chats <= chats' /\ (CreateThread => chats' = chats + 1)
      /\ job.whole \in SUBSET Threads /\ job.check \in SUBSET Threads
  <2>1. chats' = chats \/ CreateThread
    BY DEF HistoryNext, JobStep, historyVars, NoteThread, MapThread, TakesTurn, StoreRun, MarkPending, Pick,
      DeleteRuns, ReadPages, LookAgain, RewritePage, AllRewritten, TrimDone, DeleteFiles, DeletePages,
      DeleteTraces, DeleteRecord, RecheckPages, ThreadGone, ForgetThread, AskDelete, Sweep, TrimFails,
      DeleteFails, Dies, Purge, Tick, Fire, DropRule, Talk, TalkEnds, StrayDeletes, StrayClears, StrayReads,
      StrayLooks, StrayRewrites
  <2>2. chats \in Nat /\ (CreateThread => chats' = chats + 1)
    BY HistoryConstants DEF HistoryTypeOK, CreateThread
  <2> QED BY <2>1, <2>2 DEF HistoryTypeOK, Job
<1>1. ASSUME NEW n \in Nat, n <= chats PROVE n <= chats'
  BY <1>0, <1>1
<1>2. /\ \A t \in Threads : t \in Nat /\ (Trimmed(t) \/ ledger[t].in \/ t \in Mapped \cup job.check => t <= chats)
      /\ job.cur \in Nat
      /\ job.at \in ThreadSteps \cup {"note", "map", "turn", "store"} => job.cur <= chats
      /\ \A run \in stored : run[1] \in Threads /\ run[1] <= chats
  BY DEF CreatedInv, HistoryTypeOK, Job, Threads, NoThread
<1>3. ASSUME NEW t \in Threads, Trimmed(t)' PROVE t <= chats'
  BY <1>1, <1>2, <1>3, TrimmedStep
<1>4. ASSUME NEW t \in Threads, ledger'[t].in PROVE t <= chats'
  <2>1. \/ ledger[t].in
        \/ job.at \in {"note", "store"} /\ t = job.cur
        \/ \E run \in stored : run[1] = t
    <3>1. ~NoRow.in
      BY DEF NoRow
    <3> QED BY <1>4, <3>1, LedgerStep
  <2> QED BY <1>1, <1>2, <2>1
<1>5. ASSUME NEW t \in Threads, t \in Mapped' PROVE t <= chats'
  BY <1>1, <1>2, <1>5, MapStep DEF MapThread
<1>6. ASSUME NEW t \in Threads, t \in job'.check PROVE t <= chats'
  <2>1. CASE t \in job.check
    BY <1>1, <1>2, <2>1
  <2>2. CASE Sweep
    <3>1. ledger[t].in
      BY <1>6, <2>2 DEF Sweep, Free, ToSweep, Listed
    <3> QED BY <1>1, <1>2, <3>1
  <2>3. ~AskDelete /\ \A r \in Rules : ~Fire(r)
    BY <1>6 DEF AskDelete, Fire, Free
  <2> QED BY <1>6, <2>1, <2>2, <2>3, JobMoves
<1>7. ASSUME NEW run \in stored' PROVE run[1] <= chats'
  <2>1. CASE run \in stored
    BY <1>1, <1>2, <2>1
  <2>2. run \in stored \/ (StoreRun /\ run = <<job.cur, period>>)
    BY <1>7
    DEF HistoryNext, JobStep, historyVars, CreateThread, NoteThread, MapThread, TakesTurn, StoreRun, MarkPending,
      Pick, DeleteRuns, ReadPages, LookAgain, RewritePage, AllRewritten, TrimDone, DeleteFiles, DeletePages,
      DeleteTraces, DeleteRecord, RecheckPages, ThreadGone, ForgetThread, AskDelete, Sweep, TrimFails,
      DeleteFails, Dies, Purge, Tick, Fire, DropRule, Talk, TalkEnds, StrayDeletes, StrayClears, StrayReads,
      StrayLooks, StrayRewrites
  <2> QED BY <1>1, <1>2, <2>1, <2>2 DEF StoreRun
<1>8. ASSUME job'.at \in ThreadSteps \cup {"note", "map", "turn", "store"} PROVE job'.cur <= chats'
  <2>1. CASE job'.cur = job.cur /\ job.at \in ThreadSteps \cup {"note", "map", "turn", "store"}
    BY <1>1, <1>2, <2>1
  <2>2. CASE CreateThread /\ job'.cur = chats + 1
    BY <1>0, <2>2
  <2>3. ASSUME NEW r \in Rules, Fire(r) PROVE job'.cur <= chats'
    <3>1. job'.cur = map[r] /\ map[r] # NoThread
      BY <1>8, <2>3 DEF Fire, Free
    <3>2. map[r] \in Threads /\ map[r] \in Mapped
      BY <3>1 DEF HistoryTypeOK, Mapped
    <3> QED BY <1>1, <1>2, <3>1, <3>2
  <2>4. ~Sweep /\ ~AskDelete /\ job' # Free
    BY <1>8, BeginsAs
  <2>5. CASE job.at = "pick" /\ job'.cur \in job.whole
    BY <1>0, <1>1, <1>2, <2>5 DEF RowsInv, Asked
  <2>6. CASE job'.cur \in job.check
    BY <1>0, <1>1, <1>2, <2>6
  <2> QED BY <1>8, <2>1, <2>2, <2>3, <2>4, <2>5, <2>6, JobMoves
<1> QED BY <1>3, <1>4, <1>5, <1>6, <1>7, <1>8 DEF CreatedInv

\* Every step keeps rules out of chats that are trimmed, and that have to be deleted again.
LEMMA ForgottenStep ==
  ASSUME HistoryTypeOK, CutInv, TakenInv, RowsInv, CreatedInv, ForgottenInv, [HistoryNext]_historyVars
  PROVE  ForgottenInv'
<1> USE FreeIs DEF ThreadSteps, Trims
<1>0. /\ job.whole \in SUBSET Threads /\ job.check \in SUBSET Threads
      /\ Mapped \subseteq Threads /\ Mapped' \subseteq Threads
      /\ chats \in Nat /\ \A t \in Threads : t \in Nat
  <2>1. Mapped \subseteq Threads
    BY DEF HistoryTypeOK, Mapped
  <2>2. Mapped' \subseteq Threads
    BY <2>1, MapStep DEF MapThread, TakenInv
  <2> QED BY <2>1, <2>2, HistoryConstants DEF HistoryTypeOK, Job, Threads
\* What is new to be finished later.
<1>1. ASSUME NEW t \in Threads, Unfinished(t)', ~Asked(t)'
      PROVE  \/ Unfinished(t) /\ ~Asked(t)
             \/ t = job.cur /\ job.at \in {"read"} \cup Trims
             \/ t = job.cur /\ job.at \in {"files", "pages", "traces", "record", "recheck"} /\ ~Asked(t)
  <2>1. ~Row.pending /\ ~Row.trim /\ ~NoRow.pending /\ ~NoRow.trim
    BY DEF Row, NoRow
  <2> QED BY <1>1, <2>1, LedgerStep DEF Unfinished, Asked
<1>2. ASSUME NEW t \in Mapped' PROVE ~Trimmed(t)'
  <2>1. ~Trimmed(t)
    BY <1>2, MapStep DEF ForgottenInv, MapThread
  <2>2. ~(job.at \in {"read"} \cup Trims /\ t = job.cur)
    BY <1>2, MapStep DEF ForgottenInv, MapThread
  <2> QED BY <1>0, <1>2, <2>1, <2>2, TrimmedStep
<1>3. ASSUME NEW t \in Mapped', Unfinished(t)', ~Asked(t)' PROVE FALSE
  <2>1. CASE t \in Mapped
    BY <1>0, <1>1, <1>3, <2>1 DEF ForgottenInv
  <2>2. CASE MapThread /\ t = job.cur
    BY <1>0, <1>1, <1>3, <2>2 DEF ForgottenInv, MapThread
  <2> QED BY <1>3, <2>1, <2>2, MapStep
<1>4. ASSUME NEW t \in Mapped' PROVE t \notin job'.check
  <2>1. t \notin job.check
    BY <1>4, MapStep DEF ForgottenInv, MapThread
  <2>2. CASE Sweep
    <3>1. job'.check = (ToSweep \ Busy) \ ExplicitDeletes
      BY <2>2 DEF Sweep, Free
    <3>2. InUse(t)
      <4>1. PICK r \in Rules : t = map'[r] /\ t # NoThread
        BY <1>4 DEF Mapped
      <4>2. map' = [s \in Rules |-> IF map[s] \in {u \in Mapped : ~InUse(u)} THEN NoThread ELSE map[s]]
        BY <2>2 DEF Sweep, Forgetting
      <4> QED BY <4>1, <4>2 DEF Mapped
    <3>3. t \in Mapped
      BY <3>2 DEF InUse
    <3>4. ASSUME t \in ToSweep PROVE t \in ExplicitDeletes
      <4>1. t \in Listed /\ Unfinished(t)
        BY <3>2, <3>4 DEF ToSweep
      <4>2. Asked(t) /\ ledger[t].pending
        BY <1>0, <3>3, <4>1 DEF ForgottenInv, RowsInv
      <4> QED BY <4>1, <4>2 DEF ExplicitDeletes, Asked
    <3> QED BY <3>1, <3>4
  <2>3. CASE AskDelete \/ \E r \in Rules : Fire(r)
    BY <2>3 DEF AskDelete, Fire, Free
  <2> QED BY <2>1, <2>2, <2>3, JobMoves
<1>5. ASSUME job'.at \in {"read"} \cup Trims PROVE job'.cur \notin Mapped'
  <2>1. job' # Free /\ ~Sweep /\ ~AskDelete /\ \A r \in Rules : ~Fire(r)
    BY <1>5, BeginsAs
  <2>2. job'.cur \notin Mapped
    BY <1>5, <2>1, JobMoves DEF ForgottenInv
  <2>3. ~MapThread
    BY <1>5 DEF MapThread, HistoryTypeOK, Job
  <2> QED BY <2>2, <2>3, MapStep
<1>6. ASSUME job'.at \in {"files", "pages", "traces", "record", "recheck"}
      PROVE  job'.cur \notin Mapped' \/ Asked(job.cur)'
  <2>1. job' # Free /\ ~Sweep /\ ~AskDelete /\ \A r \in Rules : ~Fire(r)
    BY <1>6, BeginsAs
  <2>2. ~MapThread /\ ~ThreadGone
    BY <1>6 DEF MapThread, ThreadGone, HistoryTypeOK, Job
  <2>3. job'.cur \notin Mapped \/ (job'.cur \in Threads /\ Asked(job'.cur))
    BY <1>0, <1>6, <2>1, JobMoves DEF ForgottenInv, RowsInv, TakenInv
  <2>4. ASSUME job'.cur \in Threads, Asked(job'.cur) PROVE Asked(job.cur)'
    BY <2>2, <2>4, AskedKept DEF Asked
  <2> QED BY <2>2, <2>3, <2>4, MapStep
<1>7. ASSUME job'.at \in {"note", "map", "turn"} PROVE ~Trimmed(job.cur)'
  <2>1. job' # Free /\ ~Sweep /\ ~AskDelete
    BY <1>7, BeginsAs
  <2>2. job'.cur \in Threads /\ ~Trimmed(job'.cur) /\ ~(job.at \in {"read"} \cup Trims /\ job'.at = "pick")
    <3>1. CASE job'.cur = job.cur /\ job.at \in {"note", "map", "turn"}
      BY <1>7, <3>1 DEF ForgottenInv, TakenInv
    <3>2. CASE CreateThread /\ job'.cur = chats + 1
      <4>1. chats + 1 \in Threads /\ ~(chats + 1 <= chats)
        BY <1>0, <3>2, HistoryConstants DEF CreateThread, TakenInv, Threads
      <4> QED BY <1>7, <3>2, <4>1 DEF CreatedInv
    <3>3. ASSUME NEW r \in Rules, Fire(r)
          PROVE  job'.cur \in Threads /\ ~Trimmed(job'.cur)
      <4>1. job'.cur = map[r] /\ map[r] # NoThread
        BY <1>7, <3>3 DEF Fire, Free
      <4>2. map[r] \in Mapped
        BY <4>1 DEF Mapped
      <4> QED BY <1>0, <4>1, <4>2 DEF ForgottenInv
    <3> QED BY <1>7, <2>1, <3>1, <3>2, <3>3, JobMoves
  <2>3. ASSUME Trimmed(job.cur)' PROVE FALSE
    <3>1. PICK k \in Overruns : stray'[k].at \in {"read"} \cup Trims /\ stray'[k].chat = job'.cur
      BY <2>3 DEF Trimmed
    <3>2. ~TrimFails
      BY <2>2, OnwardIs DEF TrimFails
    <3> QED BY <2>2, <3>1, <3>2, StrayTrims DEF Trimmed
  <2> QED BY <2>3
<1>8. ASSUME job'.at \in {"note", "map"} PROVE ~Unfinished(job.cur)' /\ job'.cur \notin job'.check
  <2>1. job' # Free /\ ~Sweep /\ ~AskDelete /\ \A r \in Rules : ~Fire(r)
    BY <1>8, BeginsAs
  <2>2. /\ job'.check = job.check /\ job'.cur \in Threads /\ job.at \in {"create", "note", "map"}
        /\ ~Unfinished(job'.cur) /\ job'.cur \notin job.check
    <3>1. CASE job'.cur = job.cur /\ job'.check = job.check /\ job.at \in {"note", "map"}
      BY <3>1 DEF ForgottenInv, TakenInv
    <3>2. CASE CreateThread /\ job'.cur = chats + 1 /\ job'.check = job.check
      <4>1. chats + 1 \in Threads /\ ~(chats + 1 <= chats)
        BY <1>0, <3>2, HistoryConstants DEF CreateThread, TakenInv, Threads
      <4>2. ~ledger[chats + 1].in /\ chats + 1 \notin job.check
        BY <4>1 DEF CreatedInv
      <4> QED BY <3>2, <4>1, <4>2 DEF RowsInv, CreateThread
    <3> QED BY <1>8, <2>1, <3>1, <3>2, JobMoves
  <2>3. ~Row.pending /\ ~Row.trim
    BY DEF Row, NoRow
  <2>4. ~ledger'[job'.cur].pending /\ ~ledger'[job'.cur].trim
    BY <2>2, <2>3, LedgerStep DEF Unfinished, MarkPending, ThreadGone
  <2> QED BY <2>2, <2>4 DEF Unfinished
<1> QED BY <1>2, <1>3, <1>4, <1>5, <1>6, <1>7, <1>8 DEF ForgottenInv

-----------------------------------------------------------------------------

\* What a person wrote in this period goes only with a delete: a trim puts it back.
LEMMA HeldKept ==
  ASSUME HistoryTypeOK, AgesInv, RecentInv, NowInv, CutInv, TakenInv, [HistoryNext]_historyVars,
         NEW t \in Threads, Recent \in Held(t)
  PROVE  \/ \E n \in 1 .. Len(pages'[t]) : Recent \in pages'[t][n].msgs
         \/ DeletePages /\ t = job.cur
         \/ OverrunClears(t)
<1>0. Recent[2] = period /\ period \in Nat /\ Len(pages[t]) \in Nat
  BY HistoryConstants DEF Recent, HistoryTypeOK
<1>1. PICK i \in 1 .. Len(pages[t]) : Recent \in pages[t][i].msgs
  BY DEF Held
<1>2. CASE UNCHANGED pages
  BY <1>1, <1>2
<1>3. ASSUME NEW u \in Threads, NEW msgs \in SUBSET Messages, Writes(u, msgs)
      PROVE  \E n \in 1 .. Len(pages'[t]) : Recent \in pages'[t][n].msgs
  <2>1. /\ u # t => pages'[t] = pages[t]
        /\ u = t => Len(pages'[t]) = Len(pages[t]) + 1 /\ \A n \in 1 .. Len(pages[t]) : pages'[t][n] = pages[t][n]
    BY <1>3, WrittenIs DEF Writes
  <2>2. u = t => i \in 1 .. Len(pages'[t]) /\ pages'[t][i] = pages[t][i]
    BY <1>0, <2>1
  <2> QED BY <1>1, <2>1, <2>2
<1>4. ASSUME NEW u \in Threads, Cleared(u), u # t
      PROVE  \E n \in 1 .. Len(pages'[t]) : Recent \in pages'[t][n].msgs
  BY <1>1, <1>4, ClearedIs
<1>5. ASSUME NEW u \in Threads, NEW x, NEW n, Puts(x, u, n)
      PROVE  \E k \in 1 .. Len(pages'[t]) : Recent \in pages'[t][k].msgs
  <2>1. /\ n \in 1 .. Len(pages[u]) /\ Len(pages'[u]) = Len(pages[u])
        /\ u # t => pages'[t] = pages[t]
        /\ \A k \in 1 .. Len(pages[u]) : k # n => pages'[u][k] = pages[u][k]
        /\ pages'[u][n].msgs = x.copy[n].msgs \ x.old
    BY <1>5, PutsIs
  <2>2. CASE u # t \/ i # n
    BY <1>1, <2>1, <2>2
  <2>3. CASE u = t /\ i = n
    <3>1. x.copy \in Versions(t) /\ n \in i .. Len(x.copy) /\ x.copy[n].there
      BY <1>5, <2>3 DEF Puts
    <3>2. pages[t] \in Versions(t)
      BY DEF Versions
    <3>3. Recent \in x.copy[n].msgs
      BY <1>1, <3>1, <3>2 DEF RecentInv
    <3>4. Recent \notin x.old
      BY <1>0, <1>5 DEF Puts
    <3> QED BY <2>1, <2>3, <3>3, <3>4
  <2> QED BY <2>2, <2>3
<1>6. UNCHANGED pages \/ ~Tick
  BY DEF Tick
<1> QED BY <1>2, <1>3, <1>4, <1>5, <1>6, PagesStep

\* Every step keeps what the sweep saw, until it is deleted as asked for or by an overrun.
LEMMA SawStep ==
  ASSUME HistoryTypeOK, AgesInv, RecentInv, NowInv, CutInv, TakenInv, RowsInv, SawInv,
         [HistoryNext]_historyVars
  PROVE  SawInv'
<1> USE FreeIs DEF ThreadSteps
<1>0. job.saw \subseteq Threads \X Messages /\ job.whole \subseteq Threads
  BY DEF HistoryTypeOK, Job
<1>1. CASE job'.saw = {}
  BY <1>1 DEF SawInv
<1>2. CASE Sweep
  <2>1. /\ job'.at = "pick" /\ UNCHANGED <<period, pages>>
        /\ \A s \in job'.saw : \E t \in Threads : s = <<t, Recent>> /\ Recent \in Held(t)
    BY <1>2 DEF Sweep, Free, Recent
  <2>2. Recent' = Recent /\ \A t \in Threads : Held(t)' = Held(t)
    BY <2>1 DEF Recent, Held
  <2> QED BY <2>1, <2>2 DEF SawInv
<1>3. CASE Tick
  BY <1>1, <1>3 DEF Tick
<1>4. CASE job'.saw \subseteq job.saw /\ ~Sweep /\ ~Tick /\ job'.saw # {} /\ ~AskDelete /\ \A r \in Rules : ~Fire(r)
  <2>1. period' = period /\ Recent' = Recent
    BY <1>4, PagesStep DEF Writes, Recent
  <2> SUFFICES ASSUME NEW s \in job'.saw
               PROVE  /\ s[2] = Recent
                      /\ s[1] \in job'.check \/ (s[1] = job'.cur /\ job'.at = "read") => s[2] \in Held(s[1])'
                      /\ s[1] = job'.cur /\ job'.at \in {"files", "pages"} => Asked(s[1])'
    BY <2>1 DEF SawInv
  <2> DEFINE t == s[1]
  <2>2. t \in Threads /\ s[2] = Recent /\ s \in job.saw
    BY <1>0, <1>4 DEF SawInv
  <2>3. (t \in job.check \/ (t = job.cur /\ job.at = "read")) => Recent \in Held(t)
    BY <2>2 DEF SawInv
  <2>4. ASSUME t \in job'.check \/ (t = job'.cur /\ job'.at = "read") PROVE Recent \in Held(t)'
    <3>1. t \in job.check \/ (t = job.cur /\ job.at = "read")
      BY <1>1, <1>4, <2>4, JobMoves
    <3>2. ~(DeletePages /\ t = job.cur)
      BY <3>1 DEF DeletePages, TakenInv
    <3>3. ~OverrunClears(t)
      BY <1>0 DEF OverrunClears, StrayClears, HistoryTypeOK, Job
    <3> QED BY <2>2, <2>3, <3>1, <3>2, <3>3, HeldKept DEF Held
  <2>5. ASSUME t = job'.cur, job'.at \in {"files", "pages"} PROVE Asked(t)'
    <3>1. Asked(t)
      <4>1. CASE t = job.cur /\ job.at \in {"files", "pages"}
        BY <2>2, <4>1 DEF SawInv
      <4>2. CASE t = job.cur /\ job.at = "read" /\ ~InWindow(t, period)
        <5>1. Recent \in Latest(t)
          BY <2>2, <2>3, <4>2 DEF NowInv
        <5>2. period \in 0 .. MaxTime /\ period <= period /\ ~(Recent[2] < period)
          BY HistoryConstants DEF HistoryTypeOK, Recent
        <5>3. Recent \notin OldAt(t, period)
          BY <2>2, <5>2, OldAges
        <5> QED BY <4>2, <5>1, <5>3 DEF InWindow, Recent
      <4>3. CASE t \in job.whole /\ job.at = "pick"
        BY <4>3 DEF RowsInv
      <4> QED BY <1>1, <1>4, <2>5, <4>1, <4>2, <4>3, JobMoves
    <3>2. ~ThreadGone
      BY <2>5 DEF ThreadGone, HistoryTypeOK, Job
    <3> QED BY <2>2, <3>1, <3>2, AskedKept
  <2> QED BY <2>2, <2>4, <2>5
<1>5. AskDelete \/ job' = Free \/ (\E r \in Rules : Fire(r)) => job'.saw = {}
  BY DEF AskDelete, Fire, Free
<1> QED BY <1>1, <1>2, <1>3, <1>4, <1>5, JobMoves

\* The invariant.
THEOREM ChatsInvariance == HistorySpec => []ChatsInv
<1>1. HistoryInit => ChatsInv
  <2> SUFFICES ASSUME HistoryInit PROVE ChatsInv
    OBVIOUS
  <2> USE HistoryConstants, FreeIs DEF HistoryInit
  <2>0. /\ Len(<<>>) = 0 /\ NoStray.at = "none" /\ NoStray.cut = 0
        /\ \A k \in Overruns : stray[k] = NoStray
    BY DEF NoStray
  <2>1. HistoryTypeOK
    <3>1. Free \in Job
      BY EmptySeq DEF Free, Job
    <3>2. NoRow \in LedgerRow
      BY DEF NoRow, LedgerRow
    <3>3. pages \in [Threads -> Seq(Page)]
      BY EmptySeq
    <3>4. NoStray \in Stray
      BY EmptySeq DEF NoStray, Stray
    <3> QED BY <3>1, <3>2, <3>3, <3>4 DEF HistoryTypeOK, Silent
  <2>2. \A t \in Threads : Held(t) = {} /\ Versions(t) = {<<>>} /\ ~Trimmed(t)
    BY <2>0 DEF Held, Versions, Trims, Trimmed
  <2>3. AgesInv /\ RecentInv /\ NowInv
    BY <2>0, <2>2 DEF AgesInv, RecentInv, NowInv, Silent
  <2>4. CutInv /\ TakenInv /\ SawInv
    BY <2>0 DEF CutInv, Cuts, Trims, TakenInv, SawInv, ThreadSteps
  <2>5. Mapped = {} /\ \A t \in Threads : ~Asked(t) /\ ~Unfinished(t) /\ ~ledger[t].in
    BY DEF Mapped, Asked, Unfinished, NoRow
  <2>6. RowsInv /\ CreatedInv /\ ForgottenInv
    BY <2>2, <2>5 DEF RowsInv, CreatedInv, ForgottenInv, ThreadSteps, Trims
  <2> QED BY <2>1, <2>3, <2>4, <2>6 DEF ChatsInv
<1>2. ChatsInv /\ [HistoryNext]_historyVars => ChatsInv'
  BY ChatTypes, AgesStep, RecentStep, CutStep, TakenStep, RowsStep, CreatedStep, ForgottenStep, SawStep DEF ChatsInv
<1> QED BY <1>1, <1>2, PTL DEF HistorySpec

\* What a person wrote inside the retention, and the sweep could see when it began, goes
\* only with a chat whose deletion was asked for, or with a delete that went on after its
\* STEP_TIMEOUT without the lock: no trim costs it, though it failed, went on beside what
\* followed or put checkpoints back, and no process that died (trim_thread, trim_failed):
\* for any rules, chats, firings, talks and failures.
THEOREM PersonsKept == HistorySpec => PersonKept
<1>1. ChatsInv /\ [HistoryNext]_historyVars =>
        [\A t \in Threads : \A m \in Held(t) :
           <<t, m>> \in job.saw /\ m \notin UNION {pages'[t][n].msgs : n \in 1 .. Len(pages'[t])}
             => Asked(t) \/ OverrunClears(t)]_historyVars
  <2> SUFFICES ASSUME ChatsInv, [HistoryNext]_historyVars, NEW t \in Threads, NEW m \in Held(t),
                      <<t, m>> \in job.saw, m \notin UNION {pages'[t][n].msgs : n \in 1 .. Len(pages'[t])}
               PROVE  Asked(t) \/ OverrunClears(t)
    OBVIOUS
  <2>1. m = Recent /\ (t = job.cur /\ job.at = "pages" => Asked(t))
    BY DEF ChatsInv, SawInv
  <2>2. (DeletePages /\ t = job.cur) \/ OverrunClears(t)
    BY <2>1, HeldKept DEF ChatsInv
  <2> QED BY <2>1, <2>2 DEF DeletePages
<1> QED BY <1>1, ChatsInvariance, PTL DEF HistorySpec, PersonKept

=============================================================================
