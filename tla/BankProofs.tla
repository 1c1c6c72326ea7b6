------------------------------ MODULE BankProofs ------------------------------
(***************************************************************************)
(* What the review bank keeps, for every set of folders, requests and      *)
(* decisions, with faults and restarts.                                    *)
(*                                                                         *)
(* The argument.  Each write is first reduced to what it makes of one row  *)
(* (Edited, DecidedTo, ...; Effects lists them all), and the rows stay     *)
(* readable from that list alone.  A rescan's candidates are current       *)
(* because it fingerprints before it looks up and a folder's version never *)
(* goes back (CurrentInv).  A decision lands once (LandInv) because stamps *)
(* tell decisions apart, a decision that waits in the queue or between the *)
(* claim and the import has left nothing behind (UnusedInv), and the one   *)
(* the thread works on is in no other row and waits in no queue (OwnInv):  *)
(* only then may a row go back to the queue, and only to it an import adds *)
(* its landing and its evidence.                                           *)
(***************************************************************************)
EXTENDS Bank, TLAPS

\* The thread has claimed a row.

Busy == runner.pc \in {"claimed", "checked", "running"}

\* What the types leave out: a request or a runner under way has its folder.
Shape ==
  /\ \A f \in Folders : disk[f].ver >= 1
  /\ runner.pc # "idle" => runner.f \in Folders
  /\ Busy => runner.row \in Row
  /\ slot = "apply" => runner.pc = "running"
  /\ \A q \in Requests :
       /\ requests[q].pc # "idle" => requests[q].f \in Folders
       /\ requests[q].pc = "found" => requests[q].payload # 0

USE ActionsAssumption, KindsAssumption, BankBounds

-----------------------------------------------------------------------------
(* What the writers make of a row.                                         *)

\* A writer that moves a row on: everything but its status, its recovery and a
\* duplicate prompt gained stays.
Edited(old, new, status) ==
  /\ new \in Row
  /\ new.id = old.id /\ new.fp = old.fp /\ new.reason = old.reason
  /\ new.payload = old.payload /\ new.by = old.by
  /\ old.dup => new.dup
  /\ new.decided = old.decided /\ new.stamp = old.stamp
  /\ new.status = status

\* Marking a row changes its status and its recovery only.
LEMMA MarkedIsEdited ==
  ASSUME NEW row \in Row, NEW status \in Statuses, NEW recovery \in Recoveries
  PROVE  Edited(row, Marked(row, status, recovery), status)
BY DEF Marked, Edited, Row

\* Finishing an apply changes no more than the status, the recovery and the prompt.
LEMMA FinishedIsEdited ==
  ASSUME NEW row \in Row, NEW v, NEW note \in BOOLEAN,
         v.status \in Statuses, v.recovery \in Recoveries
  PROVE  Edited(row, Finished(row, v, note), v.status)
BY DEF Finished, Marked, Edited, Row

DecidedForm(row, status, action, stamp) ==
  [Marked(row, status, "decide_again") EXCEPT !.decided = action, !.stamp = stamp]

\* A decision stamps the row and leaves its candidates alone.
LEMMA DecidedRow ==
  ASSUME NEW row \in Row, NEW status \in Statuses, NEW action \in Actions,
         NEW stamp \in Nat, NEW new,
         new = DecidedForm(row, status, action, stamp)
  PROVE  /\ new \in Row
         /\ new.id = row.id /\ new.fp = row.fp /\ new.reason = row.reason
         /\ new.payload = row.payload /\ new.by = row.by /\ new.dup = row.dup
         /\ new.decided = action /\ new.stamp = stamp /\ new.status = status
BY DEF DecidedForm, Marked, Row, Recoveries

\* Opaque, so that a lemma about numbers applies to a field of any record.
IsNat(n) == n \in Nat

\* A freshly banked row is undecided, unstamped and readable.
LEMMA BankedRowFields ==
  ASSUME NEW id, NEW fp, NEW reason \in Reasons, NEW payload, NEW new,
         IsNat(id), IsNat(fp), IsNat(payload),
         new = BankedRow(id, fp, reason, payload)
  PROVE  /\ new \in Row
         /\ new.id = id /\ new.fp = fp /\ new.reason = reason
         /\ new.payload = payload /\ new.by = "import"
         /\ reason = "needs_dup_resolution" => new.dup
         /\ new.stamp = 0 /\ new.status = "needs_review"
BY DEF BankedRow, IsNat, Row, Statuses, Recoveries

SearchedForm(row, payload) ==
  [row EXCEPT !.payload = payload, !.by = "search", !.reason = "needs_review"]

\* A stored search gives the row candidates and keeps its stamp.
LEMMA SearchedRow ==
  ASSUME NEW row \in Row, NEW payload, IsNat(payload), NEW new,
         new = SearchedForm(row, payload)
  PROVE  /\ new \in Row
         /\ new.id = row.id /\ new.fp = row.fp /\ new.reason = "needs_review"
         /\ new.payload = payload /\ new.by = "search" /\ new.dup = row.dup
         /\ new.decided = row.decided /\ new.stamp = row.stamp
         /\ new.status = row.status
BY DEF SearchedForm, IsNat, Row, Reasons

\* A rescan replaces fingerprint and candidates and clears the prompt.
LEMMA RescannedRow ==
  ASSUME NEW row \in Row, NEW fp, NEW payload, NEW new,
         IsNat(fp), IsNat(payload),
         new = Rescanned(row, fp, payload)
  PROVE  /\ new \in Row
         /\ new.id = row.id /\ new.fp = fp /\ new.payload = payload
         /\ new.by = "rescan" /\ new.reason # "needs_dup_resolution"
         /\ new.reason = "needs_review" => payload # 0
         /\ new.decided = row.decided /\ new.stamp = row.stamp
         /\ new.status = row.status
BY DEF Rescanned, IsNat, Row, Reasons

\* Starting afresh after a rescan keeps all that the rescan wrote.
LEMMA AnsweredRow ==
  ASSUME NEW row \in Row, NEW new,
         new = Answered(row)
  PROVE  /\ new \in Row
         /\ new.id = row.id /\ new.fp = row.fp /\ new.payload = row.payload
         /\ new.by = row.by /\ new.dup = row.dup /\ new.reason = row.reason
         /\ new.stamp = row.stamp
         /\ new.status \in {row.status, "needs_review"}
         /\ new.status # "needs_review" => new.decided = row.decided
BY DEF Answered, Marked, Row, Statuses, Recoveries

\* A restart sends an interrupted row to review and leaves the others alone.
LEMMA ReconciledRow ==
  ASSUME NEW row \in Row, row # None
  PROVE  \/ Reconciled(row) = row /\ row.status # "applying"
         \/ row.status = "applying" /\ Edited(row, Reconciled(row), "needs_review")
<1>1. "needs_review" \in Statuses /\ "decide_again" \in Recoveries
  BY DEF Statuses, Recoveries
<1>2. CASE row.status = "applying"
  BY <1>1, <1>2, MarkedIsEdited DEF Reconciled
<1>3. CASE row.status # "applying"
  BY <1>3 DEF Reconciled
<1>q. QED
  BY <1>2, <1>3

\* A compare and set that finds its row edits it, and touches no other.
LEMMA CasRows ==
  ASSUME TypeOK, NEW f \in Folders, NEW id, NEW expected,
         NEW status \in Statuses, NEW recovery \in Recoveries,
         CasStatus(f, id, expected, status, recovery)
  PROVE  /\ rows' \in [Folders -> Row \cup {None}]
         /\ \A g \in Folders :
              \/ rows'[g] = rows[g] /\ ~(g = f /\ HasRow(f, id) /\ rows[f].status = expected)
              \/ /\ g = f /\ HasRow(f, id) /\ rows[f].status = expected
                 /\ rows[f] \in Row /\ Edited(rows[f], rows'[f], status)
<1>1. CASE HasRow(f, id) /\ rows[f].status = expected
  <2>1. rows[f] \in Row
    BY <1>1 DEF TypeOK, HasRow
  <2>2. rows' = [rows EXCEPT ![f] = Marked(rows[f], status, recovery)]
    BY <1>1 DEF CasStatus
  <2>3. Edited(rows[f], Marked(rows[f], status, recovery), status)
    BY <2>1, MarkedIsEdited
  <2>q. QED
    BY <1>1, <2>1, <2>2, <2>3 DEF TypeOK, Edited
<1>2. CASE ~(HasRow(f, id) /\ rows[f].status = expected)
  BY <1>2 DEF CasStatus, TypeOK
<1>q. QED
  BY <1>1, <1>2

\* The unguarded status write touches the row of that id, if it is there.
LEMMA BlindRows ==
  ASSUME TypeOK, NEW f \in Folders, NEW id,
         NEW status \in Statuses, NEW recovery \in Recoveries,
         BlindStatus(f, id, status, recovery)
  PROVE  /\ rows' \in [Folders -> Row \cup {None}]
         /\ \A g \in Folders :
              \/ rows'[g] = rows[g]
              \/ /\ g = f /\ HasRow(f, id)
                 /\ rows[f] \in Row /\ Edited(rows[f], rows'[f], status)
<1>1. CASE HasRow(f, id)
  <2>1. rows[f] \in Row
    BY <1>1 DEF TypeOK, HasRow
  <2>2. rows' = [rows EXCEPT ![f] = Marked(rows[f], status, recovery)]
    BY <1>1 DEF BlindStatus
  <2>3. Edited(rows[f], Marked(rows[f], status, recovery), status)
    BY <2>1, MarkedIsEdited
  <2>q. QED
    BY <1>1, <2>1, <2>2, <2>3 DEF TypeOK, Edited
<1>2. CASE ~HasRow(f, id)
  BY <1>2 DEF BlindStatus, TypeOK
<1>q. QED
  BY <1>1, <1>2

-----------------------------------------------------------------------------
(* What the actions make of the rows.                                      *)

\* A decision touches one row and stamps it with the next stamp.
LEMMA DecideRows ==
  ASSUME TypeOK, NEW f \in Folders, NEW action \in Actions, Decide(f, action)
  PROVE  /\ rows' \in [Folders -> Row \cup {None}]
         /\ \A g \in Folders : g # f => rows'[g] = rows[g]
         /\ rows[f] \in Row /\ rows[f] # None
         /\ rows'[f].id = rows[f].id /\ rows'[f].fp = rows[f].fp
         /\ rows'[f].reason = rows[f].reason /\ rows'[f].payload = rows[f].payload
         /\ rows'[f].by = rows[f].by /\ rows'[f].dup = rows[f].dup
         /\ rows'[f].decided = action /\ rows'[f].stamp = clock + 1
         /\ rows'[f].status = IF action = "ignore" THEN "ignored" ELSE "queued"
<1> DEFINE status == IF action = "ignore" THEN "ignored" ELSE "queued"
<1>1. rows[f] \in Row /\ rows[f] # None /\ status \in Statuses /\ clock + 1 \in Nat
  BY DEF TypeOK, Decide, Statuses
<1>2. rows' = [rows EXCEPT ![f] = DecidedForm(rows[f], status, action, clock + 1)]
  BY DEF Decide, DecidedForm
<1>3. rows \in [Folders -> Row \cup {None}]
  BY DEF TypeOK
<1>4. rows'[f] = DecidedForm(rows[f], status, action, clock + 1)
  BY <1>2, <1>3
<1> HIDE DEF status
<1>5. rows'[f] \in Row
  BY <1>1, <1>4, DecidedRow
<1>q. QED
  BY <1>1, <1>2, <1>3, <1>4, <1>5, DecidedRow DEF status

\* Banking a folder leaves its row as it is or starts it afresh.
LEMMA BankRowRows ==
  ASSUME TypeOK, Shape, NEW f \in Folders, BankRow(f)
  PROVE  /\ rows' \in [Folders -> Row \cup {None}]
         /\ nextId' \in Nat
         /\ \A g \in Folders : g # f => rows'[g] = rows[g]
         /\ \/ rows'[f] = rows[f]
            \/ /\ rows'[f].stamp = 0 /\ rows'[f].status = "needs_review"
               /\ rows'[f].by = "import"
               /\ rows'[f].reason = "needs_review" => rows'[f].payload # 0
               /\ rows'[f].reason = "needs_dup_resolution" => rows'[f].dup
<1>1. /\ rows \in [Folders -> Row \cup {None}] /\ nextId \in Nat
      /\ seen[f] \in Nat /\ seen[f] # 0 /\ disk[f].ver \in Nat
  BY DEF TypeOK, BankRow
<1>2. PICK reason \in Reasons :
        Upsert(f, disk[f].ver, reason, IF reason = "no_match" THEN 0 ELSE seen[f])
  BY DEF BankRow
<1> DEFINE payload == IF reason = "no_match" THEN 0 ELSE seen[f]
<1>3. /\ IsNat(payload) /\ (reason = "needs_review" => payload # 0)
      /\ IsNat(nextId + 1) /\ IsNat(disk[f].ver)
      /\ rows[f] # None => IsNat(rows[f].id)
  BY <1>1 DEF IsNat, Row
<1> HIDE DEF payload
<1>4. CASE rows[f] = None
  <2>1. /\ rows' = [rows EXCEPT ![f] = BankedRow(nextId + 1, disk[f].ver, reason, payload)]
        /\ nextId' = nextId + 1
    BY <1>2, <1>4 DEF Upsert, payload
  <2>2. rows'[f] = BankedRow(nextId + 1, disk[f].ver, reason, payload)
    BY <1>1, <2>1
  <2>3. rows'[f] \in Row
    BY <1>1, <1>2, <1>3, <2>2, BankedRowFields
  <2>4. /\ rows'[f].stamp = 0 /\ rows'[f].status = "needs_review"
        /\ rows'[f].by = "import"
        /\ rows'[f].reason = "needs_review" => rows'[f].payload # 0
        /\ rows'[f].reason = "needs_dup_resolution" => rows'[f].dup
    BY <1>2, <1>3, <2>2, BankedRowFields
  <2>5. nextId' \in Nat
    BY <1>1, <2>1
  <2>q. QED
    BY <1>1, <2>1, <2>3, <2>4, <2>5
<1>5. CASE rows[f] # None /\ rows[f].fp # disk[f].ver
  <2>1. /\ rows' = [rows EXCEPT ![f] = BankedRow(rows[f].id, disk[f].ver, reason, payload)]
        /\ nextId' = nextId
    BY <1>2, <1>5 DEF Upsert, payload
  <2>2. rows'[f] = BankedRow(rows[f].id, disk[f].ver, reason, payload)
    BY <1>1, <2>1
  <2>3. rows'[f] \in Row
    BY <1>2, <1>3, <1>5, <2>2, BankedRowFields
  <2>q. QED
    BY <1>1, <1>2, <1>3, <1>5, <2>1, <2>2, <2>3, BankedRowFields
<1>6. CASE rows[f] # None /\ rows[f].fp = disk[f].ver
  BY <1>1, <1>2, <1>6 DEF Upsert
<1>q. QED
  BY <1>4, <1>5, <1>6

\* A claim moves a queued row to applying, or gives the row up.
LEMMA ClaimRows ==
  ASSUME TypeOK, Shape, Claim
  PROVE  /\ rows' \in [Folders -> Row \cup {None}]
         /\ runner.f \in Folders
         /\ \A g \in Folders : g # runner.f => rows'[g] = rows[g]
         /\ \/ rows' = rows /\ runner' = RunnerIdle
            \/ /\ HasRow(runner.f, runner.id) /\ rows[runner.f] \in Row
               /\ rows[runner.f].status = "queued"
               /\ Edited(rows[runner.f], rows'[runner.f], "applying")
               /\ runner' = [runner EXCEPT !.pc = "claimed", !.row = rows[runner.f]]
<1> DEFINE f == runner.f
<1>1. f \in Folders /\ rows \in [Folders -> Row \cup {None}]
  BY DEF Shape, TypeOK, Claim, RunnerAt
<1>2. CASE HasRow(f, runner.id) /\ rows[f].status = "queued"
  <2>1. rows' = [rows EXCEPT ![f] = Marked(rows[f], "applying", "decide_again")]
    BY <1>2 DEF Claim
  <2>2. rows[f] \in Row
    BY <1>1, <1>2 DEF HasRow
  <2>3. Edited(rows[f], Marked(rows[f], "applying", "decide_again"), "applying")
    BY <2>2, MarkedIsEdited DEF Statuses, Recoveries
  <2>4. rows'[f] = Marked(rows[f], "applying", "decide_again")
    BY <1>1, <2>1
  <2>5. rows'[f] \in Row
    BY <2>3, <2>4 DEF Edited
  <2>q. QED
    BY <1>1, <1>2, <2>1, <2>2, <2>3, <2>4, <2>5 DEF Claim
<1>3. CASE ~(HasRow(f, runner.id) /\ rows[f].status = "queued")
  BY <1>1, <1>3 DEF Claim, NextRow
<1>q. QED
  BY <1>2, <1>3

\* The end of an apply moves its own applying row to the status it earned, or nothing.
LEMMA FinishApplyRows ==
  ASSUME TypeOK, Shape, FinishApply
  PROVE  /\ rows' \in [Folders -> Row \cup {None}]
         /\ LET f == runner.f
                v == Classify(runner.row.decided, work, runner.gone)
            IN  \A g \in Folders :
                  \/ rows'[g] = rows[g]
                     /\ ~(g = f /\ HasRow(f, runner.id) /\ rows[f].status = "applying")
                  \/ /\ g = f /\ HasRow(f, runner.id) /\ rows[f].status = "applying"
                     /\ rows[f] \in Row /\ Edited(rows[f], rows'[f], v.status)
<1> DEFINE f == runner.f
<1> DEFINE v == Classify(runner.row.decided, work, runner.gone)
<1>1. f \in Folders /\ rows \in [Folders -> Row \cup {None}]
  BY DEF Shape, TypeOK, FinishApply, RunnerAt
<1>2. v.status \in {"failed", "done"} /\ v.recovery \in Recoveries
  BY DEF Classify, ClassifyDuplicate, Failed, Done, Recoveries
<1>3. work.note \in BOOLEAN
  BY DEF FinishApply, TypeOK, Outcome
<1> HIDE DEF v
<1>4. CASE HasRow(f, runner.id) /\ rows[f].status = "applying"
  <2>1. rows' = [rows EXCEPT ![f] = Finished(rows[f], v, work.note)]
    BY <1>4 DEF FinishApply, v
  <2>2. rows[f] \in Row
    BY <1>1, <1>4 DEF HasRow
  <2>3. rows'[f] = Finished(rows[f], v, work.note)
    BY <1>1, <2>1
  <2>4. Edited(rows[f], rows'[f], v.status)
    BY <1>2, <1>3, <2>2, <2>3, FinishedIsEdited DEF Statuses
  <2>5. rows'[f] \in Row
    BY <2>4 DEF Edited
  <2>q. QED
    BY <1>1, <1>4, <2>1, <2>2, <2>4, <2>5 DEF v
<1>5. CASE ~(HasRow(f, runner.id) /\ rows[f].status = "applying")
  BY <1>1, <1>5 DEF FinishApply
<1>q. QED
  BY <1>4, <1>5

\* A stored search touches a searchable row and keeps its stamp and status.
LEMMA SearchRows ==
  ASSUME TypeOK, Shape, NEW q \in Requests, StoreSearch(q)
  PROVE  /\ rows' \in [Folders -> Row \cup {None}]
         /\ \A g \in Folders :
              \/ rows'[g] = rows[g]
              \/ /\ rows[g] # None /\ rows[g] \in Row
                 /\ rows[g].status \in SEARCHABLE
                 /\ rows'[g] \in Row
                 /\ rows'[g].stamp = rows[g].stamp /\ rows'[g].status = rows[g].status
                 /\ rows'[g].by = "search"
                 /\ rows'[g].reason = "needs_review" /\ rows'[g].payload # 0
<1> DEFINE f == requests[q].f
<1> DEFINE payload == requests[q].payload
<1>1. /\ f \in Folders /\ rows \in [Folders -> Row \cup {None}]
      /\ payload \in Nat /\ payload # 0
  BY DEF Shape, TypeOK, Request, StoreSearch, At
<1>2. CASE TargetThere(q) /\ Target(q).status \in SEARCHABLE
             /\ Target(q).reason # "needs_dup_resolution"
  <2>1. rows' = [rows EXCEPT ![f] = SearchedForm(rows[f], payload)]
    BY <1>2 DEF StoreSearch, SearchedForm
  <2>2. rows[f] \in Row /\ rows[f] # None /\ rows[f].status \in SEARCHABLE
    BY <1>1, <1>2 DEF HasRow, TargetThere, Target
  <2>3. rows'[f] = SearchedForm(rows[f], payload)
    BY <1>1, <2>1
  <2> HIDE DEF f, payload
  <2>a. ASSUME NEW row, row \in Row, NEW new, new = SearchedForm(row, payload)
        PROVE  /\ new \in Row
               /\ new.stamp = row.stamp /\ new.status = row.status
               /\ new.by = "search" /\ new.reason = "needs_review"
               /\ new.payload # 0
    <3>1. IsNat(payload)
      BY <1>1 DEF IsNat
    <3>2. new \in Row /\ new.stamp = row.stamp /\ new.status = row.status
      BY <2>a, <3>1, SearchedRow
    <3>3. new.by = "search" /\ new.reason = "needs_review" /\ new.payload = payload
      BY <2>a, <3>1, SearchedRow
    <3>q. QED
      BY <1>1, <3>2, <3>3
  <2>4. rows'[f] \in Row
    BY <2>2, <2>3, <2>a
  <2>5. /\ rows'[f].stamp = rows[f].stamp /\ rows'[f].status = rows[f].status
        /\ rows'[f].by = "search" /\ rows'[f].reason = "needs_review"
        /\ rows'[f].payload # 0
    BY <2>2, <2>3, <2>a
  <2>q. QED
    BY <1>1, <2>1, <2>2, <2>4, <2>5
<1>3. CASE ~(TargetThere(q) /\ Target(q).status \in SEARCHABLE
             /\ Target(q).reason # "needs_dup_resolution")
  BY <1>1, <1>3 DEF StoreSearch
<1>q. QED
  BY <1>2, <1>3

\* A stored rescan touches a rescannable row with what the request read.
LEMMA RescanRows ==
  ASSUME TypeOK, Shape, NEW q \in Requests, StoreRescan(q)
  PROVE  /\ rows' \in [Folders -> Row \cup {None}]
         /\ \A g \in Folders :
              \/ rows'[g] = rows[g]
              \/ /\ rows[g] # None /\ rows[g] \in Row
                 /\ rows[g].status \in RESCANNABLE
                 /\ rows'[g] \in Row
                 /\ rows'[g].stamp = rows[g].stamp
                 /\ rows'[g].status \in {rows[g].status, "needs_review"}
                 /\ rows'[g].by = "rescan" /\ rows'[g].fp = requests[q].fp
                 /\ rows'[g].payload \in {0, requests[q].payload}
                 /\ rows'[g].reason # "needs_dup_resolution"
                 /\ rows'[g].reason = "needs_review" => rows'[g].payload # 0
<1> DEFINE f == requests[q].f
<1> DEFINE fp == requests[q].fp
<1>1. /\ f \in Folders /\ rows \in [Folders -> Row \cup {None}]
      /\ requests[q].payload \in Nat /\ fp \in Nat
  BY DEF Shape, TypeOK, Request, StoreRescan, At
<1>2. PICK payload \in {0, requests[q].payload} :
       rows' = IF TargetThere(q) /\ Target(q).status \in RESCANNABLE
               THEN [rows EXCEPT ![f] = Answered(Rescanned(rows[f], fp, payload))]
               ELSE rows
  BY DEF StoreRescan
<1>5. IsNat(payload) /\ IsNat(fp)
  BY <1>1, <1>2 DEF IsNat
<1>3. CASE TargetThere(q) /\ Target(q).status \in RESCANNABLE
  <2> DEFINE r == Rescanned(rows[f], fp, payload)
  <2>1. rows' = [rows EXCEPT ![f] = Answered(r)]
    BY <1>2, <1>3
  <2>2. rows[f] \in Row /\ rows[f] # None /\ rows[f].status \in RESCANNABLE
    BY <1>1, <1>3 DEF HasRow, TargetThere, Target
  <2>3. rows'[f] = Answered(r) /\ \A g \in Folders : g # f => rows'[g] = rows[g]
    BY <1>1, <2>1
  <2> HIDE DEF f, fp
  <2>4. /\ r \in Row /\ r.fp = fp /\ r.payload = payload /\ r.by = "rescan"
        /\ r.reason # "needs_dup_resolution" /\ (r.reason = "needs_review" => payload # 0)
        /\ r.stamp = rows[f].stamp /\ r.status = rows[f].status
    BY <1>1, <1>5, <2>2, RescannedRow
  <2> HIDE DEF r
  <2>5. rows'[f] \in Row
    BY <2>3, <2>4, AnsweredRow
  <2>6. /\ rows'[f].fp = fp /\ rows'[f].payload = payload /\ rows'[f].by = "rescan"
        /\ rows'[f].reason = r.reason /\ rows'[f].stamp = rows[f].stamp
        /\ rows'[f].status \in {rows[f].status, "needs_review"}
    BY <2>3, <2>4, AnsweredRow
  <2>7. rows' \in [Folders -> Row \cup {None}]
    BY <1>1, <2>1, <2>3, <2>5
  <2>q. QED
    BY <1>1, <1>2, <2>2, <2>3, <2>4, <2>5, <2>6, <2>7 DEF fp
<1>4. CASE ~(TargetThere(q) /\ Target(q).status \in RESCANNABLE)
  BY <1>1, <1>2, <1>4
<1>q. QED
  BY <1>3, <1>4

\* Bulk ignore moves one row to ignored.
LEMMA IgnoreRows ==
  ASSUME TypeOK, NEW f \in Folders, Ignore(f)
  PROVE  /\ rows' \in [Folders -> Row \cup {None}]
         /\ \A g \in Folders : g # f => rows'[g] = rows[g]
         /\ rows[f] \in Row /\ rows[f] # None
         /\ Edited(rows[f], rows'[f], "ignored")
<1>1. rows[f] \in Row /\ rows[f] # None /\ rows \in [Folders -> Row \cup {None}]
  BY DEF TypeOK, Ignore
<1>2. rows' = [rows EXCEPT ![f].status = "ignored"]
  BY DEF Ignore
<1>3. Edited(rows[f], [rows[f] EXCEPT !.status = "ignored"], "ignored")
  BY <1>1 DEF Edited, Row, Statuses
<1>q. QED
  BY <1>1, <1>2, <1>3 DEF Edited

\* A restart leaves no row applying and touches no other row.
LEMMA RestartRows ==
  ASSUME TypeOK, Restart
  PROVE  /\ rows' \in [Folders -> Row \cup {None}]
         /\ \A g \in Folders :
              \/ rows'[g] = rows[g] /\ (rows[g] # None => rows[g].status # "applying")
              \/ /\ rows[g] \in Row /\ rows[g] # None
                 /\ Edited(rows[g], rows'[g], "needs_review")
<1>1. rows \in [Folders -> Row \cup {None}]
  BY DEF TypeOK
<1>2. rows' = [f \in Folders |-> Reconciled(rows[f])]
  BY DEF Restart
<1>3. ASSUME NEW g \in Folders
      PROVE  /\ rows'[g] \in Row \cup {None}
             /\ \/ rows'[g] = rows[g] /\ (rows[g] # None => rows[g].status # "applying")
                \/ /\ rows[g] \in Row /\ rows[g] # None
                   /\ Edited(rows[g], rows'[g], "needs_review")
  <2>1. rows'[g] = Reconciled(rows[g])
    BY <1>2, <1>3
  <2>2. CASE rows[g] = None
    BY <2>1, <2>2 DEF Reconciled
  <2>3. CASE rows[g] # None
    <3>1. rows[g] \in Row
      BY <1>1, <1>3, <2>3
    <3>2. \/ Reconciled(rows[g]) = rows[g] /\ rows[g].status # "applying"
          \/ rows[g].status = "applying" /\ Edited(rows[g], Reconciled(rows[g]), "needs_review")
      BY <2>3, <3>1, ReconciledRow
    <3>q. QED
      BY <2>1, <2>3, <3>1, <3>2 DEF Edited
  <2>q. QED
    BY <2>2, <2>3
<1>q. QED
  BY <1>2, <1>3

-----------------------------------------------------------------------------
(* Types.                                                                  *)

TypeInv == TypeOK /\ Shape

\* The store starts with its types.
LEMMA InitTypeInv == Init => TypeInv
BY DEF Init, TypeInv, TypeOK, Shape, Runner, RunnerPcs, RunnerIdle, Request,
       RequestPcs, RequestIdle, Busy

USE DEF userVars, importVars, apiVars

\* A folder that changes keeps the types.
LEMMA FolderTypeInv ==
  ASSUME TypeInv, NEW f \in Folders, FolderStep(f)
  PROVE  TypeInv'
<1>1. /\ disk' \in [Folders -> [ver : Nat, here : BOOLEAN]]
      /\ \A g \in Folders : disk'[g].ver >= disk[g].ver
  <2>1. CASE ChangeFolder(f)
    <3>1. disk' = [disk EXCEPT ![f] = [ver |-> disk[f].ver + 1, here |-> TRUE]]
      BY <2>1 DEF ChangeFolder
    <3>q. QED
      BY <3>1 DEF TypeInv, TypeOK
  <2>2. CASE RemoveFolder(f)
    <3>1. disk' = [disk EXCEPT ![f] = [disk[f] EXCEPT !.here = FALSE]]
      BY <2>2 DEF RemoveFolder
    <3>2. disk[f] \in [ver : Nat, here : BOOLEAN]
      BY DEF TypeInv, TypeOK
    <3>3. /\ [disk[f] EXCEPT !.here = FALSE] \in [ver : Nat, here : BOOLEAN]
          /\ [disk[f] EXCEPT !.here = FALSE].ver = disk[f].ver
      BY <3>2
    <3>q. QED
      BY <3>1, <3>3 DEF TypeInv, TypeOK
  <2>q. QED
    BY <2>1, <2>2 DEF FolderStep
<1>2. /\ \A g \in Folders : disk'[g].ver >= 1
      /\ UNCHANGED <<rows, userVars, importVars, apiVars, runner>>
  BY <1>1 DEF TypeInv, TypeOK, Shape, FolderStep, ChangeFolder, RemoveFolder
<1>q. QED
  BY <1>1, <1>2 DEF TypeInv, TypeOK, Shape, Busy

\* The user's writes keep the types.
LEMMA UserTypeInv ==
  ASSUME TypeInv, NEW f \in Folders, UserStep(f)
  PROVE  TypeInv'
<1>1. ASSUME NEW action \in Actions, Decide(f, action) PROVE TypeInv'
  <2>1. rows' \in [Folders -> Row \cup {None}]
    BY <1>1, DecideRows DEF TypeInv
  <2>2. clock' \in 0..MaxStamp
    BY <1>1 DEF TypeInv, TypeOK, Decide
  <2>q. QED
    BY <1>1, <2>1, <2>2 DEF TypeInv, TypeOK, Shape, Decide, Busy
<1>2. CASE Ignore(f)
  BY <1>2, IgnoreRows DEF TypeInv, TypeOK, Shape, Ignore, Busy
<1>3. CASE Delete(f)
  BY <1>3 DEF TypeInv, TypeOK, Shape, Delete, Busy
<1>q. QED
  BY <1>1, <1>2, <1>3 DEF UserStep

\* Another import's steps keep the types.
LEMMA OtherImportTypeInv ==
  ASSUME TypeInv, OtherImportStep
  PROVE  TypeInv'
<1>1. CASE StartUnattended
  BY <1>1 DEF TypeInv, TypeOK, Shape, StartUnattended, Busy
<1>2. CASE EndUnattended
  BY <1>2 DEF TypeInv, TypeOK, Shape, EndUnattended, Busy
<1>3. ASSUME NEW f \in Folders, LookUp(f) PROVE TypeInv'
  BY <1>3 DEF TypeInv, TypeOK, Shape, LookUp, Busy
<1>4. ASSUME NEW f \in Folders, BankRow(f) PROVE TypeInv'
  BY <1>4, BankRowRows DEF TypeInv, TypeOK, Shape, BankRow, Busy
<1>q. QED
  BY <1>1, <1>2, <1>3, <1>4 DEF OtherImportStep

\* Each step of the apply thread keeps the types.
LEMMA RunnerTypeInv ==
  ASSUME TypeInv, RunnerStep
  PROVE  TypeInv'
<1> USE DEF TypeInv, TypeOK, Shape, Busy, Runner, RunnerPcs, RunnerIdle,
            RunnerAt, To, NextRow
<1>1. ASSUME NEW f \in Folders, PickNext(f) PROVE TypeInv'
  <2>1. rows[f].id \in Nat
    BY <1>1 DEF PickNext, IsNextQueued, Row
  <2>2. runner' \in Runner /\ runner'.pc = "picked" /\ runner'.f = f
    BY <1>1, <2>1 DEF PickNext
  <2>3. slot # "apply" /\ UNCHANGED <<disk, rows, userVars, importVars, apiVars>>
    BY <1>1 DEF PickNext
  <2> HIDE DEF Runner, RunnerIdle
  <2>q. QED
    BY <2>2, <2>3
<1>2. CASE PassGate
  BY <1>2 DEF PassGate
<1>3. CASE Claim
  <2>1. rows' \in [Folders -> Row \cup {None}] /\ runner.f \in Folders
    BY <1>3, ClaimRows
  <2>2. CASE runner' = RunnerIdle
    BY <1>3, <2>1, <2>2 DEF Claim
  <2>3. CASE /\ rows[runner.f] \in Row
             /\ runner' = [runner EXCEPT !.pc = "claimed", !.row = rows[runner.f]]
    <3>1. /\ runner' \in Runner /\ runner'.pc = "claimed"
          /\ runner'.row \in Row /\ runner'.f \in Folders
      BY <2>1, <2>3
    <3>q. QED
      BY <1>3, <2>1, <3>1 DEF Claim
  <2>q. QED
    BY <1>3, <2>2, <2>3, ClaimRows
<1>4. CASE CheckFolder
  <2>1. rows' \in [Folders -> Row \cup {None}]
    BY <1>4, CasRows DEF CheckFolder, Cas, Statuses, Recoveries
  <2>2. runner.pc = "claimed" /\ runner.f \in Folders /\ runner.row \in Row /\ slot # "apply"
    BY <1>4 DEF CheckFolder
  <2>3. CASE runner' = RunnerIdle
    BY <1>4, <2>1, <2>2, <2>3 DEF CheckFolder
  <2>4. CASE runner' = [runner EXCEPT !.pc = "checked"]
    <3>1. /\ runner' \in Runner /\ runner'.pc = "checked"
          /\ runner'.f = runner.f /\ runner'.row = runner.row
      BY <2>4
    <3>2. UNCHANGED <<disk, nextId, clock, slot, work, landings, ending, seen, requests, flipped>>
      BY <1>4 DEF CheckFolder
    <3>q. QED
      BY <2>1, <2>2, <3>1, <3>2
  <2>q. QED
    BY <1>4, <2>3, <2>4 DEF CheckFolder
<1>5. CASE EnforceSkipNew
  BY <1>5, CasRows DEF EnforceSkipNew, Cas, Statuses, Recoveries
<1>6. CASE StartImport
  BY <1>6 DEF StartImport
<1>7. CASE StartRefused
  BY <1>7, CasRows DEF StartRefused, Cas, Statuses, Recoveries
<1>8. CASE FinishApply
  BY <1>8, FinishApplyRows DEF FinishApply
<1>9. CASE FinishUnconfirmed
  BY <1>9, CasRows DEF FinishUnconfirmed, Cas, Statuses, Recoveries
<1>10. CASE RunnerRaises
  BY <1>10, BlindRows DEF RunnerRaises, Statuses, Recoveries
<1>q. QED
  BY <1>1, <1>2, <1>3, <1>4, <1>5, <1>6, <1>7, <1>8, <1>9, <1>10 DEF RunnerStep

\* A result is a summary of a job that ended well, or of one that failed.
LEMMA ResultForms ==
  ASSUME NEW action, NEW o \in Results(action)
  PROVE  \/ \E ends \in SUBSET AlbumEnds(action) : o = Summary(FALSE, ends)
         \/ \E ends : o = Summary(TRUE, ends)
<1>1. \/ o \in {Summary(FALSE, ends) : ends \in SUBSET AlbumEnds(action)}
      \/ o \in {Summary(TRUE, ends) : ends \in SUBSET (AlbumEnds(action) \cup CutShort(action))}
  BY DEF Results
<1>q. QED
  BY <1>1

\* Whatever an import came to is an outcome.
LEMMA ResultsAreOutcomes ==
  ASSUME NEW action
  PROVE  Results(action) \subseteq Outcome
<1>1. ASSUME NEW failed \in BOOLEAN, NEW ends PROVE Summary(failed, ends) \in Outcome
  BY DEF Summary, Outcome
<1>2. SUFFICES ASSUME NEW o \in Results(action) PROVE o \in Outcome
  OBVIOUS
<1>3. \/ \E ends \in SUBSET AlbumEnds(action) : o = Summary(FALSE, ends)
      \/ \E ends : o = Summary(TRUE, ends)
  BY ResultForms
<1>q. QED
  BY <1>1, <1>3

\* A job that ended well, without a refusal, landed the albums it was asked to
\* keep beside their duplicates or in their place.
LEMMA HookedLands ==
  ASSUME NEW action \in {"keep_both", "replace"}, NEW o \in Results(action),
         ~o.failed, ~o.note, o.hook
  PROVE  o.landed /\ o.resolved
<1>1. PICK ends \in SUBSET AlbumEnds(action) : o = Summary(FALSE, ends)
  <2>1. ASSUME NEW ends PROVE Summary(TRUE, ends).failed
    BY DEF Summary
  <2>q. QED
    BY <2>1, ResultForms
<1>2. PICK e \in ends : e.hook
  BY <1>1 DEF Summary
<1>3. ~e.note
  BY <1>1, <1>2 DEF Summary
<1>4. e.landed
  BY <1>2, <1>3 DEF AlbumEnds
<1>q. QED
  BY <1>1, <1>2, <1>4 DEF Summary

\* What becomes of a decision has a name.
LEMMA BecameOfIsAnEnd ==
  ASSUME NEW action, NEW o, NEW gone
  PROVE  BecameOf(action, o, gone) \in Ends
BY DEF BecameOf, Ends

\* The apply's own import keeps the types.
LEMMA ImportTypeInv ==
  ASSUME TypeInv, RunImport \/ EndImport
  PROVE  TypeInv'
<1>1. CASE RunImport
  <2>1. PICK o \in Results(runner.row.decided), moved \in BOOLEAN :
          /\ work' = o
          /\ disk' = [disk EXCEPT ![runner.f].here = @ /\ ~moved]
          /\ landings' = [landings EXCEPT ![runner.row.stamp] = @ + IF o.landed THEN 1 ELSE 0]
          /\ ending' = [ending EXCEPT ![runner.row.stamp] =
                           BecameOf(runner.row.decided, o, runner.gone)]
    BY <1>1 DEF RunImport
  <2>a. o \in Outcome
    BY <2>1, ResultsAreOutcomes
  <2>2. disk' = [disk EXCEPT ![runner.f] = [disk[runner.f] EXCEPT !.here = @ /\ ~moved]]
    BY <2>1
  <2>6. disk[runner.f] \in [ver : Nat, here : BOOLEAN] /\ runner.f \in Folders
    BY <1>1 DEF TypeInv, TypeOK, Shape, RunImport
  <2>7. /\ [disk[runner.f] EXCEPT !.here = @ /\ ~moved] \in [ver : Nat, here : BOOLEAN]
        /\ [disk[runner.f] EXCEPT !.here = @ /\ ~moved].ver = disk[runner.f].ver
    BY <2>6
  <2>3. /\ disk' \in [Folders -> [ver : Nat, here : BOOLEAN]]
        /\ \A g \in Folders : disk'[g].ver = disk[g].ver
    BY <2>2, <2>6, <2>7 DEF TypeInv, TypeOK
  <2>8. landings \in [1..MaxStamp -> Nat]
    BY DEF TypeInv, TypeOK
  <2>9. \/ landings' = [landings EXCEPT ![runner.row.stamp] = @ + 1]
        \/ landings' = [landings EXCEPT ![runner.row.stamp] = @ + 0]
    BY <2>1
  <2>4. landings' \in [1..MaxStamp -> Nat]
    BY <2>8, <2>9
  <2>5. ending' \in [1..MaxStamp -> Ends \cup {None}]
    BY <2>1, BecameOfIsAnEnd DEF TypeInv, TypeOK
  <2>q. QED
    BY <1>1, <2>1, <2>a, <2>3, <2>4, <2>5 DEF TypeInv, TypeOK, Shape, RunImport, Busy
<1>2. CASE EndImport
  BY <1>2 DEF TypeInv, TypeOK, Shape, EndImport, Busy
<1>q. QED
  BY <1>1, <1>2

\* A request that moves to another record of its type keeps the requests typed.
LEMMA RequestChange ==
  ASSUME TypeInv, NEW q \in Requests, NEW r,
         r \in Request, r.pc # "idle" => r.f \in Folders,
         r.pc = "found" => r.payload # 0,
         requests' = [requests EXCEPT ![q] = r],
         UNCHANGED <<disk, rows, userVars, importVars, seen, flipped, runner>>
  PROVE  TypeInv'
BY DEF TypeInv, TypeOK, Shape, Busy

\* Each step of a search or a rescan keeps the types.
LEMMA RequestTypeInv ==
  ASSUME TypeInv, NEW q \in Requests, RequestStep(q)
  PROVE  TypeInv'
<1> DEFINE r == requests[q]
<1>0. /\ r \in Request /\ (r.pc # "idle" => r.f \in Folders)
      /\ \A f \in Folders : IsNat(disk[f].ver) /\ disk[f].ver # 0
      /\ RequestPcs = {"idle", "checked", "changed", "matched", "found"}
      /\ IsNat(0)
  BY DEF TypeInv, TypeOK, Shape, IsNat, RequestPcs
<1>1. ASSUME NEW kind \in Kinds, NEW f \in Folders, BeginRequest(q, kind, f)
      PROVE  TypeInv'
  <2> DEFINE new == [RequestIdle EXCEPT !.pc = "checked", !.kind = kind, !.f = f,
                                        !.id = rows[f].id, !.fp = rows[f].fp]
  <2>1. IsNat(rows[f].id) /\ IsNat(rows[f].fp)
    BY <1>1 DEF BeginRequest, Row, TypeInv, TypeOK, IsNat
  <2>2. new \in Request /\ new.pc = "checked" /\ new.f = f
    BY <1>1, <2>1 DEF RequestIdle, Request, RequestPcs, IsNat
  <2>q. QED
    BY <1>1, <2>2, RequestChange DEF BeginRequest
<1>2. CASE ReadFingerprint(q)
  <2>1. CASE At(q, "search", "checked")
    <3>1. PICK pc \in {"matched", "changed"} : requests' = [requests EXCEPT ![q].pc = pc]
      BY <1>2, <2>1 DEF ReadFingerprint, Step, At
    <3>2. [r EXCEPT !.pc = pc] \in Request /\ [r EXCEPT !.pc = pc].f \in Folders
      BY <1>0, <2>1 DEF At, Request
    <3>q. QED
      BY <1>2, <3>1, <3>2, RequestChange DEF ReadFingerprint, Request
  <2>2. CASE At(q, "rescan", "checked")
    <3> DEFINE new == [r EXCEPT !.pc = "matched", !.fp = disk[r.f].ver]
    <3>1. requests' = [requests EXCEPT ![q] = new]
      BY <1>2, <2>2 DEF ReadFingerprint, At
    <3>2. r.f \in Folders /\ IsNat(disk[r.f].ver)
      BY <1>0, <2>2 DEF At
    <3>3. new \in Request /\ new.f \in Folders /\ new.pc = "matched"
      BY <1>0, <3>2 DEF Request, IsNat
    <3>q. QED
      BY <1>2, <3>1, <3>3, RequestChange DEF ReadFingerprint
  <2>q. QED
    BY <1>2, <2>1, <2>2 DEF ReadFingerprint
<1>3. CASE LookUpAgain(q)
  <2> DEFINE new == [r EXCEPT !.pc = "found", !.payload = disk[r.f].ver]
  <2>1. requests' = [requests EXCEPT ![q] = new]
    BY <1>3 DEF LookUpAgain
  <2>2. r.f \in Folders /\ IsNat(disk[r.f].ver) /\ disk[r.f].ver # 0
    BY <1>0, <1>3 DEF LookUpAgain
  <2>3. new \in Request /\ new.f \in Folders /\ new.payload # 0
    BY <1>0, <2>2 DEF Request, IsNat
  <2>q. QED
    BY <1>3, <2>1, <2>3, RequestChange DEF LookUpAgain
<1>4. CASE GiveUpRequest(q)
  <2>1. RequestIdle \in Request /\ RequestIdle.pc = "idle"
    BY <1>0 DEF RequestIdle, Request, IsNat
  <2>q. QED
    BY <1>4, <2>1, RequestChange DEF GiveUpRequest, Reply
<1> USE DEF TypeInv, TypeOK, Shape, Busy, Request, RequestPcs, RequestIdle, At,
            Reply, Step
<1>5. CASE FlipStale(q)
  <2>1. TargetThere(q) => Target(q) \in Row
    BY <1>5 DEF FlipStale, TargetThere, Target, HasRow
  <2>2. TargetThere(q) => Target(q).stamp \in Nat
    BY <2>1 DEF Row
  <2>3. flipped' = flipped \cup IF TargetThere(q) THEN {Target(q).stamp} ELSE {}
    BY <1>5 DEF FlipStale
  <2>4. flipped' \subseteq Nat
    BY <2>2, <2>3
  <2>q. QED
    BY <1>5, <2>4, BlindRows DEF FlipStale, Statuses, Recoveries
<1>6. CASE StoreSearch(q)
  BY <1>6, SearchRows DEF StoreSearch
<1>7. CASE StoreRescan(q)
  BY <1>7, RescanRows DEF StoreRescan
<1>q. QED
  BY <1>1, <1>2, <1>3, <1>4, <1>5, <1>6, <1>7 DEF RequestStep

\* A restart keeps the types.
LEMMA RestartTypeInv == TypeInv /\ Restart => TypeInv'
BY RestartRows DEF TypeInv, TypeOK, Shape, Restart, Busy, Runner, RunnerPcs,
   RunnerIdle, NextRow, Request, RequestPcs, RequestIdle

\* Every step keeps the types.
LEMMA NextTypeInv == TypeInv /\ [Next]_vars => TypeInv'
<1>1. CASE UNCHANGED vars
  BY <1>1 DEF vars, TypeInv, TypeOK, Shape, Busy
<1>q. QED
  BY <1>1, FolderTypeInv, UserTypeInv, OtherImportTypeInv, RunnerTypeInv,
     ImportTypeInv, RequestTypeInv, RestartTypeInv DEF Next

-----------------------------------------------------------------------------
(* What any step may make of a row.                                        *)

Searched(old, new) ==
  /\ old.status \in SEARCHABLE
  /\ new.stamp = old.stamp /\ new.status = old.status /\ new.by = "search"
  /\ new.reason = "needs_review" /\ new.payload # 0

RescannedBy(q, old, new) ==
  /\ At(q, "rescan", "found") /\ old.status \in RESCANNABLE
  /\ new.stamp = old.stamp /\ new.status \in {old.status, "needs_review"}
  /\ new.by = "rescan" /\ new.fp = requests[q].fp
  /\ new.payload \in {0, requests[q].payload}
  /\ new.reason # "needs_dup_resolution"
  /\ new.reason = "needs_review" => new.payload # 0

Banked(new) ==
  /\ new.stamp = 0 /\ new.status = "needs_review" /\ new.by = "import"
  /\ new.reason = "needs_review" => new.payload # 0
  /\ new.reason = "needs_dup_resolution" => new.dup

DecidedTo(old, new) ==
  /\ new.fp = old.fp /\ new.reason = old.reason /\ new.payload = old.payload
  /\ new.by = old.by /\ new.dup = old.dup /\ new.stamp = clock + 1
  /\ \/ new.status = "ignored"
     \/ new.status = "queued" /\ new.decided \in ApplyActions

Settled == {"stale", "failed", "needs_review", "ignored"}

Effect(f) ==
  \/ rows'[f] = rows[f]
  \/ rows'[f] = None
  \/ Banked(rows'[f])
  \/ /\ rows[f] # None /\ rows[f] \in Row /\ rows'[f] \in Row
     /\ \/ DecidedTo(rows[f], rows'[f])
        \/ \E status \in Settled : Edited(rows[f], rows'[f], status)
        \/ rows[f].status = "queued" /\ Edited(rows[f], rows'[f], "applying")
        \/ /\ rows[f].status = "applying"
           /\ \E status \in {"queued", "done"} : Edited(rows[f], rows'[f], status)
        \/ Searched(rows[f], rows'[f])
        \/ \E q \in Requests : RescannedBy(q, rows[f], rows'[f])

\* A compare and set has an effect the summary lists.
LEMMA CasEffect ==
  ASSUME TypeInv, runner.f \in Folders,
         NEW status \in Settled \cup {"queued", "done"},
         NEW recovery \in Recoveries, Cas(status, recovery)
  PROVE  \A f \in Folders : Effect(f)
<1>1. status \in Statuses
  BY DEF Settled, Statuses
<1>2. ASSUME NEW f \in Folders PROVE Effect(f)
  <2>1. \/ rows'[f] = rows[f]
        \/ /\ f = runner.f /\ HasRow(f, runner.id) /\ rows[f].status = "applying"
           /\ rows[f] \in Row /\ Edited(rows[f], rows'[f], status)
    BY <1>1, CasRows DEF TypeInv, Cas
  <2>q. QED
    BY <2>1 DEF Effect, HasRow, Edited
<1>q. QED
  BY <1>2

\* So has an unguarded write.
LEMMA BlindEffect ==
  ASSUME TypeInv, NEW g \in Folders, NEW id, NEW status \in {"stale", "failed"},
         BlindStatus(g, id, status, "decide_again")
  PROVE  \A f \in Folders : Effect(f)
<1>1. status \in Statuses /\ "decide_again" \in Recoveries
  BY DEF Statuses, Recoveries
<1>2. ASSUME NEW f \in Folders PROVE Effect(f)
  <2>1. \/ rows'[f] = rows[f]
        \/ f = g /\ HasRow(f, id) /\ rows[f] \in Row /\ Edited(rows[f], rows'[f], status)
    BY <1>1, BlindRows DEF TypeInv
  <2>q. QED
    BY <2>1 DEF Effect, HasRow, Edited, Settled
<1>q. QED
  BY <1>2

\* So has each step of the apply thread.
LEMMA RunnerEffect ==
  ASSUME TypeInv, RunnerStep
  PROVE  \A f \in Folders : Effect(f)
<1>1. runner.pc # "idle" => runner.f \in Folders
  BY DEF TypeInv, Shape
<1>2. {"decide_again", "fix_folder"} \subseteq Recoveries
  BY DEF Recoveries
<1>3. UNCHANGED rows => \A f \in Folders : Effect(f)
  BY DEF Effect
<1>4. CASE Claim
  <2>1. /\ \A g \in Folders : g # runner.f => rows'[g] = rows[g]
        /\ \/ rows' = rows
           \/ /\ HasRow(runner.f, runner.id) /\ rows[runner.f] \in Row
              /\ rows[runner.f].status = "queued"
              /\ Edited(rows[runner.f], rows'[runner.f], "applying")
    BY <1>4, ClaimRows DEF TypeInv
  <2>q. QED
    BY <2>1 DEF Effect, HasRow, Edited
<1>5. CASE CheckFolder
  BY <1>1, <1>2, <1>3, <1>5, CasEffect DEF CheckFolder, RunnerAt, Settled
<1>6. CASE EnforceSkipNew
  BY <1>1, <1>2, <1>6, CasEffect DEF EnforceSkipNew, RunnerAt
<1>7. CASE StartRefused
  BY <1>1, <1>2, <1>7, CasEffect DEF StartRefused, RunnerAt, Settled
<1>8. CASE FinishUnconfirmed
  BY <1>1, <1>2, <1>8, CasEffect DEF FinishUnconfirmed, RunnerAt, Settled
<1>9. CASE FinishApply
  <2>1. Classify(runner.row.decided, work, runner.gone).status \in {"failed", "done"}
    BY DEF Classify, ClassifyDuplicate, Failed, Done
  <2>q. QED
    BY <1>9, <2>1, FinishApplyRows DEF Effect, HasRow, Edited, Settled, TypeInv
<1>10. CASE RunnerRaises
  BY <1>1, <1>3, <1>10, BlindEffect DEF RunnerRaises
<1>q. QED
  BY <1>3, <1>4, <1>5, <1>6, <1>7, <1>8, <1>9, <1>10
     DEF RunnerStep, PickNext, PassGate, StartImport

\* So has each step of a request.
LEMMA RequestEffect ==
  ASSUME TypeInv, NEW q \in Requests, RequestStep(q)
  PROVE  \A f \in Folders : Effect(f)
<1>1. UNCHANGED rows => \A f \in Folders : Effect(f)
  BY DEF Effect
<1>2. CASE FlipStale(q)
  <2>1. requests[q].f \in Folders
    BY <1>2 DEF FlipStale, At, TypeInv, Shape
  <2>q. QED
    BY <1>2, <2>1, BlindEffect DEF FlipStale
<1>3. CASE StoreSearch(q)
  BY <1>3, SearchRows DEF Effect, Searched, TypeInv
<1>4. CASE StoreRescan(q)
  BY <1>4, RescanRows DEF Effect, RescannedBy, TypeInv, StoreRescan
<1>q. QED
  BY <1>1, <1>2, <1>3, <1>4
     DEF RequestStep, BeginRequest, ReadFingerprint, LookUpAgain, GiveUpRequest

\* What any step does to one row: the summary the invariants are proved from.
LEMMA Effects ==
  ASSUME TypeInv, [Next]_vars
  PROVE  \A f \in Folders : Effect(f)
<1>1. UNCHANGED rows => \A f \in Folders : Effect(f)
  BY DEF Effect
<1>2. ASSUME NEW f \in Folders, NEW action \in Actions, Decide(f, action)
      PROVE  \A g \in Folders : Effect(g)
  <2>1. action # "ignore" => action \in ApplyActions
    BY <1>2
  <2>q. QED
    BY <1>2, <2>1, DecideRows DEF Effect, DecidedTo, TypeInv
<1>3. ASSUME NEW f \in Folders, Ignore(f) PROVE \A g \in Folders : Effect(g)
  BY <1>3, IgnoreRows DEF Effect, Edited, Settled, TypeInv
<1>4. ASSUME NEW f \in Folders, Delete(f) PROVE \A g \in Folders : Effect(g)
  BY <1>4 DEF Delete, Effect, TypeInv, TypeOK
<1>5. ASSUME NEW f \in Folders, BankRow(f) PROVE \A g \in Folders : Effect(g)
  BY <1>5, BankRowRows DEF Effect, Banked, TypeInv
<1>6. CASE Restart
  BY <1>6, RestartRows DEF Effect, Edited, Settled, TypeInv
<1>q. QED
  BY <1>1, <1>2, <1>3, <1>4, <1>5, <1>6, RunnerEffect, RequestEffect
     DEF Next, vars, FolderStep, ChangeFolder, RemoveFolder, UserStep,
         OtherImportStep, StartUnattended, EndUnattended, LookUp, RunImport, EndImport

-----------------------------------------------------------------------------
(* Rows stay readable.                                                     *)

Readable(row) ==
  /\ row.status \in {"queued", "applying", "done"} => row.decided \in ApplyActions
  /\ row.reason = "needs_review" => row.payload # 0
  /\ row.reason = "needs_dup_resolution" => row.dup

\* No step leaves a row that cannot be read back.
LEMMA NextReadable ==
  ASSUME TypeInv, RowsAreReadable, [Next]_vars
  PROVE  RowsAreReadable'
<1>1. ASSUME NEW f \in Folders, rows'[f] # None PROVE Readable(rows'[f])
  <2>1. Effect(f)
    BY Effects
  <2>2. rows[f] # None => Readable(rows[f])
    BY DEF RowsAreReadable, Stored, Readable
  <2>3. CASE rows'[f] = rows[f]
    BY <1>1, <2>2, <2>3
  <2>4. CASE Banked(rows'[f])
    BY <2>4 DEF Banked, Readable
  <2>5. CASE rows[f] # None /\ DecidedTo(rows[f], rows'[f])
    BY <2>2, <2>5 DEF DecidedTo, Readable
  <2>6. ASSUME NEW status, Edited(rows[f], rows'[f], status), rows[f] # None,
               status \in {"queued", "applying", "done"}
                 => rows[f].status \in {"queued", "applying"}
        PROVE  Readable(rows'[f])
    BY <2>2, <2>6 DEF Edited, Readable
  <2>7. CASE rows[f] # None /\ Searched(rows[f], rows'[f])
    BY <2>7 DEF Searched, Readable, SEARCHABLE
  <2>8. ASSUME NEW q \in Requests, RescannedBy(q, rows[f], rows'[f])
        PROVE  Readable(rows'[f])
    BY <2>8 DEF RescannedBy, Readable, RESCANNABLE
  <2>q. QED
    BY <1>1, <2>1, <2>3, <2>4, <2>5, <2>6, <2>7, <2>8 DEF Effect, Settled
<1>q. QED
  BY <1>1 DEF RowsAreReadable, Stored, Readable

-----------------------------------------------------------------------------
(* Rescanned candidates are never older than their fingerprint.             *)

\* A folder's content only moves on, so what a rescan looks up after it took
\* the fingerprint is that content or a later one.
CurrentInv ==
  /\ RescanIsCurrent
  /\ \A q \in Requests : requests[q].kind = "rescan" =>
       /\ requests[q].pc = "matched" => requests[q].fp <= disk[requests[q].f].ver
       /\ requests[q].pc = "found" => requests[q].fp <= requests[q].payload

\* A folder's version never goes back.
LEMMA DiskMovesOn ==
  ASSUME TypeInv, [Next]_vars
  PROVE  \A f \in Folders : disk'[f].ver >= disk[f].ver
<1>0. disk \in [Folders -> [ver : Nat, here : BOOLEAN]]
  BY DEF TypeInv, TypeOK
<1>1. ASSUME NEW f \in Folders, ChangeFolder(f)
      PROVE  \A g \in Folders : disk'[g].ver >= disk[g].ver
  BY <1>0, <1>1 DEF ChangeFolder
<1>2. ASSUME NEW f \in Folders, NEW here, disk' = [disk EXCEPT ![f].here = here]
      PROVE  \A g \in Folders : disk'[g].ver >= disk[g].ver
  <2>1. \A g \in Folders : disk'[g].ver = disk[g].ver /\ disk[g].ver \in Nat
    BY <1>0, <1>2
  <2>q. QED
    BY <2>1
<1>3. ASSUME NEW f \in Folders, RemoveFolder(f)
      PROVE  \A g \in Folders : disk'[g].ver >= disk[g].ver
  BY <1>2, <1>3 DEF RemoveFolder
<1>4. CASE RunImport
  <2>1. runner.f \in Folders
    BY <1>4 DEF RunImport, TypeInv, Shape
  <2>2. PICK moved \in BOOLEAN : disk' = [disk EXCEPT ![runner.f].here = @ /\ ~moved]
    BY <1>4 DEF RunImport
  <2>q. QED
    BY <1>2, <2>1, <2>2
<1>5. UNCHANGED disk => \A g \in Folders : disk'[g].ver >= disk[g].ver
  BY <1>0
<1>q. QED
  BY <1>1, <1>3, <1>4, <1>5
     DEF Next, vars, FolderStep, UserStep, Decide, Ignore, Delete, OtherImportStep,
         StartUnattended, EndUnattended, LookUp, BankRow, RunnerStep, PickNext,
         PassGate, Claim, CheckFolder, EnforceSkipNew, StartImport, StartRefused,
         FinishApply, FinishUnconfirmed, RunnerRaises, EndImport, RequestStep,
         BeginRequest, ReadFingerprint, LookUpAgain, GiveUpRequest, FlipStale,
         StoreSearch, StoreRescan, Restart

\* Only a request's own step changes it, and a restart forgets them all.
LEMMA RequestsMove ==
  ASSUME TypeInv, [Next]_vars, NEW q \in Requests
  PROVE  \/ requests'[q] = requests[q]
         \/ requests'[q].pc \in {"idle", "checked"}
         \/ requests'[q].kind # "rescan"
         \/ /\ requests'[q].pc = "matched" /\ requests'[q].f \in Folders
            /\ requests'[q].fp = disk[requests'[q].f].ver
         \/ /\ requests[q].pc = "matched" /\ requests[q].kind = "rescan"
            /\ requests'[q].pc = "found"
            /\ requests'[q].f = requests[q].f /\ requests'[q].fp = requests[q].fp
            /\ requests'[q].payload = disk[requests[q].f].ver
<1>0. requests \in [Requests -> Request]
  BY DEF TypeInv, TypeOK
<1> DEFINE Move(p) ==
        \/ requests'[p] = requests[p]
        \/ requests'[p].pc \in {"idle", "checked"}
        \/ requests'[p].kind # "rescan"
        \/ /\ requests'[p].pc = "matched" /\ requests'[p].f \in Folders
           /\ requests'[p].fp = disk[requests'[p].f].ver
        \/ /\ requests[p].pc = "matched" /\ requests[p].kind = "rescan"
           /\ requests'[p].pc = "found"
           /\ requests'[p].f = requests[p].f /\ requests'[p].fp = requests[p].fp
           /\ requests'[p].payload = disk[requests[p].f].ver
<1>1. UNCHANGED requests => Move(q)
  OBVIOUS
<1>2. ASSUME NEW p \in Requests, RequestStep(p) PROVE Move(q)
  <2>1. CASE p # q
    BY <1>0, <1>2, <2>1
       DEF RequestStep, BeginRequest, ReadFingerprint, LookUpAgain, GiveUpRequest,
           FlipStale, StoreSearch, StoreRescan, Step, Reply
  <2>2. CASE p = q
    <3>1. CASE \E kind \in Kinds, f \in Folders : BeginRequest(p, kind, f)
      BY <1>0, <2>2, <3>1 DEF BeginRequest, RequestIdle
    <3>2. CASE ReadFingerprint(p)
      BY <1>0, <2>2, <3>2 DEF ReadFingerprint, Step, At, TypeInv, Shape, Request
    <3>3. CASE LookUpAgain(p)
      <4>1. requests'[q] = [requests[q] EXCEPT !.pc = "found",
                              !.payload = disk[requests[q].f].ver]
        BY <1>0, <2>2, <3>3 DEF LookUpAgain
      <4>2. requests[q].pc = "matched" /\ requests[q] \in Request
        BY <1>0, <2>2, <3>3 DEF LookUpAgain
      <4>q. QED
        BY <4>1, <4>2 DEF Request
    <3>4. CASE requests' = [requests EXCEPT ![p] = RequestIdle]
      BY <1>0, <2>2, <3>4 DEF RequestIdle
    <3>q. QED
      BY <1>2, <3>1, <3>2, <3>3, <3>4
         DEF RequestStep, GiveUpRequest, FlipStale, StoreSearch, StoreRescan, Reply
  <2>q. QED
    BY <2>1, <2>2
<1>3. CASE Restart
  BY <1>3 DEF Restart, RequestIdle
<1>q. QED
  BY <1>1, <1>2, <1>3
     DEF Next, vars, FolderStep, ChangeFolder, RemoveFolder, UserStep, Decide, Ignore,
         Delete, OtherImportStep, StartUnattended, EndUnattended, LookUp, BankRow,
         RunnerStep, PickNext, PassGate, Claim, CheckFolder, EnforceSkipNew,
         StartImport, StartRefused, FinishApply, FinishUnconfirmed, RunnerRaises,
         RunImport, EndImport

\* A rescan fingerprints before it looks up, so what it stores is current.
LEMMA NextCurrent ==
  ASSUME TypeInv, TypeInv', CurrentInv, [Next]_vars
  PROVE  CurrentInv'
<1>1. ASSUME NEW f \in Folders, rows'[f] # None, rows'[f].by = "rescan",
             rows'[f].payload # 0
      PROVE  rows'[f].payload >= rows'[f].fp
  <2>1. Effect(f)
    BY Effects
  <2>2. rows[f] # None /\ rows[f].by = "rescan" /\ rows[f].payload # 0
          => rows[f].payload >= rows[f].fp
    BY DEF CurrentInv, RescanIsCurrent, PayloadIsNotOlder, Stored
  <2>3. CASE rows'[f] = rows[f]
    BY <1>1, <2>2, <2>3
  <2>4. ASSUME NEW status, Edited(rows[f], rows'[f], status), rows[f] # None
        PROVE  rows'[f].payload >= rows'[f].fp
    BY <1>1, <2>2, <2>4 DEF Edited
  <2>5. CASE rows[f] # None /\ DecidedTo(rows[f], rows'[f])
    BY <1>1, <2>2, <2>5 DEF DecidedTo
  <2>6. ASSUME NEW q \in Requests, RescannedBy(q, rows[f], rows'[f])
        PROVE  rows'[f].payload >= rows'[f].fp
    <3>1. requests[q].fp <= requests[q].payload
      BY <2>6 DEF CurrentInv, RescannedBy, At
    <3>2. requests[q].fp \in Nat /\ requests[q].payload \in Nat
      BY DEF TypeInv, TypeOK, Request
    <3>q. QED
      BY <1>1, <2>6, <3>1, <3>2 DEF RescannedBy
  <2>q. QED
    BY <1>1, <2>1, <2>3, <2>4, <2>5, <2>6 DEF Effect, Banked, Searched
<1>2. ASSUME NEW q \in Requests, requests'[q].kind = "rescan"
      PROVE  /\ requests'[q].pc = "matched" => requests'[q].fp <= disk'[requests'[q].f].ver
             /\ requests'[q].pc = "found" => requests'[q].fp <= requests'[q].payload
  <2>1. /\ requests[q] \in Request /\ requests'[q] \in Request
        /\ (requests[q].pc # "idle" => requests[q].f \in Folders)
        /\ \A f \in Folders : disk[f].ver \in Nat /\ disk'[f].ver \in Nat
                              /\ disk'[f].ver >= disk[f].ver
    BY DiskMovesOn DEF TypeInv, TypeOK, Shape
  <2>2. /\ requests[q].fp \in Nat /\ requests'[q].fp \in Nat
    BY <2>1 DEF Request
  <2>3. requests[q].kind = "rescan" =>
          /\ requests[q].pc = "matched" => requests[q].fp <= disk[requests[q].f].ver
          /\ requests[q].pc = "found" => requests[q].fp <= requests[q].payload
    BY DEF CurrentInv
  <2>q. QED
    BY <1>2, <2>1, <2>2, <2>3, RequestsMove
<1>q. QED
  BY <1>1, <1>2 DEF CurrentInv, RescanIsCurrent, PayloadIsNotOlder, Stored

-----------------------------------------------------------------------------
(* A decision lands once, and done says what it did.                       *)

\* Stamps tell decisions apart: no two rows have the same one.
StampInv ==
  /\ \A f \in Stored : rows[f].stamp <= clock
  /\ \A f, g \in Stored : rows[f].stamp = rows[g].stamp /\ rows[f].stamp # 0 => f = g
  /\ \A f \in Stored : rows[f].status = "queued" => rows[f].stamp \in 1..clock
  /\ Busy => runner.row.stamp \in 1..clock /\ runner.row.decided \in ApplyActions

\* A decision that may still start an import has left nothing behind.
UnusedInv ==
  /\ \A n \in 1..MaxStamp : n > clock => landings[n] = 0 /\ ending[n] = None
  /\ \A f \in Stored : rows[f].status = "queued"
       => landings[rows[f].stamp] = 0 /\ ending[rows[f].stamp] = None
  /\ (runner.pc \in {"claimed", "checked"} \/ (slot = "apply" /\ work = None))
       => landings[runner.row.stamp] = 0 /\ ending[runner.row.stamp] = None

\* The decision the thread works on is in no other row and waits in no queue.
OwnStamp ==
  Busy => \A f \in Stored : rows[f].stamp = runner.row.stamp
            => f = runner.f /\ rows[f].status \notin {"queued", "done"}

OwnRow ==
  Busy /\ HasRow(runner.f, runner.id) /\ rows[runner.f].status = "applying"
    => /\ rows[runner.f].stamp = runner.row.stamp
       /\ rows[runner.f].decided = runner.row.decided

OwnEnding ==
  runner.pc = "running" /\ work # None
    => /\ ending[runner.row.stamp] = BecameOf(runner.row.decided, work, runner.gone)
       /\ work \in Results(runner.row.decided)

OwnInv == OwnStamp /\ OwnRow /\ OwnEnding

\* What an ending must be for its row to read done.
MayBeDone(action, end) ==
  end \in {"kept", "sibling"} \/ (action = "skip_new" /\ end = None)

LandInv == StampInv /\ UnusedInv /\ OwnInv /\ DecisionLandsOnce /\ DoneIsKept

Quiet(f) ==
  \/ rows'[f] = rows[f]
  \/ rows'[f] = None
  \/ /\ rows'[f].status \notin {"queued", "applying", "done"}
     /\ \/ rows'[f].stamp = 0
        \/ rows[f] # None /\ rows'[f].stamp = rows[f].stamp

\* A step that queues, claims and finishes no row, and starts no import.
LEMMA QuietLand ==
  ASSUME TypeInv, TypeInv', LandInv, \A f \in Folders : Quiet(f),
         UNCHANGED <<clock, landings, ending>>,
         \/ UNCHANGED <<runner, slot, work>>
         \/ runner'.pc \notin {"claimed", "checked", "running"} /\ slot' # "apply"
         \/ UNCHANGED runner /\ slot' # "apply" /\ work' \in {work, None}
  PROVE  LandInv'
<1>1. clock \in Nat /\ \A f \in Folders : rows[f] # None => rows[f].stamp \in Nat
  BY DEF TypeInv, TypeOK, Row
<1>2. StampInv'
  BY <1>1 DEF LandInv, StampInv, Stored, Quiet, Busy
<1>3. UnusedInv'
  BY DEF LandInv, UnusedInv, Stored, Quiet
<1>b. Busy' => UNCHANGED runner /\ Busy
  BY DEF Busy
<1>4. OwnInv'
  <2>1. OwnStamp'
    <3>1. SUFFICES ASSUME Busy', NEW f \in Folders, rows'[f] # None,
                          rows'[f].stamp = runner'.row.stamp
                   PROVE  f = runner'.f /\ rows'[f].status \notin {"queued", "done"}
      BY DEF OwnStamp, Stored
    <3>2. runner' = runner /\ Busy /\ runner.row.stamp \in 1..clock /\ Quiet(f)
      BY <1>b, <3>1 DEF LandInv, StampInv
    <3>3. CASE rows'[f] = rows[f]
      BY <3>1, <3>2, <3>3 DEF LandInv, OwnInv, OwnStamp, Stored
    <3>4. CASE rows'[f] # rows[f]
      BY <1>1, <3>1, <3>2, <3>4 DEF LandInv, OwnInv, OwnStamp, Stored, Quiet
    <3>q. QED
      BY <3>3, <3>4
  <2>2. OwnRow'
    <3>1. SUFFICES ASSUME Busy', HasRow(runner.f, runner.id)',
                          rows'[runner'.f].status = "applying"
                   PROVE  /\ rows'[runner'.f].stamp = runner'.row.stamp
                          /\ rows'[runner'.f].decided = runner'.row.decided
      BY DEF OwnRow, HasRow
    <3>2. runner' = runner /\ Busy /\ runner.f \in Folders
      BY <1>b, <3>1 DEF TypeInv, Shape, Busy
    <3>3. rows'[runner.f] = rows[runner.f]
      BY <3>1, <3>2 DEF Quiet, HasRow
    <3>q. QED
      BY <3>1, <3>2, <3>3 DEF LandInv, OwnInv, OwnRow, HasRow
  <2>3. OwnEnding'
    BY DEF LandInv, OwnInv, OwnEnding
  <2>q. QED
    BY <2>1, <2>2, <2>3 DEF OwnInv
<1>5. DecisionLandsOnce'
  BY DEF LandInv, DecisionLandsOnce
<1>6. DoneIsKept'
  <2>1. SUFFICES ASSUME NEW g \in Folders, rows'[g] # None, rows'[g].status = "done"
                 PROVE  MayBeDone(rows'[g].decided, ending[rows'[g].stamp])
    BY DEF DoneIsKept, Stored, MayBeDone
  <2>2. rows'[g] = rows[g]
    BY <2>1 DEF Quiet
  <2>q. QED
    BY <2>1, <2>2 DEF LandInv, DoneIsKept, MayBeDone, Stored
<1>q. QED
  BY <1>2, <1>3, <1>4, <1>5, <1>6 DEF LandInv

\* At the start no decision was taken.
LEMMA InitLand == Init => LandInv
BY DEF Init, LandInv, StampInv, UnusedInv, OwnInv, OwnStamp, OwnRow, OwnEnding,
       DecisionLandsOnce, DoneIsKept, Stored, RunnerIdle, Busy

\* A decision has a stamp of its own; ignoring and deleting queue nothing.
LEMMA UserLand ==
  ASSUME TypeInv, TypeInv', LandInv, NEW f \in Folders, UserStep(f)
  PROVE  LandInv'
<1>1. ASSUME Ignore(f) \/ Delete(f) PROVE LandInv'
  <2>1. \A g \in Folders : Quiet(g)
    BY <1>1, IgnoreRows DEF Quiet, Edited, Delete, TypeInv, TypeOK
  <2>q. QED
    BY <1>1, <2>1, QuietLand DEF Ignore, Delete
<1>2. ASSUME NEW action \in Actions, Decide(f, action) PROVE LandInv'
  <2>1. /\ clock \in Nat /\ clock' = clock + 1 /\ clock + 1 \in 1..MaxStamp
        /\ \A g \in Folders : rows[g] # None => rows[g].stamp \in Nat
        /\ UNCHANGED <<landings, ending, runner, slot, work>>
    BY <1>2 DEF TypeInv, TypeOK, Row, Decide
  <2>2. /\ \A g \in Folders : g # f => rows'[g] = rows[g]
        /\ rows[f] # None
        /\ rows'[f].stamp = clock + 1 /\ rows'[f].status \in {"queued", "ignored"}
    BY <1>2, DecideRows DEF TypeInv
  <2>3. StampInv'
    BY <2>1, <2>2 DEF LandInv, StampInv, Stored, Busy
  <2>4. UnusedInv'
    BY <2>1, <2>2 DEF LandInv, UnusedInv, Stored
  <2>a. OwnStamp'
    BY <2>1, <2>2 DEF LandInv, OwnInv, OwnStamp, StampInv, Stored, Busy
  <2>b. OwnRow'
    BY <2>1, <2>2 DEF LandInv, OwnInv, OwnRow, Busy, HasRow, TypeInv, Shape
  <2>c. OwnEnding'
    BY <2>1 DEF LandInv, OwnInv, OwnEnding
  <2>5. OwnInv'
    BY <2>a, <2>b, <2>c DEF OwnInv
  <2>6. DecisionLandsOnce'
    BY <2>1 DEF LandInv, DecisionLandsOnce
  <2>7. DoneIsKept'
    <3>1. SUFFICES ASSUME NEW g \in Folders, rows'[g] # None, rows'[g].status = "done"
                   PROVE  MayBeDone(rows'[g].decided, ending[rows'[g].stamp])
      BY <2>1 DEF DoneIsKept, Stored, MayBeDone
    <3>2. rows'[g] = rows[g]
      BY <2>2, <3>1
    <3>q. QED
      BY <3>1, <3>2 DEF LandInv, DoneIsKept, MayBeDone, Stored
  <2>q. QED
    BY <2>3, <2>4, <2>5, <2>6, <2>7 DEF LandInv
<1>q. QED
  BY <1>1, <1>2 DEF UserStep

\* What the classifier calls done was kept, whatever the import came to.
LEMMA DoneIsEvidence ==
  ASSUME NEW action \in ApplyActions, NEW o \in Results(action), NEW gone \in BOOLEAN,
         Classify(action, o, gone).status = "done"
  PROVE  MayBeDone(action, BecameOf(action, o, gone))
<1>1. /\ o.failed \in BOOLEAN /\ o.note \in BOOLEAN /\ o.hook \in BOOLEAN
      /\ o.landed \in BOOLEAN /\ o.tracks \in BOOLEAN /\ o.resolved \in BOOLEAN
  BY ResultsAreOutcomes DEF Outcome
<1>2. ~o.failed /\ ~o.note
  BY <1>1 DEF Classify, Failed
<1>3. action \in {"keep_both", "replace"} /\ o.hook => o.landed /\ o.resolved
  BY <1>2, HookedLands
<1>4. CASE action \in {"apply", "asis", "astracks"}
  BY <1>1, <1>2, <1>4 DEF Classify, Failed, Done, BecameOf, MayBeDone
<1>5. CASE action \in {"keep_both", "replace"}
  BY <1>1, <1>2, <1>3, <1>5
     DEF Classify, ClassifyDuplicate, Failed, Done, BecameOf, MayBeDone
<1>6. CASE action \in {"skip_new", "merge"}
  BY <1>1, <1>2, <1>6
     DEF Classify, ClassifyDuplicate, Failed, Done, BecameOf, MayBeDone
<1>q. QED
  BY <1>4, <1>5, <1>6 DEF ApplyActions

\* A claim takes a decision that has left nothing behind, out of the queue.
LEMMA ClaimLand ==
  ASSUME TypeInv, TypeInv', LandInv, RowsAreReadable, Claim
  PROVE  LandInv'
<1>1. CASE rows' = rows /\ runner' = RunnerIdle
  <2>1. slot # "apply" /\ slot' = slot /\ runner'.pc = "idle"
    BY <1>1 DEF Claim, RunnerAt, RunnerIdle, TypeInv, Shape
  <2>q. QED
    BY <1>1, <2>1, QuietLand DEF Claim, Quiet
<1>2. ASSUME HasRow(runner.f, runner.id), rows[runner.f] \in Row,
             rows[runner.f].status = "queued",
             Edited(rows[runner.f], rows'[runner.f], "applying"),
             runner' = [runner EXCEPT !.pc = "claimed", !.row = rows[runner.f]]
      PROVE  LandInv'
  <2> DEFINE f == runner.f
  <2>1. /\ f \in Stored /\ \A g \in Folders : g # f => rows'[g] = rows[g]
        /\ slot # "apply" /\ UNCHANGED <<clock, landings, ending, slot, work>>
        /\ runner \in Runner
    BY <1>2, ClaimRows DEF TypeInv, TypeOK, Shape, Claim, RunnerAt, Stored, HasRow
  <2>2. /\ runner'.row = rows[f] /\ runner'.f = f /\ runner'.id = runner.id
        /\ runner'.pc = "claimed"
    BY <1>2, <2>1 DEF Runner
  <2>3. /\ rows'[f].stamp = rows[f].stamp /\ rows'[f].decided = rows[f].decided
        /\ rows'[f].status = "applying"
    BY <1>2 DEF Edited
  <2>4. /\ rows[f].stamp \in 1..clock /\ rows[f].stamp # 0
        /\ landings[rows[f].stamp] = 0 /\ ending[rows[f].stamp] = None
        /\ rows[f].decided \in ApplyActions
    BY <1>2, <2>1 DEF LandInv, StampInv, UnusedInv, RowsAreReadable
  <2>5. StampInv'
    BY <2>1, <2>2, <2>3, <2>4 DEF LandInv, StampInv, Stored
  <2>6. UnusedInv'
    BY <2>1, <2>2, <2>3, <2>4 DEF LandInv, UnusedInv, Stored
  <2>7. OwnStamp'
    BY <2>1, <2>2, <2>3, <2>4 DEF LandInv, StampInv, OwnStamp, Stored
  <2>8. OwnRow' /\ OwnEnding'
    BY <2>2, <2>3 DEF OwnRow, OwnEnding
  <2>9. DecisionLandsOnce'
    BY <2>1 DEF LandInv, DecisionLandsOnce
  <2>10. DoneIsKept'
    <3>1. SUFFICES ASSUME NEW g \in Folders, rows'[g] # None, rows'[g].status = "done"
                   PROVE  MayBeDone(rows'[g].decided, ending[rows'[g].stamp])
      BY <2>1 DEF DoneIsKept, Stored, MayBeDone
    <3>2. rows'[g] = rows[g]
      BY <2>1, <2>3, <3>1
    <3>q. QED
      BY <3>1, <3>2 DEF LandInv, DoneIsKept, MayBeDone, Stored
  <2>q. QED
    BY <2>5, <2>6, <2>7, <2>8, <2>9, <2>10 DEF LandInv, OwnInv
<1>q. QED
  BY <1>1, <1>2, ClaimRows DEF TypeInv

\* The thread leaves its row: queued again, with nothing imported, or done,
\* with the evidence.
LEMMA LeaveLand ==
  ASSUME TypeInv, TypeInv', LandInv, Busy, NEW status,
         UNCHANGED <<clock, landings, ending, slot, work>>,
         slot # "apply", runner' = RunnerIdle,
         \A g \in Folders :
           \/ rows'[g] = rows[g]
           \/ /\ g = runner.f /\ HasRow(g, runner.id) /\ rows[g].status = "applying"
              /\ rows[g] \in Row /\ Edited(rows[g], rows'[g], status),
         status = "queued"
           => landings[runner.row.stamp] = 0 /\ ending[runner.row.stamp] = None,
         status = "done" => MayBeDone(runner.row.decided, ending[runner.row.stamp])
  PROVE  LandInv'
<1> DEFINE f == runner.f
<1>1. CASE rows'[f] = rows[f]
  <2>1. \A g \in Folders : Quiet(g)
    BY <1>1 DEF Quiet
  <2>q. QED
    BY <2>1, QuietLand DEF RunnerIdle
<1>2. CASE rows'[f] # rows[f]
  <2>1. f \in Folders /\ ~Busy' /\ runner'.pc = "idle"
    BY DEF TypeInv, Shape, Busy, RunnerIdle
  <2>2. /\ f \in Stored /\ \A g \in Folders : g # f => rows'[g] = rows[g]
        /\ rows[f].stamp = runner.row.stamp /\ rows[f].decided = runner.row.decided
        /\ rows'[f].stamp = rows[f].stamp /\ rows'[f].decided = rows[f].decided
        /\ rows'[f].status = status
    BY <1>2, <2>1 DEF Stored, HasRow, Edited, LandInv, OwnInv, OwnRow
  <2>3. runner.row.stamp \in 1..clock
    BY DEF LandInv, StampInv
  <2>4. StampInv'
    BY <2>1, <2>2, <2>3 DEF LandInv, StampInv, Stored
  <2>5. UnusedInv'
    BY <2>1, <2>2 DEF LandInv, UnusedInv, Stored
  <2>6. OwnInv'
    BY <2>1 DEF OwnInv, OwnStamp, OwnRow, OwnEnding
  <2>7. DecisionLandsOnce'
    BY DEF LandInv, DecisionLandsOnce
  <2>8. DoneIsKept'
    <3>1. SUFFICES ASSUME NEW g \in Folders, rows'[g] # None, rows'[g].status = "done"
                   PROVE  MayBeDone(rows'[g].decided, ending[rows'[g].stamp])
      BY DEF DoneIsKept, Stored, MayBeDone
    <3>2. CASE g = f
      BY <2>2, <3>1, <3>2
    <3>3. CASE g # f
      BY <2>2, <3>1, <3>3 DEF LandInv, DoneIsKept, MayBeDone, Stored
    <3>q. QED
      BY <3>2, <3>3
  <2>q. QED
    BY <2>4, <2>5, <2>6, <2>7, <2>8 DEF LandInv
<1>q. QED
  BY <1>1, <1>2

\* The thread goes on with its row and leaves it as it is.
LEMMA GoOnLand ==
  ASSUME TypeInv, TypeInv', LandInv, runner.pc \in {"claimed", "checked"},
         UNCHANGED <<rows, clock, landings, ending>>,
         runner'.pc \in {"checked", "running"}, runner'.f = runner.f,
         runner'.id = runner.id, runner'.row = runner.row,
         runner'.pc = "running" => work' = None
  PROVE  LandInv'
<1>1. Busy
  BY DEF Busy
<1>2. StampInv'
  BY <1>1 DEF LandInv, StampInv, Stored
<1>3. UnusedInv'
  BY DEF LandInv, UnusedInv, Stored
<1>4. OwnInv'
  BY <1>1 DEF LandInv, OwnInv, OwnStamp, OwnRow, OwnEnding, Stored, HasRow
<1>5. DecisionLandsOnce' /\ DoneIsKept'
  BY DEF LandInv, DecisionLandsOnce, DoneIsKept, Stored, MayBeDone
<1>q. QED
  BY <1>2, <1>3, <1>4, <1>5 DEF LandInv

\* The import of a decision is its first, and its evidence is stored under
\* a stamp no done row has.
LEMMA RunImportLand ==
  ASSUME TypeInv, TypeInv', LandInv, RunImport
  PROVE  LandInv'
<1> DEFINE s == runner.row.stamp
<1>1. /\ runner.pc = "running" /\ Busy
      /\ UNCHANGED <<rows, clock, slot, runner>>
      /\ clock \in 0..MaxStamp
    BY DEF RunImport, TypeInv, TypeOK, Shape, Busy
<1>2. s \in 1..clock /\ s \in 1..MaxStamp /\ landings[s] = 0 /\ ending[s] = None
  BY <1>1 DEF LandInv, StampInv, UnusedInv, RunImport
<1>3. PICK o \in Results(runner.row.decided) :
        /\ work' = o
        /\ landings' = [landings EXCEPT ![s] = @ + IF o.landed THEN 1 ELSE 0]
        /\ ending' = [ending EXCEPT ![s] = BecameOf(runner.row.decided, o, runner.gone)]
  BY DEF RunImport
<1>a. o \in Outcome
  BY <1>3, ResultsAreOutcomes
<1>4. /\ landings \in [1..MaxStamp -> Nat]
      /\ ending \in [1..MaxStamp -> Ends \cup {None}]
  BY DEF TypeInv, TypeOK
<1>5. /\ \A n \in 1..MaxStamp : n # s => landings'[n] = landings[n] /\ ending'[n] = ending[n]
      /\ landings'[s] <= 1
      /\ ending'[s] = BecameOf(runner.row.decided, o, runner.gone)
  BY <1>2, <1>3, <1>4
<1>6. work' # None
  BY <1>3, <1>a, NoneAssumption
<1>7. StampInv'
  BY <1>1 DEF LandInv, StampInv, Stored, Busy
<1>8. UnusedInv'
  <2>1. \A n \in 1..MaxStamp : n > clock' => landings'[n] = 0 /\ ending'[n] = None
    BY <1>1, <1>2, <1>5 DEF LandInv, UnusedInv
  <2>2. \A f \in Stored' : rows'[f].status = "queued"
          => landings'[rows'[f].stamp] = 0 /\ ending'[rows'[f].stamp] = None
    <3>1. SUFFICES ASSUME NEW f \in Stored, rows[f].status = "queued"
                   PROVE  landings'[rows[f].stamp] = 0 /\ ending'[rows[f].stamp] = None
      BY <1>1 DEF Stored
    <3>2. rows[f].stamp \in 1..MaxStamp /\ rows[f].stamp # s
      BY <1>1, <3>1 DEF LandInv, StampInv, OwnInv, OwnStamp
    <3>q. QED
      BY <1>5, <3>1, <3>2 DEF LandInv, UnusedInv
  <2>q. QED
    BY <1>1, <1>6, <2>1, <2>2 DEF UnusedInv
<1>9. OwnInv'
  BY <1>1, <1>3, <1>5 DEF LandInv, OwnInv, OwnStamp, OwnRow, OwnEnding, Stored, HasRow, Busy
<1>10. DecisionLandsOnce'
  BY <1>2, <1>5 DEF LandInv, DecisionLandsOnce
<1>11. DoneIsKept'
  <2>1. SUFFICES ASSUME NEW f \in Stored, rows[f].status = "done"
                 PROVE  MayBeDone(rows[f].decided, ending'[rows[f].stamp])
    BY <1>1 DEF DoneIsKept, Stored, MayBeDone
  <2>2. rows[f].stamp # s
    BY <1>1, <2>1 DEF LandInv, OwnInv, OwnStamp
  <2>3. ending'[rows[f].stamp] = ending[rows[f].stamp]
    BY <1>3, <1>4, <2>2
  <2>q. QED
    BY <2>1, <2>3 DEF LandInv, DoneIsKept, MayBeDone
<1>q. QED
  BY <1>7, <1>8, <1>9, <1>10, <1>11 DEF LandInv

\* Other imports bank rows without a stamp.
LEMMA OtherImportLand ==
  ASSUME TypeInv, TypeInv', LandInv, OtherImportStep
  PROVE  LandInv'
<1>1. CASE StartUnattended
  BY <1>1, QuietLand DEF StartUnattended, Quiet
<1>2. CASE EndUnattended
  BY <1>2, QuietLand DEF EndUnattended, Quiet
<1>3. ASSUME NEW f \in Folders, LookUp(f) PROVE LandInv'
  BY <1>3, QuietLand DEF LookUp, Quiet
<1>4. ASSUME NEW f \in Folders, BankRow(f) PROVE LandInv'
  <2>1. \A g \in Folders : Quiet(g)
    BY <1>4, BankRowRows DEF Quiet, TypeInv
  <2>q. QED
    BY <1>4, <2>1, QuietLand DEF BankRow
<1>q. QED
  BY <1>1, <1>2, <1>3, <1>4 DEF OtherImportStep

\* Searches and rescans queue nothing and finish nothing.
LEMMA RequestLand ==
  ASSUME TypeInv, TypeInv', LandInv, NEW q \in Requests, RequestStep(q)
  PROVE  LandInv'
<1>1. UNCHANGED <<clock, landings, ending, runner, slot, work>>
  BY DEF RequestStep, BeginRequest, ReadFingerprint, LookUpAgain, GiveUpRequest,
         FlipStale, StoreSearch, StoreRescan
<1>2. ASSUME UNCHANGED rows PROVE LandInv'
  BY <1>1, <1>2, QuietLand DEF Quiet
<1>3. CASE FlipStale(q)
  <2>1. \A f \in Folders : Quiet(f)
    BY <1>3, BlindRows DEF FlipStale, At, Quiet, Edited, HasRow, TypeInv, Shape,
                           Statuses, Recoveries
  <2>q. QED
    BY <1>1, <2>1, QuietLand
<1>4. CASE StoreSearch(q)
  <2>1. \A f \in Folders : Quiet(f)
    BY <1>4, SearchRows DEF Quiet, TypeInv, SEARCHABLE
  <2>q. QED
    BY <1>1, <2>1, QuietLand
<1>5. CASE StoreRescan(q)
  <2>1. \A f \in Folders : Quiet(f)
    BY <1>5, RescanRows DEF Quiet, TypeInv, RESCANNABLE
  <2>q. QED
    BY <1>1, <2>1, QuietLand
<1>q. QED
  BY <1>2, <1>3, <1>4, <1>5
     DEF RequestStep, BeginRequest, ReadFingerprint, LookUpAgain, GiveUpRequest

\* After a restart no row is applying, and none goes back to the queue.
LEMMA RestartLand ==
  ASSUME TypeInv, TypeInv', LandInv, Restart
  PROVE  LandInv'
<1>1. \A f \in Folders : Quiet(f)
  BY RestartRows DEF Quiet, Edited, TypeInv
<1>2. runner'.pc = "idle" /\ slot' = "free"
  BY DEF Restart, NextRow, RunnerIdle
<1>q. QED
  BY <1>1, <1>2, QuietLand DEF Restart

\* Each step of the apply thread keeps a decision to one landing.
LEMMA RunnerLand ==
  ASSUME TypeInv, TypeInv', LandInv, RowsAreReadable, RunnerStep
  PROVE  LandInv'
<1>1. ASSUME NEW f \in Folders, PickNext(f) PROVE LandInv'
  <2>1. runner'.pc = "picked" /\ slot' # "apply"
    BY <1>1 DEF PickNext, RunnerIdle, RunnerAt, TypeInv, Shape
  <2>q. QED
    BY <1>1, <2>1, QuietLand DEF PickNext, Quiet
<1>2. CASE PassGate
  <2>1. runner'.pc = "gated" /\ slot' # "apply"
    BY <1>2 DEF PassGate, To, RunnerAt, TypeInv, TypeOK, Runner
  <2>q. QED
    BY <1>2, <2>1, QuietLand DEF PassGate, Quiet
<1>3. CASE Claim
  BY <1>3, ClaimLand
<1>4. ASSUME Cas("stale", "decide_again") \/ Cas("failed", "fix_folder"),
             NextRow, slot # "apply", Busy,
             UNCHANGED <<clock, landings, ending, slot, work>>
      PROVE  LandInv'
  <2>1. runner.f \in Folders /\ runner'.pc = "idle"
    BY <1>4 DEF TypeInv, Shape, Busy, NextRow, RunnerIdle
  <2>2. \A g \in Folders : Quiet(g)
    BY <1>4, <2>1, CasRows DEF Cas, Quiet, Edited, HasRow, TypeInv, Statuses, Recoveries
  <2>q. QED
    BY <1>4, <2>1, <2>2, QuietLand
<1>5. CASE CheckFolder
  <2>1. /\ Busy /\ runner.pc = "claimed" /\ slot # "apply" /\ runner \in Runner
        /\ UNCHANGED <<clock, landings, ending, slot, work>>
    BY <1>5 DEF CheckFolder, RunnerAt, Busy, TypeInv, TypeOK, Shape
  <2>2. CASE To("checked") /\ UNCHANGED rows
    <3>1. /\ runner'.pc = "checked" /\ runner'.f = runner.f
          /\ runner'.id = runner.id /\ runner'.row = runner.row
      BY <2>1, <2>2 DEF To, Runner
    <3>q. QED
      BY <2>1, <2>2, <3>1, GoOnLand
  <2>q. QED
    BY <1>4, <1>5, <2>1, <2>2 DEF CheckFolder
<1>6. CASE EnforceSkipNew
  <2>1. /\ Busy /\ runner.pc = "checked" /\ slot # "apply" /\ runner.f \in Folders
        /\ UNCHANGED <<clock, landings, ending, slot, work>>
        /\ runner' = RunnerIdle /\ runner.row.decided = "skip_new"
    BY <1>6 DEF EnforceSkipNew, RunnerAt, Busy, TypeInv, Shape, NextRow
  <2>2. \A g \in Folders :
          \/ rows'[g] = rows[g]
          \/ /\ g = runner.f /\ HasRow(g, runner.id) /\ rows[g].status = "applying"
             /\ rows[g] \in Row /\ Edited(rows[g], rows'[g], "done")
    BY <1>6, <2>1, CasRows DEF EnforceSkipNew, Cas, TypeInv, Statuses, Recoveries
  <2>3. MayBeDone(runner.row.decided, ending[runner.row.stamp])
    BY <2>1 DEF LandInv, UnusedInv, MayBeDone
  <2>q. QED
    BY <2>1, <2>2, <2>3, LeaveLand
<1>7. CASE StartImport
  <2>1. /\ runner.pc = "checked" /\ runner \in Runner
        /\ runner'.pc = "running" /\ runner'.f = runner.f
        /\ runner'.id = runner.id /\ runner'.row = runner.row
    BY <1>7 DEF StartImport, RunnerAt, TypeInv, TypeOK, Runner
  <2>q. QED
    BY <1>7, <2>1, GoOnLand DEF StartImport
<1>8. CASE StartRefused
  <2>1. /\ Busy /\ runner.pc = "checked" /\ slot # "apply" /\ runner.f \in Folders
        /\ UNCHANGED <<clock, landings, ending, slot, work>>
        /\ runner' = RunnerIdle /\ NextRow
    BY <1>8 DEF StartRefused, RunnerAt, Busy, TypeInv, Shape, NextRow
  <2>2. CASE Cas("queued", "decide_again")
    <3>1. \A g \in Folders :
            \/ rows'[g] = rows[g]
            \/ /\ g = runner.f /\ HasRow(g, runner.id) /\ rows[g].status = "applying"
               /\ rows[g] \in Row /\ Edited(rows[g], rows'[g], "queued")
      BY <2>1, <2>2, CasRows DEF Cas, TypeInv, Statuses, Recoveries
    <3>2. landings[runner.row.stamp] = 0 /\ ending[runner.row.stamp] = None
      BY <2>1 DEF LandInv, UnusedInv
    <3>q. QED
      BY <2>1, <3>1, <3>2, LeaveLand
  <2>q. QED
    BY <1>4, <1>8, <2>1, <2>2 DEF StartRefused
<1>9. CASE FinishApply
  <2> DEFINE v == Classify(runner.row.decided, work, runner.gone)
  <2>1. /\ Busy /\ runner.pc = "running" /\ slot # "apply" /\ work # None
        /\ UNCHANGED <<clock, landings, ending, slot, work>>
        /\ runner' = RunnerIdle
    BY <1>9 DEF FinishApply, RunnerAt, Busy, NextRow
  <2>2. \A g \in Folders :
          \/ rows'[g] = rows[g]
          \/ /\ g = runner.f /\ HasRow(g, runner.id) /\ rows[g].status = "applying"
             /\ rows[g] \in Row /\ Edited(rows[g], rows'[g], v.status)
    BY <1>9, FinishApplyRows DEF TypeInv
  <2>3. v.status # "queued"
    BY DEF Classify, ClassifyDuplicate, Failed, Done
  <2>4. v.status = "done" => MayBeDone(runner.row.decided, ending[runner.row.stamp])
    <3>1. /\ work \in Outcome /\ runner.gone \in BOOLEAN
          /\ runner.row.decided \in ApplyActions
          /\ ending[runner.row.stamp] = BecameOf(runner.row.decided, work, runner.gone)
          /\ work \in Results(runner.row.decided)
      BY <2>1 DEF TypeInv, TypeOK, Runner, LandInv, StampInv, OwnInv, OwnEnding
    <3>q. QED
      BY <3>1, DoneIsEvidence
  <2> HIDE DEF v
  <2>q. QED
    BY <2>1, <2>2, <2>3, <2>4, LeaveLand
<1>10. CASE FinishUnconfirmed
  <2>1. runner.f \in Folders /\ runner'.pc = "idle" /\ slot' # "apply"
    BY <1>10 DEF TypeInv, Shape, FinishUnconfirmed, RunnerAt, NextRow, RunnerIdle
  <2>2. \A g \in Folders : Quiet(g)
    BY <1>10, <2>1, CasRows
       DEF FinishUnconfirmed, Cas, Quiet, Edited, HasRow, TypeInv, Statuses, Recoveries
  <2>q. QED
    BY <1>10, <2>1, <2>2, QuietLand DEF FinishUnconfirmed
<1>11. CASE RunnerRaises
  <2>1. runner.f \in Folders /\ runner'.pc = "idle" /\ slot' # "apply"
    BY <1>11 DEF TypeInv, Shape, RunnerRaises, NextRow, RunnerIdle
  <2>2. \A g \in Folders : Quiet(g)
    BY <1>11, <2>1, BlindRows
       DEF RunnerRaises, Quiet, Edited, HasRow, TypeInv, Statuses, Recoveries
  <2>q. QED
    BY <1>11, <2>1, <2>2, QuietLand DEF RunnerRaises
<1>q. QED
  BY <1>1, <1>2, <1>3, <1>5, <1>6, <1>7, <1>8, <1>9, <1>10, <1>11 DEF RunnerStep

\* Every step does.
LEMMA NextLand ==
  ASSUME TypeInv, TypeInv', LandInv, RowsAreReadable, [Next]_vars
  PROVE  LandInv'
<1>1. ASSUME NEW f \in Folders, FolderStep(f) PROVE LandInv'
  BY <1>1, QuietLand DEF FolderStep, ChangeFolder, RemoveFolder, Quiet
<1>2. CASE EndImport
  BY <1>2, QuietLand DEF EndImport, Quiet
<1>3. CASE UNCHANGED vars
  BY <1>3, QuietLand DEF vars, Quiet
<1>q. QED
  BY <1>1, <1>2, <1>3, UserLand, OtherImportLand, RunnerLand, RunImportLand,
     RequestLand, RestartLand
     DEF Next

-----------------------------------------------------------------------------
(* The theorems.                                                           *)

\* The inductive invariant.
IInv == TypeInv /\ RowsAreReadable /\ CurrentInv /\ LandInv

\* The invariant holds at the start.
LEMMA InitIInv == Init => IInv
<1> SUFFICES ASSUME Init PROVE IInv
  OBVIOUS
<1>1. TypeInv
  BY InitTypeInv
<1>2. Stored = {}
  BY DEF Init, Stored
<1>3. RowsAreReadable
  BY <1>2 DEF RowsAreReadable
<1>4. CurrentInv
  BY <1>2 DEF Init, CurrentInv, RescanIsCurrent, PayloadIsNotOlder, RequestIdle
<1>q. QED
  BY <1>1, <1>3, <1>4, InitLand DEF IInv

\* Every step preserves the invariant.
LEMMA NextIInv == IInv /\ [Next]_vars => IInv'
<1> SUFFICES ASSUME IInv, [Next]_vars PROVE IInv'
  OBVIOUS
<1>1. TypeInv'
  BY NextTypeInv DEF IInv
<1>q. QED
  BY <1>1, NextReadable, NextCurrent, NextLand DEF IInv

\* The inductive invariant holds of every behaviour of the bank.
THEOREM Invariant == Spec => []IInv
BY InitIInv, NextIInv, PTL DEF Spec

\* Every variable of the bank keeps its type.
THEOREM TypesHold == Spec => []TypeOK
<1>1. IInv => TypeOK
  BY DEF IInv, TypeInv
<1>q. QED
  BY <1>1, Invariant, PTL

\* No writer leaves a row models/bank.py refuses to read back, whatever the
\* searches, rescans, re-banks and the thread's blind writes interleave.
THEOREM RowsStayReadable == Spec => []RowsAreReadable
<1>1. IInv => RowsAreReadable
  BY DEF IInv
<1>q. QED
  BY <1>1, Invariant, PTL

\* A decision puts its album in the library at most once, over requeues,
\* faults and restarts.
THEOREM DecisionsLandOnce == Spec => []DecisionLandsOnce
<1>1. IInv => DecisionLandsOnce
  BY DEF IInv, LandInv
<1>q. QED
  BY <1>1, Invariant, PTL

\* A row reads done only with the evidence apply_runner._classify asks for.
THEOREM DoneMeansKept == Spec => []DoneIsKept
<1>1. IInv => DoneIsKept
  BY DEF IInv, LandInv
<1>q. QED
  BY <1>1, Invariant, PTL

\* Candidates a rescan stored are never older than their fingerprint.
THEOREM RescansAreCurrent == Spec => []RescanIsCurrent
<1>1. IInv => RescanIsCurrent
  BY DEF IInv, CurrentInv
<1>q. QED
  BY <1>1, Invariant, PTL

-----------------------------------------------------------------------------
(* Stale says that nothing was imported, unless a search flipped the row,  *)
(* whatever had become of it meanwhile.                                    *)

\* The decision the thread works on is of no stale row, but a flipped one.
OwnIsNotStale ==
  Busy => \A f \in Stored : rows[f].stamp = runner.row.stamp /\ rows[f].status = "stale"
                             => rows[f].stamp \in flipped

StaleInv == OwnIsNotStale /\ StaleMeansNotImported

\* The row stays stale, or the thread gives up on it before its import, or a
\* search flips it.
StillStale(f) ==
  rows[f] # None /\ rows[f].status = "stale" /\ rows'[f].stamp = rows[f].stamp
GivenUp(f) ==
  /\ runner.pc \in {"claimed", "checked"} /\ runner' = RunnerIdle
  /\ f = runner.f /\ HasRow(f, runner.id) /\ rows[f].status = "applying"
  /\ rows'[f].stamp = rows[f].stamp
BecomesStale(f) ==
  rows'[f] # None /\ rows'[f].status = "stale"
    => StillStale(f) \/ GivenUp(f) \/ rows'[f].stamp \in flipped'

\* A compare and set of the thread makes stale only the row it gives up on.
LEMMA CasStale ==
  ASSUME TypeInv, runner.f \in Folders,
         NEW status \in Statuses, NEW recovery \in Recoveries, Cas(status, recovery),
         status = "stale" => runner.pc \in {"claimed", "checked"}, NextRow
  PROVE  \A f \in Folders : BecomesStale(f)
<1>1. ASSUME NEW f \in Folders PROVE BecomesStale(f)
  <2>1. \/ rows'[f] = rows[f]
        \/ /\ f = runner.f /\ HasRow(f, runner.id) /\ rows[f].status = "applying"
           /\ rows[f] \in Row /\ Edited(rows[f], rows'[f], status)
    BY CasRows DEF TypeInv, Cas
  <2>2. CASE rows'[f] = rows[f]
    BY <2>2 DEF BecomesStale, StillStale
  <2>3. CASE /\ f = runner.f /\ HasRow(f, runner.id) /\ rows[f].status = "applying"
             /\ Edited(rows[f], rows'[f], status)
    <3>1. rows'[f].status = status /\ rows'[f].stamp = rows[f].stamp
      BY <2>3 DEF Edited
    <3>q. QED
      BY <2>3, <3>1 DEF BecomesStale, GivenUp, NextRow
  <2>q. QED
    BY <2>1, <2>2, <2>3
<1>q. QED
  BY <1>1

\* The blind failure makes nothing stale.
LEMMA BlindStale ==
  ASSUME TypeInv, runner.f \in Folders,
         BlindStatus(runner.f, runner.id, "failed", "decide_again")
  PROVE  \A f \in Folders : BecomesStale(f)
<1>1. "failed" \in Statuses /\ "decide_again" \in Recoveries
  BY DEF Statuses, Recoveries
<1>2. ASSUME NEW f \in Folders PROVE BecomesStale(f)
  <2>1. \/ rows'[f] = rows[f]
        \/ /\ f = runner.f /\ HasRow(f, runner.id)
           /\ rows[f] \in Row /\ Edited(rows[f], rows'[f], "failed")
    BY <1>1, BlindRows DEF TypeInv
  <2>q. QED
    BY <2>1 DEF BecomesStale, StillStale, Edited
<1>q. QED
  BY <1>2

\* Only the thread makes a row stale, and only before its import.
LEMMA RunnerStale ==
  ASSUME TypeInv, RunnerStep, NEW f \in Folders
  PROVE  BecomesStale(f)
<1>1. UNCHANGED rows => BecomesStale(f)
  BY DEF BecomesStale, StillStale
<1>2. /\ "decide_again" \in Recoveries /\ "fix_folder" \in Recoveries
      /\ "stale" \in Statuses /\ "failed" \in Statuses /\ "queued" \in Statuses
      /\ "done" \in Statuses
  BY DEF Recoveries, Statuses
<1>3. runner.pc # "idle" => runner.f \in Folders
  BY DEF TypeInv, Shape
<1>4. CASE Claim
  BY <1>4, ClaimRows DEF BecomesStale, StillStale, TypeInv, Edited
<1>5. CASE CheckFolder
  BY <1>1, <1>2, <1>3, <1>5, CasStale DEF CheckFolder, RunnerAt
<1>6. CASE EnforceSkipNew
  BY <1>1, <1>2, <1>3, <1>6, CasStale DEF EnforceSkipNew, RunnerAt
<1>7. CASE StartRefused
  BY <1>1, <1>2, <1>3, <1>7, CasStale DEF StartRefused, RunnerAt
<1>8. CASE FinishUnconfirmed
  BY <1>1, <1>2, <1>3, <1>8, CasStale DEF FinishUnconfirmed, RunnerAt
<1>9. CASE FinishApply
  <2>1. Classify(runner.row.decided, work, runner.gone).status \in {"failed", "done"}
    BY DEF Classify, ClassifyDuplicate, Failed, Done
  <2>q. QED
    BY <1>9, <2>1, FinishApplyRows DEF BecomesStale, StillStale, TypeInv, Edited
<1>10. CASE RunnerRaises
  BY <1>1, <1>3, <1>10, BlindStale DEF RunnerRaises
<1>q. QED
  BY <1>1, <1>4, <1>5, <1>6, <1>7, <1>8, <1>9, <1>10
     DEF RunnerStep, PickNext, PassGate, StartImport

\* So it is for every step; a search's flip is remembered.
LEMMA NextStale ==
  ASSUME TypeInv, [Next]_vars, NEW f \in Folders
  PROVE  BecomesStale(f)
<1>1. UNCHANGED rows => BecomesStale(f)
  BY DEF BecomesStale, StillStale
<1>2. ASSUME NEW g \in Folders, UserStep(g) PROVE BecomesStale(f)
  <2>1. ASSUME NEW action \in Actions, Decide(g, action) PROVE BecomesStale(f)
    BY <2>1, DecideRows DEF BecomesStale, StillStale, TypeInv
  <2>2. CASE Ignore(g)
    BY <2>2, IgnoreRows DEF BecomesStale, StillStale, TypeInv, Edited
  <2>3. CASE Delete(g)
    BY <2>3 DEF Delete, BecomesStale, StillStale, TypeInv, TypeOK
  <2>q. QED
    BY <1>2, <2>1, <2>2, <2>3 DEF UserStep
<1>3. ASSUME NEW g \in Folders, BankRow(g) PROVE BecomesStale(f)
  BY <1>3, BankRowRows DEF BecomesStale, StillStale, TypeInv
<1>4. CASE Restart
  BY <1>4, RestartRows DEF BecomesStale, StillStale, TypeInv, Edited
<1>5. ASSUME NEW q \in Requests, RequestStep(q) PROVE BecomesStale(f)
  <2>1. CASE FlipStale(q)
    <3>1. /\ requests[q].f \in Folders /\ requests[q].id \in Nat
          /\ BlindStatus(requests[q].f, requests[q].id, "stale", "decide_again")
          /\ flipped' = flipped \cup IF TargetThere(q) THEN {Target(q).stamp} ELSE {}
          /\ "stale" \in Statuses /\ "decide_again" \in Recoveries
      BY <2>1 DEF FlipStale, At, TypeInv, TypeOK, Request, Shape, Statuses, Recoveries
    <3>2. \/ rows'[f] = rows[f]
          \/ /\ f = requests[q].f /\ HasRow(f, requests[q].id)
             /\ rows[f] \in Row /\ Edited(rows[f], rows'[f], "stale")
      BY <3>1, BlindRows DEF TypeInv
    <3>q. QED
      BY <1>1, <3>1, <3>2 DEF BecomesStale, StillStale, Edited, TargetThere, Target
  <2>3. CASE StoreSearch(q)
    BY <2>3, SearchRows DEF BecomesStale, StillStale, TypeInv
  <2>2. CASE StoreRescan(q)
    BY <2>2, RescanRows DEF BecomesStale, StillStale, TypeInv
  <2>q. QED
    BY <1>1, <1>5, <2>1, <2>2, <2>3
       DEF RequestStep, BeginRequest, ReadFingerprint, LookUpAgain, GiveUpRequest
<1>q. QED
  BY <1>1, <1>2, <1>3, <1>4, <1>5, RunnerStale
     DEF Next, vars, FolderStep, ChangeFolder, RemoveFolder,
         OtherImportStep, StartUnattended, EndUnattended, LookUp, RunImport, EndImport

\* The thread works on the decision it worked on, or has just claimed it.
LEMMA BusyGoesOn ==
  ASSUME TypeInv, [Next]_vars, Busy'
  PROVE  \/ Busy /\ runner'.row = runner.row
         \/ Claim /\ HasRow(runner.f, runner.id) /\ rows[runner.f].status = "queued"
                  /\ runner.f \in Folders /\ runner'.row = rows[runner.f]
<1>1. runner \in Runner
  BY DEF TypeInv, TypeOK
<1>2. CASE Claim
  <2>1. CASE runner' = RunnerIdle
    BY <2>1 DEF Busy, RunnerIdle
  <2>2. CASE runner' = [runner EXCEPT !.pc = "claimed", !.row = rows[runner.f]]
    <3>1. runner'.row = rows[runner.f]
      BY <1>1, <2>2 DEF Runner
    <3>2. runner' # RunnerIdle
      BY <1>1, <2>2 DEF Runner, RunnerIdle
    <3>q. QED
      BY <1>2, <3>1, <3>2, ClaimRows DEF TypeInv
  <2>q. QED
    BY <1>2, <2>1, <2>2, ClaimRows DEF TypeInv
<1>3. CASE CheckFolder
  BY <1>1, <1>3 DEF CheckFolder, RunnerAt, Busy, To, NextRow, RunnerIdle, Runner
<1>4. CASE StartImport
  BY <1>1, <1>4 DEF StartImport, RunnerAt, Busy, Runner
<1>5. CASE runner' = runner
  BY <1>5 DEF Busy
<1>6. CASE runner'.pc \in {"idle", "picked", "gated"}
  BY <1>6 DEF Busy
<1>7. ASSUME NEW f \in Folders, PickNext(f) PROVE runner'.pc = "picked"
  BY <1>7 DEF PickNext, RunnerIdle
<1>8. CASE PassGate
  BY <1>1, <1>8 DEF PassGate, To, Busy, Runner
<1>9. ASSUME runner' = RunnerIdle PROVE runner'.pc = "idle"
  BY <1>9 DEF RunnerIdle
<1>10. CASE RunnerStep
  BY <1>2, <1>3, <1>4, <1>6, <1>7, <1>8, <1>9, <1>10 DEF RunnerStep, EnforceSkipNew,
     StartRefused, FinishApply, FinishUnconfirmed, RunnerRaises, NextRow
<1>11. CASE Restart
  BY <1>6, <1>9, <1>11 DEF Restart, NextRow
<1>q. QED
  BY <1>5, <1>10, <1>11 DEF Next, vars, FolderStep, ChangeFolder, RemoveFolder, UserStep, Decide,
     Ignore, Delete, OtherImportStep, StartUnattended, EndUnattended, LookUp, BankRow,
     RunImport, EndImport, RequestStep, BeginRequest, ReadFingerprint, LookUpAgain,
     GiveUpRequest, FlipStale, StoreSearch, StoreRescan

\* Only an import lands, and only the decision the thread works on.
LEMMA LandingsMove ==
  ASSUME TypeInv, [Next]_vars
  PROVE  \/ landings' = landings
         \/ /\ RunImport /\ Busy
            /\ \A n \in 1..MaxStamp : n # runner.row.stamp => landings'[n] = landings[n]
<1>1. CASE RunImport
  BY <1>1 DEF RunImport, TypeInv, TypeOK, Shape, Busy
<1>q. QED
  BY <1>1 DEF Next, vars, FolderStep, ChangeFolder, RemoveFolder, UserStep, Decide,
     Ignore, Delete, OtherImportStep, StartUnattended, EndUnattended, LookUp, BankRow,
     RunnerStep, PickNext, PassGate, Claim, CheckFolder, EnforceSkipNew, StartImport,
     StartRefused, FinishApply, FinishUnconfirmed, RunnerRaises, EndImport, Restart,
     RequestStep, BeginRequest, ReadFingerprint, LookUpAgain,
     GiveUpRequest, FlipStale, StoreSearch, StoreRescan, importVars

\* No step forgets a flip.
LEMMA FlipsStay ==
  ASSUME [Next]_vars
  PROVE  flipped \subseteq flipped'
BY DEF Next, vars, FolderStep, ChangeFolder, RemoveFolder, UserStep, Decide,
     Ignore, Delete, OtherImportStep, StartUnattended, EndUnattended, LookUp, BankRow,
     RunnerStep, PickNext, PassGate, Claim, CheckFolder, EnforceSkipNew, StartImport,
     StartRefused, FinishApply, FinishUnconfirmed, RunnerRaises, RunImport, EndImport,
     Restart, RequestStep, BeginRequest, ReadFingerprint, LookUpAgain,
     GiveUpRequest, FlipStale, StoreSearch, StoreRescan, apiVars

\* Every step keeps what stale says.
LEMMA NextStaleInv ==
  ASSUME IInv, StaleInv, [Next]_vars
  PROVE  StaleInv'
<1>1. TypeInv /\ LandInv /\ flipped \subseteq flipped'
  BY FlipsStay DEF IInv
<1>2. OwnIsNotStale'
  <2>1. SUFFICES ASSUME Busy', NEW f \in Folders, rows'[f] # None, rows'[f].status = "stale",
                        rows'[f].stamp = runner'.row.stamp, rows'[f].stamp \notin flipped'
                 PROVE  FALSE
    BY DEF OwnIsNotStale, Stored
  <2>2. StillStale(f)
    BY <1>1, <2>1, NextStale DEF BecomesStale, GivenUp, Busy, RunnerIdle
  <2>3. CASE Busy /\ runner'.row = runner.row
    BY <1>1, <2>1, <2>2, <2>3 DEF StaleInv, OwnIsNotStale, StillStale, Stored
  <2>4. CASE /\ HasRow(runner.f, runner.id) /\ rows[runner.f].status = "queued"
             /\ runner.f \in Folders /\ runner'.row = rows[runner.f]
    <3>1. /\ runner.f \in Stored /\ f \in Stored /\ rows[f].stamp = rows[runner.f].stamp
          /\ rows[runner.f].stamp \in 1..clock
      BY <1>1, <2>1, <2>2, <2>4 DEF StillStale, Stored, HasRow, LandInv, StampInv
    <3>2. f = runner.f
      BY <1>1, <3>1 DEF LandInv, StampInv
    <3>q. QED
      BY <2>2, <2>4, <3>2 DEF StillStale
  <2>q. QED
    BY <1>1, <2>1, <2>3, <2>4, BusyGoesOn
<1>3. StaleMeansNotImported'
  <2>1. SUFFICES ASSUME NEW f \in Folders, rows'[f] # None, rows'[f].status = "stale",
                        rows'[f].stamp # 0, rows'[f].stamp \notin flipped'
                 PROVE  landings'[rows'[f].stamp] = 0
    BY DEF StaleMeansNotImported, Stored
  <2>2. CASE StillStale(f)
    <3>1. /\ f \in Stored /\ rows'[f].stamp = rows[f].stamp
          /\ rows[f].status = "stale" /\ rows[f].stamp \notin flipped
      BY <1>1, <2>1, <2>2 DEF StillStale, Stored
    <3>a. landings[rows[f].stamp] = 0
      BY <2>1, <3>1 DEF StaleInv, StaleMeansNotImported
    <3>2. rows[f].stamp \in 1..MaxStamp
      BY <1>1, <2>1, <3>1 DEF LandInv, StampInv, TypeInv, TypeOK, Row, Stored
    <3>3. Busy => rows[f].stamp # runner.row.stamp
      BY <3>1 DEF StaleInv, OwnIsNotStale
    <3>q. QED
      BY <1>1, <3>1, <3>a, <3>2, <3>3, LandingsMove
  <2>3. CASE GivenUp(f)
    <3>1. landings[runner.row.stamp] = 0 /\ rows'[f].stamp = runner.row.stamp
      BY <1>1, <2>3 DEF GivenUp, LandInv, UnusedInv, OwnInv, OwnRow, Busy
    <3>2. ~RunImport
      BY <1>1, <2>3 DEF GivenUp, RunImport, TypeInv, Shape
    <3>q. QED
      BY <1>1, <3>1, <3>2, LandingsMove
  <2>q. QED
    BY <1>1, <2>1, <2>2, <2>3, NextStale DEF BecomesStale
<1>q. QED
  BY <1>2, <1>3 DEF StaleInv

\* A row whose decision put its album in the library never reads stale, unless
\* a search flipped it (api/bank.py:196-206); what the thread calls stale has
\* imported nothing (apply_runner.py:59-62).
THEOREM StaleSaysNotImported == Spec => []StaleMeansNotImported
<1>1. Init => StaleInv
  BY DEF Init, StaleInv, OwnIsNotStale, StaleMeansNotImported, Stored, RunnerIdle, Busy
<1>2. IInv /\ StaleInv /\ [Next]_vars => StaleInv'
  BY NextStaleInv
<1>3. StaleInv => StaleMeansNotImported
  BY DEF StaleInv
<1>q. QED
  BY <1>1, <1>2, <1>3, Invariant, PTL DEF Spec

=============================================================================
