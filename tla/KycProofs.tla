------------------------------ MODULE KycProofs ----------------------------
(***************************************************************************)
(* For any number of users, submissions, reviewers and faults: a record    *)
(* points at stored documents, and second decisions and the end of a       *)
(* verification need handlers that overlapped.                             *)
(***************************************************************************)
EXTENDS KycService, TLAPS

Verdicts == {"VERIFIED", "REJECTED"}

Front(u) == kycRecord[u].docs["idDocFront"]

HasRow(u) == kycRecord[u] # KycNoRow

\* What a request that runs is about.
UserInv ==
  /\ \A q \in KycRequests : kycPc[q] \in KycRunning \cup {"failed"} => kycUser[q] \in KycUsers
  /\ \A r \in KycReviews :
       /\ kycPc[r] \in {"decide", "emit"} => kycVerdict[r] \in Verdicts
       /\ kycPc[r] = "decide" => HasRow(kycUser[r])
       /\ kycPc[r] \notin {"store", "upsert"}
  /\ \A s \in KycSubmissions : kycPc[s] \notin {"decide", "emit"}

StoredInv == \A s \in KycSubmissions : kycPc[s] = "upsert" => KycAllStored(s, kycDocs)

\* A record is that of a submission which is over.
RecordInv == \A u \in KycUsers : HasRow(u) =>
  /\ Front(u) \in KycSubmissions
  /\ kycPc[Front(u)] = "ok" /\ kycUser[Front(u)] = u
  /\ \A k \in KycKinds : kycRecord[u].docs[k] = Front(u) /\ <<Front(u), k>> \in kycDocs

\* A submission that was decided is over, and not pending.
DecidedInv == \A d \in kycDecided :
  /\ kycPc[d.about] = "ok"
  /\ \A u \in KycUsers : HasRow(u) /\ Front(u) = d.about => kycRecord[u].status # "PENDING"

MetInv ==
  /\ \A q, r \in KycReviews :
       kycPc[q] = "decide" /\ kycPc[r] = "decide" /\ q # r => {q, r} \in kycMet
  /\ \A d \in kycDecided, r \in KycReviews :
       /\ kycPc[r] = "decide" /\ kycUser[r] \in KycUsers /\ HasRow(kycUser[r])
       /\ Front(kycUser[r]) = d.about /\ d.by # r
       => {d.by, r} \in kycMet
  /\ SecondDecisionOverlaps

\* A request that has read the last version of a record knows its status.
ReadInv == \A q \in KycRequests : kycPc[q] \in {"store", "upsert", "decide"} =>
  LET u == kycUser[q] IN
  /\ kycRead[q] <= kycWrites[u]
  /\ kycRead[q] = kycWrites[u] =>
       IF kycPc[q] = "decide" THEN kycRecord[u].status = "PENDING"
       ELSE kycRecord[u].status \notin {"PENDING", "VERIFIED"}

KycInv == KycTypeOK /\ UserInv /\ StoredInv /\ RecordInv /\ DecidedInv /\ MetInv /\ ReadInv

-----------------------------------------------------------------------------

\* A row has a status; "absent" is none.
LEMMA RowIsThere ==
  ASSUME KycTypeOK, NEW u \in KycUsers
  PROVE  /\ HasRow(u) <=> kycRecord[u] \in KycRow
         /\ HasRow(u) <=> kycRecord[u].status # "absent"
         /\ HasRow(u) <=> kycRecord[u].status \in KycStatus
BY DEF KycTypeOK, HasRow, KycRow, KycNoRow, KycStatus

LEMMA KycStart == KycInit => KycInv
<1> SUFFICES ASSUME KycInit PROVE KycInv
  OBVIOUS
<1> USE KycAssumption DEF KycInit, KycRequests
<1>1. KycTypeOK
  BY DEF KycTypeOK
<1>2. UserInv /\ StoredInv /\ ReadInv
  BY DEF UserInv, StoredInv, ReadInv, KycRunning
<1>3. RecordInv /\ DecidedInv
  BY DEF RecordInv, DecidedInv, HasRow
<1>4. MetInv
  BY DEF MetInv, SecondDecisionOverlaps
<1> QED BY <1>1, <1>2, <1>3, <1>4 DEF KycInv

\* Steps that write neither records nor decisions, and after which request q
\* reads nothing new.
LEMMA QuietKeeps ==
  ASSUME KycInv, NEW q \in KycRequests,
         UNCHANGED <<kycRecord, kycUser, kycVerdict, kycWrites, kycRead, kycDecided, kycMet>>,
         kycDocs \subseteq kycDocs',
         \A p \in KycRequests \ {q} : kycPc'[p] = kycPc[p],
         kycPc[q] # "ok",
         kycPc'[q] \notin {"store", "upsert", "decide", "emit"}
           \/ (q \in KycSubmissions /\ kycPc[q] = "store" /\ kycPc'[q] = "store")
           \/ (q \in KycSubmissions /\ kycPc[q] = "store" /\ kycPc'[q] = "upsert"
                /\ KycAllStored(q, kycDocs')),
         kycPc'[q] = "failed" => kycPc[q] \in {"store", "failed"}
  PROVE  UserInv' /\ StoredInv' /\ RecordInv' /\ DecidedInv' /\ MetInv' /\ ReadInv'
<1> USE KycAssumption DEF KycInv, KycRequests
<1>1. UserInv'
  BY DEF UserInv, KycRunning, HasRow
<1>2. StoredInv'
  BY DEF StoredInv, KycAllStored, UserInv
<1>3. RecordInv'
  <2> SUFFICES ASSUME NEW u \in KycUsers, HasRow(u)
               PROVE  /\ Front(u) \in KycSubmissions
                      /\ kycPc'[Front(u)] = "ok" /\ kycUser[Front(u)] = u
                      /\ \A k \in KycKinds :
                           kycRecord[u].docs[k] = Front(u) /\ <<Front(u), k>> \in kycDocs'
    BY DEF RecordInv, HasRow, Front
  <2> QED BY DEF RecordInv
<1>4. DecidedInv'
  BY DEF DecidedInv, HasRow, Front, KycTypeOK
<1>5. MetInv'
  BY DEF MetInv, HasRow, Front, SecondDecisionOverlaps
<1>6. ReadInv'
  BY DEF ReadInv
<1> QED BY <1>1, <1>2, <1>3, <1>4, <1>5, <1>6

-----------------------------------------------------------------------------
(* submitKyc *)

LEMMA SubmitKeeps ==
  ASSUME KycInv, NEW s \in KycSubmissions, NEW u \in KycUsers, KycSubmit(s, u) PROVE KycInv'
<1> USE KycAssumption DEF KycInv, KycRequests, KycSubmit, KycGoto
<1>1. KycTypeOK'
  BY DEF KycTypeOK, KycRunning, KycFinal
<1>2. /\ \A p \in KycRequests \ {s} :
           kycPc'[p] = kycPc[p] /\ kycUser'[p] = kycUser[p] /\ kycRead'[p] = kycRead[p]
      /\ kycPc[s] = "idle" /\ kycUser'[s] = u /\ kycRead'[s] = kycWrites[u]
      /\ kycPc'[s] \in {"conflict", "store"}
      /\ kycPc'[s] = "store" => ~ KycBlocks(kycRecord[u].status)
  BY DEF KycTypeOK
<1>3. UserInv' /\ StoredInv'
  BY <1>2 DEF UserInv, StoredInv, KycRunning, HasRow
<1>4. RecordInv'
  BY <1>2 DEF RecordInv, HasRow, Front
<1>5. DecidedInv'
  BY <1>2 DEF DecidedInv, HasRow, Front, KycTypeOK
<1>6. MetInv'
  BY <1>2 DEF MetInv, HasRow, Front, SecondDecisionOverlaps
<1>7. ReadInv'
  BY <1>2 DEF ReadInv, KycBlocks, KycTypeOK
<1> QED BY <1>1, <1>3, <1>4, <1>5, <1>6, <1>7

LEMMA StoreDocumentKeeps ==
  ASSUME KycInv, NEW s \in KycSubmissions, NEW k \in KycKinds, KycStoreDocument(s, k) PROVE KycInv'
<1> USE KycAssumption DEF KycInv, KycRequests
<1>1. KycTypeOK'
  BY DEF KycStoreDocument, KycGoto, KycTypeOK, KycRunning, KycFinal
<1>2. /\ \A p \in KycRequests \ {s} : kycPc'[p] = kycPc[p]
      /\ kycPc[s] \in {"store", "failed"}
      /\ kycPc'[s] = IF kycPc[s] = "store" /\ KycAllStored(s, kycDocs') THEN "upsert" ELSE kycPc[s]
      /\ kycDocs \subseteq kycDocs'
  BY DEF KycStoreDocument, KycGoto, KycTypeOK
<1>3. UserInv' /\ StoredInv' /\ RecordInv' /\ DecidedInv' /\ MetInv' /\ ReadInv'
  BY <1>2, QuietKeeps DEF KycStoreDocument
<1> QED BY <1>1, <1>3

LEMMA RefuseDocumentKeeps ==
  ASSUME KycInv, NEW s \in KycSubmissions, NEW k \in KycKinds, KycRefuseDocument(s, k) PROVE KycInv'
<1> USE KycAssumption DEF KycInv, KycRequests
<1>1. KycTypeOK'
  BY DEF KycRefuseDocument, KycGoto, KycTypeOK, KycRunning, KycFinal
<1>2. /\ \A p \in KycRequests \ {s} : kycPc'[p] = kycPc[p]
      /\ kycPc[s] = "store" /\ kycPc'[s] = "failed"
  BY DEF KycRefuseDocument, KycGoto, KycTypeOK
<1>3. UserInv' /\ StoredInv' /\ RecordInv' /\ DecidedInv' /\ MetInv' /\ ReadInv'
  BY <1>2, QuietKeeps DEF KycRefuseDocument
<1> QED BY <1>1, <1>3

LEMMA UpsertKeeps == ASSUME KycInv, NEW s \in KycSubmissions, KycUpsert(s) PROVE KycInv'
<1> USE KycAssumption DEF KycInv, KycRequests, KycUpsert, KycGoto
<1> DEFINE u == kycUser[s]
<1>1. u \in KycUsers /\ kycPc[s] = "upsert" /\ KycAllStored(s, kycDocs)
  BY DEF UserInv, StoredInv, KycRunning
<1>2. /\ \A p \in KycRequests \ {s} : kycPc'[p] = kycPc[p]
      /\ kycPc'[s] = "ok"
      /\ \A v \in KycUsers \ {u} : kycRecord'[v] = kycRecord[v] /\ kycWrites'[v] = kycWrites[v]
      /\ kycWrites'[u] = kycWrites[u] + 1
      /\ kycRecord'[u].status = "PENDING"
      /\ kycRecord'[u].docs = [k \in KycKinds |-> s]
      /\ kycRecord'[u] \in KycRow
  BY <1>1, RowIsThere DEF KycTypeOK, KycRow, KycStatus, HasRow
<1>3. KycTypeOK'
  BY <1>1, <1>2 DEF KycTypeOK, KycFinal
<1>4. /\ HasRow(u)' /\ Front(u)' = s
      /\ \A v \in KycUsers \ {u} : (HasRow(v)' <=> HasRow(v)) /\ Front(v)' = Front(v)
  BY <1>1, <1>2, RowIsThere, <1>3 DEF HasRow, Front, KycKinds, KycNoRow
<1>5. UserInv' /\ StoredInv'
  BY <1>1, <1>2, <1>4 DEF UserInv, StoredInv, KycRunning
<1>6. RecordInv'
  BY <1>1, <1>2, <1>4 DEF RecordInv, KycAllStored
<1>7. \A d \in kycDecided : d.about # s
  BY <1>1 DEF DecidedInv
<1>8. DecidedInv'
  BY <1>2, <1>4, <1>7 DEF DecidedInv, KycTypeOK
<1>9. MetInv'
  <2>1. \A r \in KycReviews : kycPc'[r] = kycPc[r]
    BY <1>2
  <2> QED BY <2>1, <1>4, <1>7 DEF MetInv, SecondDecisionOverlaps
<1>10. ReadInv'
  BY <1>1, <1>2 DEF ReadInv, UserInv, KycRunning, KycTypeOK
<1> QED BY <1>3, <1>5, <1>6, <1>8, <1>9, <1>10

-----------------------------------------------------------------------------
(* reviewKyc *)

LEMMA ReadForReviewKeeps ==
  ASSUME KycInv, NEW r \in KycReviews, NEW u \in KycUsers, NEW v \in Verdicts,
         KycReadForReview(r, u, v)
  PROVE  KycInv'
<1> USE KycAssumption DEF KycInv, KycRequests, KycReadForReview, KycGoto
<1>1. KycTypeOK'
  BY DEF KycTypeOK, KycRunning, KycFinal, Verdicts
<1>2. /\ \A p \in KycRequests \ {r} :
           kycPc'[p] = kycPc[p] /\ kycUser'[p] = kycUser[p] /\ kycRead'[p] = kycRead[p]
      /\ \A p \in KycReviews \ {r} : kycVerdict'[p] = kycVerdict[p]
      /\ kycPc[r] = "idle" /\ kycUser'[r] = u /\ kycRead'[r] = kycWrites[u]
      /\ kycPc'[r] \in {"notFound", "decide", "notPending"}
      /\ kycPc'[r] = "decide" =>
           HasRow(u) /\ kycRecord[u].status = "PENDING" /\ kycVerdict'[r] \in Verdicts
      /\ kycMet \subseteq kycMet'
      /\ kycPc'[r] = "decide" =>
           \A q \in KycReviews : kycPc[q] = "decide" => {r, q} \in kycMet' /\ {q, r} \in kycMet'
  <2>1. \A q \in KycReviews : {r, q} = {q, r}
    OBVIOUS
  <2>2. kycPc[r] = "idle" /\ kycMet \subseteq kycMet'
    OBVIOUS
  <2>3. kycPc'[r] = "decide" =>
          \A q \in KycReviews : kycPc[q] = "decide" => {r, q} \in kycMet' /\ {q, r} \in kycMet'
    BY <2>1 DEF KycTypeOK
  <2> QED BY <2>2, <2>3 DEF KycTypeOK, HasRow, KycReviewable
<1>3. UserInv' /\ StoredInv'
  BY <1>2 DEF UserInv, StoredInv, KycRunning, HasRow
<1>4. RecordInv'
  BY <1>2 DEF RecordInv, HasRow, Front
<1>5. DecidedInv'
  BY <1>2 DEF DecidedInv, HasRow, Front, KycTypeOK
<1>6. MetInv'
  <2>1. ASSUME NEW p \in KycReviews, NEW q \in KycReviews,
               kycPc'[p] = "decide", kycPc'[q] = "decide", p # q
        PROVE  {p, q} \in kycMet'
    BY <2>1, <1>2 DEF MetInv
  <2>2. ASSUME NEW d \in kycDecided, NEW q \in KycReviews, kycPc'[q] = "decide",
               kycUser'[q] \in KycUsers, HasRow(kycUser'[q]), Front(kycUser'[q]) = d.about, d.by # q
        PROVE  {d.by, q} \in kycMet'
    <3>1. q # r
      BY <2>2, <1>2 DEF DecidedInv
    <3> QED BY <3>1, <2>2, <1>2 DEF MetInv
  <2>3. SecondDecisionOverlaps'
    BY <1>2 DEF MetInv, SecondDecisionOverlaps
  <2> QED BY <2>1, <2>2, <2>3 DEF MetInv, HasRow, Front
<1>7. ReadInv'
  BY <1>2 DEF ReadInv, KycTypeOK
<1> QED BY <1>1, <1>3, <1>4, <1>5, <1>6, <1>7

LEMMA DecideKeeps == ASSUME KycInv, NEW r \in KycReviews, KycDecide(r) PROVE KycInv'
<1> USE KycAssumption DEF KycInv, KycRequests, KycDecide, KycGoto
<1>1. PICK u \in KycUsers, s \in KycSubmissions :
        /\ u = kycUser[r] /\ s = Front(u)
        /\ kycPc[r] = "decide" /\ HasRow(u) /\ kycVerdict[r] \in Verdicts
        /\ kycRecord[u] \in KycRow
        /\ kycPc[s] = "ok" /\ kycUser[s] = u
  BY RowIsThere DEF UserInv, KycRunning, RecordInv
<1> DEFINE new == [by |-> r, about |-> s]
<1>2. /\ \A p \in KycRequests \ {r} : kycPc'[p] = kycPc[p]
      /\ kycPc'[r] = "emit"
      /\ \A v \in KycUsers \ {u} : kycRecord'[v] = kycRecord[v] /\ kycWrites'[v] = kycWrites[v]
      /\ kycWrites'[u] = kycWrites[u] + 1
      /\ kycRecord'[u].status = kycVerdict[r]
      /\ kycRecord'[u].docs = kycRecord[u].docs
      /\ kycRecord'[u] \in KycRow
      /\ kycDecided' = kycDecided \cup {new}
  BY <1>1 DEF KycTypeOK, KycRow, KycStatus, Verdicts, Front
<1>3. KycTypeOK'
  BY <1>1, <1>2 DEF KycTypeOK, KycRunning
<1>4. /\ HasRow(u)' /\ Front(u)' = s
      /\ \A v \in KycUsers \ {u} : (HasRow(v)' <=> HasRow(v)) /\ Front(v)' = Front(v)
  <2>1. kycRecord'[u].status # "absent"
    BY <1>1, <1>2 DEF Verdicts
  <2>2. HasRow(u)'
    BY <2>1 DEF HasRow, KycNoRow
  <2> QED BY <1>1, <1>2, <2>2 DEF HasRow, Front
<1>5. \A v \in KycUsers : HasRow(v) /\ Front(v) = s => v = u
  BY <1>1 DEF RecordInv
<1>6. UserInv' /\ StoredInv'
  BY <1>1, <1>2, <1>4 DEF UserInv, StoredInv, KycRunning
<1>7. RecordInv'
  <2> SUFFICES ASSUME NEW v \in KycUsers, HasRow(v)'
               PROVE  /\ Front(v)' \in KycSubmissions
                      /\ kycPc'[Front(v)'] = "ok" /\ kycUser'[Front(v)'] = v
                      /\ \A k \in KycKinds :
                           kycRecord'[v].docs[k] = Front(v)' /\ <<Front(v)', k>> \in kycDocs'
    BY DEF RecordInv
  <2>1. HasRow(v) /\ Front(v)' = Front(v) /\ kycRecord'[v].docs = kycRecord[v].docs
    BY <1>1, <1>2, <1>4
  <2> QED BY <2>1, <1>1, <1>2 DEF RecordInv
<1>8. DecidedInv'
  <2>1. ASSUME NEW d \in kycDecided' PROVE kycPc'[d.about] = "ok"
    BY <1>1, <1>2 DEF DecidedInv, KycTypeOK
  <2>2. ASSUME NEW d \in kycDecided', NEW v \in KycUsers, HasRow(v)', Front(v)' = d.about
        PROVE  kycRecord'[v].status # "PENDING"
    <3>1. CASE v = u
      BY <3>1, <1>1, <1>2 DEF Verdicts
    <3>2. CASE v # u
      <4>1. HasRow(v) /\ Front(v) = d.about /\ kycRecord'[v] = kycRecord[v]
        BY <2>2, <3>2, <1>2, <1>4
      <4>2. d \in kycDecided
        BY <4>1, <3>2, <1>2, <1>5
      <4> QED BY <4>1, <4>2 DEF DecidedInv
    <3> QED BY <3>1, <3>2
  <2> QED BY <2>1, <2>2 DEF DecidedInv
<1>9. MetInv'
  <2>1. ASSUME NEW p \in KycReviews, NEW q \in KycReviews,
               kycPc'[p] = "decide", kycPc'[q] = "decide", p # q
        PROVE  {p, q} \in kycMet'
    BY <2>1, <1>2 DEF MetInv
  <2>2. ASSUME NEW d \in kycDecided', NEW q \in KycReviews, kycPc'[q] = "decide",
               kycUser[q] \in KycUsers, HasRow(kycUser[q])', Front(kycUser[q])' = d.about, d.by # q
        PROVE  {d.by, q} \in kycMet'
    <3>1. kycPc[q] = "decide" /\ q # r
      BY <2>2, <1>2
    <3>2. CASE d = new
      BY <3>1, <3>2, <1>1 DEF MetInv
    <3>3. CASE d \in kycDecided
      <4>1. HasRow(kycUser[q]) /\ Front(kycUser[q]) = d.about
        BY <2>2, <1>1, <1>4
      <4> QED BY <4>1, <3>1, <3>3, <2>2 DEF MetInv
    <3> QED BY <3>2, <3>3, <1>2
  <2>3. SecondDecisionOverlaps'
    <3>1. \A d \in kycDecided : d.about = s /\ d.by # r => {d.by, r} \in kycMet
      BY <1>1 DEF MetInv
    <3>2. \A d \in kycDecided : {d.by, r} = {r, d.by}
      OBVIOUS
    <3> QED BY <3>1, <3>2, <1>2 DEF MetInv, SecondDecisionOverlaps
  <2> QED BY <2>1, <2>2, <2>3 DEF MetInv
<1>10. ReadInv'
  BY <1>1, <1>2 DEF ReadInv, UserInv, KycRunning, KycTypeOK
<1> QED BY <1>3, <1>6, <1>7, <1>8, <1>9, <1>10

LEMMA EmitKeeps == ASSUME KycInv, NEW r \in KycReviews, KycEmit(r) PROVE KycInv'
<1> USE KycAssumption DEF KycInv, KycRequests
<1>1. kycUser[r] \in KycUsers /\ kycVerdict[r] \in Verdicts
  BY DEF KycEmit, UserInv, KycRunning
<1>2. KycTypeOK'
  BY <1>1 DEF KycEmit, KycGoto, KycTypeOK, KycFinal, Verdicts
<1>3. /\ \A p \in KycRequests \ {r} : kycPc'[p] = kycPc[p]
      /\ kycPc[r] = "emit" /\ kycPc'[r] = "ok"
  BY DEF KycEmit, KycGoto, KycTypeOK
<1>4. UserInv' /\ StoredInv' /\ RecordInv' /\ DecidedInv' /\ MetInv' /\ ReadInv'
  BY <1>3, QuietKeeps DEF KycEmit
<1> QED BY <1>2, <1>4

LEMMA CrashKeeps == ASSUME KycInv, NEW q \in KycRequests, KycCrash(q) PROVE KycInv'
<1> USE KycAssumption DEF KycInv
<1>1. KycTypeOK'
  BY DEF KycCrash, KycGoto, KycTypeOK, KycFinal
<1>2. /\ \A p \in KycRequests \ {q} : kycPc'[p] = kycPc[p]
      /\ kycPc[q] \in KycRunning /\ kycPc'[q] = "crashed"
  BY DEF KycCrash, KycGoto, KycTypeOK
<1>3. UserInv' /\ StoredInv' /\ RecordInv' /\ DecidedInv' /\ MetInv' /\ ReadInv'
  BY <1>2, QuietKeeps DEF KycCrash, KycRunning
<1> QED BY <1>1, <1>3

-----------------------------------------------------------------------------

LEMMA KycStepKeeps == KycInv /\ [KycNext]_kycVars => KycInv'
<1> SUFFICES ASSUME KycInv, [KycNext]_kycVars PROVE KycInv'
  OBVIOUS
<1>1. ASSUME NEW s \in KycSubmissions,
             \/ \E u \in KycUsers : KycSubmit(s, u)
             \/ \E k \in KycKinds : KycStoreDocument(s, k) \/ KycRefuseDocument(s, k)
             \/ KycUpsert(s)
      PROVE  KycInv'
  BY <1>1, SubmitKeeps, StoreDocumentKeeps, RefuseDocumentKeeps, UpsertKeeps
<1>2. ASSUME NEW r \in KycReviews,
             \/ \E u \in KycUsers, v \in {"VERIFIED", "REJECTED"} : KycReadForReview(r, u, v)
             \/ KycDecide(r)
             \/ KycEmit(r)
      PROVE  KycInv'
  BY <1>2, ReadForReviewKeeps, DecideKeeps, EmitKeeps DEF Verdicts
<1>3. ASSUME NEW q \in KycRequests, KycCrash(q) PROVE KycInv'
  BY <1>3, CrashKeeps
<1>4. CASE UNCHANGED kycVars
  <2> USE <1>4 DEF kycVars, KycInv
  <2>1. KycTypeOK' /\ UserInv' /\ StoredInv' /\ ReadInv'
    BY DEF KycTypeOK, UserInv, StoredInv, ReadInv, HasRow, KycAllStored
  <2>2. RecordInv' /\ DecidedInv' /\ MetInv'
    BY DEF RecordInv, DecidedInv, MetInv, SecondDecisionOverlaps, HasRow, Front
  <2> QED BY <2>1, <2>2
<1> QED BY <1>1, <1>2, <1>3, <1>4 DEF KycNext

\* The inductive invariant: what a request that runs knows of its record, and
\* who has met whom.
THEOREM KycConsistent == KycSpec => []KycInv
BY KycStart, KycStepKeeps, PTL DEF KycSpec

\* Every record points at four stored documents of one submission of its user
\* (submitKyc, storeDocuments).
THEOREM RecordsAreBacked == KycSpec => []RecordPointsAtDocuments
<1>1. KycInv => RecordPointsAtDocuments
  BY DEF KycInv, RecordInv, RecordPointsAtDocuments, HasRow
<1> QED BY <1>1, KycConsistent, PTL

\* Only reviewers that were between their read and their write together both
\* decide one submission (reviewKyc).
THEOREM SecondDecisionNeedsOverlap == KycSpec => []SecondDecisionOverlaps
<1>1. KycInv => SecondDecisionOverlaps
  BY DEF KycInv, MetInv
<1> QED BY <1>1, KycConsistent, PTL

\* Only a request that had read the record before its last write ends a
\* verification (submitKyc, reviewKyc).
THEOREM VerifiedEndsByOverlap == KycSpec => VerifiedUndoneByOverlap
<1>1. KycInv /\ [KycNext]_kycVars =>
        [\A u \in KycUsers :
           kycRecord[u].status = "VERIFIED" /\ kycRecord'[u] # kycRecord[u] =>
             \E r \in KycRequests :
               kycPc'[r] # kycPc[r] /\ kycUser[r] = u /\ kycRead[r] < kycWrites[u]]_kycVars
  <2> SUFFICES ASSUME KycInv, KycNext, NEW u \in KycUsers,
                      kycRecord[u].status = "VERIFIED", kycRecord'[u] # kycRecord[u]
               PROVE  \E r \in KycRequests :
                        kycPc'[r] # kycPc[r] /\ kycUser[r] = u /\ kycRead[r] < kycWrites[u]
    BY DEF kycVars
  <2>1. ASSUME NEW s \in KycSubmissions, KycUpsert(s)
        PROVE  kycPc'[s] # kycPc[s] /\ kycUser[s] = u /\ kycRead[s] < kycWrites[u]
    BY <2>1 DEF KycUpsert, KycGoto, KycInv, ReadInv, KycTypeOK, KycRequests
  <2>2. ASSUME NEW r \in KycReviews, KycDecide(r)
        PROVE  kycPc'[r] # kycPc[r] /\ kycUser[r] = u /\ kycRead[r] < kycWrites[u]
    BY <2>2 DEF KycDecide, KycGoto, KycInv, ReadInv, KycTypeOK, KycRequests
  <2>3. (\E s \in KycSubmissions : KycUpsert(s)) \/ (\E r \in KycReviews : KycDecide(r))
    BY DEF KycNext, KycSubmit, KycStoreDocument, KycRefuseDocument, KycReadForReview,
        KycEmit, KycCrash
  <2> QED BY <2>1, <2>2, <2>3 DEF KycRequests
<1> QED BY <1>1, KycConsistent, PTL DEF KycSpec, VerifiedUndoneByOverlap

=============================================================================
