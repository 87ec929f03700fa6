----------------------------- MODULE KycService ----------------------------
(***************************************************************************)
(* The KYC half of the user-kyc microservice.  Submissions and reviews are *)
(* requests, handled concurrently by any number of replicas over MongoDB   *)
(* (the documents) and PostgreSQL (one record a user).  A submission is    *)
(* four document inserts sent together and then one upsert; a review reads *)
(* the record, decides, and updates it by its id alone.                    *)
(*                                                                         *)
(* Every name starts with kyc, so that Services can EXTEND this module     *)
(* next to the other services.                                             *)
(***************************************************************************)
EXTENDS Naturals, FiniteSets

CONSTANTS
  KycUsers,
  KycSubmissions,     \* requests to POST /kyc/submit
  KycReviews,         \* requests to POST /kyc/:id/review
  KycRequiredProps,   \* properties the document schema requires, of KycKinds
  KycMaxFaults,       \* bound on crashes and failed statements
  KycNone

KycKinds == {"idDocFront", "idDocBack", "livenessVideo", "selfie"}

ASSUME KycAssumption ==
  /\ KycSubmissions \cap KycReviews = {}
  /\ KycRequiredProps \subseteq KycKinds
  /\ KycMaxFaults \in Nat
  /\ KycNone \notin KycUsers \cup KycSubmissions \cup KycReviews

VARIABLES
  kycDocs,      \* collection kyc_documents: <<submission, kind>>
  kycRecord,    \* table kyc_records, one row a user
  kycEvents,    \* messages on kyc.verified and kyc.rejected
  kycPc,        \* where each request is
  kycUser,      \* the user whose record a request is about
  kycVerdict,   \* what each reviewer decided
  kycFaults     \* faults so far

\* History: how often each record was written, the count a request had read,
\* the decisions taken, and which reviewers were deciding at the same time.
VARIABLES kycWrites, kycRead, kycDecided, kycMet

kycVars == <<kycDocs, kycRecord, kycEvents, kycPc, kycUser, kycVerdict, kycFaults,
             kycWrites, kycRead, kycDecided, kycMet>>

KycRequests == KycSubmissions \cup KycReviews

KycStatus == {"PENDING", "VERIFIED", "REJECTED"}

KycRunning == {"store", "upsert", "decide", "emit"}
KycFinal   == {"ok", "conflict", "notFound", "notPending", "failed", "crashed"}

KycNoRow == [status |-> "absent"]

KycRow == [status: KycStatus, docs: [KycKinds -> KycSubmissions],
           reviewedBy: KycReviews \cup {KycNone}]

KycInit ==
  /\ kycDocs = {}
  /\ kycRecord = [u \in KycUsers |-> KycNoRow]
  /\ kycEvents = {}
  /\ kycPc = [r \in KycRequests |-> "idle"]
  /\ kycUser = [r \in KycRequests |-> KycNone]
  /\ kycVerdict = [r \in KycReviews |-> KycNone]
  /\ kycFaults = 0
  /\ kycWrites = [u \in KycUsers |-> 0]
  /\ kycRead = [r \in KycRequests |-> 0]
  /\ kycDecided = {}
  /\ kycMet = {}

KycGoto(r, step) == kycPc' = [kycPc EXCEPT ![r] = step]

-----------------------------------------------------------------------------
(* submitKyc *)

\* Not the code: a verified user may submit again.
KycBlocksPendingOnly(status) == status = "PENDING"

\* The states of a record in which a submission is a conflict.
KycBlocks(status) == status \in {"VERIFIED", "PENDING"}

KycSubmit(s, u) ==
  /\ kycPc[s] = "idle"
  /\ kycUser' = [kycUser EXCEPT ![s] = u]
  /\ kycRead' = [kycRead EXCEPT ![s] = kycWrites[u]]
  /\ KycGoto(s, IF KycBlocks(kycRecord[u].status) THEN "conflict" ELSE "store")
  /\ UNCHANGED <<kycDocs, kycRecord, kycEvents, kycVerdict, kycFaults,
                 kycWrites, kycDecided, kycMet>>

\* Not the code: Promise.race instead of Promise.all.
KycAnyStored(s, docs) == \E k \in KycKinds : <<s, k>> \in docs

\* Promise.all waits for every one of the four inserts.
KycAllStored(s, docs) == \A k \in KycKinds : <<s, k>> \in docs

\* Each of the four documents carries one property; the schema refuses a
\* document without one it requires.
KycValid(k) == KycRequiredProps \subseteq {k}

\* One of the inserts, which run together; those still running when another
\* one is refused are not called back.
KycStoreDocument(s, k) ==
  /\ kycPc[s] \in {"store", "failed"}
  /\ <<s, k>> \notin kycDocs
  /\ KycValid(k)
  /\ kycDocs' = kycDocs \cup {<<s, k>>}
  /\ KycGoto(s, IF kycPc[s] = "store" /\ KycAllStored(s, kycDocs') THEN "upsert" ELSE kycPc[s])
  /\ UNCHANGED <<kycRecord, kycEvents, kycUser, kycVerdict, kycFaults,
                 kycWrites, kycRead, kycDecided, kycMet>>

\* A refused document rejects Promise.all: the request fails.  The schema
\* refuses it, or the insert fails.
KycRefuseDocument(s, k) ==
  /\ kycPc[s] = "store"
  /\ <<s, k>> \notin kycDocs
  /\ KycValid(k) => kycFaults < KycMaxFaults
  /\ kycFaults' = IF KycValid(k) THEN kycFaults + 1 ELSE kycFaults
  /\ KycGoto(s, "failed")
  /\ UNCHANGED <<kycDocs, kycRecord, kycEvents, kycUser, kycVerdict,
                 kycWrites, kycRead, kycDecided, kycMet>>

\* The update sets neither reviewedBy nor rejectionReason: a resubmission
\* keeps those of the review before it.
KycUpsert(s) ==
  LET u == kycUser[s]
      reviewer == IF kycRecord[u] = KycNoRow THEN KycNone ELSE kycRecord[u].reviewedBy
  IN
  /\ kycPc[s] = "upsert"
  /\ kycRecord' = [kycRecord EXCEPT ![u] =
       [status |-> "PENDING", docs |-> [k \in KycKinds |-> s], reviewedBy |-> reviewer]]
  /\ kycWrites' = [kycWrites EXCEPT ![u] = @ + 1]
  /\ KycGoto(s, "ok")
  /\ UNCHANGED <<kycDocs, kycEvents, kycUser, kycVerdict, kycFaults, kycRead, kycDecided, kycMet>>

-----------------------------------------------------------------------------
(* reviewKyc *)

\* Not the code: a reviewer may overrule a rejection.
KycReviewableAgain(status) == status # "VERIFIED"

\* Only pending submissions can be reviewed.
KycReviewable(status) == status = "PENDING"

KycReadForReview(r, u, verdict) ==
  /\ kycPc[r] = "idle"
  /\ kycUser' = [kycUser EXCEPT ![r] = u]
  /\ kycRead' = [kycRead EXCEPT ![r] = kycWrites[u]]
  /\ LET open == kycRecord[u] # KycNoRow /\ KycReviewable(kycRecord[u].status) IN
     /\ kycVerdict' = [kycVerdict EXCEPT ![r] = IF open THEN verdict ELSE KycNone]
     /\ KycGoto(r, IF kycRecord[u] = KycNoRow THEN "notFound"
                   ELSE IF open THEN "decide" ELSE "notPending")
     /\ kycMet' = IF open
                  THEN kycMet \cup {{r, q} : q \in {p \in KycReviews : kycPc[p] = "decide"}}
                  ELSE kycMet
  /\ UNCHANGED <<kycDocs, kycRecord, kycEvents, kycFaults, kycWrites, kycDecided>>

KycDecide(r) ==
  LET u == kycUser[r] IN
  /\ kycPc[r] = "decide"
  /\ kycRecord' = [kycRecord EXCEPT ![u] =
       [status |-> kycVerdict[r], docs |-> kycRecord[u].docs, reviewedBy |-> r]]
  /\ kycWrites' = [kycWrites EXCEPT ![u] = @ + 1]
  /\ kycDecided' = kycDecided \cup {[by |-> r, about |-> kycRecord[u].docs["idDocFront"]]}
  /\ KycGoto(r, "emit")
  /\ UNCHANGED <<kycDocs, kycEvents, kycUser, kycVerdict, kycFaults, kycRead, kycMet>>

\* emitKycEvent catches every error: a refused message is logged and forgotten.
KycEmit(r) ==
  /\ kycPc[r] = "emit"
  /\ KycGoto(r, "ok")
  /\ \/ /\ kycEvents' = kycEvents \cup {[user |-> kycUser[r], status |-> kycVerdict[r], by |-> r]}
        /\ UNCHANGED kycFaults
     \/ /\ kycFaults < KycMaxFaults
        /\ kycFaults' = kycFaults + 1
        /\ UNCHANGED kycEvents
  /\ UNCHANGED <<kycDocs, kycRecord, kycUser, kycVerdict, kycWrites, kycRead, kycDecided, kycMet>>

\* The process dies, or a statement fails and the error reaches the caller.
KycCrash(r) ==
  /\ kycPc[r] \in KycRunning
  /\ kycFaults < KycMaxFaults
  /\ kycFaults' = kycFaults + 1
  /\ KycGoto(r, "crashed")
  /\ UNCHANGED <<kycDocs, kycRecord, kycEvents, kycUser, kycVerdict,
                 kycWrites, kycRead, kycDecided, kycMet>>

KycNext ==
  \/ \E s \in KycSubmissions :
       \/ \E u \in KycUsers : KycSubmit(s, u)
       \/ \E k \in KycKinds : KycStoreDocument(s, k) \/ KycRefuseDocument(s, k)
       \/ KycUpsert(s)
  \/ \E r \in KycReviews :
       \/ \E u \in KycUsers, v \in {"VERIFIED", "REJECTED"} : KycReadForReview(r, u, v)
       \/ KycDecide(r)
       \/ KycEmit(r)
  \/ \E r \in KycRequests : KycCrash(r)

KycSpec == KycInit /\ [][KycNext]_kycVars

-----------------------------------------------------------------------------
(* What the service keeps true *)

KycTypeOK ==
  /\ kycDocs \subseteq KycSubmissions \X KycKinds
  /\ kycRecord \in [KycUsers -> KycRow \cup {KycNoRow}]
  /\ kycEvents \subseteq [user: KycUsers, status: {"VERIFIED", "REJECTED"}, by: KycReviews]
  /\ kycPc \in [KycRequests -> KycRunning \cup KycFinal \cup {"idle"}]
  /\ kycUser \in [KycRequests -> KycUsers \cup {KycNone}]
  /\ kycVerdict \in [KycReviews -> {"VERIFIED", "REJECTED", KycNone}]
  /\ kycFaults \in 0..KycMaxFaults
  /\ kycWrites \in [KycUsers -> Nat] /\ kycRead \in [KycRequests -> Nat]
  /\ kycDecided \subseteq [by: KycReviews, about: KycSubmissions]
  /\ kycMet \subseteq SUBSET KycReviews

\* A record points at four stored documents of one and the same submission of
\* its user, whatever submissions overlapped, were refused or died halfway
\* (submitKyc upserts only after storeDocuments has answered).
RecordPointsAtDocuments ==
  \A u \in KycUsers : kycRecord[u] # KycNoRow =>
    \E s \in KycSubmissions :
      /\ kycUser[s] = u
      /\ \A k \in KycKinds : kycRecord[u].docs[k] = s /\ <<s, k>> \in kycDocs

\* One submission is decided by two reviewers only if both were between
\* reading it and writing their decision at some moment: reviewKyc's check
\* stops every other second decision.
SecondDecisionOverlaps ==
  \A d, e \in kycDecided :
    d.about = e.about /\ d.by # e.by => {d.by, e.by} \in kycMet

\* A verified user loses that status, or has the record changed in any other
\* way, only by a request that had read the record before it was verified:
\* submitKyc and reviewKyc both refuse a record they find verified.
VerifiedUndoneByOverlap ==
  [][\A u \in KycUsers :
       kycRecord[u].status = "VERIFIED" /\ kycRecord'[u] # kycRecord[u] =>
         \E r \in KycRequests :
           kycPc'[r] # kycPc[r] /\ kycUser[r] = u /\ kycRead[r] < kycWrites[u]]_kycVars

\* A submission of all four files fails only when a statement does
\* (kyc.service.spec.ts:62, "should create a new KYC submission").
SubmissionIsRecorded ==
  (\E s \in KycSubmissions : kycPc[s] = "failed") => kycFaults > 0

=============================================================================
