-------------------------- MODULE InvestmentService ------------------------
(***************************************************************************)
(* The investment microservice: purchases, withdrawals and the maturation  *)
(* job, interleaved at every await over one MongoDB collection and one     *)
(* Kafka producer.  Products are read only.  An investment has the         *)
(* identifier of the purchase that made it.  Units, unit prices and        *)
(* returns are left out: they decide about no status and no message.       *)
(***************************************************************************)
EXTENDS Naturals, FiniteSets

CONSTANTS
  InvPurchases,     \* requests to buy, and identifiers of investments
  InvWithdrawals,   \* requests to withdraw
  InvJobs,          \* processes that call processMaturations
  InvProducts,      \* products, as records [open, min, max]
  InvAmounts,
  InvIdsCast,       \* TRUE: the collection takes a uuid for an _id
  InvMaxFaults,     \* bound on crashes, failed statements and lost messages
  InvNone

ASSUME InvAssumption ==
  /\ InvPurchases \cap InvWithdrawals = {}
  /\ InvJobs \cap (InvPurchases \cup InvWithdrawals) = {}
  /\ InvProducts \subseteq [open: BOOLEAN, min: Nat, max: Nat]
  /\ InvAmounts \subseteq Nat
  /\ InvIdsCast \in BOOLEAN /\ InvMaxFaults \in Nat
  /\ InvNone \notin InvPurchases \cup InvWithdrawals \cup InvJobs

VARIABLES
  invStatus,    \* collection investments: the status of each document
  invMatured,   \* investments whose maturityDate has passed
  invEvents,    \* messages on investment.*
  invPc,        \* where each handler is
  invOf,        \* the investment a withdrawal or the job has in hand
  invLeft,      \* what a job has listed and not yet dealt with
  invFaults,
  invMet        \* history: [of, pair]: closers of one investment that overlapped

invVars == <<invStatus, invMatured, invEvents, invPc, invOf, invLeft, invFaults, invMet>>

InvClosers  == InvWithdrawals \cup InvJobs
InvHandlers == InvPurchases \cup InvClosers

InvClosed  == {"MATURED", "WITHDRAWN"}
InvRunning == {"create", "write", "emit", "next"}
InvFinal   == {"ok", "notFound", "rejected", "notActive", "failed", "crashed"}

InvInit ==
  /\ invStatus = [i \in InvPurchases |-> "absent"]
  /\ invMatured = {}
  /\ invEvents = {}
  /\ invPc = [h \in InvHandlers |-> "idle"]
  /\ invOf = [h \in InvClosers |-> InvNone]
  /\ invLeft = [j \in InvJobs |-> {}]
  /\ invFaults = 0
  /\ invMet = {}

InvGoto(h, step) == invPc' = [invPc EXCEPT ![h] = step]

\* emitKafkaEvent catches what the producer throws and drops the event while
\* there is no producer; then the handler goes on.
InvEmit(h, type, i, step) ==
  /\ invPc[h] = "emit"
  /\ InvGoto(h, step)
  /\ \/ /\ invEvents' = invEvents \cup {[type |-> type, of |-> i, by |-> h]}
        /\ UNCHANGED invFaults
     \/ /\ invFaults < InvMaxFaults
        /\ invFaults' = invFaults + 1
        /\ UNCHANGED invEvents

\* The closers that have found i active and not yet written to it.
InvClosing(i) ==
  {w \in InvWithdrawals : invPc[w] = "write" /\ invOf[w] = i}
  \cup {j \in InvJobs : i \in invLeft[j]}

InvMeets(h, i) == {[of |-> i, pair |-> {h, g}] : g \in InvClosing(i) \ {h}}

-----------------------------------------------------------------------------
(* buyInvestment *)

InvOffered(p, amount) == p.open /\ amount >= p.min /\ amount <= p.max

InvBuy(b) ==
  /\ invPc[b] = "idle"
  /\ \/ InvGoto(b, "notFound")
     \/ \E p \in InvProducts, amount \in InvAmounts :
          InvGoto(b, IF InvOffered(p, amount) THEN "create" ELSE "rejected")
  /\ UNCHANGED <<invStatus, invMatured, invEvents, invOf, invLeft, invFaults, invMet>>

\* The purchase makes its own _id, a uuid. The schema declares none, so that it is an
\* ObjectId, and save() refuses a document whose _id cannot be cast to one.
InvCreate(b) ==
  /\ invPc[b] = "create"
  /\ \/ /\ InvIdsCast
        /\ invStatus' = [invStatus EXCEPT ![b] = "ACTIVE"]
        /\ InvGoto(b, "emit")
     \/ /\ ~ InvIdsCast
        /\ InvGoto(b, "failed")
        /\ UNCHANGED invStatus
  /\ UNCHANGED <<invMatured, invEvents, invOf, invLeft, invFaults, invMet>>

InvEmitPurchased(b) ==
  /\ InvEmit(b, "investment.purchased", b, "ok")
  /\ UNCHANGED <<invStatus, invMatured, invOf, invLeft, invMet>>

-----------------------------------------------------------------------------
(* withdrawInvestment *)

\* Not the code: a matured investment may be withdrawn.
InvNotYetWithdrawn(status) == status # "WITHDRAWN"

InvWithdrawable(status) == status = "ACTIVE"

\* findById casts the id too, before it looks.
InvReadForWithdrawal(w, i) ==
  /\ invPc[w] = "idle"
  /\ invOf' = [invOf EXCEPT ![w] = i]
  /\ \/ /\ invStatus[i] = "absent"
        /\ InvGoto(w, IF InvIdsCast THEN "notFound" ELSE "failed")
        /\ UNCHANGED invMet
     \/ /\ invStatus[i] # "absent" /\ ~ InvWithdrawable(invStatus[i])
        /\ InvGoto(w, "notActive")
        /\ UNCHANGED invMet
     \/ /\ invStatus[i] # "absent" /\ InvWithdrawable(invStatus[i])
        /\ InvGoto(w, "write")
        /\ invMet' = invMet \cup InvMeets(w, i)
  /\ UNCHANGED <<invStatus, invMatured, invEvents, invLeft, invFaults>>

\* Not the code: the withdrawal is not announced.
InvWithdrawSilently(w) ==
  /\ invPc[w] = "write"
  /\ invStatus' = [invStatus EXCEPT ![invOf[w]] = "WITHDRAWN"]
  /\ InvGoto(w, "ok")
  /\ UNCHANGED <<invMatured, invEvents, invOf, invLeft, invFaults, invMet>>

\* updateInvestmentStatus looks at nothing but the id.
InvWithdraw(w) ==
  /\ invPc[w] = "write"
  /\ invStatus' = [invStatus EXCEPT ![invOf[w]] = "WITHDRAWN"]
  /\ InvGoto(w, "emit")
  /\ UNCHANGED <<invMatured, invEvents, invOf, invLeft, invFaults, invMet>>

InvEmitWithdrawn(w) ==
  /\ InvEmit(w, "investment.withdrawn", invOf[w], "ok")
  /\ UNCHANGED <<invStatus, invMatured, invOf, invLeft, invMet>>

-----------------------------------------------------------------------------
(* processMaturations *)

InvMaturedActive(i) == invStatus[i] = "ACTIVE" /\ i \in invMatured

InvFindMatured(j) ==
  LET listed == {i \in InvPurchases : InvMaturedActive(i)} IN
  /\ invPc[j] = "idle"
  /\ listed # {}
  /\ invLeft' = [invLeft EXCEPT ![j] = listed]
  /\ invMet' = invMet \cup UNION {InvMeets(j, i) : i \in listed}
  /\ InvGoto(j, "next")
  /\ UNCHANGED <<invStatus, invMatured, invEvents, invOf, invFaults>>

\* The rows are dealt with as the database listed them, without a second look.
InvMature(j, i) ==
  /\ invPc[j] = "next"
  /\ i \in invLeft[j]
  /\ invStatus' = [invStatus EXCEPT ![i] = "MATURED"]
  /\ invLeft' = [invLeft EXCEPT ![j] = @ \ {i}]
  /\ invOf' = [invOf EXCEPT ![j] = i]
  /\ InvGoto(j, "emit")
  /\ UNCHANGED <<invMatured, invEvents, invFaults, invMet>>

InvEmitMatured(j) ==
  /\ InvEmit(j, "investment.matured", invOf[j], IF invLeft[j] = {} THEN "idle" ELSE "next")
  /\ UNCHANGED <<invStatus, invMatured, invOf, invLeft, invMet>>

-----------------------------------------------------------------------------

\* The process dies, or a statement fails: an error ends the request, and the
\* whole run of the job.
InvFails(h) ==
  /\ invPc[h] \in InvRunning
  /\ invFaults < InvMaxFaults
  /\ invFaults' = invFaults + 1
  /\ InvGoto(h, IF h \in InvJobs THEN "idle" ELSE "crashed")
  /\ invLeft' = IF h \in InvJobs THEN [invLeft EXCEPT ![h] = {}] ELSE invLeft
  /\ UNCHANGED <<invStatus, invMatured, invEvents, invOf, invMet>>

\* The year between startDate and maturityDate has passed.
InvYearPasses(i) ==
  /\ invStatus[i] # "absent" /\ i \notin invMatured
  /\ invMatured' = invMatured \cup {i}
  /\ UNCHANGED <<invStatus, invEvents, invPc, invOf, invLeft, invFaults, invMet>>

InvNext ==
  \/ \E b \in InvPurchases : InvBuy(b) \/ InvCreate(b) \/ InvEmitPurchased(b) \/ InvYearPasses(b)
  \/ \E w \in InvWithdrawals :
       \/ \E i \in InvPurchases : InvReadForWithdrawal(w, i)
       \/ InvWithdraw(w)
       \/ InvEmitWithdrawn(w)
  \/ \E j \in InvJobs :
       \/ InvFindMatured(j)
       \/ \E i \in InvPurchases : InvMature(j, i)
       \/ InvEmitMatured(j)
  \/ \E h \in InvHandlers : InvFails(h)

InvSpec == InvInit /\ [][InvNext]_invVars

-----------------------------------------------------------------------------
(* What the service keeps true *)

InvEventTypes == {"investment.purchased", "investment.withdrawn", "investment.matured"}

InvTypeOK ==
  /\ invStatus \in [InvPurchases -> InvClosed \cup {"ACTIVE", "absent"}]
  /\ invMatured \subseteq InvPurchases
  /\ invEvents \subseteq [type: InvEventTypes, of: InvPurchases, by: InvHandlers]
  /\ invPc \in [InvHandlers -> InvRunning \cup InvFinal \cup {"idle"}]
  /\ invOf \in [InvClosers -> InvPurchases \cup {InvNone}]
  /\ invLeft \in [InvJobs -> SUBSET InvPurchases]
  /\ invFaults \in 0..InvMaxFaults
  /\ invMet \subseteq [of: InvPurchases, pair: SUBSET InvClosers]

InvClosings == {e \in invEvents : e.type # "investment.purchased"}

\* Two handlers announce the end of one investment (and each returns the
\* proceeds to its caller) only if at some moment both had found it active
\* and not yet written to it: two withdrawals, two jobs, or one of each.
SecondPayoutOverlaps ==
  \A d, e \in InvClosings :
    d.of = e.of /\ d.by # e.by => [of |-> d.of, pair |-> {d.by, e.by}] \in invMet

\* Closed, not announced, and in nobody's hands any more.
InvUnannounced ==
  {i \in InvPurchases :
     /\ invStatus[i] \in InvClosed
     /\ \A e \in InvClosings : e.of # i
     /\ \A h \in InvClosers : invOf[h] = i => invPc[h] # "emit"}

\* What is announced happened: a closed investment never becomes active
\* again, and matured ones had reached their date.  And what happened is
\* announced, or is about to be, but for one investment at most for every
\* crash and every message refused: a run of the job that dies in the middle
\* of its list loses the announcement of one, not of the list.
ClosedIsAnnounced ==
  /\ \A e \in InvClosings :
       /\ invStatus[e.of] \in InvClosed
       /\ e.type = "investment.matured" => e.of \in invMatured
  /\ Cardinality(InvUnannounced) <= invFaults

\* "should successfully buy an investment": a purchase that is within the bounds of
\* its product is not refused by the database.
PurchaseIsAccepted ==
  \A b \in InvPurchases : invPc[b] # "failed"

=============================================================================
