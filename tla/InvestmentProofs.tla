-------------------------- MODULE InvestmentProofs -------------------------
(***************************************************************************)
(* For any number of purchases, withdrawals, jobs and faults: an           *)
(* investment is closed twice only by handlers that overlapped, what is    *)
(* announced of it happened, and a fault loses one announcement at most.   *)
(***************************************************************************)
EXTENDS InvestmentService, FiniteSetTheorems, TLAPS

\* h has written to i, and announced it or is about to.
Wrote(h, i) ==
  \/ invPc[h] = "emit" /\ invOf[h] = i
  \/ \E e \in InvClosings : e.of = i /\ e.by = h

Closing(h, i) == h \in InvClosing(i) \/ Wrote(h, i)

\* An investment not yet created has no row.
UncreatedInv == \A b \in InvPurchases : invPc[b] \in {"idle", "create"} => invStatus[b] = "absent"

\* What a withdrawal or a job has in hand is a row, closed once it has
\* written to it; jobs have in hand only what had matured.
WithdrawalInv == \A w \in InvWithdrawals :
  /\ invPc[w] \in {"write", "emit"} => invOf[w] \in InvPurchases /\ invStatus[invOf[w]] # "absent"
  /\ invPc[w] = "emit" => invStatus[invOf[w]] \in InvClosed

JobInv == \A j \in InvJobs :
  /\ \A i \in invLeft[j] : invStatus[i] # "absent" /\ i \in invMatured
  /\ invPc[j] = "emit" => /\ invOf[j] \in invMatured
                          /\ invStatus[invOf[j]] \in InvClosed

EventInv == \A e \in InvClosings :
  /\ e.by \in InvClosers
  /\ invStatus[e.of] \in InvClosed
  /\ e.type = "investment.matured" => e.of \in invMatured

\* Two closers that deal, or have dealt, with one investment met.
ClosersMetInv == \A i \in InvPurchases : \A g, h \in InvClosers :
  g # h /\ Closing(g, i) /\ Closing(h, i) => [of |-> i, pair |-> {g, h}] \in invMet

\* The investments whose end nobody has announced or is about to.
Silent == {i \in InvPurchases : invStatus[i] \in InvClosed /\ \A h \in InvClosers : ~ Wrote(h, i)}

AnnouncedInv == IsFiniteSet(Silent) /\ Cardinality(Silent) <= invFaults

InvestInv ==
  /\ InvTypeOK /\ UncreatedInv /\ WithdrawalInv /\ JobInv /\ EventInv
  /\ ClosersMetInv /\ AnnouncedInv

-----------------------------------------------------------------------------
(* One lemma for each way a step can disturb InvestInv *)

\* Nothing is created and nobody runs.
LEMMA InvestmentInit == InvInit => InvestInv
<1> SUFFICES ASSUME InvInit PROVE InvestInv
  OBVIOUS
<1> USE InvAssumption DEF InvInit
<1>1. InvTypeOK
  BY DEF InvTypeOK, InvHandlers, InvClosers
<1>2. UncreatedInv /\ WithdrawalInv /\ JobInv
  BY DEF UncreatedInv, WithdrawalInv, JobInv, InvHandlers, InvClosers
<1>3. EventInv
  BY DEF EventInv, InvClosings
<1>5. Silent = {}
  BY DEF Silent, InvClosed
<1>6. AnnouncedInv
  BY <1>5, FS_EmptySet DEF AnnouncedInv
<1>4. ClosersMetInv
  BY DEF ClosersMetInv, Closing, InvClosing, Wrote, InvClosings, InvHandlers, InvClosers
<1> QED BY <1>1, <1>2, <1>3, <1>4, <1>6 DEF InvestInv

\* Nobody takes up another investment.
LEMMA MetKeeps ==
  ASSUME ClosersMetInv, invMet \subseteq invMet',
         \A h \in InvClosers, i \in InvPurchases : Closing(h, i)' => Closing(h, i)
  PROVE  ClosersMetInv'
BY DEF ClosersMetInv

\* A closer that takes up i, which is active, meets those that hold it.
LEMMA TakesUp ==
  ASSUME InvestInv, NEW h \in InvClosers, NEW i \in InvPurchases, invStatus[i] = "ACTIVE",
         NEW g \in InvClosers, g # h, Closing(g, i)
  PROVE  [of |-> i, pair |-> {h, g}] \in InvMeets(h, i)
<1>1. ~ Wrote(g, i)
  BY DEF InvestInv, Wrote, WithdrawalInv, JobInv, EventInv, InvClosed, InvClosers, InvClosings
<1> QED BY <1>1 DEF Closing, InvMeets

\* No announcement is lost by the step.
LEMMA AnnouncedKeeps ==
  ASSUME InvTypeOK, AnnouncedInv, invFaults' \in {invFaults, invFaults + 1},
         Silent' \subseteq Silent
  PROVE  AnnouncedInv'
<1>1. IsFiniteSet(Silent') /\ Cardinality(Silent') <= Cardinality(Silent)
  BY FS_Subset DEF AnnouncedInv
<1>2. Cardinality(Silent) \in Nat /\ Cardinality(Silent') \in Nat /\ invFaults \in Nat
  BY <1>1, FS_CardinalityType DEF AnnouncedInv, InvTypeOK
<1> QED BY <1>1, <1>2 DEF AnnouncedInv

\* A fault loses one.
LEMMA AnnouncementLost ==
  ASSUME InvTypeOK, AnnouncedInv, invFaults' = invFaults + 1, NEW k,
         Silent' \subseteq Silent \cup {k}
  PROVE  AnnouncedInv'
<1>1. /\ IsFiniteSet(Silent \cup {k})
      /\ Cardinality(Silent \cup {k}) \in {Cardinality(Silent), Cardinality(Silent) + 1}
  BY FS_AddElement DEF AnnouncedInv
<1>2. IsFiniteSet(Silent') /\ Cardinality(Silent') <= Cardinality(Silent \cup {k})
  BY <1>1, FS_Subset
<1>3. Cardinality(Silent) \in Nat /\ Cardinality(Silent') \in Nat /\ invFaults \in Nat
  BY <1>2, FS_CardinalityType DEF AnnouncedInv, InvTypeOK
<1> QED BY <1>1, <1>2, <1>3 DEF AnnouncedInv

-----------------------------------------------------------------------------
(* Purchases *)

LEMMA BuyKeeps == ASSUME InvestInv, NEW b \in InvPurchases, InvBuy(b) PROVE InvestInv'
<1> USE InvAssumption DEF InvBuy, InvGoto, InvestInv, InvHandlers, InvClosers
<1>1. InvTypeOK'
  BY DEF InvTypeOK, InvRunning, InvFinal
<1>2. UncreatedInv'
  BY DEF InvTypeOK, UncreatedInv
<1>3. \A h \in InvClosers : invPc'[h] = invPc[h]
  BY DEF InvTypeOK
<1>4. WithdrawalInv' /\ JobInv' /\ EventInv'
  BY <1>3 DEF WithdrawalInv, JobInv, EventInv, InvClosings
<1>5. \A h \in InvClosers, i \in InvPurchases :
        (Closing(h, i)' <=> Closing(h, i)) /\ (Wrote(h, i)' <=> Wrote(h, i))
  BY <1>3 DEF Closing, Wrote, InvClosing, InvClosings
<1>6. Silent' = Silent
  BY <1>5 DEF Silent
<1>7. ClosersMetInv' /\ AnnouncedInv'
  BY <1>5, <1>6, MetKeeps, AnnouncedKeeps
<1> QED BY <1>1, <1>2, <1>4, <1>7

LEMMA PurchaseKeeps == ASSUME InvestInv, NEW b \in InvPurchases, InvCreate(b) PROVE InvestInv'
<1> USE InvAssumption DEF InvCreate, InvGoto, InvestInv, InvHandlers, InvClosers
<1>1. InvTypeOK'
  BY DEF InvTypeOK, InvRunning, InvFinal
<1>2. UncreatedInv'
  BY DEF InvTypeOK, UncreatedInv
<1>3. /\ \A h \in InvClosers : invPc'[h] = invPc[h]
      /\ invStatus[b] = "absent"
      /\ invStatus'[b] \in {"ACTIVE", "absent"}
      /\ \A i \in InvPurchases \ {b} : invStatus'[i] = invStatus[i]
  BY DEF InvTypeOK, UncreatedInv
<1>4. WithdrawalInv'
  BY <1>3 DEF WithdrawalInv, InvClosed
<1>5. JobInv'
  BY <1>3 DEF JobInv, InvClosed, InvTypeOK
<1>6. EventInv'
  BY <1>3 DEF EventInv, InvClosings, InvClosed, InvTypeOK
<1>7. \A h \in InvClosers, i \in InvPurchases :
        (Closing(h, i)' <=> Closing(h, i)) /\ (Wrote(h, i)' <=> Wrote(h, i))
  BY <1>3 DEF Closing, Wrote, InvClosing, InvClosings
<1>8. Silent' \subseteq Silent
  BY <1>3, <1>7 DEF Silent, InvClosed
<1>9. ClosersMetInv' /\ AnnouncedInv'
  BY <1>7, <1>8, MetKeeps, AnnouncedKeeps
<1> QED BY <1>1, <1>2, <1>4, <1>5, <1>6, <1>9

LEMMA EmitPurchasedKeeps ==
  ASSUME InvestInv, NEW b \in InvPurchases, InvEmitPurchased(b)
  PROVE  InvestInv'
<1> USE InvAssumption DEF InvEmitPurchased, InvEmit, InvGoto, InvestInv, InvHandlers, InvClosers
<1>1. InvTypeOK'
  BY DEF InvTypeOK, InvFinal, InvEventTypes
<1>2. UncreatedInv'
  BY DEF InvTypeOK, UncreatedInv
<1>3. \A h \in InvClosers : invPc'[h] = invPc[h]
  BY DEF InvTypeOK
<1>4. InvClosings' = InvClosings
  BY DEF InvClosings
<1>5. WithdrawalInv' /\ JobInv' /\ EventInv'
  BY <1>3, <1>4 DEF WithdrawalInv, JobInv, EventInv
<1>6. \A h \in InvClosers, i \in InvPurchases :
        (Closing(h, i)' <=> Closing(h, i)) /\ (Wrote(h, i)' <=> Wrote(h, i))
  BY <1>3, <1>4 DEF Closing, Wrote, InvClosing
<1>7. Silent' = Silent
  BY <1>6 DEF Silent
<1>8. ClosersMetInv' /\ AnnouncedInv'
  BY <1>6, <1>7, MetKeeps, AnnouncedKeeps
<1> QED BY <1>1, <1>2, <1>5, <1>8

-----------------------------------------------------------------------------
(* Withdrawals *)

LEMMA ReadForWithdrawalKeeps ==
  ASSUME InvestInv, NEW w \in InvWithdrawals, NEW i \in InvPurchases, InvReadForWithdrawal(w, i)
  PROVE  InvestInv'
<1> USE InvAssumption DEF InvReadForWithdrawal, InvGoto, InvestInv, InvHandlers, InvClosers
<1>1. InvMeets(w, i) \subseteq [of: InvPurchases, pair: SUBSET InvClosers]
  BY DEF InvMeets, InvClosing
<1>2. InvTypeOK'
  BY <1>1 DEF InvTypeOK, InvRunning, InvFinal
<1>3. /\ \A h \in InvHandlers \ {w} : invPc'[h] = invPc[h]
      /\ \A h \in InvClosers \ {w} : invOf'[h] = invOf[h]
      /\ invPc'[w] = "write" => invOf'[w] = i /\ InvWithdrawable(invStatus[i])
      /\ invPc'[w] \in {"write", "notFound", "notActive", "failed"}
  BY DEF InvTypeOK
<1>4. UncreatedInv' /\ EventInv'
  BY <1>3 DEF UncreatedInv, EventInv, InvClosings
<1>5. WithdrawalInv'
  BY <1>3 DEF WithdrawalInv, InvWithdrawable
<1>6. JobInv'
  BY <1>3 DEF JobInv
<1>7. \A h \in InvClosers, k \in InvPurchases : Wrote(h, k) <=> Wrote(h, k)'
  BY <1>3 DEF Wrote, InvClosings
<1>8. AnnouncedInv'
  <2>1. Silent' = Silent
    BY <1>7 DEF Silent
  <2> QED BY <2>1, AnnouncedKeeps
<1>9. \A h \in InvClosers, k \in InvPurchases :
        h # w \/ k # i \/ invPc'[w] # "write" => (Closing(h, k)' => Closing(h, k))
  BY <1>3, <1>7 DEF Closing, InvClosing
<1>10. ClosersMetInv'
  <2>1. CASE invPc'[w] # "write"
    BY <2>1, <1>9, MetKeeps
  <2>2. CASE invPc'[w] = "write"
    <3>1. invMet' = invMet \cup InvMeets(w, i) /\ invStatus[i] = "ACTIVE"
      BY <2>2, <1>3 DEF InvTypeOK, InvWithdrawable
    <3>2. \A g \in InvClosers : g # w /\ Closing(g, i) => [of |-> i, pair |-> {w, g}] \in invMet'
      BY <3>1, TakesUp
    <3>3. \A g \in InvClosers : {w, g} = {g, w}
      OBVIOUS
    <3> SUFFICES ASSUME NEW k \in InvPurchases, NEW g \in InvClosers, NEW h \in InvClosers,
                        g # h, Closing(g, k)', Closing(h, k)'
                 PROVE  [of |-> k, pair |-> {g, h}] \in invMet'
      BY DEF ClosersMetInv
    <3>4. CASE k = i /\ g = w
      BY <3>4, <3>2, <1>9
    <3>5. CASE k = i /\ h = w
      BY <3>5, <3>2, <3>3, <1>9
    <3>6. CASE k # i \/ (g # w /\ h # w)
      BY <3>6, <3>1, <1>9 DEF ClosersMetInv
    <3> QED BY <3>4, <3>5, <3>6
  <2> QED BY <2>1, <2>2
<1> QED BY <1>2, <1>4, <1>5, <1>6, <1>8, <1>10

LEMMA WithdrawKeeps == ASSUME InvestInv, NEW w \in InvWithdrawals, InvWithdraw(w) PROVE InvestInv'
<1> USE InvAssumption DEF InvWithdraw, InvGoto, InvestInv, InvHandlers, InvClosers
<1> DEFINE i == invOf[w]
<1>1. i \in InvPurchases /\ invStatus[i] # "absent"
  BY DEF WithdrawalInv
<1>2. InvTypeOK'
  BY <1>1 DEF InvTypeOK, InvRunning, InvClosed
<1>3. /\ \A h \in InvHandlers \ {w} : invPc'[h] = invPc[h]
      /\ invPc'[w] = "emit"
      /\ invStatus'[i] = "WITHDRAWN"
      /\ \A k \in InvPurchases \ {i} : invStatus'[k] = invStatus[k]
  BY <1>1 DEF InvTypeOK
<1>4. UncreatedInv'
  BY <1>1, <1>3 DEF UncreatedInv
<1>5. WithdrawalInv'
  BY <1>1, <1>3 DEF WithdrawalInv, InvClosed
<1>6. JobInv'
  BY <1>1, <1>3 DEF JobInv, InvClosed, InvTypeOK
<1>7. EventInv'
  BY <1>1, <1>3 DEF EventInv, InvClosings, InvClosed, InvTypeOK
<1>8. \A h \in InvClosers, k \in InvPurchases :
        /\ Closing(h, k)' => Closing(h, k)
        /\ Wrote(h, k) => Wrote(h, k)'
  BY <1>1, <1>3 DEF Closing, Wrote, InvClosing, InvClosings
<1>9. Wrote(w, i)'
  BY <1>3 DEF Wrote
<1>10. ClosersMetInv'
  BY <1>8, MetKeeps
<1>11. AnnouncedInv'
  <2>1. Silent' \subseteq Silent
    BY <1>3, <1>8, <1>9 DEF Silent
  <2> QED BY <2>1, AnnouncedKeeps
<1> QED BY <1>2, <1>4, <1>5, <1>6, <1>7, <1>10, <1>11

LEMMA EmitWithdrawnKeeps ==
  ASSUME InvestInv, NEW w \in InvWithdrawals, InvEmitWithdrawn(w) PROVE InvestInv'
<1> USE InvAssumption DEF InvEmitWithdrawn, InvEmit, InvGoto, InvestInv, InvHandlers, InvClosers
<1> DEFINE i == invOf[w]
<1>1. i \in InvPurchases /\ invStatus[i] \in InvClosed
  BY DEF WithdrawalInv
<1>2. InvTypeOK'
  BY <1>1 DEF InvTypeOK, InvFinal, InvEventTypes
<1>3. /\ \A h \in InvHandlers \ {w} : invPc'[h] = invPc[h]
      /\ invPc[w] = "emit" /\ invPc'[w] = "ok"
  BY DEF InvTypeOK
<1>4. UncreatedInv' /\ WithdrawalInv' /\ JobInv'
  BY <1>3 DEF UncreatedInv, WithdrawalInv, JobInv
<1>5. EventInv'
  BY <1>1 DEF EventInv, InvClosings
<1>6. \A h \in InvClosers, k \in InvPurchases : Closing(h, k)' => Closing(h, k)
  BY <1>3 DEF Closing, Wrote, InvClosing, InvClosings
<1> DEFINE message == [type |-> "investment.withdrawn", of |-> i, by |-> w]
<1>7. ASSUME NEW h \in InvClosers, NEW k \in InvPurchases, Wrote(h, k),
             k # i \/ invEvents' = invEvents \cup {message}
      PROVE  Wrote(h, k)'
  <2>1. invEvents \subseteq invEvents'
    OBVIOUS
  <2>2. CASE h = w /\ k = i
    <3>1. message \in InvClosings'
      BY <1>7, <2>2 DEF InvClosings
    <3> QED BY <2>2, <3>1 DEF Wrote
  <2>3. CASE ~ (h = w /\ k = i) /\ invPc[h] = "emit" /\ invOf[h] = k
    BY <2>3, <1>3 DEF Wrote
  <2>4. CASE \E e \in InvClosings : e.of = k /\ e.by = h
    BY <2>4, <2>1 DEF Wrote, InvClosings
  <2> QED BY <1>7, <2>2, <2>3, <2>4 DEF Wrote
<1>8. CASE invEvents' = invEvents \cup {message} /\ UNCHANGED invFaults
  <2>1. Silent' \subseteq Silent
    BY <1>7, <1>8 DEF Silent
  <2> QED BY <1>2, <1>4, <1>5, <1>6, <1>8, <2>1, MetKeeps, AnnouncedKeeps
<1>9. CASE invFaults' = invFaults + 1
  <2>1. Silent' \subseteq Silent \cup {i}
    BY <1>7 DEF Silent
  <2> QED BY <1>2, <1>4, <1>5, <1>6, <1>9, <2>1, MetKeeps, AnnouncementLost
<1> QED BY <1>8, <1>9

-----------------------------------------------------------------------------
(* The job *)

LEMMA FindMaturedKeeps == ASSUME InvestInv, NEW j \in InvJobs, InvFindMatured(j) PROVE InvestInv'
<1> USE InvAssumption DEF InvGoto, InvestInv, InvHandlers, InvClosers
<1> DEFINE listed == {i \in InvPurchases : InvMaturedActive(i)}
<1>1. /\ invPc[j] = "idle"
      /\ invLeft' = [invLeft EXCEPT ![j] = listed]
      /\ invMet' = invMet \cup UNION {InvMeets(j, i) : i \in listed}
      /\ invPc' = [invPc EXCEPT ![j] = "next"]
      /\ UNCHANGED <<invStatus, invMatured, invEvents, invOf, invFaults>>
  BY DEF InvFindMatured
<1>2. \A i \in listed : i \in InvPurchases /\ invStatus[i] = "ACTIVE" /\ i \in invMatured
  BY DEF InvMaturedActive
<1> HIDE DEF listed
<1>3. \A i \in listed : InvMeets(j, i) \subseteq [of: InvPurchases, pair: SUBSET InvClosers]
  BY <1>2 DEF InvMeets, InvClosing
<1>4. InvTypeOK'
  BY <1>1, <1>2, <1>3 DEF InvTypeOK, InvRunning
<1>5. /\ \A h \in InvHandlers \ {j} : invPc'[h] = invPc[h]
      /\ invPc'[j] = "next"
      /\ invLeft'[j] = listed
      /\ \A k \in InvJobs \ {j} : invLeft'[k] = invLeft[k]
  BY <1>1 DEF InvTypeOK
<1>6. UncreatedInv' /\ EventInv' /\ WithdrawalInv'
  BY <1>1, <1>5 DEF UncreatedInv, EventInv, InvClosings, WithdrawalInv
<1>7. JobInv'
  BY <1>1, <1>2, <1>5 DEF JobInv
<1>8. \A h \in InvClosers, k \in InvPurchases : Wrote(h, k) <=> Wrote(h, k)'
  BY <1>1, <1>5 DEF Wrote, InvClosings
<1>9. AnnouncedInv'
  <2>1. Silent' = Silent
    BY <1>1, <1>8 DEF Silent
  <2> QED BY <1>1, <2>1, AnnouncedKeeps
<1>10. \A h \in InvClosers, k \in InvPurchases :
         h # j \/ k \notin listed => (Closing(h, k)' => Closing(h, k))
  BY <1>1, <1>5, <1>8 DEF Closing, InvClosing
<1>11. ClosersMetInv'
  <2>1. \A k \in listed, g \in InvClosers :
          g # j /\ Closing(g, k) => [of |-> k, pair |-> {j, g}] \in invMet'
    BY <1>1, <1>2, TakesUp
  <2>2. \A g \in InvClosers : {j, g} = {g, j}
    OBVIOUS
  <2> SUFFICES ASSUME NEW k \in InvPurchases, NEW g \in InvClosers, NEW h \in InvClosers,
                      g # h, Closing(g, k)', Closing(h, k)'
               PROVE  [of |-> k, pair |-> {g, h}] \in invMet'
    BY DEF ClosersMetInv
  <2>3. CASE k \in listed /\ g = j
    BY <2>3, <2>1, <1>10
  <2>4. CASE k \in listed /\ h = j
    BY <2>4, <2>1, <2>2, <1>10
  <2>5. CASE k \notin listed \/ (g # j /\ h # j)
    BY <2>5, <1>1, <1>10 DEF ClosersMetInv
  <2> QED BY <2>3, <2>4, <2>5
<1> QED BY <1>4, <1>6, <1>7, <1>9, <1>11

LEMMA MatureKeeps ==
  ASSUME InvestInv, NEW j \in InvJobs, NEW i \in InvPurchases, InvMature(j, i) PROVE InvestInv'
<1> USE InvAssumption DEF InvMature, InvGoto, InvestInv, InvHandlers, InvClosers
<1>1. i \in invMatured /\ invStatus[i] # "absent"
  BY DEF JobInv
<1>2. InvTypeOK'
  BY DEF InvTypeOK, InvRunning, InvClosed
<1>3. /\ \A h \in InvHandlers \ {j} : invPc'[h] = invPc[h]
      /\ \A h \in InvClosers \ {j} : invOf'[h] = invOf[h]
      /\ invPc'[j] = "emit" /\ invOf'[j] = i
      /\ invStatus'[i] = "MATURED"
      /\ \A k \in InvPurchases \ {i} : invStatus'[k] = invStatus[k]
      /\ invLeft'[j] = invLeft[j] \ {i}
      /\ \A k \in InvJobs \ {j} : invLeft'[k] = invLeft[k]
  BY DEF InvTypeOK
<1>4. UncreatedInv'
  BY <1>1, <1>3 DEF UncreatedInv
<1>5. WithdrawalInv'
  BY <1>3 DEF WithdrawalInv, InvClosed, InvTypeOK
<1>6. JobInv'
  BY <1>1, <1>3 DEF JobInv, InvClosed, InvTypeOK
<1>7. EventInv'
  BY <1>3 DEF EventInv, InvClosings, InvClosed, InvTypeOK
<1>8. \A h \in InvClosers, k \in InvPurchases :
        /\ Closing(h, k)' => Closing(h, k)
        /\ Wrote(h, k) => Wrote(h, k)'
  BY <1>3 DEF Closing, Wrote, InvClosing, InvClosings
<1>9. Wrote(j, i)'
  BY <1>3 DEF Wrote
<1>10. ClosersMetInv'
  BY <1>8, MetKeeps
<1>11. AnnouncedInv'
  <2>1. Silent' \subseteq Silent
    BY <1>3, <1>8, <1>9 DEF Silent
  <2> QED BY <2>1, AnnouncedKeeps
<1> QED BY <1>2, <1>4, <1>5, <1>6, <1>7, <1>10, <1>11

LEMMA EmitMaturedKeeps == ASSUME InvestInv, NEW j \in InvJobs, InvEmitMatured(j) PROVE InvestInv'
<1> USE InvAssumption DEF InvEmitMatured, InvEmit, InvGoto, InvestInv, InvHandlers, InvClosers
<1> DEFINE i == invOf[j]
<1>1. i \in InvPurchases /\ i \in invMatured /\ invStatus[i] \in InvClosed
  BY DEF JobInv, InvTypeOK
<1>2. InvTypeOK'
  BY <1>1 DEF InvTypeOK, InvRunning, InvFinal, InvEventTypes
<1>3. /\ \A h \in InvHandlers \ {j} : invPc'[h] = invPc[h]
      /\ invPc[j] = "emit" /\ invPc'[j] \in {"idle", "next"}
  BY DEF InvTypeOK
<1>4. UncreatedInv' /\ WithdrawalInv' /\ JobInv'
  BY <1>3 DEF UncreatedInv, WithdrawalInv, JobInv
<1>5. EventInv'
  BY <1>1 DEF EventInv, InvClosings
<1>6. \A h \in InvClosers, k \in InvPurchases : Closing(h, k)' => Closing(h, k)
  BY <1>3 DEF Closing, Wrote, InvClosing, InvClosings
<1> DEFINE message == [type |-> "investment.matured", of |-> i, by |-> j]
<1>7. ASSUME NEW h \in InvClosers, NEW k \in InvPurchases, Wrote(h, k),
             k # i \/ invEvents' = invEvents \cup {message}
      PROVE  Wrote(h, k)'
  <2>1. invEvents \subseteq invEvents'
    OBVIOUS
  <2>2. CASE h = j /\ k = i
    <3>1. message \in InvClosings'
      BY <1>7, <2>2 DEF InvClosings
    <3> QED BY <2>2, <3>1 DEF Wrote
  <2>3. CASE ~ (h = j /\ k = i) /\ invPc[h] = "emit" /\ invOf[h] = k
    BY <2>3, <1>3 DEF Wrote
  <2>4. CASE \E e \in InvClosings : e.of = k /\ e.by = h
    BY <2>4, <2>1 DEF Wrote, InvClosings
  <2> QED BY <1>7, <2>2, <2>3, <2>4 DEF Wrote
<1>8. CASE invEvents' = invEvents \cup {message} /\ UNCHANGED invFaults
  <2>1. Silent' \subseteq Silent
    BY <1>7, <1>8 DEF Silent
  <2> QED BY <1>2, <1>4, <1>5, <1>6, <1>8, <2>1, MetKeeps, AnnouncedKeeps
<1>9. CASE invFaults' = invFaults + 1
  <2>1. Silent' \subseteq Silent \cup {i}
    BY <1>7 DEF Silent
  <2> QED BY <1>2, <1>4, <1>5, <1>6, <1>9, <2>1, MetKeeps, AnnouncementLost
<1> QED BY <1>8, <1>9

-----------------------------------------------------------------------------
(* Faults and time *)

LEMMA FailsKeeps == ASSUME InvestInv, NEW h \in InvHandlers, InvFails(h) PROVE InvestInv'
<1> USE InvAssumption DEF InvFails, InvGoto, InvestInv, InvHandlers, InvClosers
<1>1. InvTypeOK'
  BY DEF InvTypeOK, InvFinal
<1>2. /\ \A g \in InvHandlers \ {h} : invPc'[g] = invPc[g]
      /\ h \in InvJobs => invPc'[h] = "idle"
      /\ h \notin InvJobs => invPc'[h] = "crashed"
      /\ \A j \in InvJobs : invLeft'[j] \subseteq invLeft[j]
  BY DEF InvTypeOK
<1>3. UncreatedInv' /\ WithdrawalInv' /\ JobInv' /\ EventInv'
  BY <1>2 DEF UncreatedInv, WithdrawalInv, JobInv, EventInv, InvClosings
<1>4. \A g \in InvClosers, k \in InvPurchases : Closing(g, k)' => Closing(g, k)
  BY <1>2 DEF Closing, Wrote, InvClosing, InvClosings
<1>5. ASSUME h \in InvClosers PROVE AnnouncedInv'
  <2>1. \A g \in InvClosers, k \in InvPurchases :
          k # invOf[h] /\ Wrote(g, k) => Wrote(g, k)'
    BY <1>2, <1>5 DEF Wrote, InvClosings
  <2>2. Silent' \subseteq Silent \cup {invOf[h]}
    BY <2>1 DEF Silent
  <2>3. InvTypeOK /\ AnnouncedInv /\ invFaults' = invFaults + 1
    OBVIOUS
  <2> HIDE DEF InvFails, InvestInv
  <2> QED BY <2>2, <2>3, AnnouncementLost
<1>6. ASSUME h \notin InvClosers PROVE AnnouncedInv'
  <2>1. \A g \in InvClosers, k \in InvPurchases : Wrote(g, k) => Wrote(g, k)'
    BY <1>2, <1>6 DEF Wrote, InvClosings
  <2>2. Silent' \subseteq Silent
    BY <2>1 DEF Silent
  <2>3. InvTypeOK /\ AnnouncedInv /\ invFaults' = invFaults + 1
    OBVIOUS
  <2> HIDE DEF InvFails, InvestInv
  <2> QED BY <2>2, <2>3, AnnouncedKeeps
<1>7. ClosersMetInv'
  BY <1>4, MetKeeps
<1> QED BY <1>1, <1>3, <1>5, <1>6, <1>7

LEMMA YearKeeps == ASSUME InvestInv, NEW i \in InvPurchases, InvYearPasses(i) PROVE InvestInv'
<1> USE InvAssumption DEF InvYearPasses, InvestInv
<1>1. InvTypeOK'
  BY DEF InvTypeOK
<1>2. UncreatedInv' /\ WithdrawalInv' /\ JobInv' /\ EventInv'
  BY DEF UncreatedInv, WithdrawalInv, JobInv, EventInv, InvClosings
<1>3. \A h \in InvClosers, k \in InvPurchases :
        (Closing(h, k)' <=> Closing(h, k)) /\ (Wrote(h, k)' <=> Wrote(h, k))
  BY DEF Closing, Wrote, InvClosing, InvClosings
<1>4. Silent' = Silent
  BY <1>3 DEF Silent
<1>5. ClosersMetInv' /\ AnnouncedInv'
  BY <1>3, <1>4, MetKeeps, AnnouncedKeeps
<1> QED BY <1>1, <1>2, <1>5

-----------------------------------------------------------------------------

LEMMA InvestmentStepKeeps == InvestInv /\ [InvNext]_invVars => InvestInv'
<1> SUFFICES ASSUME InvestInv, [InvNext]_invVars PROVE InvestInv'
  OBVIOUS
<1>1. ASSUME NEW b \in InvPurchases,
             InvBuy(b) \/ InvCreate(b) \/ InvEmitPurchased(b) \/ InvYearPasses(b)
      PROVE  InvestInv'
  BY <1>1, BuyKeeps, PurchaseKeeps, EmitPurchasedKeeps, YearKeeps
<1>2. ASSUME NEW w \in InvWithdrawals,
             \/ \E i \in InvPurchases : InvReadForWithdrawal(w, i)
             \/ InvWithdraw(w) \/ InvEmitWithdrawn(w)
      PROVE  InvestInv'
  BY <1>2, ReadForWithdrawalKeeps, WithdrawKeeps, EmitWithdrawnKeeps
<1>3. ASSUME NEW j \in InvJobs,
             InvFindMatured(j) \/ (\E i \in InvPurchases : InvMature(j, i)) \/ InvEmitMatured(j)
      PROVE  InvestInv'
  BY <1>3, FindMaturedKeeps, MatureKeeps, EmitMaturedKeeps
<1>4. ASSUME NEW h \in InvHandlers, InvFails(h) PROVE InvestInv'
  BY <1>4, FailsKeeps
<1>5. CASE UNCHANGED invVars
  <2> USE <1>5 DEF invVars, InvestInv
  <2>1. InvTypeOK' /\ UncreatedInv' /\ WithdrawalInv' /\ JobInv' /\ EventInv'
    BY DEF InvTypeOK, UncreatedInv, WithdrawalInv, JobInv, EventInv, InvClosings
  <2>2. ClosersMetInv' /\ AnnouncedInv'
    BY DEF ClosersMetInv, AnnouncedInv, Silent, Closing, Wrote, InvClosing, InvClosings
  <2> QED BY <2>1, <2>2
<1> QED BY <1>1, <1>2, <1>3, <1>4, <1>5 DEF InvNext

\* The inductive invariant: what every handler holds is a row, what is closed
\* stays closed, and closers of one investment have met.
THEOREM InvestmentConsistent == InvSpec => []InvestInv
BY InvestmentInit, InvestmentStepKeeps, PTL DEF InvSpec

\* Only closers that had both found an investment active before either wrote
\* to it both pay it out (withdrawInvestment, processMaturations).
THEOREM SecondPayoutNeedsOverlap == InvSpec => []SecondPayoutOverlaps
<1>1. InvestInv => SecondPayoutOverlaps
  <2> SUFFICES ASSUME InvestInv, NEW d \in InvClosings, NEW e \in InvClosings,
                      d.of = e.of, d.by # e.by
               PROVE  [of |-> d.of, pair |-> {d.by, e.by}] \in invMet
    BY DEF SecondPayoutOverlaps
  <2>1. d.of \in InvPurchases /\ d.by \in InvClosers /\ e.by \in InvClosers
    BY DEF InvestInv, EventInv, InvTypeOK, InvClosings
  <2>2. Closing(d.by, d.of) /\ Closing(e.by, d.of)
    BY DEF Closing, Wrote
  <2> QED BY <2>1, <2>2 DEF InvestInv, ClosersMetInv
<1> QED BY <1>1, InvestmentConsistent, PTL

\* What is announced of an investment happened, and what happened is announced
\* but for one investment for each fault (emitKafkaEvent after updateInvestmentStatus).
THEOREM ClosingsAreAnnounced == InvSpec => []ClosedIsAnnounced
<1>1. InvestInv => ClosedIsAnnounced
  <2> SUFFICES ASSUME InvestInv PROVE ClosedIsAnnounced
    OBVIOUS
  <2>1. InvUnannounced = Silent
    BY DEF InvestInv, EventInv, InvUnannounced, Silent, Wrote
  <2> QED BY <2>1 DEF InvestInv, EventInv, AnnouncedInv, ClosedIsAnnounced
<1> QED BY <1>1, InvestmentConsistent, PTL

-----------------------------------------------------------------------------
(* The schema as it stands *)

\* Nobody gets past the first statement that casts an id.
NothingInv ==
  /\ \A b \in InvPurchases :
       /\ invStatus[b] = "absent"
       /\ invPc[b] \in {"idle", "notFound", "rejected", "create", "failed", "crashed"}
  /\ \A w \in InvWithdrawals : invPc[w] \in {"idle", "failed"}
  /\ \A j \in InvJobs : invPc[j] = "idle"
  /\ invEvents = {}

NothingBought == (\A i \in InvPurchases : invStatus[i] = "absent") /\ invEvents = {}

LEMMA NothingKeeps ==
  ASSUME ~ InvIdsCast, InvTypeOK, NothingInv, [InvNext]_invVars PROVE NothingInv'
<1> USE InvAssumption DEF NothingInv, InvTypeOK, InvHandlers, InvClosers, InvGoto
<1>1. ASSUME NEW b \in InvPurchases,
             InvBuy(b) \/ InvCreate(b) \/ InvEmitPurchased(b) \/ InvYearPasses(b)
      PROVE  NothingInv'
  BY <1>1 DEF InvBuy, InvCreate, InvEmitPurchased, InvEmit, InvYearPasses
<1>2. ASSUME NEW w \in InvWithdrawals, NEW i \in InvPurchases,
             InvReadForWithdrawal(w, i) \/ InvWithdraw(w) \/ InvEmitWithdrawn(w)
      PROVE  NothingInv'
  BY <1>2 DEF InvReadForWithdrawal, InvWithdraw, InvEmitWithdrawn, InvEmit
<1>3. ASSUME NEW w \in InvWithdrawals, InvWithdraw(w) \/ InvEmitWithdrawn(w)
      PROVE  NothingInv'
  BY <1>3 DEF InvWithdraw, InvEmitWithdrawn, InvEmit
<1>4. ASSUME NEW j \in InvJobs, NEW i \in InvPurchases, InvMature(j, i) PROVE NothingInv'
  BY <1>4 DEF InvMature
<1>5. ASSUME NEW j \in InvJobs, InvFindMatured(j) \/ InvEmitMatured(j) PROVE NothingInv'
  BY <1>5 DEF InvFindMatured, InvMaturedActive, InvEmitMatured, InvEmit
<1>6. ASSUME NEW h \in InvHandlers, InvFails(h) PROVE NothingInv'
  BY <1>6 DEF InvFails, InvRunning
<1>7. CASE UNCHANGED invVars
  BY <1>7 DEF invVars
<1> QED BY <1>1, <1>2, <1>3, <1>4, <1>5, <1>6, <1>7 DEF InvNext

\* With the schema as it stands (no _id declared, a uuid stored in it) nothing is ever
\* bought, withdrawn, matured or announced, whoever calls and whatever fails.
THEOREM NothingIsBought == ~ InvIdsCast => (InvSpec => []NothingBought)
<1> SUFFICES ASSUME ~ InvIdsCast PROVE InvSpec => []NothingBought
  OBVIOUS
<1>1. InvInit => NothingInv
  BY InvAssumption DEF InvInit, NothingInv, InvHandlers, InvClosers
<1>2. InvestInv /\ NothingInv /\ [InvNext]_invVars => NothingInv'
  BY NothingKeeps DEF InvestInv
<1>3. NothingInv => NothingBought
  BY DEF NothingInv, NothingBought
<1> QED BY <1>1, <1>2, <1>3, InvestmentConsistent, PTL DEF InvSpec

=============================================================================
