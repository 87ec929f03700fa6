---------------------------- MODULE FraudProofs ----------------------------
(***************************************************************************)
(* Fraud detection, for any number of replicas, checks, administrators and *)
(* crashes: the default rules are complete, a device is flagged twice only *)
(* by checks that overlapped, and a frozen account has the flags to show   *)
(* for it.  Last, the types of rules, flags and windows.                   *)
(***************************************************************************)
EXTENDS FraudService, FiniteSetTheorems, TLAPS

RedisFields ==
  {"rules", "ruleList", "flags", "flagList", "windows", "devices", "location", "frozen"}
LocalFields ==
  {"tx", "at", "rules", "flags", "count", "block", "earlier", "n", "body", "target", "keys"}

BootSteps  == {"absent", "idle", "setRule", "pushRule", "up", "crashed"}
CheckSteps == {"absent", "idle", "rule", "count", "add", "associate", "locate", "storeFlag",
               "listFlag", "freeze", "freezeAlert", "alert", "done", "crashed"}
AdminSteps == {"absent", "idle", "setRule", "pushRule", "freeze", "freezeAlert", "review",
               "done", "crashed"}
CronSteps  == {"absent", "idle", "delete", "done", "crashed"}

\* Rules and flags get their types at the end: nothing before depends on them.
FraudTypeInv ==
  /\ DOMAIN fraudRedis = RedisFields
  /\ fraudRedis.ruleList \in Seq((FraudBoots \cup FraudAdmins) \X Nat)
  /\ DOMAIN fraudPc = FraudHandlers /\ DOMAIN fraudLocal = FraudHandlers
  /\ \A h \in FraudHandlers : DOMAIN fraudLocal[h] = LocalFields /\ fraudLocal[h].n \in Nat
  /\ \A b \in FraudBoots  : fraudPc[b] \in BootSteps
  /\ \A c \in FraudChecks : fraudPc[c] \in CheckSteps
  /\ \A a \in FraudAdmins : fraudPc[a] \in AdminSteps
  /\ \A p \in FraudCrons  : fraudPc[p] \in CronSteps

Others(h) == \A g \in FraudHandlers \ {h} :
  fraudPc'[g] = fraudPc[g] /\ fraudLocal'[g] = fraudLocal[g]

-----------------------------------------------------------------------------
(* The default rules *)

Listed(b, m) == \E k \in DOMAIN fraudRedis.ruleList : fraudRedis.ruleList[k] = <<b, m>>

Stored(b, m) == \E r \in fraudRedis.rules :
  r.by = b /\ r.n = m /\ r.body.type = FraudDefaults[m]

Has(b, m) == Stored(b, m) /\ Listed(b, m)

Filled(b) == \A m \in DOMAIN FraudDefaults : Has(b, m)

Filling(b) == \/ fraudPc[b] \in {"setRule", "pushRule"}
              \/ \E k \in DOMAIN fraudRedis.ruleList : fraudRedis.ruleList[k][1] = b

\* How far a start has come that is filling the list.
Progress(b) ==
  /\ fraudPc[b] \in {"setRule", "pushRule"} =>
       /\ fraudLocal[b].n \in DOMAIN FraudDefaults
       /\ \A m \in 1..(fraudLocal[b].n - 1) : Has(b, m)
  /\ fraudPc[b] = "pushRule" => Stored(b, fraudLocal[b].n)

\* A start has filled the list, is filling it, or died.
Begun == \E b \in FraudBoots : fraudPc[b] \in {"setRule", "pushRule", "crashed"} \/ Filled(b)

\* Before that there is no list, and nobody is served.
Untouched ==
  fraudRedis.ruleList = <<>> /\ \A h \in FraudHandlers : fraudPc[h] \in {"absent", "idle"}

StartInv ==
  /\ \A b \in FraudBoots : Progress(b)
  /\ Begun \/ Untouched
  /\ \A b, c \in FraudBoots : b # c /\ Filling(b) /\ Filling(c) => {b, c} \in fraudMet

-----------------------------------------------------------------------------
(* New devices *)

\* A flag for a new device is about to be stored or is stored, or an
\* administrator has one in hand.
Told(c) ==
  \/ fraudPc[c] \in {"storeFlag", "listFlag"} /\ FraudRule(c).type = "new_device"
  \/ \E f \in fraudRedis.flags : f.check = c /\ f.type = "new_device"
  \/ \E a \in FraudAdmins : /\ fraudPc[a] = "review" /\ fraudLocal[a].body.check = c
                            /\ fraudLocal[a].body.type = "new_device"

Found(c) == fraudPc[c] = "associate" \/ Told(c)

DeviceInv ==
  /\ \A c \in FraudChecks : fraudPc[c] \in {"count", "add"} =>
       FraudRule(c).type \in {"velocity_per_user", "velocity_per_ip"}
  /\ \A c \in FraudChecks : Told(c) => FraudDevice(c) \in fraudRedis.devices
  /\ \A c \in FraudChecks : Found(c) => fraudPc[c] \notin {"absent", "idle"}
  /\ \A c, d \in FraudChecks :
       c # d /\ Found(c) /\ Found(d) /\ FraudDevice(c) = FraudDevice(d) => {c, d} \in fraudMet

-----------------------------------------------------------------------------
(* Frozen accounts *)

IsFlag(f) == DOMAIN f = {"check", "n", "type", "status"} /\ f.check \in FraudChecks

HasFlag(c, n) == \E f \in fraudRedis.flags : f.check = c /\ f.n = n

\* Every flag a check has counted is stored and listed.
Counted(c) ==
  /\ fraudLocal[c].flags \in Nat
  /\ \A n \in 1..fraudLocal[c].flags : HasFlag(c, n) /\ <<c, n>> \in fraudRedis.flagList
  /\ fraudPc[c] = "listFlag" => HasFlag(c, fraudLocal[c].flags + 1)
  /\ fraudPc[c] \in {"absent", "idle"} => fraudLocal[c].flags = 0
  /\ fraudPc[c] = "freeze" => fraudLocal[c].flags >= FraudThreshold

Explained(u) ==
  \E c \in FraudChecks : fraudLocal[c].tx.user = u /\ fraudLocal[c].flags >= FraudThreshold

FreezeInv ==
  /\ IsFiniteSet(fraudRedis.flags)
  /\ \A a \in FraudAdmins : fraudPc[a] = "review" => IsFlag(fraudLocal[a].body)
  /\ \A f \in fraudRedis.flags : IsFlag(f)
  /\ \A c \in FraudChecks : Counted(c)
  /\ \A a \in FraudAdmins : fraudPc[a] = "freeze" => fraudLocal[a].target \in fraudOrdered
  /\ \A u \in fraudRedis.frozen \ fraudOrdered : Explained(u)

FraudInv == FraudTypeInv /\ StartInv /\ DeviceInv /\ FreezeInv

-----------------------------------------------------------------------------
(* What the steps do, role by role *)

\* The types of everybody whom a step does not concern stay as they are.
LEMMA TypeKept ==
  ASSUME FraudTypeInv, NEW h \in FraudHandlers, Others(h), DOMAIN fraudRedis' = RedisFields,
         fraudRedis'.ruleList = fraudRedis.ruleList,
         DOMAIN fraudPc' = FraudHandlers, DOMAIN fraudLocal' = FraudHandlers,
         DOMAIN fraudLocal'[h] = LocalFields, fraudLocal'[h].n = fraudLocal[h].n,
         h \in FraudBoots  => fraudPc'[h] \in BootSteps,
         h \in FraudChecks => fraudPc'[h] \in CheckSteps,
         h \in FraudAdmins => fraudPc'[h] \in AdminSteps,
         h \in FraudCrons  => fraudPc'[h] \in CronSteps
  PROVE  FraudTypeInv'
BY DEF FraudTypeInv, Others, FraudHandlers

\* A check that goes on forgets one rule and nothing else.
LEMMA Advances ==
  ASSUME FraudTypeInv, NEW c \in FraudChecks, NEW l, DOMAIN l = LocalFields, FraudAdvance(c, l)
  PROVE  /\ Others(c) /\ DOMAIN fraudPc' = FraudHandlers /\ DOMAIN fraudLocal' = FraudHandlers
         /\ DOMAIN fraudLocal'[c] = LocalFields
         /\ fraudLocal'[c].tx = l.tx /\ fraudLocal'[c].flags = l.flags
         /\ fraudLocal'[c].n = l.n
         /\ fraudPc'[c] \in {"rule", "freeze", "alert", "done"}
         /\ fraudPc'[c] = "freeze" => l.flags >= FraudThreshold
<1> DEFINE m == [l EXCEPT !.rules = FraudRest(@)]
<1>1. DOMAIN m = LocalFields /\ m.tx = l.tx /\ m.flags = l.flags /\ m.n = l.n
  BY DEF LocalFields
<1>2. /\ fraudLocal' = [fraudLocal EXCEPT ![c] = m]
      /\ fraudPc' = [fraudPc EXCEPT ![c] =
                                    IF DOMAIN m.rules = {} THEN FraudConclusion(m) ELSE "rule"]
  BY DEF FraudAdvance, FraudGoto
<1>3. FraudConclusion(m) \in {"freeze", "alert", "done"}
      /\ (FraudConclusion(m) = "freeze" => m.flags >= FraudThreshold)
  BY DEF FraudConclusion, FraudBreaches
<1> HIDE DEF m
<1> QED BY <1>1, <1>2, <1>3 DEF FraudTypeInv, Others, FraudHandlers

\* A rule that is broken sends its check to storing the flag.
LEMMA Triggers ==
  ASSUME FraudTypeInv, NEW c \in FraudChecks, FraudTrigger(c)
  PROVE  /\ Others(c) /\ DOMAIN fraudPc' = FraudHandlers /\ UNCHANGED fraudLocal
         /\ fraudPc'[c] = "storeFlag"
BY DEF FraudTrigger, FraudGoto, FraudTypeInv, Others, FraudHandlers

\* What does not change while a check evaluates its rules.
Steady ==
  /\ DOMAIN fraudRedis' = RedisFields
  /\ fraudRedis'.rules = fraudRedis.rules /\ fraudRedis'.ruleList = fraudRedis.ruleList
  /\ fraudRedis'.flags = fraudRedis.flags /\ fraudRedis'.flagList = fraudRedis.flagList
  /\ fraudRedis'.frozen = fraudRedis.frozen
  /\ fraudOrdered' = fraudOrdered

\* A check that evaluates a rule, up to the flag.
Evaluates(c) ==
  \/ FraudAmount(c) \/ FraudUnknown(c) \/ FraudTrim(c) \/ FraudCount(c) \/ FraudAdd(c)
  \/ FraudLookUpDevice(c) \/ FraudAssociate(c) \/ FraudLookUpLocation(c) \/ FraudSetLocation(c)

LEMMA EvaluateMoves ==
  ASSUME FraudTypeInv, NEW c \in FraudChecks, Evaluates(c)
  PROVE  /\ Others(c) /\ DOMAIN fraudPc' = FraudHandlers /\ DOMAIN fraudLocal' = FraudHandlers
         /\ DOMAIN fraudLocal'[c] = LocalFields
         /\ fraudLocal'[c].tx = fraudLocal[c].tx /\ fraudLocal'[c].flags = fraudLocal[c].flags
         /\ fraudLocal'[c].n = fraudLocal[c].n
         /\ fraudPc[c] \in {"rule", "count", "add", "associate", "locate"}
         /\ fraudPc'[c] \in {"rule", "count", "add", "associate", "locate", "storeFlag",
                             "freeze", "alert", "done"}
         /\ fraudPc'[c] = "freeze" => fraudLocal[c].flags >= FraudThreshold
         /\ Steady
<1> DEFINE Moves ==
        /\ Others(c) /\ DOMAIN fraudPc' = FraudHandlers /\ DOMAIN fraudLocal' = FraudHandlers
        /\ DOMAIN fraudLocal'[c] = LocalFields
        /\ fraudLocal'[c].tx = fraudLocal[c].tx /\ fraudLocal'[c].flags = fraudLocal[c].flags
        /\ fraudLocal'[c].n = fraudLocal[c].n
        /\ fraudPc'[c] \in {"rule", "count", "add", "associate", "locate", "storeFlag",
                            "freeze", "alert", "done"}
        /\ fraudPc'[c] = "freeze" => fraudLocal[c].flags >= FraudThreshold
<1>1. c \in FraudHandlers /\ DOMAIN fraudLocal[c] = LocalFields
  BY DEF FraudHandlers, FraudTypeInv
<1>2. FraudAdvance(c, fraudLocal[c]) => Moves
  BY <1>1, Advances
<1>3. FraudTrigger(c) => Moves
  BY <1>1, Triggers DEF FraudTypeInv
<1>4. ASSUME NEW s \in {"count", "associate", "locate", "storeFlag"}, FraudGoto(c, s),
             UNCHANGED fraudLocal
      PROVE  Moves
  BY <1>1, <1>4 DEF FraudGoto, FraudTypeInv, Others
<1>5. FraudCount(c) => Moves
  BY <1>1 DEF FraudCount, FraudGoto, FraudTypeInv, Others, LocalFields
<1>6. FraudAmount(c) \/ FraudUnknown(c) \/ FraudAdd(c) \/ FraudAssociate(c)
      \/ FraudSetLocation(c) => Moves
  BY <1>2, <1>3 DEF FraudAmount, FraudUnknown, FraudAdd, FraudAssociate, FraudSetLocation
<1>7. FraudTrim(c) \/ FraudLookUpDevice(c) \/ FraudLookUpLocation(c) => Moves
  BY <1>2, <1>4 DEF FraudTrim, FraudLookUpDevice, FraudLookUpLocation
<1>8. fraudPc[c] \in {"rule", "count", "add", "associate", "locate"}
  BY DEF Evaluates, FraudAmount, FraudUnknown, FraudTrim, FraudCount, FraudAdd, FraudLookUpDevice,
     FraudAssociate, FraudLookUpLocation, FraudSetLocation, FraudIsAt
<1>9. Steady
  <2>1. UNCHANGED <<fraudRedis, fraudOrdered>> => Steady
    BY DEF Steady, FraudTypeInv
  <2>2. CASE FraudTrim(c)
    BY <2>2 DEF FraudTrim, Steady, FraudTypeInv, RedisFields, fraudAside
  <2>3. CASE FraudAdd(c)
    BY <2>3 DEF FraudAdd, Steady, FraudTypeInv, RedisFields, fraudAside
  <2>4. CASE FraudAssociate(c) \/ FraudSetLocation(c)
    BY <2>4 DEF FraudAssociate, FraudSetLocation, Steady, FraudTypeInv, RedisFields, fraudAside
  <2>5. CASE FraudAmount(c) \/ FraudUnknown(c) \/ FraudCount(c) \/ FraudLookUpDevice(c)
             \/ FraudLookUpLocation(c)
    BY <2>1, <2>5 DEF FraudAmount, FraudUnknown, FraudCount, FraudLookUpDevice,
       FraudLookUpLocation, fraudAside
  <2> QED BY <2>2, <2>3, <2>4, <2>5 DEF Evaluates
<1> QED BY <1>5, <1>6, <1>7, <1>8, <1>9 DEF Evaluates

\* A handler that only moves.
LEMMA OnlyMoves ==
  ASSUME FraudTypeInv, NEW h \in FraudHandlers, NEW step, FraudGoto(h, step)
  PROVE  /\ DOMAIN fraudPc' = FraudHandlers /\ fraudPc'[h] = step
         /\ \A g \in FraudHandlers \ {h} : fraudPc'[g] = fraudPc[g]
BY DEF FraudGoto, FraudTypeInv

\* The first flag a check may store carries the next number.
LEMMA FlagMoves ==
  ASSUME FraudTypeInv, NEW c \in FraudChecks, FraudStoreFlag(c) \/ FraudListFlag(c)
  PROVE  /\ Others(c) /\ DOMAIN fraudRedis' = RedisFields
         /\ DOMAIN fraudPc' = FraudHandlers /\ DOMAIN fraudLocal' = FraudHandlers
         /\ DOMAIN fraudLocal'[c] = LocalFields
         /\ fraudLocal'[c].tx = fraudLocal[c].tx /\ fraudLocal'[c].n = fraudLocal[c].n
         /\ fraudPc[c] \in {"storeFlag", "listFlag"}
         /\ fraudPc'[c] \in {"listFlag", "rule", "freeze", "alert", "done"}
         /\ \A f \in {"rules", "ruleList", "devices", "frozen"} : fraudRedis'[f] = fraudRedis[f]
         /\ UNCHANGED <<fraudOrdered, fraudMet>>
<1>1. c \in FraudHandlers /\ DOMAIN fraudLocal[c] = LocalFields
  BY DEF FraudHandlers, FraudTypeInv
<1>2. CASE FraudStoreFlag(c)
  <2>1. fraudPc[c] = "storeFlag" /\ FraudGoto(c, "listFlag") /\ UNCHANGED <<fraudLocal, fraudAside>>
    BY <1>2 DEF FraudStoreFlag
  <2>2. DOMAIN fraudRedis' = RedisFields
        /\ \A f \in {"rules", "ruleList", "devices", "frozen"} : fraudRedis'[f] = fraudRedis[f]
    BY <1>2 DEF FraudStoreFlag, FraudTypeInv, RedisFields
  <2> QED BY <1>1, <2>1, <2>2, OnlyMoves DEF FraudTypeInv, Others, fraudAside
<1>3. CASE FraudListFlag(c)
  <2> DEFINE l == [fraudLocal[c] EXCEPT !.flags = @ + 1,
                                        !.block = @ \/ FraudRule(c).action = "block"]
  <2>1. fraudPc[c] = "listFlag" /\ FraudAdvance(c, l) /\ UNCHANGED fraudAside
    BY <1>3 DEF FraudListFlag
  <2>2. DOMAIN l = LocalFields /\ l.tx = fraudLocal[c].tx /\ l.n = fraudLocal[c].n
    BY <1>1 DEF LocalFields
  <2>3. DOMAIN fraudRedis' = RedisFields
        /\ \A f \in {"rules", "ruleList", "devices", "frozen"} : fraudRedis'[f] = fraudRedis[f]
    BY <1>3 DEF FraudListFlag, FraudTypeInv, RedisFields
  <2> HIDE DEF l
  <2> QED BY <2>1, <2>2, <2>3, Advances DEF fraudAside
<1> QED BY <1>2, <1>3

\* The other steps of checks, administrators and the clean-up, and how much
\* each of them touches.
LEMMA RequestMoves ==
  ASSUME FraudTypeInv, NEW h \in FraudHandlers,
         \/ h \in FraudChecks /\ \E t \in FraudRequests : FraudCheck(h, t)
         \/ h \in FraudAdmins /\ \E body \in FraudNewRules : FraudCreateRule(h, body)
         \/ h \in FraudAdmins /\ \E u \in FraudUsers : FraudOrderFreeze(h, u)
         \/ h \in FraudAdmins /\ \E f \in fraudRedis.flags : FraudReadFlag(h, f)
         \/ h \in FraudCrons /\ FraudScan(h)
  PROVE  /\ Others(h) /\ UNCHANGED <<fraudRedis, fraudMet>>
         /\ FraudUp /\ fraudPc[h] = "idle"
         /\ DOMAIN fraudPc' = FraudHandlers /\ DOMAIN fraudLocal' = FraudHandlers
         /\ DOMAIN fraudLocal'[h] = LocalFields
         /\ fraudLocal'[h].n = fraudLocal[h].n /\ fraudLocal'[h].flags = fraudLocal[h].flags
         /\ h \in FraudChecks => fraudPc'[h] \in {"rule", "done"}
         /\ h \in FraudAdmins => fraudPc'[h] \in {"setRule", "freeze", "review"}
         /\ h \in FraudCrons  => fraudPc'[h] \in {"delete", "done"}
         /\ fraudOrdered \subseteq fraudOrdered'
<1>1. DOMAIN fraudLocal[h] = LocalFields /\ DOMAIN fraudLocal = FraudHandlers
  BY DEF FraudTypeInv
<1>2. h \in FraudChecks => h \notin FraudAdmins /\ h \notin FraudCrons
  BY FraudAssumption
<1>3. h \in FraudAdmins => h \notin FraudChecks /\ h \notin FraudCrons
  BY FraudAssumption
<1>4. CASE h \in FraudChecks /\ \E t \in FraudRequests : FraudCheck(h, t)
  <2>1. PICK t \in FraudRequests : FraudCheck(h, t)
    BY <1>4
  <2>2. PICK s \in {"rule", "done"} : FraudGoto(h, s)
    BY <2>1 DEF FraudCheck
  <2>3. /\ UNCHANGED <<fraudRedis, fraudMet, fraudOrdered>> /\ FraudUp /\ fraudPc[h] = "idle"
        /\ fraudLocal' = [fraudLocal EXCEPT ![h].tx = t, ![h].at = fraudNow,
                            ![h].rules = FraudAllRules, ![h].earlier = FraudEarlier(t.user)]
    BY <2>1 DEF FraudCheck, fraudAside
  <2>4. /\ DOMAIN fraudLocal' = FraudHandlers /\ DOMAIN fraudLocal'[h] = LocalFields
        /\ fraudLocal'[h].n = fraudLocal[h].n /\ fraudLocal'[h].flags = fraudLocal[h].flags
        /\ \A g \in FraudHandlers \ {h} : fraudLocal'[g] = fraudLocal[g]
    BY <1>1, <2>3 DEF LocalFields
  <2> QED BY <1>2, <1>4, <2>2, <2>3, <2>4, OnlyMoves DEF Others
<1>5. CASE h \in FraudAdmins
           /\ \/ \E body \in FraudNewRules : FraudCreateRule(h, body)
              \/ \E f \in fraudRedis.flags : FraudReadFlag(h, f)
  <2>1. PICK s \in {"setRule", "review"} : FraudGoto(h, s)
    BY <1>5 DEF FraudCreateRule, FraudReadFlag
  <2>2. /\ UNCHANGED <<fraudRedis, fraudMet, fraudOrdered>> /\ FraudUp /\ fraudPc[h] = "idle"
        /\ \E body : fraudLocal' = [fraudLocal EXCEPT ![h].body = body]
    BY <1>5 DEF FraudCreateRule, FraudReadFlag, fraudAside
  <2>3. /\ DOMAIN fraudLocal' = FraudHandlers /\ DOMAIN fraudLocal'[h] = LocalFields
        /\ fraudLocal'[h].n = fraudLocal[h].n /\ fraudLocal'[h].flags = fraudLocal[h].flags
        /\ \A g \in FraudHandlers \ {h} : fraudLocal'[g] = fraudLocal[g]
    BY <1>1, <2>2 DEF LocalFields
  <2> QED BY <1>3, <1>5, <2>1, <2>2, <2>3, OnlyMoves DEF Others
<1>6. CASE h \in FraudAdmins /\ \E u \in FraudUsers : FraudOrderFreeze(h, u)
  <2>1. PICK u \in FraudUsers : FraudOrderFreeze(h, u)
    BY <1>6
  <2>2. /\ DOMAIN fraudLocal' = FraudHandlers /\ DOMAIN fraudLocal'[h] = LocalFields
        /\ fraudLocal'[h].n = fraudLocal[h].n /\ fraudLocal'[h].flags = fraudLocal[h].flags
        /\ \A g \in FraudHandlers \ {h} : fraudLocal'[g] = fraudLocal[g]
    BY <1>1, <2>1 DEF FraudOrderFreeze, LocalFields
  <2> QED BY <1>3, <1>6, <2>1, <2>2, OnlyMoves DEF FraudOrderFreeze, Others
<1>7. CASE h \in FraudCrons /\ FraudScan(h)
  <2>1. PICK s \in {"delete", "done"} : FraudGoto(h, s)
    BY <1>7 DEF FraudScan
  <2>2. /\ DOMAIN fraudLocal' = FraudHandlers /\ DOMAIN fraudLocal'[h] = LocalFields
        /\ fraudLocal'[h].n = fraudLocal[h].n /\ fraudLocal'[h].flags = fraudLocal[h].flags
        /\ \A g \in FraudHandlers \ {h} : fraudLocal'[g] = fraudLocal[g]
    BY <1>1, <1>7 DEF FraudScan, LocalFields
  <2>3. UNCHANGED <<fraudRedis, fraudMet, fraudOrdered>> /\ FraudUp /\ fraudPc[h] = "idle"
    BY <1>7 DEF FraudScan, fraudAside
  <2> QED BY <1>2, <1>3, <1>7, <2>1, <2>2, <2>3, OnlyMoves DEF Others
<1> QED BY <1>4, <1>5, <1>6, <1>7

\* Reviews, deletions, freezes and alerts.
LEMMA EndMoves ==
  ASSUME FraudTypeInv, NEW h \in FraudHandlers,
         \/ h \in FraudAdmins
            /\ \E status \in {"open", "reviewed", "dismissed"} : FraudReviewFlag(h, status)
         \/ h \in FraudCrons /\ FraudDelete(h)
         \/ FraudFreeze(h) \/ FraudEmit(h)
  PROVE  /\ Others(h) /\ DOMAIN fraudRedis' = RedisFields
         /\ DOMAIN fraudPc' = FraudHandlers /\ DOMAIN fraudLocal' = FraudHandlers
         /\ DOMAIN fraudLocal'[h] = LocalFields
         /\ \A f \in {"tx", "flags", "n", "body", "target"} : fraudLocal'[h][f] = fraudLocal[h][f]
         /\ fraudPc[h] \in {"review", "delete", "freeze", "freezeAlert", "alert"}
         /\ fraudPc'[h] \in {"freezeAlert", "alert", "done"}
         /\ fraudPc'[h] = "alert" => h \in FraudChecks
         /\ fraudPc'[h] = "freezeAlert" => fraudPc[h] = "freeze"
         /\ \A f \in {"rules", "ruleList", "devices", "flagList"} : fraudRedis'[f] = fraudRedis[f]
         /\ fraudRedis'.flags = fraudRedis.flags
            \/ \E status : h \in FraudAdmins /\ FraudReviewFlag(h, status)
         /\ fraudRedis'.frozen = fraudRedis.frozen \/ FraudFreeze(h)
         /\ UNCHANGED <<fraudOrdered, fraudMet>>
<1>1. DOMAIN fraudLocal[h] = LocalFields /\ DOMAIN fraudLocal = FraudHandlers
  BY DEF FraudTypeInv
<1>2. CASE h \in FraudAdmins
           /\ \E status \in {"open", "reviewed", "dismissed"} : FraudReviewFlag(h, status)
  <2>1. PICK status \in {"open", "reviewed", "dismissed"} : FraudReviewFlag(h, status)
    BY <1>2
  <2>2. /\ DOMAIN fraudRedis' = RedisFields
        /\ \A f \in {"rules", "ruleList", "devices", "flagList", "frozen"} :
             fraudRedis'[f] = fraudRedis[f]
    BY <2>1 DEF FraudReviewFlag, FraudTypeInv, RedisFields
  <2>3. FraudGoto(h, "done") /\ fraudPc[h] = "review" /\ UNCHANGED <<fraudLocal, fraudAside>>
    BY <2>1 DEF FraudReviewFlag
  <2> QED BY <1>1, <1>2, <2>1, <2>2, <2>3, OnlyMoves DEF Others, fraudAside
<1>3. CASE FraudDelete(h)
  <2>1. /\ DOMAIN fraudRedis' = RedisFields
        /\ \A f \in {"rules", "ruleList", "devices", "flags", "flagList", "frozen"} :
             fraudRedis'[f] = fraudRedis[f]
    BY <1>3 DEF FraudDelete, FraudTypeInv, RedisFields
  <2>2. FraudGoto(h, "done") /\ fraudPc[h] = "delete" /\ UNCHANGED <<fraudLocal, fraudAside>>
    BY <1>3 DEF FraudDelete
  <2> QED BY <1>1, <2>1, <2>2, OnlyMoves DEF Others, fraudAside
<1>4. CASE FraudFreeze(h)
  <2>1. /\ DOMAIN fraudRedis' = RedisFields
        /\ \A f \in {"rules", "ruleList", "devices", "flags", "flagList"} :
             fraudRedis'[f] = fraudRedis[f]
    BY <1>4 DEF FraudFreeze, FraudTypeInv, RedisFields
  <2>2. /\ DOMAIN fraudLocal' = FraudHandlers /\ DOMAIN fraudLocal'[h] = LocalFields
        /\ \A f \in {"tx", "flags", "n", "body", "target"} : fraudLocal'[h][f] = fraudLocal[h][f]
        /\ \A g \in FraudHandlers \ {h} : fraudLocal'[g] = fraudLocal[g]
    BY <1>1, <1>4 DEF FraudFreeze, LocalFields
  <2>3. FraudGoto(h, "freezeAlert") /\ fraudPc[h] = "freeze" /\ UNCHANGED fraudAside
    BY <1>4 DEF FraudFreeze
  <2> QED BY <1>4, <2>1, <2>2, <2>3, OnlyMoves DEF Others, fraudAside
<1>5. CASE FraudEmit(h)
  <2>1. fraudPc[h] \in {"freezeAlert", "alert"}
        /\ UNCHANGED <<fraudRedis, fraudNow, fraudLocal, fraudOrdered, fraudMet>>
    BY <1>5 DEF FraudEmit
  <2>2. PICK s \in {"alert", "done"} : FraudGoto(h, s) /\ (s = "alert" => h \in FraudChecks)
    BY <1>5 DEF FraudEmit
  <2> QED BY <1>1, <2>1, <2>2, OnlyMoves DEF Others, FraudTypeInv
<1> QED BY <1>2, <1>3, <1>4, <1>5

\* A start of a replica; a rule that is stored and listed.
LEMMA RuleMoves ==
  ASSUME FraudTypeInv, NEW h \in FraudHandlers,
         (h \in FraudBoots /\ FraudBoot(h)) \/ FraudSetRule(h) \/ FraudPushRule(h)
  PROVE  /\ Others(h) /\ DOMAIN fraudRedis' = RedisFields
         /\ DOMAIN fraudPc' = FraudHandlers /\ DOMAIN fraudLocal' = FraudHandlers
         /\ DOMAIN fraudLocal'[h] = LocalFields /\ fraudLocal'[h].n \in Nat
         /\ \A f \in {"tx", "flags", "body", "target"} : fraudLocal'[h][f] = fraudLocal[h][f]
         /\ h \in FraudBoots \cup FraudAdmins
         /\ \A f \in {"flags", "devices", "flagList", "frozen"} : fraudRedis'[f] = fraudRedis[f]
         /\ fraudRedis'.ruleList \in Seq((FraudBoots \cup FraudAdmins) \X Nat)
         /\ fraudPc[h] \in {"idle", "setRule", "pushRule"}
         /\ h \in FraudBoots => fraudPc'[h] \in {"setRule", "pushRule", "up"}
         /\ h \in FraudAdmins => fraudPc'[h] \in {"pushRule", "done"}
         /\ fraudOrdered' = fraudOrdered /\ fraudMet \subseteq fraudMet'
<1>1. /\ DOMAIN fraudLocal[h] = LocalFields /\ DOMAIN fraudLocal = FraudHandlers
      /\ fraudLocal[h].n \in Nat
  BY DEF FraudTypeInv
<1>2. h \in FraudAdmins => h \notin FraudBoots
  BY FraudAssumption
<1>3. CASE h \in FraudBoots /\ FraudBoot(h)
  <2>1. PICK s \in {"setRule", "up"} : FraudGoto(h, s)
    BY <1>3 DEF FraudBoot
  <2>2. /\ fraudLocal' = [fraudLocal EXCEPT ![h].n = 1] /\ fraudPc[h] = "idle"
        /\ UNCHANGED <<fraudRedis, fraudOrdered>> /\ fraudMet \subseteq fraudMet'
    BY <1>3 DEF FraudBoot
  <2>3. /\ DOMAIN fraudLocal' = FraudHandlers /\ DOMAIN fraudLocal'[h] = LocalFields
        /\ fraudLocal'[h].n = 1
        /\ \A f \in {"tx", "flags", "body", "target"} : fraudLocal'[h][f] = fraudLocal[h][f]
        /\ \A g \in FraudHandlers \ {h} : fraudLocal'[g] = fraudLocal[g]
    BY <1>1, <2>2 DEF LocalFields
  <2> QED BY <1>2, <1>3, <2>1, <2>2, <2>3, OnlyMoves DEF Others, FraudTypeInv
<1>4. CASE FraudSetRule(h)
  <2>1. FraudGoto(h, "pushRule") /\ fraudPc[h] = "setRule" /\ UNCHANGED <<fraudLocal, fraudAside>>
    BY <1>4 DEF FraudSetRule
  <2>2. h \in FraudBoots \cup FraudAdmins
    BY <2>1 DEF FraudTypeInv, FraudHandlers, CheckSteps, CronSteps
  <2>3. /\ DOMAIN fraudRedis' = RedisFields
        /\ \A f \in {"flags", "devices", "flagList", "frozen", "ruleList"} :
             fraudRedis'[f] = fraudRedis[f]
    BY <1>4 DEF FraudSetRule, FraudTypeInv, RedisFields
  <2> QED BY <1>1, <1>2, <2>1, <2>2, <2>3, OnlyMoves DEF Others, FraudTypeInv, fraudAside
<1>5. CASE FraudPushRule(h)
  <2>1. /\ fraudPc[h] = "pushRule" /\ UNCHANGED fraudAside
        /\ fraudLocal' = [fraudLocal EXCEPT ![h].n = fraudLocal[h].n + 1]
        /\ fraudRedis' = [fraudRedis EXCEPT !.ruleList = Append(@, <<h, fraudLocal[h].n>>)]
    BY <1>5 DEF FraudPushRule
  <2>2. h \in FraudBoots \cup FraudAdmins
    BY <2>1 DEF FraudTypeInv, FraudHandlers, CheckSteps, CronSteps
  <2>3. PICK s \in {"setRule", "up", "done"} :
          FraudGoto(h, s) /\ (s = "done" <=> h \in FraudAdmins)
    BY <1>5 DEF FraudPushRule
  <2>4. /\ DOMAIN fraudRedis' = RedisFields
        /\ \A f \in {"flags", "devices", "flagList", "frozen"} : fraudRedis'[f] = fraudRedis[f]
        /\ fraudRedis'.ruleList = Append(fraudRedis.ruleList, <<h, fraudLocal[h].n>>)
    BY <2>1 DEF FraudTypeInv, RedisFields
  <2>5. fraudRedis'.ruleList \in Seq((FraudBoots \cup FraudAdmins) \X Nat)
    BY <1>1, <2>2, <2>4 DEF FraudTypeInv
  <2>6. /\ DOMAIN fraudLocal' = FraudHandlers /\ DOMAIN fraudLocal'[h] = LocalFields
        /\ fraudLocal'[h].n = fraudLocal[h].n + 1
        /\ \A f \in {"tx", "flags", "body", "target"} : fraudLocal'[h][f] = fraudLocal[h][f]
        /\ \A g \in FraudHandlers \ {h} : fraudLocal'[g] = fraudLocal[g]
    BY <1>1, <2>1 DEF LocalFields
  <2> QED BY <1>1, <1>2, <2>1, <2>2, <2>3, <2>4, <2>5, <2>6, OnlyMoves DEF Others, fraudAside
<1> QED BY <1>3, <1>4, <1>5

\* A handler that dies.
LEMMA CrashMoves ==
  ASSUME FraudTypeInv, NEW h \in FraudHandlers, FraudCrash(h)
  PROVE  /\ Others(h) /\ DOMAIN fraudPc' = FraudHandlers /\ fraudPc'[h] = "crashed"
         /\ fraudPc[h] \notin {"absent", "idle"}
         /\ UNCHANGED <<fraudRedis, fraudLocal, fraudOrdered, fraudMet>>
BY OnlyMoves DEF FraudCrash, Others

-----------------------------------------------------------------------------
(* Types *)

LEMMA TypeStep == FraudTypeInv /\ [FraudNext]_fraudVars => FraudTypeInv'
<1> SUFFICES ASSUME FraudTypeInv, [FraudNext]_fraudVars PROVE FraudTypeInv'
  OBVIOUS
<1> USE DEF BootSteps, CheckSteps, AdminSteps, CronSteps
<1>1. CASE UNCHANGED fraudVars \/ FraudTick
  BY <1>1 DEF fraudVars, FraudTick, FraudTypeInv
<1>2. ASSUME NEW c \in FraudChecks, Evaluates(c) PROVE FraudTypeInv'
  <2>1. c \in FraudHandlers /\ c \notin FraudBoots /\ c \notin FraudAdmins /\ c \notin FraudCrons
    BY FraudAssumption DEF FraudHandlers
  <2> QED BY <1>2, <2>1, EvaluateMoves, TypeKept DEF Steady
<1>3. ASSUME NEW c \in FraudChecks, FraudStoreFlag(c) \/ FraudListFlag(c) PROVE FraudTypeInv'
  <2>1. c \in FraudHandlers /\ c \notin FraudBoots /\ c \notin FraudAdmins /\ c \notin FraudCrons
    BY FraudAssumption DEF FraudHandlers
  <2> QED BY <1>3, <2>1, FlagMoves, TypeKept
<1>4. ASSUME NEW h \in FraudHandlers,
             \/ h \in FraudChecks /\ \E t \in FraudRequests : FraudCheck(h, t)
             \/ h \in FraudAdmins /\ \E body \in FraudNewRules : FraudCreateRule(h, body)
             \/ h \in FraudAdmins /\ \E u \in FraudUsers : FraudOrderFreeze(h, u)
             \/ h \in FraudAdmins /\ \E f \in fraudRedis.flags : FraudReadFlag(h, f)
             \/ h \in FraudCrons /\ FraudScan(h)
      PROVE  FraudTypeInv'
  <2>1. h \notin FraudBoots
    BY <1>4, FraudAssumption
  <2>2. DOMAIN fraudRedis' = RedisFields /\ fraudRedis'.ruleList = fraudRedis.ruleList
    BY <1>4, RequestMoves DEF FraudTypeInv
  <2> QED BY <1>4, <2>1, <2>2, RequestMoves, TypeKept
<1>5. ASSUME NEW h \in FraudHandlers,
             \/ h \in FraudAdmins
                /\ \E status \in {"open", "reviewed", "dismissed"} : FraudReviewFlag(h, status)
             \/ h \in FraudCrons /\ FraudDelete(h)
             \/ FraudFreeze(h) \/ FraudEmit(h)
      PROVE  FraudTypeInv'
  <2>1. fraudPc[h] \in {"review", "delete", "freeze", "freezeAlert", "alert"}
        /\ fraudPc'[h] \in {"freezeAlert", "alert", "done"}
        /\ (fraudPc'[h] = "alert" => h \in FraudChecks)
        /\ (fraudPc'[h] = "freezeAlert" => fraudPc[h] = "freeze")
    BY <1>5, EndMoves
  <2>2. /\ h \in FraudBoots  => fraudPc'[h] \in BootSteps
        /\ h \in FraudChecks => fraudPc'[h] \in CheckSteps
        /\ h \in FraudAdmins => fraudPc'[h] \in AdminSteps
        /\ h \in FraudCrons  => fraudPc'[h] \in CronSteps
    BY <2>1, FraudAssumption DEF FraudTypeInv
  <2> QED BY <1>5, <2>2, EndMoves, TypeKept
<1>6. ASSUME NEW h \in FraudHandlers,
             (h \in FraudBoots /\ FraudBoot(h)) \/ FraudSetRule(h) \/ FraudPushRule(h)
      PROVE  FraudTypeInv'
  <2>1. h \notin FraudChecks /\ h \notin FraudCrons
    BY <1>6, RuleMoves, FraudAssumption
  <2>2. /\ h \in FraudBoots  => fraudPc'[h] \in BootSteps
        /\ h \in FraudAdmins => fraudPc'[h] \in AdminSteps
    BY <1>6, RuleMoves
  <2>3. /\ Others(h) /\ DOMAIN fraudRedis' = RedisFields
        /\ DOMAIN fraudPc' = FraudHandlers /\ DOMAIN fraudLocal' = FraudHandlers
        /\ DOMAIN fraudLocal'[h] = LocalFields /\ fraudLocal'[h].n \in Nat
        /\ fraudRedis'.ruleList \in Seq((FraudBoots \cup FraudAdmins) \X Nat)
    BY <1>6, RuleMoves
  <2> QED BY <2>1, <2>2, <2>3 DEF FraudTypeInv, Others, FraudHandlers
<1>7. ASSUME NEW h \in FraudHandlers, FraudCrash(h) PROVE FraudTypeInv'
  <2>1. Others(h) /\ fraudPc'[h] = "crashed" /\ DOMAIN fraudPc' = FraudHandlers
        /\ UNCHANGED <<fraudRedis, fraudLocal>>
    BY <1>7, CrashMoves
  <2>2. DOMAIN fraudLocal' = FraudHandlers /\ DOMAIN fraudLocal'[h] = LocalFields
        /\ fraudLocal'[h].n = fraudLocal[h].n /\ DOMAIN fraudRedis' = RedisFields
        /\ fraudRedis'.ruleList = fraudRedis.ruleList
    BY <2>1 DEF FraudTypeInv
  <2> QED BY <2>1, <2>2, TypeKept
<1> QED
  BY <1>1, <1>2, <1>3, <1>4, <1>5, <1>6, <1>7 DEF FraudNext, FraudEvaluate, Evaluates, FraudHandlers

-----------------------------------------------------------------------------
(* The default rules *)

\* Rules and the list of them only grow, and so does what is remembered of
\* overlaps.
Grows ==
  /\ fraudRedis.rules \subseteq fraudRedis'.rules
  /\ \A k \in DOMAIN fraudRedis.ruleList :
       k \in DOMAIN fraudRedis'.ruleList /\ fraudRedis'.ruleList[k] = fraudRedis.ruleList[k]
  /\ fraudMet \subseteq fraudMet'

LEMMA HasKept ==
  ASSUME Grows, NEW b, NEW m
  PROVE  (Stored(b, m) => Stored(b, m)') /\ (Has(b, m) => Has(b, m)')
BY DEF Grows, Stored, Listed, Has

\* A step of h, which may be a start, keeps what the starts have done.
LEMMA StartKept ==
  ASSUME StartInv, Grows, NEW h \in FraudHandlers, Others(h), Begun',
         h \in FraudBoots => Progress(h)' /\ (Filling(h)' => Filling(h)),
         \A c \in FraudBoots \ {h} : \A k \in DOMAIN fraudRedis'.ruleList :
           fraudRedis'.ruleList[k][1] = c =>
             \E j \in DOMAIN fraudRedis.ruleList : fraudRedis.ruleList[j][1] = c
  PROVE  StartInv'
<1>1. ASSUME NEW b \in FraudBoots PROVE Progress(b)' /\ (Filling(b)' => Filling(b))
  <2>1. CASE b = h
    BY <2>1
  <2>2. CASE b # h
    <3>1. fraudPc'[b] = fraudPc[b] /\ fraudLocal'[b].n = fraudLocal[b].n
      BY <2>2 DEF Others, FraudHandlers
    <3>2. Progress(b)
      BY DEF StartInv
    <3>3. Progress(b)'
      BY <3>1, <3>2, HasKept DEF Progress
    <3>4. Filling(b)' => Filling(b)
      BY <2>2, <3>1 DEF Filling
    <3> QED BY <3>3, <3>4
  <2> QED BY <2>1, <2>2
<1>2. \A b, c \in FraudBoots : b # c /\ Filling(b)' /\ Filling(c)' => {b, c} \in fraudMet'
  BY <1>1 DEF StartInv, Grows
<1> QED BY <1>1, <1>2 DEF StartInv

LEMMA BegunKept ==
  ASSUME StartInv, Grows, NEW h \in FraudHandlers, Others(h),
         h \in FraudBoots => Filled(h)' \/ fraudPc[h] = "idle"
                             \/ fraudPc'[h] \in {"setRule", "pushRule", "crashed"},
         FraudUp \/ fraudPc[h] \notin {"absent", "idle"} \/ fraudRedis.ruleList # <<>>
  PROVE  Begun'
<1>1. Begun
  BY DEF StartInv, Untouched, FraudUp, FraudHandlers
<1>2. PICK b \in FraudBoots : fraudPc[b] \in {"setRule", "pushRule", "crashed"} \/ Filled(b)
  BY <1>1 DEF Begun
<1>3. Filled(b) => Filled(b)'
  BY HasKept DEF Filled
<1>4. CASE b = h
  BY <1>2, <1>3, <1>4 DEF Begun
<1>5. CASE b # h
  BY <1>2, <1>3, <1>5 DEF Begun, Others, FraudHandlers
<1> QED BY <1>4, <1>5

\* A step that leaves the rules alone.
LEMMA StartAside ==
  ASSUME StartInv, NEW h \in FraudHandlers \ FraudBoots, Others(h),
         fraudRedis'.rules = fraudRedis.rules, fraudRedis'.ruleList = fraudRedis.ruleList,
         fraudMet \subseteq fraudMet', FraudUp \/ fraudPc[h] \notin {"absent", "idle"}
  PROVE  StartInv'
<1>1. Grows
  BY DEF Grows
<1> QED BY <1>1, StartKept, BegunKept

LEMMA BootStep ==
  ASSUME FraudTypeInv, StartInv, NEW b \in FraudBoots, FraudBoot(b)
  PROVE  StartInv'
<1>1. b \in FraudHandlers /\ Others(b) /\ fraudPc[b] = "idle" /\ UNCHANGED fraudRedis
  BY RuleMoves DEF FraudBoot, FraudHandlers
<1>2. fraudLocal'[b].n = 1 /\ fraudMet \subseteq fraudMet'
  BY <1>1 DEF FraudBoot, FraudTypeInv, LocalFields
<1>3. Grows
  BY <1>1, <1>2 DEF Grows
<1>4. fraudRedis.ruleList \in Seq((FraudBoots \cup FraudAdmins) \X Nat)
  BY DEF FraudTypeInv
<1>5. CASE FraudHasRules(fraudRedis.ruleList)
  <2>1. fraudPc'[b] = "up"
    BY <1>1, <1>5 DEF FraudBoot, FraudGoto, FraudTypeInv
  <2>2. fraudRedis.ruleList # <<>>
    BY <1>5 DEF FraudHasRules
  <2>3. Progress(b)' /\ (Filling(b)' => Filling(b))
    BY <1>1, <2>1 DEF Progress, Filling
  <2> QED BY <1>1, <1>3, <2>2, <2>3, BegunKept, StartKept
<1>6. CASE ~FraudHasRules(fraudRedis.ruleList)
  <2>1. fraudRedis.ruleList = <<>>
    BY <1>4, <1>6 DEF FraudHasRules
  <2>2. /\ fraudPc'[b] = "setRule"
        /\ fraudMet' = fraudMet \cup
             {{b, c} : c \in FraudAt(b, FraudBoots, {"setRule", "pushRule"})}
    BY <1>1, <1>6 DEF FraudBoot, FraudGoto, FraudTypeInv
  <2>3. 1 \in DOMAIN FraudDefaults
    BY FraudAssumption
  <2>4. Begun'
    BY <2>2 DEF Begun
  <2>5. Progress(b)'
    BY <1>2, <2>2, <2>3 DEF Progress
  <2>6. ASSUME NEW c \in FraudBoots, c # b
        PROVE  /\ Progress(c)' /\ (Filling(c)' => Filling(c))
               /\ Filling(c) => {b, c} \in fraudMet'
    <3>1. fraudPc'[c] = fraudPc[c] /\ fraudLocal'[c].n = fraudLocal[c].n
      BY <1>1, <2>6 DEF Others, FraudHandlers
    <3>2. Progress(c)'
      BY <1>3, <3>1, HasKept DEF Progress, StartInv
    <3>3. Filling(c)' => Filling(c)
      BY <1>1, <3>1 DEF Filling
    <3>4. Filling(c) => c \in FraudAt(b, FraudBoots, {"setRule", "pushRule"})
      BY <2>1, <2>6 DEF Filling, FraudAt
    <3> QED BY <2>2, <3>2, <3>3, <3>4
  <2>7. \A c, d \in FraudBoots : c # d /\ Filling(c)' /\ Filling(d)' => {c, d} \in fraudMet'
    <3> SUFFICES ASSUME NEW c \in FraudBoots, NEW d \in FraudBoots,
                        c # d, Filling(c)', Filling(d)'
                 PROVE  {c, d} \in fraudMet'
      OBVIOUS
    <3>1. CASE c = b
      BY <2>6, <3>1
    <3>2. CASE d = b
      <4>1. {d, c} = {c, d}
        OBVIOUS
      <4> QED BY <2>6, <3>2, <4>1
    <3>3. CASE c # b /\ d # b
      BY <1>2, <2>6, <3>3 DEF StartInv
    <3> QED BY <3>1, <3>2, <3>3
  <2> QED BY <2>4, <2>5, <2>6, <2>7 DEF StartInv
<1> QED BY <1>5, <1>6

LEMMA SetRuleStep ==
  ASSUME FraudTypeInv, StartInv, NEW h \in FraudHandlers, FraudSetRule(h)
  PROVE  StartInv'
<1>1. Others(h) /\ fraudPc[h] = "setRule" /\ UNCHANGED <<fraudMet, fraudLocal>>
  BY RuleMoves DEF FraudSetRule, fraudAside
<1>2. fraudPc'[h] = "pushRule"
  BY OnlyMoves DEF FraudSetRule
<1> DEFINE body == IF h \in FraudBoots THEN FraudDefault(fraudLocal[h].n) ELSE fraudLocal[h].body
<1> DEFINE rule == [by |-> h, n |-> fraudLocal[h].n, body |-> body]
<1>3. /\ fraudRedis'.rules = fraudRedis.rules \cup {rule}
      /\ fraudRedis'.ruleList = fraudRedis.ruleList
  BY DEF FraudSetRule, FraudTypeInv, RedisFields
<1>4. Grows
  BY <1>1, <1>3 DEF Grows
<1>5. h \in FraudBoots => Progress(h)' /\ (Filling(h)' => Filling(h))
  <2> SUFFICES ASSUME h \in FraudBoots PROVE Progress(h)' /\ (Filling(h)' => Filling(h))
    OBVIOUS
  <2>1. body.type = FraudDefaults[fraudLocal[h].n]
    BY DEF FraudDefault
  <2> HIDE DEF body
  <2>2. Stored(h, fraudLocal[h].n)'
    <3>1. rule \in fraudRedis'.rules /\ rule.by = h /\ rule.n = fraudLocal[h].n
          /\ rule.body.type = FraudDefaults[fraudLocal[h].n]
      BY <1>3, <2>1
    <3> HIDE DEF rule
    <3> QED BY <1>1, <3>1 DEF Stored
  <2>3. Progress(h)
    BY DEF StartInv
  <2>4. Progress(h)'
    BY <1>1, <1>2, <1>4, <2>2, <2>3, HasKept DEF Progress
  <2> QED BY <1>1, <2>4 DEF Filling
<1> QED BY <1>1, <1>2, <1>3, <1>4, <1>5, BegunKept, StartKept

LEMMA PushRuleStep ==
  ASSUME FraudTypeInv, StartInv, NEW h \in FraudHandlers, FraudPushRule(h)
  PROVE  StartInv'
<1> DEFINE list == fraudRedis.ruleList
<1>0. PICK n : n = fraudLocal[h].n
  OBVIOUS
<1>1. Others(h) /\ fraudPc[h] = "pushRule" /\ UNCHANGED fraudMet /\ n \in Nat
      /\ h \in FraudBoots \cup FraudAdmins
  BY <1>0, RuleMoves DEF FraudPushRule, fraudAside, FraudTypeInv
<1>2. /\ fraudRedis'.rules = fraudRedis.rules
      /\ fraudRedis'.ruleList = Append(list, <<h, n>>)
  BY <1>0 DEF FraudPushRule, FraudTypeInv, RedisFields
<1>3. fraudLocal'[h].n = n + 1
  BY <1>0 DEF FraudPushRule, FraudTypeInv, LocalFields
<1>4. list \in Seq((FraudBoots \cup FraudAdmins) \X Nat) /\ Len(list) \in Nat
  BY DEF FraudTypeInv
<1>5. /\ DOMAIN fraudRedis'.ruleList = 1..(Len(list) + 1)
      /\ \A k \in DOMAIN list : fraudRedis'.ruleList[k] = list[k]
      /\ fraudRedis'.ruleList[Len(list) + 1] = <<h, n>>
  BY <1>1, <1>2, <1>4
<1>6. Grows
  BY <1>1, <1>2, <1>4, <1>5 DEF Grows
<1>7. \A c \in FraudBoots \ {h} : \A k \in DOMAIN fraudRedis'.ruleList :
        fraudRedis'.ruleList[k][1] = c => \E j \in DOMAIN list : list[j][1] = c
  BY <1>4, <1>5
<1>8. CASE h \notin FraudBoots
  BY <1>1, <1>6, <1>7, <1>8, BegunKept, StartKept
<1>9. CASE h \in FraudBoots
  <2>1. fraudPc'[h] = IF n < Len(FraudDefaults) THEN "setRule" ELSE "up"
    <3>1. h \notin FraudAdmins
      BY <1>9, FraudAssumption
    <3> QED BY <1>0, <3>1 DEF FraudPushRule, FraudGoto, FraudTypeInv
  <2>2. Progress(h)
    BY <1>9 DEF StartInv
  <2>3. n \in DOMAIN FraudDefaults /\ Stored(h, n) /\ \A m \in 1..(n - 1) : Has(h, m)
    BY <1>0, <1>1, <2>2 DEF Progress
  <2>4. Has(h, n)'
    <3>1. Stored(h, n)'
      BY <1>6, <2>3, HasKept
    <3>2. Len(list) + 1 \in DOMAIN fraudRedis'.ruleList
      BY <1>4, <1>5
    <3>3. \E k \in DOMAIN fraudRedis'.ruleList : fraudRedis'.ruleList[k] = <<h, n>>
      BY <1>5, <3>2
    <3> QED BY <3>1, <3>3 DEF Has, Listed
  <2>5. \A m \in 1..n : Has(h, m)'
    BY <1>1, <1>6, <2>3, <2>4, HasKept
  <2>6. FraudDefaults \in Seq(RuleTypes) /\ Len(FraudDefaults) \in Nat
        /\ DOMAIN FraudDefaults = 1..Len(FraudDefaults)
    BY FraudAssumption
  <2>7. CASE n < Len(FraudDefaults)
    <3>1. fraudPc'[h] = "setRule"
      BY <2>1, <2>7
    <3>2. n + 1 \in DOMAIN FraudDefaults /\ (n + 1) - 1 = n
      BY <1>1, <2>6, <2>7
    <3>3. Progress(h)'
      BY <1>3, <2>5, <3>1, <3>2 DEF Progress
    <3>4. Filling(h)
      BY <1>1 DEF Filling
    <3> QED BY <1>1, <1>6, <1>7, <3>1, <3>3, <3>4, BegunKept, StartKept
  <2>8. CASE ~(n < Len(FraudDefaults))
    <3>1. fraudPc'[h] = "up"
      BY <2>1, <2>8
    <3>2. Filled(h)'
      BY <2>3, <2>5, <2>6, <2>8 DEF Filled
    <3>3. Progress(h)' /\ Filling(h)
      BY <1>1, <3>1 DEF Progress, Filling
    <3> QED BY <1>1, <1>6, <1>7, <3>2, <3>3, BegunKept, StartKept
  <2> QED BY <2>7, <2>8
<1> QED BY <1>8, <1>9

LEMMA StartStep ==
  ASSUME FraudTypeInv, StartInv, [FraudNext]_fraudVars
  PROVE  StartInv'
<1>1. CASE UNCHANGED fraudVars \/ FraudTick
  <2>1. UNCHANGED <<fraudRedis, fraudPc, fraudLocal, fraudMet>>
    BY <1>1 DEF fraudVars, FraudTick
  <2>2. \A b \in FraudBoots : Progress(b)' /\ (Filling(b)' <=> Filling(b))
                             /\ (Filled(b)' <=> Filled(b))
    BY <2>1 DEF StartInv, Progress, Filling, Filled, Has, Stored, Listed
  <2>3. (Begun \/ Untouched)'
    BY <2>1, <2>2 DEF StartInv, Begun, Untouched
  <2> QED BY <2>1, <2>2, <2>3 DEF StartInv
<1>2. ASSUME NEW c \in FraudChecks,
             Evaluates(c) \/ FraudStoreFlag(c) \/ FraudListFlag(c)
      PROVE  StartInv'
  <2>1. c \in FraudHandlers \ FraudBoots
    BY FraudAssumption DEF FraudHandlers
  <2>2. Others(c) /\ fraudPc[c] \notin {"absent", "idle"}
        /\ fraudRedis'.rules = fraudRedis.rules /\ fraudRedis'.ruleList = fraudRedis.ruleList
    BY <1>2, EvaluateMoves, FlagMoves DEF Steady
  <2>3. fraudMet \subseteq fraudMet'
    BY <1>2 DEF Evaluates, FraudAmount, FraudUnknown, FraudTrim, FraudCount, FraudAdd,
       FraudLookUpDevice, FraudAssociate, FraudLookUpLocation, FraudSetLocation, FraudStoreFlag,
       FraudListFlag, fraudAside
  <2> QED BY <2>1, <2>2, <2>3, StartAside
<1>3. ASSUME NEW h \in FraudHandlers,
             \/ h \in FraudChecks /\ \E t \in FraudRequests : FraudCheck(h, t)
             \/ h \in FraudAdmins /\ \E body \in FraudNewRules : FraudCreateRule(h, body)
             \/ h \in FraudAdmins /\ \E u \in FraudUsers : FraudOrderFreeze(h, u)
             \/ h \in FraudAdmins /\ \E f \in fraudRedis.flags : FraudReadFlag(h, f)
             \/ h \in FraudCrons /\ FraudScan(h)
      PROVE  StartInv'
  <2>1. h \in FraudHandlers \ FraudBoots
    BY <1>3, FraudAssumption
  <2>2. Others(h) /\ FraudUp /\ UNCHANGED <<fraudRedis, fraudMet>>
    BY <1>3, RequestMoves
  <2> QED BY <2>1, <2>2, StartAside
<1>4. ASSUME NEW h \in FraudHandlers,
             \/ h \in FraudAdmins
                /\ \E status \in {"open", "reviewed", "dismissed"} : FraudReviewFlag(h, status)
             \/ h \in FraudCrons /\ FraudDelete(h)
             \/ FraudFreeze(h) \/ FraudEmit(h)
      PROVE  StartInv'
  <2>1. /\ Others(h) /\ UNCHANGED fraudMet
        /\ fraudPc[h] \in {"review", "delete", "freeze", "freezeAlert", "alert"}
        /\ \A f \in {"rules", "ruleList"} : fraudRedis'[f] = fraudRedis[f]
    BY <1>4, EndMoves
  <2>2. h \in FraudHandlers \ FraudBoots
    BY <2>1 DEF FraudTypeInv, BootSteps
  <2>3. fraudRedis'.rules = fraudRedis.rules /\ fraudRedis'.ruleList = fraudRedis.ruleList
    BY <2>1
  <2> QED BY <2>1, <2>2, <2>3, StartAside
<1>5. ASSUME NEW h \in FraudHandlers, FraudCrash(h) PROVE StartInv'
  <2>1. /\ Others(h) /\ fraudPc[h] \notin {"absent", "idle"} /\ fraudPc'[h] = "crashed"
        /\ UNCHANGED <<fraudRedis, fraudLocal, fraudMet>>
    BY <1>5, CrashMoves
  <2>2. Grows
    BY <2>1 DEF Grows
  <2>3. Progress(h)' /\ (Filling(h)' => Filling(h))
    BY <2>1 DEF Progress, Filling
  <2> QED BY <2>1, <2>2, <2>3, BegunKept, StartKept
<1> QED
  BY <1>1, <1>2, <1>3, <1>4, <1>5, BootStep, SetRuleStep, PushRuleStep
     DEF FraudNext, FraudEvaluate, Evaluates, FraudHandlers

-----------------------------------------------------------------------------
(* New devices *)

\* Only a check that looks a device up begins to tell of it, and then it has
\* met whoever found the same device before.
LEMMA DeviceKept ==
  ASSUME DeviceInv, NEW h \in FraudHandlers, Others(h),
         fraudPc'[h] \notin {"absent", "idle"},
         h \in FraudChecks /\ fraudPc'[h] \in {"count", "add"} =>
           (FraudRule(h).type)' \in {"velocity_per_user", "velocity_per_ip"},
         fraudRedis.devices \subseteq fraudRedis'.devices, fraudMet \subseteq fraudMet',
         \A c \in FraudChecks : Found(c)' => FraudDevice(c)' = FraudDevice(c),
         \A c \in FraudChecks : Told(c)' => Told(c) \/ FraudDevice(c)' \in fraudRedis'.devices,
         \A c \in FraudChecks : Found(c)' =>
           \/ Found(c)
           \/ c = h /\ \A d \in FraudChecks \ {h} :
                         Found(d) /\ FraudDevice(d) = FraudDevice(h) => {h, d} \in fraudMet'
  PROVE  DeviceInv'
<1>1. ASSUME NEW c \in FraudChecks, fraudPc'[c] \in {"count", "add"}
      PROVE  (FraudRule(c).type)' \in {"velocity_per_user", "velocity_per_ip"}
  <2>1. CASE c = h
    BY <1>1, <2>1
  <2>2. CASE c # h
    BY <1>1, <2>2 DEF Others, FraudHandlers, DeviceInv, FraudRule
  <2> QED BY <2>1, <2>2
<1>2. \A c \in FraudChecks : Told(c)' => FraudDevice(c)' \in fraudRedis'.devices
  BY DEF Found, DeviceInv
<1>3. \A c \in FraudChecks : Found(c)' => fraudPc'[c] \notin {"absent", "idle"}
  BY DEF Others, FraudHandlers, DeviceInv
<1>4. ASSUME NEW c \in FraudChecks, NEW d \in FraudChecks, c # d, Found(c)', Found(d)',
             FraudDevice(c)' = FraudDevice(d)'
      PROVE  {c, d} \in fraudMet'
  <2>1. FraudDevice(c) = FraudDevice(d)
    BY <1>4
  <2>2. CASE Found(c) /\ Found(d)
    BY <1>4, <2>1, <2>2 DEF DeviceInv
  <2>3. CASE ~Found(c)
    BY <1>4, <2>1, <2>3
  <2>4. CASE ~Found(d)
    <3>1. d = h /\ Found(c) /\ {d, c} \in fraudMet'
      BY <1>4, <2>1, <2>4
    <3>2. {d, c} = {c, d}
      OBVIOUS
    <3> QED BY <3>1, <3>2
  <2> QED BY <2>2, <2>3, <2>4
<1> QED BY <1>1, <1>2, <1>3, <1>4 DEF DeviceInv

LEMMA ToldKept ==
  ASSUME NEW h \in FraudHandlers, Others(h), fraudRedis'.flags = fraudRedis.flags,
         h \in FraudAdmins => fraudPc'[h] # "review",
         NEW c \in FraudChecks,
         c = h => (fraudPc'[h] \in {"storeFlag", "listFlag"} =>
                     (FraudRule(h).type)' # "new_device")
  PROVE  Told(c)' => Told(c)
<1> SUFFICES ASSUME Told(c)' PROVE Told(c)
  OBVIOUS
<1>1. CASE fraudPc'[c] \in {"storeFlag", "listFlag"} /\ (FraudRule(c).type)' = "new_device"
  <2>1. c # h
    BY <1>1
  <2> QED BY <1>1, <2>1 DEF Others, FraudHandlers, FraudRule, Told
<1>2. CASE \E f \in fraudRedis'.flags : f.check = c /\ f.type = "new_device"
  BY <1>2 DEF Told
<1>3. CASE \E a \in FraudAdmins : /\ fraudPc'[a] = "review" /\ fraudLocal'[a].body.check = c
                                  /\ fraudLocal'[a].body.type = "new_device"
  BY <1>3 DEF Told, Others, FraudHandlers
<1> QED BY <1>1, <1>2, <1>3 DEF Told

\* A step that finds no device.
LEMMA DeviceAside ==
  ASSUME DeviceInv, NEW h \in FraudHandlers, Others(h),
         fraudPc'[h] \notin {"absent", "idle"},
         h \in FraudChecks => /\ fraudPc'[h] \notin {"count", "add", "associate"}
                              /\ Found(h)' => fraudLocal'[h].tx = fraudLocal[h].tx,
         fraudRedis'.devices = fraudRedis.devices, fraudMet \subseteq fraudMet',
         \A c \in FraudChecks : Told(c)' => Told(c)
  PROVE  DeviceInv'
<1>1. \A c \in FraudChecks : Found(c)' => FraudDevice(c)' = FraudDevice(c)
  BY DEF FraudDevice, Others, FraudHandlers
<1>2. \A c \in FraudChecks : Found(c)' => Found(c)
  BY DEF Found, Others, FraudHandlers
<1> QED BY <1>1, <1>2, DeviceKept

LEMMA EvaluateKeepsDevices ==
  ASSUME FraudTypeInv, DeviceInv, NEW c \in FraudChecks, Evaluates(c)
  PROVE  DeviceInv'
<1>1. c \in FraudHandlers /\ c \notin FraudAdmins /\ Others(c)
  BY EvaluateMoves, FraudAssumption DEF FraudHandlers
<1>2. /\ fraudLocal'[c].tx = fraudLocal[c].tx /\ fraudRedis'.flags = fraudRedis.flags
      /\ fraudPc'[c] \notin {"absent", "idle", "listFlag"}
  BY EvaluateMoves DEF Steady
<1>3. \A d \in FraudChecks : FraudDevice(d)' = FraudDevice(d)
  BY <1>1, <1>2 DEF FraudDevice, Others, FraudHandlers
<1>4. \A d \in FraudChecks \ {c} : (Told(d)' => Told(d)) /\ (Found(d)' => Found(d))
  BY <1>1, <1>2, ToldKept DEF Found, Others, FraudHandlers
\* A rule that is kept or given up.
<1>5. ASSUME fraudPc'[c] \notin {"count", "add", "associate"},
             fraudPc'[c] = "storeFlag" => (FraudRule(c).type)' # "new_device",
             fraudRedis'.devices = fraudRedis.devices, fraudMet \subseteq fraudMet'
      PROVE  DeviceInv'
  <2>1. Told(c)' => Told(c)
    BY <1>1, <1>2, <1>5, ToldKept
  <2> QED BY <1>1, <1>2, <1>4, <1>5, <2>1, DeviceAside
<1>6. ASSUME FraudAdvance(c, fraudLocal[c]), fraudRedis'.devices = fraudRedis.devices,
             UNCHANGED fraudMet
      PROVE  DeviceInv'
  <2>1. fraudPc'[c] \in {"rule", "freeze", "alert", "done"}
    BY <1>1, <1>6, Advances DEF FraudTypeInv
  <2> QED BY <1>5, <1>6, <2>1
<1>7. ASSUME FraudTrigger(c), FraudRule(c).type # "new_device",
             fraudRedis'.devices = fraudRedis.devices, UNCHANGED fraudMet
      PROVE  DeviceInv'
  <2>1. fraudPc'[c] = "storeFlag" /\ UNCHANGED fraudLocal
    BY <1>7, Triggers
  <2>2. (FraudRule(c).type)' # "new_device"
    BY <1>7, <2>1 DEF FraudRule
  <2> QED BY <1>5, <1>7, <2>1, <2>2
<1>8. CASE FraudAmount(c) \/ FraudUnknown(c)
  <2>1. UNCHANGED <<fraudRedis, fraudMet>>
    BY <1>8 DEF FraudAmount, FraudUnknown, fraudAside
  <2> QED BY <1>6, <1>7, <1>8, <2>1 DEF FraudAmount, FraudUnknown, FraudIsAt
<1>9. ASSUME fraudPc'[c] \in {"count", "add"}, (FraudRule(c).type)' = FraudRule(c).type,
             FraudRule(c).type \in {"velocity_per_user", "velocity_per_ip"},
             fraudRedis'.devices = fraudRedis.devices, UNCHANGED fraudMet
      PROVE  DeviceInv'
  <2>1. Told(c)' => Told(c)
    BY <1>1, <1>2, <1>9, ToldKept
  <2>2. Found(c)' => Found(c)
    BY <1>9, <2>1 DEF Found
  <2> QED BY <1>1, <1>2, <1>3, <1>4, <1>9, <2>1, <2>2, DeviceKept
<1>10. CASE FraudTrim(c)
  <2>1. fraudPc'[c] = "count" /\ UNCHANGED <<fraudLocal, fraudMet>>
        /\ FraudRule(c).type \in {"velocity_per_user", "velocity_per_ip"}
    BY <1>1, <1>10, OnlyMoves DEF FraudTrim, FraudIsAt, fraudAside
  <2>2. fraudRedis'.devices = fraudRedis.devices
    BY <1>10 DEF FraudTrim, FraudTypeInv, RedisFields
  <2> QED BY <1>9, <2>1, <2>2 DEF FraudRule
<1>11. CASE FraudCount(c)
  <2>1. fraudPc'[c] = "add" /\ UNCHANGED <<fraudRedis, fraudMet>> /\ fraudPc[c] = "count"
    BY <1>1, <1>11, OnlyMoves DEF FraudCount, fraudAside
  <2>2. fraudLocal'[c].rules = fraudLocal[c].rules
    BY <1>1, <1>11 DEF FraudCount, FraudTypeInv, LocalFields
  <2>3. FraudRule(c).type \in {"velocity_per_user", "velocity_per_ip"}
    BY <2>1 DEF DeviceInv
  <2> QED BY <1>9, <2>1, <2>2, <2>3 DEF FraudRule
<1>12. CASE FraudAdd(c)
  <2>1. fraudRedis'.devices = fraudRedis.devices /\ UNCHANGED fraudMet /\ fraudPc[c] = "add"
    BY <1>12 DEF FraudAdd, FraudTypeInv, RedisFields, fraudAside
  <2>2. FraudRule(c).type # "new_device"
    BY <2>1 DEF DeviceInv
  <2> QED BY <1>6, <1>7, <1>12, <2>1, <2>2 DEF FraudAdd
<1>13. CASE FraudLookUpDevice(c)
  <2>1. CASE FraudDevice(c) \in fraudRedis.devices
    BY <1>6, <1>13, <2>1 DEF FraudLookUpDevice
  <2>2. CASE FraudDevice(c) \notin fraudRedis.devices
    <3>1. /\ FraudGoto(c, "associate") /\ UNCHANGED <<fraudRedis, fraudLocal>>
          /\ fraudMet' = fraudMet \cup {{c, d} : d \in FraudSameDevice(c)}
      BY <1>13, <2>2 DEF FraudLookUpDevice
    <3>2. fraudPc'[c] = "associate"
      BY <1>1, <3>1, OnlyMoves
    <3>3. Told(c)' => Told(c)
      BY <1>1, <1>2, <3>2, ToldKept
    <3>4. ASSUME NEW d \in FraudChecks \ {c}, Found(d), FraudDevice(d) = FraudDevice(c)
          PROVE  {c, d} \in fraudMet'
      <4>1. ~Told(d)
        BY <2>2, <3>4 DEF DeviceInv
      <4>2. d \in FraudSameDevice(c)
        BY <3>4, <4>1 DEF FraudSameDevice, FraudAt, Found
      <4> QED BY <3>1, <4>2
    <3> QED BY <1>1, <1>2, <1>3, <1>4, <3>1, <3>2, <3>3, <3>4, DeviceKept
  <2> QED BY <2>1, <2>2
<1>14. CASE FraudAssociate(c)
  <2>1. /\ FraudTrigger(c) /\ fraudPc[c] = "associate" /\ UNCHANGED fraudMet
        /\ fraudRedis'.devices = fraudRedis.devices \cup {FraudDevice(c)}
    BY <1>14 DEF FraudAssociate, FraudRemember, FraudTypeInv, RedisFields, fraudAside
  <2>2. fraudPc'[c] = "storeFlag"
    BY <2>1, Triggers
  <2> QED BY <1>1, <1>2, <1>3, <1>4, <2>1, <2>2, DeviceKept DEF Found
<1>15. CASE FraudLookUpLocation(c)
  <2>1. PICK s \in {"locate", "storeFlag"} : FraudGoto(c, s)
    BY <1>15 DEF FraudLookUpLocation
  <2>2. FraudRule(c).type # "new_device" /\ UNCHANGED <<fraudRedis, fraudLocal, fraudMet>>
    BY <1>15 DEF FraudLookUpLocation, FraudIsAt, fraudAside
  <2>3. fraudPc'[c] = s
    BY <1>1, <2>1, OnlyMoves
  <2>4. (FraudRule(c).type)' # "new_device"
    BY <2>2 DEF FraudRule
  <2> QED BY <1>5, <2>2, <2>3, <2>4
<1>16. CASE FraudSetLocation(c)
  <2>1. fraudRedis'.devices = fraudRedis.devices /\ UNCHANGED fraudMet
        /\ FraudAdvance(c, fraudLocal[c])
    BY <1>16 DEF FraudSetLocation, FraudTypeInv, RedisFields, fraudAside
  <2> QED BY <1>6, <2>1
<1> QED BY <1>8, <1>10, <1>11, <1>12, <1>13, <1>14, <1>15, <1>16 DEF Evaluates

LEMMA FlagsKeepDevices ==
  ASSUME FraudTypeInv, DeviceInv, NEW c \in FraudChecks, FraudStoreFlag(c) \/ FraudListFlag(c)
  PROVE  DeviceInv'
<1>1. /\ c \in FraudHandlers /\ c \notin FraudAdmins /\ Others(c) /\ UNCHANGED fraudMet
      /\ fraudPc'[c] \in {"listFlag", "rule", "freeze", "alert", "done"}
      /\ fraudLocal'[c].tx = fraudLocal[c].tx /\ fraudRedis'.devices = fraudRedis.devices
  BY FlagMoves, FraudAssumption DEF FraudHandlers
<1>2. CASE FraudStoreFlag(c)
  <2>1. /\ fraudPc[c] = "storeFlag" /\ UNCHANGED fraudLocal
        /\ \A f \in fraudRedis'.flags :
             f \in fraudRedis.flags \/ (f.check = c /\ f.type = FraudRule(c).type)
    BY <1>2 DEF FraudStoreFlag, FraudTypeInv, RedisFields
  <2>2. ASSUME NEW d \in FraudChecks, Told(d)' PROVE Told(d)
    <3>1. CASE fraudPc'[d] \in {"storeFlag", "listFlag"} /\ (FraudRule(d).type)' = "new_device"
      <4>1. fraudPc[d] \in {"storeFlag", "listFlag"}
        BY <1>1, <2>1, <3>1 DEF Others, FraudHandlers
      <4>2. FraudRule(d).type = "new_device"
        BY <2>1, <3>1 DEF FraudRule
      <4> QED BY <4>1, <4>2 DEF Told
    <3>2. CASE \E f \in fraudRedis'.flags : f.check = d /\ f.type = "new_device"
      BY <2>1, <3>2 DEF Told
    <3>3. CASE \E a \in FraudAdmins : /\ fraudPc'[a] = "review" /\ fraudLocal'[a].body.check = d
                                      /\ fraudLocal'[a].body.type = "new_device"
      BY <1>1, <3>3 DEF Told, Others, FraudHandlers
    <3> QED BY <2>2, <3>1, <3>2, <3>3 DEF Told
  <2> QED BY <1>1, <2>2, DeviceAside
<1>3. CASE FraudListFlag(c)
  <2>1. fraudRedis'.flags = fraudRedis.flags
    BY <1>3 DEF FraudListFlag, FraudTypeInv, RedisFields
  <2>2. fraudPc'[c] \in {"rule", "freeze", "alert", "done"}
    <3> DEFINE l == [fraudLocal[c] EXCEPT !.flags = @ + 1,
                                          !.block = @ \/ FraudRule(c).action = "block"]
    <3>1. FraudAdvance(c, l)
      BY <1>3 DEF FraudListFlag
    <3>2. DOMAIN l = LocalFields
      BY <1>1 DEF FraudTypeInv, LocalFields
    <3> HIDE DEF l
    <3> QED BY <3>1, <3>2, Advances
  <2> QED BY <1>1, <2>1, <2>2, ToldKept, DeviceAside
<1> QED BY <1>2, <1>3

LEMMA DeviceStep ==
  ASSUME FraudTypeInv, DeviceInv, FreezeInv, [FraudNext]_fraudVars
  PROVE  DeviceInv'
<1>1. CASE UNCHANGED fraudVars \/ FraudTick
  <2>1. UNCHANGED <<fraudRedis, fraudPc, fraudLocal, fraudMet>>
    BY <1>1 DEF fraudVars, FraudTick
  <2>2. \A c \in FraudChecks : /\ Told(c)' = Told(c) /\ Found(c)' = Found(c)
                               /\ FraudDevice(c)' = FraudDevice(c) /\ FraudRule(c)' = FraudRule(c)
    BY <2>1 DEF Told, Found, FraudDevice, FraudRule
  <2> QED BY <2>1, <2>2 DEF DeviceInv
<1>2. ASSUME NEW h \in FraudHandlers,
             \/ h \in FraudChecks /\ \E t \in FraudRequests : FraudCheck(h, t)
             \/ h \in FraudAdmins /\ \E body \in FraudNewRules : FraudCreateRule(h, body)
             \/ h \in FraudAdmins /\ \E u \in FraudUsers : FraudOrderFreeze(h, u)
             \/ h \in FraudAdmins /\ \E f \in fraudRedis.flags : FraudReadFlag(h, f)
             \/ h \in FraudCrons /\ FraudScan(h)
      PROVE  DeviceInv'
  <2>1. /\ Others(h) /\ UNCHANGED <<fraudRedis, fraudMet>> /\ fraudPc[h] = "idle"
        /\ h \in FraudChecks => fraudPc'[h] \in {"rule", "done"}
        /\ h \in FraudAdmins => fraudPc'[h] \in {"setRule", "freeze", "review"}
        /\ h \in FraudCrons  => fraudPc'[h] \in {"delete", "done"}
    BY <1>2, RequestMoves
  <2>2. CASE ~(h \in FraudAdmins /\ fraudPc'[h] = "review")
    <3>1. \A c \in FraudChecks : Told(c)' => Told(c)
      BY <2>1, <2>2, ToldKept
    <3>2. h \in FraudChecks => ~Found(h)'
      BY <2>1, <3>1 DEF DeviceInv, Found
    <3> QED BY <1>2, <2>1, <3>1, <3>2, DeviceAside
  <2>3. CASE h \in FraudAdmins /\ fraudPc'[h] = "review"
    <3>1. h \notin FraudChecks /\ h \notin FraudCrons
      BY <2>3, FraudAssumption
    <3>2. PICK f \in fraudRedis.flags : FraudReadFlag(h, f)
      BY <1>2, <2>3, <3>1, OnlyMoves DEF FraudCreateRule, FraudOrderFreeze
    <3>3. fraudLocal'[h].body = f
      BY <3>2 DEF FraudReadFlag, FraudTypeInv, LocalFields
    <3>4. ASSUME NEW c \in FraudChecks, Told(c)' PROVE Told(c)
      <4>1. c # h
        BY <3>1
      <4>2. FraudRule(c)' = FraudRule(c) /\ fraudPc'[c] = fraudPc[c]
        BY <2>1, <4>1 DEF FraudRule, Others, FraudHandlers
      <4>3. ASSUME NEW a \in FraudAdmins, fraudPc'[a] = "review", fraudLocal'[a].body.check = c,
                   fraudLocal'[a].body.type = "new_device"
            PROVE  Told(c)
        <5>1. CASE a = h
          BY <3>3, <4>3, <5>1 DEF Told
        <5>2. CASE a # h
          BY <2>1, <4>3, <5>2 DEF Told, Others, FraudHandlers
        <5> QED BY <5>1, <5>2
      <4> QED BY <2>1, <3>4, <4>2, <4>3 DEF Told
    <3> QED BY <2>1, <2>3, <3>1, <3>4, DeviceAside
  <2> QED BY <2>2, <2>3
<1>3. ASSUME NEW h \in FraudHandlers,
             \/ h \in FraudAdmins
                /\ \E status \in {"open", "reviewed", "dismissed"} : FraudReviewFlag(h, status)
             \/ h \in FraudCrons /\ FraudDelete(h)
             \/ FraudFreeze(h) \/ FraudEmit(h)
      PROVE  DeviceInv'
  <2>1. /\ Others(h) /\ UNCHANGED fraudMet
        /\ fraudPc'[h] \in {"freezeAlert", "alert", "done"}
        /\ \A f \in {"tx"} : fraudLocal'[h][f] = fraudLocal[h][f]
        /\ \A f \in {"devices"} : fraudRedis'[f] = fraudRedis[f]
        /\ fraudRedis'.flags = fraudRedis.flags
           \/ \E status : h \in FraudAdmins /\ FraudReviewFlag(h, status)
    BY <1>3, EndMoves
  <2>2. ASSUME NEW c \in FraudChecks, Told(c)' PROVE Told(c)
    <3>1. CASE fraudRedis'.flags = fraudRedis.flags
      BY <2>1, <2>2, <3>1, ToldKept
    <3>2. CASE \E status : h \in FraudAdmins /\ FraudReviewFlag(h, status)
      <4>1. PICK status : h \in FraudAdmins /\ FraudReviewFlag(h, status)
        BY <3>2
      <4> DEFINE f == fraudLocal[h].body
                 g == [f EXCEPT !.status = status]
      <4>2. /\ fraudPc[h] = "review" /\ UNCHANGED fraudLocal
            /\ fraudRedis'.flags \subseteq fraudRedis.flags \cup {g}
        BY <4>1 DEF FraudReviewFlag, FraudTypeInv, RedisFields
      <4>3. g.check = f.check /\ g.type = f.type
        BY <4>1, <4>2 DEF FreezeInv, IsFlag
      <4> HIDE DEF g
      <4>4. ASSUME NEW e \in fraudRedis'.flags, e.check = c, e.type = "new_device"
            PROVE  Told(c)
        BY <4>1, <4>2, <4>3, <4>4 DEF Told
      <4>5. ASSUME NEW a \in FraudAdmins, fraudPc'[a] = "review", fraudLocal'[a].body.check = c,
                   fraudLocal'[a].body.type = "new_device"
            PROVE  Told(c)
        BY <2>1, <4>5 DEF Told, Others, FraudHandlers
      <4>6. ASSUME fraudPc'[c] \in {"storeFlag", "listFlag"}, (FraudRule(c).type)' = "new_device"
            PROVE  Told(c)
        BY <2>1, <4>2, <4>6 DEF Told, Others, FraudHandlers, FraudRule
      <4> QED BY <2>2, <4>4, <4>5, <4>6 DEF Told
    <3> QED BY <2>1, <3>1, <3>2
  <2>3. fraudLocal'[h].tx = fraudLocal[h].tx /\ fraudRedis'.devices = fraudRedis.devices
    BY <2>1
  <2> QED BY <2>1, <2>2, <2>3, DeviceAside
<1>4. ASSUME NEW h \in FraudHandlers,
             (h \in FraudBoots /\ FraudBoot(h)) \/ FraudSetRule(h) \/ FraudPushRule(h)
      PROVE  DeviceInv'
  <2>1. /\ Others(h) /\ h \in FraudBoots \cup FraudAdmins /\ fraudMet \subseteq fraudMet'
        /\ h \in FraudBoots => fraudPc'[h] \in {"setRule", "pushRule", "up"}
        /\ h \in FraudAdmins => fraudPc'[h] \in {"pushRule", "done"}
        /\ \A f \in {"flags", "devices"} : fraudRedis'[f] = fraudRedis[f]
    BY <1>4, RuleMoves
  <2>2. h \notin FraudChecks
    BY <2>1, FraudAssumption
  <2>3. \A c \in FraudChecks : Told(c)' => Told(c)
    BY <2>1, <2>2, ToldKept
  <2> QED BY <2>1, <2>2, <2>3, DeviceAside
<1>5. ASSUME NEW h \in FraudHandlers, FraudCrash(h) PROVE DeviceInv'
  <2>1. /\ Others(h) /\ fraudPc'[h] = "crashed" /\ UNCHANGED <<fraudRedis, fraudLocal, fraudMet>>
    BY <1>5, CrashMoves
  <2>2. \A c \in FraudChecks : Told(c)' => Told(c)
    BY <2>1, ToldKept
  <2> QED BY <2>1, <2>2, DeviceAside
<1> QED
  BY <1>1, <1>2, <1>3, <1>4, <1>5, EvaluateKeepsDevices, FlagsKeepDevices
     DEF FraudNext, FraudEvaluate, Evaluates, FraudHandlers

-----------------------------------------------------------------------------
(* Frozen accounts *)

\* Flags are kept, and with them the reasons of every freeze.
LEMMA FreezeKept ==
  ASSUME FreezeInv, NEW h \in FraudHandlers, Others(h),
         IsFiniteSet(fraudRedis'.flags), \A f \in fraudRedis'.flags : IsFlag(f),
         \A c \in FraudChecks, n \in Nat : HasFlag(c, n) => HasFlag(c, n)',
         fraudRedis.flagList \subseteq fraudRedis'.flagList,
         fraudOrdered \subseteq fraudOrdered',
         h \in FraudChecks =>
           /\ Counted(h)'
           /\ fraudLocal[h].flags >= FraudThreshold =>
                fraudLocal'[h].flags >= FraudThreshold /\ fraudLocal'[h].tx = fraudLocal[h].tx,
         h \in FraudAdmins =>
           /\ fraudPc'[h] = "review" => IsFlag(fraudLocal'[h].body)
           /\ fraudPc'[h] = "freeze" => fraudLocal'[h].target \in fraudOrdered',
         \A u \in fraudRedis'.frozen \ fraudOrdered' : u \in fraudRedis.frozen \/ Explained(u)
  PROVE  FreezeInv'
<1>1. ASSUME NEW c \in FraudChecks PROVE Counted(c)'
  <2>1. CASE c = h
    BY <2>1
  <2>2. CASE c # h
    <3>1. fraudPc'[c] = fraudPc[c] /\ fraudLocal'[c] = fraudLocal[c]
      BY <2>2 DEF Others, FraudHandlers
    <3>2. Counted(c)
      BY DEF FreezeInv
    <3>3. fraudLocal[c].flags \in Nat
      BY <3>2 DEF Counted
    <3>4. \A n \in 1..fraudLocal[c].flags : n \in Nat
      BY <3>3
    <3>5. \A n \in 1..fraudLocal'[c].flags : HasFlag(c, n)' /\ <<c, n>> \in fraudRedis'.flagList
      BY <3>1, <3>2, <3>4 DEF Counted
    <3>6. PICK n \in Nat : n = fraudLocal[c].flags + 1
      BY <3>3
    <3>7. fraudPc[c] = "listFlag" => HasFlag(c, n)'
      BY <3>2, <3>6 DEF Counted
    <3>8. fraudPc'[c] = "listFlag" => HasFlag(c, fraudLocal[c].flags + 1)'
      BY <3>1, <3>6, <3>7
    <3> QED BY <3>1, <3>2, <3>3, <3>5, <3>8 DEF Counted
  <2> QED BY <2>1, <2>2
<1>2. \A a \in FraudAdmins :
        /\ fraudPc'[a] = "review" => IsFlag(fraudLocal'[a].body)
        /\ fraudPc'[a] = "freeze" => fraudLocal'[a].target \in fraudOrdered'
  BY DEF FreezeInv, Others, FraudHandlers
<1>3. ASSUME NEW u, Explained(u) PROVE Explained(u)'
  <2>1. PICK c \in FraudChecks :
          fraudLocal[c].tx.user = u /\ fraudLocal[c].flags >= FraudThreshold
    BY <1>3 DEF Explained
  <2>2. fraudLocal'[c].tx = fraudLocal[c].tx /\ fraudLocal'[c].flags >= FraudThreshold
    BY <2>1 DEF Others, FraudHandlers
  <2> QED BY <2>1, <2>2 DEF Explained
<1>4. \A u \in fraudRedis'.frozen \ fraudOrdered' : Explained(u)'
  BY <1>3 DEF FreezeInv
<1> QED BY <1>1, <1>2, <1>4 DEF FreezeInv

\* A step that adds no flag and freezes nobody.
LEMMA FreezeAside ==
  ASSUME FreezeInv, NEW h \in FraudHandlers, Others(h),
         fraudRedis'.flags = fraudRedis.flags, fraudRedis'.flagList = fraudRedis.flagList,
         fraudRedis'.frozen = fraudRedis.frozen, fraudOrdered \subseteq fraudOrdered',
         h \in FraudChecks =>
           /\ fraudLocal'[h].flags = fraudLocal[h].flags
           /\ fraudLocal[h].flags >= FraudThreshold => fraudLocal'[h].tx = fraudLocal[h].tx
           /\ fraudPc'[h] \notin {"absent", "idle", "listFlag"}
           /\ fraudPc'[h] = "freeze" => fraudLocal[h].flags >= FraudThreshold,
         h \in FraudAdmins =>
           /\ fraudPc'[h] = "review" => IsFlag(fraudLocal'[h].body)
           /\ fraudPc'[h] = "freeze" => fraudLocal'[h].target \in fraudOrdered'
  PROVE  FreezeInv'
<1>1. \A c \in FraudChecks, n \in Nat : HasFlag(c, n) => HasFlag(c, n)'
  BY DEF HasFlag
<1>2. ASSUME h \in FraudChecks PROVE Counted(h)'
  <2>1. Counted(h)
    BY <1>2 DEF FreezeInv
  <2>2. \A n \in 1..fraudLocal[h].flags : n \in Nat
    BY <2>1 DEF Counted
  <2>3. \A n \in 1..fraudLocal'[h].flags : HasFlag(h, n)' /\ <<h, n>> \in fraudRedis'.flagList
    BY <1>1, <1>2, <2>1, <2>2 DEF Counted
  <2> QED BY <1>2, <2>1, <2>3 DEF Counted
<1>3. IsFiniteSet(fraudRedis'.flags) /\ \A f \in fraudRedis'.flags : IsFlag(f)
  BY DEF FreezeInv
<1> QED BY <1>1, <1>2, <1>3, FreezeKept

LEMMA EvaluateKeepsFreezes ==
  ASSUME FraudTypeInv, FreezeInv, NEW c \in FraudChecks, Evaluates(c)
  PROVE  FreezeInv'
<1>1. c \in FraudHandlers /\ c \notin FraudAdmins
  BY FraudAssumption DEF FraudHandlers
<1> QED BY <1>1, EvaluateMoves, FreezeAside DEF Steady

LEMMA StoreFlagKeepsFreezes ==
  ASSUME FraudTypeInv, FreezeInv, NEW c \in FraudChecks, FraudStoreFlag(c)
  PROVE  FreezeInv'
<1>1. c \in FraudHandlers /\ c \notin FraudAdmins /\ Others(c) /\ UNCHANGED fraudOrdered
      /\ fraudRedis'.frozen = fraudRedis.frozen
  BY FlagMoves, FraudAssumption DEF FraudHandlers
<1>2. Counted(c)
  BY DEF FreezeInv
<1>3. PICK n \in Nat : n = fraudLocal[c].flags + 1
  BY <1>2 DEF Counted
<1> DEFINE flag == [check |-> c, n |-> fraudLocal[c].flags + 1, type |-> FraudRule(c).type,
                    status |-> "open"]
<1>4. PICK f : f = flag
  OBVIOUS
<1>5. f.check = c /\ f.n = n /\ IsFlag(f)
  BY <1>3, <1>4 DEF IsFlag
<1>6. /\ fraudRedis'.flags = fraudRedis.flags \cup {f}
      /\ fraudRedis'.flagList = fraudRedis.flagList /\ UNCHANGED fraudLocal
  BY <1>4 DEF FraudStoreFlag, FraudTypeInv, RedisFields
<1>7. fraudPc'[c] = "listFlag"
  BY <1>1, OnlyMoves DEF FraudStoreFlag
<1> HIDE DEF flag
<1>8. IsFiniteSet(fraudRedis'.flags) /\ \A e \in fraudRedis'.flags : IsFlag(e)
  BY <1>5, <1>6, FS_AddElement DEF FreezeInv
<1>9. \A d \in FraudChecks, m \in Nat : HasFlag(d, m) => HasFlag(d, m)'
  BY <1>6 DEF HasFlag
<1>10. HasFlag(c, n)'
  BY <1>5, <1>6 DEF HasFlag
<1>11. Counted(c)'
  <2>1. \A m \in 1..fraudLocal[c].flags : m \in Nat
    BY <1>2 DEF Counted
  <2>2. \A m \in 1..fraudLocal'[c].flags : HasFlag(c, m)' /\ <<c, m>> \in fraudRedis'.flagList
    BY <1>2, <1>6, <1>9, <2>1 DEF Counted
  <2>3. HasFlag(c, fraudLocal[c].flags + 1)'
    BY <1>3, <1>6, <1>10
  <2> QED BY <1>2, <1>6, <1>7, <2>2, <2>3 DEF Counted
<1> QED BY <1>1, <1>6, <1>8, <1>9, <1>11, FreezeKept

LEMMA ListFlagKeepsFreezes ==
  ASSUME FraudTypeInv, FreezeInv, NEW c \in FraudChecks, FraudListFlag(c)
  PROVE  FreezeInv'
<1>1. /\ c \in FraudHandlers /\ c \notin FraudAdmins /\ Others(c) /\ UNCHANGED fraudOrdered
      /\ fraudRedis'.frozen = fraudRedis.frozen /\ fraudLocal'[c].tx = fraudLocal[c].tx
  BY FlagMoves, FraudAssumption DEF FraudHandlers
<1>2. Counted(c)
  BY DEF FreezeInv
<1>3. PICK n \in Nat : n = fraudLocal[c].flags
  BY <1>2 DEF Counted
<1> DEFINE l == [fraudLocal[c] EXCEPT !.flags = @ + 1,
                                      !.block = @ \/ FraudRule(c).action = "block"]
<1>4. fraudPc[c] = "listFlag" /\ FraudAdvance(c, l)
  BY DEF FraudListFlag
<1>5. DOMAIN l = LocalFields /\ l.flags = n + 1
  BY <1>1, <1>3 DEF FraudTypeInv, LocalFields
<1> HIDE DEF l
<1>6. /\ fraudLocal'[c].flags = n + 1 /\ fraudPc'[c] \in {"rule", "freeze", "alert", "done"}
      /\ fraudPc'[c] = "freeze" => n + 1 >= FraudThreshold
  BY <1>4, <1>5, Advances
<1>7. /\ fraudRedis'.flags = fraudRedis.flags
      /\ fraudRedis'.flagList = fraudRedis.flagList \cup {<<c, n + 1>>}
  BY <1>3 DEF FraudListFlag, FraudTypeInv, RedisFields
<1>8. \A d \in FraudChecks, m \in Nat : HasFlag(d, m) => HasFlag(d, m)'
  BY <1>7 DEF HasFlag
<1>9. Counted(c)'
  <2>1. \A m \in 1..(n + 1) : m = n + 1 \/ m \in 1..n
    BY <1>3
  <2>2. n + 1 \in Nat /\ \A m \in 1..(n + 1) : m \in Nat
    BY <1>3
  <2>3. \A m \in 1..(n + 1) : HasFlag(c, m)
    BY <1>2, <1>3, <1>4, <2>1 DEF Counted
  <2>4. \A m \in 1..(n + 1) : HasFlag(c, m)' /\ <<c, m>> \in fraudRedis'.flagList
    BY <1>2, <1>3, <1>7, <1>8, <2>1, <2>2, <2>3 DEF Counted
  <2> QED BY <1>6, <2>2, <2>4 DEF Counted
<1>10. IsFiniteSet(fraudRedis'.flags) /\ \A e \in fraudRedis'.flags : IsFlag(e)
  BY <1>7 DEF FreezeInv
<1>11. fraudLocal[c].flags >= FraudThreshold => fraudLocal'[c].flags >= FraudThreshold
  BY <1>3, <1>6, FraudAssumption
<1>12. fraudRedis.flagList \subseteq fraudRedis'.flagList
  BY <1>7
<1> QED BY <1>1, <1>7, <1>8, <1>9, <1>10, <1>11, <1>12, FreezeKept

LEMMA ReviewKeepsFreezes ==
  ASSUME FraudTypeInv, FreezeInv, NEW a \in FraudAdmins, NEW status, FraudReviewFlag(a, status)
  PROVE  FreezeInv'
<1>1. /\ a \in FraudHandlers /\ a \notin FraudChecks
      /\ fraudPc[a] = "review" /\ FraudGoto(a, "done") /\ UNCHANGED <<fraudLocal, fraudAside>>
  BY FraudAssumption DEF FraudReviewFlag, FraudHandlers
<1>2. Others(a) /\ fraudPc'[a] = "done" /\ UNCHANGED fraudOrdered
  BY <1>1, OnlyMoves DEF Others, fraudAside
<1>3. PICK f : f = fraudLocal[a].body
  OBVIOUS
<1>4. PICK g : g = [f EXCEPT !.status = status]
  OBVIOUS
<1>5. IsFlag(f)
  BY <1>1, <1>3 DEF FreezeInv
<1>6. g.check = f.check /\ g.n = f.n /\ IsFlag(g)
  BY <1>4, <1>5 DEF IsFlag
<1>7. /\ fraudRedis'.flags =
           {e \in fraudRedis.flags : <<e.check, e.n>> # <<f.check, f.n>>} \cup {g}
      /\ fraudRedis'.flagList = fraudRedis.flagList /\ fraudRedis'.frozen = fraudRedis.frozen
  BY <1>3, <1>4 DEF FraudReviewFlag, FraudTypeInv, RedisFields
<1>8. IsFiniteSet(fraudRedis'.flags)
  <2> DEFINE kept == {e \in fraudRedis.flags : <<e.check, e.n>> # <<f.check, f.n>>}
  <2>1. IsFiniteSet(fraudRedis.flags) /\ kept \subseteq fraudRedis.flags
    BY DEF FreezeInv
  <2>2. IsFiniteSet(kept)
    BY <2>1, FS_Subset
  <2> HIDE DEF kept
  <2>3. IsFiniteSet(kept \cup {g})
    BY <2>2, FS_AddElement
  <2> QED BY <1>7, <2>3 DEF kept
<1>9. \A e \in fraudRedis'.flags : IsFlag(e)
  BY <1>6, <1>7 DEF FreezeInv
<1>10. ASSUME NEW c \in FraudChecks, NEW n \in Nat, HasFlag(c, n) PROVE HasFlag(c, n)'
  <2>1. PICK e \in fraudRedis.flags : e.check = c /\ e.n = n
    BY <1>10 DEF HasFlag
  <2>2. CASE <<e.check, e.n>> = <<f.check, f.n>>
    BY <1>6, <1>7, <2>1, <2>2 DEF HasFlag
  <2>3. CASE <<e.check, e.n>> # <<f.check, f.n>>
    BY <1>7, <2>1, <2>3 DEF HasFlag
  <2> QED BY <2>2, <2>3
<1> QED BY <1>1, <1>2, <1>7, <1>8, <1>9, <1>10, FreezeKept

LEMMA FreezeKeepsFreezes ==
  ASSUME FraudTypeInv, FreezeInv, NEW h \in FraudHandlers, FraudFreeze(h)
  PROVE  FreezeInv'
<1>1. /\ Others(h) /\ fraudPc'[h] \in {"freezeAlert", "alert", "done"}
      /\ \A f \in {"tx", "flags"} : fraudLocal'[h][f] = fraudLocal[h][f]
      /\ UNCHANGED fraudOrdered
  BY EndMoves
<1>2. /\ fraudRedis'.flags = fraudRedis.flags /\ fraudRedis'.flagList = fraudRedis.flagList
      /\ fraudRedis'.frozen = fraudRedis.frozen \cup {FraudAccount(h)}
      /\ fraudPc[h] = "freeze"
  BY DEF FraudFreeze, FraudTypeInv, RedisFields
<1>3. FraudAccount(h) \notin fraudOrdered => Explained(FraudAccount(h))
  <2>1. h \in FraudChecks \/ h \in FraudAdmins
    BY <1>2 DEF FraudTypeInv, FraudHandlers, BootSteps, CronSteps
  <2>2. CASE h \in FraudChecks
    BY <1>2, <2>2 DEF FreezeInv, Counted, Explained, FraudAccount
  <2>3. CASE h \notin FraudChecks
    BY <1>2, <2>1, <2>3 DEF FreezeInv, FraudAccount
  <2> QED BY <2>2, <2>3
<1>4. \A c \in FraudChecks, n \in Nat : HasFlag(c, n) => HasFlag(c, n)'
  BY <1>2 DEF HasFlag
<1>5. fraudLocal'[h].tx = fraudLocal[h].tx /\ fraudLocal'[h].flags = fraudLocal[h].flags
  BY <1>1
<1>6. ASSUME h \in FraudChecks PROVE Counted(h)'
  <2>1. Counted(h)
    BY <1>6 DEF FreezeInv
  <2>2. \A n \in 1..fraudLocal[h].flags : n \in Nat
    BY <2>1 DEF Counted
  <2>3. \A n \in 1..fraudLocal'[h].flags : HasFlag(h, n)' /\ <<h, n>> \in fraudRedis'.flagList
    BY <1>2, <1>4, <1>5, <1>6, <2>1, <2>2 DEF Counted
  <2> QED BY <1>1, <1>5, <2>1, <2>3 DEF Counted
<1>7. IsFiniteSet(fraudRedis'.flags) /\ \A f \in fraudRedis'.flags : IsFlag(f)
  BY <1>2 DEF FreezeInv
<1>8. \A u \in fraudRedis'.frozen \ fraudOrdered' : u \in fraudRedis.frozen \/ Explained(u)
  BY <1>1, <1>2, <1>3
<1> QED BY <1>1, <1>2, <1>4, <1>5, <1>6, <1>7, <1>8, FreezeKept

LEMMA FreezeStep ==
  ASSUME FraudTypeInv, FreezeInv, [FraudNext]_fraudVars
  PROVE  FreezeInv'
<1>1. CASE UNCHANGED fraudVars \/ FraudTick
  <2>1. UNCHANGED <<fraudRedis, fraudPc, fraudLocal, fraudOrdered>>
    BY <1>1 DEF fraudVars, FraudTick
  <2>2. \A c \in FraudChecks : Counted(c)' = Counted(c)
    BY <2>1 DEF Counted, HasFlag
  <2>3. \A u \in fraudRedis.frozen : Explained(u)' = Explained(u)
    BY <2>1 DEF Explained
  <2> QED BY <2>1, <2>2, <2>3 DEF FreezeInv
<1>2. ASSUME NEW h \in FraudHandlers,
             \/ h \in FraudChecks /\ \E t \in FraudRequests : FraudCheck(h, t)
             \/ h \in FraudAdmins /\ \E body \in FraudNewRules : FraudCreateRule(h, body)
             \/ h \in FraudAdmins /\ \E u \in FraudUsers : FraudOrderFreeze(h, u)
             \/ h \in FraudAdmins /\ \E f \in fraudRedis.flags : FraudReadFlag(h, f)
             \/ h \in FraudCrons /\ FraudScan(h)
      PROVE  FreezeInv'
  <2>1. /\ Others(h) /\ UNCHANGED fraudRedis /\ fraudPc[h] = "idle"
        /\ fraudLocal'[h].flags = fraudLocal[h].flags
        /\ h \in FraudChecks => fraudPc'[h] \in {"rule", "done"}
        /\ h \in FraudAdmins => fraudPc'[h] \in {"setRule", "freeze", "review"}
        /\ fraudOrdered \subseteq fraudOrdered'
    BY <1>2, RequestMoves
  <2>2. h \in FraudChecks => ~(fraudLocal[h].flags >= FraudThreshold)
    BY <2>1, FraudAssumption DEF FreezeInv, Counted
  <2>3. ASSUME h \in FraudAdmins
        PROVE  /\ fraudPc'[h] = "review" => IsFlag(fraudLocal'[h].body)
               /\ fraudPc'[h] = "freeze" => fraudLocal'[h].target \in fraudOrdered'
    <3>1. h \notin FraudChecks /\ h \notin FraudCrons
      BY <2>3, FraudAssumption
    <3>2. CASE \E body \in FraudNewRules : FraudCreateRule(h, body)
      BY <3>2, OnlyMoves DEF FraudCreateRule
    <3>3. CASE \E u \in FraudUsers : FraudOrderFreeze(h, u)
      <4>1. PICK u \in FraudUsers : FraudOrderFreeze(h, u)
        BY <3>3
      <4>2. fraudLocal'[h].target = u /\ u \in fraudOrdered'
        BY <4>1 DEF FraudOrderFreeze, FraudTypeInv, LocalFields
      <4>3. fraudPc'[h] = "freeze"
        BY <4>1, OnlyMoves DEF FraudOrderFreeze
      <4> QED BY <4>2, <4>3
    <3>4. CASE \E f \in fraudRedis.flags : FraudReadFlag(h, f)
      <4>1. PICK f \in fraudRedis.flags : FraudReadFlag(h, f)
        BY <3>4
      <4>2. fraudLocal'[h].body = f
        BY <4>1 DEF FraudReadFlag, FraudTypeInv, LocalFields
      <4>3. fraudPc'[h] = "review"
        BY <4>1, OnlyMoves DEF FraudReadFlag
      <4> QED BY <4>2, <4>3 DEF FreezeInv
    <3> QED BY <1>2, <3>1, <3>2, <3>3, <3>4
  <2> QED BY <2>1, <2>2, <2>3, FreezeAside
<1>3. ASSUME NEW h \in FraudHandlers, (h \in FraudCrons /\ FraudDelete(h)) \/ FraudEmit(h)
      PROVE  FreezeInv'
  <2>1. /\ Others(h) /\ fraudPc[h] # "freeze" /\ fraudPc'[h] \in {"freezeAlert", "alert", "done"}
        /\ \A f \in {"tx", "flags"} : fraudLocal'[h][f] = fraudLocal[h][f]
        /\ UNCHANGED fraudOrdered
    BY <1>3, EndMoves DEF FraudDelete, FraudEmit
  <2>2. \A f \in {"flags", "flagList", "frozen"} : fraudRedis'[f] = fraudRedis[f]
    BY <1>3 DEF FraudDelete, FraudEmit, FraudTypeInv, RedisFields
  <2>3. /\ fraudRedis'.flags = fraudRedis.flags /\ fraudRedis'.flagList = fraudRedis.flagList
        /\ fraudRedis'.frozen = fraudRedis.frozen
        /\ fraudLocal'[h].tx = fraudLocal[h].tx /\ fraudLocal'[h].flags = fraudLocal[h].flags
    BY <2>1, <2>2
  <2> QED BY <2>1, <2>3, FreezeAside
<1>4. ASSUME NEW h \in FraudHandlers,
             (h \in FraudBoots /\ FraudBoot(h)) \/ FraudSetRule(h) \/ FraudPushRule(h)
      PROVE  FreezeInv'
  <2>1. /\ Others(h) /\ h \in FraudBoots \cup FraudAdmins /\ fraudOrdered' = fraudOrdered
        /\ h \in FraudAdmins => fraudPc'[h] \in {"pushRule", "done"}
        /\ \A f \in {"flags", "flagList", "frozen"} : fraudRedis'[f] = fraudRedis[f]
    BY <1>4, RuleMoves
  <2>2. h \notin FraudChecks
    BY <2>1, FraudAssumption
  <2> QED BY <2>1, <2>2, FreezeAside
<1>5. ASSUME NEW h \in FraudHandlers, FraudCrash(h) PROVE FreezeInv'
  <2>1. /\ Others(h) /\ fraudPc'[h] = "crashed"
        /\ UNCHANGED <<fraudRedis, fraudLocal, fraudOrdered>>
    BY <1>5, CrashMoves
  <2> QED BY <2>1, FreezeAside
<1> QED
  BY <1>1, <1>2, <1>3, <1>4, <1>5, EvaluateKeepsFreezes, StoreFlagKeepsFreezes,
     ListFlagKeepsFreezes, ReviewKeepsFreezes, FreezeKeepsFreezes
     DEF FraudNext, FraudEvaluate, Evaluates, FraudHandlers

-----------------------------------------------------------------------------
(* The invariant, and what follows from it *)

LEMMA InitInv == FraudInit => FraudInv
<1> SUFFICES ASSUME FraudInit PROVE FraudInv
  OBVIOUS
<1>1. PICK g \in FraudGroups : fraudPc = FraudStart(g)
  BY DEF FraudInit
<1>2. /\ DOMAIN fraudPc = FraudHandlers
      /\ \A h \in FraudHandlers : fraudPc[h] \in {"absent", "idle"}
  BY <1>1 DEF FraudStart
<1>3. /\ DOMAIN fraudRedis = RedisFields /\ fraudRedis.ruleList = <<>> /\ fraudRedis.flags = {}
      /\ fraudRedis.frozen = {}
  BY DEF FraudInit, FraudEmptyRedis, RedisFields
<1>4. /\ DOMAIN fraudLocal = FraudHandlers
      /\ \A h \in FraudHandlers : /\ DOMAIN fraudLocal[h] = LocalFields
                                  /\ fraudLocal[h].n = 0 /\ fraudLocal[h].flags = 0
  BY DEF FraudInit, FraudNoLocals, LocalFields
<1>5. FraudTypeInv
  BY <1>2, <1>3, <1>4 DEF FraudTypeInv, FraudHandlers, BootSteps, CheckSteps, AdminSteps, CronSteps
<1>6. StartInv
  BY <1>2, <1>3 DEF StartInv, Progress, Untouched, Filling, FraudHandlers
<1>7. DeviceInv
  BY <1>2, <1>3 DEF DeviceInv, Told, Found, FraudHandlers
<1>8. \A c \in FraudChecks : Counted(c)
  BY <1>2, <1>4 DEF Counted, FraudHandlers
<1>9. FreezeInv
  BY <1>2, <1>3, <1>8, FS_EmptySet DEF FreezeInv, FraudHandlers
<1> QED BY <1>5, <1>6, <1>7, <1>9 DEF FraudInv

\* The parts are inductive together: the review of a flag keeps its type only
\* because flags are whole records (FreezeInv), and every part needs to know
\* which steps belong to which role (FraudTypeInv).
THEOREM FraudConsistent == FraudSpec => []FraudInv
<1>1. FraudInit => FraudInv
  BY InitInv
<1>2. FraudInv /\ [FraudNext]_fraudVars => FraudInv'
  <2> SUFFICES ASSUME FraudInv, [FraudNext]_fraudVars PROVE FraudInv'
    OBVIOUS
  <2> QED BY TypeStep, StartStep, DeviceStep, FreezeStep DEF FraudInv
<1> QED BY <1>1, <1>2, PTL DEF FraudSpec

\* A check whose flags reach the threshold has as many stored and listed.
LEMMA CountedAreStored ==
  ASSUME FreezeInv, NEW c \in FraudChecks, fraudLocal[c].flags >= FraudThreshold
  PROVE  Cardinality({f \in fraudRedis.flags :
                        f.check = c /\ <<c, f.n>> \in fraudRedis.flagList}) >= FraudThreshold
<1> DEFINE k == fraudLocal[c].flags
           S == {f \in fraudRedis.flags : f.check = c /\ <<c, f.n>> \in fraudRedis.flagList}
<1>1. k \in Nat /\ \A n \in 1..k : HasFlag(c, n) /\ <<c, n>> \in fraudRedis.flagList
  BY DEF FreezeInv, Counted
<1>2. IsFiniteSet(S) /\ Cardinality(S) \in Nat
  <2>1. IsFiniteSet(fraudRedis.flags) /\ S \subseteq fraudRedis.flags
    BY DEF FreezeInv
  <2> QED BY <2>1, FS_Subset, FS_CardinalityType
<1> DEFINE g == [n \in 1..k |-> CHOOSE f \in S : f.n = n]
<1>3. \A n \in 1..k : \E f \in S : f.n = n
  BY <1>1 DEF HasFlag
<1>4. \A n \in 1..k : g[n] \in S /\ g[n].n = n
  BY <1>3
<1>5. g \in Injection(1..k, S)
  <2>1. g \in [1..k -> S]
    BY <1>4
  <2>2. \A m, n \in 1..k : g[m] = g[n] => m = n
    BY <1>4
  <2> HIDE DEF g
  <2> QED BY <2>1, <2>2 DEF Injection, IsInjective
<1>6. IsFiniteSet(1..k) /\ Cardinality(1..k) = k
  <2>1. 1 \in Int /\ k \in Int /\ (1 > k => k = 0)
    BY <1>1
  <2> HIDE DEF k
  <2>2. IsFiniteSet(1..k) /\ Cardinality(1..k) = IF 1 > k THEN 0 ELSE k - 1 + 1
    BY <2>1, FS_Interval
  <2> QED BY <2>1, <2>2
<1> HIDE DEF S, k, g
<1>7. k <= Cardinality(S)
  BY <1>2, <1>5, <1>6, FS_Injection
<1>8. k >= FraudThreshold
  BY DEF k
<1>9. Cardinality(S) >= FraudThreshold
  BY <1>1, <1>2, <1>7, <1>8, FraudAssumption
<1> QED BY <1>9 DEF S

\* A frozen account was frozen by an administrator or has a transaction with
\* enough flags to show, each stored and listed (checkTransaction, saveFlag).
THEOREM FreezesAreExplained == FraudSpec => []FrozenIsExplained
<1>1. FraudInv => FrozenIsExplained
  BY CountedAreStored DEF FraudInv, FreezeInv, Explained, FrozenIsExplained
<1> QED BY <1>1, FraudConsistent, PTL

\* Two flags for one new device are of checks that overlapped: SISMEMBER and
\* SADD are two commands, and that is the only way to be flagged twice.
THEOREM SecondFlagNeedsOverlap == FraudSpec => []SecondDeviceFlagOverlaps
<1>1. FraudInv => SecondDeviceFlagOverlaps
  BY DEF FraudInv, FreezeInv, IsFlag, DeviceInv, Found, Told, SecondDeviceFlagOverlaps
<1> QED BY <1>1, FraudConsistent, PTL

\* A service that is up and whose starts are over has every default rule,
\* unless a start died; only starts that overlapped fill the list twice
\* (initializeDefaultRules).
THEOREM DefaultsAreComplete == FraudSpec => []DefaultsComplete
<1>1. FraudInv => DefaultsComplete
  <2> SUFFICES ASSUME FraudInv PROVE DefaultsComplete
    OBVIOUS
  <2>1. ASSUME FraudUp, \A b \in FraudBoots : fraudPc[b] \in {"absent", "idle", "up"},
               NEW k \in DOMAIN FraudDefaults
        PROVE  \E b \in FraudBoots : FraudCopies(b, FraudDefaults[k]) # {}
    <3>1. PICK b \in FraudBoots : Filled(b)
      BY <2>1 DEF FraudInv, StartInv, Begun, Untouched, FraudUp, FraudHandlers
    <3>2. PICK j \in DOMAIN fraudRedis.ruleList : fraudRedis.ruleList[j] = <<b, k>>
      BY <3>1 DEF Filled, Has, Listed
    <3>3. PICK r \in fraudRedis.rules : r.by = b /\ r.n = k /\ r.body.type = FraudDefaults[k]
      BY <3>1 DEF Filled, Has, Stored
    <3>4. r \in FraudValue(fraudRedis.ruleList[j])
      BY <3>2, <3>3 DEF FraudValue
    <3>5. j \in FraudCopies(b, FraudDefaults[k])
      BY <3>2, <3>3, <3>4 DEF FraudCopies
    <3> QED BY <3>5
  <2>2. \A b \in FraudBoots : \A t : FraudCopies(b, t) # {} => Filling(b)
    BY DEF FraudCopies, Filling
  <2>3. \A k \in DOMAIN FraudDefaults : \A first, second \in FraudBoots :
          /\ first # second
          /\ FraudCopies(first, FraudDefaults[k]) # {} /\ FraudCopies(second, FraudDefaults[k]) # {}
          => {first, second} \in fraudMet
    BY <2>2 DEF FraudInv, StartInv
  <2> QED BY <2>1, <2>3 DEF DefaultsComplete
<1> QED BY <1>1, FraudConsistent, PTL

-----------------------------------------------------------------------------
(* The types of what is stored and remembered *)

RuleSteps == {"rule", "count", "add", "associate", "locate", "storeFlag", "listFlag"}

\* A check that evaluates a rule has one, and evaluates it for a transaction.
CheckTypes(c) ==
  /\ \A k \in DOMAIN fraudLocal[c].rules : k \in Nat /\ fraudLocal[c].rules[k] \in FraudRuleBody
  /\ fraudLocal[c].at \in 0..FraudMaxTime
  /\ fraudPc[c] \in RuleSteps => DOMAIN fraudLocal[c].rules # {}
  /\ fraudPc[c] \notin {"absent", "idle"} => fraudLocal[c].tx \in FraudRequests

AdminTypes(a) ==
  /\ fraudPc[a] = "setRule" => fraudLocal[a].body \in FraudRuleBody
  /\ fraudPc[a] = "review" => fraudLocal[a].body \in FraudFlag
  /\ fraudPc[a] \in {"freeze", "freezeAlert"} => fraudLocal[a].target \in FraudUsers

MemoryTypes ==
  (\A c \in FraudChecks : CheckTypes(c)) /\ (\A a \in FraudAdmins : AdminTypes(a))

StoredRules == [by: FraudBoots \cup FraudAdmins, n: Nat, body: FraudRuleBody]

RedisTypes ==
  /\ fraudRedis.rules \subseteq StoredRules /\ fraudRedis.flags \subseteq FraudFlag
  /\ fraudRedis.flagList \subseteq FraudChecks \X Nat
  /\ fraudRedis.windows \in [FraudKeys -> SUBSET (0..FraudMaxTime)]
  /\ fraudRedis.frozen \subseteq FraudUsers

OtherTypes ==
  /\ fraudAlerts \subseteq FraudUsers \X Nat /\ fraudOrdered \subseteq FraudUsers
  /\ fraudNow \in 0..FraudMaxTime /\ fraudFaults \in 0..FraudMaxFaults

\* fraudPc is a function, and so can be one of its type.
PcType == fraudPc \in [FraudHandlers -> {fraudPc[h] : h \in FraudHandlers}]

FraudTypes == MemoryTypes /\ RedisTypes /\ OtherTypes /\ PcType

LEMMA FirstIsPlace ==
  ASSUME NEW rules, \A k \in DOMAIN rules : k \in Nat, DOMAIN rules # {}
  PROVE  FraudFirst(rules) \in DOMAIN rules
<1>1. PICK places : places = DOMAIN rules
  OBVIOUS
<1>2. PICK less : less = OpToRel(<, Nat)
  OBVIOUS
<1>3. IsWellFoundedOn(less, Nat) /\ places \subseteq Nat /\ places # {}
  BY <1>1, <1>2, NatLessThanWellFounded
<1>4. PICK first \in places : \A k \in places : ~ (<<k, first>> \in less)
  BY <1>3, WFMin
<1>5. \A k \in places : k < first => <<k, first>> \in less
  BY <1>2, <1>3 DEF OpToRel
<1>6. ASSUME NEW k \in places PROVE first <= k
  <2>1. ~ (k < first)
    BY <1>4, <1>5
  <2>2. k \in Nat /\ first \in Nat
    BY <1>3
  <2> QED BY <2>1, <2>2
<1> QED BY <1>1, <1>6 DEF FraudFirst

LEMMA RuleHasType ==
  ASSUME MemoryTypes, NEW c \in FraudChecks, fraudPc[c] \in RuleSteps
  PROVE  FraudRule(c) \in FraudRuleBody
<1>1. PICK rules : rules = fraudLocal[c].rules
  OBVIOUS
<1>2. /\ \A k \in DOMAIN rules : k \in Nat /\ rules[k] \in FraudRuleBody
      /\ DOMAIN rules # {}
  BY <1>1 DEF MemoryTypes, CheckTypes
<1>3. FraudFirst(rules) \in DOMAIN rules
  BY <1>2, FirstIsPlace
<1> QED BY <1>1, <1>2, <1>3 DEF FraudRule

\* A rule whose identifier is in the list has the type of a rule.
LEMMA AllRulesHaveType ==
  ASSUME FraudTypeInv, RedisTypes
  PROVE  \A k \in DOMAIN FraudAllRules : k \in Nat /\ FraudAllRules[k] \in FraudRuleBody
<1> DEFINE list == fraudRedis.ruleList
           places == {k \in DOMAIN list : \E r \in FraudValue(list[k]) : r.body.enabled}
           value(k) == (CHOOSE r \in FraudValue(list[k]) : TRUE).body
<1>1. FraudAllRules = [k \in places |-> value(k)]
  BY DEF FraudAllRules
<1>2. DOMAIN list \subseteq Nat
  BY DEF FraudTypeInv
<1>3. ASSUME NEW k \in places PROVE value(k) \in FraudRuleBody
  <2>1. FraudValue(list[k]) # {} /\ FraudValue(list[k]) \subseteq StoredRules
    BY <1>3 DEF FraudValue, RedisTypes
  <2>2. PICK rule : rule = CHOOSE r \in FraudValue(list[k]) : TRUE
    OBVIOUS
  <2>3. rule \in StoredRules
    BY <2>1, <2>2
  <2> QED BY <2>2, <2>3 DEF StoredRules
<1>4. \A k \in places : k \in Nat
  BY <1>2
<1> HIDE DEF list, places, value
<1> QED BY <1>1, <1>3, <1>4

\* What a step says about its own handler is all there is to say.
LEMMA MemoryKept ==
  ASSUME MemoryTypes, NEW h \in FraudHandlers, Others(h),
         h \in FraudChecks => CheckTypes(h)', h \in FraudAdmins => AdminTypes(h)'
  PROVE  MemoryTypes'
<1>1. ASSUME NEW c \in FraudChecks PROVE CheckTypes(c)'
  BY <1>1 DEF MemoryTypes, CheckTypes, Others, FraudHandlers
<1>2. ASSUME NEW a \in FraudAdmins PROVE AdminTypes(a)'
  BY <1>2 DEF MemoryTypes, AdminTypes, Others, FraudHandlers
<1> QED BY <1>1, <1>2 DEF MemoryTypes

LEMMA AdvanceTypes ==
  ASSUME FraudTypeInv, MemoryTypes, NEW c \in FraudChecks, fraudPc[c] \notin {"absent", "idle"},
         NEW l, DOMAIN l = LocalFields, l.rules = fraudLocal[c].rules,
         l.at = fraudLocal[c].at, l.tx = fraudLocal[c].tx, FraudAdvance(c, l)
  PROVE  CheckTypes(c)'
<1> DEFINE m == [l EXCEPT !.rules = FraudRest(@)]
<1>1. m.rules = FraudRest(l.rules) /\ m.at = l.at /\ m.tx = l.tx
  BY DEF LocalFields
<1>2. /\ fraudLocal' = [fraudLocal EXCEPT ![c] = m]
      /\ fraudPc' = [fraudPc EXCEPT ![c] =
                                    IF DOMAIN m.rules = {} THEN FraudConclusion(m) ELSE "rule"]
  BY DEF FraudAdvance, FraudGoto
<1>3. FraudConclusion(m) \in {"freeze", "alert", "done"}
  BY DEF FraudConclusion, FraudBreaches
<1>4. /\ \A k \in DOMAIN l.rules : k \in Nat /\ l.rules[k] \in FraudRuleBody
      /\ l.at \in 0..FraudMaxTime /\ l.tx \in FraudRequests
  BY DEF MemoryTypes, CheckTypes
<1>5. \A k \in DOMAIN FraudRest(l.rules) : k \in Nat /\ FraudRest(l.rules)[k] \in FraudRuleBody
  BY <1>4 DEF FraudRest
<1> HIDE DEF m
<1>6. /\ fraudLocal'[c] = m
      /\ fraudPc'[c] = IF DOMAIN m.rules = {} THEN FraudConclusion(m) ELSE "rule"
  BY <1>2 DEF FraudTypeInv, FraudHandlers
<1>7. fraudPc'[c] \in RuleSteps => DOMAIN m.rules # {}
  BY <1>3, <1>6 DEF RuleSteps
<1> QED BY <1>1, <1>4, <1>5, <1>6, <1>7 DEF CheckTypes

\* A check that stays at its rule.
LEMMA StayTypes ==
  ASSUME MemoryTypes, NEW c \in FraudChecks, fraudPc[c] \in RuleSteps,
         fraudLocal'[c].rules = fraudLocal[c].rules, fraudLocal'[c].at = fraudLocal[c].at,
         fraudLocal'[c].tx = fraudLocal[c].tx
  PROVE  CheckTypes(c)'
BY DEF MemoryTypes, CheckTypes, RuleSteps

LEMMA EvaluateTypes ==
  ASSUME FraudTypeInv, MemoryTypes, NEW c \in FraudChecks, Evaluates(c)
  PROVE  CheckTypes(c)'
<1>1. DOMAIN fraudLocal[c] = LocalFields /\ c \in FraudHandlers
  BY DEF FraudTypeInv, FraudHandlers
<1>2. fraudPc[c] \in {"rule", "count", "add", "associate", "locate"}
  BY EvaluateMoves
<1>3. FraudAdvance(c, fraudLocal[c]) => CheckTypes(c)'
  BY <1>1, <1>2, AdvanceTypes
<1>4. UNCHANGED fraudLocal => CheckTypes(c)'
  BY <1>2, StayTypes DEF RuleSteps
<1>5. ASSUME FraudCount(c) PROVE CheckTypes(c)'
  <2>1. /\ fraudLocal'[c].rules = fraudLocal[c].rules /\ fraudLocal'[c].at = fraudLocal[c].at
        /\ fraudLocal'[c].tx = fraudLocal[c].tx
    BY <1>1, <1>5 DEF FraudCount, FraudTypeInv, LocalFields
  <2> QED BY <1>2, <2>1, StayTypes DEF RuleSteps
<1> QED
  BY <1>3, <1>4, <1>5
     DEF Evaluates, FraudAmount, FraudUnknown, FraudTrim, FraudAdd, FraudLookUpDevice,
         FraudAssociate, FraudLookUpLocation, FraudSetLocation, FraudTrigger

\* Memory, whichever handler moves.
LEMMA MemoryStep ==
  ASSUME FraudInv, FraudTypes, [FraudNext]_fraudVars PROVE MemoryTypes'
<1>1. FraudTypeInv /\ MemoryTypes /\ RedisTypes /\ fraudNow \in 0..FraudMaxTime
  BY DEF FraudInv, FraudTypes, OtherTypes
<1>2. CASE UNCHANGED fraudVars \/ FraudTick
  <2>1. UNCHANGED <<fraudPc, fraudLocal>>
    BY <1>2 DEF fraudVars, FraudTick
  <2> QED BY <1>1, <2>1 DEF MemoryTypes, CheckTypes, AdminTypes
<1>3. ASSUME NEW c \in FraudChecks, Evaluates(c) PROVE MemoryTypes'
  <2>1. c \in FraudHandlers /\ c \notin FraudAdmins
    BY FraudAssumption DEF FraudHandlers
  <2>2. Others(c) /\ CheckTypes(c)'
    BY <1>1, <1>3, EvaluateMoves, EvaluateTypes
  <2> QED BY <1>1, <2>1, <2>2, MemoryKept
<1>4. ASSUME NEW c \in FraudChecks, FraudStoreFlag(c) \/ FraudListFlag(c) PROVE MemoryTypes'
  <2>1. c \in FraudHandlers /\ c \notin FraudAdmins /\ DOMAIN fraudLocal[c] = LocalFields
    BY <1>1, FraudAssumption DEF FraudHandlers, FraudTypeInv
  <2>2. Others(c)
    BY <1>1, <1>4, FlagMoves
  <2>3. CASE FraudStoreFlag(c)
    <3>1. fraudPc[c] \in RuleSteps /\ UNCHANGED fraudLocal
      BY <2>3 DEF FraudStoreFlag, RuleSteps
    <3>2. CheckTypes(c)'
      BY <1>1, <3>1, StayTypes
    <3> QED BY <1>1, <2>1, <2>2, <3>2, MemoryKept
  <2>4. CASE FraudListFlag(c)
    <3> DEFINE l == [fraudLocal[c] EXCEPT !.flags = @ + 1,
                                          !.block = @ \/ FraudRule(c).action = "block"]
    <3>1. fraudPc[c] = "listFlag" /\ FraudAdvance(c, l)
      BY <2>4 DEF FraudListFlag
    <3>2. /\ DOMAIN l = LocalFields /\ l.rules = fraudLocal[c].rules
          /\ l.at = fraudLocal[c].at /\ l.tx = fraudLocal[c].tx
      BY <2>1 DEF LocalFields
    <3> HIDE DEF l
    <3>3. CheckTypes(c)'
      BY <1>1, <3>1, <3>2, AdvanceTypes
    <3> QED BY <1>1, <2>1, <2>2, <3>3, MemoryKept
  <2> QED BY <1>4, <2>3, <2>4
<1>5. ASSUME NEW c \in FraudChecks, NEW t \in FraudRequests, FraudCheck(c, t) PROVE MemoryTypes'
  <2>1. c \in FraudHandlers /\ c \notin FraudAdmins /\ DOMAIN fraudLocal[c] = LocalFields
    BY <1>1, FraudAssumption DEF FraudHandlers, FraudTypeInv
  <2>2. Others(c)
    BY <1>1, <1>5, <2>1, RequestMoves
  <2>3. PICK rules : rules = FraudAllRules
    OBVIOUS
  <2>4. \A k \in DOMAIN rules : k \in Nat /\ rules[k] \in FraudRuleBody
    BY <1>1, <2>3, AllRulesHaveType
  <2>5. /\ fraudLocal' = [fraudLocal EXCEPT ![c].tx = t, ![c].at = fraudNow, ![c].rules = rules,
                                            ![c].earlier = FraudEarlier(t.user)]
        /\ fraudPc' = [fraudPc EXCEPT ![c] = IF DOMAIN rules = {} THEN "done" ELSE "rule"]
    BY <1>5, <2>3 DEF FraudCheck, FraudGoto
  <2>6. /\ fraudLocal'[c].tx = t /\ fraudLocal'[c].at = fraudNow /\ fraudLocal'[c].rules = rules
    BY <1>1, <2>1, <2>5 DEF FraudTypeInv, LocalFields
  <2>7. fraudPc'[c] = IF DOMAIN rules = {} THEN "done" ELSE "rule"
    BY <1>1, <2>1, <2>5 DEF FraudTypeInv
  <2>8. CheckTypes(c)'
    BY <1>1, <2>4, <2>6, <2>7 DEF CheckTypes, RuleSteps
  <2> QED BY <1>1, <2>1, <2>2, <2>8, MemoryKept
<1>6. ASSUME NEW a \in FraudAdmins,
             \/ \E body \in FraudNewRules : FraudCreateRule(a, body)
             \/ \E u \in FraudUsers : FraudOrderFreeze(a, u)
             \/ \E f \in fraudRedis.flags : FraudReadFlag(a, f)
      PROVE  MemoryTypes'
  <2>1. a \in FraudHandlers /\ a \notin FraudChecks /\ DOMAIN fraudLocal[a] = LocalFields
    BY <1>1, FraudAssumption DEF FraudHandlers, FraudTypeInv
  <2>2. Others(a)
    BY <1>1, <1>6, <2>1, RequestMoves
  <2>3. ASSUME NEW body \in FraudNewRules, FraudCreateRule(a, body) PROVE AdminTypes(a)'
    <3>1. fraudPc'[a] = "setRule" /\ fraudLocal'[a].body = body
      BY <1>1, <2>1, <2>3 DEF FraudCreateRule, FraudGoto, FraudTypeInv, LocalFields
    <3> QED BY <3>1, FraudAssumption DEF AdminTypes
  <2>4. ASSUME NEW u \in FraudUsers, FraudOrderFreeze(a, u) PROVE AdminTypes(a)'
    <3>1. fraudPc'[a] = "freeze" /\ fraudLocal'[a].target = u
      BY <1>1, <2>1, <2>4 DEF FraudOrderFreeze, FraudGoto, FraudTypeInv, LocalFields
    <3> QED BY <3>1 DEF AdminTypes
  <2>5. ASSUME NEW f \in fraudRedis.flags, FraudReadFlag(a, f) PROVE AdminTypes(a)'
    <3>1. fraudPc'[a] = "review" /\ fraudLocal'[a].body = f
      BY <1>1, <2>1, <2>5 DEF FraudReadFlag, FraudGoto, FraudTypeInv, LocalFields
    <3>2. f \in FraudFlag
      BY <1>1 DEF RedisTypes
    <3> QED BY <3>1, <3>2 DEF AdminTypes
  <2>6. AdminTypes(a)'
    BY <1>6, <2>3, <2>4, <2>5
  <2> QED BY <1>1, <2>1, <2>2, <2>6, MemoryKept
<1>7. ASSUME NEW p \in FraudCrons, FraudScan(p) PROVE MemoryTypes'
  <2>1. p \in FraudHandlers /\ p \notin FraudChecks /\ p \notin FraudAdmins
    BY FraudAssumption DEF FraudHandlers
  <2>2. Others(p)
    BY <1>1, <1>7, <2>1, RequestMoves
  <2> QED BY <1>1, <2>1, <2>2, MemoryKept
<1>8. ASSUME NEW h \in FraudHandlers,
             \/ h \in FraudAdmins
                /\ \E status \in {"open", "reviewed", "dismissed"} : FraudReviewFlag(h, status)
             \/ h \in FraudCrons /\ FraudDelete(h)
             \/ FraudFreeze(h) \/ FraudEmit(h)
      PROVE  MemoryTypes'
  <2>1. /\ Others(h) /\ fraudPc[h] \in {"review", "delete", "freeze", "freezeAlert", "alert"}
        /\ fraudPc'[h] \in {"freezeAlert", "alert", "done"}
        /\ fraudPc'[h] = "freezeAlert" => fraudPc[h] = "freeze"
        /\ \A f \in {"tx", "flags", "n", "body", "target"} : fraudLocal'[h][f] = fraudLocal[h][f]
    BY <1>1, <1>8, EndMoves
  <2>2. fraudLocal'[h].rules = fraudLocal[h].rules /\ fraudLocal'[h].at = fraudLocal[h].at
    <3>1. CASE UNCHANGED fraudLocal
      BY <3>1
    <3>2. CASE fraudLocal' = [fraudLocal EXCEPT ![h].block = TRUE]
      BY <1>1, <3>2 DEF FraudTypeInv, LocalFields
    <3> QED BY <1>8, <3>1, <3>2 DEF FraudReviewFlag, FraudDelete, FraudFreeze, FraudEmit
  <2>3. fraudLocal'[h].tx = fraudLocal[h].tx /\ fraudLocal'[h].target = fraudLocal[h].target
    BY <2>1
  <2>4. ASSUME h \in FraudChecks PROVE CheckTypes(h)'
    BY <1>1, <2>1, <2>2, <2>3, <2>4 DEF MemoryTypes, CheckTypes, RuleSteps
  <2>5. ASSUME h \in FraudAdmins PROVE AdminTypes(h)'
    BY <1>1, <2>1, <2>3, <2>5 DEF MemoryTypes, AdminTypes
  <2> QED BY <1>1, <2>1, <2>4, <2>5, MemoryKept
<1>9. ASSUME NEW h \in FraudHandlers,
             (h \in FraudBoots /\ FraudBoot(h)) \/ FraudSetRule(h) \/ FraudPushRule(h)
      PROVE  MemoryTypes'
  <2>1. /\ Others(h) /\ h \in FraudBoots \cup FraudAdmins
        /\ h \in FraudAdmins => fraudPc'[h] \in {"pushRule", "done"}
    BY <1>1, <1>9, RuleMoves
  <2>2. h \notin FraudChecks
    BY <2>1, FraudAssumption
  <2>3. h \in FraudAdmins => AdminTypes(h)'
    BY <2>1 DEF AdminTypes
  <2> QED BY <1>1, <2>1, <2>2, <2>3, MemoryKept
<1>10. ASSUME NEW h \in FraudHandlers, FraudCrash(h) PROVE MemoryTypes'
  <2>1. /\ Others(h) /\ fraudPc'[h] = "crashed" /\ UNCHANGED fraudLocal
        /\ fraudPc[h] \notin {"absent", "idle"}
    BY <1>1, <1>10, CrashMoves
  <2>2. h \in FraudChecks => CheckTypes(h)'
    BY <1>1, <2>1 DEF MemoryTypes, CheckTypes, RuleSteps
  <2>3. h \in FraudAdmins => AdminTypes(h)'
    BY <2>1 DEF AdminTypes
  <2> QED BY <1>1, <2>1, <2>2, <2>3, MemoryKept
<1> QED
  BY <1>2, <1>3, <1>4, <1>5, <1>6, <1>7, <1>8, <1>9, <1>10
     DEF FraudNext, FraudEvaluate, Evaluates, FraudHandlers

\* What a handler reviews, freezes or announces is of its type.
LEMMA AccountIsUser ==
  ASSUME FraudTypeInv, MemoryTypes, NEW h \in FraudHandlers,
         fraudPc[h] \in {"freeze", "freezeAlert", "alert"}
  PROVE  FraudAccount(h) \in FraudUsers
<1>1. CASE h \in FraudChecks
  <2>1. fraudLocal[h].tx \in FraudRequests
    BY <1>1 DEF MemoryTypes, CheckTypes
  <2> QED BY <1>1, <2>1 DEF FraudAccount, FraudUsers
<1>2. CASE h \notin FraudChecks
  <2>1. h \in FraudAdmins /\ fraudPc[h] \in {"freeze", "freezeAlert"}
    BY <1>2 DEF FraudTypeInv, FraudHandlers, BootSteps, AdminSteps, CronSteps
  <2> QED BY <1>2, <2>1 DEF FraudAccount, MemoryTypes, AdminTypes
<1> QED BY <1>1, <1>2

\* The entries a window may hold.
Windows == [FraudKeys -> SUBSET (0..FraudMaxTime)]

LEMMA WindowKept ==
  ASSUME FraudTypeInv, RedisTypes, NEW key, NEW times \in SUBSET (0..FraudMaxTime),
         fraudRedis' = [fraudRedis EXCEPT !.windows[key] = times]
  PROVE  RedisTypes'
<1>1. fraudRedis'.windows = [fraudRedis.windows EXCEPT ![key] = times]
      /\ \A f \in {"rules", "flags", "flagList", "frozen"} : fraudRedis'[f] = fraudRedis[f]
  BY DEF FraudTypeInv, RedisFields
<1>2. fraudRedis'.windows \in Windows
  BY <1>1 DEF RedisTypes, Windows
<1> QED BY <1>1, <1>2 DEF RedisTypes, Windows

TypedFields == {"rules", "flags", "flagList", "windows", "frozen"}

LEMMA RedisKept ==
  ASSUME RedisTypes,
         \A f \in TypedFields : fraudRedis'[f] = fraudRedis[f]
  PROVE  RedisTypes'
BY DEF RedisTypes, TypedFields

LEMMA EvaluateKeepsRedis ==
  ASSUME FraudTypeInv, MemoryTypes, RedisTypes, NEW c \in FraudChecks, Evaluates(c)
  PROVE  RedisTypes'
<1>1. CASE UNCHANGED fraudRedis
  BY <1>1, RedisKept
<1>2. CASE FraudTrim(c)
  <2>1. PICK key : key = FraudKey(c)
    OBVIOUS
  <2>2. PICK times : times = FraudTrimmed(fraudRedis.windows[key], fraudLocal[c].at)
    OBVIOUS
  <2>3. fraudRedis' = [fraudRedis EXCEPT !.windows[key] = times]
    BY <1>2, <2>1, <2>2 DEF FraudTrim
  <2>4. CASE key \in FraudKeys
    <3>1. times \in SUBSET (0..FraudMaxTime)
      BY <2>2, <2>4 DEF FraudTrimmed, RedisTypes
    <3> QED BY <2>3, <3>1, WindowKept
  <2>5. CASE key \notin FraudKeys
    <3>1. \A f \in {"rules", "flags", "flagList", "frozen"} : fraudRedis'[f] = fraudRedis[f]
      BY <2>3 DEF FraudTypeInv, RedisFields
    <3>2. fraudRedis'.windows = fraudRedis.windows
      BY <2>3, <2>5 DEF FraudTypeInv, RedisFields, RedisTypes
    <3> QED BY <3>1, <3>2, RedisKept DEF TypedFields
  <2> QED BY <2>4, <2>5
<1>3. CASE FraudAdd(c)
  <2>1. PICK key : key = FraudKey(c)
    OBVIOUS
  <2>2. PICK times : times = fraudRedis.windows[key] \cup {fraudLocal[c].at}
    OBVIOUS
  <2>3. fraudRedis' = [fraudRedis EXCEPT !.windows[key] = times]
    BY <1>3, <2>1, <2>2 DEF FraudAdd
  <2>4. CASE key \in FraudKeys
    <3>1. times \in SUBSET (0..FraudMaxTime)
      BY <2>2, <2>4 DEF MemoryTypes, CheckTypes, RedisTypes
    <3> QED BY <2>3, <3>1, WindowKept
  <2>5. CASE key \notin FraudKeys
    <3>1. \A f \in {"rules", "flags", "flagList", "frozen"} : fraudRedis'[f] = fraudRedis[f]
      BY <2>3 DEF FraudTypeInv, RedisFields
    <3>2. fraudRedis'.windows = fraudRedis.windows
      BY <2>3, <2>5 DEF FraudTypeInv, RedisFields, RedisTypes
    <3> QED BY <3>1, <3>2, RedisKept DEF TypedFields
  <2> QED BY <2>4, <2>5
<1>4. CASE FraudAssociate(c) \/ FraudSetLocation(c)
  <2>1. \A f \in TypedFields : fraudRedis'[f] = fraudRedis[f]
    BY <1>4 DEF FraudAssociate, FraudSetLocation, FraudTypeInv, RedisFields, TypedFields
  <2> QED BY <2>1, RedisKept
<1> QED
  BY <1>1, <1>2, <1>3, <1>4
     DEF Evaluates, FraudAmount, FraudUnknown, FraudCount, FraudLookUpDevice, FraudLookUpLocation

LEMMA RedisStep ==
  ASSUME FraudInv, FraudTypes, [FraudNext]_fraudVars PROVE RedisTypes'
<1>1. FraudTypeInv /\ MemoryTypes /\ RedisTypes
  BY DEF FraudInv, FraudTypes
<1>2. CASE UNCHANGED fraudRedis
  BY <1>1, <1>2, RedisKept
<1>3. ASSUME NEW c \in FraudChecks, Evaluates(c) PROVE RedisTypes'
  BY <1>1, <1>3, EvaluateKeepsRedis
<1>4. ASSUME NEW c \in FraudChecks, FraudStoreFlag(c) PROVE RedisTypes'
  <2>1. FraudRule(c).type \in RuleTypes
    <3>1. fraudPc[c] \in RuleSteps
      BY <1>4 DEF FraudStoreFlag, RuleSteps
    <3>2. FraudRule(c) \in FraudRuleBody
      BY <1>1, <3>1, RuleHasType
    <3> QED BY <3>2 DEF FraudRuleBody
  <2>2. fraudLocal[c].flags + 1 \in Nat
    BY DEF FraudInv, FreezeInv, Counted
  <2>3. PICK flag : flag = [check |-> c, n |-> fraudLocal[c].flags + 1, type |-> FraudRule(c).type,
                            status |-> "open"]
    OBVIOUS
  <2>4. flag \in FraudFlag
    BY <2>1, <2>2, <2>3 DEF FraudFlag
  <2>5. fraudRedis' = [fraudRedis EXCEPT !.flags = @ \cup {flag}]
    BY <1>4, <2>3 DEF FraudStoreFlag
  <2>6. /\ fraudRedis'.flags = fraudRedis.flags \cup {flag}
        /\ \A f \in {"rules", "flagList", "windows", "frozen"} : fraudRedis'[f] = fraudRedis[f]
    BY <1>1, <2>5 DEF FraudTypeInv, RedisFields
  <2> QED BY <1>1, <2>4, <2>6 DEF RedisTypes
<1>5. ASSUME NEW c \in FraudChecks, FraudListFlag(c) PROVE RedisTypes'
  <2>1. fraudLocal[c].flags + 1 \in Nat
    BY DEF FraudInv, FreezeInv, Counted
  <2>2. fraudRedis' = [fraudRedis EXCEPT !.flagList = @ \cup {<<c, fraudLocal[c].flags + 1>>}]
    BY <1>5 DEF FraudListFlag
  <2>3. /\ fraudRedis'.flagList = fraudRedis.flagList \cup {<<c, fraudLocal[c].flags + 1>>}
        /\ \A f \in {"rules", "flags", "windows", "frozen"} : fraudRedis'[f] = fraudRedis[f]
    BY <1>1, <2>2 DEF FraudTypeInv, RedisFields
  <2> QED BY <1>1, <2>1, <2>3 DEF RedisTypes
<1>6. ASSUME NEW h \in FraudHandlers, FraudFreeze(h) PROVE RedisTypes'
  <2>1. FraudAccount(h) \in FraudUsers
    BY <1>1, <1>6, AccountIsUser DEF FraudFreeze
  <2>2. fraudRedis' = [fraudRedis EXCEPT !.frozen = @ \cup {FraudAccount(h)}]
    BY <1>6 DEF FraudFreeze
  <2>3. /\ fraudRedis'.frozen = fraudRedis.frozen \cup {FraudAccount(h)}
        /\ \A f \in {"rules", "flags", "flagList", "windows"} : fraudRedis'[f] = fraudRedis[f]
    BY <1>1, <2>2 DEF FraudTypeInv, RedisFields
  <2> QED BY <1>1, <2>1, <2>3 DEF RedisTypes
<1>7. ASSUME NEW a \in FraudAdmins, NEW status \in {"open", "reviewed", "dismissed"},
             FraudReviewFlag(a, status)
      PROVE  RedisTypes'
  <2>1. PICK read : read = fraudLocal[a].body
    OBVIOUS
  <2>2. read \in FraudFlag
    BY <1>1, <1>7, <2>1 DEF FraudReviewFlag, MemoryTypes, AdminTypes
  <2>3. PICK back : back = [read EXCEPT !.status = status]
    OBVIOUS
  <2>4. back \in FraudFlag
    BY <2>2, <2>3 DEF FraudFlag
  <2>5. fraudRedis' = [fraudRedis EXCEPT !.flags =
          {g \in @ : <<g.check, g.n>> # <<read.check, read.n>>} \cup {back}]
    BY <1>7, <2>1, <2>3 DEF FraudReviewFlag
  <2>6. /\ fraudRedis'.flags =
             {g \in fraudRedis.flags : <<g.check, g.n>> # <<read.check, read.n>>} \cup {back}
        /\ \A f \in {"rules", "flagList", "windows", "frozen"} : fraudRedis'[f] = fraudRedis[f]
    BY <1>1, <2>5 DEF FraudTypeInv, RedisFields
  <2> QED BY <1>1, <2>4, <2>6 DEF RedisTypes
<1>8. ASSUME NEW p \in FraudCrons, FraudDelete(p) PROVE RedisTypes'
  <2>1. fraudRedis' = [fraudRedis EXCEPT !.windows =
          [k \in FraudKeys |-> IF k \in fraudLocal[p].keys THEN {} ELSE @[k]]]
    BY <1>8 DEF FraudDelete
  <2>2. /\ fraudRedis'.windows =
             [k \in FraudKeys |-> IF k \in fraudLocal[p].keys THEN {} ELSE fraudRedis.windows[k]]
        /\ \A f \in {"rules", "flags", "flagList", "frozen"} : fraudRedis'[f] = fraudRedis[f]
    BY <1>1, <2>1 DEF FraudTypeInv, RedisFields
  <2>3. fraudRedis'.windows \in Windows
    BY <1>1, <2>2 DEF RedisTypes, Windows
  <2> QED BY <1>1, <2>2, <2>3 DEF RedisTypes, Windows
<1>9. ASSUME NEW h \in FraudHandlers, FraudSetRule(h) PROVE RedisTypes'
  <2>1. fraudPc[h] = "setRule" /\ h \in FraudBoots \cup FraudAdmins
    BY <1>1, <1>9, RuleMoves DEF FraudSetRule
  <2>2. PICK body : body = IF h \in FraudBoots THEN FraudDefault(fraudLocal[h].n)
                                               ELSE fraudLocal[h].body
    OBVIOUS
  <2>3. body \in FraudRuleBody
    <3>1. CASE h \in FraudBoots
      <4>1. fraudLocal[h].n \in DOMAIN FraudDefaults
        BY <2>1, <3>1 DEF FraudInv, StartInv, Progress
      <4>2. FraudDefaults[fraudLocal[h].n] \in RuleTypes
        BY <4>1, FraudAssumption
      <4> QED BY <2>2, <3>1, <4>2 DEF FraudDefault, FraudRuleBody
    <3>2. CASE h \notin FraudBoots
      BY <1>1, <2>1, <2>2, <3>2 DEF MemoryTypes, AdminTypes
    <3> QED BY <3>1, <3>2
  <2>4. PICK rule : rule = [by |-> h, n |-> fraudLocal[h].n, body |-> body]
    OBVIOUS
  <2>5. rule \in StoredRules
    BY <1>1, <2>1, <2>3, <2>4 DEF FraudTypeInv, StoredRules
  <2>6. fraudRedis' = [fraudRedis EXCEPT !.rules = @ \cup {rule}]
    BY <1>9, <2>2, <2>4 DEF FraudSetRule
  <2>7. /\ fraudRedis'.rules = fraudRedis.rules \cup {rule}
        /\ \A f \in {"flags", "flagList", "windows", "frozen"} : fraudRedis'[f] = fraudRedis[f]
    BY <1>1, <2>6 DEF FraudTypeInv, RedisFields
  <2> QED BY <1>1, <2>5, <2>7 DEF RedisTypes
<1>10. ASSUME NEW h \in FraudHandlers, FraudPushRule(h) PROVE RedisTypes'
  <2>1. \A f \in TypedFields : fraudRedis'[f] = fraudRedis[f]
    BY <1>1, <1>10 DEF FraudPushRule, FraudTypeInv, RedisFields, TypedFields
  <2> QED BY <1>1, <2>1, RedisKept
<1>11. CASE \/ UNCHANGED fraudVars \/ FraudTick \/ \E b \in FraudBoots : FraudBoot(b)
            \/ \E c \in FraudChecks : \E t \in FraudRequests : FraudCheck(c, t)
            \/ \E a \in FraudAdmins : \/ \E body \in FraudNewRules : FraudCreateRule(a, body)
                                      \/ \E u \in FraudUsers : FraudOrderFreeze(a, u)
                                      \/ \E f \in fraudRedis.flags : FraudReadFlag(a, f)
            \/ \E p \in FraudCrons : FraudScan(p)
            \/ \E h \in FraudHandlers : FraudEmit(h) \/ FraudCrash(h)
  <2>1. UNCHANGED fraudRedis
    BY <1>11 DEF fraudVars, FraudTick, FraudBoot, FraudCheck, FraudCreateRule, FraudOrderFreeze,
       FraudReadFlag, FraudScan, FraudEmit, FraudCrash
  <2> QED BY <1>2, <2>1
<1> QED
  BY <1>3, <1>4, <1>5, <1>6, <1>7, <1>8, <1>9, <1>10, <1>11 DEF FraudNext, FraudEvaluate, Evaluates

LEMMA OtherStep ==
  ASSUME FraudInv, FraudTypes, [FraudNext]_fraudVars PROVE OtherTypes'
<1>1. FraudTypeInv /\ MemoryTypes /\ OtherTypes
  BY DEF FraudInv, FraudTypes
<1>2. CASE UNCHANGED <<fraudAlerts, fraudOrdered, fraudNow, fraudFaults>>
  BY <1>1, <1>2 DEF OtherTypes
<1>3. ASSUME NEW h \in FraudHandlers, FraudEmit(h) PROVE OtherTypes'
  <2>1. FraudAccount(h) \in FraudUsers
    BY <1>1, <1>3, AccountIsUser DEF FraudEmit
  <2>2. (IF fraudPc[h] = "alert" THEN fraudLocal[h].flags ELSE 0) \in Nat
    <3>1. fraudPc[h] = "alert" => h \in FraudChecks
      BY <1>1 DEF FraudTypeInv, FraudHandlers, BootSteps, AdminSteps, CronSteps
    <3>2. fraudPc[h] = "alert" => fraudLocal[h].flags \in Nat
      BY <3>1 DEF FraudInv, FreezeInv, Counted
    <3> QED BY <3>2
  <2>3. fraudAlerts' \subseteq FraudUsers \X Nat
    BY <1>1, <1>3, <2>1, <2>2 DEF FraudEmit, OtherTypes
  <2>4. fraudFaults' \in 0..FraudMaxFaults
    BY <1>1, <1>3, FraudAssumption DEF FraudEmit, OtherTypes
  <2> QED BY <1>1, <1>3, <2>3, <2>4 DEF FraudEmit, OtherTypes
<1>4. ASSUME NEW h \in FraudHandlers, FraudCrash(h) PROVE OtherTypes'
  BY <1>1, <1>4, FraudAssumption DEF FraudCrash, OtherTypes
<1>5. CASE FraudTick
  BY <1>1, <1>5, FraudAssumption DEF FraudTick, OtherTypes
<1>6. ASSUME NEW a \in FraudAdmins, NEW u \in FraudUsers, FraudOrderFreeze(a, u) PROVE OtherTypes'
  BY <1>1, <1>6 DEF FraudOrderFreeze, OtherTypes
<1>7. ASSUME NEW c \in FraudChecks,
             FraudEvaluate(c) \/ \E t \in FraudRequests : FraudCheck(c, t)
      PROVE  OtherTypes'
  BY <1>2, <1>7 DEF FraudEvaluate, FraudAmount, FraudUnknown, FraudTrim, FraudCount, FraudAdd,
     FraudLookUpDevice, FraudAssociate, FraudLookUpLocation, FraudSetLocation, FraudStoreFlag,
     FraudListFlag, FraudCheck, fraudAside
<1>8. CASE \/ UNCHANGED fraudVars \/ \E b \in FraudBoots : FraudBoot(b)
           \/ \E a \in FraudAdmins :
                \/ \E body \in FraudNewRules : FraudCreateRule(a, body)
                \/ \E f \in fraudRedis.flags : FraudReadFlag(a, f)
                \/ \E status \in {"open", "reviewed", "dismissed"} : FraudReviewFlag(a, status)
           \/ \E p \in FraudCrons : FraudScan(p) \/ FraudDelete(p)
           \/ \E h \in FraudHandlers : FraudSetRule(h) \/ FraudPushRule(h) \/ FraudFreeze(h)
  <2>1. UNCHANGED <<fraudAlerts, fraudOrdered, fraudNow, fraudFaults>>
    BY <1>8 DEF fraudVars, FraudBoot, FraudCreateRule, FraudReadFlag, FraudReviewFlag, FraudScan,
       FraudDelete, FraudSetRule, FraudPushRule, FraudFreeze, fraudAside
  <2> QED BY <1>2, <2>1
<1> QED BY <1>3, <1>4, <1>5, <1>6, <1>7, <1>8 DEF FraudNext

LEMMA PcStep ==
  ASSUME FraudInv, FraudTypes, [FraudNext]_fraudVars PROVE PcType'
<1>1. CASE UNCHANGED fraudPc
  BY <1>1 DEF FraudTypes, PcType
<1>2. ASSUME NEW h, NEW step, FraudGoto(h, step) PROVE PcType'
  BY <1>2 DEF FraudTypes, PcType, FraudGoto
<1>3. ASSUME NEW c \in FraudChecks, FraudEvaluate(c) PROVE PcType'
  BY <1>2, <1>3 DEF FraudEvaluate, FraudAmount, FraudUnknown, FraudTrim, FraudCount, FraudAdd,
     FraudLookUpDevice, FraudAssociate, FraudLookUpLocation, FraudSetLocation, FraudStoreFlag,
     FraudListFlag, FraudAdvance, FraudTrigger
<1>4. ASSUME \/ \E b \in FraudBoots : FraudBoot(b)
             \/ \E c \in FraudChecks : \E t \in FraudRequests : FraudCheck(c, t)
             \/ \E p \in FraudCrons : FraudScan(p) \/ FraudDelete(p)
      PROVE  PcType'
  BY <1>2, <1>4 DEF FraudBoot, FraudCheck, FraudScan, FraudDelete
<1>5. ASSUME NEW a \in FraudAdmins,
             \/ \E body \in FraudNewRules : FraudCreateRule(a, body)
             \/ \E u \in FraudUsers : FraudOrderFreeze(a, u)
             \/ \E f \in fraudRedis.flags : FraudReadFlag(a, f)
             \/ \E status \in {"open", "reviewed", "dismissed"} : FraudReviewFlag(a, status)
      PROVE  PcType'
  BY <1>2, <1>5 DEF FraudCreateRule, FraudOrderFreeze, FraudReadFlag, FraudReviewFlag
<1>6. ASSUME NEW h \in FraudHandlers,
             FraudSetRule(h) \/ FraudPushRule(h) \/ FraudFreeze(h) \/ FraudEmit(h) \/ FraudCrash(h)
      PROVE  PcType'
  BY <1>2, <1>6 DEF FraudSetRule, FraudPushRule, FraudFreeze, FraudEmit, FraudCrash
<1>7. CASE UNCHANGED fraudVars \/ FraudTick
  BY <1>1, <1>7 DEF fraudVars, FraudTick
<1> QED BY <1>3, <1>4, <1>5, <1>6, <1>7 DEF FraudNext

LEMMA TypesAtStart == FraudInit => FraudTypes
<1> SUFFICES ASSUME FraudInit PROVE FraudTypes
  OBVIOUS
<1>1. \A h \in FraudHandlers :
        fraudLocal[h] = FraudNoLocals /\ fraudPc[h] \in {"absent", "idle"}
  BY DEF FraudInit, FraudStart
<1>2. MemoryTypes
  <2>1. ASSUME NEW c \in FraudChecks PROVE CheckTypes(c)
    <3>1. fraudLocal[c].rules = <<>> /\ fraudLocal[c].at = 0 /\ fraudPc[c] \in {"absent", "idle"}
      BY <1>1 DEF FraudNoLocals, FraudHandlers
    <3> QED BY <3>1, FraudAssumption DEF CheckTypes, RuleSteps
  <2>2. ASSUME NEW a \in FraudAdmins PROVE AdminTypes(a)
    BY <1>1 DEF AdminTypes, FraudHandlers
  <2> QED BY <2>1, <2>2 DEF MemoryTypes
<1>3. RedisTypes
  BY DEF FraudInit, FraudEmptyRedis, RedisTypes
<1>4. OtherTypes
  BY FraudAssumption DEF FraudInit, OtherTypes
<1>5. PcType
  BY DEF FraudInit, FraudStart, PcType
<1> QED BY <1>2, <1>3, <1>4, <1>5 DEF FraudTypes

LEMMA TypesOfAll == FraudInv /\ FraudTypes => FraudTypeOK
<1> SUFFICES ASSUME FraudInv, FraudTypes PROVE FraudTypeOK
  OBVIOUS
<1>1. fraudPc \in [FraudHandlers -> FraudSteps]
  <2>1. BootSteps \cup CheckSteps \cup AdminSteps \cup CronSteps \subseteq FraudSteps
    BY DEF BootSteps, CheckSteps, AdminSteps, CronSteps, FraudSteps
  <2>2. ASSUME NEW h \in FraudHandlers PROVE fraudPc[h] \in FraudSteps
    BY <2>1 DEF FraudInv, FraudTypeInv, FraudHandlers
  <2> QED BY <2>2 DEF FraudTypes, PcType
<1> QED
  BY <1>1 DEF FraudTypeOK, FraudTypes, RedisTypes, OtherTypes, StoredRules, FraudInv, FraudTypeInv

\* Every rule, flag, window and alert is of its type: a check evaluates only
\* rules that were created, and a review writes back only what was a flag.
THEOREM FraudTyped == FraudSpec => []FraudTypeOK
<1>1. FraudInv /\ FraudTypes /\ [FraudNext]_fraudVars => FraudTypes'
  BY MemoryStep, RedisStep, OtherStep, PcStep DEF FraudTypes
<1> QED BY <1>1, TypesAtStart, FraudConsistent, TypesOfAll, PTL DEF FraudSpec

=============================================================================
