---------------------------- MODULE FraudService ---------------------------
(***************************************************************************)
(* The fraud detection microservice: replicas that start and fill in the   *)
(* default rules, transaction checks, administrators' requests and the     *)
(* hourly clean-up, interleaved at every await over one Redis.  Each Redis *)
(* command is atomic and no two are in one transaction; LRANGE and MGET,   *)
(* ZADD and EXPIRE are taken together, because what the one reads or sets  *)
(* is not changed between the two.                                         *)
(***************************************************************************)
EXTENDS Naturals, Sequences, FiniteSets

CONSTANTS
  FraudBoots,       \* starts of a replica
  FraudChecks,      \* transactions to check
  FraudAdmins,      \* administrators' requests
  FraudCrons,       \* processes that run the hourly clean-up
  FraudGroups,      \* bound: the sets of handlers of which one takes part, the rest stays away
  FraudRequests,    \* transactions: records [user, ip, device, location, large]
  FraudDefaults,    \* the default rules, a sequence of types
  FraudNewRules,    \* rules administrators create: records [type, enabled, action]
  FraudMaxCount,    \* maxCount of the velocity rules
  FraudWindow,      \* windowMinutes, in ticks of the clock
  FraudThreshold,   \* FREEZE_THRESHOLD
  FraudMaxTime,     \* bound on the ticks
  FraudMaxFaults,   \* bound on crashes and lost messages
  FraudNone         \* a device or location that is 'unknown'

RuleTypes ==
  {"amount_threshold", "velocity_per_user", "velocity_per_ip", "new_device", "geo_anomaly"}

FraudRuleBody == [type: RuleTypes, enabled: BOOLEAN, action: {"flag", "block", "freeze"}]

ASSUME FraudAssumption ==
  /\ FraudBoots \cap (FraudChecks \cup FraudAdmins \cup FraudCrons) = {}
  /\ FraudChecks \cap (FraudAdmins \cup FraudCrons) = {}
  /\ FraudAdmins \cap FraudCrons = {}
  /\ FraudGroups \subseteq SUBSET (FraudBoots \cup FraudChecks \cup FraudAdmins \cup FraudCrons)
  /\ \A t \in FraudRequests : DOMAIN t = {"user", "ip", "device", "location", "large"}
  /\ FraudDefaults \in Seq(RuleTypes) /\ FraudDefaults # <<>>
  /\ FraudNewRules \subseteq FraudRuleBody
  /\ FraudMaxCount \in Nat /\ FraudWindow \in Nat /\ FraudThreshold \in Nat \ {0}
  /\ FraudMaxTime \in Nat /\ FraudMaxFaults \in Nat

VARIABLES
  fraudRedis,      \* what Redis holds, see FraudEmptyRedis
  fraudAlerts,     \* messages on fraud.alert: <<user, flags>>
  fraudNow,        \* the clock
  fraudPc,         \* where each handler is
  fraudLocal,      \* what each handler remembers
  fraudFaults

\* History: accounts administrators froze, and handlers that overlapped.
VARIABLES fraudOrdered, fraudMet

\* What most steps leave alone.
fraudAside == <<fraudAlerts, fraudNow, fraudFaults, fraudOrdered, fraudMet>>
fraudVars  == <<fraudRedis, fraudAlerts, fraudNow, fraudPc, fraudLocal, fraudFaults,
                fraudOrdered, fraudMet>>

FraudHandlers == FraudBoots \cup FraudChecks \cup FraudAdmins \cup FraudCrons

FraudUsers == {t.user : t \in FraudRequests}
FraudKeys  == FraudUsers \cup {t.ip : t \in FraudRequests}

FraudNoRequest == [user |-> FraudNone]

\* rules: what a check has still to evaluate, by places in the list; flags:
\* how many it has raised; count: the velocity it read; earlier: history, see
\* BurstIsFlagged; n: the default a boot is at; body: the rule to create, or
\* the flag a review has read; keys: those the clean-up has scanned.
FraudNoLocals ==
  [tx |-> FraudNoRequest, at |-> 0, rules |-> <<>>, flags |-> 0, count |-> 0, block |-> FALSE,
   earlier |-> {}, n |-> 0, body |-> FraudNone, target |-> FraudNone, keys |-> {}]

\* rules:<id> and rules:list; flags:<id> and flags:list; the sorted set of
\* times of each velocity key; <<user, device>> pairs; the last location of
\* each user; the frozen accounts.
FraudEmptyRedis ==
  [rules |-> {}, ruleList |-> <<>>, flags |-> {}, flagList |-> {},
   windows |-> [k \in FraudKeys |-> {}], devices |-> {},
   location |-> [u \in FraudUsers |-> FraudNone], frozen |-> {}]

\* The handlers of group g take part.
FraudStart(g) == [h \in FraudHandlers |-> IF h \in g THEN "idle" ELSE "absent"]

FraudInit ==
  /\ fraudRedis = FraudEmptyRedis
  /\ fraudAlerts = {}
  /\ fraudNow = 0
  /\ \E g \in FraudGroups : fraudPc = FraudStart(g)
  /\ fraudLocal = [h \in FraudHandlers |-> FraudNoLocals]
  /\ fraudFaults = 0
  /\ fraudOrdered = {} /\ fraudMet = {}

FraudGoto(h, step) == fraudPc' = [fraudPc EXCEPT ![h] = step]

\* A replica takes requests once its onModuleInit is over.
FraudUp == \E b \in FraudBoots : fraudPc[b] = "up"

\* The handlers at one of the steps, h aside.
FraudAt(h, group, steps) == {g \in group \ {h} : fraudPc[g] \in steps}

-----------------------------------------------------------------------------
(* initializeDefaultRules *)

\* Not the code: a longer list than that of the defaults counts as filled.
FraudHasMoreRules(list) == Len(list) > Len(FraudDefaults)

FraudHasRules(list) == Len(list) > 0

FraudBoot(b) ==
  /\ fraudPc[b] = "idle"
  /\ fraudLocal' = [fraudLocal EXCEPT ![b].n = 1]
  /\ IF FraudHasRules(fraudRedis.ruleList)
     THEN /\ FraudGoto(b, "up")
          /\ UNCHANGED fraudMet
     ELSE /\ FraudGoto(b, "setRule")
          /\ fraudMet' = fraudMet \cup
               {{b, c} : c \in FraudAt(b, FraudBoots, {"setRule", "pushRule"})}
  /\ UNCHANGED <<fraudRedis, fraudAlerts, fraudNow, fraudFaults, fraudOrdered>>

FraudDefault(n) == [type |-> FraudDefaults[n], enabled |-> TRUE, action |-> "flag"]

\* saveRule: of the n-th default, or of the rule an administrator creates.
FraudSetRule(h) ==
  /\ fraudPc[h] = "setRule"
  /\ fraudRedis' = [fraudRedis EXCEPT !.rules = @ \cup
       {[by |-> h, n |-> fraudLocal[h].n,
         body |-> IF h \in FraudBoots THEN FraudDefault(fraudLocal[h].n) ELSE fraudLocal[h].body]}]
  /\ FraudGoto(h, "pushRule")
  /\ UNCHANGED <<fraudLocal, fraudAside>>

FraudPushRule(h) ==
  LET n == fraudLocal[h].n IN
  /\ fraudPc[h] = "pushRule"
  /\ fraudRedis' = [fraudRedis EXCEPT !.ruleList = Append(@, <<h, n>>)]
  /\ fraudLocal' = [fraudLocal EXCEPT ![h].n = n + 1]
  /\ FraudGoto(h, IF h \in FraudAdmins THEN "done"
                  ELSE IF n < Len(FraudDefaults) THEN "setRule" ELSE "up")
  /\ UNCHANGED fraudAside

-----------------------------------------------------------------------------
(* checkTransaction *)

\* The rule with identifier id, or none: MGET answers null and it is dropped.
FraudValue(id) == {r \in fraudRedis.rules : <<r.by, r.n>> = id}

\* getAllRules, the disabled ones already left out: a rule at each place of the
\* list that has one to evaluate.
FraudAllRules ==
  LET list == fraudRedis.ruleList
      places == {k \in DOMAIN list : \E r \in FraudValue(list[k]) : r.body.enabled}
  IN [k \in places |-> (CHOOSE r \in FraudValue(list[k]) : TRUE).body]

FraudFirst(rules) == CHOOSE k \in DOMAIN rules : \A j \in DOMAIN rules : k <= j

FraudRest(rules) == [k \in DOMAIN rules \ {FraudFirst(rules)} |-> rules[k]]

\* Not the code: one flag less is enough.
FraudBreachesEarly(flags) == flags + 1 >= FraudThreshold

FraudBreaches(flags) == flags >= FraudThreshold

\* After the last rule: freeze, then alert, then answer.
FraudConclusion(l) ==
  IF FraudBreaches(l.flags) THEN "freeze" ELSE IF l.flags > 0 THEN "alert" ELSE "done"

\* Check c goes on to the rule after the one it is at.
FraudAdvance(c, l) ==
  LET m == [l EXCEPT !.rules = FraudRest(@)] IN
  /\ fraudLocal' = [fraudLocal EXCEPT ![c] = m]
  /\ FraudGoto(c, IF DOMAIN m.rules = {} THEN FraudConclusion(m) ELSE "rule")

FraudTrigger(c) == FraudGoto(c, "storeFlag") /\ UNCHANGED fraudLocal

\* The times at which this user's checks that are over had started, as far as
\* they lie within the window.
FraudEarlier(user) ==
  {fraudLocal[d].at : d \in {e \in FraudChecks : fraudPc[e] = "done" /\ fraudLocal[e].tx.user = user
                                                  /\ fraudLocal[e].at + FraudWindow >= fraudNow}}

FraudCheck(c, t) ==
  /\ FraudUp
  /\ fraudPc[c] = "idle"
  /\ fraudLocal' = [fraudLocal EXCEPT ![c].tx = t, ![c].at = fraudNow, ![c].rules = FraudAllRules,
                                      ![c].earlier = FraudEarlier(t.user)]
  /\ FraudGoto(c, IF DOMAIN FraudAllRules = {} THEN "done" ELSE "rule")
  /\ UNCHANGED <<fraudRedis, fraudAside>>

FraudRule(c) == fraudLocal[c].rules[FraudFirst(fraudLocal[c].rules)]

FraudIsAt(c, type) == fraudPc[c] = "rule" /\ FraudRule(c).type = type

FraudAmount(c) ==
  /\ FraudIsAt(c, "amount_threshold")
  /\ IF fraudLocal[c].tx.large THEN FraudTrigger(c) ELSE FraudAdvance(c, fraudLocal[c])
  /\ UNCHANGED <<fraudRedis, fraudAside>>

\* A device or location that is unknown passes.
FraudUnknown(c) ==
  /\ \/ FraudIsAt(c, "new_device") /\ fraudLocal[c].tx.device = FraudNone
     \/ FraudIsAt(c, "geo_anomaly") /\ fraudLocal[c].tx.location = FraudNone
  /\ FraudAdvance(c, fraudLocal[c])
  /\ UNCHANGED <<fraudRedis, fraudAside>>

FraudKey(c) ==
  IF FraudRule(c).type = "velocity_per_user" THEN fraudLocal[c].tx.user ELSE fraudLocal[c].tx.ip

\* What ZREMRANGEBYSCORE from windowStart to now leaves: the entries outside
\* the window.
FraudTrimmed(times, now) == {t \in times : t + FraudWindow < now \/ t > now}

\* countInWindow: trim, then count.
FraudTrim(c) ==
  /\ FraudIsAt(c, "velocity_per_user") \/ FraudIsAt(c, "velocity_per_ip")
  /\ fraudRedis' = [fraudRedis EXCEPT !.windows[FraudKey(c)] = FraudTrimmed(@, fraudLocal[c].at)]
  /\ FraudGoto(c, "count")
  /\ UNCHANGED <<fraudLocal, fraudAside>>

FraudCount(c) ==
  /\ fraudPc[c] = "count"
  /\ fraudLocal' = [fraudLocal EXCEPT ![c].count = Cardinality(fraudRedis.windows[FraudKey(c)])]
  /\ FraudGoto(c, "add")
  /\ UNCHANGED <<fraudRedis, fraudAside>>

\* addToWindow: two checks of one key in one millisecond are one member.
FraudAdd(c) ==
  /\ fraudPc[c] = "add"
  /\ fraudRedis' = [fraudRedis EXCEPT !.windows[FraudKey(c)] = @ \cup {fraudLocal[c].at}]
  /\ IF fraudLocal[c].count >= FraudMaxCount
     THEN FraudTrigger(c) ELSE FraudAdvance(c, fraudLocal[c])
  /\ UNCHANGED fraudAside

FraudDevice(c) == <<fraudLocal[c].tx.user, fraudLocal[c].tx.device>>

\* Checks that have found the device of check c new and not yet added it.
FraudSameDevice(c) ==
  {d \in FraudAt(c, FraudChecks, {"associate"}) : FraudDevice(d) = FraudDevice(c)}

FraudLookUpDevice(c) ==
  /\ FraudIsAt(c, "new_device") /\ fraudLocal[c].tx.device # FraudNone
  /\ IF FraudDevice(c) \in fraudRedis.devices
     THEN FraudAdvance(c, fraudLocal[c]) /\ UNCHANGED fraudMet
     ELSE /\ FraudGoto(c, "associate")
          /\ fraudMet' = fraudMet \cup {{c, d} : d \in FraudSameDevice(c)}
          /\ UNCHANGED fraudLocal
  /\ UNCHANGED <<fraudRedis, fraudAlerts, fraudNow, fraudFaults, fraudOrdered>>

\* Not the code: the new device is flagged and not remembered.
FraudForget(devices, device) == devices

FraudRemember(devices, device) == devices \cup {device}

FraudAssociate(c) ==
  /\ fraudPc[c] = "associate"
  /\ fraudRedis' = [fraudRedis EXCEPT !.devices = FraudRemember(@, FraudDevice(c))]
  /\ FraudTrigger(c)
  /\ UNCHANGED fraudAside

FraudLookUpLocation(c) ==
  LET tx == fraudLocal[c].tx IN
  /\ FraudIsAt(c, "geo_anomaly") /\ tx.location # FraudNone
  /\ FraudGoto(c, IF fraudRedis.location[tx.user] \in {FraudNone, tx.location}
                  THEN "locate" ELSE "storeFlag")
  /\ UNCHANGED <<fraudRedis, fraudLocal, fraudAside>>

FraudSetLocation(c) ==
  /\ fraudPc[c] = "locate"
  /\ fraudRedis' = [fraudRedis EXCEPT !.location[fraudLocal[c].tx.user] = fraudLocal[c].tx.location]
  /\ FraudAdvance(c, fraudLocal[c])
  /\ UNCHANGED fraudAside

\* saveFlag, in two commands.
FraudStoreFlag(c) ==
  /\ fraudPc[c] = "storeFlag"
  /\ fraudRedis' = [fraudRedis EXCEPT !.flags = @ \cup
       {[check |-> c, n |-> fraudLocal[c].flags + 1, type |-> FraudRule(c).type,
         status |-> "open"]}]
  /\ FraudGoto(c, "listFlag")
  /\ UNCHANGED <<fraudLocal, fraudAside>>

FraudListFlag(c) ==
  LET l == fraudLocal[c] IN
  /\ fraudPc[c] = "listFlag"
  /\ fraudRedis' = [fraudRedis EXCEPT !.flagList = @ \cup {<<c, l.flags + 1>>}]
  /\ FraudAdvance(c, [l EXCEPT !.flags = @ + 1, !.block = @ \/ FraudRule(c).action = "block"])
  /\ UNCHANGED fraudAside

-----------------------------------------------------------------------------
(* freezeAccount, emitFraudAlert *)

FraudAccount(h) == IF h \in FraudChecks THEN fraudLocal[h].tx.user ELSE fraudLocal[h].target

\* A check that freezes also blocks its transaction.
FraudFreeze(h) ==
  /\ fraudPc[h] = "freeze"
  /\ fraudRedis' = [fraudRedis EXCEPT !.frozen = @ \cup {FraudAccount(h)}]
  /\ fraudLocal' = [fraudLocal EXCEPT ![h].block = TRUE]
  /\ FraudGoto(h, "freezeAlert")
  /\ UNCHANGED fraudAside

\* A refused message is logged and forgotten.
FraudEmit(h) ==
  /\ fraudPc[h] \in {"freezeAlert", "alert"}
  /\ FraudGoto(h, IF fraudPc[h] = "freezeAlert" /\ h \in FraudChecks THEN "alert" ELSE "done")
  /\ \/ /\ fraudAlerts' = fraudAlerts \cup
             {<<FraudAccount(h), IF fraudPc[h] = "alert" THEN fraudLocal[h].flags ELSE 0>>}
        /\ UNCHANGED fraudFaults
     \/ /\ fraudFaults < FraudMaxFaults
        /\ fraudFaults' = fraudFaults + 1
        /\ UNCHANGED fraudAlerts
  /\ UNCHANGED <<fraudRedis, fraudNow, fraudLocal, fraudOrdered, fraudMet>>

-----------------------------------------------------------------------------
(* Administrators' requests and the clean-up *)

FraudCreateRule(a, body) ==
  /\ FraudUp
  /\ fraudPc[a] = "idle"
  /\ fraudLocal' = [fraudLocal EXCEPT ![a].body = body]
  /\ FraudGoto(a, "setRule")
  /\ UNCHANGED <<fraudRedis, fraudAside>>

FraudOrderFreeze(a, u) ==
  /\ FraudUp
  /\ fraudPc[a] = "idle"
  /\ fraudLocal' = [fraudLocal EXCEPT ![a].target = u]
  /\ fraudOrdered' = fraudOrdered \cup {u}
  /\ FraudGoto(a, "freeze")
  /\ UNCHANGED <<fraudRedis, fraudAlerts, fraudNow, fraudFaults, fraudMet>>

FraudReadFlag(a, f) ==
  /\ FraudUp
  /\ fraudPc[a] = "idle"
  /\ f \in fraudRedis.flags
  /\ fraudLocal' = [fraudLocal EXCEPT ![a].body = f]
  /\ FraudGoto(a, "review")
  /\ UNCHANGED <<fraudRedis, fraudAside>>

\* The flag is written back as it was read, but for its status.
FraudReviewFlag(a, status) ==
  LET f == fraudLocal[a].body IN
  /\ fraudPc[a] = "review"
  /\ fraudRedis' = [fraudRedis EXCEPT !.flags =
       {g \in @ : <<g.check, g.n>> # <<f.check, f.n>>} \cup {[f EXCEPT !.status = status]}]
  /\ FraudGoto(a, "done")
  /\ UNCHANGED <<fraudLocal, fraudAside>>

\* cleanExpiredData scans for the keys of the windows, then deletes them.
FraudScan(p) ==
  /\ FraudUp
  /\ fraudPc[p] = "idle"
  /\ fraudLocal' = [fraudLocal EXCEPT ![p].keys = {k \in FraudKeys : fraudRedis.windows[k] # {}}]
  /\ FraudGoto(p, IF fraudLocal'[p].keys = {} THEN "done" ELSE "delete")
  /\ UNCHANGED <<fraudRedis, fraudAside>>

FraudDelete(p) ==
  /\ fraudPc[p] = "delete"
  /\ fraudRedis' = [fraudRedis EXCEPT !.windows =
       [k \in FraudKeys |-> IF k \in fraudLocal[p].keys THEN {} ELSE @[k]]]
  /\ FraudGoto(p, "done")
  /\ UNCHANGED <<fraudLocal, fraudAside>>

-----------------------------------------------------------------------------

FraudTick ==
  /\ fraudNow < FraudMaxTime
  /\ fraudNow' = fraudNow + 1
  /\ UNCHANGED <<fraudRedis, fraudAlerts, fraudPc, fraudLocal, fraudFaults, fraudOrdered, fraudMet>>

\* The process dies, or a Redis command fails and the error ends the handler.
FraudCrash(h) ==
  /\ fraudPc[h] \notin {"absent", "idle", "done", "up", "crashed"}
  /\ fraudFaults < FraudMaxFaults
  /\ fraudFaults' = fraudFaults + 1
  /\ FraudGoto(h, "crashed")
  /\ UNCHANGED <<fraudRedis, fraudAlerts, fraudNow, fraudLocal, fraudOrdered, fraudMet>>

FraudEvaluate(c) ==
  \/ FraudAmount(c) \/ FraudUnknown(c)
  \/ FraudTrim(c) \/ FraudCount(c) \/ FraudAdd(c)
  \/ FraudLookUpDevice(c) \/ FraudAssociate(c)
  \/ FraudLookUpLocation(c) \/ FraudSetLocation(c)
  \/ FraudStoreFlag(c) \/ FraudListFlag(c)

FraudNext ==
  \/ \E b \in FraudBoots : FraudBoot(b)
  \/ \E c \in FraudChecks :
       \/ \E t \in FraudRequests : FraudCheck(c, t)
       \/ FraudEvaluate(c)
  \/ \E a \in FraudAdmins :
       \/ \E body \in FraudNewRules : FraudCreateRule(a, body)
       \/ \E u \in FraudUsers : FraudOrderFreeze(a, u)
       \/ \E f \in fraudRedis.flags : FraudReadFlag(a, f)
       \/ \E status \in {"open", "reviewed", "dismissed"} : FraudReviewFlag(a, status)
  \/ \E p \in FraudCrons : FraudScan(p) \/ FraudDelete(p)
  \/ \E h \in FraudHandlers :
       FraudSetRule(h) \/ FraudPushRule(h) \/ FraudFreeze(h) \/ FraudEmit(h) \/ FraudCrash(h)
  \/ FraudTick

FraudSpec == FraudInit /\ [][FraudNext]_fraudVars

-----------------------------------------------------------------------------
(* What the service keeps true, and what it does not *)

FraudFlag ==
  [check: FraudChecks, n: Nat, type: RuleTypes, status: {"open", "reviewed", "dismissed"}]

FraudSteps ==
  {"absent", "idle", "setRule", "pushRule", "up", "rule", "count", "add", "associate", "locate",
   "storeFlag", "listFlag", "freeze", "freezeAlert", "alert", "review", "delete", "done", "crashed"}

FraudTypeOK ==
  /\ fraudRedis.rules \subseteq [by: FraudBoots \cup FraudAdmins, n: Nat, body: FraudRuleBody]
  /\ fraudRedis.ruleList \in Seq((FraudBoots \cup FraudAdmins) \X Nat)
  /\ fraudRedis.flags \subseteq FraudFlag
  /\ fraudRedis.flagList \subseteq FraudChecks \X Nat
  /\ fraudRedis.windows \in [FraudKeys -> SUBSET (0..FraudMaxTime)]
  /\ fraudRedis.frozen \subseteq FraudUsers
  /\ fraudAlerts \subseteq FraudUsers \X Nat
  /\ fraudNow \in 0..FraudMaxTime
  /\ fraudPc \in [FraudHandlers -> FraudSteps]
  /\ fraudFaults \in 0..FraudMaxFaults
  /\ fraudOrdered \subseteq FraudUsers

\* A frozen account was frozen by an administrator, or by one transaction of
\* its user with at least FraudThreshold flags, each of them stored and in
\* the list an analyst is shown, whatever crashed and whatever was reviewed
\* meanwhile (checkTransaction, saveFlag).
FrozenIsExplained ==
  \A u \in fraudRedis.frozen \ fraudOrdered :
    \E c \in FraudChecks :
      /\ fraudLocal[c].tx.user = u
      /\ Cardinality({f \in fraudRedis.flags :
                         f.check = c /\ <<c, f.n>> \in fraudRedis.flagList}) >= FraudThreshold

\* Two transactions are flagged for one device of one user only if both had
\* looked the device up before either had stored it: SISMEMBER and SADD are
\* two commands.
SecondDeviceFlagOverlaps ==
  \A f, g \in fraudRedis.flags :
    /\ f.type = "new_device" /\ g.type = "new_device"
    /\ f.check # g.check /\ FraudDevice(f.check) = FraudDevice(g.check)
    => {f.check, g.check} \in fraudMet

\* Where the list has a rule of type t that start b put there.
FraudCopies(b, t) ==
  {k \in DOMAIN fraudRedis.ruleList :
     /\ fraudRedis.ruleList[k][1] = b
     /\ \E r \in FraudValue(fraudRedis.ruleList[k]) : r.body.type = t}

\* A service that takes requests and has no start under way has every default
\* rule, unless a start died in between; and two starts both filled the list
\* only if they overlapped (initializeDefaultRules reads the length, then
\* fills the list command by command, and never looks at what is in it).
DefaultsComplete ==
  /\ (FraudUp /\ \A b \in FraudBoots : fraudPc[b] \in {"absent", "idle", "up"}) =>
       \A k \in DOMAIN FraudDefaults : \E b \in FraudBoots : FraudCopies(b, FraudDefaults[k]) # {}
  /\ \A k \in DOMAIN FraudDefaults : \A first, second \in FraudBoots :
       /\ first # second
       /\ FraudCopies(first, FraudDefaults[k]) # {} /\ FraudCopies(second, FraudDefaults[k]) # {}
       => {first, second} \in fraudMet

\* A transaction that starts when FraudMaxCount others of its user have begun
\* and ended within the window is flagged by the per-user rule
\* (fraud.service.spec.ts:133, "should flag velocity per-user when exceeding
\* max count").
BurstIsFlagged ==
  \A c \in FraudChecks :
    fraudPc[c] = "done" /\ Cardinality(fraudLocal[c].earlier) >= FraudMaxCount =>
      \E f \in fraudRedis.flags : f.check = c /\ f.type = "velocity_per_user"

=============================================================================
