------------------------- MODULE NotificationProofs ------------------------
(***************************************************************************)
(* For any number of consumers, any partitions and any number of faults:   *)
(* an event is marked only when it was dealt with, a counter loses its     *)
(* lifetime only in the race between TTL and INCR, and every copy of a     *)
(* notification has its excuse.                                            *)
(***************************************************************************)
EXTENDS NotificationService, FiniteSetTheorems, TLAPS

QueueInv ==
  /\ notifQueue \in NotifQueues
  /\ notifRows \in [NotifKeys -> Nat]
  /\ notifMarked \subseteq NotifKeys
  /\ notifCounter \in [NotifUsers -> Nat]
  /\ notifPc \in [NotifConsumers -> NotifRunning \cup {"idle"}]
  /\ notifCounted \in [NotifConsumers -> BOOLEAN]
  /\ notifNext \in [NotifConsumers -> Nat] /\ notifCommitted \in [NotifConsumers -> Nat]
  /\ \A c \in NotifConsumers : notifPc[c] # "idle" => NotifHas(c)

Processed(k) == notifRows[k] > 0 \/ k \in notifSuppressed

\* A handler about to set a mark has dealt with its message.
EarnedInv ==
  /\ \A c \in NotifConsumers : notifPc[c] = "mark" => Processed(NotifMessage(c).key)
  /\ MarkMeansProcessed

\* A handler that found a counter still has one, unless it ran out meanwhile.
CountedInv ==
  /\ \A c \in NotifConsumers : notifPc[c] = "count" /\ notifCounted[c] =>
       notifCounter[NotifMessage(c).user] > 0 \/ NotifMessage(c).user \in notifRaced
  /\ ImmortalNeedsRace

NotifInv == QueueInv /\ EarnedInv /\ CountedInv

-----------------------------------------------------------------------------

\* What a consumer reads is one of the messages there can be.
LEMMA MessageIsKnown ==
  ASSUME QueueInv, NEW c \in NotifConsumers, NotifHas(c)
  PROVE  /\ NotifMessage(c) \in NotifMessages
         /\ NotifMessage(c).key \in NotifKeys /\ NotifMessage(c).user \in NotifUsers
<1>1. NotifMessage(c) \in {notifQueue[c][k] : k \in DOMAIN notifQueue[c]}
  BY DEF NotifHas, NotifMessage
<1>2. NotifMessage(c) \in
        UNION {{notifQueue[d][k] : k \in DOMAIN notifQueue[d]} : d \in NotifConsumers}
  BY <1>1
<1>3. NotifMessage(c) \in NotifMessages
  BY <1>2 DEF QueueInv, NotifMessages
<1> QED BY <1>3 DEF NotifKeys, NotifUsers

LEMMA NotifStart == NotifInit => NotifInv
BY DEF NotifInit, NotifInv, QueueInv, EarnedInv, CountedInv, MarkMeansProcessed,
       ImmortalNeedsRace, NotifRunning

-----------------------------------------------------------------------------

\* Steps of consumer c that write neither marks nor counters, and after which
\* it is not about to count, nor about to mark what it did not deal with.
LEMMA MovingKeeps ==
  ASSUME NotifInv, NEW c \in NotifConsumers,
         UNCHANGED <<notifQueue, notifMarked, notifCounter, notifLasting, notifCounted,
                     notifRaced>>,
         \A d \in NotifConsumers \ {c} : notifPc'[d] = notifPc[d] /\ notifNext'[d] = notifNext[d],
         notifPc'[c] # "count",
         notifPc'[c] = "mark" => Processed(NotifMessage(c).key)',
         \A k \in NotifKeys : notifRows[k] <= notifRows'[k],
         notifSuppressed \subseteq notifSuppressed', QueueInv'
  PROVE  EarnedInv' /\ CountedInv'
<1> USE DEF NotifInv
<1>1. ASSUME NEW d \in NotifConsumers \ {c}, notifPc'[d] # "idle"
      PROVE  /\ notifPc[d] = notifPc'[d] /\ NotifMessage(d)' = NotifMessage(d)
             /\ NotifMessage(d).key \in NotifKeys /\ NotifMessage(d).user \in NotifUsers
  <2>1. NotifHas(d)
    BY <1>1 DEF QueueInv
  <2>2. NotifMessage(d)' = NotifMessage(d)
    BY DEF NotifMessage
  <2> QED BY <2>1, <2>2, MessageIsKnown
<1>2. \A k \in NotifKeys : Processed(k) => Processed(k)'
  <2> SUFFICES ASSUME NEW k \in NotifKeys, Processed(k) PROVE Processed(k)'
    OBVIOUS
  <2>1. notifRows[k] \in Nat /\ notifRows'[k] \in Nat /\ notifRows[k] <= notifRows'[k]
    BY DEF QueueInv
  <2> QED BY <2>1 DEF Processed
<1>3. MarkMeansProcessed'
  BY <1>2 DEF EarnedInv, MarkMeansProcessed, Processed, QueueInv
<1>4. EarnedInv'
  <2> SUFFICES ASSUME NEW d \in NotifConsumers, notifPc'[d] = "mark"
               PROVE  Processed(NotifMessage(d).key)'
    BY <1>3 DEF EarnedInv
  <2>1. CASE d = c
    BY <2>1
  <2>2. CASE d # c
    <3>1. Processed(NotifMessage(d).key)
      BY <1>1, <2>2 DEF EarnedInv
    <3> QED BY <3>1, <1>1, <1>2, <2>2
  <2> QED BY <2>1, <2>2
<1>5. CountedInv'
  BY <1>1 DEF CountedInv, ImmortalNeedsRace
<1> QED BY <1>4, <1>5

\* What the steps before the mark do: they store, suppress or drop a message.
Moves(c) ==
  /\ \A d \in NotifConsumers \ {c} : notifPc'[d] = notifPc[d] /\ notifNext'[d] = notifNext[d]
  /\ notifPc' \in [NotifConsumers -> NotifRunning \cup {"idle"}]
  /\ notifNext' \in [NotifConsumers -> Nat]
  /\ notifPc'[c] # "idle" => NotifHas(c) /\ notifNext'[c] = notifNext[c]
  /\ notifPc'[c] # "count"
  /\ UNCHANGED <<notifQueue, notifMarked, notifCounter, notifLasting, notifCounted, notifRaced,
                 notifCommitted>>

LEMMA SkipMoves == ASSUME QueueInv, NEW c \in NotifConsumers, NotifSkip(c) PROVE Moves(c)
BY DEF NotifSkip, NotifReturn, NotifGoto, QueueInv, NotifRunning, Moves, notifMongo, notifRedis,
       notifHistory

LEMMA CheckDuplicateMoves ==
  ASSUME QueueInv, NEW c \in NotifConsumers, NotifCheckDuplicate(c) PROVE Moves(c)
<1>1. \/ notifPc' = [notifPc EXCEPT ![c] = "idle"] /\ notifNext' = [notifNext EXCEPT ![c] = @ + 1]
      \/ notifPc' = [notifPc EXCEPT ![c] = "rate"] /\ notifNext' = notifNext
  BY DEF NotifCheckDuplicate, NotifReturn, NotifGoto
<1>2. NotifHas(c)
  BY DEF NotifCheckDuplicate
<1> QED BY <1>1, <1>2 DEF NotifCheckDuplicate, QueueInv, NotifRunning, Moves, notifMongo, notifRedis

LEMMA CheckRateMoves ==
  ASSUME QueueInv, NEW c \in NotifConsumers, NotifCheckRate(c) PROVE Moves(c)
BY DEF NotifCheckRate, NotifReturn, NotifGoto, QueueInv, NotifRunning, Moves, notifMongo,
       notifRedis,
       notifHistory

LEMMA ReadPreferencesMoves ==
  ASSUME QueueInv, NEW c \in NotifConsumers, NotifReadPreferences(c) PROVE Moves(c)
<1>1. \/ notifPc' = [notifPc EXCEPT ![c] = "idle"] /\ notifNext' = [notifNext EXCEPT ![c] = @ + 1]
      \/ notifPc' = [notifPc EXCEPT ![c] = "mark"] /\ notifNext' = notifNext
      \/ notifPc' = [notifPc EXCEPT ![c] = "create"] /\ notifNext' = notifNext
  BY DEF NotifReadPreferences, NotifReturn, NotifGoto
<1>2. NotifHas(c)
  BY DEF NotifReadPreferences, QueueInv
<1> QED BY <1>1, <1>2 DEF NotifReadPreferences, QueueInv, NotifRunning, Moves, notifMongo,
       notifRedis

-----------------------------------------------------------------------------

LEMMA MovesKeep ==
  ASSUME NotifInv, NEW c \in NotifConsumers, Moves(c), UNCHANGED notifRows,
         notifSuppressed \subseteq notifSuppressed',
         notifPc'[c] = "mark" => Processed(NotifMessage(c).key)'
  PROVE  NotifInv'
<1> USE DEF NotifInv
<1>1. QueueInv'
  BY DEF QueueInv, Moves, NotifHas
<1>2. \A k \in NotifKeys : notifRows[k] <= notifRows'[k]
  BY DEF QueueInv
<1> QED BY <1>1, <1>2, MovingKeeps DEF Moves

LEMMA LookKeeps ==
  ASSUME NotifInv, NEW c \in NotifConsumers,
         NotifSkip(c) \/ NotifCheckDuplicate(c) \/ NotifCheckRate(c) \/ NotifReadPreferences(c)
  PROVE  NotifInv'
<1> USE DEF NotifInv
<1>1. CASE NotifSkip(c)
  BY <1>1, SkipMoves, MovesKeep
     DEF NotifSkip, NotifReturn, NotifGoto, notifMongo, notifHistory, QueueInv
<1>2. CASE NotifCheckDuplicate(c)
  <2>1. notifPc'[c] # "mark" /\ UNCHANGED <<notifRows, notifSuppressed>>
    BY <1>2 DEF NotifCheckDuplicate, NotifReturn, NotifGoto, notifMongo, QueueInv
  <2> QED BY <1>2, <2>1, CheckDuplicateMoves, MovesKeep
<1>3. CASE NotifCheckRate(c)
  <2>1. notifPc'[c] # "mark" /\ UNCHANGED <<notifRows, notifSuppressed>>
    BY <1>3 DEF NotifCheckRate, NotifReturn, NotifGoto, notifMongo, notifHistory, QueueInv
  <2> QED BY <1>3, <2>1, CheckRateMoves, MovesKeep
<1>4. CASE NotifReadPreferences(c)
  <2>1. UNCHANGED <<notifRows, notifQueue>> /\ notifSuppressed \subseteq notifSuppressed'
    BY <1>4 DEF NotifReadPreferences, notifMongo
  <2>2. ASSUME notifPc'[c] = "mark" PROVE Processed(NotifMessage(c).key)'
    <3>1. NotifMessage(c)' = NotifMessage(c) /\ NotifMessage(c).key \in notifSuppressed'
      BY <1>4, <2>2 DEF NotifReadPreferences, NotifReturn, NotifGoto, NotifMessage, QueueInv
    <3> QED BY <3>1 DEF Processed
  <2> QED BY <1>4, <2>1, <2>2, ReadPreferencesMoves, MovesKeep
<1> QED BY <1>1, <1>2, <1>3, <1>4

\* The row is stored before the mark is set.
LEMMA CreateKeeps == ASSUME NotifInv, NEW c \in NotifConsumers, NotifCreate(c) PROVE NotifInv'
<1> USE DEF NotifInv, NotifCreate, NotifGoto, notifKafka, notifRedis, notifHistory
<1> DEFINE k == NotifMessage(c).key
<1>1. k \in NotifKeys /\ NotifHas(c) /\ NotifMessage(c)' = NotifMessage(c)
  BY MessageIsKnown DEF QueueInv, NotifMessage
<1>2. /\ notifPc' = [notifPc EXCEPT ![c] = "mark"]
      /\ notifRows'[k] = notifRows[k] + 1
      /\ \A q \in NotifKeys \ {k} : notifRows'[q] = notifRows[q]
      /\ notifRows' \in [NotifKeys -> Nat]
  BY <1>1 DEF QueueInv
<1>3. QueueInv'
  BY <1>1, <1>2 DEF QueueInv, NotifRunning, NotifHas
<1>4. \A q \in NotifKeys : notifRows[q] <= notifRows'[q]
  BY <1>2 DEF QueueInv
<1>5. Processed(NotifMessage(c).key)'
  <2>1. notifRows'[k] > 0
    BY <1>1, <1>2 DEF QueueInv
  <2> QED BY <2>1, <1>1 DEF Processed
<1> QED BY <1>2, <1>3, <1>4, <1>5, MovingKeeps DEF QueueInv

\* What is marked was stored or suppressed before.
LEMMA MarkKeeps == ASSUME NotifInv, NEW c \in NotifConsumers, NotifMark(c) PROVE NotifInv'
<1> USE DEF NotifInv, NotifMark, NotifGoto, notifKafka, notifMongo, notifHistory
<1> DEFINE k == NotifMessage(c).key
<1>1. k \in NotifKeys /\ NotifHas(c) /\ Processed(k)
  BY MessageIsKnown DEF QueueInv, EarnedInv
<1>2. /\ notifPc' = [notifPc EXCEPT ![c] = "ttl"] /\ notifMarked' = notifMarked \cup {k}
      /\ UNCHANGED <<notifQueue, notifNext, notifRows, notifSuppressed, notifCounter, notifCounted,
                     notifRaced, notifLasting>>
  OBVIOUS
<1>3. QueueInv'
  BY <1>1, <1>2 DEF QueueInv, NotifRunning, NotifHas
<1>4. EarnedInv'
  BY <1>1, <1>2 DEF EarnedInv, MarkMeansProcessed, Processed, NotifMessage, QueueInv
<1>5. CountedInv'
  BY <1>2 DEF CountedInv, ImmortalNeedsRace, NotifMessage, QueueInv
<1> QED BY <1>3, <1>4, <1>5

LEMMA ReadTtlKeeps == ASSUME NotifInv, NEW c \in NotifConsumers, NotifReadTtl(c) PROVE NotifInv'
<1> USE DEF NotifInv, NotifReadTtl, NotifGoto, notifKafka, notifMongo, notifRedis, notifHistory
<1> DEFINE u == NotifMessage(c).user
<1>1. u \in NotifUsers /\ NotifHas(c)
  BY MessageIsKnown DEF QueueInv
<1>2. /\ notifPc' = [notifPc EXCEPT ![c] = "count"]
      /\ notifCounted' = [notifCounted EXCEPT ![c] = notifCounter[u] > 0]
      /\ UNCHANGED <<notifQueue, notifNext, notifRows, notifSuppressed, notifCounter, notifMarked,
                     notifRaced, notifLasting>>
  OBVIOUS
<1>3. QueueInv'
  BY <1>1, <1>2 DEF QueueInv, NotifRunning, NotifHas
<1>4. EarnedInv'
  BY <1>2 DEF EarnedInv, MarkMeansProcessed, Processed, NotifMessage, QueueInv
<1>5. CountedInv'
  <2> SUFFICES ASSUME NEW d \in NotifConsumers, notifPc'[d] = "count", notifCounted'[d]
               PROVE  notifCounter[NotifMessage(d).user] > 0 \/ NotifMessage(d).user \in notifRaced
    BY <1>2 DEF CountedInv, ImmortalNeedsRace, NotifMessage
  <2>1. CASE d = c
    <3>1. notifCounted'[c] = (notifCounter[u] > 0)
      BY <1>2 DEF QueueInv
    <3> QED BY <2>1, <3>1
  <2>2. CASE d # c
    BY <1>2, <2>2 DEF CountedInv, QueueInv
  <2> QED BY <2>1, <2>2
<1> QED BY <1>3, <1>4, <1>5

\* INCR of a counter that is gone makes one without a lifetime, and it is
\* gone only if it ran out since TTL.
LEMMA CountKeeps == ASSUME NotifInv, NEW c \in NotifConsumers, NotifCount(c) PROVE NotifInv'
<1> USE DEF NotifInv
<1> DEFINE u == NotifMessage(c).user
<1>1. u \in NotifUsers /\ notifPc[c] = "count"
  BY MessageIsKnown DEF QueueInv, NotifCount
<1>2. /\ notifPc' = [notifPc EXCEPT ![c] = "idle"]
      /\ notifNext' = [notifNext EXCEPT ![c] = @ + 1]
      /\ UNCHANGED <<notifQueue, notifRows, notifSuppressed, notifMarked, notifCounted, notifRaced,
                     notifCommitted>>
  BY DEF NotifCount, NotifReturn, NotifGoto, notifMongo, notifHistory
<1>3. /\ notifCounter' \in [NotifUsers -> Nat]
      /\ \A v \in NotifUsers : notifCounter[v] > 0 => notifCounter'[v] > 0
  BY <1>1 DEF NotifCount, QueueInv
<1>4. notifLasting' \subseteq
        notifLasting \cup (IF notifCounted[c] /\ notifCounter[u] = 0 THEN {u} ELSE {})
  BY DEF NotifCount, NotifSetEx
<1>5. \A d \in NotifConsumers \ {c} : notifPc'[d] = notifPc[d] /\ NotifMessage(d)' = NotifMessage(d)
  BY <1>2 DEF QueueInv, NotifMessage
<1>6. QueueInv'
  BY <1>2, <1>3 DEF QueueInv, NotifHas
<1>7. EarnedInv'
  BY <1>2, <1>5 DEF EarnedInv, MarkMeansProcessed, Processed, QueueInv
<1>8. CountedInv'
  <2>1. ImmortalNeedsRace'
    BY <1>1, <1>2, <1>4 DEF CountedInv, ImmortalNeedsRace
  <2>2. ASSUME NEW d \in NotifConsumers, notifPc'[d] = "count", notifCounted'[d]
        PROVE  (notifCounter[NotifMessage(d).user] > 0 \/ NotifMessage(d).user \in notifRaced)'
    <3>1. d # c
      BY <1>2, <2>2 DEF QueueInv
    <3>2. NotifMessage(d).user \in NotifUsers
      BY <3>1, <2>2, <1>5, MessageIsKnown DEF QueueInv
    <3> QED BY <3>1, <3>2, <2>2, <1>2, <1>3, <1>5 DEF CountedInv
  <2> QED BY <2>1, <2>2 DEF CountedInv
<1> QED BY <1>6, <1>7, <1>8

-----------------------------------------------------------------------------

LEMMA FaultKeeps ==
  ASSUME NotifInv, NEW c \in NotifConsumers, NotifFail(c) \/ NotifCommit(c) \/ NotifCrash(c)
  PROVE  NotifInv'
<1> USE DEF NotifInv
<1>1. CASE NotifFail(c)
  <2>1. Moves(c) /\ notifPc'[c] # "mark" /\ UNCHANGED <<notifRows, notifSuppressed>>
    BY <1>1 DEF NotifFail, NotifReturn, NotifGoto, QueueInv, Moves, notifMongo, notifRedis
  <2> QED BY <2>1, MovesKeep
<1>2. CASE NotifCommit(c)
  <2>1. /\ notifCommitted' \in [NotifConsumers -> Nat]
        /\ UNCHANGED <<notifQueue, notifNext, notifRows, notifMarked, notifCounter, notifLasting,
                       notifPc, notifCounted, notifSuppressed, notifRaced>>
    BY <1>2 DEF NotifCommit, QueueInv, notifMongo, notifRedis, notifHistory
  <2> QED BY <2>1 DEF QueueInv, NotifHas, EarnedInv, Processed, NotifMessage, MarkMeansProcessed,
                      CountedInv, ImmortalNeedsRace
<1>3. CASE NotifCrash(c)
  <2>1. Moves(c) /\ notifPc'[c] # "mark" /\ UNCHANGED <<notifRows, notifSuppressed>>
    BY <1>3 DEF NotifCrash, NotifGoto, QueueInv, Moves, NotifRunning, notifMongo, notifRedis
  <2> QED BY <2>1, MovesKeep
<1> QED BY <1>1, <1>2, <1>3

LEMMA MarkExpiresKeeps == ASSUME NotifInv, NEW k \in NotifKeys, NotifMarkExpires(k) PROVE NotifInv'
BY DEF NotifInv, NotifMarkExpires, QueueInv, NotifHas, EarnedInv, Processed, NotifMessage,
       MarkMeansProcessed, CountedInv, ImmortalNeedsRace, notifKafka, notifMongo

\* A counter that runs out under a consumer that has seen it is remembered.
LEMMA CounterExpiresKeeps ==
  ASSUME NotifInv, NEW u \in NotifUsers, NotifCounterExpires(u)
  PROVE  NotifInv'
<1> USE DEF NotifInv
<1>1. /\ notifCounter' = [notifCounter EXCEPT ![u] = 0]
      /\ UNCHANGED <<notifQueue, notifNext, notifCommitted, notifRows, notifMarked, notifLasting,
                     notifPc, notifCounted, notifSuppressed>>
      /\ notifRaced \subseteq notifRaced'
  BY DEF NotifCounterExpires, notifKafka, notifMongo
<1>2. QueueInv' /\ EarnedInv'
  BY <1>1 DEF QueueInv, NotifHas, EarnedInv, Processed, NotifMessage, MarkMeansProcessed
<1>3. ImmortalNeedsRace'
  BY <1>1 DEF CountedInv, ImmortalNeedsRace
<1>4. ASSUME NEW c \in NotifConsumers, notifPc[c] = "count", notifCounted[c]
      PROVE  notifCounter'[NotifMessage(c).user] > 0 \/ NotifMessage(c).user \in notifRaced'
  <2>1. CASE NotifMessage(c).user = u
    BY <1>4, <2>1 DEF NotifCounterExpires
  <2>2. CASE NotifMessage(c).user # u
    BY <1>1, <1>4, <2>2, MessageIsKnown DEF CountedInv, QueueInv
  <2> QED BY <2>1, <2>2
<1> QED BY <1>1, <1>2, <1>3, <1>4 DEF CountedInv, NotifMessage

LEMMA UsersKeep ==
  ASSUME NotifInv, \/ \E u \in NotifUsers : NotifUpsertPreferences(u)
                   \/ \E k \in NotifKeys : NotifMarkAsRead(k)
  PROVE  NotifInv'
<1>1. UNCHANGED <<notifKafka, notifRows, notifRedis, notifPc, notifCounted, notifHistory>>
  BY DEF NotifUpsertPreferences, NotifMarkAsRead
<1> QED BY <1>1 DEF NotifInv, QueueInv, NotifHas, EarnedInv, Processed, NotifMessage,
       MarkMeansProcessed,
        CountedInv, ImmortalNeedsRace, notifKafka, notifRedis, notifHistory

LEMMA NotificationStepKeeps == NotifInv /\ [NotifNext]_notifVars => NotifInv'
<1> SUFFICES ASSUME NotifInv, [NotifNext]_notifVars PROVE NotifInv'
  OBVIOUS
<1>1. ASSUME NEW c \in NotifConsumers, NotifStep(c) PROVE NotifInv'
  BY <1>1, LookKeeps, CreateKeeps, MarkKeeps, ReadTtlKeeps, CountKeeps DEF NotifStep
<1>2. ASSUME NEW c \in NotifConsumers, NotifFail(c) \/ NotifCommit(c) \/ NotifCrash(c)
     PROVE  NotifInv'
  BY <1>2, FaultKeeps
<1>3. CASE UNCHANGED notifVars
  BY <1>3 DEF NotifInv, QueueInv, NotifHas, EarnedInv, Processed, NotifMessage, MarkMeansProcessed,
        CountedInv, ImmortalNeedsRace, notifVars, notifKafka, notifMongo, notifRedis, notifHistory
<1> QED BY <1>1, <1>2, <1>3, MarkExpiresKeeps, CounterExpiresKeeps, UsersKeep DEF NotifNext

\* The consumers keep the invariant: marks are earned, and counters seen are
\* still there or remembered.
THEOREM NotificationConsistent == NotifSpec => []NotifInv
BY NotifStart, NotificationStepKeeps, PTL DEF NotifSpec

\* No failure, crash or redelivery loses an event to its own mark
\* (handleMessage sets the mark after processIncoming has returned).
THEOREM MarksAreEarned == NotifSpec => []MarkMeansProcessed
<1>1. NotifInv => MarkMeansProcessed
  BY DEF NotifInv, EarnedInv
<1> QED BY <1>1, NotificationConsistent, PTL

\* Only a counter that ran out between a consumer's TTL and its INCR comes
\* back without a lifetime (incrementRateCounter).
THEOREM LastingCountersNeedRace == NotifSpec => []ImmortalNeedsRace
<1>1. NotifInv => ImmortalNeedsRace
  BY DEF NotifInv, CountedInv
<1> QED BY <1>1, NotificationConsistent, PTL

-----------------------------------------------------------------------------
(* Copies of an event *)

BeforeRow == {"rate", "prefs", "create"}

\* Who may still store a row for k, and who has not yet set its mark.
Storing(k) == {c \in NotifConsumers : notifPc[c] \in BeforeRow /\ NotifMessage(c).key = k}

Handling(k) == \E c \in NotifConsumers :
  notifPc[c] \in BeforeRow \cup {"mark"} /\ NotifMessage(c).key = k

\* The rows stored and those under way are excused but for one, and that one
\* is marked or has a handler at it, which the next handler of k will see.
CopiesOf(k) ==
  notifRows[k] + Cardinality(Storing(k))
    <= notifExcuses[k] + (IF k \in notifMarked \/ Handling(k) THEN 1 ELSE 0)

CopyInv ==
  /\ notifExcuses \in [NotifKeys -> Nat]
  /\ \A k \in NotifKeys : CopiesOf(k)

LEMMA StoringIsFinite ==
  ASSUME NEW k PROVE IsFiniteSet(Storing(k)) /\ Cardinality(Storing(k)) \in Nat
<1>1. Storing(k) \subseteq NotifConsumers
  BY DEF Storing
<1> QED BY <1>1, NotifAssumption, FS_Subset, FS_CardinalityType

\* The ways in which a step of c may treat an event.
KeyUntouched(k) ==
  /\ Storing(k)' = Storing(k) /\ notifRows'[k] = notifRows[k]
  /\ notifExcuses'[k] >= notifExcuses[k]
  /\ k \in notifMarked \/ Handling(k) => k \in notifMarked' \/ Handling(k)'

GivenUp(c, k) ==
  /\ c \in Storing(k) /\ Storing(k)' = Storing(k) \ {c}
  /\ notifRows'[k] = notifRows[k] /\ notifExcuses'[k] >= notifExcuses[k]

StoredOnce(c, k) ==
  /\ c \in Storing(k) /\ Storing(k)' = Storing(k) \ {c} /\ Handling(k)'
  /\ notifRows'[k] = notifRows[k] + 1 /\ notifExcuses'[k] >= notifExcuses[k]

Entered(c, k) ==
  /\ c \notin Storing(k) /\ Storing(k)' = Storing(k) \cup {c} /\ Handling(k)'
  /\ notifRows'[k] = notifRows[k] /\ k \notin notifMarked
  /\ Handling(k) => NotifHandling(c, k) # {}
  /\ notifExcuses'[k] = notifExcuses[k] + Cardinality(NotifHandling(c, k))

Excused(k) ==
  /\ Storing(k)' = Storing(k) /\ notifRows'[k] = notifRows[k]
  /\ notifExcuses'[k] >= notifExcuses[k] + 1

LEMMA CopiesKept ==
  ASSUME CopyInv, notifRows \in [NotifKeys -> Nat], notifExcuses' \in [NotifKeys -> Nat],
         NEW k \in NotifKeys,
         \/ KeyUntouched(k) \/ Excused(k)
         \/ \E c \in NotifConsumers : GivenUp(c, k) \/ StoredOnce(c, k) \/ Entered(c, k)
  PROVE  CopiesOf(k)'
<1>1. /\ notifRows[k] \in Nat /\ notifExcuses[k] \in Nat /\ notifExcuses'[k] \in Nat
      /\ IsFiniteSet(Storing(k)) /\ Cardinality(Storing(k)) \in Nat /\ CopiesOf(k)
  BY StoringIsFinite DEF CopyInv
<1>2. CASE KeyUntouched(k)
  BY <1>1, <1>2 DEF KeyUntouched, CopiesOf
<1>3. CASE Excused(k)
  BY <1>1, <1>3 DEF Excused, CopiesOf
<1>4. ASSUME NEW c \in NotifConsumers, c \in Storing(k), Storing(k)' = Storing(k) \ {c}
      PROVE  Cardinality(Storing(k)') = Cardinality(Storing(k)) - 1
  BY <1>1, <1>4, FS_RemoveElement
<1>5. ASSUME NEW c \in NotifConsumers, GivenUp(c, k) PROVE CopiesOf(k)'
  <2>1. Cardinality(Storing(k)') = Cardinality(Storing(k)) - 1
    BY <1>4, <1>5 DEF GivenUp
  <2> QED BY <1>1, <1>5, <2>1 DEF GivenUp, CopiesOf
<1>6. ASSUME NEW c \in NotifConsumers, StoredOnce(c, k) PROVE CopiesOf(k)'
  <2>1. Cardinality(Storing(k)') = Cardinality(Storing(k)) - 1
    BY <1>4, <1>6 DEF StoredOnce
  <2> QED BY <1>1, <1>6, <2>1 DEF StoredOnce, CopiesOf
<1>7. ASSUME NEW c \in NotifConsumers, Entered(c, k) PROVE CopiesOf(k)'
  <2>1. Cardinality(Storing(k)') = Cardinality(Storing(k)) + 1
    BY <1>1, <1>7, FS_AddElement DEF Entered
  <2>2. IsFiniteSet(NotifHandling(c, k)) /\ Cardinality(NotifHandling(c, k)) \in Nat
    <3>1. NotifHandling(c, k) \subseteq NotifConsumers
      BY DEF NotifHandling
    <3> QED BY <3>1, NotifAssumption, FS_Subset, FS_CardinalityType
  <2>3. Handling(k) => Cardinality(NotifHandling(c, k)) >= 1
    <3>1. Cardinality(NotifHandling(c, k)) = 0 => NotifHandling(c, k) = {}
      BY <2>2, FS_EmptySet
    <3> QED BY <1>7, <2>2, <3>1 DEF Entered
  <2> QED BY <1>1, <1>7, <2>1, <2>2, <2>3 DEF Entered, CopiesOf
<1> QED BY <1>2, <1>3, <1>5, <1>6, <1>7

\* A step of c changes only its own part.
Alone(c) ==
  /\ \A d \in NotifConsumers \ {c} : notifPc'[d] = notifPc[d] /\ notifNext'[d] = notifNext[d]
  /\ notifPc'[c] # "idle" => notifNext'[c] = notifNext[c]
  /\ UNCHANGED notifQueue

LEMMA Parts ==
  ASSUME NEW c \in NotifConsumers, Alone(c), NEW k
  PROVE  /\ \A d \in NotifConsumers \ {c} : d \in Storing(k)' <=> d \in Storing(k)
         /\ c \in Storing(k)' <=> notifPc'[c] \in BeforeRow /\ NotifMessage(c).key = k
         /\ notifPc'[c] \in BeforeRow \cup {"mark"} /\ NotifMessage(c).key = k => Handling(k)'
         /\ Handling(k) => \/ Handling(k)'
                           \/ notifPc[c] \in BeforeRow \cup {"mark"} /\ NotifMessage(c).key = k
<1>1. \A d \in NotifConsumers : notifPc'[d] # "idle" \/ d # c => NotifMessage(d)' = NotifMessage(d)
  BY DEF Alone, NotifMessage
<1>2. \A d \in NotifConsumers \ {c} : d \in Storing(k)' <=> d \in Storing(k)
  BY <1>1 DEF Alone, Storing
<1>3. c \in Storing(k)' <=> notifPc'[c] \in BeforeRow /\ NotifMessage(c).key = k
  BY <1>1 DEF Storing, BeforeRow
<1>4. notifPc'[c] \in BeforeRow \cup {"mark"} /\ NotifMessage(c).key = k => Handling(k)'
  BY <1>1 DEF Handling, BeforeRow
<1>5. Handling(k) => \/ Handling(k)'
                     \/ notifPc[c] \in BeforeRow \cup {"mark"} /\ NotifMessage(c).key = k
  BY <1>1 DEF Handling, Alone
<1> QED BY <1>2, <1>3, <1>4, <1>5

\* A step between two places that count alike for its event.
LEMMA SidewaysKeeps ==
  ASSUME NEW c \in NotifConsumers, Alone(c), NEW k,
         UNCHANGED notifRows, notifExcuses'[k] >= notifExcuses[k],
         notifMarked \subseteq notifMarked',
         \/ NotifMessage(c).key # k
         \/ notifPc[c] \in BeforeRow /\ notifPc'[c] \in BeforeRow
         \/ notifPc[c] \notin BeforeRow /\ notifPc'[c] \notin BeforeRow
            /\ (notifPc[c] = "mark" => k \in notifMarked')
  PROVE  KeyUntouched(k)
<1>1. Storing(k)' = Storing(k)
  <2>1. c \in Storing(k)' <=> c \in Storing(k)
    BY Parts DEF Storing
  <2>2. Storing(k) \subseteq NotifConsumers /\ Storing(k)' \subseteq NotifConsumers
    BY DEF Storing
  <2> QED BY <2>1, <2>2, Parts
<1>2. k \in notifMarked \/ Handling(k) => k \in notifMarked' \/ Handling(k)'
  BY Parts
<1> QED BY <1>1, <1>2 DEF KeyUntouched

LEMMA LeavingGivesUp ==
  ASSUME NEW c \in NotifConsumers, Alone(c), NEW k,
         NotifMessage(c).key = k, notifPc[c] \in BeforeRow, notifPc'[c] \notin BeforeRow
  PROVE  c \in Storing(k) /\ Storing(k)' = Storing(k) \ {c}
<1>1. c \in Storing(k) /\ c \notin Storing(k)'
  BY Parts DEF Storing
<1>2. Storing(k) \subseteq NotifConsumers /\ Storing(k)' \subseteq NotifConsumers
  BY DEF Storing
<1> QED BY <1>1, <1>2, Parts

LEMMA MovesAreAlone == ASSUME NEW c \in NotifConsumers, Moves(c) PROVE Alone(c)
BY DEF Moves, Alone

LEMMA SkipKeepsCopies ==
  ASSUME NotifInv, CopyInv, NEW c \in NotifConsumers, NotifSkip(c) \/ NotifCheckRate(c)
  PROVE  CopyInv'
<1>1. /\ Alone(c) /\ UNCHANGED <<notifRows, notifExcuses, notifMarked>>
      /\ notifPc'[c] # "idle" => notifPc[c] \in BeforeRow /\ notifPc'[c] \in BeforeRow
      /\ notifPc'[c] = "idle" => notifPc[c] \in BeforeRow \cup {"idle"}
  BY SkipMoves, CheckRateMoves, MovesAreAlone
     DEF NotifSkip, NotifCheckRate, NotifReturn, NotifGoto, notifMongo, notifRedis, notifHistory,
         NotifInv, QueueInv, BeforeRow
<1>2. ASSUME NEW k \in NotifKeys PROVE CopiesOf(k)'
  <2>0. notifExcuses'[k] >= notifExcuses[k]
    BY <1>1 DEF CopyInv
  <2>1. CASE NotifMessage(c).key # k \/ notifPc'[c] # "idle" \/ notifPc[c] = "idle"
    <3>1. KeyUntouched(k)
      BY <1>1, <2>0, <2>1, SidewaysKeeps DEF BeforeRow
    <3> QED BY <1>1, <3>1, CopiesKept DEF NotifInv, QueueInv, CopyInv
  <2>2. CASE NotifMessage(c).key = k /\ notifPc'[c] = "idle" /\ notifPc[c] # "idle"
    <3>1. GivenUp(c, k)
      BY <1>1, <2>0, <2>2, LeavingGivesUp DEF BeforeRow, GivenUp
    <3> QED BY <1>1, <3>1, CopiesKept DEF NotifInv, QueueInv, CopyInv
  <2> QED BY <2>1, <2>2
<1> QED BY <1>1, <1>2 DEF CopyInv

\* The first handler of an event finds neither a mark nor another handler;
\* each later one that finds no mark is excused by those it finds.
LEMMA CheckDuplicateKeepsCopies ==
  ASSUME NotifInv, CopyInv, NEW c \in NotifConsumers, NotifCheckDuplicate(c) PROVE CopyInv'
<1> DEFINE q == NotifMessage(c).key
<1>1. q \in NotifKeys /\ notifPc[c] = "idle"
  BY MessageIsKnown DEF NotifInv, NotifCheckDuplicate
<1>2. Alone(c) /\ UNCHANGED <<notifRows, notifMarked>>
  BY CheckDuplicateMoves, MovesAreAlone
     DEF NotifCheckDuplicate, notifMongo, notifRedis, NotifInv
<1>3. CASE q \in notifMarked
  <2>1. notifPc'[c] = "idle" /\ UNCHANGED notifExcuses
    BY <1>3 DEF NotifCheckDuplicate, NotifDuplicate, NotifReturn, NotifGoto, NotifInv, QueueInv
  <2>2. ASSUME NEW k \in NotifKeys PROVE CopiesOf(k)'
    <3>1. KeyUntouched(k)
      BY <1>1, <1>2, <2>1, SidewaysKeeps DEF BeforeRow, CopyInv
    <3> QED BY <2>1, <3>1, CopiesKept DEF NotifInv, QueueInv, CopyInv
  <2> QED BY <2>1, <2>2 DEF CopyInv
<1>4. CASE q \notin notifMarked
  <2>1. /\ notifPc'[c] = "rate"
        /\ notifExcuses' = [notifExcuses EXCEPT ![q] = @ + Cardinality(NotifHandling(c, q))]
    BY <1>4 DEF NotifCheckDuplicate, NotifDuplicate, NotifGoto, NotifInv, QueueInv
  <2>2. Cardinality(NotifHandling(c, q)) \in Nat
    <3>1. NotifHandling(c, q) \subseteq NotifConsumers
      BY DEF NotifHandling
    <3> QED BY <3>1, NotifAssumption, FS_Subset, FS_CardinalityType
  <2>3. /\ notifExcuses' \in [NotifKeys -> Nat]
        /\ notifExcuses'[q] = notifExcuses[q] + Cardinality(NotifHandling(c, q))
        /\ \A k \in NotifKeys \ {q} : notifExcuses'[k] = notifExcuses[k]
    BY <1>1, <2>1, <2>2 DEF CopyInv
  <2>4. ASSUME NEW k \in NotifKeys PROVE CopiesOf(k)'
    <3>1. CASE k # q
      <4>1. KeyUntouched(k)
        BY <1>2, <2>3, <3>1, SidewaysKeeps DEF CopyInv
      <4> QED BY <2>3, <4>1, CopiesKept DEF NotifInv, QueueInv
    <3>2. CASE k = q
      <4>1. c \notin Storing(k) /\ c \in Storing(k)' /\ Handling(k)'
        BY <1>1, <1>2, <2>1, <3>2, Parts DEF BeforeRow, Storing
      <4>2. Storing(k)' = Storing(k) \cup {c}
        <5>1. Storing(k) \subseteq NotifConsumers /\ Storing(k)' \subseteq NotifConsumers
          BY DEF Storing
        <5> QED BY <1>2, <4>1, <5>1, Parts
      <4>3. Handling(k) => NotifHandling(c, k) # {}
        BY <1>1 DEF Handling, BeforeRow, NotifHandling
      <4>4. Entered(c, k)
        BY <1>1, <1>2, <1>4, <2>3, <3>2, <4>1, <4>2, <4>3 DEF Entered, NotifInv, QueueInv
      <4> QED BY <2>3, <4>4, CopiesKept DEF NotifInv, QueueInv
    <3> QED BY <3>1, <3>2
  <2> QED BY <2>3, <2>4 DEF CopyInv
<1> QED BY <1>3, <1>4

LEMMA ReadPreferencesKeepsCopies ==
  ASSUME NotifInv, CopyInv, NEW c \in NotifConsumers, NotifReadPreferences(c) PROVE CopyInv'
<1>1. /\ Alone(c) /\ UNCHANGED <<notifRows, notifExcuses, notifMarked>>
      /\ notifPc[c] \in BeforeRow
  BY ReadPreferencesMoves, MovesAreAlone
     DEF NotifReadPreferences, notifMongo, notifRedis, NotifInv, BeforeRow
<1>2. ASSUME NEW k \in NotifKeys PROVE CopiesOf(k)'
  <2>0. notifExcuses'[k] >= notifExcuses[k]
    BY <1>1 DEF CopyInv
  <2>1. CASE NotifMessage(c).key # k \/ notifPc'[c] \in BeforeRow
    <3>1. KeyUntouched(k)
      BY <1>1, <2>0, <2>1, SidewaysKeeps
    <3> QED BY <1>1, <3>1, CopiesKept DEF NotifInv, QueueInv, CopyInv
  <2>2. CASE NotifMessage(c).key = k /\ notifPc'[c] \notin BeforeRow
    <3>1. GivenUp(c, k)
      BY <1>1, <2>0, <2>2, LeavingGivesUp DEF GivenUp
    <3> QED BY <1>1, <3>1, CopiesKept DEF NotifInv, QueueInv, CopyInv
  <2> QED BY <2>1, <2>2
<1> QED BY <1>1, <1>2 DEF CopyInv

\* A row is stored by a handler that was counted already.
LEMMA CreateKeepsCopies ==
  ASSUME NotifInv, CopyInv, NEW c \in NotifConsumers, NotifCreate(c) PROVE CopyInv'
<1> DEFINE q == NotifMessage(c).key
<1>1. q \in NotifKeys /\ notifPc[c] = "create"
  BY MessageIsKnown DEF NotifInv, QueueInv, NotifCreate
<1>2. /\ Alone(c) /\ UNCHANGED <<notifExcuses, notifMarked>> /\ notifPc'[c] = "mark"
      /\ notifRows' = [notifRows EXCEPT ![q] = @ + 1]
  BY DEF NotifCreate, NotifGoto, notifKafka, notifRedis, notifHistory, Alone, NotifInv, QueueInv
<1>3. ASSUME NEW k \in NotifKeys PROVE CopiesOf(k)'
  <2>0. notifExcuses'[k] >= notifExcuses[k]
    BY <1>2 DEF CopyInv
  <2>1. CASE k # q
    <3>1. Storing(k)' = Storing(k) /\ (Handling(k) => Handling(k)')
      <4>1. Storing(k) \subseteq NotifConsumers /\ Storing(k)' \subseteq NotifConsumers
        BY DEF Storing
      <4>2. c \notin Storing(k) /\ c \notin Storing(k)'
        BY <1>2, <2>1, Parts DEF Storing
      <4> QED BY <1>2, <2>1, <4>1, <4>2, Parts
    <3>2. KeyUntouched(k)
      BY <1>1, <1>2, <2>0, <2>1, <3>1 DEF KeyUntouched, NotifInv, QueueInv
    <3> QED BY <1>2, <3>2, CopiesKept DEF NotifInv, QueueInv, CopyInv
  <2>2. CASE k = q
    <3>1. Handling(k)'
      BY <1>2, <2>2, Parts
    <3>2. c \in Storing(k) /\ Storing(k)' = Storing(k) \ {c}
      BY <1>1, <1>2, <2>2, LeavingGivesUp DEF BeforeRow
    <3>3. StoredOnce(c, k)
      BY <1>1, <1>2, <2>0, <2>2, <3>1, <3>2 DEF StoredOnce, NotifInv, QueueInv
    <3> QED BY <1>2, <3>3, CopiesKept DEF NotifInv, QueueInv, CopyInv
  <2> QED BY <2>1, <2>2
<1> QED BY <1>2, <1>3 DEF CopyInv

LEMMA MarkedKeepsCopies ==
  ASSUME NotifInv, CopyInv, NEW c \in NotifConsumers,
         NotifMark(c) \/ NotifReadTtl(c) \/ NotifCount(c)
  PROVE  CopyInv'
<1>1. /\ Alone(c) /\ UNCHANGED <<notifRows, notifExcuses>> /\ notifMarked \subseteq notifMarked'
      /\ notifPc[c] \notin BeforeRow /\ notifPc'[c] \notin BeforeRow
      /\ notifPc[c] = "mark" => NotifMessage(c).key \in notifMarked'
  <2>1. CASE NotifMark(c)
    BY <2>1 DEF NotifMark, NotifGoto, notifKafka, notifMongo, notifHistory, Alone, NotifInv,
           QueueInv,
                BeforeRow
  <2>2. CASE NotifReadTtl(c)
    BY <2>2 DEF NotifReadTtl, NotifGoto, notifKafka, notifMongo, notifRedis, notifHistory, Alone,
                NotifInv, QueueInv, BeforeRow
  <2>3. CASE NotifCount(c)
    <3>1. notifPc[c] = "count" /\ notifPc' = [notifPc EXCEPT ![c] = "idle"]
          /\ notifNext' = [notifNext EXCEPT ![c] = @ + 1]
          /\ UNCHANGED <<notifQueue, notifRows, notifExcuses, notifMarked>>
      BY <2>3 DEF NotifCount, NotifReturn, NotifGoto, notifMongo, notifHistory
    <3> QED BY <3>1 DEF Alone, NotifInv, QueueInv, BeforeRow
  <2> QED BY <2>1, <2>2, <2>3
<1>2. ASSUME NEW k \in NotifKeys PROVE CopiesOf(k)'
  <2>0. notifExcuses'[k] >= notifExcuses[k]
    BY <1>1 DEF CopyInv
  <2>1. KeyUntouched(k)
    BY <1>1, <2>0, SidewaysKeeps
  <2> QED BY <1>1, <2>1, CopiesKept DEF NotifInv, QueueInv, CopyInv
<1> QED BY <1>1, <1>2 DEF CopyInv

\* A handler that ends between its row and its mark leaves an excuse; one
\* that ends earlier takes its row with it.
LEMMA EndingKeepsCopies ==
  ASSUME NotifInv, CopyInv, NEW c \in NotifConsumers, Moves(c), UNCHANGED notifRows,
         notifPc'[c] = "idle",
         notifPc[c] # "idle" => NotifExcuse(c),
         notifPc[c] = "idle" => UNCHANGED notifExcuses
  PROVE  CopyInv'
<1> DEFINE q == NotifMessage(c).key
<1>1. /\ Alone(c) /\ UNCHANGED notifMarked
      /\ notifPc[c] # "idle" => q \in NotifKeys
  BY MovesAreAlone, MessageIsKnown DEF NotifInv, QueueInv, Moves
<1>2. /\ notifExcuses' \in [NotifKeys -> Nat]
      /\ \A k \in NotifKeys : notifExcuses'[k] >= notifExcuses[k]
      /\ notifPc[c] = "mark" => notifExcuses'[q] >= notifExcuses[q] + 1
  <2>1. CASE notifPc[c] = "mark"
    BY <1>1, <2>1 DEF NotifExcuse, CopyInv
  <2>2. CASE notifPc[c] # "mark"
    <3>1. UNCHANGED notifExcuses
      BY <2>2 DEF NotifExcuse
    <3> QED BY <2>2, <3>1 DEF CopyInv
  <2> QED BY <2>1, <2>2
<1>3. ASSUME NEW k \in NotifKeys PROVE CopiesOf(k)'
  <2>1. CASE q # k \/ notifPc[c] \notin BeforeRow \cup {"mark"}
    <3>1. KeyUntouched(k)
      BY <1>1, <1>2, <2>1, SidewaysKeeps DEF BeforeRow
    <3> QED BY <1>2, <3>1, CopiesKept DEF NotifInv, QueueInv
  <2>2. CASE q = k /\ notifPc[c] \in BeforeRow
    <3>1. GivenUp(c, k)
      BY <1>1, <1>2, <2>2, LeavingGivesUp DEF GivenUp, BeforeRow
    <3> QED BY <1>2, <3>1, CopiesKept DEF NotifInv, QueueInv
  <2>3. CASE q = k /\ notifPc[c] = "mark"
    <3>1. Storing(k)' = Storing(k)
      <4>1. Storing(k) \subseteq NotifConsumers /\ Storing(k)' \subseteq NotifConsumers
        BY DEF Storing
      <4>2. c \notin Storing(k) /\ c \notin Storing(k)'
        BY <1>1, <2>3, Parts DEF Storing, BeforeRow
      <4> QED BY <1>1, <4>1, <4>2, Parts
    <3>2. Excused(k)
      BY <1>2, <2>3, <3>1 DEF Excused
    <3> QED BY <1>2, <3>2, CopiesKept DEF NotifInv, QueueInv
  <2> QED BY <2>1, <2>2, <2>3
<1> QED BY <1>2, <1>3 DEF CopyInv

LEMMA FaultKeepsCopies ==
  ASSUME NotifInv, CopyInv, NEW c \in NotifConsumers, NotifFail(c) \/ NotifCrash(c) PROVE CopyInv'
<1>1. CASE NotifFail(c)
  <2>1. /\ Moves(c) /\ notifPc'[c] = "idle" /\ UNCHANGED notifRows
        /\ notifPc[c] # "idle" /\ NotifExcuse(c)
    BY <1>1 DEF NotifFail, NotifReturn, NotifGoto, NotifInv, QueueInv, Moves, NotifRunning,
           notifMongo,
                notifRedis
  <2> QED BY <2>1, EndingKeepsCopies
<1>2. CASE NotifCrash(c)
  <2>1. Moves(c) /\ notifPc'[c] = "idle" /\ UNCHANGED notifRows
    BY <1>2 DEF NotifCrash, NotifGoto, NotifInv, QueueInv, Moves, NotifRunning, notifMongo,
           notifRedis
  <2>2. notifPc[c] # "idle" => NotifExcuse(c)
    BY <1>2 DEF NotifCrash, NotifInv, QueueInv
  <2>3. notifPc[c] = "idle" => UNCHANGED notifExcuses
    BY <1>2 DEF NotifCrash, NotifExcuse
  <2> QED BY <2>1, <2>2, <2>3, EndingKeepsCopies
<1> QED BY <1>1, <1>2

LEMMA MarkExpiresKeepsCopies ==
  ASSUME NotifInv, CopyInv, NEW q \in NotifKeys, NotifMarkExpires(q) PROVE CopyInv'
<1>1. /\ UNCHANGED <<notifRows, notifPc, notifNext, notifQueue>> /\ notifMarked' = notifMarked \ {q}
      /\ notifExcuses' = [notifExcuses EXCEPT ![q] = @ + 1]
  BY DEF NotifMarkExpires, notifKafka, notifMongo
<1>2. /\ notifExcuses' \in [NotifKeys -> Nat] /\ notifExcuses'[q] = notifExcuses[q] + 1
      /\ \A k \in NotifKeys \ {q} : notifExcuses'[k] = notifExcuses[k]
  BY <1>1 DEF CopyInv
<1>3. ASSUME NEW k \in NotifKeys PROVE CopiesOf(k)'
  <2>1. Storing(k)' = Storing(k) /\ Handling(k)' = Handling(k)
    BY <1>1 DEF Storing, Handling, NotifMessage
  <2>2. CASE k = q
    <3>1. Excused(k)
      BY <1>1, <1>2, <2>1, <2>2 DEF Excused, CopyInv
    <3> QED BY <1>2, <3>1, CopiesKept DEF NotifInv, QueueInv
  <2>3. CASE k # q
    <3>1. KeyUntouched(k)
      BY <1>1, <1>2, <2>1, <2>3 DEF KeyUntouched, CopyInv
    <3> QED BY <1>2, <3>1, CopiesKept DEF NotifInv, QueueInv
  <2> QED BY <2>2, <2>3
<1> QED BY <1>2, <1>3 DEF CopyInv

LEMMA OthersKeepCopies ==
  ASSUME CopyInv,
         UNCHANGED <<notifQueue, notifNext, notifPc, notifRows, notifMarked, notifExcuses>>
  PROVE  CopyInv'
<1>1. ASSUME NEW k \in NotifKeys PROVE Storing(k)' = Storing(k) /\ Handling(k)' = Handling(k)
  BY DEF Storing, Handling, NotifMessage
<1> QED BY <1>1 DEF CopyInv, CopiesOf

LEMMA CopyStep == NotifInv /\ CopyInv /\ [NotifNext]_notifVars => CopyInv'
<1> SUFFICES ASSUME NotifInv, CopyInv, [NotifNext]_notifVars PROVE CopyInv'
  OBVIOUS
<1>1. ASSUME NEW c \in NotifConsumers, NotifStep(c) PROVE CopyInv'
  BY <1>1, SkipKeepsCopies, CheckDuplicateKeepsCopies, ReadPreferencesKeepsCopies,
     CreateKeepsCopies, MarkedKeepsCopies DEF NotifStep
<1>2. ASSUME NEW c \in NotifConsumers, NotifFail(c) \/ NotifCommit(c) \/ NotifCrash(c)
      PROVE  CopyInv'
  <2>1. NotifCommit(c) =>
          UNCHANGED <<notifQueue, notifNext, notifPc, notifRows, notifMarked, notifExcuses>>
    BY DEF NotifCommit, notifMongo, notifRedis, notifHistory
  <2> QED BY <1>2, <2>1, FaultKeepsCopies, OthersKeepCopies
<1>3. ASSUME NEW u \in NotifUsers, NotifCounterExpires(u) \/ NotifUpsertPreferences(u)
      PROVE  CopyInv'
  <2>1. UNCHANGED <<notifQueue, notifNext, notifPc, notifRows, notifMarked, notifExcuses>>
    BY <1>3 DEF NotifCounterExpires, NotifUpsertPreferences, notifKafka, notifMongo, notifRedis,
                notifHistory
  <2> QED BY <2>1, OthersKeepCopies
<1>4. ASSUME NEW k \in NotifKeys, NotifMarkAsRead(k) PROVE CopyInv'
  <2>1. UNCHANGED <<notifQueue, notifNext, notifPc, notifRows, notifMarked, notifExcuses>>
    BY <1>4 DEF NotifMarkAsRead, notifKafka, notifMongo, notifRedis, notifHistory
  <2> QED BY <2>1, OthersKeepCopies
<1>5. CASE UNCHANGED notifVars
  BY <1>5, OthersKeepCopies DEF notifVars, notifKafka, notifMongo, notifRedis, notifHistory
<1> QED BY <1>1, <1>2, <1>3, <1>4, <1>5, MarkExpiresKeepsCopies DEF NotifNext

LEMMA CopyStart == NotifInit => CopyInv
<1> SUFFICES ASSUME NotifInit, NEW k \in NotifKeys
             PROVE  notifExcuses \in [NotifKeys -> Nat] /\ CopiesOf(k)
  BY DEF CopyInv, NotifInit
<1>1. Storing(k) = {}
  BY DEF Storing, NotifInit, BeforeRow
<1>2. Cardinality(Storing(k)) = 0
  BY <1>1, FS_EmptySet
<1> QED BY <1>2 DEF NotifInit, CopiesOf

\* An event is stored once, and once more at most for every mark that ran
\* out, every handler that ended between row and mark, and every pair of
\* handlers that both looked for the mark before either set it
\* (handleMessage looks for the mark first and sets it last).
THEOREM CopiesExcused == NotifSpec => []CopiesAreExcused
<1>1. NotifInv /\ CopyInv => CopiesAreExcused
  <2> SUFFICES ASSUME NotifInv, CopyInv, NEW k \in NotifKeys
               PROVE  notifRows[k] <= 1 + notifExcuses[k]
    BY DEF CopiesAreExcused
  <2>1. notifRows[k] \in Nat /\ notifExcuses[k] \in Nat /\ Cardinality(Storing(k)) \in Nat
    BY StoringIsFinite DEF NotifInv, QueueInv, CopyInv
  <2> QED BY <2>1 DEF CopyInv, CopiesOf
<1> QED BY <1>1, CopyStart, CopyStep, NotificationConsistent, PTL DEF NotifSpec

-----------------------------------------------------------------------------
(* Types *)

\* Where the consumers are in their partitions.
PlaceInv == \A c \in NotifConsumers :
  notifNext[c] \in 1..Len(notifQueue[c]) + 1 /\ notifCommitted[c] \in 1..notifNext[c]

ReadsInv ==
  notifRead \subseteq UNION {{k} \X (1..notifRows[k]) : k \in NotifKeys}

OtherTypesInv ==
  /\ notifDnd \subseteq NotifUsers /\ notifLasting \subseteq NotifUsers
  /\ notifSuppressed \subseteq NotifKeys /\ notifRaced \subseteq NotifUsers
  /\ notifFaults \in 0..NotifMaxFaults /\ notifExpiries \in 0..NotifMaxExpiries

\* A handler that returns is at a message, so the next place is in the partition or
\* right behind it.
LEMMA ReturnKeepsPlace ==
  ASSUME NotifInv, PlaceInv, NEW c \in NotifConsumers, NotifHas(c), NotifReturn(c),
         UNCHANGED <<notifQueue, notifCommitted>>
  PROVE  PlaceInv'
<1>1. Len(notifQueue[c]) \in Nat /\ notifNext[c] \in 1..Len(notifQueue[c])
  BY NotifAssumption DEF NotifInv, QueueInv, NotifHas
<1>2. /\ notifNext' = [notifNext EXCEPT ![c] = notifNext[c] + 1]
      /\ notifNext \in [NotifConsumers -> Nat]
  BY DEF NotifReturn, NotifInv, QueueInv
<1>3. ASSUME NEW d \in NotifConsumers
      PROVE  notifNext'[d] \in 1..Len(notifQueue[d]) + 1 /\ notifCommitted[d] \in 1..notifNext'[d]
  <2>1. CASE d = c
    <3>1. notifNext'[d] = notifNext[c] + 1 /\ notifCommitted[c] \in 1..notifNext[c]
      BY <1>2, <2>1 DEF PlaceInv
    <3> QED BY <1>1, <2>1, <3>1
  <2>2. CASE d # c
    BY <1>2, <2>2 DEF PlaceInv
  <2> QED BY <2>1, <2>2
<1> QED BY <1>3 DEF PlaceInv

LEMMA NotifStepKeepsPlace ==
  ASSUME NotifInv, PlaceInv, NEW c \in NotifConsumers, NotifStep(c) \/ NotifFail(c)
  PROVE  PlaceInv'
<1>1. NotifHas(c)
  BY DEF NotifStep, NotifSkip, NotifCheckDuplicate, NotifCheckRate, NotifReadPreferences,
         NotifCreate, NotifMark, NotifReadTtl, NotifCount, NotifFail, NotifRunning,
         NotifInv, QueueInv
<1>2. UNCHANGED <<notifQueue, notifCommitted>> /\ (NotifReturn(c) \/ UNCHANGED notifNext)
  BY DEF NotifStep, NotifSkip, NotifCheckDuplicate, NotifCheckRate, NotifReadPreferences,
         NotifCreate, NotifMark, NotifReadTtl, NotifCount, NotifFail, notifKafka
<1> QED BY <1>1, <1>2, ReturnKeepsPlace DEF PlaceInv

LEMMA CommitKeepsPlace ==
  ASSUME NotifInv, PlaceInv, NEW c \in NotifConsumers, NotifCommit(c) \/ NotifCrash(c)
  PROVE  PlaceInv'
<1>1. /\ notifNext \in [NotifConsumers -> Nat] /\ notifCommitted \in [NotifConsumers -> Nat]
      /\ Len(notifQueue[c]) \in Nat
  BY NotifAssumption DEF NotifInv, QueueInv
<1>2. CASE NotifCommit(c)
  <2>1. /\ notifCommitted' = [notifCommitted EXCEPT ![c] = notifNext[c]]
        /\ UNCHANGED <<notifQueue, notifNext>>
    BY <1>2 DEF NotifCommit
  <2> QED BY <1>1, <2>1 DEF PlaceInv
<1>3. CASE NotifCrash(c)
  <2>1. /\ notifNext' = [notifNext EXCEPT ![c] = notifCommitted[c]]
        /\ UNCHANGED <<notifQueue, notifCommitted>>
    BY <1>3 DEF NotifCrash
  <2> QED BY <1>1, <2>1 DEF PlaceInv
<1> QED BY <1>2, <1>3

\* Rows are stored, and rows stored are read.
LEMMA RowsKeepReads ==
  ASSUME NotifInv, ReadsInv, [NotifNext]_notifVars PROVE ReadsInv'
<1>1. CASE UNCHANGED <<notifRows, notifRead>>
  BY <1>1 DEF ReadsInv
<1>2. ASSUME NEW c \in NotifConsumers, NotifCreate(c) PROVE ReadsInv'
  <2>1. PICK k \in NotifKeys : k = NotifMessage(c).key
    BY <1>2, MessageIsKnown DEF NotifCreate, NotifInv, QueueInv
  <2>2. notifRows' = [notifRows EXCEPT ![k] = notifRows[k] + 1] /\ UNCHANGED notifRead
    BY <1>2, <2>1 DEF NotifCreate
  <2>3. \A q \in NotifKeys : 1..notifRows[q] \subseteq 1..notifRows'[q]
    BY <2>2 DEF NotifInv, QueueInv
  <2> QED BY <2>2, <2>3 DEF ReadsInv
<1>3. ASSUME NEW k \in NotifKeys, NotifMarkAsRead(k) PROVE ReadsInv'
  BY <1>3 DEF NotifMarkAsRead, ReadsInv
<1>4. \/ UNCHANGED <<notifRows, notifRead>>
      \/ \E c \in NotifConsumers : NotifCreate(c)
      \/ \E k \in NotifKeys : NotifMarkAsRead(k)
  BY DEF NotifNext, NotifStep, NotifSkip, NotifCheckDuplicate, NotifCheckRate,
         NotifReadPreferences, NotifMark, NotifReadTtl, NotifCount, NotifFail, NotifCommit,
         NotifCrash, NotifMarkExpires, NotifCounterExpires, NotifUpsertPreferences, notifMongo,
         notifVars
<1> QED BY <1>1, <1>2, <1>3, <1>4

LEMMA OtherTypesKept ==
  ASSUME NotifInv, OtherTypesInv, [NotifNext]_notifVars PROVE OtherTypesInv'
<1> USE DEF OtherTypesInv
<1>1. ASSUME NEW c \in NotifConsumers, NotifReadPreferences(c) PROVE OtherTypesInv'
  <2>1. NotifMessage(c).key \in NotifKeys
    BY <1>1, MessageIsKnown DEF NotifReadPreferences, NotifInv, QueueInv
  <2> QED BY <1>1, <2>1 DEF NotifReadPreferences, notifMongo, notifRedis
<1>2. ASSUME NEW c \in NotifConsumers, NotifCount(c) PROVE OtherTypesInv'
  <2>1. NotifMessage(c).user \in NotifUsers
    BY <1>2, MessageIsKnown DEF NotifCount, NotifInv, QueueInv
  <2>2. UNCHANGED <<notifDnd, notifSuppressed, notifRaced, notifFaults, notifExpiries>>
    BY <1>2 DEF NotifCount, notifMongo, notifHistory
  <2>3. notifLasting' \subseteq notifLasting \cup {NotifMessage(c).user}
    BY <1>2 DEF NotifCount, NotifSetEx
  <2> QED BY <2>1, <2>2, <2>3
<1>3. ASSUME NEW c \in NotifConsumers,
             \/ NotifSkip(c) \/ NotifCheckDuplicate(c) \/ NotifCheckRate(c) \/ NotifCreate(c)
             \/ NotifMark(c) \/ NotifReadTtl(c) \/ NotifCommit(c)
      PROVE  OtherTypesInv'
  BY <1>3 DEF NotifSkip, NotifCheckDuplicate, NotifCheckRate, NotifCreate, NotifMark,
              NotifReadTtl, NotifCommit, notifMongo, notifRedis, notifHistory
<1>4. ASSUME NEW c \in NotifConsumers, NotifFail(c) \/ NotifCrash(c) PROVE OtherTypesInv'
  <2>1. /\ notifFaults < NotifMaxFaults /\ notifFaults' = notifFaults + 1
        /\ UNCHANGED <<notifDnd, notifLasting, notifSuppressed, notifRaced, notifExpiries>>
    BY <1>4 DEF NotifFail, NotifCrash, notifMongo, notifRedis
  <2> QED BY <2>1, NotifAssumption
<1>5. ASSUME NEW k \in NotifKeys, NotifMarkExpires(k) \/ NotifMarkAsRead(k) PROVE OtherTypesInv'
  <2>1. /\ UNCHANGED <<notifDnd, notifLasting, notifSuppressed, notifRaced, notifFaults>>
        /\ \/ UNCHANGED notifExpiries
           \/ notifExpiries < NotifMaxExpiries /\ notifExpiries' = notifExpiries + 1
    BY <1>5 DEF NotifMarkExpires, NotifMarkAsRead, notifMongo, notifRedis, notifHistory
  <2> QED BY <2>1, NotifAssumption
<1>6. ASSUME NEW u \in NotifUsers, NotifCounterExpires(u) \/ NotifUpsertPreferences(u)
      PROVE  OtherTypesInv'
  BY <1>6 DEF NotifCounterExpires, NotifUpsertPreferences, notifMongo, notifRedis, notifHistory
<1>7. CASE UNCHANGED notifVars
  BY <1>7 DEF notifVars, notifMongo, notifRedis, notifHistory
<1> QED BY <1>1, <1>2, <1>3, <1>4, <1>5, <1>6, <1>7 DEF NotifNext, NotifStep

LEMMA PlacesKept ==
  ASSUME NotifInv, PlaceInv, [NotifNext]_notifVars PROVE PlaceInv'
<1>1. \/ \E c \in NotifConsumers : NotifStep(c) \/ NotifFail(c) \/ NotifCommit(c) \/ NotifCrash(c)
      \/ UNCHANGED notifKafka
  BY DEF NotifNext, NotifMarkExpires, NotifMarkAsRead, NotifCounterExpires,
         NotifUpsertPreferences, notifVars
<1> QED BY <1>1, NotifStepKeepsPlace, CommitKeepsPlace DEF notifKafka, PlaceInv

LEMMA TypesStart == NotifInit => PlaceInv /\ ReadsInv /\ OtherTypesInv
<1> SUFFICES ASSUME NotifInit PROVE PlaceInv /\ ReadsInv /\ OtherTypesInv
  OBVIOUS
<1>1. \A c \in NotifConsumers : Len(notifQueue[c]) \in Nat
  BY NotifAssumption DEF NotifInit
<1>2. PlaceInv
  BY <1>1 DEF PlaceInv, NotifInit
<1> QED BY <1>2, NotifAssumption DEF ReadsInv, OtherTypesInv, NotifInit

\* No consumer runs past the end of its partition or commits what it has not
\* read, and users mark only rows that are there (handleMessage, markAsRead).
THEOREM NotificationTyped == NotifSpec => []NotifTypeOK
<1>1. NotifInv /\ CopyInv /\ PlaceInv /\ ReadsInv /\ OtherTypesInv => NotifTypeOK
  BY DEF NotifTypeOK, NotifInv, QueueInv, CopyInv, PlaceInv, ReadsInv, OtherTypesInv
<1>2. NotifSpec => [](NotifInv /\ CopyInv)
  BY NotifStart, NotificationStepKeeps, CopyStart, CopyStep, PTL DEF NotifSpec
<1>3. (NotifInv /\ PlaceInv /\ ReadsInv /\ OtherTypesInv) /\ [NotifNext]_notifVars
        => (PlaceInv /\ ReadsInv /\ OtherTypesInv)'
  BY PlacesKept, RowsKeepReads, OtherTypesKept
<1> QED BY <1>1, <1>2, <1>3, TypesStart, PTL DEF NotifSpec

=============================================================================
