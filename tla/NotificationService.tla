------------------------ MODULE NotificationService ------------------------
(***************************************************************************)
(* The notification microservice: consumers of one Kafka group, each with  *)
(* a partition of its own, which it reads one message at a time; MongoDB   *)
(* for what users are shown and what they prefer; Redis for the marks of   *)
(* duplicates and the hourly counters.  A consumer that dies comes back,   *)
(* or another one takes its partition over, at the offset committed last.  *)
(* Delivery over the channels is left out: it changes no state, and no     *)
(* failure of it reaches the handler.                                      *)
(***************************************************************************)
EXTENDS Naturals, Sequences, FiniteSets

CONSTANTS
  NotifConsumers,    \* consumers, and partitions
  NotifQueues,       \* what the partitions may hold: queue[c] is the partition of c
  NotifLimit,        \* NOTIFICATION_RATE_LIMIT
  NotifMaxExpiries,  \* bound on the marks that run out
  NotifMaxFaults     \* bound on crashes and failed statements

\* key: what a mark is about, user, topic and title; critical: its priority;
\* body: whether it can be parsed; addressable: whether its userId is an
\* ObjectId.
ASSUME NotifAssumption ==
  /\ \A queue \in NotifQueues : \A c \in NotifConsumers :
       /\ Len(queue[c]) \in Nat /\ DOMAIN queue[c] = 1..Len(queue[c])
       /\ \A k \in DOMAIN queue[c] :
            LET m == queue[c][k] IN
            /\ DOMAIN m = {"key", "user", "critical", "body", "addressable"}
            /\ m.body \in {"ok", "empty", "garbled"}
            /\ m.critical \in BOOLEAN /\ m.addressable \in BOOLEAN
  /\ IsFiniteSet(NotifConsumers)
  /\ NotifLimit \in Nat \ {0} /\ NotifMaxExpiries \in Nat /\ NotifMaxFaults \in Nat

VARIABLES
  notifQueue,       \* the partitions: chosen at the start, and never changed
  notifRows,        \* collection notifications: the rows stored for each key
  notifRead,        \* of these, the rows marked as read: <<key, n>> is the n-th of key
  notifDnd,         \* collection preferences: the users who asked not to be disturbed
  notifMarked,      \* Redis dedup:notif:<key>
  notifCounter,     \* Redis ratelimit:notif:<user>, 0 when there is none
  notifLasting,     \* the users whose counter has no lifetime
  notifNext,        \* the message each consumer is at
  notifCommitted,   \* where each partition is read again after a crash
  notifPc,
  notifCounted,     \* whether a consumer has seen a counter
  notifFaults, notifExpiries

\* History: keys suppressed by a preference, reasons for one more copy, and
\* users whose counter ran out while a consumer was about to raise it.
VARIABLES notifSuppressed, notifExcuses, notifRaced

notifKafka   == <<notifQueue, notifNext, notifCommitted>>
notifMongo   == <<notifRows, notifRead, notifDnd>>
notifRedis   == <<notifMarked, notifCounter, notifLasting>>
notifHistory == <<notifSuppressed, notifExcuses, notifRaced>>
notifVars    == <<notifKafka, notifMongo, notifRedis, notifPc, notifCounted, notifFaults,
                  notifExpiries, notifHistory>>

NotifMessages == UNION {UNION {{queue[c][k] : k \in DOMAIN queue[c]} : c \in NotifConsumers} :
                        queue \in NotifQueues}
NotifKeys  == {m.key : m \in NotifMessages}
NotifUsers == {m.user : m \in NotifMessages}

NotifRunning == {"rate", "prefs", "create", "mark", "ttl", "count"}

NotifInit ==
  /\ notifQueue \in NotifQueues
  /\ notifRows = [k \in NotifKeys |-> 0] /\ notifRead = {}
  /\ notifDnd = {}
  /\ notifMarked = {}
  /\ notifCounter = [u \in NotifUsers |-> 0] /\ notifLasting = {}
  /\ notifNext = [c \in NotifConsumers |-> 1] /\ notifCommitted = [c \in NotifConsumers |-> 1]
  /\ notifPc = [c \in NotifConsumers |-> "idle"]
  /\ notifCounted = [c \in NotifConsumers |-> FALSE]
  /\ notifFaults = 0 /\ notifExpiries = 0
  /\ notifSuppressed = {} /\ notifExcuses = [k \in NotifKeys |-> 0] /\ notifRaced = {}

NotifHas(c)     == notifNext[c] \in DOMAIN notifQueue[c]
NotifMessage(c) == notifQueue[c][notifNext[c]]

NotifGoto(c, step) == notifPc' = [notifPc EXCEPT ![c] = step]

\* handleMessage returns: kafkajs goes on to the next message.
NotifReturn(c) == NotifGoto(c, "idle") /\ notifNext' = [notifNext EXCEPT ![c] = @ + 1]

-----------------------------------------------------------------------------
(* handleMessage *)

\* Not the code: the error of JSON.parse reaches kafkajs, which tries again.
NotifEmpty(m) == m.body = "empty"

\* An empty message returns, one that cannot be parsed is caught.
NotifUnreadable(m) == m.body \in {"empty", "garbled"}

NotifSkip(c) ==
  /\ notifPc[c] = "idle" /\ NotifHas(c)
  /\ NotifUnreadable(NotifMessage(c))
  /\ NotifReturn(c)
  /\ UNCHANGED <<notifQueue, notifCommitted, notifMongo, notifRedis, notifCounted, notifFaults,
                 notifExpiries, notifHistory>>

\* Not the code: the mark is set and never looked at.
NotifNeverDuplicate(k) == FALSE

NotifDuplicate(k) == k \in notifMarked

\* The other consumers between their look at the mark of k and setting it.
NotifHandling(c, k) ==
  {d \in NotifConsumers \ {c} : notifPc[d] \in {"rate", "prefs", "create", "mark"}
                            /\ NotifMessage(d).key = k}

NotifCheckDuplicate(c) ==
  LET k == NotifMessage(c).key IN
  /\ notifPc[c] = "idle" /\ NotifHas(c)
  /\ NotifMessage(c).body = "ok"
  /\ IF NotifDuplicate(k)
     THEN NotifReturn(c) /\ UNCHANGED notifExcuses
     ELSE /\ NotifGoto(c, "rate")
          /\ notifExcuses' = [notifExcuses EXCEPT ![k] = @ + Cardinality(NotifHandling(c, k))]
          /\ UNCHANGED notifNext
  /\ UNCHANGED <<notifQueue, notifCommitted, notifMongo, notifRedis, notifCounted, notifFaults,
                 notifExpiries, notifSuppressed, notifRaced>>

\* A message over the limit is dropped, without a mark.
NotifCheckRate(c) ==
  /\ notifPc[c] = "rate"
  /\ IF notifCounter[NotifMessage(c).user] >= NotifLimit
     THEN NotifReturn(c)
     ELSE NotifGoto(c, "prefs") /\ UNCHANGED notifNext
  /\ UNCHANGED <<notifQueue, notifCommitted, notifMongo, notifRedis, notifCounted, notifFaults,
                 notifExpiries, notifHistory>>

\* processIncoming: a userId that is no ObjectId throws, and is caught.
NotifReadPreferences(c) ==
  LET m == NotifMessage(c)
      quiet == m.user \in notifDnd /\ ~ m.critical
  IN
  /\ notifPc[c] = "prefs"
  /\ IF m.addressable
     THEN NotifGoto(c, IF quiet THEN "mark" ELSE "create") /\ UNCHANGED notifNext
     ELSE NotifReturn(c)
  /\ notifSuppressed' = IF m.addressable /\ quiet
                        THEN notifSuppressed \cup {m.key} ELSE notifSuppressed
  /\ UNCHANGED <<notifQueue, notifCommitted, notifMongo, notifRedis, notifCounted, notifFaults,
                 notifExpiries, notifExcuses, notifRaced>>

NotifCreate(c) ==
  /\ notifPc[c] = "create"
  /\ notifRows' = [notifRows EXCEPT ![NotifMessage(c).key] = @ + 1]
  /\ NotifGoto(c, "mark")
  /\ UNCHANGED <<notifKafka, notifRead, notifDnd, notifRedis, notifCounted, notifFaults,
                 notifExpiries, notifHistory>>

\* setDeduplicationKey
NotifMark(c) ==
  /\ notifPc[c] = "mark"
  /\ notifMarked' = notifMarked \cup {NotifMessage(c).key}
  /\ NotifGoto(c, "ttl")
  /\ UNCHANGED <<notifKafka, notifMongo, notifCounter, notifLasting, notifCounted, notifFaults,
                 notifExpiries, notifHistory>>

\* incrementRateCounter asks for the lifetime of the counter,
NotifReadTtl(c) ==
  /\ notifPc[c] = "ttl"
  /\ notifCounted' = [notifCounted EXCEPT ![c] = notifCounter[NotifMessage(c).user] > 0]
  /\ NotifGoto(c, "count")
  /\ UNCHANGED <<notifKafka, notifMongo, notifRedis, notifFaults, notifExpiries, notifHistory>>

\* Not the code: SET instead of SETEX.
NotifSet(u) == notifLasting \cup {u}

NotifSetEx(u) == notifLasting \ {u}

\* then starts one, or increments: INCR of a key that has run out meanwhile
\* makes one without a lifetime.
NotifCount(c) ==
  LET u == NotifMessage(c).user IN
  /\ notifPc[c] = "count"
  /\ \/ /\ ~ notifCounted[c]
        /\ notifCounter' = [notifCounter EXCEPT ![u] = 1]
        /\ notifLasting' = NotifSetEx(u)
     \/ /\ notifCounted[c]
        /\ notifCounter' = [notifCounter EXCEPT ![u] = @ + 1]
        /\ notifLasting' = IF notifCounter[u] = 0 THEN notifLasting \cup {u} ELSE notifLasting
  /\ NotifReturn(c)
  /\ UNCHANGED <<notifQueue, notifCommitted, notifMongo, notifMarked, notifCounted, notifFaults,
                 notifExpiries, notifHistory>>

NotifStep(c) ==
  \/ NotifSkip(c) \/ NotifCheckDuplicate(c) \/ NotifCheckRate(c) \/ NotifReadPreferences(c)
  \/ NotifCreate(c) \/ NotifMark(c) \/ NotifReadTtl(c) \/ NotifCount(c)

-----------------------------------------------------------------------------
(* Faults *)

\* A row stored by a handler that ends before its mark may be stored again.
NotifExcuse(c) ==
  LET k == NotifMessage(c).key IN
  notifExcuses' = IF notifPc[c] = "mark" THEN [notifExcuses EXCEPT ![k] = @ + 1] ELSE notifExcuses

\* Not the code: finally instead of after.
NotifFailMarking(c) ==
  /\ notifPc[c] \in {"rate", "prefs", "create"}
  /\ notifFaults < NotifMaxFaults
  /\ notifFaults' = notifFaults + 1
  /\ NotifGoto(c, "mark")
  /\ UNCHANGED <<notifKafka, notifMongo, notifRedis, notifCounted, notifExpiries, notifHistory>>

\* A statement fails: the error is logged and the message is not seen again.
NotifFail(c) ==
  /\ notifPc[c] \in NotifRunning
  /\ notifFaults < NotifMaxFaults
  /\ notifFaults' = notifFaults + 1
  /\ NotifReturn(c)
  /\ NotifExcuse(c)
  /\ UNCHANGED <<notifQueue, notifCommitted, notifMongo, notifRedis, notifCounted, notifExpiries,
                 notifSuppressed, notifRaced>>

\* kafkajs commits what is resolved now and then.
NotifCommit(c) ==
  /\ notifCommitted[c] # notifNext[c]
  /\ notifCommitted' = [notifCommitted EXCEPT ![c] = notifNext[c]]
  /\ UNCHANGED <<notifQueue, notifNext, notifMongo, notifRedis, notifPc, notifCounted, notifFaults,
                 notifExpiries, notifHistory>>

\* The consumer dies: what it had not committed is delivered again.
NotifCrash(c) ==
  /\ notifFaults < NotifMaxFaults
  /\ notifPc[c] # "idle" \/ notifCommitted[c] # notifNext[c]
  /\ notifFaults' = notifFaults + 1
  /\ NotifGoto(c, "idle")
  /\ notifNext' = [notifNext EXCEPT ![c] = notifCommitted[c]]
  /\ IF NotifHas(c) THEN NotifExcuse(c) ELSE UNCHANGED notifExcuses
  /\ UNCHANGED <<notifQueue, notifCommitted, notifMongo, notifRedis, notifCounted, notifExpiries,
                 notifSuppressed, notifRaced>>

-----------------------------------------------------------------------------
(* Redis and the users *)

NotifMarkExpires(k) ==
  /\ k \in notifMarked
  /\ notifExpiries < NotifMaxExpiries
  /\ notifExpiries' = notifExpiries + 1
  /\ notifMarked' = notifMarked \ {k}
  /\ notifExcuses' = [notifExcuses EXCEPT ![k] = @ + 1]
  /\ UNCHANGED <<notifKafka, notifMongo, notifCounter, notifLasting, notifPc, notifCounted,
                 notifFaults, notifSuppressed, notifRaced>>

NotifCounterExpires(u) ==
  /\ notifCounter[u] > 0 /\ u \notin notifLasting
  /\ notifCounter' = [notifCounter EXCEPT ![u] = 0]
  /\ notifRaced' = IF \E c \in NotifConsumers :
                        notifPc[c] = "count" /\ notifCounted[c] /\ NotifMessage(c).user = u
                   THEN notifRaced \cup {u} ELSE notifRaced
  /\ UNCHANGED <<notifKafka, notifMongo, notifMarked, notifLasting, notifPc, notifCounted,
                 notifFaults, notifExpiries, notifSuppressed, notifExcuses>>

\* upsertPreferences, as far as doNotDisturb goes.
NotifUpsertPreferences(u) ==
  /\ notifDnd' = IF u \in notifDnd THEN notifDnd \ {u} ELSE notifDnd \cup {u}
  /\ UNCHANGED <<notifKafka, notifRows, notifRead, notifRedis, notifPc, notifCounted,
                 notifFaults, notifExpiries, notifHistory>>

\* A row found by its identifier is marked, whether it has been before or not.
NotifMarkAsRead(k) ==
  /\ \E n \in 1..notifRows[k] : notifRead' = notifRead \cup {<<k, n>>}
  /\ UNCHANGED <<notifKafka, notifRows, notifDnd, notifRedis, notifPc, notifCounted,
                 notifFaults, notifExpiries, notifHistory>>

NotifNext ==
  \/ \E c \in NotifConsumers : NotifStep(c) \/ NotifFail(c) \/ NotifCommit(c) \/ NotifCrash(c)
  \/ \E k \in NotifKeys : NotifMarkExpires(k) \/ NotifMarkAsRead(k)
  \/ \E u \in NotifUsers : NotifCounterExpires(u) \/ NotifUpsertPreferences(u)

NotifSpec == NotifInit /\ [][NotifNext]_notifVars

-----------------------------------------------------------------------------
(* What the service keeps true *)

NotifTypeOK ==
  /\ notifQueue \in NotifQueues
  /\ notifRows \in [NotifKeys -> Nat]
  /\ notifRead \subseteq UNION {{k} \X (1..notifRows[k]) : k \in NotifKeys}
  /\ notifDnd \subseteq NotifUsers
  /\ notifMarked \subseteq NotifKeys
  /\ notifCounter \in [NotifUsers -> Nat] /\ notifLasting \subseteq NotifUsers
  /\ \A c \in NotifConsumers :
       /\ notifNext[c] \in 1..Len(notifQueue[c]) + 1
       /\ notifCommitted[c] \in 1..notifNext[c]
       /\ notifPc[c] \in NotifRunning \cup {"idle"}
       /\ notifPc[c] # "idle" => NotifHas(c)
  /\ notifFaults \in 0..NotifMaxFaults /\ notifExpiries \in 0..NotifMaxExpiries
  /\ notifSuppressed \subseteq NotifKeys /\ notifRaced \subseteq NotifUsers
  /\ notifExcuses \in [NotifKeys -> Nat]

\* A mark, which makes every later delivery of its event a duplicate, is only
\* there when the event was stored for its user, or suppressed at the user's
\* own wish: no failure between the two loses an event to its own mark
\* (handleMessage sets the mark after processIncoming).
MarkMeansProcessed ==
  \A k \in notifMarked : notifRows[k] > 0 \/ k \in notifSuppressed

\* An event is stored once, and once more at most for every mark that ran
\* out, every handler that ended between the row and the mark, and every pair
\* of handlers that both looked for the mark before either set it.
CopiesAreExcused ==
  \A k \in NotifKeys : notifRows[k] <= 1 + notifExcuses[k]

\* A user's counter is without a lifetime, so that the limit once reached is
\* never lifted, only if it ran out between a consumer's TTL and INCR.
ImmortalNeedsRace ==
  notifLasting \subseteq notifRaced

=============================================================================
