----------------------------- MODULE MCServices ----------------------------
(***************************************************************************)
(* Values for the model checker: a small instance of every service of      *)
(* Services.                                                               *)
(***************************************************************************)
EXTENDS Services

CONSTANTS b1, b2, c1, c2, a1, p1, n1, n2

MCInvProducts == {[open |-> TRUE, min |-> 2, max |-> 5]}

\* Two starts and a check; two checks; a check next to an administrator and
\* the clean-up.
MCFraudGroups == {{b1, b2, c1}, {b1, c1, c2}, {b1, c1, a1, p1}}

\* One user and one device, in two places or in a place unknown.
MCFraudRequests ==
  {[user |-> "user", ip |-> "ip", device |-> "device", location |-> l, large |-> TRUE] :
     l \in {"here", "there"}}
  \cup {[user |-> "user", ip |-> "ip", device |-> FraudNone, location |-> FraudNone,
          large |-> FALSE]}

\* The per-user limit is 1, and the window does not reach back a whole tick: a
\* check still counts those of the tick before, which lie outside it.
MCFraudDefaults == <<"velocity_per_user", "new_device", "geo_anomaly">>

MCFraudNewRules ==
  {[type |-> "velocity_per_ip", enabled |-> TRUE, action |-> "block"],
   [type |-> "amount_threshold", enabled |-> TRUE, action |-> "freeze"]}

Message(key, critical, body, addressable) ==
  [key |-> key, user |-> "user", critical |-> critical, body |-> body, addressable |-> addressable]

\* One event that reaches both consumers; and one partition with an event,
\* one that cannot be parsed, one without an address and a critical one.
MCNotifQueues ==
  {[c \in NotifConsumers |-> <<Message("k1", FALSE, "ok", TRUE)>>],
   [c \in NotifConsumers |->
      IF c = n1 THEN <<Message("k1", FALSE, "ok", TRUE), Message("k2", FALSE, "garbled", TRUE),
                       Message("k2", FALSE, "ok", FALSE), Message("k2", TRUE, "ok", TRUE)>>
      ELSE <<>>]}

=============================================================================
