--------------------------- MODULE ServicesProofs --------------------------
(***************************************************************************)
(* First the wallet page, for any number of calls and amounts: what it     *)
(* computed from its own balance is the server's, unless payments          *)
(* overlapped, an answer was lost or the balance changed from elsewhere.   *)
(* Then the services together: what is proved of each in its own module    *)
(* holds of Services.                                                      *)
(***************************************************************************)
EXTENDS Services, KycProofs, InvestmentProofs, FraudProofs, NotificationProofs, TLAPS

-----------------------------------------------------------------------------
(* The wallet page: the inductive invariant *)

Call == [step: {"idle", "sent", "served", "refused", "abandoned", "done"}, kind: ClientKinds,
         amount: Nat, answer: Nat \cup {ClientNone}, saw: Nat]

CInv ==
  /\ clientServer \in Nat
  /\ clientShown \in Int \cup {ClientNone}
  /\ clientLoading \in BOOLEAN
  /\ clientError \in BOOLEAN
  /\ clientCall \in [ClientCalls -> Call]
  /\ clientDirty \in BOOLEAN /\ clientChanges \in Nat

Served(c) == clientCall[c].step = "served"

\* An answer given since the last change on the server is the balance there.
NewestIsTrue == \A c \in ClientCalls : Served(c) =>
  /\ clientCall[c].answer \in Nat /\ clientCall[c].saw <= clientChanges
  /\ clientCall[c].saw = clientChanges => clientCall[c].answer = clientServer

\* What the page relies on while nothing has spoilt it.
Clean ==
  /\ \A c \in ClientCalls : Served(c) => clientCall[c].saw = clientChanges
  /\ \A c, d \in ClientInFlight : c # d => ~ ClientPays(c)
  /\ clientShown # ClientNone =>
       /\ \A c \in ClientCalls : Served(c) /\ clientCall[c].kind = "transfer" =>
            clientShown = clientServer + clientCall[c].amount
       /\ (\A c \in ClientCalls : Served(c) => ~ ClientPays(c)) => clientShown = clientServer

ClientInv == CInv /\ NewestIsTrue /\ (clientDirty \/ Clean)

OtherCalls(c) == \A d \in ClientCalls \ {c} : clientCall'[d] = clientCall[d]

-----------------------------------------------------------------------------
(* The steps *)

\* The page has shown nothing and sent nothing.
LEMMA ClientStarts == ClientInit => ClientInv
<1> SUFFICES ASSUME ClientInit PROVE ClientInv
  OBVIOUS
<1>1. \A c \in ClientCalls : clientCall[c].step = "idle"
  BY DEF ClientInit, ClientNoCall
<1>2. CInv
  <2>1. ClientNoCall \in Call
    BY DEF ClientNoCall, Call, ClientKinds
  <2> QED BY <2>1, ClientAssumption DEF ClientInit, CInv
<1>3. NewestIsTrue /\ Clean
  BY <1>1 DEF NewestIsTrue, Clean, Served, ClientInFlight, ClientInit
<1> QED BY <1>2, <1>3 DEF ClientInv

\* What the server does with a call.
LEMMA ServedBalance ==
  ASSUME CInv, NEW c \in ClientCalls
  PROVE  /\ ClientServed(c) \in Int
         /\ ~ ClientPays(c) => ClientServed(c) = clientServer
         /\ clientCall[c].kind = "transfer" => ClientServed(c) = clientServer - clientCall[c].amount
BY DEF CInv, Call, ClientServed, ClientPays, ClientKinds

\* A call that goes out next to none that moves money, and moves none itself
\* unless it is alone, spoils nothing.
LEMMA SendKeeps ==
  ASSUME ClientInv, NEW c \in ClientCalls, NEW kind \in ClientKinds, NEW amount \in ClientAmounts,
         ClientSend(c, kind, amount)
  PROVE  ClientInv'
<1> USE DEF ClientInv
<1>1. /\ clientCall[c].step = "idle" /\ OtherCalls(c) /\ clientCall'[c].step = "sent"
      /\ clientCall'[c].kind = kind
  BY DEF ClientSend, OtherCalls, CInv
<1>2. CInv'
  BY ClientAssumption DEF ClientSend, CInv, Call
<1>3. \A d \in ClientCalls : Served(d)' => Served(d) /\ clientCall'[d] = clientCall[d]
  BY <1>1 DEF OtherCalls, Served
<1>4. NewestIsTrue'
  BY <1>3 DEF NewestIsTrue, ClientSend
<1>5. ASSUME ~ clientDirty' PROVE Clean'
  <2>1. /\ Clean /\ \A d \in ClientInFlight : ~ ClientPays(d) /\ kind \notin {"topUp", "transfer"}
    BY <1>5 DEF ClientSend
  <2>2. \A d \in ClientCalls : Served(d) => Served(d)' /\ clientCall'[d] = clientCall[d]
    BY <1>1 DEF OtherCalls, Served
  <2>3. \A d \in ClientInFlight' : d = c \/ (d \in ClientInFlight /\ ClientPays(d)' = ClientPays(d))
    BY <1>1 DEF ClientInFlight, OtherCalls, ClientPays
  <2>4. ASSUME NEW d \in ClientInFlight', NEW e \in ClientInFlight', d # e
        PROVE  ~ ClientPays(d)'
    <3>1. CASE d = c
      BY <1>1, <2>1, <2>3, <2>4, <3>1 DEF ClientPays
    <3>2. CASE d # c
      BY <2>1, <2>3, <3>2
    <3> QED BY <3>1, <3>2
  <2> QED BY <1>3, <2>1, <2>2, <2>4 DEF Clean, ClientSend, ClientPays
<1> QED BY <1>2, <1>4, <1>5

\* A payment the server carries out is alone, and its answer tells of it.
LEMMA ServeKeeps ==
  ASSUME ClientInv, NEW c \in ClientCalls, ClientServe(c)
  PROVE  ClientInv'
<1> USE DEF ClientInv
<1>1. /\ clientCall[c].step = "sent" /\ OtherCalls(c) /\ c \in ClientInFlight
      /\ clientDirty' = clientDirty /\ clientShown' = clientShown
      /\ clientCall'[c].kind = clientCall[c].kind /\ clientCall'[c].amount = clientCall[c].amount
  BY DEF ClientServe, OtherCalls, CInv, Call, ClientInFlight
<1>2. ClientServed(c) \in Int /\ clientServer \in Nat /\ clientChanges \in Nat
  BY ServedBalance DEF CInv
<1>3. ClientInFlight' = ClientInFlight /\ \A d \in ClientCalls : ClientPays(d)' = ClientPays(d)
  <2>1. clientCall'[c].step \in {"served", "refused"}
    BY DEF ClientServe, CInv, Call
  <2> QED BY <1>1, <2>1 DEF ClientInFlight, OtherCalls, ClientPays
<1>4. CASE ~ ClientAccepts(c)
  <2>1. clientCall'[c].step = "refused" /\ UNCHANGED <<clientServer, clientChanges>>
    BY <1>4 DEF ClientServe, CInv, Call
  <2>2. CInv'
    BY <1>4 DEF ClientServe, CInv, Call
  <2>3. \A d \in ClientCalls : Served(d)' <=> Served(d)
    BY <1>1, <2>1 DEF Served, OtherCalls
  <2>4. \A d \in ClientCalls : Served(d) => clientCall'[d] = clientCall[d]
    BY <1>1 DEF Served, OtherCalls
  <2>5. NewestIsTrue'
    BY <2>1, <2>3, <2>4 DEF NewestIsTrue
  <2>6. ASSUME Clean PROVE Clean'
    <3>1. \A d \in ClientCalls : Served(d)' => clientCall'[d].saw = clientChanges'
      BY <2>1, <2>3, <2>4, <2>6 DEF Clean
    <3>2. \A d, e \in ClientInFlight' : d # e => ~ ClientPays(d)'
      BY <1>3, <2>6 DEF Clean, ClientInFlight
    <3>3. \A d \in ClientCalls : Served(d)' /\ clientCall'[d].kind = "transfer" =>
            Served(d) /\ clientCall[d].kind = "transfer" /\ clientCall'[d] = clientCall[d]
      BY <2>3, <2>4
    <3>4. (\A d \in ClientCalls : Served(d)' => ~ ClientPays(d)') =>
            \A d \in ClientCalls : Served(d) => ~ ClientPays(d)
      BY <1>3, <2>3
    <3> QED BY <1>1, <2>1, <2>6, <3>1, <3>2, <3>3, <3>4 DEF Clean
  <2> QED BY <1>1, <2>2, <2>5, <2>6
<1>5. CASE ClientAccepts(c)
  <2>1. /\ clientServer' = ClientServed(c)
        /\ clientChanges' = IF ClientPays(c) THEN clientChanges + 1 ELSE clientChanges
    BY <1>2, <1>5 DEF ClientServe
  <2> DEFINE call == [clientCall[c] EXCEPT !.step = "served", !.answer = clientServer',
                                           !.saw = clientChanges']
  <2>2. clientServer' \in Nat /\ clientChanges' \in Nat
    BY <1>2, <1>5, <2>1 DEF ClientAccepts
  <2>3. CInv'
    <3>1. call \in Call
      BY <2>2 DEF CInv, Call
    <3>2. clientCall' = [clientCall EXCEPT ![c] = call]
      <4>1. clientCall' = [clientCall EXCEPT ![c].step = "served",
                             ![c].answer = ClientServed(c), ![c].saw = clientChanges']
        BY <1>2, <1>5 DEF ClientServe
      <4> QED BY <2>1, <4>1
    <3> QED BY <2>2, <3>1, <3>2 DEF ClientServe, CInv
  <2>4. /\ clientCall'[c].step = "served" /\ clientCall'[c].answer = clientServer'
        /\ clientCall'[c].saw = clientChanges'
    BY <1>2, <1>5, <2>1 DEF ClientServe, CInv, Call
  <2>5. \A d \in ClientCalls \ {c} : (Served(d)' <=> Served(d)) /\ clientCall'[d] = clientCall[d]
    BY <1>1 DEF Served, OtherCalls
  <2>6. ~ ClientPays(c) => clientServer' = clientServer
    BY <2>1, ServedBalance
  <2>7. NewestIsTrue'
    <3> SUFFICES ASSUME NEW d \in ClientCalls, Served(d)'
                 PROVE  /\ clientCall'[d].answer \in Nat /\ clientCall'[d].saw <= clientChanges'
                        /\ clientCall'[d].saw = clientChanges' =>
                             clientCall'[d].answer = clientServer'
      BY DEF NewestIsTrue
    <3>1. CASE d = c
      BY <2>2, <2>4, <3>1
    <3>2. CASE d # c
      <4>1. /\ clientCall'[d] = clientCall[d] /\ clientCall[d].answer \in Nat
            /\ clientCall[d].saw \in Nat /\ clientCall[d].saw <= clientChanges
            /\ clientCall[d].saw = clientChanges => clientCall[d].answer = clientServer
        BY <2>5, <3>2 DEF NewestIsTrue, CInv, Call
      <4> QED BY <1>2, <2>1, <2>6, <4>1
    <3> QED BY <3>1, <3>2
  <2>8. ASSUME Clean PROVE Clean'
    <3>1. ClientPays(c) => \A d \in ClientCalls \ {c} : ~ Served(d)
      BY <1>1, <2>8 DEF Clean, ClientInFlight, Served
    <3>2. \A d \in ClientCalls : Served(d)' => clientCall'[d].saw = clientChanges'
      BY <2>1, <2>4, <2>5, <2>8, <3>1 DEF Clean
    <3>3. \A d, e \in ClientInFlight' : d # e => ~ ClientPays(d)'
      BY <1>3, <2>8 DEF Clean, ClientInFlight
    <3>4. (\A d \in ClientCalls : Served(d) => ~ ClientPays(d)) \/ ~ ClientPays(c)
      BY <1>1, <3>1 DEF Served
    <3>5. ASSUME clientShown # ClientNone, NEW d \in ClientCalls, Served(d)',
                 clientCall'[d].kind = "transfer"
          PROVE  clientShown = clientServer' + clientCall'[d].amount
      <4>1. CASE d = c
        <5>1. ClientPays(c) /\ clientCall[c].kind = "transfer" /\ clientCall[c].amount \in Nat
          BY <1>1, <3>5, <4>1 DEF ClientPays, CInv, Call
        <5>2. \A e \in ClientCalls : ~ Served(e)
          BY <1>1, <3>1, <5>1 DEF Served
        <5>3. clientShown = clientServer
          BY <2>8, <3>5, <5>2 DEF Clean
        <5>4. clientServer' = clientServer - clientCall[c].amount
          BY <2>1, <5>1, ServedBalance
        <5> QED BY <1>1, <1>2, <4>1, <5>1, <5>3, <5>4
      <4>2. CASE d # c
        <5>1. Served(d) /\ ClientPays(d) /\ clientCall'[d] = clientCall[d]
          BY <2>5, <3>5, <4>2 DEF ClientPays
        <5>2. ~ ClientPays(c)
          BY <3>1, <4>2, <5>1
        <5> QED BY <2>6, <2>8, <3>5, <5>1, <5>2 DEF Clean
      <4> QED BY <4>1, <4>2
    <3>6. ASSUME clientShown # ClientNone, \A d \in ClientCalls : Served(d)' => ~ ClientPays(d)'
          PROVE  clientShown = clientServer'
      <4>1. ~ ClientPays(c)
        BY <1>3, <2>4, <3>6 DEF Served
      <4>2. \A d \in ClientCalls : Served(d) => ~ ClientPays(d)
        BY <1>1, <1>3, <2>5, <3>6 DEF Served
      <4> QED BY <2>6, <2>8, <3>6, <4>1, <4>2 DEF Clean
    <3> QED BY <1>1, <3>2, <3>3, <3>5, <3>6 DEF Clean
  <2> QED BY <1>1, <2>3, <2>7, <2>8
<1> QED BY <1>2, <1>4, <1>5

\* A call that is over is not in flight, and leaves the others there.
LEMMA CallEnds ==
  ASSUME CInv, NEW c \in ClientCalls, NEW call \in Call, call.step \in {"done", "abandoned"},
         clientCall' = [clientCall EXCEPT ![c] = call]
  PROVE  /\ clientCall' \in [ClientCalls -> Call]
         /\ ClientInFlight' = ClientInFlight \ {c}
         /\ \A d \in ClientCalls \ {c} : clientCall'[d] = clientCall[d]
         /\ \A d \in ClientCalls : Served(d)' <=> Served(d) /\ d # c
         /\ \A d \in ClientCalls \ {c} : ClientPays(d)' = ClientPays(d)
BY DEF CInv, ClientInFlight, Served, ClientPays

\* What a call that has ended is like, to the types above.
LEMMA DoneIsCall == ClientDone \in Call /\ ClientDone.step = "done"
BY DEF ClientDone, ClientNoCall, Call, ClientKinds

\* The calls that go on have been told no more, and no less, than before.
LEMMA NewestStays ==
  ASSUME NewestIsTrue, NEW c \in ClientCalls, UNCHANGED <<clientServer, clientChanges>>,
         \A d \in ClientCalls : Served(d)' <=> Served(d) /\ d # c,
         \A d \in ClientCalls \ {c} : clientCall'[d] = clientCall[d]
  PROVE  NewestIsTrue'
BY DEF NewestIsTrue

\* A good answer leaves the page with the server's balance.
LEMMA SucceedKeeps ==
  ASSUME ClientInv, NEW c \in ClientCalls, ClientSucceed(c)
  PROVE  ClientInv'
<1> USE DEF ClientInv
<1>1. /\ Served(c) /\ c \in ClientInFlight /\ UNCHANGED <<clientServer, clientChanges>>
      /\ clientShown' = ClientShows(c) /\ clientCall[c] \in Call
      /\ clientDirty' = (clientDirty /\ ~ ClientFresh(c))
  BY DEF ClientSucceed, Served, ClientInFlight, CInv
<1>2. /\ clientCall' \in [ClientCalls -> Call]
      /\ ClientInFlight' = ClientInFlight \ {c}
      /\ \A d \in ClientCalls \ {c} : clientCall'[d] = clientCall[d]
      /\ \A d \in ClientCalls : Served(d)' <=> Served(d) /\ d # c
      /\ \A d \in ClientCalls \ {c} : ClientPays(d)' = ClientPays(d)
  BY CallEnds, DoneIsCall DEF ClientSucceed
<1>3. /\ clientCall[c].kind \in {"fetchWallet", "topUp"} => clientShown' = clientCall[c].answer
      /\ clientCall[c].kind = "transfer" /\ clientShown # ClientNone =>
           clientShown' = clientShown - clientCall[c].amount
      /\ clientCall[c].kind = "transfer" /\ clientShown = ClientNone => clientShown' = ClientNone
      /\ clientCall[c].kind = "fetchTransactions" => clientShown' = clientShown
  BY <1>1 DEF ClientShows, ClientReduced
<1>4. CInv'
  <2>1. clientCall[c].answer \in Nat /\ clientCall[c].amount \in Nat
        /\ clientCall[c].kind \in ClientKinds
    BY <1>1 DEF NewestIsTrue, Call
  <2>2. clientShown' \in Int \cup {ClientNone}
    BY <1>3, <2>1 DEF CInv, ClientKinds
  <2> QED BY <1>1, <1>2, <2>2 DEF CInv, ClientSucceed
<1>5. NewestIsTrue'
  BY <1>1, <1>2, NewestStays
<1>6. CASE Clean
  <2>1. \A d \in ClientCalls : Served(d)' => clientCall'[d].saw = clientChanges'
    BY <1>1, <1>2, <1>6 DEF Clean
  <2>2. \A d, e \in ClientInFlight' : d # e => ~ ClientPays(d)'
    BY <1>2, <1>6 DEF Clean, ClientInFlight
  <2>3. \A d \in ClientCalls : Served(d)' => ~ ClientPays(d)'
    BY <1>1, <1>2, <1>6 DEF Clean, ClientInFlight, Served
  <2>4. \A d \in ClientCalls : Served(d)' => clientCall'[d].kind # "transfer"
    BY <2>3 DEF ClientPays
  <2>5. ASSUME clientShown' # ClientNone PROVE clientShown' = clientServer'
    <3>1. CASE clientCall[c].kind \in {"fetchWallet", "topUp"}
      BY <1>1, <1>3, <1>6, <3>1 DEF Clean, NewestIsTrue
    <3>2. CASE clientCall[c].kind = "transfer"
      <4>1. clientShown # ClientNone /\ clientShown' = clientShown - clientCall[c].amount
        BY <1>3, <2>5, <3>2
      <4>2. clientShown = clientServer + clientCall[c].amount
        BY <1>1, <1>6, <3>2, <4>1 DEF Clean
      <4>3. clientServer \in Int /\ clientCall[c].amount \in Int
        BY <1>1 DEF CInv, Call
      <4> QED BY <1>1, <4>1, <4>2, <4>3
    <3>3. CASE clientCall[c].kind = "fetchTransactions"
      <4>1. \A d \in ClientCalls : Served(d) => ~ ClientPays(d)
        BY <1>2, <2>3, <3>3 DEF ClientPays
      <4> QED BY <1>1, <1>3, <1>6, <2>5, <3>3, <4>1 DEF Clean
    <3> QED BY <1>1, <3>1, <3>2, <3>3 DEF Call, ClientKinds
  <2>6. Clean'
    BY <2>1, <2>2, <2>4, <2>5 DEF Clean
  <2> QED BY <1>4, <1>5, <2>6
<1>7. CASE ClientFresh(c)
  <2>1. /\ clientCall[c].kind \in {"fetchWallet", "topUp"}
        /\ clientCall[c].saw = clientChanges
        /\ \A d \in ClientInFlight \ {c} :
             ~ ClientPays(d) /\ (Served(d) => clientCall[d].saw = clientChanges)
    BY <1>7 DEF ClientFresh, Served
  <2>2. clientShown' = clientServer'
    BY <1>1, <1>3, <2>1 DEF NewestIsTrue
  <2>3. \A d \in ClientCalls : Served(d)' =>
          d \in ClientInFlight \ {c} /\ ~ ClientPays(d)' /\ clientCall'[d].saw = clientChanges'
    BY <1>1, <1>2, <2>1 DEF ClientInFlight, Served
  <2>4. \A d \in ClientInFlight' : ~ ClientPays(d)'
    BY <1>2, <2>1 DEF ClientInFlight
  <2>5. \A d \in ClientCalls : Served(d)' => clientCall'[d].kind # "transfer"
    BY <2>3 DEF ClientPays
  <2>6. Clean'
    BY <2>2, <2>3, <2>4, <2>5 DEF Clean
  <2> QED BY <1>4, <1>5, <2>6
<1>8. CASE clientDirty /\ ~ ClientFresh(c)
  BY <1>1, <1>4, <1>5, <1>8
<1> QED BY <1>1, <1>6, <1>7, <1>8

\* A call that fails spoils what the page shows only if it may have moved money.
LEMMA FailKeeps ==
  ASSUME ClientInv, NEW c \in ClientCalls, ClientFail(c)
  PROVE  ClientInv'
<1> USE DEF ClientInv
<1> DEFINE call == IF clientCall[c].step = "sent"
                   THEN [clientCall[c] EXCEPT !.step = "abandoned"] ELSE ClientDone
<1>1. call \in Call /\ call.step \in {"done", "abandoned"}
  BY DoneIsCall DEF CInv, Call
<1>2. clientCall' = [clientCall EXCEPT ![c] = call]
  BY DEF ClientFail
<1>3. /\ clientCall' \in [ClientCalls -> Call]
      /\ ClientInFlight' = ClientInFlight \ {c}
      /\ \A d \in ClientCalls \ {c} : clientCall'[d] = clientCall[d]
      /\ \A d \in ClientCalls : Served(d)' <=> Served(d) /\ d # c
      /\ \A d \in ClientCalls \ {c} : ClientPays(d)' = ClientPays(d)
  <2> HIDE DEF call
  <2> QED BY <1>1, <1>2, CallEnds
<1>4. /\ UNCHANGED <<clientServer, clientShown, clientChanges>> /\ c \in ClientInFlight
      /\ clientDirty' = (clientDirty \/ (clientCall[c].step # "refused" /\ ClientPays(c)))
  BY DEF ClientFail
<1>5. CInv'
  BY <1>3, <1>4 DEF CInv, ClientFail
<1>6. NewestIsTrue'
  BY <1>3, <1>4, NewestStays
<1>7. ASSUME ~ clientDirty' PROVE Clean'
  <2>1. Clean /\ (Served(c) => ~ ClientPays(c))
    BY <1>4, <1>7 DEF Served
  <2>2. \A d \in ClientCalls : Served(d)' =>
          clientCall'[d].saw = clientChanges' /\ Served(d) /\ clientCall'[d] = clientCall[d]
    BY <1>3, <1>4, <2>1 DEF Clean
  <2>3. \A d, e \in ClientInFlight' : d # e => ~ ClientPays(d)'
    BY <1>3, <2>1 DEF Clean, ClientInFlight
  <2>4. (\A d \in ClientCalls : Served(d)' => ~ ClientPays(d)') =>
          \A d \in ClientCalls : Served(d) => ~ ClientPays(d)
    BY <1>3, <2>1
  <2> QED BY <1>4, <2>1, <2>2, <2>3, <2>4 DEF Clean
<1> QED BY <1>5, <1>6, <1>7

\* What the page has given up may still change the balance: that spoils the page.
LEMMA ServeLateKeeps ==
  ASSUME ClientInv, NEW c \in ClientCalls, ClientServeLate(c)
  PROVE  ClientInv'
<1> USE DEF ClientInv
<1>1. /\ clientCall' \in [ClientCalls -> Call]
      /\ ClientInFlight' = ClientInFlight \ {c}
      /\ \A d \in ClientCalls \ {c} : clientCall'[d] = clientCall[d]
      /\ \A d \in ClientCalls : Served(d)' <=> Served(d) /\ d # c
      /\ \A d \in ClientCalls \ {c} : ClientPays(d)' = ClientPays(d)
  BY CallEnds, DoneIsCall DEF ClientServeLate
<1>2. /\ clientServer' = (IF ClientServed(c) >= 0 THEN ClientServed(c) ELSE clientServer)
      /\ clientChanges' = (IF clientServer' # clientServer THEN clientChanges + 1
                                                           ELSE clientChanges)
      /\ clientDirty' = (clientDirty \/ clientServer' # clientServer)
      /\ UNCHANGED <<clientShown, clientLoading, clientError>> /\ ~ Served(c)
  BY DEF ClientServeLate, ClientAccepts, Served
<1>3. clientServer' \in Nat /\ clientChanges' \in Nat /\ clientChanges \in Nat
  BY <1>2, ServedBalance DEF CInv
<1>4. CInv'
  BY <1>1, <1>2, <1>3 DEF CInv
<1>5. CASE clientServer' = clientServer
  <2>1. NewestIsTrue'
    BY <1>1, <1>2, <1>5, NewestStays
  <2>2. \A d \in ClientCalls : Served(d) => Served(d)' /\ d # c
    BY <1>1, <1>2
  <2>3. \A d \in ClientCalls : Served(d)' => Served(d) /\ clientCall'[d] = clientCall[d]
    BY <1>1
  <2>4. \A d \in ClientCalls : Served(d)' => (ClientPays(d)' = ClientPays(d))
    BY <1>1
  <2>5. ClientInFlight' \subseteq ClientInFlight \ {c}
    BY <1>1
  <2>6. Clean => Clean'
    BY <1>1, <1>2, <1>5, <2>2, <2>3, <2>4, <2>5 DEF Clean, ClientInFlight
  <2> QED BY <1>2, <1>4, <1>5, <2>1, <2>6
<1>6. CASE clientServer' # clientServer
  <2> SUFFICES ASSUME NEW d \in ClientCalls, Served(d)'
               PROVE  /\ clientCall'[d].answer \in Nat /\ clientCall'[d].saw <= clientChanges'
                      /\ clientCall'[d].saw # clientChanges'
    BY <1>2, <1>4, <1>6 DEF NewestIsTrue
  <2>1. Served(d) /\ clientCall'[d] = clientCall[d]
    BY <1>1
  <2>2. clientCall[d].saw \in Nat /\ clientCall[d].saw <= clientChanges
    BY <2>1 DEF NewestIsTrue, CInv, Call
  <2> QED BY <1>2, <1>3, <1>6, <2>1, <2>2 DEF NewestIsTrue
<1> QED BY <1>5, <1>6

\* A credit from elsewhere spoils what the page shows.
LEMMA CreditKeeps ==
  ASSUME ClientInv, NEW amount \in ClientAmounts, ClientCredit(amount)
  PROVE  ClientInv'
<1> USE DEF ClientInv
<1>1. amount \in Nat /\ clientServer \in Nat /\ clientChanges \in Nat
  BY ClientAssumption DEF CInv
<1>2. /\ clientServer' = clientServer + amount /\ clientChanges' = clientChanges + 1
      /\ clientDirty' = TRUE /\ UNCHANGED <<clientShown, clientLoading, clientError, clientCall>>
  BY DEF ClientCredit
<1>3. CInv'
  BY <1>1, <1>2 DEF CInv
<1>4. \A c \in ClientCalls : Served(c) =>
        clientCall[c].answer \in Nat /\ clientCall[c].saw \in Nat
        /\ clientCall[c].saw <= clientChanges
  BY DEF NewestIsTrue, CInv, Call
<1>5. NewestIsTrue'
  BY <1>1, <1>2, <1>4 DEF NewestIsTrue, Served
<1> QED BY <1>2, <1>3, <1>5

\* The inductive step: one case per action.
LEMMA ClientSteps == ClientInv /\ [ClientNext]_clientVars => ClientInv'
<1> SUFFICES ASSUME ClientInv, [ClientNext]_clientVars PROVE ClientInv'
  OBVIOUS
<1>1. CASE UNCHANGED clientVars
  BY <1>1 DEF clientVars, ClientInv, CInv, NewestIsTrue, Clean, Served, ClientInFlight, ClientPays
<1>2. CASE ClientNext
  BY <1>2, SendKeeps, ServeKeeps, SucceedKeeps, FailKeeps, ServeLateKeeps, CreditKeeps
  DEF ClientNext
<1> QED BY <1>1, <1>2

-----------------------------------------------------------------------------

\* Whatever overlaps and whatever fails, what the page relies on holds.
THEOREM PageConsistent == ClientSpec => []ClientInv
BY ClientStarts, ClientSteps, PTL DEF ClientSpec

\* The page's state is of its type.
THEOREM PageTyped == ClientSpec => []ClientTypeOK
<1>1. ClientInv => ClientTypeOK
  BY DEF ClientInv, CInv, Call, ClientTypeOK
<1> QED BY <1>1, PageConsistent, PTL

\* With no call under way, what the page shows is the balance on the server,
\* unless payments overlapped, an answer was lost or the balance changed from
\* elsewhere since the last fresh wallet.
THEOREM QuietPageIsRight == ClientSpec => []QuietViewIsTrue
<1>1. ClientInv => QuietViewIsTrue
  BY DEF ClientInv, Clean, QuietViewIsTrue, ClientInFlight, Served
<1> QED BY <1>1, PageConsistent, PTL

-----------------------------------------------------------------------------
(* The services together *)

\* Whichever service moves, each goes by its own specification: a step of
\* another leaves all of its variables alone.
THEOREM ServicesAreThemselves ==
  Spec => KycSpec /\ InvSpec /\ FraudSpec /\ NotifSpec /\ ClientSpec
<1>1. Init => KycInit /\ InvInit /\ FraudInit /\ NotifInit /\ ClientInit
  BY DEF Init
<1>2. [Next]_vars => [KycNext]_kycVars
  BY DEF Next, vars, KycStep, InvestmentStep, FraudStep, NotificationStep, ClientStep
<1>3. [Next]_vars => [InvNext]_invVars
  BY DEF Next, vars, KycStep, InvestmentStep, FraudStep, NotificationStep, ClientStep
<1>4. [Next]_vars => [FraudNext]_fraudVars
  BY DEF Next, vars, KycStep, InvestmentStep, FraudStep, NotificationStep, ClientStep
<1>5. [Next]_vars => [NotifNext]_notifVars
  BY DEF Next, vars, KycStep, InvestmentStep, FraudStep, NotificationStep, ClientStep
<1>6. [Next]_vars => [ClientNext]_clientVars
  BY DEF Next, vars, KycStep, InvestmentStep, FraudStep, NotificationStep, ClientStep
<1> QED
  BY <1>1, <1>2, <1>3, <1>4, <1>5, <1>6, PTL
     DEF Spec, KycSpec, InvSpec, FraudSpec, NotifSpec, ClientSpec

\* What is proved of each service holds of all of them together: records point
\* at documents, second decisions and payouts need an overlap, freezes and
\* copies are explained, a quiet page is right.
THEOREM ServicesKeepTheirWord ==
  Spec => /\ [](RecordPointsAtDocuments /\ SecondDecisionOverlaps) /\ VerifiedUndoneByOverlap
          /\ [](SecondPayoutOverlaps /\ ClosedIsAnnounced)
          /\ [](FrozenIsExplained /\ SecondDeviceFlagOverlaps /\ DefaultsComplete)
          /\ [](MarkMeansProcessed /\ ImmortalNeedsRace /\ CopiesAreExcused)
          /\ []QuietViewIsTrue
BY ServicesAreThemselves, RecordsAreBacked, SecondDecisionNeedsOverlap, VerifiedEndsByOverlap,
   SecondPayoutNeedsOverlap, ClosingsAreAnnounced, FreezesAreExplained, SecondFlagNeedsOverlap,
   DefaultsAreComplete, MarksAreEarned, LastingCountersNeedRace, CopiesExcused,
   QuietPageIsRight, PTL

\* Whichever service moves, every variable of every service keeps its type.
THEOREM ServicesTyped == Spec => []TypeOK
<1>1. Init => service \in AllServices
  BY DEF Init
<1>2. service \in AllServices /\ [Next]_vars => (service \in AllServices)'
  BY DEF Next, vars, KycStep, InvestmentStep, FraudStep, NotificationStep, ClientStep
<1>3. KycInv => KycTypeOK
  BY DEF KycInv
<1>4. InvestInv => InvTypeOK
  BY DEF InvestInv
<1>5. service \in AllServices /\ KycTypeOK /\ InvTypeOK /\ FraudTypeOK /\ NotifTypeOK
        /\ ClientTypeOK => TypeOK
  BY DEF TypeOK
<1> QED
  BY <1>1, <1>2, <1>3, <1>4, <1>5, ServicesAreThemselves, KycConsistent, InvestmentConsistent,
     FraudTyped, NotificationTyped, PageTyped, PTL DEF Spec

=============================================================================
