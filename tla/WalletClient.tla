---------------------------- MODULE WalletClient ---------------------------
(***************************************************************************)
(* The wallet of the customer front-ends: the composable useWallet over    *)
(* its store, in one open page, and the wallet of the same user on the     *)
(* server.  Calls overlap: the pages start several at once, and the button *)
(* that sends a payment stays enabled while one is under way.              *)
(* fetchTransactions is a fetch whose answer leaves the balance alone; the *)
(* list of transactions is left out.                                       *)
(***************************************************************************)
EXTENDS Integers

CONSTANTS
  ClientCalls,     \* calls of the composable
  ClientAmounts,   \* amounts paid in and sent
  ClientStart,     \* the balance on the server at the start
  ClientForeign,   \* bound on the credits that come from elsewhere
  ClientNone

ASSUME ClientAssumption ==
  /\ ClientAmounts \subseteq Nat \ {0}
  /\ ClientStart \in Nat /\ ClientForeign \in Nat
  /\ ClientNone \notin Int \cup ClientCalls

VARIABLES
  clientServer,    \* the balance on the server
  clientShown,     \* the balance in the store, or none
  clientLoading,   \* loading in the store
  clientError,     \* whether there is an error in the store
  clientCall,      \* each call: [step, kind, amount, answer], and, a history,
                   \* the changes on the server when it answered
  clientCredits    \* credits from elsewhere so far

\* History: whether something happened since the last good answer of which no
\* answer can tell, and the changes on the server.
VARIABLES clientDirty, clientChanges

clientVars == <<clientServer, clientShown, clientLoading, clientError, clientCall, clientCredits,
                clientDirty, clientChanges>>

ClientKinds == {"fetchWallet", "fetchTransactions", "topUp", "transfer"}
ClientPays(c) == clientCall[c].kind \in {"topUp", "transfer"}

ClientNoCall ==
  [step |-> "idle", kind |-> "fetchWallet", amount |-> 0, answer |-> ClientNone, saw |-> 0]
ClientDone   == [ClientNoCall EXCEPT !.step = "done"]

ClientInit ==
  /\ clientServer = ClientStart
  /\ clientShown = ClientNone
  /\ clientLoading = FALSE
  /\ clientError = FALSE
  /\ clientCall = [c \in ClientCalls |-> ClientNoCall]
  /\ clientCredits = 0
  /\ clientDirty = FALSE /\ clientChanges = 0

ClientInFlight == {c \in ClientCalls : clientCall[c].step \in {"sent", "served", "refused"}}

\* setLoading(true), setError(null), and the request goes out.  Two calls of
\* which one moves money spoil what the store shows.
ClientSend(c, kind, amount) ==
  /\ clientCall[c].step = "idle"
  /\ clientCall' = [clientCall EXCEPT ![c] =
       [step |-> "sent", kind |-> kind, amount |-> amount, answer |-> ClientNone, saw |-> 0]]
  /\ clientLoading' = TRUE
  /\ clientError' = FALSE
  /\ clientDirty' = 
       (clientDirty \/ \E d \in ClientInFlight : ClientPays(d) \/ kind \in {"topUp", "transfer"})
  /\ UNCHANGED <<clientServer, clientShown, clientCredits, clientChanges>>

\* What the call does to the balance on the server.
ClientServed(c) ==
  CASE clientCall[c].kind = "topUp"    -> clientServer + clientCall[c].amount
    [] clientCall[c].kind = "transfer" -> clientServer - clientCall[c].amount
    [] OTHER                           -> clientServer

\* Not the code: a transfer is carried out, whatever the balance.
ClientAcceptsAny(c) == TRUE

\* The wallet service refuses a transfer the balance does not cover.
ClientAccepts(c) == ClientServed(c) >= 0

\* The wallet service answers.
ClientServe(c) ==
  /\ clientCall[c].step = "sent"
  /\ IF ClientAccepts(c)
     THEN /\ clientServer' = ClientServed(c)
          /\ clientChanges' = IF ClientPays(c) THEN clientChanges + 1 ELSE clientChanges
          /\ clientCall' = [clientCall EXCEPT ![c].step = "served", ![c].answer = ClientServed(c),
                                              ![c].saw = clientChanges']
     ELSE /\ clientCall' = [clientCall EXCEPT ![c].step = "refused"]
          /\ UNCHANGED <<clientServer, clientChanges>>
  /\ UNCHANGED <<clientShown, clientLoading, clientError, clientCredits, clientDirty>>

\* Not the code: a transfer leaves the balance in the store as it is.
ClientKept(shown, amount) == shown

\* updateBalance(store.wallet.balance - payload.amount)
ClientReduced(shown, amount) == shown - amount

\* What the store shows once the call has succeeded.
ClientShows(c) ==
  CASE clientCall[c].kind \in {"fetchWallet", "topUp"} -> clientCall[c].answer
    [] clientCall[c].kind = "transfer" /\ clientShown # ClientNone
         -> ClientReduced(clientShown, clientCall[c].amount)
    [] OTHER -> clientShown

\* A wallet as new as the server's clears the history, unless a payment or an
\* older wallet is still on its way.
ClientFresh(c) ==
  /\ clientCall[c].kind \in {"fetchWallet", "topUp"}
  /\ clientCall[c].saw = clientChanges
  /\ \A d \in ClientInFlight \ {c} :
       ~ ClientPays(d) /\ (clientCall[d].step = "served" => clientCall[d].saw = clientChanges)

ClientSucceed(c) ==
  /\ clientCall[c].step = "served"
  /\ clientShown' = ClientShows(c)
  /\ clientLoading' = FALSE
  /\ clientCall' = [clientCall EXCEPT ![c] = ClientDone]
  /\ clientDirty' = (clientDirty /\ ~ ClientFresh(c))
  /\ UNCHANGED <<clientServer, clientError, clientCredits, clientChanges>>

\* Refused; or the timeout of 15 seconds passed, before the server saw the
\* call, after it, or in between.
ClientFail(c) ==
  /\ c \in ClientInFlight
  /\ clientError' = TRUE
  /\ clientLoading' = FALSE
  /\ clientCall' = [clientCall EXCEPT ![c] =
       IF @.step = "sent" THEN [@ EXCEPT !.step = "abandoned"] ELSE ClientDone]
  /\ clientDirty' = (clientDirty \/ (clientCall[c].step # "refused" /\ ClientPays(c)))
  /\ UNCHANGED <<clientServer, clientShown, clientCredits, clientChanges>>

\* The server still carries out what the page has given up.
ClientServeLate(c) ==
  /\ clientCall[c].step = "abandoned"
  /\ clientCall' = [clientCall EXCEPT ![c] = ClientDone]
  /\ clientServer' = IF ClientAccepts(c) THEN ClientServed(c) ELSE clientServer
  /\ clientChanges' = IF clientServer' # clientServer THEN clientChanges + 1 ELSE clientChanges
  /\ clientDirty' = (clientDirty \/ clientServer' # clientServer)
  /\ UNCHANGED <<clientShown, clientLoading, clientError, clientCredits>>

\* Another user's transfer, or this user's on another device.
ClientCredit(amount) ==
  /\ clientCredits < ClientForeign
  /\ clientCredits' = clientCredits + 1
  /\ clientServer' = clientServer + amount
  /\ clientChanges' = clientChanges + 1
  /\ clientDirty' = TRUE
  /\ UNCHANGED <<clientShown, clientLoading, clientError, clientCall>>

ClientNext ==
  \/ \E c \in ClientCalls :
       \/ \E kind \in ClientKinds, amount \in ClientAmounts : ClientSend(c, kind, amount)
       \/ ClientServe(c) \/ ClientSucceed(c) \/ ClientFail(c) \/ ClientServeLate(c)
  \/ \E amount \in ClientAmounts : ClientCredit(amount)

ClientSpec == ClientInit /\ [][ClientNext]_clientVars

-----------------------------------------------------------------------------
(* What the page keeps true *)

ClientTypeOK ==
  /\ clientServer \in Nat
  /\ clientShown \in Int \cup {ClientNone}
  /\ clientLoading \in BOOLEAN
  /\ clientError \in BOOLEAN
  /\ \A c \in ClientCalls :
       /\ clientCall[c].step \in {"idle", "sent", "served", "refused", "abandoned", "done"}
       /\ clientCall[c].kind \in ClientKinds
       /\ clientCall[c].answer \in Nat \cup {ClientNone}
  /\ clientDirty \in BOOLEAN /\ clientChanges \in Nat

\* With no call under way, the balance the page computed from its own is the
\* server's, unless since the last fresh wallet payments overlapped with other
\* calls, an answer of one was lost, or the balance changed from elsewhere:
\* failed and refused calls, several transfers in a row and reads that overlap
\* do no harm (transfer, fetchWallet, topUp).
QuietViewIsTrue ==
  ClientInFlight = {} /\ ~ clientDirty /\ clientShown # ClientNone => clientShown = clientServer

=============================================================================
