----------------------------- MODULE Subscriptions -----------------------------
(***************************************************************************)
(* The characteristic operations of src/ble/bleService.js: reads, writes,  *)
(* subscriptions and their ends, for one characteristic of one device.     *)
(* Each is attempted up to maxRetries times, over two discoveries and one  *)
(* request that are awaited; the device is looked up once, before the      *)
(* first attempt.  Every discovery answers with the same characteristic,   *)
(* as the tests' device does.                                              *)
(***************************************************************************)
EXTENDS Naturals, FiniteSets

CONSTANTS
  Requests,    \* calls of the four operations; each is made once
  MaxAttempts  \* maxRetries

VARIABLES
  connected,  \* connectedDevices has the device
  request,    \* each call: its operation, where it waits and the attempts begun
  listening,  \* how many 'data' listeners of each call the characteristic has
  notifying,  \* external: the device sends notifications
  meanwhile,  \* history: subscriptions with an unsubscription under way at the same time
  silenced    \* history: subscriptions an unsubscription that began after their end has ended

subscriptionVars == <<connected, request, listening, notifying, meanwhile, silenced>>

Operations == {"read", "write", "subscribe", "unsubscribe"}
NoRequest == [op |-> "none", pc |-> "new", attempts |-> 0]
UnderWay(op) == {k \in Requests : request[k].op = op /\ request[k].pc \notin {"done", "failed"}}
\* The subscriptions that had ended before an unsubscription began.
Ended == {k \in Requests : request[k].op = "subscribe" /\ request[k].pc \in {"done", "failed"}}

Init ==
  /\ connected = TRUE
  /\ request = [k \in Requests |-> NoRequest]
  /\ listening = [k \in Requests |-> 0]
  /\ notifying = FALSE
  /\ meanwhile = {}
  /\ silenced = {}

Moves(k, pc) == request' = [request EXCEPT ![k].pc = pc]

-----------------------------------------------------------------------------
\* The device is found connected, and the first attempt starts to discover.
Begin(k, op) ==
  /\ connected
  /\ request[k] = NoRequest
  /\ request' = [request EXCEPT ![k] = [op |-> op, pc |-> "discovering", attempts |-> 1]]
  /\ meanwhile' = meanwhile \cup
       (CASE op = "subscribe" -> IF UnderWay("unsubscribe") = {} THEN {} ELSE {k}
          [] op = "unsubscribe" -> UnderWay("subscribe")
          [] OTHER -> {})
  /\ UNCHANGED <<connected, listening, notifying, silenced>>

\* A subscription registers the caller's listener before it asks the device.
Discovered(k) ==
  /\ request[k].pc = "discovering"
  /\ Moves(k, "asking")
  /\ listening' = IF request[k].op = "subscribe" THEN [listening EXCEPT ![k] = @ + 1] ELSE listening
  /\ UNCHANGED <<connected, notifying, meanwhile, silenced>>

Answered(k) ==
  /\ request[k].pc = "asking"
  /\ request[k].op # "unsubscribe"
  /\ Moves(k, "done")
  /\ notifying' = (notifying \/ request[k].op = "subscribe")
  /\ UNCHANGED <<connected, listening, meanwhile, silenced>>

(* Operators named after a defect are wrong variants of the definition that *)
(* follows them: Next does not use them; they serve to check that the       *)
(* properties notice the defect.                                            *)
\* Only the listener registered last is removed.
RemoveLastListener == listening' = [k \in Requests |-> IF listening[k] > 0 THEN listening[k] - 1 ELSE 0]
RemoveAllListeners == listening' = [k \in Requests |-> 0]

\* The end of an unsubscription: the device is silent, and all listeners go, those
\* of subscriptions that are under way too.
Unsubscribed(k) ==
  /\ request[k].pc = "asking"
  /\ request[k].op = "unsubscribe"
  /\ Moves(k, "done")
  /\ notifying' = FALSE
  /\ RemoveAllListeners
  /\ silenced' = silenced \cup (Ended \ meanwhile)
  /\ UNCHANGED <<connected, meanwhile>>

\* withRetry: an attempt fails, in a discovery or in the request; what it has
\* registered stays.
AttemptFails(k) ==
  /\ request[k].pc \in {"discovering", "asking"}
  /\ Moves(k, IF request[k].attempts < MaxAttempts THEN "delayed" ELSE "failed")
  /\ UNCHANGED <<connected, listening, notifying, meanwhile, silenced>>

\* retryDelay is over: the next attempt uses the device found before the first.
Retry(k) ==
  /\ request[k].pc = "delayed"
  /\ request' = [request EXCEPT ![k].pc = "discovering", ![k].attempts = @ + 1]
  /\ UNCHANGED <<connected, listening, notifying, meanwhile, silenced>>

\* external: the link goes down and comes back; the characteristic keeps its
\* listeners, and nobody subscribes again.
LinkChanges ==
  /\ connected' = ~ connected
  /\ notifying' = FALSE
  /\ UNCHANGED <<request, listening, meanwhile, silenced>>

Next ==
  \/ \E k \in Requests : \/ \E op \in Operations : Begin(k, op)
                         \/ Discovered(k) \/ Answered(k) \/ Unsubscribed(k)
                         \/ AttemptFails(k) \/ Retry(k)
  \/ LinkChanges

Spec == Init /\ [][Next]_subscriptionVars

-----------------------------------------------------------------------------
TypeOK ==
  /\ connected \in BOOLEAN /\ notifying \in BOOLEAN
  /\ request \in [Requests -> {NoRequest} \cup
        [op : Operations, pc : {"discovering", "asking", "delayed", "done", "failed"},
         attempts : 1..MaxAttempts]]
  /\ listening \in [Requests -> Nat]
  /\ meanwhile \subseteq Requests /\ silenced \subseteq Requests

\* subscribeToCharacteristic: a caller whose subscription has succeeded is heard as
\* long as no unsubscription was under way with it or has ended after it; it is
\* called at most once per attempt for each notification; and an unsubscription
\* that has ended silences every subscription that had ended when it began, the
\* failed ones, which leave their listeners, included.
SubscriptionsAccounted ==
  \A k \in Requests :
    /\ request[k].op = "subscribe" /\ request[k].pc = "done" /\ k \notin meanwhile \cup silenced
         => listening[k] > 0
    /\ listening[k] <= IF request[k].op = "subscribe" THEN request[k].attempts ELSE 0
    /\ k \in silenced => listening[k] = 0
=============================================================================
