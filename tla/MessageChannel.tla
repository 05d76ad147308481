---------------------------- MODULE MessageChannel ----------------------------
(***************************************************************************)
(* What the message batcher promises its callers, without timers, sizes,   *)
(* promise chains or awaits: a message is taken once, waits with the other *)
(* messages of its client, and leaves with all of them at once.  While the *)
(* channel is open the listener hears the id of every message that leaves; *)
(* a message that leaves otherwise is lost, and the channel knows it.      *)
(***************************************************************************)
EXTENDS FiniteSets

CONSTANTS
  Clients,  \* client ids
  Calls,    \* the calls of addMessage
  Ids       \* message ids

VARIABLES
  open,     \* somebody listens
  taken,    \* the calls whose message was accepted
  pending,  \* per client, the messages that wait
  heard,    \* the client and the id of what was emitted
  lost      \* the calls whose message was deleted, or emitted to no one

vars == <<open, taken, pending, heard, lost>>

CallsIn(b) == {m.call : m \in b}

Init ==
  /\ open = TRUE
  /\ taken = {}
  /\ pending = [c \in Clients |-> {}]
  /\ heard = {}
  /\ lost = {}

\* The messages b leave client c together: the listener hears all of their ids,
\* or nobody listens and all of them are lost.
Leave(c, b) ==
  /\ pending' = [pending EXCEPT ![c] = {}]
  /\ \/ open /\ heard' = heard \cup {<<c, m.id>> : m \in b} /\ UNCHANGED lost
     \/ ~ open /\ lost' = lost \cup CallsIn(b) /\ UNCHANGED heard

\* A new message waits with the others, or makes them all leave.
Accept(c, k) ==
  /\ k \notin taken
  /\ taken' = taken \cup {k}
  /\ \E id \in Ids :
       LET b == pending[c] \cup {[call |-> k, id |-> id]}
       IN \/ pending' = [pending EXCEPT ![c] = b] /\ UNCHANGED <<heard, lost>>
          \/ Leave(c, b)
  /\ UNCHANGED open

\* What waits leaves by itself.
Send(c) ==
  /\ pending[c] # {}
  /\ Leave(c, pending[c])
  /\ UNCHANGED <<open, taken>>

\* What waits is heard and waits on.
Copy(c) ==
  /\ open
  /\ heard' = heard \cup {<<c, m.id>> : m \in pending[c]}
  /\ UNCHANGED <<open, taken, pending, lost>>

\* What waits is given up.
Drop(c) ==
  /\ pending' = [pending EXCEPT ![c] = {}]
  /\ lost' = lost \cup CallsIn(pending[c])
  /\ UNCHANGED <<open, taken, heard>>

\* Nobody listens any more, and what waits is given up.
Close ==
  /\ open' = FALSE
  /\ pending' = [c \in Clients |-> {}]
  /\ lost' = lost \cup UNION {CallsIn(pending[c]) : c \in Clients}
  /\ UNCHANGED <<taken, heard>>

Next ==
  \/ \E c \in Clients : \/ \E k \in Calls : Accept(c, k)
                        \/ Send(c) \/ Copy(c) \/ Drop(c)
  \/ Close

Spec == Init /\ [][Next]_vars

\* Nothing waits for ever.
FairSpec == Spec /\ \A c \in Clients : WF_vars(Send(c))
=============================================================================
