------------------------------ MODULE AgentLoop ------------------------------
(***************************************************************************)
(* The agent's loop() over its UDP sockets (src/src/SNMP_Embedded.cpp),    *)
(* around the inform queue of InformQueue: which socket a call serves, and *)
(* which datagrams make it return before the pass over the queue.          *)
(*                                                                         *)
(* A socket is its place in _udp[].  At most one datagram waits in a       *)
(* socket: a longer queue would be one that Arrive fills again.            *)
(***************************************************************************)
EXTENDS InformQueue

CONSTANT MaxUdp   \* SNMP_MAX_UDP_PER_AGENT

ASSUME LoopAssumption == MaxUdp \in Nat \ {0}

Nothing == [kind |-> "nothing", id |-> 0]

\* What may wait in a socket.  "refused" is a datagram longer than the packet
\* buffer, or one of which read() returns less than parsePacket() promised;
\* "request" is any other that is not a Response PDU.  Only a manager that has
\* received an inform answers it, but as late and as often as it likes.
Datagrams ==
  {[kind |-> k, id |-> 0] : k \in {"request", "refused"}} \cup
  {[kind |-> "response", id |-> id] : id \in onWire}

VARIABLES
  udpCount,   \* sockets 1..udpCount are registered
  bound,      \* the sockets whose last begin() succeeded
  inbox       \* inbox[s]: the datagram that waits in socket s, or Nothing

sockets == <<udpCount, bound, inbox>>
loopVars == <<vars, sockets>>

LoopInit ==
  /\ Init
  /\ udpCount = 0
  /\ bound = {}
  /\ inbox = [s \in 1 .. MaxUdp |-> Nothing]

-----------------------------------------------------------------------------
(* The sketch's calls and the network                                       *)

\* stop() and begin() of the first n sockets: what waited there is lost, and
\* each begin() may fail
RestartFirst(n) ==
  /\ bound' \in SUBSET (1 .. n)
  /\ inbox' = [s \in DOMAIN inbox |-> Nothing]
  /\ UNCHANGED vars

restartUDP == RestartFirst(udpCount) /\ UNCHANGED udpCount

\* Mutant: sockets are registered beyond the last slot.
setUDPUnchecked == udpCount' = udpCount + 1 /\ RestartFirst(udpCount')

\* a socket beyond the last slot is not registered, but all are restarted
setUDP ==
  /\ udpCount' = IF udpCount < MaxUdp THEN udpCount + 1 ELSE udpCount
  /\ RestartFirst(udpCount')

stop ==
  /\ bound' = {}
  /\ inbox' = [s \in DOMAIN inbox |-> Nothing]
  /\ UNCHANGED <<vars, udpCount>>

Arrive(s) ==
  /\ s \in bound
  /\ inbox[s] = Nothing
  /\ \E d \in Datagrams : inbox' = [inbox EXCEPT ![s] = d]
  /\ UNCHANGED <<vars, udpCount, bound>>

\* sendTrapTo(), markTrapDeleted() and time do not touch the sockets
Elsewhere ==
  /\ \/ \E t \in Traps : SendTrapTo(t) \/ MarkTrapDeleted(t)
     \/ Tick
  /\ UNCHANGED sockets

-----------------------------------------------------------------------------
(* loop()                                                                   *)

Waiting == {s \in 1 .. udpCount : inbox[s] # Nothing}

\* Mutant: the sockets are scanned from the last one.
FirstFromLast(s) == s \in Waiting /\ \A other \in Waiting : other <= s

\* the socket at which the scan over _udp[] stops
First(s) == s \in Waiting /\ \A other \in Waiting : s <= other

Take(s) ==
  /\ First(s)
  /\ inbox' = [inbox EXCEPT ![s] = Nothing]
  /\ UNCHANGED <<udpCount, bound>>

\* a Response PDU for an inform that is still open
Answers(d) == d.kind = "response" /\ Pending(d.id)

LoopNoPacket == Waiting = {} /\ LoopQuiet /\ UNCHANGED sockets

\* Mutant: the response is returned before the pass over the queue.
LoopServesOnly(s) ==
  /\ acking = 0
  /\ Take(s)
  /\ inbox[s].kind # "refused"
  /\ ~Answers(inbox[s])
  /\ UNCHANGED vars

\* the packet is handled and its response sent; then the pass over the queue
LoopServes(s) ==
  /\ Take(s)
  /\ inbox[s].kind # "refused"
  /\ ~Answers(inbox[s])
  /\ LoopQuiet

\* the ack callback starts; LoopAcknowledge is the rest of this call of loop()
LoopAnswered(s) ==
  /\ Take(s)
  /\ Answers(inbox[s])
  /\ LoopResponse(inbox[s].id)

\* SNMP_REQUEST_TOO_LARGE, SNMP_REQUEST_INVALID: no pass over the queue
LoopRefuses(s) ==
  /\ acking = 0
  /\ Take(s)
  /\ inbox[s].kind = "refused"
  /\ UNCHANGED vars

loop ==
  \/ LoopNoPacket
  \/ \E s \in 1 .. udpCount : LoopServes(s) \/ LoopAnswered(s) \/ LoopRefuses(s)

CallbackReturns == LoopAcknowledge /\ UNCHANGED sockets

TimePasses == Tick /\ UNCHANGED sockets

LoopNext ==
  \/ restartUDP \/ setUDP \/ stop
  \/ \E s \in bound : Arrive(s)
  \/ Elsewhere
  \/ loop
  \/ CallbackReturns

\* The sketch calls loop() for ever, its callback returns, and time passes.
\* Nothing else has to happen: no send, no answer, no datagram.
LoopSpec ==
  /\ LoopInit /\ [][LoopNext]_loopVars
  /\ WF_loopVars(loop)
  /\ WF_loopVars(CallbackReturns)
  /\ WF_loopVars(TimePasses)

-----------------------------------------------------------------------------
LoopTypeOK ==
  /\ TypeOK
  /\ udpCount \in 0 .. MaxUdp
  /\ bound \subseteq 1 .. udpCount
  /\ \A s \in 1 .. MaxUdp :
       /\ inbox[s] # Nothing => s \in bound
       /\ inbox[s] \in Datagrams \cup {Nothing}

\* From some moment on no refused datagram waits in a socket.
RefusalsCease == <>[](\A s \in 1 .. MaxUdp : inbox[s].kind # "refused")

\* Every inform is settled, whatever the traffic of well-formed packets, the
\* restarts of sockets and the silence of managers, once the datagrams that
\* make loop() return before its pass over the queue cease to come.
InformsSettleInTraffic == RefusalsCease => EveryInformSettles

\* The scan over _udp[] serves one packet per call and always from the front:
\* a datagram in any socket is taken, once the sockets before it fall silent.
EverySocketIsServed ==
  \A s \in 1 .. MaxUdp :
    <>[](\A before \in 1 .. s - 1 : inbox[before] = Nothing)
      => []<>(inbox[s] = Nothing)
=============================================================================
