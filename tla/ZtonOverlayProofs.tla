--------------------------- MODULE ZtonOverlayProofs --------------------------
(***************************************************************************)
(* Proofs about ZtonOverlay for every set of devices, every policy, every  *)
(* choice of faults and every bound.                                       *)
(***************************************************************************)
EXTENDS ZtonOverlay, FiniteSetTheorems, TLAPS

USE PolicyAssumption, BoundAssumption

\* Every packet in flight is one of the six kinds that the code builds.
Packet == ToHub \cup ToNode

LEMMA DeliverType ==
    ASSUME TypeOK, NEW m, NEW out, out \subseteq Packet, Deliver(m, out)
    PROVE  net' \subseteq Packet /\ faults' \in Nat
  BY DEF TypeOK, Deliver, Fault, Packet

LEMMA AnswerType ==
    ASSUME TypeOK, NEW m, NEW out, out \subseteq Packet, Answer(m, out)
    PROVE  net' \subseteq Packet /\ faults' \in Nat /\ listening' \in BOOLEAN
  <1>1. net' \subseteq Packet /\ faults' \in Nat
    BY DEF TypeOK, Answer, Deliver, Fault, Packet
  <1>2. listening' \in BOOLEAN
    BY Zenon DEF TypeOK, Answer
  <1> QED BY <1>1, <1>2

\* The packets a node receives and the packets the hub receives are typed.
LEMMA AtHubType ==
    ASSUME TypeOK, NEW d, NEW m, ArrivesAtHub(d, m)
    PROVE  /\ m \in ToHub
           /\ m.dev = d /\ m.port \in Nat
           /\ m.type = "DATA" => /\ m.seq \in 1 .. MaxSend
                                 /\ m.nonce \in Nat
                                 /\ m.target \in Target
  BY DEF TypeOK, ArrivesAtHub, ToHub, ToNode

THEOREM TypeCorrect == Spec => []TypeOK
<1>1. Init => TypeOK
  BY DEF Init, TypeOK
<1>2. TypeOK /\ [Next]_vars => TypeOK'
  <2> SUFFICES ASSUME TypeOK, [Next]_vars PROVE TypeOK'
    OBVIOUS
  <2>1. ASSUME NEW d \in Device, Register(d) PROVE TypeOK'
    <3>1. Hello(d) \in Packet
      BY DEF TypeOK, Hello, Packet, ToHub
    <3> QED
      BY <2>1, <3>1 DEF TypeOK, Register, cryptVars, countVars, hubVars,
         peerVars, logVars, Packet
  <2>2. ASSUME NEW d \in Device, NEW target \in Target, SendData(d, target)
        PROVE TypeOK'
    <3> DEFINE nonce == IF hasSession[d] THEN sendSeq[d] + 1 ELSE 1
               seq   == sequence[d] + 1
    <3>1. nonce \in Nat /\ seq \in 1 .. MaxSend /\ seq \in Nat
      BY <2>2 DEF TypeOK, SendData
    <3>2. Data(d, seq, nonce, target) \in Packet
      BY <3>1 DEF TypeOK, Data, Packet, ToHub
    <3> HIDE DEF nonce, seq
    <3>3. /\ sequence' = [sequence EXCEPT ![d] = seq]
          /\ sendSeq' = [sendSeq EXCEPT ![d] = nonce]
          /\ net' = net \cup {Data(d, seq, nonce, target)}
      BY <2>2 DEF SendData, nonce, seq
    <3>4. /\ hasSession' \in [Device -> BOOLEAN]
          /\ recvHigh' \in [Device -> Nat \cup {-1}]
          /\ sending' \in [Device -> BOOLEAN]
      BY <2>2 DEF TypeOK, SendData
    <3> QED
      BY <2>2, <3>1, <3>2, <3>3, <3>4 DEF TypeOK, SendData, linkVars, hubVars,
         peerVars, logVars, Packet
  <2>3. ASSUME NEW d \in Device, SendRecorded(d) PROVE TypeOK'
    BY <2>3 DEF TypeOK, SendRecorded, linkVars, cryptVars, hubVars, peerVars,
       logVars
  <2>4. ASSUME NEW d \in Device, TimerFires(d) PROVE TypeOK'
    BY <2>4 DEF TypeOK, TimerFires, linkVars, cryptVars, hubVars, peerVars,
       logVars
  <2>5. ASSUME NEW d \in Device, NewSession(d) PROVE TypeOK'
    BY <2>5 DEF TypeOK, NewSession, countVars, hubVars, peerVars, logVars
  <2>6. ASSUME NEW d \in Device, RestartNode(d) PROVE TypeOK'
    BY <2>6 DEF TypeOK, RestartNode, Fault, hubVars, peerVars, logVars
  <2>7. ASSUME NEW d \in Device, NEW m \in net, RecvHelloAck(d, m) PROVE TypeOK'
    <3>1. net' \subseteq Packet /\ faults' \in Nat
      BY <2>7, DeliverType DEF RecvHelloAck
    <3> QED
      BY <2>7, <3>1 DEF TypeOK, RecvHelloAck, cryptVars, countVars, hubVars,
         peerVars, logVars, Packet
  <2>8. ASSUME NEW d \in Device, NEW m \in net, RecvDeny(d, m) PROVE TypeOK'
    <3>1. net' \subseteq Packet /\ faults' \in Nat
      BY <2>8, DeliverType DEF RecvDeny
    <3> QED
      BY <2>8, <3>1 DEF TypeOK, RecvDeny, linkVars, cryptVars, hubVars,
         peerVars, logVars, Packet
  <2>9. ASSUME NEW d \in Device, NEW m \in net, RecvForward(d, m) PROVE TypeOK'
    <3>1. net' \subseteq Packet /\ faults' \in Nat
      BY <2>9, DeliverType DEF RecvForward
    <3>2. m.key \in Device /\ m.seq \in 1 .. MaxSend
      BY <2>9 DEF TypeOK, RecvForward, ToHub, ToNode
    <3>3. [to |-> d, from |-> m.key, seq |-> m.seq]
              \in [to : Device, from : Device, seq : 1 .. MaxSend]
      BY <3>2
    <3>4. unopened' \subseteq [to : Device, from : Device, seq : 1 .. MaxSend]
      BY <2>9, <3>3 DEF TypeOK, RecvForward
    <3>5. recvHigh' \in [Device -> Nat \cup {-1}]
      BY <2>9, <3>2 DEF TypeOK, RecvForward
    <3> QED
      BY <2>9, <3>1, <3>4, <3>5 DEF TypeOK, RecvForward, linkVars, countVars,
         hubVars, peerVars, logVars, Packet
  <2>10. ASSUME NEW d \in Device, NEW m \in net, HubHandleHello(d, m)
         PROVE  TypeOK'
    <3>1. m.dev = d /\ m.port \in Nat
      BY <2>10, AtHubType DEF HubHandleHello
    <3>2. HelloAck(m, session[d] + 1) \in Packet
      BY <3>1 DEF TypeOK, HelloAck, Packet, ToNode
    <3>3. net' \subseteq Packet /\ faults' \in Nat /\ listening' \in BOOLEAN
      BY <2>10, <3>2, AnswerType DEF HubHandleHello
    <3> QED
      BY <2>10, <3>1, <3>3 DEF TypeOK, HubHandleHello, nodeVars, linkVars,
         cryptVars, countVars, logVars, Packet
  <2>11. ASSUME NEW d \in Device, NEW m \in net, HubDenies(d, m) PROVE TypeOK'
    <3>1. m.dev = d /\ m.port \in Nat
      BY <2>11, AtHubType DEF HubDenies
    <3>2. Deny(m) \in Packet
      BY <3>1 DEF Deny, Packet, ToNode
    <3>3. net' \subseteq Packet /\ faults' \in Nat /\ listening' \in BOOLEAN
      BY <2>11, <3>2, AnswerType DEF HubDenies
    <3> QED
      BY <2>11, <3>3 DEF TypeOK, HubDenies, nodeVars, linkVars, cryptVars,
         countVars, peerVars, logVars, Packet
  <2>12. ASSUME NEW d \in Device, NEW m \in net, HubDrops(d, m) PROVE TypeOK'
    <3>1. net' \subseteq Packet /\ faults' \in Nat
      BY <2>12, DeliverType DEF HubDrops
    <3> QED
      BY <2>12, <3>1 DEF TypeOK, HubDrops, nodeVars, linkVars, cryptVars,
         countVars, hubVars, peerVars, logVars, Packet
  <2>13. ASSUME NEW d \in Device, NEW m \in net, HubAccepts(d, m) PROVE TypeOK'
    <3>1. /\ m.dev = d /\ m.seq \in 1 .. MaxSend
          /\ m.nonce \in Nat /\ m.target \in Target
      BY <2>13, AtHubType DEF HubAccepts
    <3>2. Forwards(m) \subseteq Packet
      BY <3>1 DEF TypeOK, Forwards, Forward, Packet, ToNode, Target
    <3>3. net' \subseteq Packet /\ faults' \in Nat /\ listening' \in BOOLEAN
      BY <2>13, <3>2, AnswerType DEF HubAccepts
    <3>4. [dev |-> d, session |-> session[d], seq |-> m.seq,
           foreign |-> m.port # peerPort[d]]
              \in [dev : Device, session : Nat, seq : 1 .. MaxSend,
                   foreign : BOOLEAN]
      BY <3>1 DEF TypeOK
    <3>5. accepted' \subseteq [dev : Device, session : Nat, seq : 1 .. MaxSend,
                               foreign : BOOLEAN]
      BY <2>13, <3>4 DEF TypeOK, HubAccepts
    <3>6. hubHigh' \in [Device -> Nat \cup {-1}]
      BY <2>13, <3>1 DEF TypeOK, HubAccepts
    <3> QED
      BY <2>13, <3>3, <3>5, <3>6 DEF TypeOK, HubAccepts, nodeVars, linkVars,
         cryptVars, countVars, Packet
  <2>14. ASSUME NEW d \in Device, NEW m \in net, HubRejects(d, m) PROVE TypeOK'
    <3>1. m.dev = d /\ m.port \in Nat
      BY <2>14, AtHubType DEF HubRejects
    <3>2. Deny(m) \in Packet
      BY <3>1 DEF Deny, Packet, ToNode
    <3> QED
      BY <2>14, <3>2 DEF TypeOK, HubRejects, Fault, nodeVars, linkVars,
         cryptVars, countVars, hubVars, peerVars, logVars, Packet
  <2>15. ASSUME NEW m \in net, Lose(m) PROVE TypeOK'
    BY <2>15 DEF TypeOK, Lose, Fault, nodeVars, linkVars, cryptVars, countVars,
       hubVars, peerVars, logVars
  <2>16. ASSUME RestartHub PROVE TypeOK'
    BY <2>16 DEF TypeOK, RestartHub, Fault, nodeVars, linkVars, cryptVars,
       countVars, logVars
  <2>17. ASSUME UNCHANGED vars PROVE TypeOK'
    BY <2>17 DEF TypeOK, vars, nodeVars, linkVars, cryptVars, countVars,
       hubVars, peerVars, logVars
  <2> QED
    BY <2>1, <2>2, <2>3, <2>4, <2>5, <2>6, <2>7, <2>8, <2>9, <2>10, <2>11,
       <2>12, <2>13, <2>14, <2>15, <2>16, <2>17
       DEF Next, NodeReceives, HubReceives
<1> QED
  BY <1>1, <1>2, PTL DEF Spec

-------------------------------------------------------------------------------
(***************************************************************************)
(* Sessions of the hub.  The high-water mark of an open session is at      *)
(* least every number accepted in it, and no session is from the future:   *)
(* so a packet above the mark is new, and a new session starts empty.      *)
(***************************************************************************)
SessionInv ==
    /\ \A a \in accepted : a.session <= session[a.dev]
    /\ \A d \in peers : \A a \in accepted :
          a.dev = d /\ a.session = session[d] => a.seq <= hubHigh[d]
    /\ IsFiniteSet(accepted)
    /\ AtMostOncePerSession

\* All other actions leave the sessions of the hub alone.
LEMMA SessionSteps ==
    ASSUME [Next]_vars
    PROVE  \/ UNCHANGED <<peers, hubHigh, session, accepted, nAccepted>>
           \/ \E d \in Device : \E m \in net :
                 HubHandleHello(d, m) \/ HubAccepts(d, m)
           \/ RestartHub
  <1> DEFINE Same == UNCHANGED <<peers, hubHigh, session, accepted, nAccepted>>
  <1>1. ASSUME NEW d \in Device PROVE Register(d) => Same
    BY DEF Register, hubVars, peerVars, logVars
  <1>2. ASSUME NEW d \in Device, NEW target \in Target
        PROVE  SendData(d, target) => Same
    BY DEF SendData, hubVars, peerVars, logVars
  <1>3. ASSUME NEW d \in Device
        PROVE  SendRecorded(d) \/ TimerFires(d) \/ NewSession(d) => Same
    BY DEF SendRecorded, TimerFires, NewSession, hubVars, peerVars, logVars
  <1>4. ASSUME NEW d \in Device PROVE RestartNode(d) => Same
    BY DEF RestartNode, hubVars, peerVars, logVars
  <1>5. ASSUME NEW d \in Device, NEW m \in net
        PROVE  NodeReceives(d, m) => Same
    BY DEF NodeReceives, RecvHelloAck, RecvDeny, RecvForward, hubVars,
       peerVars, logVars
  <1>6. ASSUME NEW d \in Device, NEW m \in net
        PROVE  HubDenies(d, m) \/ HubDrops(d, m) \/ HubRejects(d, m) => Same
    BY DEF HubDenies, HubDrops, HubRejects, hubVars, peerVars, logVars
  <1>7. ASSUME NEW m \in net PROVE Lose(m) => Same
    BY DEF Lose, hubVars, peerVars, logVars
  <1>8. UNCHANGED vars => Same
    BY DEF vars, hubVars, peerVars, logVars
  <1> QED
    BY <1>1, <1>2, <1>3, <1>4, <1>5, <1>6, <1>7, <1>8 DEF Next, HubReceives

\* What HubAccepts logs was not there before.
LEMMA AcceptsNew ==
    ASSUME TypeOK, SessionInv, NEW d \in Device, NEW m, HubAccepts(d, m)
    PROVE  LET new == [dev |-> d, session |-> session[d], seq |-> m.seq,
                       foreign |-> m.port # peerPort[d]]
           IN  /\ accepted' = accepted \cup {new}
               /\ m.seq \in 1 .. MaxSend
               /\ d \in peers
               /\ \A a \in accepted : a.dev = d /\ a.session = session[d]
                      => a.seq < m.seq
  <1>1. m.seq \in 1 .. MaxSend
    BY AtHubType DEF HubAccepts
  <1>2. d \in peers /\ m.seq > hubHigh[d] /\ hubHigh[d] \in Int
    BY DEF HubAccepts, Acceptable, TypeOK
  <1>3. ASSUME NEW a \in accepted, a.dev = d, a.session = session[d]
        PROVE  a.seq < m.seq
    <2>1. a.seq <= hubHigh[d] /\ a.seq \in Int
      BY <1>2, <1>3 DEF SessionInv, TypeOK
    <2> QED BY <1>1, <1>2, <2>1
  <1> QED BY <1>1, <1>2, <1>3 DEF HubAccepts

LEMMA SessionInvInit == Init => SessionInv
  BY FS_EmptySet DEF Init, SessionInv, AtMostOncePerSession

LEMMA SessionInvNext == TypeOK /\ SessionInv /\ [Next]_vars => SessionInv'
  <1> SUFFICES ASSUME TypeOK, SessionInv, [Next]_vars PROVE SessionInv'
    OBVIOUS
  <1>1. CASE UNCHANGED <<peers, hubHigh, session, accepted, nAccepted>>
    BY <1>1 DEF SessionInv, AtMostOncePerSession
  <1>2. ASSUME NEW d \in Device, NEW m \in net, HubHandleHello(d, m)
        PROVE  SessionInv'
    <2>1. UNCHANGED <<accepted, nAccepted>>
      BY <1>2 DEF HubHandleHello, logVars
    <2>2. session' = [session EXCEPT ![d] = @ + 1] /\ session[d] \in Nat
      BY <1>2 DEF HubHandleHello, TypeOK
    <2>3. \A a \in accepted : a.dev \in Device /\ a.session \in Nat
      BY DEF TypeOK
    <2>4. \A a \in accepted : a.session <= session'[a.dev]
      BY <2>2, <2>3 DEF SessionInv, TypeOK
    <2>5. \A a \in accepted : a.dev = d => a.session # session'[d]
      BY <2>2, <2>3 DEF SessionInv, TypeOK
    <2>6. peers' = peers \cup {d} /\ \A e \in Device \ {d} :
             session'[e] = session[e] /\ hubHigh'[e] = hubHigh[e]
      BY <1>2, <2>2 DEF HubHandleHello, TypeOK
    <2>7. \A e \in peers' : \A a \in accepted :
             a.dev = e /\ a.session = session'[e] => a.seq <= hubHigh'[e]
      BY <2>5, <2>6 DEF SessionInv, TypeOK
    <2> QED
      BY <2>1, <2>4, <2>7 DEF SessionInv, AtMostOncePerSession
  <1>3. ASSUME NEW d \in Device, NEW m \in net, HubAccepts(d, m)
        PROVE  SessionInv'
    <2> DEFINE new == [dev |-> d, session |-> session[d], seq |-> m.seq,
                       foreign |-> m.port # peerPort[d]]
    <2>1. /\ accepted' = accepted \cup {new}
          /\ m.seq \in 1 .. MaxSend
          /\ \A a \in accepted : a.dev = d /\ a.session = session[d]
                 => a.seq < m.seq
      BY <1>3, AcceptsNew
    <2>2. new.dev = d /\ new.session = session[d] /\ new.seq = m.seq
      OBVIOUS
    <2>3. /\ UNCHANGED <<peers, session>>
          /\ nAccepted' = nAccepted + 1
          /\ hubHigh' = [hubHigh EXCEPT ![d] = m.seq]
      BY <1>3 DEF HubAccepts
    <2>4. new \notin accepted
      BY <2>1, <2>2
    <2> HIDE DEF new
    <2>5. IsFiniteSet(accepted') /\ Cardinality(accepted') = nAccepted'
      BY <2>1, <2>3, <2>4, FS_AddElement DEF SessionInv, AtMostOncePerSession
    <2>6. \A a, b \in accepted' :
             a.dev = b.dev /\ a.session = b.session /\ a.seq = b.seq => a = b
      <3>1. \A a \in accepted : ~(a.dev = new.dev /\ a.session = new.session
                                     /\ a.seq = new.seq)
        BY <2>1, <2>2
      <3> QED
        BY <2>1, <3>1 DEF SessionInv, AtMostOncePerSession
    <2>7. \A a \in accepted' : a.session <= session'[a.dev]
      BY <2>1, <2>2, <2>3 DEF SessionInv, TypeOK
    <2>8. \A e \in peers' : \A a \in accepted' :
             a.dev = e /\ a.session = session'[e] => a.seq <= hubHigh'[e]
      <3> SUFFICES ASSUME NEW e \in peers, NEW a \in accepted',
                          a.dev = e, a.session = session[e]
                   PROVE  a.seq <= hubHigh'[e]
        BY <2>3
      <3>1. CASE e = d
        <4>1. hubHigh'[e] = m.seq /\ m.seq \in Int
          BY <2>1, <2>3, <3>1 DEF TypeOK
        <4>2. CASE a = new
          BY <2>1, <2>2, <4>1, <4>2
        <4>3. CASE a \in accepted
          <5>1. a.seq < m.seq /\ a.seq \in Int
            BY <2>1, <3>1, <4>3 DEF TypeOK
          <5> QED BY <4>1, <5>1
        <4> QED BY <2>1, <4>2, <4>3
      <3>2. CASE e # d
        <4>1. a \in accepted
          BY <2>1, <2>2, <3>2
        <4>2. hubHigh'[e] = hubHigh[e]
          BY <2>3, <3>2 DEF TypeOK
        <4> QED BY <4>1, <4>2 DEF SessionInv
      <3> QED BY <3>1, <3>2
    <2> QED
      BY <2>5, <2>6, <2>7, <2>8 DEF SessionInv, AtMostOncePerSession
  <1>4. CASE RestartHub
    <2>1. peers' = {} /\ UNCHANGED <<session, accepted, nAccepted>>
      BY <1>4 DEF RestartHub, logVars
    <2> QED BY <2>1 DEF SessionInv, AtMostOncePerSession
  <1> QED BY <1>1, <1>2, <1>3, <1>4, SessionSteps

THEOREM SessionsCorrect == Spec => []SessionInv
<1>1. TypeOK /\ SessionInv /\ [Next]_vars => SessionInv'
  BY SessionInvNext
<1> QED BY <1>1, SessionInvInit, TypeCorrect, PTL DEF Spec

\* Whatever the network repeats or reorders, and however often the hub and the
\* nodes restart, a session of the hub accepts a number at most once.
THEOREM AtMostOnce == Spec => []AtMostOncePerSession
<1>1. SessionInv => AtMostOncePerSession
  BY DEF SessionInv
<1> QED BY <1>1, SessionsCorrect, PTL

-------------------------------------------------------------------------------
\* The high-water mark, reset by every HELLO and lost at every restart of the
\* hub, implements delivery in increasing order within each session.
THEOREM ImplementsDelivery == Spec => DeliverySpec
<1>1. Init => Delivery!Init
  BY DEF Init, Delivery!Init, Taken
<1>2. TypeOK /\ SessionInv /\ [Next]_vars
          => [Delivery!Next]_<<peers, session, Taken>>
  <2> SUFFICES ASSUME TypeOK, SessionInv, [Next]_vars
               PROVE  [Delivery!Next]_<<peers, session, Taken>>
    OBVIOUS
  <2>1. CASE UNCHANGED <<peers, hubHigh, session, accepted, nAccepted>>
    BY <2>1 DEF Taken
  <2>2. ASSUME NEW d \in Device, NEW m \in net, HubHandleHello(d, m)
        PROVE  Delivery!Open(d)
    BY <2>2 DEF HubHandleHello, logVars, Delivery!Open, Taken
  <2>3. ASSUME NEW d \in Device, NEW m \in net, HubAccepts(d, m)
        PROVE  m.seq \in 1 .. MaxSend /\ Delivery!Take(d, m.seq)
    <3> DEFINE new == [dev |-> d, session |-> session[d], seq |-> m.seq,
                       foreign |-> m.port # peerPort[d]]
    <3>1. /\ accepted' = accepted \cup {new}
          /\ m.seq \in 1 .. MaxSend
          /\ d \in peers
          /\ \A a \in accepted : a.dev = d /\ a.session = session[d]
                 => a.seq < m.seq
      BY <2>3, AcceptsNew
    <3>2. \A t \in Taken :
             t.dev = d /\ t.session = session[d] => t.seq < m.seq
      BY <3>1 DEF Taken
    <3>3. Taken' = Taken
             \cup {[dev |-> d, session |-> session[d], seq |-> m.seq]}
      <4>1. new.dev = d /\ new.session = session[d] /\ new.seq = m.seq
        OBVIOUS
      <4>2. accepted' = accepted \cup {new}
        BY <3>1
      <4> HIDE DEF new
      <4> QED BY <4>1, <4>2 DEF Taken
    <3>4. UNCHANGED <<peers, session>>
      BY <2>3 DEF HubAccepts
    <3> QED BY <3>1, <3>2, <3>3, <3>4 DEF Delivery!Take
  <2>4. CASE RestartHub
    BY <2>4 DEF RestartHub, logVars, Delivery!Next, Delivery!Forget, Taken
  <2> QED BY <2>1, <2>2, <2>3, <2>4, SessionSteps DEF Delivery!Next
<1> QED
  BY <1>1, <1>2, TypeCorrect, SessionsCorrect, PTL
     DEF Spec, DeliverySpec, Delivery!Spec

-------------------------------------------------------------------------------
(***************************************************************************)
(* Verdicts of a node: the threads that send, receive and time out share   *)
(* one flag, and every step moves at most the one open verdict.            *)
(***************************************************************************)
VerdictInv == VerdictsBounded /\ PendingHasTimer

\* All other actions leave the counters and timers of the nodes alone.
LEMMA VerdictSteps ==
    ASSUME [Next]_vars
    PROVE  \/ UNCHANGED <<pending, timers, sent, okCount, denyCount, denials>>
           \/ \E d \in Device :
                 \/ SendRecorded(d) \/ TimerFires(d) \/ RestartNode(d)
                 \/ \E m \in net : RecvDeny(d, m)
  <1> DEFINE Same ==
        UNCHANGED <<pending, timers, sent, okCount, denyCount, denials>>
  <1>1. ASSUME NEW d \in Device PROVE Register(d) \/ NewSession(d) => Same
    BY DEF Register, NewSession, countVars
  <1>2. ASSUME NEW d \in Device, NEW target \in Target
        PROVE  SendData(d, target) => Same
    BY DEF SendData
  <1>3. ASSUME NEW d \in Device, NEW m \in net
        PROVE  RecvHelloAck(d, m) \/ RecvForward(d, m) => Same
    BY DEF RecvHelloAck, RecvForward, countVars
  <1>4. ASSUME NEW d \in Device, NEW m \in net
        PROVE  HubReceives(d, m) \/ HubRejects(d, m) => Same
    BY DEF HubReceives, HubHandleHello, HubDenies, HubDrops, HubAccepts,
       HubRejects, nodeVars, countVars
  <1>5. ASSUME NEW m \in net PROVE Lose(m) => Same
    BY DEF Lose, nodeVars, countVars
  <1>6. RestartHub \/ UNCHANGED vars => Same
    BY DEF RestartHub, vars, nodeVars, countVars
  <1> QED
    BY <1>1, <1>2, <1>3, <1>4, <1>5, <1>6 DEF Next, NodeReceives

LEMMA VerdictInvNext == TypeOK /\ VerdictInv /\ [Next]_vars => VerdictInv'
  <1> SUFFICES ASSUME TypeOK, VerdictInv, [Next]_vars PROVE VerdictInv'
    OBVIOUS
  <1> USE DEF VerdictInv, VerdictsBounded, PendingHasTimer
  <1>1. CASE UNCHANGED <<pending, timers, sent, okCount, denyCount, denials>>
    BY <1>1
  <1>2. ASSUME NEW d \in Device, SendRecorded(d) PROVE VerdictInv'
    BY <1>2 DEF SendRecorded, TypeOK
  <1>3. ASSUME NEW d \in Device, TimerFires(d) PROVE VerdictInv'
    BY <1>3 DEF TimerFires, TypeOK
  <1>4. ASSUME NEW d \in Device, RestartNode(d) PROVE VerdictInv'
    BY <1>4 DEF RestartNode, TypeOK
  <1>5. ASSUME NEW d \in Device, NEW m \in net, RecvDeny(d, m)
        PROVE  VerdictInv'
    BY <1>5 DEF RecvDeny, TypeOK
  <1> QED BY <1>1, <1>2, <1>3, <1>4, <1>5, VerdictSteps

\* No order of sending, answering and timing out makes a node report more
\* verdicts on its own packets than it sent, or leaves a verdict without a
\* timer that will give it.
THEOREM VerdictsCorrect == Spec => [](VerdictsBounded /\ PendingHasTimer)
<1>1. Init => VerdictInv
  BY DEF Init, VerdictInv, VerdictsBounded, PendingHasTimer
<1>2. TypeOK /\ VerdictInv /\ [Next]_vars => VerdictInv'
  BY VerdictInvNext
<1>3. VerdictInv => VerdictsBounded /\ PendingHasTimer
  BY DEF VerdictInv
<1> QED BY <1>1, <1>2, <1>3, TypeCorrect, PTL DEF Spec

\* Every packet that still has no verdict has a timer that will give it one.
THEOREM TimersCorrect == Spec => []PendingHasTimer
  BY VerdictsCorrect, PTL

-------------------------------------------------------------------------------
(***************************************************************************)
(* Numbers and nonces.  Only SendData, NewSession and a restart move the   *)
(* two counters of a node, and only NewSession moves them apart.           *)
(***************************************************************************)
\* What a step may do to the counters of the nodes.
LEMMA CounterSteps ==
    ASSUME [Next]_vars
    PROVE  \/ UNCHANGED <<port, sequence, sendSeq>>
           \/ \E d \in Device :
                 \/ \E target \in Target : SendData(d, target)
                 \/ NewSession(d) \/ RestartNode(d)
  <1> DEFINE Same == UNCHANGED <<port, sequence, sendSeq>>
  <1>1. ASSUME NEW d \in Device
        PROVE  Register(d) \/ SendRecorded(d) \/ TimerFires(d) => Same
    BY DEF Register, SendRecorded, TimerFires, linkVars, cryptVars
  <1>2. ASSUME NEW d \in Device, NEW m \in net
        PROVE  NodeReceives(d, m) => Same
    BY DEF NodeReceives, RecvHelloAck, RecvDeny, RecvForward, linkVars,
       cryptVars
  <1>3. ASSUME NEW d \in Device, NEW m \in net
        PROVE  HubReceives(d, m) \/ HubRejects(d, m) => Same
    BY DEF HubReceives, HubHandleHello, HubDenies, HubDrops, HubAccepts,
       HubRejects, nodeVars, linkVars, cryptVars
  <1>4. ASSUME NEW m \in net PROVE Lose(m) => Same
    BY DEF Lose, nodeVars, linkVars, cryptVars
  <1>5. RestartHub \/ UNCHANGED vars => Same
    BY DEF RestartHub, vars, nodeVars, linkVars, cryptVars
  <1> QED BY <1>1, <1>2, <1>3, <1>4, <1>5 DEF Next

\* A step adds to the packets in flight only what one handler sends: no step
\* but SendData makes a DATA packet.
LEMMA DataSteps ==
    ASSUME TypeOK, [Next]_vars, NEW m \in net', m.type = "DATA"
    PROVE  \/ m \in net
           \/ \E d \in Device, target \in Target :
                 SendData(d, target) /\ m = Data(d, sequence'[d], sendSeq'[d], target)
  <1> DEFINE Old == m \in net
  <1>1. ASSUME NEW d \in Device PROVE Register(d) => Old
    BY DEF Register, Hello
  <1>2. ASSUME NEW d \in Device, NEW target \in Target, SendData(d, target)
        PROVE  Old \/ m = Data(d, sequence'[d], sendSeq'[d], target)
    BY <1>2 DEF TypeOK, SendData
  <1>3. ASSUME NEW d \in Device
        PROVE  SendRecorded(d) \/ TimerFires(d) \/ NewSession(d) => Old
    BY DEF SendRecorded, TimerFires, NewSession
  <1>4. ASSUME NEW d \in Device PROVE RestartNode(d) => Old
    BY DEF RestartNode
  <1>5. ASSUME NEW d \in Device, NEW n \in net PROVE NodeReceives(d, n) => Old
    BY DEF NodeReceives, RecvHelloAck, RecvDeny, RecvForward, Deliver
  <1>6. ASSUME NEW d \in Device, NEW n \in net PROVE HubReceives(d, n) => Old
    BY DEF HubReceives, HubHandleHello, HubDenies, HubDrops, HubAccepts, Answer,
       Deliver, HelloAck, Deny, Forwards, Forward
  <1>7. ASSUME NEW d \in Device, NEW n \in net
        PROVE  HubRejects(d, n) => Old
    BY DEF HubRejects, Deny
  <1>8. ASSUME NEW n \in net PROVE Lose(n) => Old
    BY DEF Lose
  <1>9. RestartHub \/ UNCHANGED vars => Old
    BY DEF RestartHub, vars
  <1>10. Old \/ \E d \in Device, target \in Target : SendData(d, target)
    BY <1>1, <1>3, <1>4, <1>5, <1>6, <1>7, <1>8, <1>9 DEF Next
  <1> QED BY <1>2, <1>10

LEMMA NonceNext == TypeOK /\ NonceNeverAhead /\ [Next]_vars => NonceNeverAhead'
  <1> SUFFICES ASSUME TypeOK, NonceNeverAhead, [Next]_vars
               PROVE  NonceNeverAhead'
    OBVIOUS
  <1>1. \A d \in Device : sendSeq'[d] <= sequence'[d]
    <2>1. CASE UNCHANGED <<port, sequence, sendSeq>>
      BY <2>1 DEF NonceNeverAhead
    <2>2. ASSUME NEW d \in Device, NEW target \in Target, SendData(d, target)
          PROVE  \A e \in Device : sendSeq'[e] <= sequence'[e]
      BY <2>2 DEF SendData, NonceNeverAhead, TypeOK
    <2>3. ASSUME NEW d \in Device, NewSession(d) \/ RestartNode(d)
          PROVE  \A e \in Device : sendSeq'[e] <= sequence'[e]
      BY <2>3 DEF NewSession, RestartNode, NonceNeverAhead, TypeOK
    <2> QED BY <2>1, <2>2, <2>3, CounterSteps
  <1>2. ASSUME NEW m \in net', m.type = "DATA" PROVE m.nonce <= m.seq
    <2>1. CASE m \in net
      BY <1>2, <2>1 DEF NonceNeverAhead
    <2>2. ASSUME NEW d \in Device, NEW target \in Target,
                 m = Data(d, sequence'[d], sendSeq'[d], target)
          PROVE  m.nonce <= m.seq
      BY <1>1, <2>2 DEF Data
    <2> QED BY <1>2, <2>1, <2>2, DataSteps
  <1> QED BY <1>1, <1>2 DEF NonceNeverAhead

\* The nonce of a node and of its packets is never ahead of the number.
THEOREM NonceCorrect == Spec => []NonceNeverAhead
<1>1. Init => NonceNeverAhead
  BY DEF Init, NonceNeverAhead
<1> QED BY <1>1, NonceNext, TypeCorrect, PTL DEF Spec

\* A node that has fallen behind its numbers stays behind until it restarts,
\* with every number of retries, losses and restarts of the hub.
THEOREM BehindStays == Spec => BehindForGood
<1>1. TypeOK /\ [Next]_vars =>
         [\A d \in Device :
             sendSeq[d] < sequence[d] /\ port'[d] = port[d]
                 => sendSeq'[d] < sequence'[d]]_vars
  <2> SUFFICES ASSUME TypeOK, [Next]_vars, NEW e \in Device,
                      sendSeq[e] < sequence[e], port'[e] = port[e]
               PROVE  sendSeq'[e] < sequence'[e]
    OBVIOUS
  <2>1. CASE UNCHANGED <<port, sequence, sendSeq>>
    BY <2>1
  <2>2. ASSUME NEW d \in Device, NEW target \in Target, SendData(d, target)
        PROVE  sendSeq'[e] < sequence'[e]
    BY <2>2 DEF SendData, TypeOK
  <2>3. ASSUME NEW d \in Device, NewSession(d)
        PROVE  sendSeq'[e] < sequence'[e]
    BY <2>3 DEF NewSession, TypeOK
  <2>4. ASSUME NEW d \in Device, RestartNode(d)
        PROVE  sendSeq'[e] < sequence'[e]
    BY <2>4 DEF RestartNode, TypeOK
  <2> QED BY <2>1, <2>2, <2>3, <2>4, CounterSteps
<1> QED BY <1>1, TypeCorrect, PTL DEF Spec, BehindForGood

-------------------------------------------------------------------------------
(***************************************************************************)
(* Answers of the hub.                                                     *)
(***************************************************************************)
\* Only HubHandleHello makes a HELLO_ACK, for the peer it has just stored, and
\* only HubAccepts makes a FORWARD packet, from the packet it accepts.
LEMMA AnswerSteps ==
    ASSUME TypeOK, [Next]_vars, NEW m \in net', m.type \in {"HELLO_ACK", "FORWARD"}
    PROVE  \/ m \in net
           \/ m.type = "HELLO_ACK" /\ m.to \in peers'
           \/ \E d \in Device, n \in net :
                 HubAccepts(d, n) /\ m \in Forwards(n)
  <1> DEFINE Old == m \in net
  <1>1. ASSUME NEW d \in Device PROVE Register(d) => Old
    BY DEF Register, Hello
  <1>2. ASSUME NEW d \in Device, NEW target \in Target
        PROVE  SendData(d, target) => Old
    BY DEF SendData, Data
  <1>3. ASSUME NEW d \in Device
        PROVE  SendRecorded(d) \/ TimerFires(d) \/ NewSession(d) => Old
    BY DEF SendRecorded, TimerFires, NewSession
  <1>4. ASSUME NEW d \in Device PROVE RestartNode(d) => Old
    BY DEF RestartNode
  <1>5. ASSUME NEW d \in Device, NEW n \in net PROVE NodeReceives(d, n) => Old
    BY DEF NodeReceives, RecvHelloAck, RecvDeny, RecvForward, Deliver
  <1>6. ASSUME NEW d \in Device, NEW n \in net
        PROVE  HubDenies(d, n) \/ HubDrops(d, n) \/ HubRejects(d, n) => Old
    BY DEF HubDenies, HubDrops, HubRejects, Answer, Deliver, Deny
  <1>7. ASSUME NEW d \in Device, NEW n \in net, HubHandleHello(d, n)
        PROVE  Old \/ (m.type = "HELLO_ACK" /\ m.to \in peers')
    <2>1. n.dev = d /\ d \in peers'
      BY <1>7 DEF HubHandleHello, ArrivesAtHub
    <2>2. Old \/ m = HelloAck(n, session[d] + 1)
      BY <1>7 DEF HubHandleHello, Answer, Deliver
    <2> QED BY <2>1, <2>2 DEF HelloAck
  <1>8. ASSUME NEW d \in Device, NEW n \in net, HubAccepts(d, n)
        PROVE  Old \/ m \in Forwards(n)
    BY <1>8 DEF HubAccepts, Answer, Deliver
  <1>9. ASSUME NEW n \in net PROVE Lose(n) => Old
    BY DEF Lose
  <1>10. RestartHub \/ UNCHANGED vars => Old
    BY DEF RestartHub, vars
  <1> QED
    BY <1>1, <1>2, <1>3, <1>4, <1>5, <1>6, <1>7, <1>8, <1>9, <1>10
       DEF Next, HubReceives

\* A registered node is known as long as a HELLO_ACK in flight is from a hub
\* that knows its receiver.
RegistrationInv ==
    hubLife = 0 =>
        /\ \A m \in net : m.type = "HELLO_ACK" => m.to \in peers
        /\ \A d \in Device : registered[d] => d \in peers

\* What a step may do to the peers and to the registrations.
LEMMA RegistrationSteps ==
    ASSUME TypeOK, [Next]_vars
    PROVE  \/ hubLife' # 0
           \/ /\ hubLife' = hubLife
              /\ peers \subseteq peers'
              /\ \A e \in Device : registered'[e] =>
                    \/ registered[e]
                    \/ \E m \in net : m.type = "HELLO_ACK" /\ m.to = e
  <1> DEFINE Kept == hubLife' = hubLife /\ peers \subseteq peers'
             Same == UNCHANGED <<hubLife, peers, registered>>
  <1>1. ASSUME NEW d \in Device PROVE Register(d) => Same
    BY DEF Register, hubVars, peerVars
  <1>2. ASSUME NEW d \in Device, NEW target \in Target
        PROVE  SendData(d, target) => Same
    BY DEF SendData, linkVars, hubVars, peerVars
  <1>3. ASSUME NEW d \in Device
        PROVE  SendRecorded(d) \/ TimerFires(d) \/ NewSession(d) => Same
    BY DEF SendRecorded, TimerFires, NewSession, linkVars, hubVars, peerVars
  <1>4. ASSUME NEW d \in Device, RestartNode(d)
        PROVE  Kept /\ \A e \in Device : registered'[e] => registered[e]
    BY <1>4 DEF RestartNode, hubVars, peerVars, TypeOK
  <1>5. ASSUME NEW d \in Device, NEW m \in net
        PROVE  RecvDeny(d, m) \/ RecvForward(d, m) => Same
    BY DEF RecvDeny, RecvForward, linkVars, hubVars, peerVars
  <1>6. ASSUME NEW d \in Device, NEW m \in net, RecvHelloAck(d, m)
        PROVE  /\ Kept
               /\ \A e \in Device : registered'[e] =>
                     registered[e] \/ (m.type = "HELLO_ACK" /\ m.to = e)
    BY <1>6 DEF RecvHelloAck, Arrives, hubVars, peerVars, TypeOK
  <1>7. ASSUME NEW d \in Device, NEW m \in net
        PROVE  HubDenies(d, m) \/ HubDrops(d, m) \/ HubAccepts(d, m)
               \/ HubRejects(d, m) => Same
    BY DEF HubDenies, HubDrops, HubAccepts, HubRejects, nodeVars, linkVars,
       hubVars, peerVars
  <1>8. ASSUME NEW d \in Device, NEW m \in net, HubHandleHello(d, m)
        PROVE  Kept /\ UNCHANGED registered
    BY <1>8 DEF HubHandleHello, nodeVars, linkVars
  <1>9. ASSUME NEW m \in net PROVE Lose(m) => Same
    BY DEF Lose, nodeVars, linkVars, hubVars, peerVars
  <1>10. RestartHub => hubLife' # 0
    BY DEF RestartHub, TypeOK
  <1>11. UNCHANGED vars => Same
    BY DEF vars, nodeVars, linkVars, hubVars, peerVars
  <1> QED
    BY <1>1, <1>2, <1>3, <1>4, <1>5, <1>6, <1>7, <1>8, <1>9, <1>10, <1>11
       DEF Next, NodeReceives, HubReceives

\* As long as the hub has not restarted, it has a session for every node that
\* takes itself for registered.
THEOREM RegisteredKnown == Spec => []RegisteredIsKnown
<1>1. Init => RegistrationInv
  BY DEF Init, RegistrationInv
<1>2. TypeOK /\ RegistrationInv /\ [Next]_vars => RegistrationInv'
  <2> SUFFICES ASSUME TypeOK, RegistrationInv, [Next]_vars, hubLife' = 0
               PROVE  RegistrationInv'
    BY DEF RegistrationInv
  <2>1. /\ hubLife = 0
        /\ peers \subseteq peers'
        /\ \A e \in Device : registered'[e] =>
              registered[e] \/ \E m \in net : m.type = "HELLO_ACK" /\ m.to = e
    BY RegistrationSteps
  <2>2. \A d \in Device : registered'[d] => d \in peers'
    BY <2>1 DEF RegistrationInv
  <2>3. ASSUME NEW m \in net', m.type = "HELLO_ACK" PROVE m.to \in peers'
    <3>1. ASSUME NEW n PROVE m \notin Forwards(n)
      BY <2>3 DEF Forwards, Forward
    <3> QED BY <2>1, <2>3, <3>1, AnswerSteps DEF RegistrationInv
  <2> QED BY <2>2, <2>3 DEF RegistrationInv
<1>3. RegistrationInv => RegisteredIsKnown
  BY DEF RegistrationInv, RegisteredIsKnown
<1> QED BY <1>1, <1>2, <1>3, TypeCorrect, PTL DEF Spec

\* No device that the policy refuses is ever accepted, and nothing is forwarded
\* off a permitted route, for every policy.
THEOREM PolicyCorrect == Spec => []PolicyHolds
<1>1. Init => PolicyHolds
  BY DEF Init, PolicyHolds
<1>2. TypeOK /\ PolicyHolds /\ [Next]_vars => PolicyHolds'
  <2> SUFFICES ASSUME TypeOK, PolicyHolds, [Next]_vars PROVE PolicyHolds'
    OBVIOUS
  <2> DEFINE May(d) == d \in Policy.authorized \ Policy.blocked
  <2>1. ASSUME NEW a \in accepted' PROVE May(a.dev)
    <3>1. CASE UNCHANGED accepted
      BY <3>1 DEF PolicyHolds
    <3>2. ASSUME NEW d \in Device, NEW m \in net, HubAccepts(d, m)
          PROVE  May(a.dev)
      BY <3>2 DEF HubAccepts, CanForward, CanSend, PolicyHolds
    <3> QED
      BY <3>1, <3>2, SessionSteps DEF HubHandleHello, RestartHub, logVars
  <2>2. ASSUME NEW m \in net', m.type = "FORWARD"
        PROVE  m.to \in Policy.routes[m.key] /\ May(m.key) /\ May(m.to)
    <3>1. CASE m \in net
      BY <2>2, <3>1 DEF PolicyHolds
    <3>2. ASSUME NEW d \in Device, NEW n \in net, HubAccepts(d, n),
                 m \in Forwards(n)
          PROVE  m.to \in Policy.routes[m.key] /\ May(m.key) /\ May(m.to)
      <4>1. m = Forward(n) /\ n.target \in Device /\ May(n.target)
        BY <3>2 DEF Forwards, CanSend, TypeOK
      <4>2. May(n.dev) /\ (n.target = Hub \/ n.target \in Policy.routes[n.dev])
        BY <3>2 DEF HubAccepts, ArrivesAtHub, CanForward, CanSend
      <4> QED BY <4>1, <4>2, HubAssumption DEF Forward
    <3> QED BY <2>2, <3>1, <3>2, AnswerSteps
  <2> QED BY <2>1, <2>2 DEF PolicyHolds
<1> QED BY <1>1, <1>2, TypeCorrect, PTL DEF Spec
===============================================================================
