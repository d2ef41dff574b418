------------------------------ MODULE ZtonOverlay -----------------------------
(***************************************************************************)
(* The ZTON overlay: nodes (zton/node.py) that talk to one hub             *)
(* (zton/hub.py) over UDP.                                                 *)
(*                                                                         *)
(* A node registers with HELLO until a HELLO_ACK arrives, then sends DATA; *)
(* the hub answers DATA that the policy refuses with DENY, decrypts the    *)
(* rest and forwards what is addressed to another registered device.       *)
(*                                                                         *)
(* A packet is numbered with the counter of the node (_sequence) and is    *)
(* encrypted under the counter of the session (send_seq).  The two start   *)
(* together, but every HELLO_ACK replaces the session, and only the        *)
(* session.                                                                *)
(*                                                                         *)
(* Threads of a node: the receive thread (Recv...), the web thread in      *)
(* send_message (SendData, SendRecorded), the timers send_message starts   *)
(* (TimerFires) and the registration thread (Register).  The hub has one   *)
(* receive thread, so a handler of the hub is one action.                  *)
(*                                                                         *)
(* Keys live in files and survive a restart, so the session key of a       *)
(* device is the same in every session; it is identified by the device.    *)
(* HEARTBEAT only refreshes last_seen, which nothing decides on; it, the   *)
(* events and the packet counters of the hub are left out.                 *)
(***************************************************************************)
EXTENDS ZtonPolicy, Integers, FiniteSets

CONSTANTS
    Policy,         \* the tables of the hub's PolicyEngine after configure_peers
    NodeAuthorized, \* devices whose own ZTON_AUTHORIZED flag is set
    FaultKinds,     \* the faults the environment may commit
    MaxSend,        \* bound: DATA packets a process of a node sends
    MaxHello,       \* bound: HELLO packets a process of a node sends
    MaxFaults       \* bound: faults, of all kinds together

ASSUME PolicyAssumption   == Policy \in PolicyType
ASSUME NodeAuthAssumption == NodeAuthorized \subseteq Device
ASSUME FaultAssumption    ==
    FaultKinds \subseteq
        {"duplicate", "lose", "damage", "sendError", "restartNode", "restartHub"}
ASSUME BoundAssumption    ==
    MaxSend \in Nat /\ MaxHello \in Nat /\ MaxFaults \in Nat

VARIABLES
    \* the nodes
    port,       \* the socket of the process: a restart binds another one
    registered, \* _registered
    hubKey,     \* _hub_public_key is known
    hasSession, \* _session is not None
    acking,     \* the receive thread is between the two halves of HELLO_ACK
    sequence,   \* _sequence, the number of the last packet
    sendSeq,    \* _session.send_seq, the nonce of the last packet
    recvHigh,   \* _session.recv_high_water of the node
    sending,    \* send_message has sent its packet and not yet recorded it
    pending,    \* _pending_denies
    timers,     \* timers of send_message that have not fired
    sent,       \* _packets_sent
    okCount,    \* _packets_accepted
    denyCount,  \* _packets_denied
    hellos,     \* HELLO packets this process has sent
    \* the hub
    peers,      \* the devices with an entry in peers and in _sessions
    peerPort,   \* peers[d].addr
    hubHigh,    \* _sessions[d].recv_high_water
    listening,  \* the receive thread of the hub has not left its loop
    \* the network
    net,        \* packets in flight
    faults,     \* faults committed so far
    \* what has happened, for the properties
    session,    \* how many sessions the hub has opened for a device
    hubLife,    \* how often the hub has restarted
    accepted,   \* what the hub accepted: session, number and process of origin
    nAccepted,  \* how often the hub accepted a packet
    denials,    \* DENY packets this process of the node has handled
    unopened    \* forwarded packets that their receiver could not decrypt

linkVars  == <<port, registered, hubKey, acking, hellos>>
cryptVars == <<hasSession, sequence, sendSeq, recvHigh>>
countVars == <<sending, pending, timers, sent, okCount, denyCount, denials>>
nodeVars  == <<linkVars, cryptVars, countVars, unopened>>
peerVars  == <<peers, peerPort, hubHigh, session>>
logVars   == <<accepted, nAccepted>>
hubVars   == <<peerVars, logVars, listening, hubLife>>
vars      == <<nodeVars, hubVars, net, faults>>

-------------------------------------------------------------------------------
(***************************************************************************)
(* Packets.  The source port of a packet is where the hub answers it.      *)
(***************************************************************************)
Hello(d) == [type |-> "HELLO", dev |-> d, port |-> port[d]]

\* Mutant: the packet is numbered before the counter moves.
DataNumberedLate(d, seq, nonce, target) ==
    [type |-> "DATA", dev |-> d, port |-> port[d],
     seq |-> seq - 1, nonce |-> nonce, target |-> target]

Data(d, seq, nonce, target) ==
    [type |-> "DATA", dev |-> d, port |-> port[d],
     seq |-> seq, nonce |-> nonce, target |-> target]

\* Two HELLO_ACK packets differ in their timestamps; here, in the session.
HelloAck(m, s) ==
    [type |-> "HELLO_ACK", to |-> m.dev, port |-> m.port, session |-> s]

\* DENY echoes the number of the packet it refuses, which no node reads.
Deny(m) == [type |-> "DENY", to |-> m.dev, port |-> m.port]

\* A forwarded packet carries the ciphertext of the sender: its key and nonce.
Forward(m) ==
    [type |-> "FORWARD", to |-> m.target, port |-> peerPort[m.target],
     key |-> m.dev, seq |-> m.seq, nonce |-> m.nonce]

\* AES-GCM opens a ciphertext only under the key and nonce it was made with.
\* A receiver takes the nonce from the number of the packet.
Opens(key, m) == key = m.key /\ m.nonce = m.seq

Fault(kind) ==
    /\ kind \in FaultKinds
    /\ faults < MaxFaults
    /\ faults' = faults + 1

\* The packet m is delivered and its handler sends the packets of out.  A
\* network that duplicates m keeps it in flight.
Deliver(m, out) ==
    \/ /\ net' = (net \ {m}) \cup out
       /\ UNCHANGED faults
    \/ /\ Fault("duplicate")
       /\ net' = net \cup out

-------------------------------------------------------------------------------
Init ==
    /\ port       = [d \in Device |-> 0]
    /\ registered = [d \in Device |-> FALSE]
    /\ hubKey     = [d \in Device |-> FALSE]
    /\ hasSession = [d \in Device |-> FALSE]
    /\ acking     = [d \in Device |-> FALSE]
    /\ sequence   = [d \in Device |-> 0]
    /\ sendSeq    = [d \in Device |-> 0]
    /\ recvHigh   = [d \in Device |-> -1]
    /\ sending    = [d \in Device |-> FALSE]
    /\ pending    = [d \in Device |-> FALSE]
    /\ timers     = [d \in Device |-> 0]
    /\ sent       = [d \in Device |-> 0]
    /\ okCount    = [d \in Device |-> 0]
    /\ denyCount  = [d \in Device |-> 0]
    /\ denials    = [d \in Device |-> 0]
    /\ hellos     = [d \in Device |-> 0]
    /\ peers      = {}
    /\ peerPort   = [d \in Device |-> 0]
    /\ hubHigh    = [d \in Device |-> -1]
    /\ listening  = TRUE
    /\ net        = {}
    /\ faults     = 0
    /\ session    = [d \in Device |-> 0]
    /\ hubLife    = 0
    /\ accepted   = {}
    /\ nAccepted  = 0
    /\ unopened   = {}

-------------------------------------------------------------------------------
(***************************************************************************)
(* The node.                                                               *)
(***************************************************************************)

\* Mutant: the node registers once and never repeats HELLO.
RegisterOnce(d) ==
    /\ ~registered[d]
    /\ hellos[d] = 0
    /\ hellos' = [hellos EXCEPT ![d] = @ + 1]
    /\ net' = net \cup {Hello(d)}
    /\ UNCHANGED <<port, registered, hubKey, acking, cryptVars, countVars,
                   unopened, hubVars, faults>>

\* The registration thread every 2 s, and the receive thread at each of its
\* 2 s timeouts, send HELLO while the node is not registered.  A HELLO of this
\* process that is still in flight stands for its repetitions.
Register(d) ==
    /\ ~registered[d]
    /\ hellos[d] < MaxHello
    /\ Hello(d) \notin net
    /\ hellos' = [hellos EXCEPT ![d] = @ + 1]
    /\ net' = net \cup {Hello(d)}
    /\ UNCHANGED <<port, registered, hubKey, acking, cryptVars, countVars,
                   unopened, hubVars, faults>>

\* Mutant: the nonce follows the number of the packet, not the session.
SendDataOneCounter(d, target) ==
    LET seq == sequence[d] + 1
    IN  /\ ~sending[d]
        /\ seq <= MaxSend
        /\ hasSession[d] \/ hubKey[d]
        /\ hasSession' = [hasSession EXCEPT ![d] = TRUE]
        /\ sequence' = [sequence EXCEPT ![d] = seq]
        /\ sendSeq' = [sendSeq EXCEPT ![d] = seq]
        /\ net' = net \cup {Data(d, seq, seq, target)}
        /\ sending' = [sending EXCEPT ![d] = TRUE]
        /\ UNCHANGED <<linkVars, recvHigh, pending, timers, sent, okCount,
                       denyCount, denials, unopened, hubVars, faults>>

\* send_message up to the datagram.  A node that knows the hub but has no
\* session yet (the receive thread is half way through HELLO_ACK) makes one.
SendData(d, target) ==
    LET nonce == IF hasSession[d] THEN sendSeq[d] + 1 ELSE 1
        seq   == sequence[d] + 1
    IN  /\ ~sending[d]
        /\ seq <= MaxSend
        /\ hasSession[d] \/ hubKey[d]
        /\ hasSession' = [hasSession EXCEPT ![d] = TRUE]
        /\ recvHigh' = [recvHigh EXCEPT ![d] = IF hasSession[d] THEN @ ELSE -1]
        /\ sequence' = [sequence EXCEPT ![d] = seq]
        /\ sendSeq' = [sendSeq EXCEPT ![d] = nonce]
        /\ net' = net \cup {Data(d, seq, nonce, target)}
        /\ sending' = [sending EXCEPT ![d] = TRUE]
        /\ UNCHANGED <<linkVars, pending, timers, sent, okCount, denyCount,
                       denials, unopened, hubVars, faults>>

\* The rest of send_message: the answer of the hub may already be here.
SendRecorded(d) ==
    /\ sending[d]
    /\ sending' = [sending EXCEPT ![d] = FALSE]
    /\ sent' = [sent EXCEPT ![d] = @ + 1]
    /\ pending' = [pending EXCEPT ![d] = TRUE]
    /\ timers' = [timers EXCEPT ![d] = @ + 1]
    /\ UNCHANGED <<linkVars, cryptVars, okCount, denyCount, denials, unopened,
                   hubVars, net, faults>>

\* Mutant: the timer counts its packet and leaves the verdict open.
TimerKeepsPending(d) ==
    /\ timers[d] > 0
    /\ timers' = [timers EXCEPT ![d] = @ - 1]
    /\ okCount' = [okCount EXCEPT
           ![d] = IF pending[d] /\ d \in NodeAuthorized THEN @ + 1 ELSE @]
    /\ denyCount' = [denyCount EXCEPT
           ![d] = IF pending[d] /\ d \notin NodeAuthorized THEN @ + 1 ELSE @]
    /\ UNCHANGED <<linkVars, cryptVars, sending, pending, sent, denials,
                   unopened, hubVars, net, faults>>

\* Mutant: there is no second timer for a device that is not authorized.
TimerOnlyAccepts(d) ==
    /\ timers[d] > 0
    /\ timers' = [timers EXCEPT ![d] = @ - 1]
    /\ pending' = [pending EXCEPT ![d] = @ /\ d \notin NodeAuthorized]
    /\ okCount' = [okCount EXCEPT
           ![d] = IF pending[d] /\ d \in NodeAuthorized THEN @ + 1 ELSE @]
    /\ UNCHANGED <<linkVars, cryptVars, sending, sent, denyCount, denials,
                   unopened, hubVars, net, faults>>

\* Of the two timers of a packet the one for the node's own flag acts, and
\* only when no verdict has cleared the flag it shares with the other packets.
TimerFires(d) ==
    /\ timers[d] > 0
    /\ timers' = [timers EXCEPT ![d] = @ - 1]
    /\ pending' = [pending EXCEPT ![d] = FALSE]
    /\ okCount' = [okCount EXCEPT
           ![d] = IF pending[d] /\ d \in NodeAuthorized THEN @ + 1 ELSE @]
    /\ denyCount' = [denyCount EXCEPT
           ![d] = IF pending[d] /\ d \notin NodeAuthorized THEN @ + 1 ELSE @]
    /\ UNCHANGED <<linkVars, cryptVars, sending, sent, denials, unopened,
                   hubVars, net, faults>>

\* A packet reaches the receive thread of the process that owns its port, when
\* the thread is not inside a handler.
Arrives(d, m) ==
    /\ m \in net
    /\ m.type \in {"HELLO_ACK", "DENY", "FORWARD"}
    /\ m.to = d
    /\ m.port = port[d]
    /\ ~acking[d]

\* HELLO_ACK, first half: registered, and the key of the hub is known.
RecvHelloAck(d, m) ==
    /\ Arrives(d, m)
    /\ m.type = "HELLO_ACK"
    /\ registered' = [registered EXCEPT ![d] = TRUE]
    /\ hubKey' = [hubKey EXCEPT ![d] = TRUE]
    /\ acking' = [acking EXCEPT ![d] = TRUE]
    /\ Deliver(m, {})
    /\ UNCHANGED <<port, hellos, cryptVars, countVars, unopened, hubVars>>

\* Mutant: HELLO_ACK restarts the numbers of the node instead of the nonces.
NewSessionRenumbers(d) ==
    /\ acking[d]
    /\ acking' = [acking EXCEPT ![d] = FALSE]
    /\ hasSession' = [hasSession EXCEPT ![d] = TRUE]
    /\ sequence' = [sequence EXCEPT ![d] = 0]
    /\ recvHigh' = [recvHigh EXCEPT ![d] = -1]
    /\ UNCHANGED <<port, registered, hubKey, hellos, sendSeq, countVars,
                   unopened, hubVars, net, faults>>

\* HELLO_ACK, second half: a fresh SessionCrypto, whatever was there before.
NewSession(d) ==
    /\ acking[d]
    /\ acking' = [acking EXCEPT ![d] = FALSE]
    /\ hasSession' = [hasSession EXCEPT ![d] = TRUE]
    /\ sendSeq' = [sendSeq EXCEPT ![d] = 0]
    /\ recvHigh' = [recvHigh EXCEPT ![d] = -1]
    /\ UNCHANGED <<port, registered, hubKey, hellos, sequence, countVars,
                   unopened, hubVars, net, faults>>

RecvDeny(d, m) ==
    /\ Arrives(d, m)
    /\ m.type = "DENY"
    /\ pending' = [pending EXCEPT ![d] = FALSE]
    /\ denyCount' = [denyCount EXCEPT ![d] = @ + 1]
    /\ denials' = [denials EXCEPT ![d] = @ + 1]
    /\ Deliver(m, {})
    /\ UNCHANGED <<linkVars, cryptVars, sending, timers, sent, okCount,
                   unopened, hubVars>>

\* A forwarded packet is decrypted under the session key of the receiver; one
\* that arrives before the node has a session is ignored.
RecvForward(d, m) ==
    LET readable == m.seq > recvHigh[d] /\ Opens(d, m)
    IN  /\ Arrives(d, m)
        /\ m.type = "FORWARD"
        /\ recvHigh' = [recvHigh EXCEPT
               ![d] = IF hasSession[d] /\ readable THEN m.seq ELSE @]
        /\ unopened' = IF hasSession[d] /\ ~readable
                       THEN unopened \cup {[to |-> d, from |-> m.key, seq |-> m.seq]}
                       ELSE unopened
        /\ Deliver(m, {})
        /\ UNCHANGED <<linkVars, hasSession, sequence, sendSeq, countVars,
                       hubVars>>

-------------------------------------------------------------------------------
(***************************************************************************)
(* The hub.  Its loop ends at the first OSError, so a datagram that cannot *)
(* be sent stops the hub after what the handler did before sending.        *)
(***************************************************************************)
Answer(m, out) ==
    \/ /\ Deliver(m, out)
       /\ UNCHANGED listening
    \/ /\ Fault("sendError")
       /\ out # {}
       /\ net' = net \ {m}
       /\ listening' = FALSE

\* A packet to the hub is in flight and its receive thread is at recvfrom.
ArrivesAtHub(d, m) ==
    /\ listening
    /\ m \in net
    /\ m.type \in {"HELLO", "DATA"}
    /\ m.dev = d

\* Any HELLO, repeated or late, replaces the peer and its session.
HubHandleHello(d, m) ==
    /\ ArrivesAtHub(d, m)
    /\ m.type = "HELLO"
    /\ peers' = peers \cup {d}
    /\ peerPort' = [peerPort EXCEPT ![d] = m.port]
    /\ hubHigh' = [hubHigh EXCEPT ![d] = -1]
    /\ session' = [session EXCEPT ![d] = @ + 1]
    /\ Answer(m, {HelloAck(m, session[d] + 1)})
    /\ UNCHANGED <<nodeVars, logVars, hubLife>>

\* can_send or can_forward refuses the packet.
HubDenies(d, m) ==
    /\ ArrivesAtHub(d, m)
    /\ m.type = "DATA"
    /\ ~CanForward(Policy, d, m.target)
    /\ Answer(m, {Deny(m)})
    /\ UNCHANGED <<nodeVars, peerVars, logVars, hubLife>>

\* Mutant: a number equal to the high-water mark is let through.
AcceptableAgain(d, m) ==
    /\ d \in peers
    /\ m.seq >= hubHigh[d]
    /\ m.nonce = m.seq

\* Mutant: a session takes its numbers in any order, each of them once.
AcceptableUnordered(d, m) ==
    /\ d \in peers
    /\ \A a \in accepted : a.dev = d /\ a.session = session[d] => a.seq # m.seq
    /\ m.nonce = m.seq

\* decrypt_payload returns the plaintext.
Acceptable(d, m) ==
    /\ d \in peers
    /\ m.seq > hubHigh[d]
    /\ m.nonce = m.seq

\* Mutant: the hub throws away the session with the packet.
HubDropsSession(d, m) ==
    /\ ArrivesAtHub(d, m)
    /\ m.type = "DATA"
    /\ CanForward(Policy, d, m.target)
    /\ ~Acceptable(d, m)
    /\ peers' = peers \ {d}
    /\ Deliver(m, {})
    /\ UNCHANGED <<nodeVars, peerPort, hubHigh, session, logVars, listening,
                   hubLife>>

\* No session, a number at or below the high-water mark, or a ciphertext that
\* does not open: the packet is dropped and the sender hears nothing.
HubDrops(d, m) ==
    /\ ArrivesAtHub(d, m)
    /\ m.type = "DATA"
    /\ CanForward(Policy, d, m.target)
    /\ ~Acceptable(d, m)
    /\ Deliver(m, {})
    /\ UNCHANGED <<nodeVars, hubVars>>

\* A target that has registered and was authorized then gets the packet; the
\* tables of the policy do not change after configure_peers.
Forwards(m) ==
    IF m.target \in peers /\ CanSend(Policy, m.target) THEN {Forward(m)} ELSE {}

HubAccepts(d, m) ==
    /\ ArrivesAtHub(d, m)
    /\ m.type = "DATA"
    /\ CanForward(Policy, d, m.target)
    /\ Acceptable(d, m)
    /\ hubHigh' = [hubHigh EXCEPT ![d] = m.seq]
    /\ nAccepted' = nAccepted + 1
    /\ accepted' = accepted \cup
           {[dev |-> d, session |-> session[d], seq |-> m.seq,
             foreign |-> m.port # peerPort[d]]}
    /\ Answer(m, Forwards(m))
    /\ UNCHANGED <<nodeVars, peers, peerPort, session, hubLife>>

\* A packet damaged on the way fails the signature check and is answered.
HubRejects(d, m) ==
    /\ ArrivesAtHub(d, m)
    /\ Fault("damage")
    /\ net' = (net \ {m}) \cup {Deny(m)}
    /\ UNCHANGED <<nodeVars, hubVars>>

-------------------------------------------------------------------------------
(***************************************************************************)
(* The environment.                                                        *)
(***************************************************************************)
Lose(m) ==
    /\ m \in net
    /\ Fault("lose")
    /\ net' = net \ {m}
    /\ UNCHANGED <<nodeVars, hubVars>>

\* The process of a node is replaced by a new one; packets to the old port
\* are discarded.
RestartNode(d) ==
    /\ Fault("restartNode")
    /\ port'       = [port EXCEPT ![d] = @ + 1]
    /\ registered' = [registered EXCEPT ![d] = FALSE]
    /\ hubKey'     = [hubKey EXCEPT ![d] = FALSE]
    /\ hasSession' = [hasSession EXCEPT ![d] = FALSE]
    /\ acking'     = [acking EXCEPT ![d] = FALSE]
    /\ sequence'   = [sequence EXCEPT ![d] = 0]
    /\ sendSeq'    = [sendSeq EXCEPT ![d] = 0]
    /\ recvHigh'   = [recvHigh EXCEPT ![d] = -1]
    /\ sending'    = [sending EXCEPT ![d] = FALSE]
    /\ pending'    = [pending EXCEPT ![d] = FALSE]
    /\ timers'     = [timers EXCEPT ![d] = 0]
    /\ sent'       = [sent EXCEPT ![d] = 0]
    /\ okCount'    = [okCount EXCEPT ![d] = 0]
    /\ denyCount'  = [denyCount EXCEPT ![d] = 0]
    /\ denials'    = [denials EXCEPT ![d] = 0]
    /\ hellos'     = [hellos EXCEPT ![d] = 0]
    /\ net' = {m \in net : m.type \in {"HELLO", "DATA"} \/ m.to # d}
    /\ UNCHANGED <<unopened, hubVars>>

RestartHub ==
    /\ Fault("restartHub")
    /\ peers'     = {}
    /\ peerPort'  = [d \in Device |-> 0]
    /\ hubHigh'   = [d \in Device |-> -1]
    /\ listening' = TRUE
    /\ hubLife'   = hubLife + 1
    /\ UNCHANGED <<nodeVars, session, logVars, net>>

-------------------------------------------------------------------------------
NodeReceives(d, m) ==
    RecvHelloAck(d, m) \/ RecvDeny(d, m) \/ RecvForward(d, m)

HubReceives(d, m) ==
    HubHandleHello(d, m) \/ HubDenies(d, m) \/ HubDrops(d, m) \/ HubAccepts(d, m)

Next ==
    \/ \E d \in Device :
          \/ Register(d)
          \/ \E target \in Target : SendData(d, target)
          \/ SendRecorded(d)
          \/ TimerFires(d)
          \/ NewSession(d)
          \/ RestartNode(d)
          \/ \E m \in net : NodeReceives(d, m) \/ HubReceives(d, m) \/ HubRejects(d, m)
    \/ \E m \in net : Lose(m)
    \/ RestartHub

Spec == Init /\ [][Next]_vars

\* The threads run, timers fire, and a packet that is not lost is handled.
Fairness ==
    \A d \in Device :
        /\ WF_vars(Register(d))
        /\ WF_vars(SendRecorded(d))
        /\ WF_vars(TimerFires(d))
        /\ WF_vars(NewSession(d))
        /\ WF_vars(\E m \in net : NodeReceives(d, m))
        /\ WF_vars(\E m \in net : HubReceives(d, m))

FairSpec == Spec /\ Fairness

-------------------------------------------------------------------------------
ToHub ==
    [type : {"HELLO"}, dev : Device, port : Nat]
    \cup [type : {"DATA"}, dev : Device, port : Nat, seq : 1 .. MaxSend,
          nonce : Nat, target : Target]

ToNode ==
    [type : {"HELLO_ACK"}, to : Device, port : Nat, session : Nat]
    \cup [type : {"DENY"}, to : Device, port : Nat]
    \cup [type : {"FORWARD"}, to : Device, port : Nat, key : Device,
          seq : 1 .. MaxSend, nonce : Nat]

TypeOK ==
    /\ port \in [Device -> Nat]
    /\ registered \in [Device -> BOOLEAN]
    /\ hubKey \in [Device -> BOOLEAN]
    /\ hasSession \in [Device -> BOOLEAN]
    /\ acking \in [Device -> BOOLEAN]
    /\ sequence \in [Device -> Nat]
    /\ sendSeq \in [Device -> Nat]
    /\ recvHigh \in [Device -> Nat \cup {-1}]
    /\ sending \in [Device -> BOOLEAN]
    /\ pending \in [Device -> BOOLEAN]
    /\ timers \in [Device -> Nat]
    /\ sent \in [Device -> Nat]
    /\ okCount \in [Device -> Nat]
    /\ denyCount \in [Device -> Nat]
    /\ denials \in [Device -> Nat]
    /\ hellos \in [Device -> Nat]
    /\ peers \subseteq Device
    /\ peerPort \in [Device -> Nat]
    /\ hubHigh \in [Device -> Nat \cup {-1}]
    /\ listening \in BOOLEAN
    /\ net \subseteq ToHub \cup ToNode
    /\ faults \in Nat
    /\ session \in [Device -> Nat]
    /\ hubLife \in Nat
    /\ accepted \subseteq
           [dev : Device, session : Nat, seq : 1 .. MaxSend, foreign : BOOLEAN]
    /\ nAccepted \in Nat
    /\ unopened \subseteq [to : Device, from : Device, seq : 1 .. MaxSend]

-------------------------------------------------------------------------------
(***************************************************************************)
(* Safety.                                                                 *)
(***************************************************************************)

\* A session of the hub accepts a number at most once, however often the
\* network repeats or reorders the packets (the high-water mark of
\* decrypt_payload): as many packets were accepted as there are different
\* pairs of session and number.
AtMostOncePerSession ==
    /\ nAccepted = Cardinality(accepted)
    /\ \A a, b \in accepted :
          a.dev = b.dev /\ a.session = b.session /\ a.seq = b.seq => a = b

\* Only devices that the policy lets send are ever accepted, and a packet is
\* forwarded only along a permitted route, to a device that may itself send
\* (_handle_data checks can_send and can_forward, and the target's HELLO).
PolicyHolds ==
    /\ \A a \in accepted : a.dev \in Policy.authorized \ Policy.blocked
    /\ \A m \in net : m.type = "FORWARD" =>
          /\ m.to \in Policy.routes[m.key]
          /\ {m.key, m.to} \subseteq Policy.authorized \ Policy.blocked

\* While the hub has not restarted, a node that takes itself for registered
\* has a session at the hub: a node stops sending HELLO for good once it has
\* seen one HELLO_ACK, so otherwise it would be cut off for good.
RegisteredIsKnown ==
    hubLife = 0 => \A d \in Device : registered[d] => d \in peers

\* A node never reports more verdicts on its own packets than it has sent:
\* what its timers counted as accepted or as denied, together with a verdict
\* still open, is at most what send_message recorded.
VerdictsBounded ==
    \A d \in Device :
        okCount[d] + (denyCount[d] - denials[d]) + (IF pending[d] THEN 1 ELSE 0)
            <= sent[d]

\* A verdict that is still open has a timer that will give it: the flag is
\* shared by all packets of a node, and each of their timers may clear it.
PendingHasTimer == \A d \in Device : pending[d] => timers[d] > 0

\* The nonce of a node never runs ahead of its packet number, in the node and
\* in every packet in flight: the session is only ever younger than the node.
NonceNeverAhead ==
    /\ \A d \in Device : sendSeq[d] <= sequence[d]
    /\ \A m \in net : m.type = "DATA" => m.nonce <= m.seq

\* A node whose nonce has fallen behind its packet number (HELLO_ACK came
\* again after a DATA packet) stays behind until its process is restarted:
\* from then on no packet it sends can be decrypted.
BehindForGood ==
    [][\A d \in Device :
          sendSeq[d] < sequence[d] /\ port'[d] = port[d]
              => sendSeq'[d] < sequence'[d]]_vars

\* What ZtonDelivery records of the packets that the hub accepted.
Taken == {[dev |-> a.dev, session |-> a.session, seq |-> a.seq] : a \in accepted}

Delivery ==
    INSTANCE ZtonDelivery WITH Number <- 1 .. MaxSend, open <- peers, taken <- Taken

\* The high-water mark of decrypt_payload, reset by every HELLO and lost at a
\* restart, implements increasing delivery within each session.
DeliverySpec == Delivery!Spec

(***************************************************************************)
(* Liveness.                                                               *)
(***************************************************************************)

\* Every node registers in the end, and stays registered: the registration
\* loop outlasts the losses, and nothing but a restart takes it back.
EventuallyRegistered == \A d \in Device : <>[]registered[d]

\* Every packet that was recorded gets its verdict.
VerdictComes == \A d \in Device : pending[d] ~> ~pending[d]

(***************************************************************************)
(* What the documents say and the code does not do.                        *)
(***************************************************************************)

\* guide.md:89: "If an attacker intercepts a packet and injects/replays it,
\* the Hub drops it immediately."  No number of a device is accepted twice.
ReplayIsDropped ==
    \A a, b \in accepted : a.dev = b.dev /\ a.seq = b.seq => a = b

\* guide.md:73: "show that the message was received and successfully
\* decrypted" at the device the hub forwards to.
ForwardedIsDecrypted == unopened = {}
===============================================================================
