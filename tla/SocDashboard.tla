------------------------------ MODULE SocDashboard ----------------------------
(***************************************************************************)
(* The operations center: the dashboard in the browser                     *)
(* (dashboard/src/hooks/useDashboardData.ts, store/dashboardStore.ts,      *)
(* services/api.ts) and the handlers it talks to (server/soc_api.py), on   *)
(* top of the packet log.  The page learns of packets from a websocket,    *)
(* which greets it with the whole log and then pushes what is recorded,    *)
(* and from polls, whose requests are answered one by one.  Both overwrite *)
(* one view.  Of the stats it is the running flag: the counters are         *)
(* computed from the packets whenever the stats are.  The list of security *)
(* events, which the page keeps as it keeps the packets, and the limits of *)
(* the lists are left out.                                                 *)
(***************************************************************************)
EXTENDS PacketLog, FiniteSets, Sequences, Functions

CONSTANTS
    Socket,     \* websockets of the page; the development build has two
    Poll,       \* polls that may be under way at once
    WireCap,    \* bound: messages on the wire of a websocket
    MaxMade,    \* bound: packets, and the batches that might make one
    MaxResets,  \* bound: resets
    MaxTroubles \* bound: lost connections and failed polls

ASSUME DashAssumption ==
    /\ WireCap \in Nat \ {0}
    /\ MaxMade \in Nat /\ MaxResets \in Nat /\ MaxTroubles \in Nat

VARIABLES
    sock,    \* state of a websocket
    queue,   \* the asyncio.Queue of its handler: packets to be pushed
    wire,    \* messages sent to the page and not yet handled
    told,    \* the packets of the log the page has been sent over it
    view,    \* the store of the page
    poll,    \* polls under way
    answer,  \* the request of the reset button
    resets,  \* resets so far
    troubles \* lost connections and failed polls so far

feedVars == <<sock, queue, wire, told>>
pageVars == <<view, poll, answer>>
dashVars == <<feedVars, pageVars, resets, troubles>>
vars     == <<logVars, dashVars>>

\* The n-th of the numbers of a set, from the smallest.
Nth(N, n) == CHOOSE k \in N : Cardinality({m \in N : m <= k}) = n

\* The packets, newest first, as the store lists them.
Listed(R) ==
    LET nrs  == {r.nr : r \in R}
        size == Cardinality(nrs)
    IN  [i \in 1 .. size |-> CHOOSE r \in R : r.nr = Nth(nrs, size + 1 - i)]

\* What the page shows before it has heard anything, and after a reset.
EmptyView == [packets |-> <<>>, stats |-> FALSE]

NoPoll == [stats |-> <<>>, packets |-> <<>>]

Init ==
    /\ LogInit
    /\ sock = [s \in Socket |-> "closed"]
    /\ queue = [s \in Socket |-> <<>>]
    /\ wire = [s \in Socket |-> <<>>]
    /\ told = [s \in Socket |-> {}]
    /\ view = EmptyView
    /\ poll = [p \in Poll |-> NoPoll]
    /\ answer = "none"
    /\ resets = 0 /\ troubles = 0

-------------------------------------------------------------------------------
(* The server's side of the websockets.                                    *)

\* A handler hears of new packets from register_listener on, before it greets.
Listening(s) == sock[s] # "closed"

\* Mutant: the packets of one call are queued as one message.
BroadcastWhole(list) ==
    [s \in Socket |-> IF Listening(s) THEN Append(queue[s], list) ELSE queue[s]]

\* The queues after _broadcast of these packets.
Broadcast(list) ==
    [s \in Socket |-> IF Listening(s) THEN queue[s] \o list ELSE queue[s]]

\* Mutant: ingest_hub_event records without telling the listeners.
NewUntold == <<>>

\* Packets of the overlay that a handler records and broadcasts before it
\* reads the store.
New == Listed(fresh)

Register(s) ==
    /\ sock[s] = "closed"
    /\ sock' = [sock EXCEPT ![s] = "greeting"]
    /\ UNCHANGED <<logVars, queue, wire, told, pageVars, troubles, resets>>

Greet(s) ==
    /\ sock[s] = "greeting"
    /\ Sync
    /\ queue' = Broadcast(New)
    /\ wire' = [wire EXCEPT ![s] = <<[type |-> "init", stats |-> running,
                                      packets |-> log']>>]
    /\ told' = [told EXCEPT ![s] = log']
    /\ sock' = [sock EXCEPT ![s] = "open"]
    /\ UNCHANGED <<pageVars, troubles, resets>>

\* One message of the update loop: the next packet of the queue, with the
\* stats of the moment it is sent.
Push(s) ==
    /\ sock[s] = "open" /\ queue[s] # <<>> /\ Len(wire[s]) < WireCap
    /\ Sync
    /\ queue' = [Broadcast(New) EXCEPT ![s] = Tail(@)]
    /\ wire' = [wire EXCEPT ![s] = Append(@, [type |-> "update", stats |-> running,
                                              packets |-> {Head(queue[s])}])]
    /\ told' = [told EXCEPT ![s] = @ \cup ({Head(queue[s])} \cap log)]
    /\ UNCHANGED <<sock, pageVars, troubles, resets>>

\* tick_loop, a task beside it, sends the stats every second.
Tick(s) ==
    /\ sock[s] = "open" /\ Len(wire[s]) < WireCap
    /\ Sync
    /\ queue' = Broadcast(New)
    /\ wire' = [wire EXCEPT ![s] = Append(@, [type |-> "tick", stats |-> running,
                                              packets |-> {}])]
    /\ UNCHANGED <<sock, told, pageVars, troubles, resets>>

\* The connection ends; the page opens another after three seconds.
Drop(s) ==
    /\ sock[s] # "closed" /\ troubles < MaxTroubles
    /\ troubles' = troubles + 1
    /\ sock' = [sock EXCEPT ![s] = "closed"]
    /\ queue' = [queue EXCEPT ![s] = <<>>]
    /\ wire' = [wire EXCEPT ![s] = <<>>]
    /\ told' = [told EXCEPT ![s] = {}]
    /\ UNCHANGED <<logVars, pageVars, resets>>

-------------------------------------------------------------------------------
(* The page.                                                               *)

\* Mutant: nothing is filtered out.
PrependAny(r, list) == <<r>> \o list

\* A packet that is pushed goes to the head of the list and replaces one of
\* the same id.
Prepend(r, list) ==
    LET kept == {i \in DOMAIN list : list[i].id # r.id}
    IN  <<r>> \o [i \in 1 .. Cardinality(kept) |-> list[Nth(kept, i)]]

\* The handler of the websocket's messages.
Deliver(s) ==
    /\ wire[s] # <<>>
    /\ LET msg == Head(wire[s])
       IN  view' = [stats |-> msg.stats,
                    packets |->
                        CASE msg.type = "init"   -> Listed(msg.packets)
                          [] msg.type = "update" ->
                                Prepend(CHOOSE r \in msg.packets : TRUE,
                                        view.packets)
                          [] OTHER               -> view.packets]
    /\ wire' = [wire EXCEPT ![s] = Tail(@)]
    /\ UNCHANGED <<logVars, sock, queue, told, poll, answer, troubles, resets>>

\* Once at the start and every two seconds the page asks for the stats and the
\* packets at once, whether or not its last poll is over.  A request that is
\* not answered yet leaves no trace.
AnswerStats(p) ==
    /\ poll[p].stats = <<>>
    /\ Sync
    /\ queue' = Broadcast(New)
    /\ poll' = [poll EXCEPT ![p].stats = <<running>>]
    /\ UNCHANGED <<sock, wire, told, view, answer, troubles, resets>>

AnswerPackets(p) ==
    /\ poll[p].packets = <<>>
    /\ Sync
    /\ queue' = Broadcast(New)
    /\ poll' = [poll EXCEPT ![p].packets = <<log'>>]
    /\ UNCHANGED <<sock, wire, told, view, answer, troubles, resets>>

\* Mutant: the poll renews the stats and leaves the packets to the websocket.
ApplyStats(p) ==
    /\ poll[p].stats # <<>> /\ poll[p].packets # <<>>
    /\ view' = [view EXCEPT !.stats = Head(poll[p].stats)]
    /\ poll' = [poll EXCEPT ![p] = NoPoll]
    /\ UNCHANGED <<logVars, feedVars, answer, troubles, resets>>

\* Promise.all: nothing is set before all answers are there.
Apply(p) ==
    /\ poll[p].stats # <<>> /\ poll[p].packets # <<>>
    /\ view' = [stats |-> Head(poll[p].stats),
                packets |-> Listed(Head(poll[p].packets))]
    /\ poll' = [poll EXCEPT ![p] = NoPoll]
    /\ UNCHANGED <<logVars, feedVars, answer, troubles, resets>>

\* One request fails, and with it the whole poll.
Fail(p) ==
    /\ poll[p] # NoPoll /\ troubles < MaxTroubles
    /\ troubles' = troubles + 1
    /\ poll' = [poll EXCEPT ![p] = NoPoll]
    /\ UNCHANGED <<logVars, feedVars, view, answer, resets>>

\* The reset button.  The request is answered once no batch is active, by
\* then the log is empty, and the page empties its own store when the answer
\* arrives.  Another page may reset the log as well.
ClickReset ==
    /\ answer = "none" /\ resets < MaxResets
    /\ answer' = "asked"
    /\ UNCHANGED <<logVars, feedVars, view, poll, resets, troubles>>

Reset ==
    /\ ResetLog
    /\ resets < MaxResets /\ resets' = resets + 1
    /\ IF answer = "asked" THEN answer' = "answered" ELSE UNCHANGED answer
    /\ told' = [s \in Socket |-> {}]
    /\ UNCHANGED <<sock, queue, wire, view, poll, troubles>>

ApplyReset ==
    /\ answer = "answered"
    /\ answer' = "none"
    /\ view' = EmptyView
    /\ UNCHANGED <<logVars, feedVars, poll, resets, troubles>>

-------------------------------------------------------------------------------
\* The steps of the server that no page takes part in.
Server ==
    /\ \/ made < MaxMade /\ \/ \E b \in Batch : StartBatch(b)
                             \/ Flag(TRUE) \/ Add \/ Publish
       \/ EndBatch \/ Flag(FALSE)
    /\ UNCHANGED dashVars

Tell ==
    \E r \in untold :
        /\ Announce(r)
        /\ queue' = Broadcast(<<r>>)
        /\ UNCHANGED <<sock, wire, told, pageVars, resets, troubles>>

Next ==
    \/ Server \/ Tell \/ ClickReset \/ Reset \/ ApplyReset
    \/ \E s \in Socket : Register(s) \/ Greet(s) \/ Push(s) \/ Tick(s)
                            \/ Drop(s) \/ Deliver(s)
    \/ \E p \in Poll : AnswerStats(p) \/ AnswerPackets(p)
                          \/ Apply(p) \/ Fail(p)

Spec == Init /\ [][Next]_vars

\* Batches end and announce what they record, the page's timers fire,
\* requests that do not fail are answered and messages of an open connection
\* arrive.
Fairness ==
    /\ WF_vars(Tell)
    /\ WF_vars((EndBatch \/ Flag(FALSE)) /\ UNCHANGED dashVars)
    /\ WF_vars(Reset) /\ WF_vars(ApplyReset)
    /\ \A s \in Socket : /\ WF_vars(Register(s)) /\ WF_vars(Greet(s))
                         /\ WF_vars(Push(s)) /\ WF_vars(Deliver(s))
    /\ \A p \in Poll : /\ WF_vars(Apply(p))
                       /\ WF_vars(AnswerStats(p)) /\ WF_vars(AnswerPackets(p))

FairSpec == Spec /\ Fairness

-------------------------------------------------------------------------------
Record == [id : Nat, nr : 1 .. MaxMade]

Message == [type : {"init", "update", "tick"}, stats : BOOLEAN,
            packets : SUBSET Record]

TypeOK ==
    /\ active \subseteq Batch /\ running \in BOOLEAN /\ made \in 0 .. MaxMade
    /\ log \subseteq Record /\ untold \subseteq Record /\ fresh \subseteq Record
    /\ sock \in [Socket -> {"closed", "greeting", "open"}]
    /\ queue \in [Socket -> Seq(Record)]
    /\ wire \in [Socket -> Seq(Message)]
    /\ told \in [Socket -> SUBSET Record]
    /\ view \in [packets : Seq(Record), stats : BOOLEAN]
    /\ poll \in [Poll -> [stats : Seq(BOOLEAN), packets : Seq(SUBSET Record)]]
    /\ answer \in {"none", "asked", "answered"}

\* A packet that was recorded while a page listens is not missed: it has been
\* sent over the websocket, or waits in its queue, or the batch that inserted
\* it is about to broadcast it.
FeedComplete ==
    \A s \in Socket : sock[s] = "open" =>
        log \subseteq told[s] \cup Range(queue[s]) \cup untold

\* The page never lists one packet twice, although the greeting, the pushes,
\* which begin before it, and the polls may all bring it.
ViewNoDuplicates ==
    \A i, j \in DOMAIN view.packets :
        view.packets[i].nr = view.packets[j].nr => i = j

\* Once the last batch has ended, the page comes to show what the store holds,
\* and goes on to: old answers, late pushes of packets from before a reset, and
\* packets hidden by one with the same id do not stay.
Converges ==
    <>[](active = {}) => <>[](/\ Range(view.packets) = log
                              /\ view.stats = running)
===============================================================================
