----------------------------- MODULE LinkRegistry -----------------------------
(***************************************************************************)
(* The link registry of an OpenZiti router (router/link): which links to   *)
(* other routers it wants, dials, keeps and reports to the controllers.    *)
(*                                                                         *)
(* One goroutine, run(), owns the destinations and the link states; it     *)
(* takes events from a channel of limited capacity and acts on tickers.    *)
(* Other goroutines work beside it and post events to it: a dial in the    *)
(* dialer pool (Dial...), the registration of a link that was dialed or    *)
(* accepted (Apply...), the end of a link (Close, LinkClosed...), the      *)
(* controllers' view of the other routers (PeerStateChange) and the        *)
(* notification of the controllers (Send..., Post...).  What they do       *)
(* between two synchronizations is one action, so that the steps of        *)
(* different goroutines interleave; a handler of run() is one action.      *)
(*                                                                         *)
(* A destination has one pair of dialer and listener, so one link key,     *)
(* which is identified with it.  A link state keeps its random linkId for  *)
(* life and counts its dials, so a link is identified by its key, the id   *)
(* of the state that dialed it, here or at the other router, and the       *)
(* iteration.  Ids are numbers, as only their order matters.               *)
(*                                                                         *)
(* Left out: the states of links of several connections                    *)
(* (syncRequiredLinkStates), inspection, metrics and the full refresh      *)
(* after a controller reconnects.  The length of delays is left out; that  *)
(* a delay has passed is an action.                                        *)
(***************************************************************************)
EXTENDS Integers, Sequences, FiniteSets

CONSTANTS
    Dest,         \* routers to which links may exist
    State,        \* the linkIds this router gives to its link states
    Peer,         \* the linkIds of link states of the other routers
    PeerDest,     \* the router such a link state belongs to
    None,         \* no link, no link state
    Patience,     \* duplicates a link rejects before it is replaced: 5 in the code
    LateCloses,   \* a link may close while it is being registered
    MaxIteration, \* bound: links that a link state gives
    MaxAccepts,   \* bound: links accepted from a link state of another router
    QueueCap,     \* bound: the capacity of the event channel, 16 in the code
    MaxUpdates,   \* bound: peer state changes
    MaxTroubles   \* bound: closed links, failed dials, full pools, failed sends

Link      == [dest : Dest, id : State \cup Peer, iteration : 1 .. MaxIteration]
FaultType == [id : State \cup Peer, iteration : 1 .. MaxIteration]

ASSUME IdAssumption ==
    State \subseteq Nat /\ Peer \subseteq Nat /\ State \cap Peer = {}
ASSUME PeerAssumption == PeerDest \in [Peer -> Dest]
ASSUME NoneAssumption == None \notin Link \cup State \cup Peer \cup Dest
ASSUME SwitchAssumption == LateCloses \in BOOLEAN
ASSUME BoundAssumption ==
    /\ Patience \in Nat /\ MaxIteration \in Nat /\ MaxAccepts \in Nat /\ QueueCap \in Nat
    /\ MaxUpdates \in Nat /\ MaxTroubles \in Nat

VARIABLES
    dests,       \* destinations: known, healthy and the entry of linkMap
    states,      \* the link states
    linkMap,     \* the current link for a key
    linkByIdMap, \* the link for an id
    links,       \* the link objects: their registration and their end
    events,      \* the event channel of run()
    trigger,     \* triggerNotifyC holds its token
    notify,      \* the notification of the controllers that is in progress
    told,        \* links of which the controllers have been notified
    reported,    \* faults that were sent to the controllers
    updates,     \* peer state changes so far
    troubles     \* troubles so far

loopVars == <<dests, states>>
mapVars  == <<linkMap, linkByIdMap>>
sendVars == <<notify, told, reported>>
ctrlVars == <<trigger, sendVars>>
envVars  == <<updates, troubles>>
vars     == <<loopVars, mapVars, links, events, ctrlVars, envVars>>

-------------------------------------------------------------------------------
Fault(l)  == [id |-> l.id, iteration |-> l.iteration]
Dialed(l) == l.id \in State
Open(l)   == links[l].close = "open"

\* The state that is the entry of its destination's linkMap.
Entries == {dests[d].entry : d \in Dest} \ {None}

\* Mutant: posting does not wait for room.
PostAtOnce(e) == events' = Append(events, e)

Post(e) ==
    /\ Len(events) < QueueCap
    /\ events' = Append(events, e)

\* The event at the head of the channel, taken by run().
Takes(kind) ==
    /\ events # <<>>
    /\ Head(events).kind = kind
    /\ events' = Tail(events)

\* Either all goes well or a trouble is spent.
Well(well) ==
    \/ well /\ UNCHANGED troubles
    \/ ~well /\ troubles < MaxTroubles /\ troubles' = troubles + 1

-------------------------------------------------------------------------------
(***************************************************************************)
(* The link state, as records that the handlers compute with.              *)
(***************************************************************************)
Unused == [dest |-> None, status |-> "unused", due |-> TRUE, waiting |-> FALSE,
           dial |-> "idle", found |-> None, attempts |-> 0, notified |-> FALSE,
           link |-> None, faults |-> {}]

\* updateStatus
WithStatus(r, status) ==
    [r EXCEPT !.status = status,
              !.link   = IF status = "established" THEN @ ELSE None]

\* dialFailed: the next dial is after the backoff, which the heap waits for.
DialFailed(r) == [r EXCEPT !.due = FALSE, !.waiting = TRUE]

\* Mutant: only a new link state is dialed.
CouldDialOnce(r) == r.status = "pending" /\ r.due

CouldDial(r) == r.status \notin {"established", "dialing"} /\ r.due

\* evaluateLinkState, when the dialer pool has room or not
Evaluate(r, room) ==
    LET dialing == [WithStatus(r, "dialing") EXCEPT
                       !.attempts = IF @ < MaxIteration THEN @ + 1 ELSE @]  \* bound
    IN  IF ~(CouldDial(r) /\ r.dial = "idle") THEN r
        ELSE IF room THEN [dialing EXCEPT !.dial = "queued"]
        ELSE DialFailed(WithStatus(dialing, "queueFailed"))

\* A fault of a link id tells the controllers of every earlier iteration too.
Covers(f, g) == f.id = g.id /\ f.iteration >= g.iteration

\* Mutant: the known fault of an id is copied, and the copy updated.
WithFaultCopied(r, f) ==
    IF \E g \in r.faults : g.id = f.id THEN r ELSE [r EXCEPT !.faults = @ \cup {f}]

\* addPendingLinkFault
WithFault(r, f) ==
    IF \E g \in r.faults : Covers(g, f) THEN r
    ELSE [r EXCEPT !.faults = {g \in @ : g.id # f.id} \cup {f}]

\* clearFaultsForLinkId
WithoutId(r, id) == [r EXCEPT !.faults = {g \in @ : g.id # id}]

\* Which of the links in closing are still open, and now close.
CloseAll(closing) ==
    links' = [l \in Link |->
        IF l \in closing /\ Open(l) THEN [links[l] EXCEPT !.close = "closed"]
        ELSE links[l]]

-------------------------------------------------------------------------------
(***************************************************************************)
(* run(): the events                                                       *)
(***************************************************************************)
\* linkDestUpdate of an unhealthy router
HandleUnhealthy ==
    /\ Takes("update") /\ ~Head(events).healthy
    /\ LET d == Head(events).dest
       IN  dests' = [dests EXCEPT ![d].known = TRUE, ![d].healthy = FALSE]
    /\ UNCHANGED <<states, mapVars, links, ctrlVars, envVars>>

\* linkDestUpdate of a healthy router with a listener that the dialer matches
HandleListed(room) ==
    /\ Takes("update") /\ Head(events).healthy /\ Head(events).listed
    /\ LET d             == Head(events).dest
           becameHealthy == dests[d].known /\ ~dests[d].healthy
           entry         == dests[d].entry
           healthy(e)    == [known |-> TRUE, healthy |-> TRUE, entry |-> e]
       IN  \/ /\ entry = None
              /\ \E s \in State :
                    /\ states[s].status = "unused"
                    /\ dests' = [dests EXCEPT ![d] = healthy(s)]
                    /\ states' = [states EXCEPT ![s] =
                          Evaluate([@ EXCEPT !.dest = d, !.status = "pending"], room)]
              /\ UNCHANGED links
           \/ /\ entry # None
              /\ dests' = [dests EXCEPT ![d] = healthy(entry)]
              /\ CloseAll(IF Head(events).moved THEN {states[entry].link} ELSE {})
              /\ states' = [states EXCEPT ![entry] =
                    IF becameHealthy /\ @.status # "established"
                    THEN Evaluate([@ EXCEPT !.due = TRUE], room) ELSE @]
    /\ Well(room)
    /\ UNCHANGED <<mapVars, ctrlVars, updates>>

\* linkDestUpdate of a healthy router without such a listener: the entry is
\* orphaned, and its link closed.
HandleUnlisted ==
    /\ Takes("update") /\ Head(events).healthy /\ ~Head(events).listed
    /\ LET d     == Head(events).dest
           entry == dests[d].entry
       IN  /\ dests' = [dests EXCEPT ![d] =
                           [known |-> TRUE, healthy |-> TRUE, entry |-> None]]
           /\ CloseAll(IF entry = None THEN {} ELSE {states[entry].link})
    /\ UNCHANGED <<states, mapVars, ctrlVars, envVars>>

\* removeLinkDest: it looks for the link of the state in linkMap, but under the
\* linkId of the state and not under its key, so it never finds one to close.
HandleRemove ==
    /\ Takes("remove")
    /\ LET d     == Head(events).dest
           entry == dests[d].entry
       IN  /\ dests' = [dests EXCEPT ![d] =
                           [known |-> FALSE, healthy |-> FALSE, entry |-> None]]
           /\ states' = [s \in State |->
                 IF s = entry THEN WithStatus(states[s], "destRemoved") ELSE states[s]]
    /\ UNCHANGED <<mapVars, links, ctrlVars, envVars>>

\* Mutant: ctrlsNotified is not reset.
HandleEstablishedQuietly ==
    /\ Takes("established")
    /\ LET l     == Head(events).link
           entry == dests[l.dest].entry
       IN  states' = [s \in State |->
              IF s = entry
              THEN [states[s] EXCEPT !.status = "established", !.link = l] ELSE states[s]]
    /\ trigger' = (trigger \/ dests[Head(events).link.dest].entry # None)   \* triggerNotify
    /\ UNCHANGED <<dests, mapVars, links, sendVars, envVars>>

\* updateLinkStatusForLink with StatusEstablished.  (A state with StatusDestRemoved
\* is never an entry.)
HandleEstablished ==
    /\ Takes("established")
    /\ LET l     == Head(events).link
           entry == dests[l.dest].entry
       IN  states' = [s \in State |->
              IF s = entry
              THEN [states[s] EXCEPT !.status = "established", !.notified = FALSE, !.link = l]
              ELSE states[s]]
    /\ trigger' = (trigger \/ dests[Head(events).link.dest].entry # None)   \* triggerNotify
    /\ UNCHANGED <<dests, mapVars, links, sendVars, envVars>>

\* updateLinkStatusForLink with StatusLinkFailed.  time.Now() has moved on when
\* evaluateLinkState reads it.
HandleClosed(room) ==
    /\ Takes("closed")
    /\ LET l     == Head(events).link
           entry == dests[l.dest].entry
       IN  states' = [s \in State |->
              IF s = entry
              THEN WithFault(Evaluate([WithStatus(states[s], "linkFailed")
                                          EXCEPT !.due = TRUE], room), Fault(l))
              ELSE states[s]]
    /\ Well(room)
    /\ UNCHANGED <<dests, mapVars, links, ctrlVars, updates>>

\* addLinkFaultForReplacedLink
HandleReplaced ==
    /\ Takes("replaced")
    /\ LET l     == Head(events).link
           entry == dests[l.dest].entry
       IN  states' = [s \in State |->
              IF s = entry THEN WithFault(states[s], Fault(l)) ELSE states[s]]
    /\ UNCHANGED <<dests, mapVars, links, ctrlVars, envVars>>

\* updateLinkStatusToDialFailed holds the state itself, which need not be the
\* entry of a destination any more.
HandleDialFailed ==
    /\ Takes("dialFailed")
    /\ LET s == Head(events).state
       IN  states' = [states EXCEPT ![s] =
              IF @.status = "dialing" THEN DialFailed(WithStatus(@, "dialFailed")) ELSE @]
    /\ UNCHANGED <<dests, mapVars, links, ctrlVars, envVars>>

\* Mutant: the link that the message was about is not compared.
HandleNotifiedAny ==
    /\ Takes("notified")
    /\ LET pairs == Head(events).pairs
       IN  states' = [s \in State |->
              IF states[s].status = "established" /\ \E p \in pairs : p[1] = s
              THEN [states[s] EXCEPT !.notified = TRUE] ELSE states[s]]
    /\ UNCHANGED <<dests, mapVars, links, ctrlVars, envVars>>

\* markNewLinksNotified
HandleNotified ==
    /\ Takes("notified")
    /\ LET pairs == Head(events).pairs
       IN  states' = [s \in State |->
              IF /\ states[s].status = "established"
                 /\ <<s, states[s].link>> \in pairs
              THEN [states[s] EXCEPT !.notified = TRUE] ELSE states[s]]
    /\ UNCHANGED <<dests, mapVars, links, ctrlVars, envVars>>

\* Mutant: only faults of earlier iterations are cleared.
HandleFaultedEarlier ==
    /\ Takes("faulted")
    /\ LET pairs == Head(events).pairs
           cleared(s, g) == \E p \in pairs :
              p[1] = s /\ p[2].id = g.id /\ p[2].iteration > g.iteration
       IN  states' = [s \in State |->
              [states[s] EXCEPT !.faults = {g \in @ : ~cleared(s, g)}]]
    /\ UNCHANGED <<dests, mapVars, links, ctrlVars, envVars>>

\* markFaultedLinksNotified
HandleFaulted ==
    /\ Takes("faulted")
    /\ LET pairs == Head(events).pairs
           cleared(s, g) == \E p \in pairs : p[1] = s /\ Covers(p[2], g)   \* clearFault
       IN  states' = [s \in State |->
              [states[s] EXCEPT !.faults = {g \in @ : ~cleared(s, g)}]]
    /\ UNCHANGED <<dests, mapVars, links, ctrlVars, envVars>>

-------------------------------------------------------------------------------
(***************************************************************************)
(* run(): the notification of the controllers and the tickers              *)
(***************************************************************************)
Idle == [step |-> "idle", links |-> {}, faults |-> {}]

\* What notifyControllersOfLinks makes of the state r of destination d.
Reviewed(r, l) ==
    IF r.notified \/ r.status # "established" THEN r
    ELSE IF l = None THEN DialFailed(WithStatus(r, "dialFailed"))
    ELSE WithoutId(r, l.id)

\* notifyControllersOfLinks, after the loop has changed the link states to sts
NotifyControllers(sts, room) ==
    IF notify.step # "idle"
    THEN states' = sts /\ UNCHANGED sendVars
    ELSE LET reviewed(s) == IF s \in Entries THEN Reviewed(sts[s], linkMap[sts[s].dest])
                            ELSE sts[s]
             new   == {<<s, linkMap[sts[s].dest]>> :
                          s \in {s \in Entries : /\ sts[s].status = "established"
                                                 /\ ~sts[s].notified
                                                 /\ linkMap[sts[s].dest] # None
                                                 /\ Dialed(linkMap[sts[s].dest])}}
             lost  == UNION {{s} \X reviewed(s).faults : s \in Entries}
         IN  /\ states' = [s \in State |-> reviewed(s)]
             /\ notify' = IF room /\ new \cup lost # {}
                          THEN [step   |-> IF new = {} THEN "faults" ELSE "links",
                                links  |-> new, faults |-> lost]
                          ELSE notify
             /\ UNCHANGED <<told, reported>>

TriggerFires(room) ==
    /\ trigger /\ trigger' = FALSE
    /\ NotifyControllers(states, room)
    /\ Well(room)
    /\ UNCHANGED <<dests, mapVars, links, events, updates>>

\* evaluateLinkStateQueue takes every state from the heap whose time has come,
\* also one that is no entry any more.
QueueTick(room, sendRoom) ==
    /\ NotifyControllers([s \in State |->
            IF states[s].waiting /\ states[s].due
            THEN Evaluate([states[s] EXCEPT !.waiting = FALSE], room)
            ELSE states[s]], sendRoom)
    /\ Well(room /\ sendRoom)
    /\ UNCHANGED <<dests, trigger, mapVars, links, events, updates>>

HasOpenLink(d) == linkMap[d] # None /\ Open(linkMap[d])

\* evaluateDestinations; expired are the destinations that were unhealthy for
\* 48 hours.
ScanTick(room, expired) ==
    LET checked(r) == IF r.status = "established" /\ ~HasOpenLink(r.dest)
                      THEN [WithStatus(r, "linkFailed") EXCEPT !.due = TRUE] ELSE r
        linked(d)  == /\ states[dests[d].entry].status = "established"
                      /\ HasOpenLink(d)
        drop(d)    == \/ dests[d].entry = None
                      \/ d \in expired /\ ~dests[d].healthy /\ ~linked(d)
    IN  /\ states' = [s \in State |->
               IF s \in Entries THEN Evaluate(checked(states[s]), room) ELSE states[s]]
        /\ dests' = [d \in Dest |->
               IF dests[d].known /\ drop(d)
               THEN [known |-> FALSE, healthy |-> FALSE, entry |-> None] ELSE dests[d]]
        /\ Well(room)
        /\ UNCHANGED <<mapVars, links, events, ctrlVars, updates>>

\* Time passes until nextDial of the state s.
BackoffElapses(s) ==
    /\ ~states[s].due
    /\ states' = [states EXCEPT ![s].due = TRUE]
    /\ UNCHANGED <<dests, mapVars, links, events, ctrlVars, envVars>>

-------------------------------------------------------------------------------
(***************************************************************************)
(* The dialer pool.  A dial holds dialActive until its last step.          *)
(***************************************************************************)
SetDial(s, step) == states' = [states EXCEPT ![s].dial = step]

\* The dial looks for a link that is there already.
DialStarts(s) ==
    /\ states[s].dial = "queued"
    /\ LET l == linkMap[states[s].dest]
       IN  states' = [states EXCEPT ![s].dial = IF l = None THEN "dialing" ELSE "found",
                                    ![s].found = l]
    /\ UNCHANGED <<dests, mapVars, links, events, ctrlVars, envVars>>

\* The link the dial of state s would give
DialedLink(s) ==
    [dest |-> states[s].dest, id |-> s, iteration |-> states[s].attempts]

DialSucceeds(s) ==
    /\ states[s].dial = "dialing"
    /\ links[DialedLink(s)].apply = "none"     \* bound: iterations have run out
    /\ links' = [links EXCEPT ![DialedLink(s)].apply = "made"]
    /\ SetDial(s, "applying")
    /\ UNCHANGED <<dests, mapVars, events, ctrlVars, envVars>>

DialErrs(s) ==
    /\ states[s].dial = "dialing"
    /\ \/ Well(FALSE)
       \/ /\ links[DialedLink(s)].apply # "none"
          /\ UNCHANGED troubles
    /\ SetDial(s, "failed")
    /\ UNCHANGED <<dests, mapVars, links, events, ctrlVars, updates>>

\* The dial posts its outcome and is over.
DialPosts(s) ==
    /\ \/ /\ states[s].dial = "found"
          /\ Post([kind |-> "established", link |-> states[s].found])
       \/ /\ states[s].dial = "failed"
          /\ Post([kind |-> "dialFailed", state |-> s])
    /\ states' = [states EXCEPT ![s].dial = "idle", ![s].found = None]
    /\ UNCHANGED <<dests, mapVars, links, ctrlVars, envVars>>

-------------------------------------------------------------------------------
(***************************************************************************)
(* applyLink, from DialSucceeded or LinkAccepted, under the Mutex          *)
(***************************************************************************)
\* A listener accepts a link that another router dialed.
Accept(l) ==
    /\ ~Dialed(l) /\ PeerDest[l.id] = l.dest /\ l.iteration <= MaxAccepts
    /\ \A m \in Link : /\ m.dest = l.dest /\ m.id = l.id
                       => (links[m].apply = "none" <=> m.iteration >= l.iteration)
    /\ links' = [links EXCEPT ![l].apply = "made"]
    /\ UNCHANGED <<loopVars, mapVars, events, ctrlVars, envVars>>

\* Mutant: the dial does not look at what applyLink returns.
DialIsOver(l, step) ==
    states' = [s \in State |->
        IF s = l.id THEN [states[s] EXCEPT !.dial = "idle"] ELSE states[s]]

\* The dial of the link l, if it was dialed here, goes on to step.
DialGoesOn(l, step) ==
    states' = [s \in State |->
        IF s = l.id THEN [states[s] EXCEPT !.dial = step] ELSE states[s]]

HoldsMutex(l) == links[l].apply \in {"checked", "inserted"}

\* The new link loses against the current one, which counts it.
Loses(l, existing) ==
    existing # None /\ existing.id < l.id /\ links[existing].dups + 1 <= Patience

\* The checks at the head of applyLink.
ApplyChecks(l) ==
    /\ links[l].apply = "made"
    /\ \A m \in Link : ~HoldsMutex(m)
    /\ LET existing == linkMap[l.dest]
           counted  == existing # None /\ existing.id < l.id
           rejected == links[existing].dups + 1
       IN  \/ /\ ~Open(l)
              /\ links' = [links EXCEPT ![l].apply = "done"]
              /\ DialGoesOn(l, "failed")
           \/ /\ Open(l) /\ Loses(l, existing)
              /\ links' = [links EXCEPT ![l].apply = "done", ![l].doomed = TRUE,
                                        ![existing].dups = rejected]
              /\ DialGoesOn(l, "idle")
           \/ /\ Open(l) /\ ~Loses(l, existing)
              /\ links' = [m \in Link |->
                    IF m = l THEN [links[m] EXCEPT !.apply = "checked"]
                    ELSE IF m = existing
                    THEN [links[m] EXCEPT !.doomed = TRUE,
                                          !.dups = IF counted THEN rejected ELSE @]
                    ELSE links[m]]
              /\ UNCHANGED states
    /\ UNCHANGED <<dests, mapVars, events, ctrlVars, envVars>>

ApplyInserts(l) ==
    /\ links[l].apply = "checked"
    /\ linkMap'     = [linkMap EXCEPT ![l.dest] = l]
    /\ linkByIdMap' = [linkByIdMap EXCEPT ![l.id] = l]
    /\ links' = [links EXCEPT ![l].apply = "inserted"]
    /\ UNCHANGED <<loopVars, events, ctrlVars, envVars>>

ApplyPosts(l) ==
    /\ links[l].apply = "inserted"
    /\ Post([kind |-> "established", link |-> l])
    /\ links' = [links EXCEPT ![l].apply = "done"]
    /\ DialGoesOn(l, "idle")
    /\ UNCHANGED <<dests, mapVars, ctrlVars, envVars>>

-------------------------------------------------------------------------------
(***************************************************************************)
(* The end of a link: its channel closes, here, at the other router or     *)
(* between them, and its close handler runs LinkClosed.                    *)
(***************************************************************************)
Close(l) ==
    /\ links[l].apply # "none" /\ Open(l)
    /\ links[l].apply = "checked" => LateCloses
    /\ links' = [links EXCEPT ![l].close = "closed"]
    /\ links[l].doomed \/ troubles < MaxTroubles
    /\ troubles' = IF links[l].doomed THEN troubles ELSE troubles + 1
    /\ UNCHANGED <<loopVars, mapVars, events, ctrlVars, updates>>

\* Mutant: the link is removed from the maps even if it has been replaced.
LinkClosedRemovesAny(l) ==
    /\ links[l].close = "closed"
    /\ links' = [links EXCEPT ![l].close = "current"]
    /\ linkMap'     = [linkMap EXCEPT ![l.dest] = None]
    /\ linkByIdMap' = [linkByIdMap EXCEPT ![l.id] = None]
    /\ UNCHANGED <<loopVars, events, ctrlVars, envVars>>

\* Mutant: the id is removed from its map even if a later link of the state has it.
LinkClosedForgetsId(l) ==
    /\ links[l].close = "closed"
    /\ links' = [links EXCEPT ![l].close =
                    IF linkMap[l.dest] = l THEN "current" ELSE "replaced"]
    /\ linkMap'     = [linkMap EXCEPT ![l.dest] = IF @ = l THEN None ELSE @]
    /\ linkByIdMap' = [linkByIdMap EXCEPT ![l.id] = None]
    /\ UNCHANGED <<loopVars, events, ctrlVars, envVars>>

\* The first half of LinkClosed, under linkMapLocks: a link that has been
\* replaced leaves the maps to its successor.
LinkClosedRemoves(l) ==
    /\ links[l].close = "closed"
    /\ links' = [links EXCEPT ![l].close =
                    IF linkMap[l.dest] = l THEN "current" ELSE "replaced"]
    /\ linkMap'     = [linkMap EXCEPT ![l.dest] = IF @ = l THEN None ELSE @]
    /\ linkByIdMap' = [linkByIdMap EXCEPT ![l.id] = IF @ = l THEN None ELSE @]
    /\ UNCHANGED <<loopVars, events, ctrlVars, envVars>>

\* The second half, which run() hears of as an event.
LinkClosedPosts(l) ==
    /\ \/ /\ links[l].close = "current"
          /\ Post([kind |-> "closed", link |-> l])
       \/ /\ links[l].close = "replaced"
          /\ Post([kind |-> "replaced", link |-> l])
    /\ links' = [links EXCEPT ![l].close = "done"]
    /\ UNCHANGED <<loopVars, mapVars, ctrlVars, envVars>>

-------------------------------------------------------------------------------
(***************************************************************************)
(* The notification of the controllers, in the rate limiter pool           *)
(***************************************************************************)
SendNewLinks ==
    /\ notify.step = "links"
    /\ notify' = IF notify.faults = {} THEN Idle ELSE [notify EXCEPT !.step = "faults"]
    /\ \/ /\ told' = told \cup {p[2] : p \in notify.links}
          /\ Post([kind |-> "notified", pairs |-> notify.links])
          /\ UNCHANGED troubles
       \/ \* some controllers may have the message, one has not
          /\ told' \in {told, told \cup {p[2] : p \in notify.links}}
          /\ UNCHANGED events
          /\ Well(FALSE)
    /\ UNCHANGED <<loopVars, mapVars, links, trigger, reported, updates>>

\* Each fault is sent on its own; sent are those that all controllers took.
SendLinkFaults ==
    /\ notify.step = "faults"
    /\ notify' = Idle
    /\ \E sent \in SUBSET notify.faults :
          /\ Well(sent = notify.faults)
          /\ reported' = reported \cup {p[2] : p \in sent}
          /\ IF sent = {} THEN UNCHANGED events
             ELSE Post([kind |-> "faulted", pairs |-> sent])
    /\ UNCHANGED <<loopVars, mapVars, links, trigger, told, updates>>

-------------------------------------------------------------------------------
\* The controllers tell of a change of the router d.  Every message has a
\* goroutine of its own, so changes arrive in any order.
PeerStateChange(d) ==
    /\ updates < MaxUpdates
    /\ updates' = updates + 1
    /\ \/ Post([kind |-> "remove", dest |-> d])
       \/ Post([kind |-> "update", dest |-> d, healthy |-> FALSE])
       \/ \E listed, moved \in BOOLEAN :
             Post([kind |-> "update", dest |-> d, healthy |-> TRUE,
                   listed |-> listed, moved |-> moved])
    /\ UNCHANGED <<loopVars, mapVars, links, ctrlVars, troubles>>

Init ==
    /\ dests   = [d \in Dest |-> [known |-> FALSE, healthy |-> FALSE, entry |-> None]]
    /\ states  = [s \in State |-> Unused]
    /\ linkMap = [d \in Dest |-> None]
    /\ linkByIdMap = [i \in State \cup Peer |-> None]
    /\ links   = [l \in Link |->
                     [apply |-> "none", close |-> "open", doomed |-> FALSE, dups |-> 0]]
    /\ events = <<>> /\ trigger = FALSE
    /\ notify = Idle /\ told = {} /\ reported = {}
    /\ updates = 0 /\ troubles = 0

\* One event of run()
Handle ==
    \/ HandleUnhealthy
    \/ \E room \in BOOLEAN : HandleListed(room)
    \/ HandleUnlisted
    \/ HandleRemove
    \/ HandleEstablished
    \/ \E room \in BOOLEAN : HandleClosed(room)
    \/ HandleReplaced
    \/ HandleDialFailed
    \/ HandleNotified
    \/ HandleFaulted

Scan == \E room \in BOOLEAN, expired \in SUBSET Dest : ScanTick(room, expired)

DialStep(s)  == DialStarts(s) \/ DialSucceeds(s) \/ DialErrs(s) \/ DialPosts(s)
ApplyStep(l) == ApplyChecks(l) \/ ApplyInserts(l) \/ ApplyPosts(l)
CloseStep(l) == LinkClosedRemoves(l) \/ LinkClosedPosts(l)
NotifyStep   == SendNewLinks \/ SendLinkFaults

Next ==
    \/ Handle
    \/ \E room \in BOOLEAN : TriggerFires(room)
    \/ \E room, sendRoom \in BOOLEAN : QueueTick(room, sendRoom)
    \/ Scan
    \/ \E s \in State : BackoffElapses(s) \/ DialStep(s)
    \/ \E l \in Link : Accept(l) \/ ApplyStep(l) \/ Close(l) \/ CloseStep(l)
    \/ NotifyStep
    \/ \E d \in Dest : PeerStateChange(d)

Spec == Init /\ [][Next]_vars

\* run() goes on, and so do the goroutines and timers beside it.  A goroutine that
\* waits for room in the event channel gets it in its turn.
FairSpec ==
    /\ Spec
    /\ WF_vars(Handle) /\ WF_vars(Scan) /\ SF_vars(NotifyStep)
    /\ WF_vars(\E room \in BOOLEAN : TriggerFires(room))
    /\ WF_vars(\E room, sendRoom \in BOOLEAN : QueueTick(room, sendRoom))
    /\ \A s \in State : WF_vars(BackoffElapses(s)) /\ SF_vars(DialStep(s))
    /\ \A l \in Link : SF_vars(ApplyStep(l)) /\ SF_vars(CloseStep(l))

-------------------------------------------------------------------------------
DestType  == [known : BOOLEAN, healthy : BOOLEAN, entry : State \cup {None}]
Status    == {"unused", "pending", "dialing", "queueFailed", "dialFailed",
              "linkFailed", "destRemoved", "established"}
StateType ==
    [dest     : Dest \cup {None},
     status   : Status,
     due      : BOOLEAN,
     waiting  : BOOLEAN,
     dial     : {"idle", "queued", "dialing", "applying", "found", "failed"},
     found    : Link \cup {None},
     attempts : 0 .. MaxIteration,
     notified : BOOLEAN,
     link     : Link \cup {None},
     faults   : SUBSET FaultType]

LinkType ==
    [apply  : {"none", "made", "checked", "inserted", "done"},
     close  : {"open", "closed", "current", "replaced", "done"},
     doomed : BOOLEAN,
     dups   : Nat]

UpdateType ==
    [kind : {"update"}, dest : Dest, healthy : {FALSE}]
        \cup [kind : {"update"}, dest : Dest, healthy : {TRUE},
              listed : BOOLEAN, moved : BOOLEAN]

Event ==
    UpdateType
        \cup [kind : {"remove"}, dest : Dest]
        \cup [kind : {"established", "closed", "replaced"}, link : Link]
        \cup [kind : {"dialFailed"}, state : State]
        \cup [kind : {"notified"}, pairs : SUBSET (State \X Link)]
        \cup [kind : {"faulted"}, pairs : SUBSET (State \X FaultType)]

\* Every variable has its type, and the channel is within its capacity.
TypeOK ==
    /\ dests \in [Dest -> DestType]
    /\ states \in [State -> StateType]
    /\ linkMap \in [Dest -> Link \cup {None}]
    /\ linkByIdMap \in [State \cup Peer -> Link \cup {None}]
    /\ links \in [Link -> LinkType]
    /\ events \in Seq(Event) /\ Len(events) <= QueueCap
    /\ trigger \in BOOLEAN
    /\ notify \in [step : {"idle", "links", "faults"}, links : SUBSET (State \X Link),
                   faults : SUBSET (State \X FaultType)]
    /\ told \subseteq Link
    /\ reported \subseteq FaultType
    /\ updates \in 0 .. MaxUpdates
    /\ troubles \in 0 .. MaxTroubles

-------------------------------------------------------------------------------
(***************************************************************************)
(* Properties                                                              *)
(***************************************************************************)
Awaits(kind, d) == \E i \in DOMAIN events :
    events[i].kind = kind /\ events[i].link.dest = d
AwaitsFailure(s) == \E i \in DOMAIN events :
    events[i].kind = "dialFailed" /\ events[i].state = s

\* An entry with StatusDialing is never dialed again (evaluateLinkState), so it
\* must not be left without a dial or an event that will change its status,
\* whatever becomes of the links that were accepted, rejected and closed
\* meanwhile.
DialingNotStuck ==
    \A s \in Entries :
        states[s].status = "dialing" =>
            \/ states[s].dial # "idle"
            \/ AwaitsFailure(s)
            \/ Awaits("established", states[s].dest)

\* linkMap and linkByIdMap are changed by registrations and ends of several
\* links with the same key or id; the current link of a key is always the one
\* that its id finds.
IndexAgrees ==
    \A d \in Dest : linkMap[d] # None => linkByIdMap[linkMap[d].id] = linkMap[d]

\* applyLink forgets no open link: when it is over, the link is the current one
\* of its key, or it is going to be closed.
NoLeakedLink ==
    \A l \in Link :
        links[l].apply = "done" /\ Open(l) => linkMap[l.dest] = l \/ links[l].doomed

\* ctrlsNotified is set for the link the controllers were told of and no other,
\* although the link may be replaced while the message is sent.
NotifiedMeansTold ==
    \A s \in Entries :
        states[s].status = "established" /\ states[s].notified => states[s].link \in told

\* run() has heard of the end of the link l.
Finished(l) ==
    /\ links[l].close = "done"
    /\ \A i \in DOMAIN events :
          events[i].kind \in {"closed", "replaced"} => events[i].link # l

\* The end of a link that the controllers were told of is not forgotten: as long
\* as its state is wanted, the fault of the link, or of a later link of that
\* state, is pending or sent, or a later link has not ended.
FaultNotForgotten ==
    \A l \in told :
        dests[l.dest].entry = l.id =>
            \E m \in Link :
               /\ m.dest = l.dest /\ Covers(m, l) /\ links[m].apply # "none"
               /\ ~Finished(m) \/ Fault(m) \in states[l.id].faults \cup reported

\* A router that has an entry gets an open link, or loses the entry: no order of
\* dials, accepts, ends of links, health changes and events leaves it unlinked
\* once troubles are over.
Linked ==
    \A d \in Dest :
        dests[d].entry # None ~> (dests[d].entry = None \/ HasOpenLink(d))

\* The controllers are told of every link that was dialed for an entry and stays.
NewLinkTold ==
    \A l \in Link :
        linkMap[l.dest] = l /\ dests[l.dest].entry = l.id
            ~> (l \in told \/ linkMap[l.dest] # l \/ dests[l.dest].entry # l.id)

\* A pending fault does not stay pending for ever.
FaultsSettle ==
    \A s \in State : \A f \in FaultType :
        s \in Entries /\ f \in states[s].faults
            ~> (s \notin Entries \/ f \notin states[s].faults)

(***************************************************************************)
(* What comments of the code say and the code does not do                  *)
(***************************************************************************)
\* evaluateDestinations verifies "that links marked as established have an open
\* link" so that a link whose end was missed "will eventually get fixed".  A link
\* that closes between the check and the insertion of applyLink stays the
\* current link: the dial that should replace it finds it and marks it
\* established again.
DeadLinkLeaves ==
    \A l \in Link :
        linkMap[l.dest] = l /\ ~Open(l) ~> linkMap[l.dest] # l

\* ApplyListenerChanges takes an orphaned entry from linkMap, which "will prevent
\* the link from being recreated once closed".  But the state may still wait in
\* the heap, which dials it.
OnlyEntriesAreDialed ==
    [][\A s \in State :
          states[s].dial = "idle" /\ states'[s].dial = "queued" => s \in Entries']_vars

===============================================================================
