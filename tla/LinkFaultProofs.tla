---------------------------- MODULE LinkFaultProofs ----------------------------
(***************************************************************************)
(* Proof that the link registry forgets no fault, for every set of routers *)
(* and of link states, every capacity of the event channel and every       *)
(* bound, as long as no link closes while it is being registered.          *)
(***************************************************************************)
EXTENDS LinkRegistryProofs

USE IdAssumption, PeerAssumption, NoneAssumption, BoundAssumption

-------------------------------------------------------------------------------
(***************************************************************************)
(* The inductive invariant, in parts.  It holds beside LinkInv.            *)
(***************************************************************************)
Made(l)    == links[l].apply # "none"
Settled(l) == links[l].apply \in {"inserted", "done"}

\* A link does not end before it is made, or while it is being registered.
MadeOpen    == \A l \in Link : ~Made(l) => Open(l)
CheckedOpen == \A l \in Link : links[l].apply = "checked" => Open(l)

\* LinkClosed has not yet begun for the current link of a router.
MapAlive == \A d \in Dest : linkMap[d] # None => links[linkMap[d]].close \in {"open", "closed"}

\* What states, events and messages say of links is about links that were made.
StatesClaim ==
    \A s \in State : /\ states[s].link # None => Settled(states[s].link)
                     /\ states[s].found # None => Settled(states[s].found)
EventsClaim ==
    \A e \in Queued : /\ e.kind = "established" => Settled(e.link)
                      /\ e.kind \in {"closed", "replaced"} => Made(e.link)
SendsClaim ==
    /\ \A p \in notify.links : Made(p[2])
    /\ \A l \in told : Made(l)

\* A state has counted the dials that made its links, and raises the count only
\* when no dial of it is running.
AttemptsCounted ==
    \A l \in Link : Dialed(l) /\ Made(l) =>
        /\ l.iteration <= states[l.id].attempts
        /\ Applying(l) => l.iteration = states[l.id].attempts

\* A state dials only if the current link of the router is not its own.
DialsAnew ==
    \A s \in State : states[s].dial = "dialing" /\ linkMap[states[s].dest] # None =>
        linkMap[states[s].dest].id # s

\* So the current link is the last one of the state that dialed it.
CurrentLatest ==
    \A d \in Dest : linkMap[d] # None /\ Dialed(linkMap[d]) =>
        \A m \in Link : Made(m) /\ m.id = linkMap[d].id => Covers(linkMap[d], m)

\* A fault is one of a link that was made.
Real(f) == \E m \in Link : Made(m) /\ f = Fault(m)

FaultsReal ==
    /\ \A s \in State : \A f \in states[s].faults : Real(f)
    /\ \A p \in notify.faults : Real(p[2])
    /\ \A f \in reported : Real(f)

\* A report that was acknowledged was sent.
Acknowledged == \A e \in Queued : e.kind = "faulted" => \A p \in e.pairs : p[2] \in reported

\* The link m has not ended, or its end is known as a fault.
Vouches(m) == ~Finished(m) \/ Fault(m) \in states[m.id].faults \cup reported

\* For every link of an entry, told or not, a link that covers it vouches.
Remembered ==
    \A l \in Link : Made(l) /\ l.id \in Entries =>
        \E m \in Link : Made(m) /\ Covers(m, l) /\ Vouches(m)

Lives    == MadeOpen /\ CheckedOpen /\ MapAlive /\ StatesClaim /\ EventsClaim /\ SendsClaim
Counted  == AttemptsCounted /\ DialsAnew /\ CurrentLatest
Recorded == FaultsReal /\ Acknowledged /\ Remembered
FaultInv == Lives /\ Counted /\ Recorded

-------------------------------------------------------------------------------
(***************************************************************************)
(* What run() may make of the link state r, apart from its faults: it takes *)
(* the link away or gives it one that is settled, and counts another dial   *)
(* or gives the state to a router only if no dial is running.              *)
(***************************************************************************)
Tame(r, q) ==
    /\ q \in StateType
    /\ q.found = r.found
    /\ q.link = None \/ q.link = r.link \/ Settled(q.link)
    /\ \/ q.dial = r.dial /\ q.attempts = r.attempts /\ q.dest = r.dest
       \/ r.dial = "idle" /\ q.dial \in {"idle", "queued"} /\ q.attempts >= r.attempts

\* It leaves the faults and the router alone.
Tidy(r, q) == Tame(r, q) /\ q.faults = r.faults /\ q.dest = r.dest

LEMMA TameSelf == ASSUME NEW r \in StateType PROVE Tidy(r, r)
  BY DEF Tidy, Tame

LEMMA TameTransitive ==
    ASSUME NEW r \in StateType, NEW q, NEW t, Tame(r, q), Tame(q, t) PROVE Tame(r, t)
  <1>1. r.attempts \in Int /\ q.attempts \in Int /\ t.attempts \in Int
    BY DEF Tame, StateType
  <1> QED BY <1>1 DEF Tame

LEMMA TidyTransitive ==
    ASSUME NEW r \in StateType, NEW q, NEW t, Tidy(r, q), Tidy(q, t) PROVE Tidy(r, t)
  BY TameTransitive DEF Tidy

LEMMA WithStatusTidy ==
    ASSUME NEW r \in StateType, NEW status \in Status PROVE Tidy(r, WithStatus(r, status))
  BY DEF Tidy, Tame, WithStatus, StateType, Status

LEMMA DueTidy ==
    ASSUME NEW r \in StateType, NEW b \in BOOLEAN
    PROVE  /\ Tidy(r, [r EXCEPT !.due = b]) /\ Tidy(r, [r EXCEPT !.waiting = b])
           /\ Tidy(r, [r EXCEPT !.notified = b])
  BY DEF Tidy, Tame, StateType

LEMMA DialFailedTidy == ASSUME NEW r \in StateType PROVE Tidy(r, DialFailed(r))
  BY DEF Tidy, Tame, DialFailed, StateType

LEMMA EvaluateTidy ==
    ASSUME NEW r \in StateType, NEW room \in BOOLEAN PROVE Tidy(r, Evaluate(r, room))
  <1> DEFINE a == IF r.attempts < MaxIteration THEN r.attempts + 1 ELSE r.attempts
             q == [WithStatus(r, "dialing") EXCEPT !.attempts = a]
  <1>1. a \in 0 .. MaxIteration /\ a >= r.attempts /\ r.attempts \in 0 .. MaxIteration
    BY DEF StateType
  <1>2. /\ q \in StateType /\ q.dest = r.dest /\ q.dial = r.dial /\ q.found = r.found
        /\ q.faults = r.faults /\ q.link \in {r.link, None} /\ q.attempts = a
    BY <1>1 DEF StateType, Status, WithStatus
  <1>3. CASE ~(CouldDial(r) /\ r.dial = "idle")
    BY <1>3, TameSelf DEF Evaluate
  <1>4. CASE CouldDial(r) /\ r.dial = "idle"
    <2>1. /\ room => Evaluate(r, room) = [q EXCEPT !.dial = "queued"]
          /\ ~room => Evaluate(r, room) = DialFailed(WithStatus(q, "queueFailed"))
      BY <1>4 DEF Evaluate, WithStatus
    <2> HIDE DEF q, a
    <2>2. Tidy(r, q)
      BY <1>1, <1>2, <1>4 DEF Tidy, Tame, StateType
    <2>3. Tidy(r, [q EXCEPT !.dial = "queued"])
      BY <1>1, <1>2, <1>4 DEF Tidy, Tame, StateType
    <2>4. Tidy(q, WithStatus(q, "queueFailed"))
      BY <1>2, WithStatusTidy DEF Status
    <2>5. Tidy(WithStatus(q, "queueFailed"), DialFailed(WithStatus(q, "queueFailed")))
      BY <2>4, DialFailedTidy DEF Tidy, Tame
    <2>6. Tidy(r, DialFailed(WithStatus(q, "queueFailed")))
      BY <1>2, <2>2, <2>4, <2>5, TidyTransitive
    <2> QED BY <2>1, <2>3, <2>6
  <1> QED BY <1>3, <1>4

\* A new link state
LEMMA PendingTame ==
    ASSUME NEW r \in StateType, r.dial = "idle", NEW d \in Dest
    PROVE  LET q == [r EXCEPT !.dest = d, !.status = "pending"]
           IN  q \in StateType /\ Tame(r, q) /\ q.faults = r.faults
  <1> DEFINE q == [r EXCEPT !.dest = d, !.status = "pending"]
  <1>0. r.attempts \in Int /\ r.attempts >= r.attempts
    BY DEF StateType
  <1>1. /\ q \in StateType /\ q.faults = r.faults /\ q.found = r.found /\ q.link = r.link
        /\ q.dial = "idle" /\ q.attempts = r.attempts
    BY DEF StateType, Status
  <1> HIDE DEF q
  <1>2. q \in StateType /\ Tame(r, q) /\ q.faults = r.faults
    BY <1>0, <1>1 DEF Tame
  <1> QED BY <1>2 DEF q

\* A change of the pending faults only
LEMMA FaultsTame ==
    ASSUME NEW r \in StateType, NEW S \in SUBSET FaultType
    PROVE  LET q == [r EXCEPT !.faults = S]
           IN  Tame(r, q) /\ q.faults = S /\ q.dest = r.dest
  BY DEF Tame, StateType

-------------------------------------------------------------------------------
(***************************************************************************)
(* What the handlers and tickers of run() have in common                   *)
(***************************************************************************)
\* The ends of links go on, but LinkClosed does not begin.
LinksClose ==
    \A l \in Link :
        /\ links'[l].apply = links[l].apply
        /\ \/ links'[l].close = links[l].close
           \/ Open(l) /\ links'[l].close = "closed" /\ Settled(l)

StatesTame == \A s \in State : Tame(states[s], states'[s])

\* A message is about links that were made.
SendsMade == (\A p \in notify'.links : Made(p[2])) /\ told' = told

LEMMA ClaimedLinks ==
    ASSUME TypeOK, Lives, NEW s \in State, states[s].link # None
    PROVE  states[s].link \in Link /\ Settled(states[s].link)
  BY DEF TypeOK, StateType, Lives, StatesClaim

LEMMA CalmClose == ASSUME TypeOK, UNCHANGED links PROVE LinksClose
  BY DEF LinksClose

\* Only links of states are closed.
LEMMA CloseAllClose ==
    ASSUME TypeOK, Lives, NEW s \in State, NEW closing \in SUBSET {states[s].link},
           CloseAll(closing)
    PROVE  LinksClose
  <1> SUFFICES ASSUME NEW l \in Link
               PROVE  /\ links'[l].apply = links[l].apply
                      /\ \/ links'[l].close = links[l].close
                         \/ Open(l) /\ links'[l].close = "closed" /\ Settled(l)
    BY DEF LinksClose
  <1>1. links[l] \in LinkType
    BY DEF TypeOK
  <1>2. links'[l] = IF l \in closing /\ Open(l) THEN [links[l] EXCEPT !.close = "closed"]
                    ELSE links[l]
    BY DEF CloseAll
  <1>3. CASE l \in closing /\ Open(l)
    <2>1. l = states[s].link /\ l # None
      BY <1>3, NoneAssumption
    <2>2. Settled(l)
      BY <2>1, ClaimedLinks
    <2> QED BY <1>1, <1>2, <1>3, <2>2 DEF LinkType
  <1> QED BY <1>1, <1>2, <1>3 DEF LinkType

LEMMA TameClaims == ASSUME LinkInv, Lives, LinksClose, StatesTame PROVE StatesClaim'
  <1> SUFFICES ASSUME NEW s \in State
               PROVE  /\ states'[s].link # None => Settled(states[s].link)'
                      /\ states'[s].found # None => Settled(states[s].found)'
    BY DEF StatesClaim
  <1>1. /\ states'[s].found = states[s].found
        /\ \/ states'[s].link = None \/ states'[s].link = states[s].link
           \/ Settled(states'[s].link)
        /\ states'[s].link \in Link \cup {None}
    BY DEF StatesTame, Tame, StateType
  <1>2. states[s].link \in Link \cup {None} /\ states[s].found \in Link \cup {None}
    BY DEF LinkInv, TypeOK, StateType
  <1>3. \A l \in Link : links'[l].apply = links[l].apply
    BY DEF LinksClose
  <1> QED BY <1>1, <1>2, <1>3 DEF Lives, StatesClaim, Settled

LEMMA LivesLoop ==
    ASSUME LinkInv, TypeOK', Lives, LinksClose, UNCHANGED linkMap, StatesClaim', SendsMade,
           Queued' \subseteq Queued
    PROVE  Lives'
  <1> USE DEF LinkInv, Lives
  <1>1. \A l \in Link : /\ Made(l)' <=> Made(l)
                        /\ Settled(l)' <=> Settled(l)
    BY DEF LinksClose, Made, Settled
  <1>2. MadeOpen' /\ CheckedOpen'
    BY DEF LinksClose, MadeOpen, CheckedOpen, Made, Settled, Open
  <1>3. MapAlive'
    <2> SUFFICES ASSUME NEW d \in Dest, linkMap[d] # None
                 PROVE  links'[linkMap[d]].close \in {"open", "closed"}
      BY DEF MapAlive
    <2>1. linkMap[d] \in Link
      BY DEF TypeOK
    <2> QED BY <2>1 DEF MapAlive, LinksClose
  <1>4. EventsClaim'
    <2> SUFFICES ASSUME NEW e \in Queued
                 PROVE  /\ e.kind = "established" => Settled(e.link)'
                        /\ e.kind \in {"closed", "replaced"} => Made(e.link)'
      BY DEF EventsClaim
    <2>1. e \in Event
      BY DEF Queued, TypeOK
    <2> QED BY <1>1, <2>1, EventFields DEF EventsClaim
  <1>5. SendsClaim'
    <2>1. ASSUME NEW p \in notify'.links PROVE Made(p[2])'
      <3>1. p[2] \in Link
        BY DEF TypeOK
      <3> QED BY <1>1, <3>1 DEF SendsMade
    <2>2. \A l \in told' : Made(l)'
      BY <1>1 DEF SendsMade, SendsClaim, TypeOK
    <2> QED BY <2>1, <2>2 DEF SendsClaim
  <1> QED BY <1>2, <1>3, <1>4, <1>5

LEMMA CountedLoop ==
    ASSUME LinkInv, Counted, \A l \in Link : links'[l].apply = links[l].apply,
           UNCHANGED linkMap, StatesTame
    PROVE  Counted'
  <1> USE DEF LinkInv, Counted
  <1>1. \A l \in Link : (Made(l)' <=> Made(l)) /\ (Applying(l)' <=> Applying(l))
    BY DEF Made, Applying, Dialed
  <1>2. AttemptsCounted'
    <2> SUFFICES ASSUME NEW l \in Link, Dialed(l), Made(l)
                 PROVE  /\ l.iteration <= states'[l.id].attempts
                        /\ Applying(l) => l.iteration = states'[l.id].attempts
      BY <1>1 DEF AttemptsCounted, Dialed
    <2>1. l.id \in State /\ l.iteration \in Int
      BY DEF Dialed, Link
    <2>2. Tame(states[l.id], states'[l.id]) /\ states[l.id] \in StateType
      BY <2>1 DEF StatesTame, TypeOK
    <2>3. states'[l.id].attempts >= states[l.id].attempts
          /\ states[l.id].attempts \in Int /\ states'[l.id].attempts \in Int
      BY <2>2 DEF Tame, StateType
    <2>4. l.iteration <= states'[l.id].attempts
      BY <2>1, <2>3 DEF AttemptsCounted
    <2>5. ASSUME Applying(l) PROVE l.iteration = states'[l.id].attempts
      <3>1. states[l.id].dial = "applying"
        BY <2>5 DEF Dialling, DialApplies
      <3> QED BY <2>2, <2>5, <3>1 DEF Tame, AttemptsCounted
    <2> QED BY <2>4, <2>5
  <1>3. DialsAnew'
    <2> SUFFICES ASSUME NEW s \in State, states'[s].dial = "dialing",
                        linkMap[states'[s].dest] # None
                 PROVE  linkMap[states'[s].dest].id # s
      BY DEF DialsAnew
    <2>1. states[s].dial = "dialing" /\ states'[s].dest = states[s].dest
      BY DEF StatesTame, Tame
    <2> QED BY <2>1 DEF DialsAnew
  <1>4. CurrentLatest'
    BY <1>1 DEF CurrentLatest, Dialed, Covers
  <1> QED BY <1>2, <1>3, <1>4

-------------------------------------------------------------------------------
(***************************************************************************)
(* What is kept of faults                                                  *)
(***************************************************************************)
\* run() hears of no end of a link, and no link comes to its end.
NothingHeard ==
    /\ \A l \in Link : links'[l].close = "done" => links[l].close = "done"
    /\ \A e \in Queued : e.kind \in {"closed", "replaced"} => e \in Queued'

LEMMA FinishedQueued ==
    ASSUME NEW l
    PROVE  Finished(l) <=> /\ links[l].close = "done"
                           /\ \A e \in Queued : e.kind \in {"closed", "replaced"} => e.link # l
  BY DEF Finished, Queued

LEMMA FinishedQueuedNext ==
    ASSUME NEW l
    PROVE  Finished(l)' <=> /\ links'[l].close = "done"
                            /\ \A e \in Queued' : e.kind \in {"closed", "replaced"} => e.link # l
  BY DEF Finished, Queued

LEMMA UnfinishedStays ==
    ASSUME NothingHeard, NEW l \in Link, ~Finished(l) PROVE ~Finished(l)'
  BY FinishedQueued, FinishedQueuedNext DEF NothingHeard

\* A link that vouches goes on to vouch, or hands over to one that covers it.
RememberedKept ==
    \A m \in Link : Made(m) /\ m.id \in Entries /\ Vouches(m) =>
        \E k \in Link : Made(k)' /\ Covers(k, m) /\ Vouches(k)'

LEMMA CoversTransitive ==
    ASSUME NEW k \in Link, NEW m \in Link, NEW l \in Link, Covers(k, m), Covers(m, l)
    PROVE  Covers(k, l)
  BY DEF Covers, Link

LEMMA CoversSelf == ASSUME NEW l \in Link PROVE Covers(l, l)
  BY DEF Covers, Link

LEMMA RememberedStays ==
    ASSUME Remembered, RememberedKept,
           \A l \in Link : Made(l)' /\ l.id \in Entries' =>
               (Made(l) /\ l.id \in Entries) \/ Vouches(l)'
    PROVE  Remembered'
  <1> SUFFICES ASSUME NEW l \in Link, Made(l)', l.id \in Entries'
               PROVE  \E k \in Link : Made(k)' /\ Covers(k, l) /\ Vouches(k)'
    BY DEF Remembered, Covers
  <1>1. CASE Vouches(l)'
    BY <1>1, CoversSelf
  <1>2. CASE Made(l) /\ l.id \in Entries
    <2>1. PICK m \in Link : Made(m) /\ Covers(m, l) /\ Vouches(m)
      BY <1>2 DEF Remembered
    <2>2. m.id \in Entries
      BY <1>2, <2>1 DEF Covers
    <2>3. PICK k \in Link : Made(k)' /\ Covers(k, m) /\ Vouches(k)'
      BY <2>1, <2>2 DEF RememberedKept
    <2> QED BY <2>1, <2>3, CoversTransitive
  <1> QED BY <1>1, <1>2

\* What a step needs for the faults if it drops none
LEMMA RememberedCalm ==
    ASSUME \A l \in Link : ~Finished(l) => ~Finished(l)', \A l \in Link : Made(l) => Made(l)',
           \A s \in State : states[s].faults \subseteq states'[s].faults,
           LinkInv, reported \subseteq reported'
    PROVE  RememberedKept
  <1> SUFFICES ASSUME NEW m \in Link, Made(m), m.id \in Entries, Vouches(m)
               PROVE  Made(m)' /\ Covers(m, m) /\ Vouches(m)'
    BY DEF RememberedKept
  <1>1. m.id \in State
    BY EntriesType DEF LinkInv
  <1>2. Vouches(m)'
    BY <1>1 DEF Vouches, Fault
  <1> QED BY <1>2, CoversSelf

\* Faults stay real, as long as new ones are.
LEMMA RealStays ==
    ASSUME FaultsReal, \A l \in Link : Made(l) => Made(l)',
           \A s \in State : \A f \in states'[s].faults : f \in states[s].faults \/ Real(f),
           \A p \in notify'.faults : Real(p[2]),
           \A f \in reported' : Real(f)
    PROVE  FaultsReal'
  <1>1. ASSUME NEW f, Real(f) PROVE Real(f)'
    BY <1>1 DEF Real, Fault
  <1>2. \A s \in State : \A f \in states'[s].faults : Real(f)'
    BY <1>1 DEF FaultsReal
  <1>3. \A p \in notify'.faults : Real(p[2])'
    <2> SUFFICES ASSUME NEW p \in notify'.faults PROVE \E m \in Link : Made(m)' /\ p[2] = Fault(m)
      BY DEF Real, Fault
    <2>1. PICK m \in Link : Made(m) /\ p[2] = Fault(m)
      BY DEF Real
    <2> QED BY <2>1
  <1>4. \A f \in reported' : Real(f)'
    BY <1>1
  <1> QED BY <1>2, <1>3, <1>4 DEF FaultsReal

LEMMA AcknowledgedStays ==
    ASSUME Acknowledged, reported \subseteq reported',
           \A e \in Queued' : e \in Queued \/ e.kind # "faulted"
    PROVE  Acknowledged'
  BY DEF Acknowledged

\* run() takes no event about the end of a link, or none at all.
LEMMA TakesNothing ==
    ASSUME TypeOK, NEW kind, kind \notin {"closed", "replaced"}, Takes(kind), LinksClose
    PROVE  NothingHeard /\ Queued' \subseteq Queued
  BY TakesQueue DEF NothingHeard, LinksClose

LEMMA SameNothing ==
    ASSUME UNCHANGED events, LinksClose PROVE NothingHeard /\ Queued' \subseteq Queued
  BY DEF Queued, NothingHeard, LinksClose

\* A handler or ticker that leaves the faults alone
LEMMA QuietLoop ==
    ASSUME LinkInv, TypeOK', FaultInv, LinksClose, StatesTame, NothingHeard,
           UNCHANGED linkMap, UNCHANGED sendVars, Queued' \subseteq Queued,
           \A s \in State : states'[s].faults = states[s].faults,
           \A l \in Link : Made(l) /\ l.id \in Entries' => l.id \in Entries
    PROVE  FaultInv'
  <1>1. \A l \in Link : links'[l].apply = links[l].apply /\ (Made(l)' <=> Made(l))
    BY DEF LinksClose, Made
  <1>2. SendsMade
    BY DEF SendsMade, sendVars, FaultInv, Lives, SendsClaim
  <1>3. Lives'
    BY <1>2, TameClaims, LivesLoop DEF FaultInv
  <1>4. Counted'
    BY <1>1, CountedLoop DEF FaultInv
  <1>5. FaultsReal'
    BY <1>1, RealStays DEF sendVars, FaultInv, Recorded, FaultsReal
  <1>6. Acknowledged'
    BY AcknowledgedStays DEF sendVars, FaultInv, Recorded
  <1>7. Remembered'
    BY <1>1, UnfinishedStays, RememberedCalm, RememberedStays DEF sendVars, FaultInv, Recorded
  <1> QED BY <1>3, <1>4, <1>5, <1>6, <1>7 DEF FaultInv, Recorded

-------------------------------------------------------------------------------
(***************************************************************************)
(* run(): the events                                                       *)
(***************************************************************************)
\* States that stay are tame.
LEMMA SameTame ==
    ASSUME TypeOK, UNCHANGED states
    PROVE  StatesTame /\ \A s \in State : states'[s].faults = states[s].faults
  BY TameSelf DEF StatesTame, Tidy, TypeOK

LEMMA AllTidy ==
    ASSUME \A s \in State : Tidy(states[s], states'[s])
    PROVE  StatesTame /\ \A s \in State : states'[s].faults = states[s].faults
  BY DEF StatesTame, Tidy

LEMMA FewerEntries == ASSUME EntriesKept PROVE Entries' \subseteq Entries
  BY DEF EntriesKept, Entries

LEMMA UnhealthyForgets ==
    ASSUME LinkInv, TypeOK', FaultInv, HandleUnhealthy PROVE FaultInv'
  <1> USE DEF HandleUnhealthy, LinkInv
  <1>1. Head(events).dest \in Dest
    BY TakesQueue, EventFields
  <1>2. Entries' \subseteq Entries
    BY <1>1 DEF Entries, TypeOK, DestType
  <1>3. LinksClose /\ NothingHeard /\ Queued' \subseteq Queued
    BY CalmClose, TakesNothing
  <1> QED BY <1>2, <1>3, SameTame, QuietLoop DEF mapVars, ctrlVars

LEMMA UnlistedForgets ==
    ASSUME LinkInv, TypeOK', FaultInv, HandleUnlisted PROVE FaultInv'
  <1> DEFINE entry == dests[Head(events).dest].entry
  <1> USE DEF HandleUnlisted, LinkInv
  <1>1. Head(events).dest \in Dest
    BY TakesQueue, EventFields
  <1>2. Entries' \subseteq Entries
    BY <1>1 DEF Entries, TypeOK, DestType
  <1>3. LinksClose
    <2>1. CASE entry = None
      BY <2>1 DEF CloseAll, LinksClose
    <2>2. CASE entry # None
      BY <1>1, <2>2, CloseAllClose DEF TypeOK, DestType, FaultInv
    <2> QED BY <2>1, <2>2
  <1>4. NothingHeard /\ Queued' \subseteq Queued
    BY <1>3, TakesNothing
  <1> QED BY <1>2, <1>3, <1>4, SameTame, QuietLoop DEF mapVars, ctrlVars

LEMMA RemoveForgets ==
    ASSUME LinkInv, TypeOK', FaultInv, HandleRemove PROVE FaultInv'
  <1> USE DEF HandleRemove, LinkInv
  <1>1. Head(events).dest \in Dest
    BY TakesQueue, EventFields
  <1>2. Entries' \subseteq Entries
    BY <1>1 DEF Entries, TypeOK, DestType
  <1>3. LinksClose /\ NothingHeard /\ Queued' \subseteq Queued
    BY CalmClose, TakesNothing
  <1>4. ASSUME NEW s \in State PROVE Tidy(states[s], states'[s])
    BY TameSelf, WithStatusTidy DEF TypeOK, Status
  <1> QED BY <1>2, <1>3, <1>4, AllTidy, QuietLoop DEF mapVars, ctrlVars

\* A new entry is a state that has no links yet.
LEMMA ListedForgets ==
    ASSUME LinkInv, TypeOK', FaultInv, NEW room \in BOOLEAN, HandleListed(room)
    PROVE  FaultInv'
  <1> DEFINE d     == Head(events).dest
             entry == dests[d].entry
  <1> USE DEF LinkInv
  <1>0. /\ Takes("update") /\ UNCHANGED <<mapVars, ctrlVars>> /\ d \in Dest
    BY TakesQueue, EventFields DEF HandleListed
  <1>1. CASE entry = None
    <2>1. PICK s \in State :
              /\ states[s].status = "unused"
              /\ dests' = [dests EXCEPT ![d] = [known |-> TRUE, healthy |-> TRUE, entry |-> s]]
              /\ states' = [states EXCEPT ![s] =
                     Evaluate([@ EXCEPT !.dest = d, !.status = "pending"], room)]
              /\ UNCHANGED links
      BY <1>1 DEF HandleListed
    <2> DEFINE q == [states[s] EXCEPT !.dest = d, !.status = "pending"]
    <2>2. Sound(states[s]) /\ states[s].dest = None /\ states[s].dial = "idle"
      BY <2>1 DEF Owned, StatesSound, Sound
    <2>3. q \in StateType /\ Tame(states[s], q) /\ q.faults = states[s].faults
      BY <1>0, <2>2, PendingTame DEF Sound
    <2>4. states'[s] = Evaluate(q, room) /\ \A t \in State : t # s => states'[t] = states[t]
      BY <2>1 DEF TypeOK
    <2> HIDE DEF q
    <2>5. Tidy(q, states'[s])
      BY <2>3, <2>4, EvaluateTidy
    <2>6. Tame(states[s], states'[s]) /\ states'[s].faults = states[s].faults
      BY <2>2, <2>3, <2>5, TameTransitive DEF Tidy, Sound
    <2>7. \A t \in State : Tame(states[t], states'[t]) /\ states'[t].faults = states[t].faults
      BY <2>4, <2>6, TameSelf DEF TypeOK, Tidy
    <2>8. ASSUME NEW l \in Link, Made(l), l.id \in Entries' PROVE l.id \in Entries
      <3>1. l.id # s
        <4>1. SUFFICES ASSUME l.id = s PROVE FALSE
          OBVIOUS
        <4>2. states[s].dest = l.dest /\ l.dest \in Dest
          BY <2>8, <4>1 DEF Owned, LinksOwned, Made, Dialed, Link
        <4> QED BY <2>2, <4>2, NoneAssumption
      <3> QED BY <1>0, <2>1, <2>8, <3>1 DEF Entries, TypeOK
    <2>9. LinksClose /\ NothingHeard /\ Queued' \subseteq Queued
      BY <1>0, <2>1, CalmClose, TakesNothing
    <2> QED BY <1>0, <2>7, <2>8, <2>9, QuietLoop DEF StatesTame, mapVars, ctrlVars
  <1>2. CASE entry # None
    <2>1. entry \in State
      BY <1>0, <1>2 DEF TypeOK, DestType
    <2> DEFINE changed == IF /\ dests[d].known /\ ~dests[d].healthy
                             /\ states[entry].status # "established"
                          THEN Evaluate([states[entry] EXCEPT !.due = TRUE], room)
                          ELSE states[entry]
    <2>2. /\ dests' = [dests EXCEPT ![d] = [known |-> TRUE, healthy |-> TRUE, entry |-> entry]]
          /\ states' = [states EXCEPT ![entry] = changed]
          /\ CloseAll(IF Head(events).moved THEN {states[entry].link} ELSE {})
      BY <1>2 DEF HandleListed
    <2>3. Tidy(states[entry], changed)
      <3> DEFINE r == [states[entry] EXCEPT !.due = TRUE]
      <3>1. states[entry] \in StateType
        BY <2>1 DEF TypeOK
      <3>2. Tidy(states[entry], r)
        BY <3>1, DueTidy
      <3>3. Tidy(r, Evaluate(r, room))
        BY <3>2, EvaluateTidy DEF Tidy, Tame
      <3>4. Tidy(states[entry], Evaluate(r, room))
        BY <3>1, <3>2, <3>3, TidyTransitive
      <3> QED BY <3>1, <3>4, TameSelf
    <2> HIDE DEF changed
    <2>4. ASSUME NEW s \in State PROVE Tidy(states[s], states'[s])
      BY <2>1, <2>2, <2>3, TameSelf DEF TypeOK
    <2>5. Entries' \subseteq Entries
      BY <1>0, <2>2 DEF Entries, TypeOK
    <2>6. LinksClose
      BY <2>1, <2>2, CloseAllClose DEF FaultInv
    <2>7. NothingHeard /\ Queued' \subseteq Queued
      BY <1>0, <2>6, TakesNothing
    <2> QED BY <1>0, <2>4, <2>5, <2>6, <2>7, AllTidy, QuietLoop DEF mapVars, ctrlVars
  <1> QED BY <1>1, <1>2

LEMMA EstablishedForgets ==
    ASSUME LinkInv, TypeOK', FaultInv, HandleEstablished PROVE FaultInv'
  <1> DEFINE l     == Head(events).link
             entry == dests[l.dest].entry
  <1> USE DEF LinkInv
  <1>0. /\ Takes("established")
        /\ states' = [s \in State |->
              IF s = entry
              THEN [states[s] EXCEPT !.status = "established", !.notified = FALSE, !.link = l]
              ELSE states[s]]
        /\ UNCHANGED <<dests, mapVars, links, sendVars>>
    BY DEF HandleEstablished
  <1>1. l \in Link /\ Settled(l)
    BY <1>0, TakesQueue, EventFields DEF FaultInv, Lives, EventsClaim
  <1>2. ASSUME NEW s \in State
        PROVE  Tame(states[s], states'[s]) /\ states'[s].faults = states[s].faults
    <2>1. states[s] \in StateType
      BY DEF TypeOK
    <2>2. CASE s # entry
      BY <1>0, <2>1, <2>2, TameSelf DEF Tidy
    <2>3. CASE s = entry
      <3> DEFINE q == [states[s] EXCEPT !.status = "established", !.notified = FALSE, !.link = l]
      <3>1. /\ q \in StateType /\ q.dest = states[s].dest /\ q.found = states[s].found
            /\ q.link = l /\ q.dial = states[s].dial /\ q.attempts = states[s].attempts
            /\ q.faults = states[s].faults
        BY <1>1, <2>1 DEF StateType, Status
      <3>2. states'[s] = q
        BY <1>0, <2>3
      <3> HIDE DEF q, l
      <3> QED BY <1>1, <3>1, <3>2 DEF Tame
    <2> QED BY <2>2, <2>3
  <1>3. LinksClose /\ NothingHeard /\ Queued' \subseteq Queued
    BY <1>0, CalmClose, TakesNothing
  <1>4. Entries' = Entries
    BY <1>0 DEF Entries
  <1> QED BY <1>0, <1>2, <1>3, <1>4, QuietLoop DEF StatesTame, mapVars

LEMMA DialFailedForgets ==
    ASSUME LinkInv, TypeOK', FaultInv, HandleDialFailed PROVE FaultInv'
  <1> USE DEF HandleDialFailed, LinkInv
  <1>1. LinksClose /\ NothingHeard /\ Queued' \subseteq Queued
    BY CalmClose, TakesNothing
  <1>2. ASSUME NEW s \in State PROVE Tidy(states[s], states'[s])
    <2> DEFINE q == WithStatus(states[s], "dialFailed")
    <2>1. states[s] \in StateType
      BY DEF TypeOK
    <2>2. states'[s] \in {states[s], DialFailed(q)}
      BY DEF TypeOK
    <2>3. Tidy(states[s], q)
      BY <2>1, WithStatusTidy DEF Status
    <2>4. Tidy(q, DialFailed(q))
      BY <2>3, DialFailedTidy DEF Tidy, Tame
    <2> HIDE DEF q
    <2> QED BY <2>1, <2>2, <2>3, <2>4, TameSelf, TidyTransitive
  <1>3. Entries' = Entries
    BY DEF Entries
  <1> QED BY <1>1, <1>2, <1>3, AllTidy, QuietLoop DEF mapVars, ctrlVars

LEMMA NotifiedForgets ==
    ASSUME LinkInv, TypeOK', FaultInv, HandleNotified PROVE FaultInv'
  <1> USE DEF HandleNotified, LinkInv
  <1>1. LinksClose /\ NothingHeard /\ Queued' \subseteq Queued
    BY CalmClose, TakesNothing
  <1>2. ASSUME NEW s \in State PROVE Tidy(states[s], states'[s])
    <2>1. states[s] \in StateType
      BY DEF TypeOK
    <2>2. states'[s] \in {states[s], [states[s] EXCEPT !.notified = TRUE]}
      OBVIOUS
    <2> QED BY <2>1, <2>2, TameSelf, DueTidy
  <1>3. Entries' = Entries
    BY DEF Entries
  <1> QED BY <1>1, <1>2, <1>3, AllTidy, QuietLoop DEF mapVars, ctrlVars

\* addPendingLinkFault drops a fault only for one that covers it.
LEMMA WithFaultKeeps ==
    ASSUME NEW r \in StateType, NEW f \in FaultType
    PROVE  LET q == WithFault(r, f)
           IN  /\ Tame(r, q)
               /\ q.faults \subseteq r.faults \cup {f}
               /\ \A g \in r.faults \cup {f} : \E h \in q.faults : Covers(h, g)
  <1>1. r.faults \subseteq FaultType
    BY DEF StateType
  <1>2. \A g \in FaultType : Covers(g, g)
    BY DEF Covers, FaultType
  <1>3. CASE \E g \in r.faults : Covers(g, f)
    <2>1. WithFault(r, f) = r
      BY <1>3 DEF WithFault
    <2>2. \A g \in r.faults \cup {f} : \E h \in r.faults : Covers(h, g)
      BY <1>1, <1>2, <1>3
    <2> QED BY <2>1, <2>2, TameSelf DEF Tidy
  <1>4. CASE ~ \E g \in r.faults : Covers(g, f)
    <2> DEFINE S == {g \in r.faults : g.id # f.id} \cup {f}
    <2>1. WithFault(r, f) = [r EXCEPT !.faults = S]
      BY <1>4 DEF WithFault
    <2>2. S \in SUBSET FaultType /\ S \subseteq r.faults \cup {f}
      BY <1>1
    <2>3. ASSUME NEW g \in r.faults \cup {f} PROVE \E h \in S : Covers(h, g)
      <3>1. g \in FaultType
        BY <1>1
      <3>2. CASE g \in S
        BY <1>2, <3>1, <3>2
      <3>3. CASE g \notin S
        <4>1. g.id = f.id /\ ~Covers(g, f)
          BY <1>4, <3>3
        <4>2. Covers(f, g)
          BY <3>1, <4>1 DEF Covers, FaultType
        <4> QED BY <4>2
      <3> QED BY <3>2, <3>3
    <2> HIDE DEF S
    <2> QED BY <2>1, <2>2, <2>3, FaultsTame
  <1> QED BY <1>3, <1>4

\* run() hears of the end of a link: the fault is added to the entry of the
\* router, which is the state of the link if that one is still wanted.
LEMMA EndForgets ==
    ASSUME LinkInv, TypeOK', FaultInv, NEW kind \in {"closed", "replaced"}, Takes(kind),
           UNCHANGED <<dests, mapVars, links, ctrlVars>>,
           \A s \in State :
               IF s = dests[Head(events).link.dest].entry
               THEN \E r \in StateType :
                       /\ Tidy(states[s], r)
                       /\ states'[s] = WithFault(r, Fault(Head(events).link))
               ELSE states'[s] = states[s]
    PROVE  FaultInv'
  <1> DEFINE l     == Head(events).link
             entry == dests[l.dest].entry
  <1> USE DEF LinkInv, mapVars, ctrlVars, sendVars
  <1>1. l \in Link /\ Made(l) /\ Fault(l) \in FaultType
    BY TakesQueue, EventFields DEF FaultInv, Lives, EventsClaim, Fault, Link, FaultType
  <1>2. /\ Queued' \subseteq Queued
        /\ \A e \in Queued : e.kind \in {"closed", "replaced"} /\ e.link # l => e \in Queued'
    BY TakesQueue
  <1> DEFINE added(s) == IF s = entry THEN {Fault(l)} ELSE {}
  <1>3. ASSUME NEW s \in State
        PROVE  /\ Tame(states[s], states'[s])
               /\ states'[s].faults \subseteq states[s].faults \cup added(s)
               /\ \A g \in states[s].faults \cup added(s) :
                      \E h \in states'[s].faults : Covers(h, g)
    <2>1. states[s] \in StateType
      BY DEF TypeOK
    <2>2. CASE s = entry
      <3>1. PICK r \in StateType : /\ Tidy(states[s], r)
                                  /\ states'[s] = WithFault(r, Fault(l))
        BY <2>2
      <3>2. Tame(states[s], states'[s])
        BY <1>1, <2>1, <3>1, WithFaultKeeps, TameTransitive DEF Tidy
      <3>3. /\ states'[s].faults \subseteq r.faults \cup {Fault(l)}
            /\ \A g \in r.faults \cup {Fault(l)} : \E h \in states'[s].faults : Covers(h, g)
        BY <1>1, <3>1, WithFaultKeeps
      <3>4. r.faults = states[s].faults /\ added(s) = {Fault(l)}
        BY <2>2, <3>1 DEF Tidy
      <3> HIDE DEF added
      <3> QED BY <3>2, <3>3, <3>4
    <2>3. CASE s # entry
      <3>1. states'[s] = states[s]
        BY <2>3
      <3>2. \A g \in states[s].faults : Covers(g, g)
        BY <2>1 DEF StateType, Covers, FaultType
      <3> QED BY <2>1, <2>3, <3>1, <3>2, TameSelf DEF Tidy
    <2> QED BY <2>2, <2>3
  <1> HIDE DEF l, entry
  <1>4. StatesTame /\ LinksClose
    BY <1>3, CalmClose DEF StatesTame
  <1>5. Lives'
    <2>1. SendsMade
      BY DEF SendsMade, FaultInv, Lives, SendsClaim
    <2> QED BY <1>2, <1>4, <2>1, TameClaims, LivesLoop DEF FaultInv
  <1>6. Counted'
    BY <1>4, CountedLoop DEF FaultInv
  <1>7. FaultsReal'
    <2>1. Real(Fault(l))
      BY <1>1 DEF Real
    <2>2. \A s \in State : \A f \in states'[s].faults : f \in states[s].faults \/ Real(f)
      BY <1>3, <2>1
    <2> QED BY <2>2, RealStays DEF FaultInv, Recorded, FaultsReal, Made
  <1>8. Acknowledged'
    BY <1>2, AcknowledgedStays DEF FaultInv, Recorded
  <1>9. RememberedKept
    <2> SUFFICES ASSUME NEW m \in Link, Made(m), m.id \in Entries, Vouches(m)
                 PROVE  \E k \in Link : Made(k)' /\ Covers(k, m) /\ Vouches(k)'
      BY DEF RememberedKept
    <2>1. m.id \in State
      BY EntriesType
    <2>2. CASE ~Finished(m)' \/ Fault(m) \in reported
      BY <2>2, CoversSelf DEF Vouches, Made
    <2>3. CASE Finished(m)' /\ Fault(m) \notin reported
      <3>1. Fault(m) \in states[m.id].faults \cup added(m.id)
        <4>1. CASE Finished(m)
          BY <2>3, <4>1 DEF Vouches
        <4>2. CASE ~Finished(m)
          <5>1. PICK e \in Queued : e.kind \in {"closed", "replaced"} /\ e.link = m
            BY <2>3, <4>2, FinishedQueued, FinishedQueuedNext
          <5>2. m = l
            BY <1>2, <2>3, <5>1, FinishedQueuedNext
          <5>3. states[m.id].dest = m.dest
            BY <2>1 DEF Owned, LinksOwned, Made, Dialed
          <5>4. entry = m.id
            BY <5>2, <5>3, EntriesType DEF entry
          <5> QED BY <5>2, <5>4
        <4> QED BY <4>1, <4>2
      <3>2. PICK h \in states'[m.id].faults : Covers(h, Fault(m))
        BY <1>3, <2>1, <3>1
      <3>3. PICK k \in Link : Made(k)' /\ h = Fault(k)
        BY <1>7, <2>1 DEF FaultsReal, Real, Fault
      <3>4. Covers(k, m) /\ k.id = m.id
        BY <3>2, <3>3 DEF Covers, Fault
      <3> QED BY <3>2, <3>3, <3>4 DEF Vouches, Fault
    <2> QED BY <2>2, <2>3
  <1>10. Remembered'
    BY <1>9, RememberedStays DEF FaultInv, Recorded, Made, Entries
  <1> QED BY <1>5, <1>6, <1>7, <1>8, <1>10 DEF FaultInv, Recorded

LEMMA ReplacedForgets ==
    ASSUME LinkInv, TypeOK', FaultInv, HandleReplaced PROVE FaultInv'
  <1> USE DEF HandleReplaced
  <1>1. \A s \in State : states[s] \in StateType /\ Tidy(states[s], states[s])
    BY TameSelf DEF LinkInv, TypeOK
  <1> QED BY <1>1, EndForgets

LEMMA ClosedForgets ==
    ASSUME LinkInv, TypeOK', FaultInv, NEW room \in BOOLEAN, HandleClosed(room)
    PROVE  FaultInv'
  <1> DEFINE q(s) == [WithStatus(states[s], "linkFailed") EXCEPT !.due = TRUE]
  <1>1. ASSUME NEW s \in State
        PROVE  Evaluate(q(s), room) \in StateType /\ Tidy(states[s], Evaluate(q(s), room))
    <2>1. states[s] \in StateType
      BY DEF LinkInv, TypeOK
    <2>2. Tidy(states[s], WithStatus(states[s], "linkFailed"))
      BY <2>1, WithStatusTidy DEF Status
    <2>3. Tidy(WithStatus(states[s], "linkFailed"), q(s))
      BY <2>2, DueTidy DEF Tidy, Tame
    <2>4. Tidy(states[s], q(s))
      BY <2>1, <2>2, <2>3, TidyTransitive
    <2> HIDE DEF q
    <2>5. Tidy(q(s), Evaluate(q(s), room))
      BY <2>4, EvaluateTidy DEF Tidy, Tame
    <2>6. Tidy(states[s], Evaluate(q(s), room))
      BY <2>1, <2>4, <2>5, TidyTransitive
    <2> QED BY <2>6 DEF Tidy, Tame
  <1>2. /\ Takes("closed") /\ UNCHANGED <<dests, mapVars, links, ctrlVars>>
        /\ states' = [s \in State |->
              IF s = dests[Head(events).link.dest].entry
              THEN WithFault(Evaluate(q(s), room), Fault(Head(events).link))
              ELSE states[s]]
    BY DEF HandleClosed
  <1> HIDE DEF q
  <1> QED BY <1>1, <1>2, EndForgets

\* A handler or ticker that drops faults
LEMMA DroppingLoop ==
    ASSUME LinkInv, TypeOK', FaultInv, LinksClose, StatesTame, UNCHANGED linkMap, SendsMade,
           Queued' \subseteq Queued,
           \A s \in State : states'[s].faults \subseteq states[s].faults,
           \A p \in notify'.faults : Real(p[2]),
           reported' = reported, RememberedKept, Entries' \subseteq Entries
    PROVE  FaultInv'
  <1>1. \A l \in Link : links'[l].apply = links[l].apply /\ (Made(l)' <=> Made(l))
    BY DEF LinksClose, Made
  <1>2. Lives'
    BY TameClaims, LivesLoop DEF FaultInv
  <1>3. Counted'
    BY <1>1, CountedLoop DEF FaultInv
  <1>4. FaultsReal'
    BY <1>1, RealStays DEF FaultInv, Recorded, FaultsReal
  <1>5. Acknowledged'
    BY AcknowledgedStays DEF FaultInv, Recorded
  <1>6. Remembered'
    BY <1>1, RememberedStays DEF FaultInv, Recorded
  <1> QED BY <1>2, <1>3, <1>4, <1>5, <1>6 DEF FaultInv, Recorded

\* clearFault drops what a report of the same or a later iteration covers.
LEMMA FaultedForgets ==
    ASSUME LinkInv, TypeOK', FaultInv, HandleFaulted PROVE FaultInv'
  <1> DEFINE pairs == Head(events).pairs
             cleared(s, g) == \E p \in pairs : p[1] = s /\ Covers(p[2], g)
  <1> USE DEF LinkInv, mapVars, ctrlVars, sendVars
  <1>0. /\ Takes("faulted") /\ UNCHANGED <<dests, mapVars, links, ctrlVars>>
        /\ states' = [s \in State |->
              [states[s] EXCEPT !.faults = {g \in @ : ~cleared(s, g)}]]
    BY DEF HandleFaulted
  <1>1. \A p \in pairs : p[2] \in reported
    BY <1>0, TakesQueue DEF FaultInv, Recorded, Acknowledged
  <1> HIDE DEF pairs
  <1>2. ASSUME NEW s \in State
        PROVE  /\ Tame(states[s], states'[s])
               /\ states'[s].faults \subseteq states[s].faults
               /\ \A g \in states[s].faults :
                      g \in states'[s].faults \/ \E f \in reported : Covers(f, g)
    <2> DEFINE S == {g \in states[s].faults : ~cleared(s, g)}
    <2>1. states[s] \in StateType /\ states[s].faults \subseteq FaultType
      BY DEF TypeOK, StateType
    <2>2. states'[s] = [states[s] EXCEPT !.faults = S]
      BY <1>0
    <2>3. S \in SUBSET FaultType
      BY <2>1
    <2>4. \A g \in states[s].faults : g \in S \/ \E f \in reported : Covers(f, g)
      BY <1>1
    <2>5. S \subseteq states[s].faults
      OBVIOUS
    <2> HIDE DEF S
    <2> QED BY <2>1, <2>2, <2>3, <2>4, <2>5, FaultsTame
  <1>3. LinksClose /\ NothingHeard /\ Queued' \subseteq Queued
    BY <1>0, CalmClose, TakesNothing
  <1>4. RememberedKept
    <2> SUFFICES ASSUME NEW m \in Link, Made(m), m.id \in Entries, Vouches(m)
                 PROVE  \E k \in Link : Made(k)' /\ Covers(k, m) /\ Vouches(k)'
      BY DEF RememberedKept
    <2>1. m.id \in State
      BY EntriesType
    <2>2. CASE ~Finished(m) \/ Fault(m) \in reported
      <3>1. Vouches(m)'
        BY <1>0, <1>3, <2>2, UnfinishedStays DEF Vouches, Fault
      <3> QED BY <1>0, <3>1, CoversSelf DEF Made
    <2>3. CASE Fault(m) \in states'[m.id].faults
      <3>1. Vouches(m)'
        BY <2>3 DEF Vouches, Fault
      <3> QED BY <1>0, <3>1, CoversSelf DEF Made
    <2>4. CASE \E f \in reported : Covers(f, Fault(m))
      <3>1. PICK f \in reported : Covers(f, Fault(m))
        BY <2>4
      <3>2. PICK k \in Link : Made(k) /\ f = Fault(k)
        BY <3>1 DEF FaultInv, Recorded, FaultsReal, Real
      <3>3. Covers(k, m) /\ Vouches(k)'
        BY <1>0, <3>1, <3>2 DEF Covers, Fault, Vouches
      <3> QED BY <1>0, <3>2, <3>3 DEF Made
    <2> QED BY <1>2, <2>1, <2>2, <2>3, <2>4 DEF Vouches
  <1>5. SendsMade
    BY <1>0 DEF SendsMade, FaultInv, Lives, SendsClaim
  <1>6. Entries' = Entries
    BY <1>0 DEF Entries
  <1> QED BY <1>0, <1>2, <1>3, <1>4, <1>5, <1>6, DroppingLoop
          DEF StatesTame, FaultInv, Recorded, FaultsReal

-------------------------------------------------------------------------------
(***************************************************************************)
(* run(): the notification and the tickers                                 *)
(***************************************************************************)
\* The review drops faults of the id of the current link only.
LEMMA ReviewTame ==
    ASSUME NEW r \in StateType, NEW l
    PROVE  LET q == Reviewed(r, l)
           IN  /\ Tame(r, q)
               /\ q.faults \subseteq r.faults
               /\ \A g \in r.faults : g \in q.faults \/ (l # None /\ g.id = l.id)
  <1>1. CASE r.notified \/ r.status # "established"
    BY <1>1, TameSelf DEF Reviewed, Tidy
  <1>2. CASE ~(r.notified \/ r.status # "established") /\ l = None
    <2> DEFINE q == WithStatus(r, "dialFailed")
    <2>1. Reviewed(r, l) = DialFailed(q)
      BY <1>2 DEF Reviewed
    <2>2. Tidy(r, q)
      BY WithStatusTidy DEF Status
    <2>3. Tidy(q, DialFailed(q))
      BY <2>2, DialFailedTidy DEF Tidy, Tame
    <2> HIDE DEF q
    <2> QED BY <2>1, <2>2, <2>3, TidyTransitive DEF Tidy
  <1>3. CASE ~(r.notified \/ r.status # "established") /\ l # None
    <2> DEFINE S == {g \in r.faults : g.id # l.id}
    <2>1. Reviewed(r, l) = [r EXCEPT !.faults = S]
      BY <1>3 DEF Reviewed, WithoutId
    <2>2. S \in SUBSET FaultType /\ S \subseteq r.faults
      BY DEF StateType
    <2>3. \A g \in r.faults : g \in S \/ (l # None /\ g.id = l.id)
      BY <1>3
    <2> HIDE DEF S
    <2> QED BY <2>1, <2>2, <2>3, FaultsTame
  <1> QED BY <1>1, <1>2, <1>3

\* The notification drops a fault of a state only while the current link of its
\* router is a link of that state, and so the last one of it.
LEMMA NotifyForgets ==
    ASSUME LinkInv, TypeOK', FaultInv, NEW sts, NEW room, NotifyControllers(sts, room),
           sts = [s \in State |-> sts[s]],
           \A s \in State : Tidy(states[s], sts[s]),
           UNCHANGED <<dests, mapVars, links, events>>
    PROVE  FaultInv'
  <1> USE DEF LinkInv, mapVars, sendVars
  <1>0. LinksClose /\ NothingHeard /\ Queued' \subseteq Queued /\ Entries' = Entries
    BY CalmClose, SameNothing DEF Entries
  <1>1. CASE notify.step # "idle"
    <2>1. states' = sts /\ UNCHANGED sendVars
      BY <1>1 DEF NotifyControllers
    <2> QED BY <1>0, <2>1, AllTidy, QuietLoop
  <1>2. CASE notify.step = "idle"
    <2> DEFINE reviewed(s) == IF s \in Entries THEN Reviewed(sts[s], linkMap[sts[s].dest])
                              ELSE sts[s]
               new  == {<<s, linkMap[sts[s].dest]>> :
                           s \in {s \in Entries : /\ sts[s].status = "established"
                                                  /\ ~sts[s].notified
                                                  /\ linkMap[sts[s].dest] # None
                                                  /\ Dialed(linkMap[sts[s].dest])}}
               lost == UNION {{s} \X reviewed(s).faults : s \in Entries}
               message == [step   |-> IF new = {} THEN "faults" ELSE "links",
                           links  |-> new, faults |-> lost]
    <2>1. /\ states' = [s \in State |-> reviewed(s)]
          /\ notify' = notify \/ notify' = message
          /\ told' = told /\ reported' = reported
      BY <1>2 DEF NotifyControllers
    <2>2. ASSUME NEW s \in State
          PROVE  /\ Tame(states[s], reviewed(s))
                 /\ reviewed(s).faults \subseteq states[s].faults
                 /\ \A g \in states[s].faults : g \in reviewed(s).faults \/
                       /\ s \in Entries /\ linkMap[states[s].dest] # None
                       /\ g.id = linkMap[states[s].dest].id
      <3>1. states[s] \in StateType /\ Tidy(states[s], sts[s])
        BY DEF TypeOK
      <3>2. CASE s \notin Entries
        BY <3>1, <3>2 DEF Tidy
      <3>3. CASE s \in Entries
        <4> DEFINE q == Reviewed(sts[s], linkMap[sts[s].dest])
        <4>1. /\ Tame(sts[s], q) /\ q.faults \subseteq sts[s].faults
              /\ \A g \in sts[s].faults :
                    \/ g \in q.faults
                    \/ (linkMap[sts[s].dest] # None /\ g.id = linkMap[sts[s].dest].id)
          <5>1. sts[s] \in StateType
            BY <3>1 DEF Tidy, Tame
          <5> QED BY <5>1, ReviewTame
        <4>2. reviewed(s) = q
          BY <3>3
        <4> HIDE DEF q, reviewed
        <4> QED BY <3>1, <3>3, <4>1, <4>2, TameTransitive DEF Tidy
      <3> QED BY <3>2, <3>3
    <2>3. \A p \in new : Made(p[2])
      <3> SUFFICES ASSUME NEW s \in Entries, linkMap[sts[s].dest] # None
                   PROVE  Made(linkMap[sts[s].dest])
        OBVIOUS
      <3>1. s \in State /\ sts[s].dest \in Dest
        BY EntriesType DEF Tidy
      <3> QED BY <3>1 DEF Owned, MapOwned, Made
    <2>4. \A p \in lost : Real(p[2])
      <3> SUFFICES ASSUME NEW s \in Entries, NEW f \in reviewed(s).faults PROVE Real(f)
        OBVIOUS
      <3>1. s \in State
        BY EntriesType
      <3>2. f \in states[s].faults
        BY <2>2, <3>1
      <3> QED BY <3>1, <3>2 DEF FaultInv, Recorded, FaultsReal
    <2>5. /\ StatesTame
          /\ \A s \in State : states'[s].faults \subseteq states[s].faults
      BY <2>1, <2>2 DEF StatesTame
    <2>6. ASSUME NEW s \in State, NEW g \in states[s].faults, g \notin states'[s].faults
          PROVE  /\ s \in Entries /\ linkMap[states[s].dest] # None
                 /\ g.id = linkMap[states[s].dest].id
      BY <2>1, <2>2, <2>6
    <2> HIDE DEF new, lost, reviewed
    <2>7. SendsMade /\ \A p \in notify'.faults : Real(p[2])
      BY <2>1, <2>3, <2>4 DEF SendsMade, FaultInv, Lives, SendsClaim, Recorded, FaultsReal
    <2>8. RememberedKept
      <3> SUFFICES ASSUME NEW m \in Link, Made(m), m.id \in Entries, Vouches(m)
                   PROVE  \E k \in Link : Made(k)' /\ Covers(k, m) /\ Vouches(k)'
        BY DEF RememberedKept
      <3>1. m.id \in State /\ states[m.id].dest \in Dest
        BY EntriesType
      <3>2. CASE \/ ~Finished(m) \/ Fault(m) \in reported
                 \/ Fault(m) \in states'[m.id].faults
        <4>1. Vouches(m)'
          BY <1>0, <2>1, <3>2, UnfinishedStays DEF Vouches, Fault
        <4> QED BY <4>1, CoversSelf DEF Made
      <3>3. CASE Fault(m) \in states[m.id].faults /\ Fault(m) \notin states'[m.id].faults
        <4>1. /\ linkMap[states[m.id].dest] # None
              /\ linkMap[states[m.id].dest].id = m.id
          BY <2>6, <3>1, <3>3 DEF Fault
        <4>2. PICK k \in Link : k = linkMap[states[m.id].dest]
          BY <3>1, <4>1 DEF TypeOK
        <4>3. Made(k) /\ Covers(k, m) /\ links[k].close \in {"open", "closed"}
          <5>1. links[k].apply \in {"inserted", "done"}
            BY <3>1, <4>1, <4>2 DEF Owned, MapOwned
          <5>2. links[k].close \in {"open", "closed"}
            BY <3>1, <4>1, <4>2 DEF FaultInv, Lives, MapAlive
          <5>3. Covers(k, m)
            BY <3>1, <4>1, <4>2 DEF FaultInv, Counted, CurrentLatest, Dialed
          <5> QED BY <5>1, <5>2, <5>3 DEF Made
        <4>4. ~Finished(k)'
          BY <4>3, FinishedQueuedNext
        <4>5. Made(k)' /\ Vouches(k)'
          BY <4>3, <4>4 DEF Made, Vouches
        <4> QED BY <4>3, <4>5
      <3> QED BY <3>2, <3>3 DEF Vouches
    <2> QED BY <1>0, <2>1, <2>5, <2>7, <2>8, DroppingLoop
  <1> QED BY <1>1, <1>2

LEMMA TriggerForgets ==
    ASSUME LinkInv, TypeOK', FaultInv, NEW room, TriggerFires(room) PROVE FaultInv'
  <1>1. states = [s \in State |-> states[s]] /\ \A s \in State : Tidy(states[s], states[s])
    BY TameSelf DEF LinkInv, TypeOK
  <1> QED BY <1>1, NotifyForgets DEF TriggerFires

LEMMA QueueForgets ==
    ASSUME LinkInv, TypeOK', FaultInv, NEW room \in BOOLEAN, NEW sendRoom,
           QueueTick(room, sendRoom)
    PROVE  FaultInv'
  <1> DEFINE popped(s) == [states[s] EXCEPT !.waiting = FALSE]
             sts == [s \in State |-> IF states[s].waiting /\ states[s].due
                                     THEN Evaluate(popped(s), room) ELSE states[s]]
  <1>1. ASSUME NEW s \in State PROVE Tidy(states[s], sts[s])
    <2>1. states[s] \in StateType
      BY DEF LinkInv, TypeOK
    <2>2. Tidy(states[s], popped(s))
      BY <2>1, DueTidy
    <2> HIDE DEF popped
    <2>3. Tidy(popped(s), Evaluate(popped(s), room))
      BY <2>2, EvaluateTidy DEF Tidy, Tame
    <2>4. Tidy(states[s], Evaluate(popped(s), room))
      BY <2>1, <2>2, <2>3, TidyTransitive
    <2> QED BY <2>1, <2>4, TameSelf
  <1>2. NotifyControllers(sts, sendRoom) /\ UNCHANGED <<dests, mapVars, links, events>>
    BY DEF QueueTick
  <1>3. sts = [s \in State |-> sts[s]]
    OBVIOUS
  <1> HIDE DEF sts
  <1> QED BY <1>1, <1>2, <1>3, NotifyForgets

LEMMA ScanForgets ==
    ASSUME LinkInv, TypeOK', FaultInv, NEW room \in BOOLEAN, NEW expired,
           ScanTick(room, expired)
    PROVE  FaultInv'
  <1> DEFINE failed(s) == [WithStatus(states[s], "linkFailed") EXCEPT !.due = TRUE]
  <1> USE DEF LinkInv
  <1>1. ASSUME NEW s \in State PROVE Tidy(states[s], states'[s])
    <2>1. states[s] \in StateType
      BY DEF TypeOK
    <2>2. states'[s] \in {states[s], Evaluate(states[s], room), Evaluate(failed(s), room)}
      BY DEF ScanTick
    <2>3. Tidy(states[s], failed(s))
      <3>1. Tidy(states[s], WithStatus(states[s], "linkFailed"))
        BY <2>1, WithStatusTidy DEF Status
      <3>2. Tidy(WithStatus(states[s], "linkFailed"), failed(s))
        BY <3>1, DueTidy DEF Tidy, Tame
      <3> QED BY <2>1, <3>1, <3>2, TidyTransitive
    <2> HIDE DEF failed
    <2>4. Tidy(states[s], Evaluate(failed(s), room))
      <3>1. Tidy(failed(s), Evaluate(failed(s), room))
        BY <2>3, EvaluateTidy DEF Tidy, Tame
      <3> QED BY <2>1, <2>3, <3>1, TidyTransitive
    <2> QED BY <2>1, <2>2, <2>4, TameSelf, EvaluateTidy
  <1>2. Entries' \subseteq Entries
    <2>1. \A d \in Dest : dests'[d].entry \in {dests[d].entry, None}
      BY DEF ScanTick
    <2> QED BY <2>1 DEF Entries
  <1>3. LinksClose /\ NothingHeard /\ Queued' \subseteq Queued
    BY CalmClose, SameNothing DEF ScanTick
  <1> QED BY <1>1, <1>2, <1>3, AllTidy, QuietLoop DEF ScanTick, mapVars, ctrlVars

LEMMA BackoffForgets ==
    ASSUME LinkInv, TypeOK', FaultInv, NEW s \in State, BackoffElapses(s) PROVE FaultInv'
  <1> USE DEF LinkInv, BackoffElapses
  <1>1. ASSUME NEW t \in State PROVE Tidy(states[t], states'[t])
    BY TameSelf, DueTidy DEF TypeOK
  <1>2. LinksClose /\ NothingHeard /\ Queued' \subseteq Queued /\ Entries' = Entries
    BY CalmClose, SameNothing DEF Entries
  <1> QED BY <1>1, <1>2, AllTidy, QuietLoop DEF mapVars, ctrlVars

-------------------------------------------------------------------------------
(***************************************************************************)
(* What the goroutines beside run() have in common                         *)
(***************************************************************************)
\* What was made stays made, and what was settled stays settled.
LinksAdvance ==
    \A l \in Link : (Made(l) => Made(l)') /\ (Settled(l) => Settled(l)')

\* An event of the channel is old, or says what is so.
EventSays(e) ==
    /\ e.kind = "established" => Settled(e.link)'
    /\ e.kind \in {"closed", "replaced"} => Made(e.link)'

LEMMA ClaimsStay ==
    ASSUME LinkInv, TypeOK', Lives, LinksAdvance,
           \A s \in State : /\ states'[s].link = states[s].link
                            /\ states'[s].found \in {states[s].found, None},
           \A e \in Queued' : e \in Queued \/ EventSays(e),
           notify'.links \subseteq notify.links,
           told' \subseteq told \cup {p[2] : p \in notify.links}
    PROVE  StatesClaim' /\ EventsClaim' /\ SendsClaim'
  <1> USE DEF LinkInv, Lives
  <1>1. StatesClaim'
    <2> SUFFICES ASSUME NEW s \in State
                 PROVE  /\ states'[s].link # None => Settled(states[s].link)'
                        /\ states'[s].found # None => Settled(states[s].found)'
      BY DEF StatesClaim
    <2>1. states[s].link \in Link \cup {None} /\ states[s].found \in Link \cup {None}
      BY DEF TypeOK, StateType
    <2>2. /\ states[s].link # None => Settled(states[s].link)
          /\ states[s].found # None => Settled(states[s].found)
      BY DEF StatesClaim
    <2>3. states'[s].link = states[s].link /\ states'[s].found \in {states[s].found, None}
      OBVIOUS
    <2>4. ASSUME NEW l \in Link, Settled(l) PROVE links'[l].apply \in {"inserted", "done"}
      BY <2>4 DEF LinksAdvance, Settled
    <2> QED BY <2>1, <2>2, <2>3, <2>4 DEF Settled
  <1>2. EventsClaim'
    <2> SUFFICES ASSUME NEW e \in Queued' PROVE EventSays(e)
      BY DEF EventsClaim, EventSays
    <2>1. CASE e \in Queued
      <3>1. e \in Event
        BY <2>1 DEF Queued, TypeOK
      <3> QED BY <2>1, <3>1, EventFields DEF EventsClaim, EventSays, LinksAdvance
    <2> QED BY <2>1
  <1>3. SendsClaim'
    <2>1. \A p \in notify.links : p[2] \in Link /\ Made(p[2])
      BY DEF TypeOK, SendsClaim
    <2>2. ASSUME NEW p \in notify'.links PROVE Made(p[2])'
      <3>1. p[2] \in Link /\ Made(p[2])
        BY <2>1
      <3> QED BY <3>1 DEF LinksAdvance
    <2>3. ASSUME NEW l \in told' PROVE Made(l)'
      <3>1. l \in Link /\ Made(l)
        BY <2>1 DEF TypeOK, SendsClaim
      <3> QED BY <3>1 DEF LinksAdvance
    <2> QED BY <2>2, <2>3 DEF SendsClaim
  <1> QED BY <1>1, <1>2, <1>3

LEMMA SameOpen ==
    ASSUME TypeOK, Lives, UNCHANGED <<links, linkMap>>
    PROVE  MadeOpen' /\ CheckedOpen' /\ MapAlive' /\ LinksAdvance
  BY DEF Lives, MadeOpen, CheckedOpen, MapAlive, Made, Open, LinksAdvance, Settled

\* No link is made, and no other becomes the current one.
LEMMA CountedStep ==
    ASSUME LinkInv, Counted,
           \A l \in Link : (Made(l)' => Made(l)) /\ (Applying(l)' => Applying(l)),
           \A d \in Dest : linkMap'[d] \in {linkMap[d], None},
           \A s \in State : /\ states'[s].attempts = states[s].attempts
                            /\ states'[s].dest = states[s].dest
                            /\ states'[s].dial = "dialing" =>
                                  \/ states[s].dial = "dialing"
                                  \/ linkMap[states[s].dest] = None /\ states[s].dial # "idle"
    PROVE  Counted'
  <1> USE DEF LinkInv, Counted
  <1>1. AttemptsCounted'
    <2> SUFFICES ASSUME NEW l \in Link, Dialed(l), Made(l)'
                 PROVE  /\ l.iteration <= states'[l.id].attempts
                        /\ Applying(l)' => l.iteration = states'[l.id].attempts
      BY DEF AttemptsCounted, Dialed
    <2>1. l.id \in State
      BY DEF Dialed
    <2>2. /\ l.iteration <= states[l.id].attempts
          /\ Applying(l) => l.iteration = states[l.id].attempts
      BY DEF AttemptsCounted
    <2> QED BY <2>1, <2>2
  <1>2. DialsAnew'
    <2> SUFFICES ASSUME NEW s \in State, states'[s].dial = "dialing",
                        linkMap'[states[s].dest] # None
                 PROVE  linkMap'[states[s].dest].id # s
      BY DEF DialsAnew
    <2>1. states[s].dial # "idle"
      OBVIOUS
    <2>2. states[s].dest \in Dest
      BY <2>1 DEF Owned, StatesSound, Sound, StateType
    <2> QED BY <2>2 DEF DialsAnew
  <1>3. CurrentLatest'
    BY DEF CurrentLatest, Dialed, Covers
  <1> QED BY <1>1, <1>2, <1>3

\* No fault is dropped.
LEMMA RecordedStep ==
    ASSUME LinkInv, Recorded, UNCHANGED <<dests, reported>>,
           \A l \in Link : ~Finished(l) => ~Finished(l)',
           \A l \in Link : Made(l) => Made(l)',
           \A l \in Link : Made(l)' => Made(l) \/ ~Finished(l)',
           \A s \in State : states'[s].faults = states[s].faults,
           \A e \in Queued' : e \in Queued \/ e.kind # "faulted",
           notify'.faults \subseteq notify.faults
    PROVE  Recorded'
  <1>1. FaultsReal'
    BY RealStays DEF Recorded, FaultsReal
  <1>2. Acknowledged'
    BY AcknowledgedStays DEF Recorded
  <1>3. Remembered'
    <2>1. RememberedKept
      BY RememberedCalm
    <2>2. \A l \in Link : Made(l)' /\ l.id \in Entries' =>
              (Made(l) /\ l.id \in Entries) \/ Vouches(l)'
      BY DEF Entries, Vouches
    <2> QED BY <2>1, <2>2, RememberedStays DEF Recorded
  <1> QED BY <1>1, <1>2, <1>3 DEF Recorded

\* Posting an event makes run() hear of nothing.
LEMMA PostNothing ==
    ASSUME TypeOK, NEW e \in Event, Post(e),
           \A l \in Link : links'[l].close = "done" => links[l].close = "done"
    PROVE  NothingHeard /\ Queued' = Queued \cup {e}
  BY PostQueue DEF NothingHeard

LEMMA SameHears ==
    ASSUME UNCHANGED events,
           \A l \in Link : links'[l].close = "done" => links[l].close = "done"
    PROVE  NothingHeard /\ Queued' = Queued
  BY DEF NothingHeard, Queued

-------------------------------------------------------------------------------
(***************************************************************************)
(* The dials                                                               *)
(***************************************************************************)
LEMMA DialStartsForgets ==
    ASSUME LinkInv, TypeOK', FaultInv, NEW s \in State, DialStarts(s) PROVE FaultInv'
  <1> DEFINE l == linkMap[states[s].dest]
  <1> USE DEF LinkInv, DialStarts, mapVars, ctrlVars, sendVars
  <1>1. /\ states[s].dial = "queued" /\ states[s] \in StateType
        /\ states[s].dest \in Dest
    BY DEF TypeOK, Owned, StatesSound, Sound, StateType
  <1>2. /\ states'[s] = [states[s] EXCEPT !.dial = IF l = None THEN "dialing" ELSE "found",
                                         !.found = l]
        /\ \A t \in State : t # s => states'[t] = states[t]
    BY DEF TypeOK
  <1>3. /\ states'[s].link = states[s].link /\ states'[s].attempts = states[s].attempts
        /\ states'[s].dest = states[s].dest /\ states'[s].faults = states[s].faults
        /\ states'[s].dial = (IF l = None THEN "dialing" ELSE "found")
        /\ states'[s].found = l
    <2> HIDE DEF l
    <2>1. PICK r \in StateType : r = states[s]
      BY <1>1
    <2>2. PICK q : q = states'[s]
      OBVIOUS
    <2>3. q = [r EXCEPT !.dial = IF l = None THEN "dialing" ELSE "found", !.found = l]
      BY <1>2, <2>1, <2>2
    <2>4. /\ q.link = r.link /\ q.attempts = r.attempts /\ q.dest = r.dest
          /\ q.faults = r.faults /\ q.found = l
          /\ q.dial = (IF l = None THEN "dialing" ELSE "found")
      BY <2>3 DEF StateType
    <2> QED BY <2>1, <2>2, <2>4
  <1>4. l # None => Settled(l)
    BY <1>1 DEF Owned, MapOwned, Settled
  <1>5. NothingHeard /\ Queued' = Queued
    BY SameHears
  <1>6. Lives'
    <2>1. StatesClaim'
      BY <1>2, <1>3, <1>4 DEF FaultInv, Lives, StatesClaim, Settled
    <2>2. EventsClaim' /\ SendsClaim'
      BY <1>5 DEF FaultInv, Lives, EventsClaim, SendsClaim, Settled, Made
    <2> QED BY <2>1, <2>2, SameOpen DEF FaultInv, Lives
  <1>7. Counted'
    <2>1. \A d \in Dest : linkMap'[d] \in {linkMap[d], None}
      OBVIOUS
    <2>2. \A m \in Link : (Made(m)' => Made(m)) /\ (Applying(m)' => Applying(m))
      BY DEF Made, Applying, Dialed
    <2>3. ASSUME NEW t \in State
          PROVE  /\ states'[t].attempts = states[t].attempts
                 /\ states'[t].dest = states[t].dest
                 /\ states'[t].dial = "dialing" =>
                       \/ states[t].dial = "dialing"
                       \/ linkMap[states[t].dest] = None /\ states[t].dial # "idle"
      <3>1. CASE t = s
        BY <1>1, <1>3, <3>1
      <3>2. CASE t # s
        BY <1>2, <3>2
      <3> QED BY <3>1, <3>2
    <2> QED BY <2>1, <2>2, <2>3, CountedStep DEF FaultInv
  <1>8. Recorded'
    <2>1. \A t \in State : states'[t].faults = states[t].faults
      BY <1>2, <1>3
    <2> QED BY <1>5, <2>1, UnfinishedStays, RecordedStep DEF FaultInv, Made
  <1> QED BY <1>6, <1>7, <1>8 DEF FaultInv

\* A dial ends: its state changes dial, and found at most.
DialEnds(s) ==
    /\ states'[s].dial # "dialing"
    /\ states'[s].found \in {states[s].found, None}
    /\ states'[s].link = states[s].link /\ states'[s].attempts = states[s].attempts
    /\ states'[s].dest = states[s].dest /\ states'[s].faults = states[s].faults

LEMMA DialEndForgets ==
    ASSUME LinkInv, TypeOK', FaultInv,
           \A s \in State : states'[s] = states[s] \/ DialEnds(s),
           UNCHANGED <<dests, mapVars, links, ctrlVars>>, NothingHeard,
           \A e \in Queued' : e \in Queued \/ (EventSays(e) /\ e.kind # "faulted")
    PROVE  FaultInv'
  <1> USE DEF mapVars, ctrlVars, sendVars
  <1>1. LinksAdvance /\ \A m \in Link : (Made(m)' <=> Made(m)) /\ (Applying(m)' <=> Applying(m))
    BY DEF LinksAdvance, Made, Settled, Applying, Dialed
  <1>2. Lives'
    <2>1. StatesClaim' /\ EventsClaim' /\ SendsClaim'
      BY <1>1, ClaimsStay DEF DialEnds, FaultInv
    <2> QED BY <2>1, SameOpen DEF FaultInv, Lives, LinkInv
  <1>3. Counted'
    BY <1>1, CountedStep DEF DialEnds, FaultInv
  <1>4. Recorded'
    BY <1>1, UnfinishedStays, RecordedStep DEF DialEnds, FaultInv
  <1> QED BY <1>2, <1>3, <1>4 DEF FaultInv

LEMMA DialErrsForgets ==
    ASSUME LinkInv, TypeOK', FaultInv, NEW s \in State, DialErrs(s) PROVE FaultInv'
  <1>1. states' = [states EXCEPT ![s].dial = "failed"]
    BY DEF DialErrs, SetDial
  <1>2. UNCHANGED <<dests, mapVars, links, ctrlVars, events>>
    BY DEF DialErrs
  <1>3. \A t \in State : states'[t] = states[t] \/ DialEnds(t)
    BY <1>1 DEF DialEnds, LinkInv, TypeOK, StateType
  <1>4. NothingHeard /\ Queued' = Queued
    BY <1>2, SameHears
  <1> QED BY <1>2, <1>3, <1>4, DialEndForgets

LEMMA DialPostsForgets ==
    ASSUME LinkInv, TypeOK', FaultInv, NEW s \in State, DialPosts(s) PROVE FaultInv'
  <1> USE DEF LinkInv
  <1>1. /\ states' = [states EXCEPT ![s].dial = "idle", ![s].found = None]
        /\ UNCHANGED <<dests, mapVars, links, ctrlVars>>
    BY DEF DialPosts
  <1>2. \A t \in State : states'[t] = states[t] \/ DialEnds(t)
    BY <1>1 DEF DialEnds, TypeOK, StateType
  <1>3. PICK e \in Event : Post(e) /\ EventSays(e) /\ e.kind # "faulted"
    <2>1. CASE /\ states[s].dial = "found"
               /\ Post([kind |-> "established", link |-> states[s].found])
      <3> DEFINE e == [kind |-> "established", link |-> states[s].found]
      <3>1. states[s].found # None /\ states[s].found \in Link
        BY <2>1 DEF Owned, StatesSound, Sound, StateType
      <3>2. Settled(states[s].found)
        BY <3>1 DEF FaultInv, Lives, StatesClaim
      <3>3. e \in Event
        BY <3>1 DEF Event
      <3>4. PICK l \in Link : l = states[s].found
        BY <3>1
      <3>5. links'[l].apply \in {"inserted", "done"} /\ e = [kind |-> "established", link |-> l]
        BY <1>1, <3>2, <3>4 DEF Settled
      <3>6. EventSays([kind |-> "established", link |-> l])
        BY <3>5 DEF EventSays, Settled
      <3> QED BY <2>1, <3>3, <3>5, <3>6
    <2>2. CASE Post([kind |-> "dialFailed", state |-> s])
      <3>1. [kind |-> "dialFailed", state |-> s] \in Event
        BY DEF Event
      <3> QED BY <2>2, <3>1 DEF EventSays
    <2> QED BY <2>1, <2>2 DEF DialPosts
  <1>4. NothingHeard /\ Queued' = Queued \cup {e}
    BY <1>1, <1>3, PostNothing
  <1> QED BY <1>1, <1>2, <1>3, <1>4, DialEndForgets

\* A link is made: one that a state dials while none of its links is current, or
\* one that another router dialed.
LEMMA MakeForgets ==
    ASSUME LinkInv, TypeOK', FaultInv, NEW l, l \in Link => ~Made(l),
           links' = [links EXCEPT ![l].apply = "made"],
           UNCHANGED <<dests, mapVars, events, ctrlVars>>,
           \A s \in State : states'[s] = states[s] \/ DialEnds(s),
           l \in Link /\ Dialed(l) =>
               states[l.id].dial = "dialing" /\ l.iteration = states[l.id].attempts
    PROVE  FaultInv'
  <1> USE DEF LinkInv, mapVars, ctrlVars, sendVars
  <1>1. \A m \in Link : links'[m] = IF m = l THEN [links[m] EXCEPT !.apply = "made"] ELSE links[m]
    BY DEF TypeOK
  <1>2. ASSUME NEW m \in Link
        PROVE  /\ links'[m].close = links[m].close
               /\ links'[m].apply = IF m = l THEN "made" ELSE links[m].apply
    <2>1. links[m] \in LinkType
      BY DEF TypeOK
    <2> QED BY <1>1, <2>1 DEF LinkType
  <1>3. LinksAdvance /\ \A m \in Link : Made(m)' <=> (m = l \/ Made(m))
    BY <1>2 DEF LinksAdvance, Made, Settled
  <1>4. NothingHeard /\ Queued' = Queued
    BY <1>2, SameHears
  <1>5. Lives'
    <2>1. StatesClaim' /\ EventsClaim' /\ SendsClaim'
      BY <1>3, <1>4, ClaimsStay DEF DialEnds, FaultInv
    <2>2. MadeOpen' /\ CheckedOpen'
      BY <1>2 DEF FaultInv, Lives, MadeOpen, CheckedOpen, Open, Made
    <2>3. MapAlive'
      BY <1>2 DEF FaultInv, Lives, MapAlive, TypeOK
    <2> QED BY <2>1, <2>2, <2>3 DEF Lives
  <1>6. \A s \in State : /\ states'[s].attempts = states[s].attempts
                         /\ states'[s].dest = states[s].dest
                         /\ states'[s].faults = states[s].faults
                         /\ states'[s].dial = "dialing" => states[s].dial = "dialing"
    BY DEF DialEnds
  <1>7. Counted'
    <2>1. AttemptsCounted'
      <3> SUFFICES ASSUME NEW m \in Link, Dialed(m), Made(m)'
                   PROVE  /\ m.iteration <= states'[m.id].attempts
                          /\ Applying(m)' => m.iteration = states'[m.id].attempts
        BY DEF AttemptsCounted, Dialed
      <3>1. m.id \in State /\ m.iteration \in Int
        BY DEF Dialed, Link
      <3>2. CASE m = l
        BY <1>6, <3>1, <3>2
      <3>3. CASE m # l
        <4>1. /\ m.iteration <= states[m.id].attempts
              /\ Applying(m) => m.iteration = states[m.id].attempts
          BY <1>3, <3>3 DEF FaultInv, Counted, AttemptsCounted
        <4>2. Applying(m)' => Applying(m)
          BY <1>2, <3>3 DEF Applying, Dialed
        <4> QED BY <1>6, <3>1, <4>1, <4>2
      <3> QED BY <3>2, <3>3
    <2>2. DialsAnew'
      BY <1>6 DEF FaultInv, Counted, DialsAnew
    <2>3. CurrentLatest'
      <3> SUFFICES ASSUME NEW d \in Dest, linkMap[d] # None, Dialed(linkMap[d]),
                          NEW m \in Link, Made(m)', m.id = linkMap[d].id
                   PROVE  Covers(linkMap[d], m)
        BY DEF CurrentLatest, Dialed, Covers
      <3>1. m # l
        <4> SUFFICES ASSUME m = l PROVE FALSE
          OBVIOUS
        <4>1. linkMap[d] \in Link /\ linkMap[d].dest = d /\ Made(linkMap[d])
          <5>1. linkMap[d] \in Link
            BY DEF TypeOK
          <5>2. linkMap[d].dest = d /\ links[linkMap[d]].apply \in {"inserted", "done"}
            BY DEF Owned, MapOwned
          <5> QED BY <5>1, <5>2 DEF Made
        <4>2. states[m.id].dest = d
          BY <4>1 DEF Owned, LinksOwned, Made
        <4>3. states[m.id].dial = "dialing" /\ m.id \in State
          BY DEF Dialed
        <4> QED BY <4>2, <4>3 DEF FaultInv, Counted, DialsAnew
      <3> QED BY <1>3, <3>1 DEF FaultInv, Counted, CurrentLatest
    <2> QED BY <2>1, <2>2, <2>3 DEF Counted
  <1>8. Recorded'
    <2>1. \A m \in Link : Made(m)' => Made(m) \/ ~Finished(m)'
      <3> SUFFICES ASSUME l \in Link PROVE ~Finished(l)'
        BY <1>3
      <3>1. links'[l].close = "open"
        BY <1>2 DEF FaultInv, Lives, MadeOpen, Open
      <3> QED BY <3>1, FinishedQueuedNext
    <2> QED BY <1>3, <1>4, <1>6, <2>1, UnfinishedStays, RecordedStep DEF FaultInv
  <1> QED BY <1>5, <1>7, <1>8 DEF FaultInv

LEMMA DialSucceedsForgets ==
    ASSUME LinkInv, TypeOK', FaultInv, NEW s \in State, DialSucceeds(s) PROVE FaultInv'
  <1>1. PICK l : l = DialedLink(s)
    OBVIOUS
  <1>2. /\ states[s].dial = "dialing" /\ ~Made(l)
        /\ links' = [links EXCEPT ![l].apply = "made"]
        /\ states' = [states EXCEPT ![s].dial = "applying"]
        /\ UNCHANGED <<dests, mapVars, events, ctrlVars>>
    BY <1>1 DEF DialSucceeds, SetDial, Made
  <1>3. l.id = s /\ l.iteration = states[s].attempts
    BY <1>1 DEF DialedLink
  <1>4. \A t \in State : states'[t] = states[t] \/ DialEnds(t)
    BY <1>2 DEF DialEnds, LinkInv, TypeOK, StateType
  <1> QED BY <1>2, <1>3, <1>4, MakeForgets

LEMMA AcceptForgets ==
    ASSUME LinkInv, TypeOK', FaultInv, NEW l \in Link, Accept(l) PROVE FaultInv'
  <1>1. ~Made(l) /\ ~Dialed(l)
    BY DEF Accept, Made, Link
  <1> QED BY <1>1, MakeForgets DEF Accept, loopVars

-------------------------------------------------------------------------------
(***************************************************************************)
(* applyLink                                                               *)
(***************************************************************************)
LEMMA GoesOnEnds ==
    ASSUME TypeOK, NEW l, NEW step \in {"idle", "failed"}, DialGoesOn(l, step)
    PROVE  \A s \in State : states'[s] = states[s] \/ DialEnds(s)
  BY DEF TypeOK, DialGoesOn, DialEnds, StateType

\* A registration goes on, but no link is made, closed or inserted.
LEMMA ApplyForgets ==
    ASSUME LinkInv, TypeOK', FaultInv,
           \A l \in Link :
               /\ links'[l].close = links[l].close
               /\ Made(l)' <=> Made(l)
               /\ Settled(l) => Settled(l)'
               /\ Applying(l)' => Applying(l)
               /\ links'[l].apply = "checked" => links[l].apply = "checked" \/ Open(l),
           \A s \in State : states'[s] = states[s] \/ DialEnds(s),
           \A e \in Queued' : e \in Queued \/ (EventSays(e) /\ e.kind # "faulted"),
           UNCHANGED <<dests, mapVars, ctrlVars>>, NothingHeard
    PROVE  FaultInv'
  <1> USE DEF LinkInv, mapVars, ctrlVars, sendVars
  <1>1. LinksAdvance
    BY DEF LinksAdvance
  <1>2. Lives'
    <2>1. StatesClaim' /\ EventsClaim' /\ SendsClaim'
      BY <1>1, ClaimsStay DEF DialEnds, FaultInv
    <2>2. MadeOpen' /\ CheckedOpen'
      BY DEF FaultInv, Lives, MadeOpen, CheckedOpen, Open
    <2>3. MapAlive'
      BY DEF FaultInv, Lives, MapAlive, TypeOK
    <2> QED BY <2>1, <2>2, <2>3 DEF Lives
  <1>3. Counted'
    BY CountedStep DEF DialEnds, FaultInv
  <1>4. Recorded'
    BY UnfinishedStays, RecordedStep DEF DialEnds, FaultInv
  <1> QED BY <1>2, <1>3, <1>4 DEF FaultInv

LEMMA ApplyChecksForgets ==
    ASSUME LinkInv, TypeOK', FaultInv, NEW l \in Link, ApplyChecks(l) PROVE FaultInv'
  <1> DEFINE existing == linkMap[l.dest]
             counted  == existing # None /\ existing.id < l.id
             rejected == links[existing].dups + 1
  <1> USE DEF LinkInv
  <1>0. /\ links[l].apply = "made" /\ UNCHANGED <<dests, mapVars, events, ctrlVars>>
        /\ \/ /\ links' = [links EXCEPT ![l].apply = "done"]
              /\ DialGoesOn(l, "failed")
           \/ /\ links' = [links EXCEPT ![l].apply = "done", ![l].doomed = TRUE,
                                        ![existing].dups = rejected]
              /\ DialGoesOn(l, "idle")
           \/ /\ Open(l)
              /\ links' = [m \in Link |->
                    IF m = l THEN [links[m] EXCEPT !.apply = "checked"]
                    ELSE IF m = existing
                    THEN [links[m] EXCEPT !.doomed = TRUE,
                                          !.dups = IF counted THEN rejected ELSE @]
                    ELSE links[m]]
              /\ UNCHANGED states
    BY DEF ApplyChecks
  <1> HIDE DEF existing, counted, rejected
  <1>1. \A s \in State : states'[s] = states[s] \/ DialEnds(s)
    BY <1>0, GoesOnEnds
  <1>2. ASSUME NEW m \in Link
        PROVE  /\ links'[m].close = links[m].close
               /\ m # l => links'[m].apply = links[m].apply
               /\ m = l => \/ links'[m].apply = "done"
                           \/ links'[m].apply = "checked" /\ Open(l)
    <2>1. links[m] \in LinkType
      BY DEF TypeOK
    <2>2. CASE links' = [links EXCEPT ![l].apply = "done"]
      BY <2>1, <2>2 DEF TypeOK, LinkType
    <2>3. CASE links' = [links EXCEPT ![l].apply = "done", ![l].doomed = TRUE,
                                      ![existing].dups = rejected]
      <3> DEFINE set == [links EXCEPT ![l].apply = "done", ![l].doomed = TRUE]
      <3>1. \A n \in Link : links[n] \in LinkType
        BY DEF TypeOK
      <3>2. /\ set = [n \in Link |-> set[n]]
            /\ set[m] \in LinkType /\ set[m].close = links[m].close
            /\ set[m].apply = IF m = l THEN "done" ELSE links[m].apply
        BY <2>1, <3>1 DEF TypeOK, LinkType
      <3>3. links' = [set EXCEPT ![existing].dups = rejected]
        BY <2>3
      <3> HIDE DEF set
      <3>4. links'[m] = set[m] \/ links'[m] = [set[m] EXCEPT !.dups = rejected]
        BY <3>2, <3>3
      <3>5. links'[m].close = set[m].close /\ links'[m].apply = set[m].apply
        BY <3>2, <3>4 DEF LinkType
      <3> QED BY <3>2, <3>5
    <2>4. CASE /\ Open(l)
               /\ links' = [n \in Link |->
                     IF n = l THEN [links[n] EXCEPT !.apply = "checked"]
                     ELSE IF n = existing
                     THEN [links[n] EXCEPT !.doomed = TRUE,
                                           !.dups = IF counted THEN rejected ELSE @]
                     ELSE links[n]]
      BY <2>1, <2>4 DEF LinkType
    <2> QED BY <1>0, <2>2, <2>3, <2>4
  <1>3. ASSUME NEW m \in Link
        PROVE  /\ links'[m].close = links[m].close
               /\ Made(m)' <=> Made(m)
               /\ Settled(m) => Settled(m)'
               /\ Applying(m)' => Applying(m)
               /\ links'[m].apply = "checked" => links[m].apply = "checked" \/ Open(m)
    BY <1>0, <1>2 DEF Made, Settled, Applying, Dialed
  <1>4. NothingHeard /\ Queued' = Queued
    BY <1>0, <1>2, SameHears
  <1> QED BY <1>0, <1>1, <1>3, <1>4, ApplyForgets

LEMMA ApplyPostsForgets ==
    ASSUME LinkInv, TypeOK', FaultInv, NEW l \in Link, ApplyPosts(l) PROVE FaultInv'
  <1> DEFINE e == [kind |-> "established", link |-> l]
  <1> USE DEF LinkInv
  <1>0. /\ links[l].apply = "inserted" /\ Post(e) /\ e \in Event
        /\ links' = [links EXCEPT ![l].apply = "done"]
        /\ DialGoesOn(l, "idle")
        /\ UNCHANGED <<dests, mapVars, ctrlVars>>
    BY DEF ApplyPosts, Event
  <1>1. ASSUME NEW m \in Link
        PROVE  /\ links'[m].close = links[m].close
               /\ m # l => links'[m].apply = links[m].apply
               /\ m = l => links'[m].apply = "done"
    <2>1. links[m] \in LinkType
      BY DEF TypeOK
    <2> QED BY <1>0, <2>1 DEF TypeOK, LinkType
  <1>2. ASSUME NEW m \in Link
        PROVE  /\ links'[m].close = links[m].close
               /\ Made(m)' <=> Made(m)
               /\ Settled(m) => Settled(m)'
               /\ Applying(m)' => Applying(m)
               /\ links'[m].apply = "checked" => links[m].apply = "checked" \/ Open(m)
    BY <1>0, <1>1 DEF Made, Settled, Applying, Dialed
  <1>3. \A s \in State : states'[s] = states[s] \/ DialEnds(s)
    BY <1>0, GoesOnEnds
  <1>4. NothingHeard /\ Queued' = Queued \cup {e}
    BY <1>0, <1>1, PostNothing
  <1>5. EventSays(e) /\ e.kind # "faulted"
    BY <1>1 DEF EventSays, Settled
  <1> HIDE DEF e
  <1> QED BY <1>0, <1>2, <1>3, <1>4, <1>5, ApplyForgets

\* The link that becomes current is open, and its state's last one.
LEMMA ApplyInsertsForgets ==
    ASSUME LinkInv, TypeOK', FaultInv, NEW l \in Link, ApplyInserts(l) PROVE FaultInv'
  <1> USE DEF LinkInv, loopVars, ctrlVars, sendVars
  <1>0. /\ links[l].apply = "checked"
        /\ linkMap' = [linkMap EXCEPT ![l.dest] = l]
        /\ links' = [links EXCEPT ![l].apply = "inserted"]
        /\ UNCHANGED <<loopVars, events, ctrlVars>>
    BY DEF ApplyInserts
  <1>1. ASSUME NEW m \in Link
        PROVE  /\ links'[m].close = links[m].close
               /\ m # l => links'[m].apply = links[m].apply
               /\ m = l => links'[m].apply = "inserted"
    <2>1. links[m] \in LinkType
      BY DEF TypeOK
    <2> QED BY <1>0, <2>1 DEF TypeOK, LinkType
  <1>2. \A m \in Link : (Made(m)' <=> Made(m)) /\ (Applying(m)' <=> Applying(m))
    BY <1>0, <1>1 DEF Made, Applying, Dialed
  <1>3. \A d \in Dest : linkMap'[d] = IF d = l.dest THEN l ELSE linkMap[d]
    BY <1>0 DEF TypeOK
  <1>4. NothingHeard /\ Queued' = Queued
    BY <1>0, <1>1, SameHears
  <1>5. Lives'
    <2>1. LinksAdvance
      BY <1>1, <1>2 DEF LinksAdvance, Settled
    <2>2. StatesClaim' /\ EventsClaim' /\ SendsClaim'
      BY <1>0, <1>4, <2>1, ClaimsStay DEF FaultInv
    <2>3. MadeOpen' /\ CheckedOpen'
      BY <1>1, <1>2 DEF FaultInv, Lives, MadeOpen, CheckedOpen, Open
    <2>4. MapAlive'
      <3> SUFFICES ASSUME NEW d \in Dest, linkMap'[d] # None
                   PROVE  \E m \in Link : m = linkMap'[d] /\ links'[m].close \in {"open", "closed"}
        BY DEF MapAlive
      <3>1. CASE d = l.dest
        BY <1>0, <1>1, <1>3, <3>1 DEF FaultInv, Lives, CheckedOpen, Open
      <3>2. CASE d # l.dest
        BY <1>1, <1>3, <3>2 DEF FaultInv, Lives, MapAlive, TypeOK
      <3> QED BY <3>1, <3>2
    <2> QED BY <2>2, <2>3, <2>4 DEF Lives
  <1>6. Counted'
    <2>1. AttemptsCounted'
      BY <1>0, <1>2 DEF FaultInv, Counted, AttemptsCounted, Dialed
    <2>2. DialsAnew'
      <3> SUFFICES ASSUME NEW s \in State, states[s].dial = "dialing",
                          linkMap'[states[s].dest] # None
                   PROVE  linkMap'[states[s].dest].id # s
        BY <1>0 DEF DialsAnew
      <3>1. states[s].dest \in Dest
        BY DEF Owned, StatesSound, Sound, StateType
      <3>2. CASE states[s].dest = l.dest
        <4>1. Dialed(l) => states[l.id].dial = "applying"
          BY <1>0 DEF Dialling, DialApplies, Applying
        <4> QED BY <1>3, <3>1, <3>2, <4>1 DEF Dialed
      <3>3. CASE states[s].dest # l.dest
        BY <1>3, <3>1, <3>3 DEF FaultInv, Counted, DialsAnew
      <3> QED BY <3>2, <3>3
    <2>3. CurrentLatest'
      <3> SUFFICES ASSUME NEW d \in Dest, linkMap'[d] # None, linkMap'[d].id \in State,
                          NEW m \in Link, Made(m), m.id = linkMap'[d].id
                   PROVE  Covers(linkMap'[d], m)
        BY <1>2 DEF CurrentLatest, Dialed, Covers
      <3>1. CASE d = l.dest
        <4>1. linkMap'[d] = l /\ Dialed(l) /\ Dialed(m) /\ Applying(l) /\ Made(l)
          BY <1>0, <1>3, <3>1 DEF Dialed, Applying, Made
        <4>2. l.iteration = states[l.id].attempts /\ m.iteration <= states[m.id].attempts
          BY <4>1 DEF FaultInv, Counted, AttemptsCounted
        <4>3. l.iteration \in Int /\ m.iteration \in Int
          BY DEF Link
        <4> QED BY <4>1, <4>2, <4>3 DEF Covers
      <3>2. CASE d # l.dest
        BY <1>3, <3>2 DEF FaultInv, Counted, CurrentLatest, Dialed
      <3> QED BY <3>1, <3>2
    <2> QED BY <2>1, <2>2, <2>3 DEF Counted
  <1>7. Recorded'
    BY <1>0, <1>2, <1>4, UnfinishedStays, RecordedStep DEF FaultInv
  <1> QED BY <1>5, <1>6, <1>7 DEF FaultInv

-------------------------------------------------------------------------------
(***************************************************************************)
(* The end of a link                                                       *)
(***************************************************************************)
\* A step of the end of the link l changes close, and takes l out of linkMap.
LEMMA EndingForgets ==
    ASSUME LinkInv, TypeOK', FaultInv, NEW l \in Link, Made(l), links[l].apply # "checked",
           \A m \in Link : /\ links'[m].apply = links[m].apply
                           /\ m # l => links'[m].close = links[m].close,
           linkMap' = linkMap
               \/ linkMap' = [linkMap EXCEPT ![l.dest] = IF @ = l THEN None ELSE @],
           linkMap'[l.dest] = l => links'[l].close \in {"open", "closed"},
           ~Finished(l) => ~Finished(l)',
           \A e \in Queued : e.kind \in {"closed", "replaced"} => e \in Queued',
           \A e \in Queued' : e \in Queued \/ (EventSays(e) /\ e.kind # "faulted"),
           UNCHANGED <<loopVars, ctrlVars>>
    PROVE  FaultInv'
  <1> USE DEF LinkInv, loopVars, ctrlVars, sendVars
  <1>1. \A m \in Link : /\ Made(m)' <=> Made(m)
                        /\ Settled(m)' <=> Settled(m)
                        /\ Applying(m)' <=> Applying(m)
    BY DEF Made, Settled, Applying, Dialed
  <1>2. \A d \in Dest : linkMap'[d] \in {linkMap[d], None}
    BY DEF TypeOK, Link
  <1>3. Lives'
    <2>1. StatesClaim' /\ EventsClaim' /\ SendsClaim'
      BY <1>1, ClaimsStay DEF FaultInv, LinksAdvance
    <2>2. MadeOpen' /\ CheckedOpen'
      BY <1>1 DEF FaultInv, Lives, MadeOpen, CheckedOpen, Open
    <2>3. MapAlive'
      <3> SUFFICES ASSUME NEW d \in Dest, linkMap'[d] # None
                   PROVE  \E m \in Link : m = linkMap'[d] /\ links'[m].close \in {"open", "closed"}
        BY DEF MapAlive
      <3>1. linkMap[d] = linkMap'[d] /\ linkMap[d] \in Link /\ linkMap[d].dest = d
        BY <1>2 DEF TypeOK, Owned, MapOwned
      <3>2. CASE linkMap[d] = l
        BY <3>1, <3>2
      <3>3. CASE linkMap[d] # l
        BY <3>1, <3>3 DEF FaultInv, Lives, MapAlive
      <3> QED BY <3>2, <3>3
    <2> QED BY <2>1, <2>2, <2>3 DEF Lives
  <1>4. Counted'
    BY <1>1, <1>2, CountedStep DEF FaultInv
  <1>5. Recorded'
    <2>1. \A m \in Link : ~Finished(m) => ~Finished(m)'
      BY FinishedQueued, FinishedQueuedNext
    <2> QED BY <1>1, <2>1, RecordedStep DEF FaultInv
  <1> QED BY <1>3, <1>4, <1>5 DEF FaultInv

LEMMA CloseForgets ==
    ASSUME ~LateCloses, LinkInv, TypeOK', FaultInv, NEW l \in Link, Close(l) PROVE FaultInv'
  <1> USE DEF LinkInv
  <1>0. /\ Made(l) /\ links[l].apply # "checked" /\ Open(l)
        /\ links' = [links EXCEPT ![l].close = "closed"]
        /\ UNCHANGED <<loopVars, mapVars, events, ctrlVars>>
    BY DEF Close, Made
  <1>1. ASSUME NEW m \in Link
        PROVE  /\ links'[m].apply = links[m].apply
               /\ m # l => links'[m].close = links[m].close
               /\ m = l => links'[m].close = "closed"
    BY <1>0 DEF TypeOK, LinkType
  <1>2. ~Finished(l)' /\ Queued' = Queued
    BY <1>0, <1>1, FinishedQueuedNext DEF Queued
  <1> QED BY <1>0, <1>1, <1>2, EndingForgets DEF mapVars

LEMMA EndMade ==
    ASSUME FaultInv, NEW l \in Link, links[l].close # "open"
    PROVE  Made(l) /\ links[l].apply # "checked"
  BY DEF FaultInv, Lives, MadeOpen, CheckedOpen, Open

LEMMA LinkClosedRemovesForgets ==
    ASSUME LinkInv, TypeOK', FaultInv, NEW l \in Link, LinkClosedRemoves(l) PROVE FaultInv'
  <1> USE DEF LinkInv
  <1>0. /\ links[l].close = "closed"
        /\ links' = [links EXCEPT ![l].close =
                        IF linkMap[l.dest] = l THEN "current" ELSE "replaced"]
        /\ linkMap' = [linkMap EXCEPT ![l.dest] = IF @ = l THEN None ELSE @]
        /\ UNCHANGED <<loopVars, events, ctrlVars>>
    BY DEF LinkClosedRemoves
  <1>1. ASSUME NEW m \in Link
        PROVE  /\ links'[m].apply = links[m].apply
               /\ m # l => links'[m].close = links[m].close
               /\ m = l => links'[m].close # "done"
    BY <1>0 DEF TypeOK, LinkType
  <1>2. ~Finished(l)' /\ Queued' = Queued
    BY <1>0, <1>1, FinishedQueuedNext DEF Queued
  <1>3. linkMap'[l.dest] # l
    BY <1>0, NoneAssumption DEF TypeOK, Link
  <1> QED BY <1>0, <1>1, <1>2, <1>3, EndMade, EndingForgets

LEMMA LinkClosedPostsForgets ==
    ASSUME LinkInv, TypeOK', FaultInv, NEW l \in Link, LinkClosedPosts(l) PROVE FaultInv'
  <1> USE DEF LinkInv
  <1>0. /\ links[l].close \in {"current", "replaced"}
        /\ links' = [links EXCEPT ![l].close = "done"]
        /\ UNCHANGED <<loopVars, mapVars, ctrlVars>>
    BY DEF LinkClosedPosts
  <1>1. PICK kind \in {"closed", "replaced"} : Post([kind |-> kind, link |-> l])
    BY DEF LinkClosedPosts
  <1> DEFINE e == [kind |-> kind, link |-> l]
  <1>2. e \in Event /\ e.kind \in {"closed", "replaced"} /\ e.link = l
    BY DEF Event
  <1>3. Queued' = Queued \cup {e}
    BY <1>1, <1>2, PostQueue
  <1> HIDE DEF e
  <1>4. ASSUME NEW m \in Link
        PROVE  /\ links'[m].apply = links[m].apply
               /\ m # l => links'[m].close = links[m].close
    BY <1>0 DEF TypeOK, LinkType
  <1>5. Made(l) /\ links[l].apply # "checked"
    BY <1>0, EndMade
  <1>6. EventSays(e) /\ e.kind # "faulted" /\ ~Finished(l)'
    BY <1>2, <1>3, <1>4, <1>5, FinishedQueuedNext DEF EventSays, Made
  <1>7. linkMap'[l.dest] # l
    <2>1. l.dest \in Dest /\ l # None
      BY NoneAssumption DEF Link
    <2> QED BY <1>0, <2>1 DEF FaultInv, Lives, MapAlive, mapVars
  <1> QED BY <1>0, <1>3, <1>4, <1>5, <1>6, <1>7, EndingForgets DEF mapVars

-------------------------------------------------------------------------------
(***************************************************************************)
(* The notification of the controllers, and their view of the routers      *)
(***************************************************************************)
\* Nothing happens to links and states.
LEMMA SameForgets ==
    ASSUME LinkInv, TypeOK', FaultInv, UNCHANGED <<loopVars, mapVars, links>>, NothingHeard,
           \A e \in Queued' : e \in Queued \/ EventSays(e),
           notify'.links \subseteq notify.links,
           told' \subseteq told \cup {p[2] : p \in notify.links},
           notify'.faults \subseteq notify.faults,
           reported \subseteq reported',
           reported' \subseteq reported \cup {p[2] : p \in notify.faults},
           Acknowledged'
    PROVE  FaultInv'
  <1> USE DEF LinkInv, loopVars, mapVars
  <1>1. /\ LinksAdvance
        /\ \A m \in Link : (Made(m)' <=> Made(m)) /\ (Applying(m)' <=> Applying(m))
    BY DEF LinksAdvance, Made, Settled, Applying, Dialed
  <1>2. Lives'
    <2>1. StatesClaim' /\ EventsClaim' /\ SendsClaim'
      BY <1>1, ClaimsStay DEF FaultInv
    <2> QED BY <2>1, SameOpen DEF FaultInv, Lives
  <1>3. Counted'
    <2>1. \A d \in Dest : linkMap'[d] \in {linkMap[d], None}
      OBVIOUS
    <2> QED BY <1>1, <2>1, CountedStep DEF FaultInv
  <1>4. FaultsReal'
    <2>1. FaultsReal
      BY DEF FaultInv, Recorded
    <2>2. /\ \A s \in State : \A f \in states'[s].faults : f \in states[s].faults
          /\ \A p \in notify'.faults : Real(p[2])
      BY <2>1 DEF FaultsReal
    <2>3. ASSUME NEW f \in reported' PROVE Real(f)
      BY <2>1 DEF FaultsReal
    <2> QED BY <1>1, <2>1, <2>2, <2>3, RealStays
  <1>5. Remembered'
    <2>1. RememberedKept
      BY <1>1, UnfinishedStays, RememberedCalm
    <2> QED BY <1>1, <2>1, RememberedStays DEF FaultInv, Recorded, Entries
  <1> QED BY <1>2, <1>3, <1>4, <1>5 DEF FaultInv, Recorded

LEMMA SendNewLinksForgets ==
    ASSUME LinkInv, TypeOK', FaultInv, SendNewLinks PROVE FaultInv'
  <1> USE DEF LinkInv
  <1>1. /\ UNCHANGED <<loopVars, mapVars, links, reported>>
        /\ told' \subseteq told \cup {p[2] : p \in notify.links}
    BY DEF SendNewLinks
  <1>2. notify'.links \subseteq notify.links /\ notify'.faults \subseteq notify.faults
    BY DEF SendNewLinks, TypeOK, Idle
  <1>3. NothingHeard /\ \A e \in Queued' : e \in Queued \/ (EventSays(e) /\ e.kind # "faulted")
    <2>1. CASE Post([kind |-> "notified", pairs |-> notify.links])
      <3> DEFINE e == [kind |-> "notified", pairs |-> notify.links]
      <3>1. e \in Event /\ e.kind = "notified"
        BY DEF Event, TypeOK
      <3> HIDE DEF e
      <3>2. NothingHeard /\ Queued' = Queued \cup {e}
        BY <1>1, <2>1, <3>1, PostNothing DEF e
      <3> QED BY <3>1, <3>2 DEF EventSays
    <2>2. CASE UNCHANGED events
      BY <1>1, <2>2, SameHears
    <2> QED BY <2>1, <2>2 DEF SendNewLinks
  <1>4. Acknowledged'
    BY <1>1, <1>3, AcknowledgedStays DEF FaultInv, Recorded
  <1> QED BY <1>1, <1>2, <1>3, <1>4, SameForgets

\* A fault is acknowledged only after it was sent.
LEMMA SendLinkFaultsForgets ==
    ASSUME LinkInv, TypeOK', FaultInv, SendLinkFaults PROVE FaultInv'
  <1> USE DEF LinkInv
  <1>1. PICK sent \in SUBSET notify.faults :
            /\ reported' = reported \cup {p[2] : p \in sent}
            /\ IF sent = {} THEN UNCHANGED events
               ELSE Post([kind |-> "faulted", pairs |-> sent])
    BY DEF SendLinkFaults
  <1>2. UNCHANGED <<loopVars, mapVars, links, told>> /\ notify' = Idle
    BY DEF SendLinkFaults
  <1>3. notify'.links \subseteq notify.links /\ notify'.faults \subseteq notify.faults
    BY <1>2 DEF Idle
  <1> DEFINE e == [kind |-> "faulted", pairs |-> sent]
  <1>4. e \in Event /\ e.kind = "faulted" /\ e.pairs = sent
    BY DEF Event, TypeOK
  <1> HIDE DEF e
  <1>5. NothingHeard /\ Queued' \subseteq Queued \cup {e}
    <2>1. CASE sent = {}
      BY <1>1, <1>2, <2>1, SameHears
    <2>2. CASE sent # {}
      BY <1>1, <1>2, <1>4, <2>2, PostNothing DEF e
    <2> QED BY <2>1, <2>2
  <1>6. Acknowledged'
    BY <1>1, <1>4, <1>5 DEF FaultInv, Recorded, Acknowledged
  <1>7. EventSays(e)
    BY <1>4 DEF EventSays
  <1> QED BY <1>1, <1>2, <1>3, <1>5, <1>6, <1>7, SameForgets

LEMMA PeerStateChangeForgets ==
    ASSUME LinkInv, TypeOK', FaultInv, NEW d \in Dest, PeerStateChange(d) PROVE FaultInv'
  <1> USE DEF LinkInv, ctrlVars, sendVars
  <1>0. UNCHANGED <<loopVars, mapVars, links, ctrlVars>>
    BY DEF PeerStateChange
  <1>1. PICK e \in Event : Post(e) /\ e.kind \in {"remove", "update"}
    <2>1. [kind |-> "remove", dest |-> d] \in Event
      BY DEF Event
    <2>2. [kind |-> "update", dest |-> d, healthy |-> FALSE] \in Event
      BY DEF Event, UpdateType
    <2>3. \A listed, moved \in BOOLEAN :
              [kind |-> "update", dest |-> d, healthy |-> TRUE,
               listed |-> listed, moved |-> moved] \in Event
      BY DEF Event, UpdateType
    <2> QED BY <2>1, <2>2, <2>3 DEF PeerStateChange
  <1>2. NothingHeard /\ Queued' = Queued \cup {e}
    BY <1>0, <1>1, PostNothing
  <1>3. EventSays(e) /\ Acknowledged'
    BY <1>0, <1>1, <1>2, AcknowledgedStays DEF EventSays, FaultInv, Recorded
  <1> QED BY <1>0, <1>2, <1>3, SameForgets

-------------------------------------------------------------------------------
(***************************************************************************)
(* The theorem                                                             *)
(***************************************************************************)
LEMMA InitForgets == ASSUME Init PROVE FaultInv
  <1> USE DEF Init
  <1>1. Queued = {} /\ Entries = {}
    BY DEF Queued, Entries
  <1>2. \A l \in Link : ~Made(l) /\ Open(l) /\ ~Applying(l)
    BY DEF Made, Open, Applying
  <1>3. \A s \in State : /\ states[s].link = None /\ states[s].found = None
                         /\ states[s].dial = "idle" /\ states[s].faults = {}
    BY DEF Unused
  <1>4. Lives
    BY <1>1, <1>2, <1>3 DEF Lives, MadeOpen, CheckedOpen, MapAlive, StatesClaim, EventsClaim,
       SendsClaim, Idle, Made
  <1>5. Counted
    BY <1>2, <1>3 DEF Counted, AttemptsCounted, DialsAnew, CurrentLatest
  <1>6. Recorded
    BY <1>1, <1>3 DEF Recorded, FaultsReal, Acknowledged, Remembered, Idle
  <1> QED BY <1>4, <1>5, <1>6 DEF FaultInv

LEMMA StutterForgets ==
    ASSUME LinkInv, TypeOK', FaultInv, UNCHANGED vars PROVE FaultInv'
  <1>1. UNCHANGED <<loopVars, mapVars, links, events, ctrlVars>>
    BY DEF vars
  <1>2. NothingHeard /\ Queued' = Queued
    BY <1>1, SameHears
  <1> QED BY <1>1, <1>2, DialEndForgets DEF loopVars

LEMMA HandleForgets ==
    ASSUME LinkInv, TypeOK', FaultInv, Handle PROVE FaultInv'
  <1>1. CASE \E room \in BOOLEAN : HandleListed(room)
    BY <1>1, ListedForgets
  <1>2. CASE \E room \in BOOLEAN : HandleClosed(room)
    BY <1>2, ClosedForgets
  <1> QED
    BY <1>1, <1>2, UnhealthyForgets, UnlistedForgets, RemoveForgets, EstablishedForgets,
       ReplacedForgets, DialFailedForgets, NotifiedForgets, FaultedForgets DEF Handle

\* Every step of a goroutine keeps both invariants.
LEMMA NextForgets ==
    ASSUME ~LateCloses, LinkInv, FaultInv, [Next]_vars PROVE LinkInv' /\ FaultInv'
  <1>0. LinkInv' /\ TypeOK'
    BY NextKeeps DEF LinkInv
  <1>1. CASE Handle
    BY <1>0, <1>1, HandleForgets
  <1>2. CASE \E room \in BOOLEAN : TriggerFires(room)
    BY <1>0, <1>2, TriggerForgets
  <1>3. CASE \E room, sendRoom \in BOOLEAN : QueueTick(room, sendRoom)
    BY <1>0, <1>3, QueueForgets
  <1>4. CASE Scan
    BY <1>0, <1>4, ScanForgets DEF Scan
  <1>5. ASSUME NEW s \in State, BackoffElapses(s) \/ DialStep(s) PROVE FaultInv'
    BY <1>0, <1>5, BackoffForgets, DialStartsForgets, DialSucceedsForgets, DialErrsForgets,
       DialPostsForgets DEF DialStep
  <1>6. ASSUME NEW l \in Link, Accept(l) \/ ApplyStep(l) \/ Close(l) \/ CloseStep(l)
        PROVE  FaultInv'
    BY <1>0, <1>6, AcceptForgets, ApplyChecksForgets, ApplyInsertsForgets, ApplyPostsForgets,
       CloseForgets, LinkClosedRemovesForgets, LinkClosedPostsForgets DEF ApplyStep, CloseStep
  <1>7. CASE NotifyStep
    BY <1>0, <1>7, SendNewLinksForgets, SendLinkFaultsForgets DEF NotifyStep
  <1>8. ASSUME NEW d \in Dest, PeerStateChange(d) PROVE FaultInv'
    BY <1>0, <1>8, PeerStateChangeForgets
  <1>9. CASE UNCHANGED vars
    BY <1>0, <1>9, StutterForgets
  <1> QED BY <1>0, <1>1, <1>2, <1>3, <1>4, <1>5, <1>6, <1>7, <1>8, <1>9 DEF Next

\* A link of which the controllers were told is one that was made.
LEMMA RememberedTold ==
    ASSUME LinkInv, FaultInv PROVE FaultNotForgotten
  <1> SUFFICES ASSUME NEW l \in told, dests[l.dest].entry = l.id
               PROVE  \E m \in Link :
                         /\ m.dest = l.dest /\ Covers(m, l) /\ links[m].apply # "none"
                         /\ ~Finished(m) \/ Fault(m) \in states[l.id].faults \cup reported
    BY DEF FaultNotForgotten
  <1>1. l \in Link /\ Made(l) /\ l.dest \in Dest
    BY DEF LinkInv, TypeOK, FaultInv, Lives, SendsClaim, Link
  <1>2. l.id \in Entries /\ l.id \in State
    BY <1>1, NoneAssumption, IdAssumption, EntriesType DEF LinkInv, Entries, Link
  <1>3. PICK m \in Link : Made(m) /\ Covers(m, l) /\ Vouches(m)
    BY <1>1, <1>2 DEF FaultInv, Recorded, Remembered
  <1>4. m.id = l.id
    BY <1>3 DEF Covers
  <1>5. m.dest = l.dest
    BY <1>1, <1>2, <1>3, <1>4 DEF LinkInv, Owned, LinksOwned, Made, Dialed
  <1> QED BY <1>3, <1>4, <1>5 DEF Vouches, Made

\* The end of a link that the controllers were told of is not forgotten, whatever
\* dials, faults, reports and lost acknowledgements come between, as long as no
\* link closes between the check and the insertion of applyLink.
THEOREM FaultsKept == ~LateCloses => (Spec => []FaultNotForgotten)
  <1> SUFFICES ASSUME ~LateCloses PROVE Spec => []FaultNotForgotten
    OBVIOUS
  <1>1. Init => LinkInv /\ FaultInv
    BY InitInv, InitForgets
  <1>2. LinkInv /\ FaultInv /\ [Next]_vars => (LinkInv /\ FaultInv)'
    BY NextForgets
  <1>3. LinkInv /\ FaultInv => FaultNotForgotten
    BY RememberedTold
  <1> QED BY <1>1, <1>2, <1>3, PTL DEF Spec

===============================================================================
