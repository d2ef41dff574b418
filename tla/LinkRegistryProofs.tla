-------------------------- MODULE LinkRegistryProofs --------------------------
(***************************************************************************)
(* Proofs about LinkRegistry for every set of routers and of link states,  *)
(* every capacity of the event channel and every bound.                    *)
(***************************************************************************)
EXTENDS LinkRegistry, SequenceTheorems, TLAPS

USE IdAssumption, PeerAssumption, NoneAssumption, BoundAssumption

-------------------------------------------------------------------------------
(***************************************************************************)
(* A link state: it belongs to a router unless it is unused, an unused one *)
(* is neither dialed nor in the heap, and a dial that found a link has it. *)
(***************************************************************************)
Sound(r) ==
    /\ r \in StateType
    /\ r.dial = "found" => r.found # None /\ r.found.dest = r.dest
    /\ r.status = "unused" => r.dest = None
    /\ r.dest = None => r.status = "unused" /\ r.dial = "idle" /\ ~r.waiting

\* What run() may make of the link state r: it never starts a second dial.
Follows(r, q) ==
    /\ Sound(q)
    /\ q.dest = r.dest
    /\ \/ q.dial = r.dial /\ (q.status = "dialing" => r.status = "dialing")
       \/ q.dial = "queued" /\ r.dial = "idle"

\* It is not marked as notified anew.
NoteKept(r, q) ==
    q.status = "established" /\ q.notified =>
        r.status = "established" /\ r.notified /\ q.link = r.link

LEMMA UnusedSound == Sound(Unused)
  BY DEF Sound, Unused, StateType, Status

LEMMA FollowsSelf ==
    ASSUME NEW r, Sound(r) PROVE Follows(r, r) /\ NoteKept(r, r)
  BY DEF Follows, NoteKept

LEMMA FollowsTransitive ==
    ASSUME NEW r, NEW q, NEW t, Follows(r, q), Follows(q, t) PROVE Follows(r, t)
  BY DEF Follows

LEMMA NoteTransitive ==
    ASSUME NEW r, NEW q, NEW t, NoteKept(r, q), NoteKept(q, t) PROVE NoteKept(r, t)
  BY DEF NoteKept

LEMMA WithStatusFollows ==
    ASSUME NEW r, Sound(r), r.dest # None,
           NEW status \in Status \ {"unused", "established", "dialing"}
    PROVE  LET q == WithStatus(r, status)
           IN  Follows(r, q) /\ NoteKept(r, q) /\ q.status = status
  <1> DEFINE q == WithStatus(r, status)
  <1>1. /\ q \in StateType /\ q.status = status /\ q.dest = r.dest
        /\ q.dial = r.dial /\ q.found = r.found /\ q.waiting = r.waiting
    BY DEF Sound, WithStatus, StateType, Status
  <1> HIDE DEF q
  <1>2. Follows(r, q) /\ NoteKept(r, q) /\ q.status = status
    BY <1>1 DEF Sound, Follows, NoteKept, Status
  <1> QED BY <1>2 DEF q

\* A state that differs in due, waiting and faults only
Alike(r, q) ==
    /\ q.dest = r.dest /\ q.status = r.status /\ q.dial = r.dial /\ q.found = r.found
    /\ q.notified = r.notified /\ q.link = r.link
    /\ q.waiting => r.waiting \/ r.dest # None

LEMMA AlikeFollows ==
    ASSUME NEW r, Sound(r), NEW q \in StateType, Alike(r, q)
    PROVE  Follows(r, q) /\ NoteKept(r, q)
  <1>1. Sound(q)
    BY DEF Sound, Alike
  <1>2. Follows(r, q)
    BY <1>1 DEF Follows, Alike
  <1>3. NoteKept(r, q)
    BY DEF NoteKept, Alike
  <1> QED BY <1>2, <1>3

LEMMA DueFollows ==
    ASSUME NEW r, Sound(r)
    PROVE  LET q == [r EXCEPT !.due = TRUE] IN Follows(r, q) /\ NoteKept(r, q)
  <1> DEFINE q == [r EXCEPT !.due = TRUE]
  <1>1. q \in StateType /\ Alike(r, q)
    BY DEF Sound, StateType, Alike
  <1> HIDE DEF q
  <1>2. Follows(r, q) /\ NoteKept(r, q)
    BY <1>1, AlikeFollows
  <1> QED BY <1>2 DEF q

LEMMA PoppedFollows ==
    ASSUME NEW r, Sound(r)
    PROVE  LET q == [r EXCEPT !.waiting = FALSE] IN Follows(r, q) /\ NoteKept(r, q)
  <1> DEFINE q == [r EXCEPT !.waiting = FALSE]
  <1>1. q \in StateType /\ Alike(r, q)
    BY DEF Sound, StateType, Alike
  <1> HIDE DEF q
  <1>2. Follows(r, q) /\ NoteKept(r, q)
    BY <1>1, AlikeFollows
  <1> QED BY <1>2 DEF q

LEMMA DialFailedFollows ==
    ASSUME NEW r, Sound(r), r.dest # None
    PROVE  LET q == DialFailed(r)
           IN  Follows(r, q) /\ NoteKept(r, q) /\ q.status = r.status
  <1> DEFINE q == DialFailed(r)
  <1>1. q \in StateType /\ Alike(r, q)
    BY DEF Sound, StateType, Alike, DialFailed
  <1> HIDE DEF q
  <1>2. Follows(r, q) /\ NoteKept(r, q) /\ q.status = r.status /\ q.dest = r.dest
    BY <1>1, AlikeFollows DEF Alike
  <1> QED BY <1>2 DEF q

LEMMA EstablishedFollows ==
    ASSUME NEW r, Sound(r), r.dest # None, NEW l \in Link
    PROVE  LET q == [r EXCEPT !.status = "established", !.notified = FALSE, !.link = l]
           IN  Follows(r, q) /\ NoteKept(r, q) /\ q.status = "established"
  BY DEF Sound, Follows, NoteKept, StateType, Status

\* A change of the pending faults only
LEMMA FaultsFollow ==
    ASSUME NEW r, Sound(r), NEW S \in SUBSET FaultType
    PROVE  LET q == [r EXCEPT !.faults = S]
           IN  Follows(r, q) /\ NoteKept(r, q) /\ q.dest = r.dest
  <1> DEFINE q == [r EXCEPT !.faults = S]
  <1>1. q \in StateType /\ Alike(r, q)
    BY DEF Sound, StateType, Alike
  <1> HIDE DEF q
  <1>2. Follows(r, q) /\ NoteKept(r, q) /\ q.status = r.status /\ q.dest = r.dest
    BY <1>1, AlikeFollows DEF Alike
  <1> QED BY <1>2 DEF q

LEMMA WithFaultFollows ==
    ASSUME NEW r, Sound(r), NEW f \in FaultType
    PROVE  Follows(r, WithFault(r, f)) /\ NoteKept(r, WithFault(r, f))
  <1>1. {g \in r.faults : g.id # f.id} \cup {f} \in SUBSET FaultType
    BY DEF Sound, StateType
  <1> QED BY <1>1, FaultsFollow, FollowsSelf DEF WithFault

LEMMA WithoutIdFollows ==
    ASSUME NEW r, Sound(r), NEW i
    PROVE  Follows(r, WithoutId(r, i)) /\ NoteKept(r, WithoutId(r, i))
  <1>1. {g \in r.faults : g.id # i} \in SUBSET FaultType
    BY DEF Sound, StateType
  <1> QED BY <1>1, FaultsFollow DEF WithoutId

\* evaluateLinkState starts a dial only if none is running.
LEMMA EvaluateFollows ==
    ASSUME NEW r, Sound(r), r.dest # None, NEW room \in BOOLEAN
    PROVE  Follows(r, Evaluate(r, room)) /\ NoteKept(r, Evaluate(r, room))
  <1> DEFINE a == IF r.attempts < MaxIteration THEN r.attempts + 1 ELSE r.attempts
             q == [WithStatus(r, "dialing") EXCEPT !.attempts = a]
  <1>1. a \in 0 .. MaxIteration
    BY DEF Sound, StateType
  <1>2. /\ q \in StateType /\ q.dest = r.dest /\ q.dial = r.dial
        /\ q.found = r.found /\ q.status = "dialing"
    BY <1>1 DEF Sound, StateType, Status, WithStatus
  <1>3. WithStatus(q, "queueFailed") \in StateType
    BY <1>2 DEF StateType, Status, WithStatus
  <1>4. CASE ~(CouldDial(r) /\ r.dial = "idle")
    BY <1>4, FollowsSelf DEF Evaluate
  <1>5. CASE CouldDial(r) /\ r.dial = "idle" /\ room
    <2>1. Evaluate(r, room) = [q EXCEPT !.dial = "queued"]
      BY <1>5 DEF Evaluate, WithStatus
    <2> HIDE DEF q
    <2> QED BY <2>1, <1>2, <1>5 DEF Follows, Sound, NoteKept, StateType, Status
  <1>6. CASE CouldDial(r) /\ r.dial = "idle" /\ ~room
    <2>1. Evaluate(r, room) = DialFailed(WithStatus(q, "queueFailed"))
      BY <1>6 DEF Evaluate, WithStatus
    <2> HIDE DEF q
    <2>2. LET t == WithStatus(q, "queueFailed")
          IN  /\ t.dest = r.dest /\ t.dial = "idle" /\ t.status = "queueFailed"
              /\ t.found = r.found
      BY <1>2, <1>6 DEF WithStatus, StateType
    <2> QED
      BY <2>1, <2>2, <1>3, <1>6 DEF Follows, Sound, NoteKept, DialFailed, StateType, Status
  <1> QED BY <1>4, <1>5, <1>6

-------------------------------------------------------------------------------
(***************************************************************************)
(* The event channel                                                       *)
(***************************************************************************)
Queued == {events[i] : i \in DOMAIN events}

LEMMA TakesQueue ==
    ASSUME TypeOK, NEW kind, Takes(kind)
    PROVE  /\ Head(events) \in Event /\ Head(events) \in Queued
           /\ Head(events).kind = kind
           /\ events' \in Seq(Event) /\ Len(events') <= QueueCap
           /\ Queued' \subseteq Queued
           /\ \A e \in Queued : e # Head(events) => e \in Queued'
  <1>1. events \in Seq(Event) /\ events # <<>> /\ events' = Tail(events)
    BY DEF TypeOK, Takes
  <1>2. /\ Len(events) \in Nat /\ Len(events) # 0 /\ DOMAIN events = 1 .. Len(events)
        /\ events' \in Seq(Event) /\ Len(events') = Len(events) - 1
        /\ \A i \in 1 .. Len(events') : events'[i] = events[i + 1]
        /\ Head(events) = events[1]
    BY <1>1
  <1>3. DOMAIN events' = 1 .. Len(events')
    BY <1>2
  <1>4. ASSUME NEW e \in Queued' PROVE e \in Queued
    <2>1. PICK i \in 1 .. Len(events') : e = events'[i]
      BY <1>3 DEF Queued
    <2>2. i + 1 \in DOMAIN events /\ e = events[i + 1]
      BY <1>2, <2>1
    <2> QED BY <2>2 DEF Queued
  <1>5. ASSUME NEW e \in Queued, e # Head(events) PROVE e \in Queued'
    <2>1. PICK i \in 1 .. Len(events) : e = events[i]
      BY <1>2 DEF Queued
    <2>2. i # 1
      BY <1>2, <1>5, <2>1
    <2>3. i - 1 \in 1 .. Len(events') /\ (i - 1) + 1 = i
      BY <1>2, <2>1, <2>2
    <2>4. events'[i - 1] = e
      BY <1>2, <2>1, <2>3
    <2> QED BY <1>3, <2>3, <2>4 DEF Queued
  <1>6. Head(events) \in Event /\ Head(events) \in Queued
    BY <1>1, <1>2 DEF Queued
  <1> QED BY <1>2, <1>4, <1>5, <1>6 DEF TypeOK, Takes

LEMMA PostQueue ==
    ASSUME TypeOK, NEW e \in Event, Post(e)
    PROVE  /\ events' \in Seq(Event) /\ Len(events') <= QueueCap
           /\ Queued' = Queued \cup {e}
  <1>1. events \in Seq(Event) /\ Len(events) < QueueCap /\ events' = Append(events, e)
    BY DEF TypeOK, Post
  <1>2. /\ Len(events) \in Nat /\ DOMAIN events = 1 .. Len(events)
        /\ events' \in Seq(Event) /\ Len(events') = Len(events) + 1
        /\ DOMAIN events' = 1 .. Len(events) + 1
        /\ \A i \in 1 .. Len(events) : events'[i] = events[i]
        /\ events'[Len(events) + 1] = e
    BY <1>1
  <1>3. Queued' = Queued \cup {e}
    BY <1>2 DEF Queued
  <1> QED BY <1>1, <1>2, <1>3

\* What an event of each kind carries.
LEMMA EventFields ==
    ASSUME NEW e \in Event
    PROVE  /\ e.kind \in {"update", "remove"} => e.dest \in Dest
           /\ e.kind \in {"established", "closed", "replaced"} => e.link \in Link
           /\ e.kind = "dialFailed" => e.state \in State
           /\ e.kind = "notified" => e.pairs \subseteq State \X Link
           /\ e.kind = "faulted" => e.pairs \subseteq State \X FaultType
  <1>1. CASE e \in UpdateType
    BY <1>1 DEF UpdateType
  <1>2. CASE e \notin UpdateType
    BY <1>2 DEF Event
  <1> QED BY <1>1, <1>2

-------------------------------------------------------------------------------
(***************************************************************************)
(* The inductive invariant, in parts                                       *)
(***************************************************************************)
StatesSound == \A s \in State : Sound(states[s])

\* An entry belongs to its router.
EntriesOwned ==
    \A d \in Dest : dests[d].entry # None => states[dests[d].entry].dest = d

\* A link belongs to the router of the state that dialed it, here or there.
LinksOwned ==
    \A l \in Link : links[l].apply # "none" =>
        /\ Dialed(l) => states[l.id].dest = l.dest
        /\ ~Dialed(l) => PeerDest[l.id] = l.dest

\* The current link of a router is one of its links, and was inserted.
MapOwned ==
    \A d \in Dest : linkMap[d] # None =>
        linkMap[d].dest = d /\ links[linkMap[d]].apply \in {"inserted", "done"}

\* A message that was acknowledged was about links the controllers know of.
NotesTold ==
    \A e \in Queued : e.kind = "notified" => \A p \in e.pairs : p[2] \in told

\* A dial that has found a link has a link, and applyLink is a critical section.
Exclusive == \A l, m \in Link : HoldsMutex(l) /\ HoldsMutex(m) => l = m

\* The link that the holder of the Mutex replaces is doomed.
ReplacesDoomed ==
    \A l \in Link : links[l].apply = "checked" /\ linkMap[l.dest] # None =>
        links[linkMap[l.dest]].doomed

\* A link that was inserted is current, doomed or closed.
Kept ==
    \A l \in Link : links[l].apply \in {"inserted", "done"} /\ Open(l) =>
        linkMap[l.dest] = l \/ links[l].doomed

\* Only links the controllers were told of are marked as notified.
NoteTold ==
    \A s \in State :
        states[s].status = "established" /\ states[s].notified => states[s].link \in told

\* The dial of a link waits for applyLink, and of that link only.
Applying(l) == Dialed(l) /\ links[l].apply \in {"made", "checked", "inserted"}

DialApplies ==
    /\ \A l \in Link : Applying(l) => states[l.id].dial = "applying"
    /\ \A l, m \in Link : Applying(l) /\ Applying(m) /\ l.id = m.id => l = m

\* What an entry with StatusDialing can count on: a dial that has posted its
\* outcome, or one that is going to, and is not in the way of another link
\* unless that link marks the entry as established.
Counts(s) ==
    /\ states[s].dial = "idle" =>
          AwaitsFailure(s) \/ Awaits("established", states[s].dest)
    /\ states[s].dial \in {"dialing", "applying"} =>
          \/ linkMap[states[s].dest] = None
          \/ links[linkMap[states[s].dest]].apply = "inserted"
          \/ Awaits("established", states[s].dest)

DialsCounted == \A s \in Entries : states[s].status = "dialing" => Counts(s)

Owned    == StatesSound /\ EntriesOwned /\ LinksOwned /\ MapOwned
Current  == Exclusive /\ ReplacesDoomed /\ Kept /\ IndexAgrees
Notices  == NotesTold /\ NoteTold
Dialling == DialApplies /\ DialsCounted
LinkInv  == TypeOK /\ Owned /\ Current /\ Notices /\ Dialling

-------------------------------------------------------------------------------
(***************************************************************************)
(* What the handlers and tickers of run() have in common: they may replace *)
(* states by ones that follow them, drop entries and close links.          *)
(***************************************************************************)
StatesFollow ==
    states' \in [State -> StateType] /\ \A s \in State : Follows(states[s], states'[s])
NotesKept == \A s \in State : NoteKept(states[s], states'[s])
EntriesKept ==
    dests' \in [Dest -> DestType] /\ \A d \in Dest : dests'[d].entry \in {dests[d].entry, None}
LinksCalm ==
    /\ links' \in [Link -> LinkType]
    /\ \A l \in Link : /\ links'[l].apply = links[l].apply
                       /\ links'[l].doomed = links[l].doomed
                       /\ links'[l].close = "open" => links[l].close = "open"
LoopStep == StatesFollow /\ EntriesKept /\ LinksCalm /\ UNCHANGED mapVars

\* An entry that goes on dialing can still count on the event it counted on.
AwaitsKept ==
    \A s \in Entries :
        states[s].status = "dialing" /\ states'[s].status = "dialing" =>
            /\ AwaitsFailure(s) => AwaitsFailure(s)'
            /\ Awaits("established", states[s].dest)
                  => \E e \in Queued' : e.kind = "established" /\ e.link.dest = states[s].dest

LEMMA AwaitsQueued ==
    /\ \A k, d : Awaits(k, d) <=> \E e \in Queued : e.kind = k /\ e.link.dest = d
    /\ \A s : AwaitsFailure(s) <=> \E e \in Queued : e.kind = "dialFailed" /\ e.state = s
  BY DEF Awaits, AwaitsFailure, Queued

LEMMA AwaitsQueuedNext ==
    /\ \A k, d : Awaits(k, d)' <=> \E e \in Queued' : e.kind = k /\ e.link.dest = d
    /\ \A s : AwaitsFailure(s)' <=> \E e \in Queued' : e.kind = "dialFailed" /\ e.state = s
  BY DEF Awaits, AwaitsFailure, Queued

LEMMA EntriesType ==
    ASSUME TypeOK, Owned
    PROVE  /\ Entries \subseteq State
           /\ \A s \in Entries : states[s].dest \in Dest /\ dests[states[s].dest].entry = s
  BY DEF TypeOK, Owned, EntriesOwned, Entries, DestType

LEMMA OwnedLoop == ASSUME TypeOK, Owned, LoopStep PROVE Owned'
  <1> USE DEF LoopStep
  <1>1. StatesSound'
    BY DEF StatesSound, StatesFollow, Follows
  <1>2. EntriesOwned'
    <2> SUFFICES ASSUME NEW d \in Dest, dests'[d].entry # None
                 PROVE  states'[dests'[d].entry].dest = d
      BY DEF EntriesOwned
    <2>1. dests'[d].entry = dests[d].entry
      BY DEF EntriesKept
    <2>2. dests[d].entry \in State
      BY <2>1 DEF TypeOK, DestType
    <2> QED BY <2>1, <2>2 DEF Owned, EntriesOwned, StatesFollow, Follows
  <1>3. LinksOwned'
    <2> SUFFICES ASSUME NEW l \in Link, links'[l].apply # "none"
                 PROVE  /\ Dialed(l) => states'[l.id].dest = l.dest
                        /\ ~Dialed(l) => PeerDest[l.id] = l.dest
      BY DEF LinksOwned, Dialed
    <2>1. links[l].apply # "none"
      BY DEF LinksCalm
    <2> QED BY <2>1 DEF Owned, LinksOwned, StatesFollow, Follows, Dialed
  <1>4. MapOwned'
    BY DEF Owned, MapOwned, LinksCalm, mapVars, TypeOK
  <1> QED BY <1>1, <1>2, <1>3, <1>4 DEF Owned

LEMMA CurrentCalm == ASSUME TypeOK, Current, LinksCalm, UNCHANGED mapVars PROVE Current'
  <1>1. Exclusive'
    BY DEF Current, Exclusive, LinksCalm, HoldsMutex
  <1>2. ReplacesDoomed'
    <2> SUFFICES ASSUME NEW l \in Link, links'[l].apply = "checked", linkMap[l.dest] # None
                 PROVE  links'[linkMap[l.dest]].doomed
      BY DEF ReplacesDoomed, mapVars
    <2>1. l.dest \in Dest
      BY DEF Link
    <2>2. linkMap[l.dest] \in Link
      BY <2>1 DEF TypeOK
    <2> QED BY <2>2 DEF Current, ReplacesDoomed, LinksCalm
  <1>3. Kept'
    BY DEF Current, Kept, LinksCalm, mapVars, Open
  <1>4. IndexAgrees'
    BY DEF Current, IndexAgrees, mapVars
  <1> QED BY <1>1, <1>2, <1>3, <1>4 DEF Current

LEMMA DiallingLoop ==
    ASSUME TypeOK, Owned, Dialling, LoopStep, AwaitsKept PROVE Dialling'
  <1> USE DEF LoopStep
  <1>1. \A l \in Link : Applying(l)' <=> Applying(l)
    BY DEF LinksCalm, Applying, Dialed
  <1>2. DialApplies'
    <2>1. ASSUME NEW l \in Link, Applying(l) PROVE states'[l.id].dial = "applying"
      <3>1. l.id \in State /\ states[l.id].dial = "applying"
        BY <2>1 DEF Dialling, DialApplies, Applying, Dialed
      <3> QED BY <3>1 DEF StatesFollow, Follows
    <2> QED BY <1>1, <2>1 DEF Dialling, DialApplies
  <1>3. ASSUME NEW s \in Entries', states'[s].status = "dialing" PROVE Counts(s)'
    <2>1. s \in Entries
      BY DEF Entries, EntriesKept
    <2>2. s \in State /\ states[s].dest \in Dest /\ Follows(states[s], states'[s])
      BY <2>1, EntriesType DEF StatesFollow
    <2>3. CASE states'[s].dial = "queued"
      BY <2>3 DEF Counts
    <2>4. CASE states'[s].dial # "queued"
      <3>1. /\ states[s].status = "dialing" /\ states'[s].dial = states[s].dial
            /\ states'[s].dest = states[s].dest
        BY <1>3, <2>2, <2>4 DEF Follows
      <3>2. Counts(s)
        BY <2>1, <3>1 DEF Dialling, DialsCounted
      <3>3. /\ AwaitsFailure(s) => AwaitsFailure(s)'
            /\ Awaits("established", states[s].dest) => Awaits("established", states[s].dest)'
        <4>1. /\ AwaitsFailure(s) => AwaitsFailure(s)'
              /\ Awaits("established", states[s].dest)
                    => \E e \in Queued' : e.kind = "established" /\ e.link.dest = states[s].dest
          BY <1>3, <2>1, <3>1 DEF AwaitsKept
        <4>2. ASSUME NEW e \in Queued', e.kind = "established", e.link.dest = states[s].dest
              PROVE  Awaits("established", states[s].dest)'
          BY <3>1, <4>2 DEF Awaits, Queued
        <4> QED BY <4>1, <4>2
      <3>4. linkMap' = linkMap /\ \A l \in Link : links'[l].apply = links[l].apply
        BY DEF mapVars, LinksCalm
      <3>5. linkMap[states[s].dest] \in Link \cup {None}
        BY <2>2 DEF TypeOK
      <3> QED BY <3>1, <3>2, <3>3, <3>4, <3>5 DEF Counts
    <2> QED BY <2>3, <2>4
  <1> QED BY <1>2, <1>3 DEF Dialling, DialsCounted

LEMMA LoopStays ==
    ASSUME LinkInv, TypeOK', LoopStep, NoteTold', AwaitsKept, NotesTold'
    PROVE  LinkInv'
  BY OwnedLoop, CurrentCalm, DiallingLoop DEF LinkInv, LoopStep, Notices

LEMMA LoopKeeps ==
    ASSUME LinkInv, TypeOK', LoopStep, NotesKept, AwaitsKept, NotesTold',
           told \subseteq told'
    PROVE  LinkInv'
  <1>1. NoteTold'
    BY DEF LinkInv, Notices, NoteTold, NotesKept, NoteKept
  <1> QED BY <1>1, LoopStays

-------------------------------------------------------------------------------
(***************************************************************************)
(* The parts of a loop step                                                *)
(***************************************************************************)
LEMMA FollowAll ==
    ASSUME states' = [s \in State |-> states'[s]],
           \A s \in State : Follows(states[s], states'[s])
    PROVE  StatesFollow
  BY DEF StatesFollow, Follows, Sound

LEMMA SameStates == ASSUME TypeOK, StatesSound, UNCHANGED states PROVE StatesFollow /\ NotesKept
  <1>1. \A s \in State : Follows(states[s], states'[s]) /\ NoteKept(states[s], states'[s])
    BY FollowsSelf DEF StatesSound
  <1>2. states' \in [State -> StateType]
    BY DEF TypeOK
  <1> QED BY <1>1, <1>2 DEF StatesFollow, NotesKept

LEMMA SameEntries == ASSUME TypeOK, UNCHANGED dests PROVE EntriesKept
  BY DEF TypeOK, EntriesKept

\* One destination changes, and keeps or loses its entry.
LEMMA SetEntry ==
    ASSUME TypeOK, NEW d \in Dest, NEW r \in DestType, r.entry \in {dests[d].entry, None},
           dests' = [dests EXCEPT ![d] = r]
    PROVE  EntriesKept
  BY DEF TypeOK, EntriesKept

LEMMA SameLinks == ASSUME TypeOK, UNCHANGED links PROVE LinksCalm
  BY DEF TypeOK, LinksCalm

LEMMA ClosedLinks == ASSUME TypeOK, NEW closing, CloseAll(closing) PROVE LinksCalm
  <1>1. ASSUME NEW l \in Link
        PROVE  /\ links'[l] \in LinkType
               /\ links'[l].apply = links[l].apply
               /\ links'[l].doomed = links[l].doomed
               /\ links'[l].close = "open" => links[l].close = "open"
    <2>1. links[l] \in LinkType
      BY DEF TypeOK
    <2>2. links'[l] = IF l \in closing /\ Open(l) THEN [links[l] EXCEPT !.close = "closed"]
                      ELSE links[l]
      BY DEF CloseAll
    <2> QED BY <2>1, <2>2 DEF Open, LinkType
  <1>2. links' = [l \in Link |-> links'[l]]
    BY DEF CloseAll
  <1> QED BY <1>1, <1>2 DEF LinksCalm

LEMMA TakesNotes ==
    ASSUME TypeOK, NotesTold, NEW kind, Takes(kind), told \subseteq told' PROVE NotesTold'
  BY TakesQueue DEF NotesTold

LEMMA TakesAwaits ==
    ASSUME TypeOK, NEW kind, kind \notin {"established", "dialFailed"}, Takes(kind)
    PROVE  AwaitsKept
  <1>1. \A e \in Queued : e.kind \in {"established", "dialFailed"} => e \in Queued'
    BY TakesQueue
  <1> QED BY <1>1, AwaitsQueued, AwaitsQueuedNext DEF AwaitsKept

LEMMA SameEvents ==
    ASSUME NotesTold, UNCHANGED events, told \subseteq told' PROVE NotesTold' /\ AwaitsKept
  <1>1. Queued' = Queued
    BY DEF Queued
  <1> QED BY <1>1, AwaitsQueued, AwaitsQueuedNext DEF NotesTold, AwaitsKept

LEMMA PostAwaits == ASSUME TypeOK, NEW e \in Event, Post(e) PROVE AwaitsKept
  BY PostQueue, AwaitsQueued, AwaitsQueuedNext DEF AwaitsKept

LEMMA WellType == ASSUME TypeOK, NEW w, Well(w) PROVE troubles' \in 0 .. MaxTroubles
  BY DEF TypeOK, Well

-------------------------------------------------------------------------------
(***************************************************************************)
(* run(): the events                                                       *)
(***************************************************************************)
LEMMA UnhealthyKeeps == ASSUME LinkInv, HandleUnhealthy PROVE LinkInv'
  <1> USE DEF HandleUnhealthy, LinkInv
  <1>1. events' \in Seq(Event) /\ Len(events') <= QueueCap /\ Head(events).dest \in Dest
    BY TakesQueue, EventFields
  <1>2. EntriesKept
    <2> DEFINE d == Head(events).dest
               r == [dests[d] EXCEPT !.known = TRUE, !.healthy = FALSE]
    <2>1. dests[d] \in DestType
      BY <1>1 DEF TypeOK
    <2>2. r \in DestType /\ r.entry = dests[d].entry
      BY <2>1 DEF DestType
    <2>3. dests' = [dests EXCEPT ![d] = r]
      BY <1>1, <2>1 DEF TypeOK, DestType
    <2> QED BY <1>1, <2>2, <2>3, SetEntry
  <1>3. LoopStep /\ NotesKept
    BY <1>2, SameStates, SameLinks DEF LoopStep, mapVars, Owned
  <1>4. TypeOK'
    BY <1>1, <1>2, <1>3 DEF TypeOK, EntriesKept, mapVars, ctrlVars, sendVars, envVars
  <1>5. NotesTold' /\ AwaitsKept
    BY TakesNotes, TakesAwaits DEF Notices, ctrlVars, sendVars
  <1> QED BY <1>3, <1>4, <1>5, LoopKeeps DEF ctrlVars, sendVars

LEMMA UnlistedKeeps == ASSUME LinkInv, HandleUnlisted PROVE LinkInv'
  <1> USE DEF HandleUnlisted, LinkInv
  <1>1. events' \in Seq(Event) /\ Len(events') <= QueueCap /\ Head(events).dest \in Dest
    BY TakesQueue, EventFields
  <1>2. EntriesKept
    BY <1>1, SetEntry DEF TypeOK, DestType
  <1>3. LoopStep /\ NotesKept
    BY <1>2, SameStates, ClosedLinks DEF LoopStep, mapVars, Owned
  <1>4. TypeOK'
    BY <1>1, <1>2, <1>3 DEF TypeOK, EntriesKept, LoopStep, LinksCalm, mapVars,
       ctrlVars, sendVars, envVars
  <1>5. NotesTold' /\ AwaitsKept
    BY TakesNotes, TakesAwaits DEF Notices, ctrlVars, sendVars
  <1> QED BY <1>3, <1>4, <1>5, LoopKeeps DEF ctrlVars, sendVars

LEMMA RemoveKeeps == ASSUME LinkInv, HandleRemove PROVE LinkInv'
  <1> USE DEF HandleRemove, LinkInv
  <1>1. events' \in Seq(Event) /\ Len(events') <= QueueCap /\ Head(events).dest \in Dest
    BY TakesQueue, EventFields
  <1>2. EntriesKept
    BY <1>1, SetEntry DEF TypeOK, DestType
  <1>3. ASSUME NEW s \in State
        PROVE  Follows(states[s], states'[s]) /\ NoteKept(states[s], states'[s])
    <2>1. Sound(states[s])
      BY DEF Owned, StatesSound
    <2>2. CASE s # dests[Head(events).dest].entry
      BY <2>1, <2>2, FollowsSelf
    <2>3. CASE s = dests[Head(events).dest].entry
      <3>1. states[s].dest # None
        BY <1>1, <2>3, EntriesType DEF Owned, EntriesOwned
      <3> QED BY <2>1, <2>3, <3>1, WithStatusFollows DEF Status
    <2> QED BY <2>2, <2>3
  <1>4. LoopStep /\ NotesKept
    BY <1>2, <1>3, FollowAll, SameLinks DEF LoopStep, mapVars, NotesKept
  <1>5. TypeOK'
    BY <1>1, <1>2, <1>4 DEF TypeOK, EntriesKept, LoopStep, StatesFollow, mapVars,
       ctrlVars, sendVars, envVars
  <1>6. NotesTold' /\ AwaitsKept
    BY TakesNotes, TakesAwaits DEF Notices, ctrlVars, sendVars
  <1> QED BY <1>4, <1>5, <1>6, LoopKeeps DEF ctrlVars, sendVars

\* A new link state becomes the entry of a router that had none.
LEMMA NewEntryKeeps ==
    ASSUME LinkInv, Takes("update"), NEW d \in Dest, NEW s \in State, NEW room \in BOOLEAN,
           states[s].status = "unused",
           dests' = [dests EXCEPT ![d] = [known |-> TRUE, healthy |-> TRUE, entry |-> s]],
           states' = [states EXCEPT ![s] =
               Evaluate([@ EXCEPT !.dest = d, !.status = "pending"], room)],
           UNCHANGED <<mapVars, links, ctrlVars, updates>>, Well(room)
    PROVE  LinkInv'
  <1> DEFINE q == [states[s] EXCEPT !.dest = d, !.status = "pending"]
  <1> USE DEF LinkInv
  <1>1. Sound(states[s]) /\ states[s].dest = None
    BY DEF Owned, StatesSound, Sound
  <1>2. Sound(q) /\ q.dest = d /\ q.status = "pending" /\ d # None /\ q.dial = "idle"
    BY <1>1 DEF Sound, StateType, Status
  <1> HIDE DEF q
  <1>3. Follows(q, states'[s]) /\ NoteKept(q, states'[s])
    <2>1. states'[s] = Evaluate(q, room)
      BY DEF TypeOK, q
    <2> QED BY <1>2, <2>1, EvaluateFollows
  <1>4. \A t \in State : t # s => states'[t] = states[t]
    BY DEF TypeOK
  <1>5. /\ Sound(states'[s]) /\ states'[s].dest = d
        /\ states'[s].status = "dialing" => states'[s].dial = "queued"
        /\ ~(states'[s].status = "established" /\ states'[s].notified)
    BY <1>2, <1>3 DEF Follows, NoteKept
  <1>6. \A l \in Link : links[l].apply # "none" /\ Dialed(l) => l.id # s
    BY <1>1 DEF Owned, LinksOwned, Link
  <1>7. /\ dests'[d].entry = s
        /\ \A c \in Dest : c # d => dests'[c] = dests[c]
    BY DEF TypeOK
  <1>8. TypeOK'
    <2>1. events' \in Seq(Event) /\ Len(events') <= QueueCap
      BY TakesQueue
    <2>2. states' \in [State -> StateType]
      BY <1>5 DEF TypeOK, Sound
    <2>3. dests' \in [Dest -> DestType]
      BY DEF TypeOK, DestType
    <2>4. troubles' \in 0 .. MaxTroubles
      BY WellType
    <2> QED BY <2>1, <2>2, <2>3, <2>4 DEF TypeOK, mapVars, ctrlVars, sendVars
  <1>9. Owned'
    <2>1. StatesSound'
      BY <1>4, <1>5 DEF Owned, StatesSound
    <2>2. EntriesOwned'
      <3> SUFFICES ASSUME NEW c \in Dest, dests'[c].entry # None
                   PROVE  states'[dests'[c].entry].dest = c
        BY DEF EntriesOwned
      <3>1. CASE c = d
        BY <1>5, <1>7, <3>1
      <3>2. CASE c # d
        <4>1. dests[c].entry \in State /\ states[dests[c].entry].dest = c
          BY <1>7, <3>2 DEF TypeOK, DestType, Owned, EntriesOwned
        <4> QED BY <1>1, <1>4, <1>7, <3>2, <4>1
      <3> QED BY <3>1, <3>2
    <2>3. LinksOwned'
      BY <1>4, <1>6 DEF Owned, LinksOwned, Dialed
    <2>4. MapOwned'
      BY DEF Owned, MapOwned, mapVars
    <2> QED BY <2>1, <2>2, <2>3, <2>4 DEF Owned
  <1>10. Current'
    BY CurrentCalm, SameLinks
  <1>11. Notices'
    <2>1. NotesTold'
      BY TakesNotes DEF Notices, ctrlVars, sendVars
    <2>2. NoteTold'
      <3> SUFFICES ASSUME NEW t \in State, states'[t].status = "established", states'[t].notified
                   PROVE  states'[t].link \in told
        BY DEF NoteTold, ctrlVars, sendVars
      <3>1. t # s
        BY <1>5
      <3> QED BY <1>4, <3>1 DEF Notices, NoteTold
    <2> QED BY <2>1, <2>2 DEF Notices
  <1>12. Dialling'
    <2>1. DialApplies'
      BY <1>4, <1>6 DEF Dialling, DialApplies, Applying, Dialed
    <2>2. ASSUME NEW t \in Entries', states'[t].status = "dialing" PROVE Counts(t)'
      <3>1. CASE t = s
        BY <1>5, <2>2, <3>1 DEF Counts
      <3>2. CASE t # s
        <4>1. t \in Entries /\ t \in State
          BY <1>7, <3>2, EntriesType DEF Entries
        <4>2. Counts(t) /\ states'[t] = states[t]
          BY <1>4, <2>2, <3>2, <4>1 DEF Dialling, DialsCounted
        <4>3. /\ AwaitsFailure(t) => AwaitsFailure(t)'
              /\ Awaits("established", states[t].dest)
                     => Awaits("established", states[t].dest)'
          BY <2>2, <4>1, <4>2, TakesAwaits DEF AwaitsKept, Awaits, Queued
        <4> QED BY <4>2, <4>3 DEF Counts, mapVars
      <3> QED BY <3>1, <3>2
    <2> QED BY <2>1, <2>2 DEF Dialling, DialsCounted
  <1> QED BY <1>8, <1>9, <1>10, <1>11, <1>12

LEMMA ListedKeeps ==
    ASSUME LinkInv, NEW room \in BOOLEAN, HandleListed(room) PROVE LinkInv'
  <1> DEFINE d     == Head(events).dest
             entry == dests[d].entry
  <1>1. /\ events' \in Seq(Event) /\ Len(events') <= QueueCap /\ d \in Dest
        /\ Takes("update")
    BY TakesQueue, EventFields DEF LinkInv, HandleListed
  <1>2. CASE entry = None
    BY <1>1, <1>2, NewEntryKeeps DEF HandleListed
  <1>3. CASE entry # None
    <2> USE DEF LinkInv
    <2>1. entry \in State /\ Sound(states[entry]) /\ states[entry].dest # None
      BY <1>1, <1>3, EntriesType DEF Entries, Owned, StatesSound
    <2>2. EntriesKept
      <3>1. dests' = [dests EXCEPT ![d] = [known |-> TRUE, healthy |-> TRUE, entry |-> entry]]
        BY <1>3 DEF HandleListed
      <3> QED BY <1>1, <2>1, <3>1, SetEntry DEF DestType
    <2>3. LinksCalm
      BY <1>3, ClosedLinks DEF HandleListed
    <2>4. ASSUME NEW s \in State
          PROVE  Follows(states[s], states'[s]) /\ NoteKept(states[s], states'[s])
      <3>1. Sound(states[s])
        BY DEF Owned, StatesSound
      <3>2. CASE states'[s] = states[s]
        BY <3>1, <3>2, FollowsSelf
      <3>3. CASE states'[s] # states[s]
        <4> DEFINE q == [states[s] EXCEPT !.due = TRUE]
        <4> DEFINE changed == IF /\ dests[d].known /\ ~dests[d].healthy
                                 /\ states[entry].status # "established"
                              THEN Evaluate([states[entry] EXCEPT !.due = TRUE], room)
                              ELSE states[entry]
        <4>0. states' = [states EXCEPT ![entry] = changed]
          BY <1>3 DEF HandleListed
        <4>1. s = entry /\ states'[s] = Evaluate(q, room)
          BY <2>1, <3>3, <4>0 DEF TypeOK
        <4>2. Follows(states[s], q) /\ NoteKept(states[s], q)
          BY <3>1, DueFollows
        <4>3. Sound(q) /\ q.dest # None
          BY <2>1, <4>1, <4>2 DEF Follows
        <4> HIDE DEF q
        <4>4. Follows(q, states'[s]) /\ NoteKept(q, states'[s])
          BY <4>1, <4>3, EvaluateFollows
        <4> QED BY <4>2, <4>4, FollowsTransitive, NoteTransitive
      <3> QED BY <3>2, <3>3
    <2>5. states' = [s \in State |-> states'[s]]
      BY <1>3 DEF HandleListed, TypeOK
    <2>6. LoopStep /\ NotesKept
      BY <2>2, <2>3, <2>4, <2>5, FollowAll DEF HandleListed, LoopStep, mapVars, NotesKept
    <2>7. TypeOK'
      BY <1>1, <2>2, <2>6, WellType DEF HandleListed, TypeOK, EntriesKept, LoopStep, StatesFollow,
         LinksCalm, mapVars, ctrlVars, sendVars
    <2>8. NotesTold' /\ AwaitsKept
      BY TakesNotes, TakesAwaits DEF HandleListed, Notices, ctrlVars, sendVars
    <2> QED BY <2>6, <2>7, <2>8, LoopKeeps DEF HandleListed, ctrlVars, sendVars
  <1> QED BY <1>2, <1>3

LEMMA EstablishedKeeps == ASSUME LinkInv, HandleEstablished PROVE LinkInv'
  <1> DEFINE l     == Head(events).link
             entry == dests[l.dest].entry
  <1>0. /\ Takes("established")
        /\ states' = [s \in State |->
              IF s = entry
              THEN [states[s] EXCEPT !.status = "established", !.notified = FALSE, !.link = l]
              ELSE states[s]]
        /\ trigger' = (trigger \/ entry # None)
        /\ UNCHANGED <<dests, mapVars, links, sendVars, envVars>>
    BY DEF HandleEstablished
  <1>1. /\ events' \in Seq(Event) /\ Len(events') <= QueueCap
        /\ l \in Link /\ l.dest \in Dest
    BY <1>0, TakesQueue, EventFields DEF Link, LinkInv
  <1>2. ASSUME NEW s \in State, s = entry
        PROVE  /\ states[s].dest = l.dest /\ states[s].dest # None
               /\ states'[s] = [states[s] EXCEPT !.status = "established",
                                               !.notified = FALSE, !.link = l]
    BY <1>0, <1>1, <1>2 DEF LinkInv, Owned, EntriesOwned
  <1> HIDE DEF l, entry
  <1>3. ASSUME NEW s \in State
        PROVE  /\ Follows(states[s], states'[s]) /\ NoteKept(states[s], states'[s])
               /\ s = entry => states'[s].status = "established"
    <2>1. Sound(states[s])
      BY DEF LinkInv, Owned, StatesSound
    <2>2. CASE s # entry
      <3>1. states'[s] = states[s]
        BY <1>0, <2>2
      <3> QED BY <2>1, <2>2, <3>1, FollowsSelf
    <2>3. CASE s = entry
      <3> DEFINE q == [states[s] EXCEPT !.status = "established", !.notified = FALSE, !.link = l]
      <3>1. Follows(states[s], q) /\ NoteKept(states[s], q) /\ q.status = "established"
        BY <1>1, <1>2, <2>1, <2>3, EstablishedFollows
      <3>2. states'[s] = q
        BY <1>2, <2>3
      <3> QED BY <3>1, <3>2
    <2> QED BY <2>2, <2>3
  <1>4. LoopStep /\ NotesKept
    <2>1. states' = [s \in State |-> states'[s]]
      BY <1>0
    <2>2. StatesFollow
      BY <1>3, <2>1, FollowAll
    <2> QED BY <1>0, <1>3, <2>2, SameLinks, SameEntries DEF LinkInv, LoopStep, NotesKept
  <1>5. TypeOK'
    <2>1. trigger' \in BOOLEAN
      BY <1>0, Zenon DEF LinkInv, TypeOK
    <2>2. TypeOK
      BY DEF LinkInv
    <2> QED BY <1>0, <1>1, <1>4, <2>1, <2>2 DEF TypeOK, LoopStep, StatesFollow, mapVars, sendVars,
       envVars
  <1>6. NotesTold'
    BY <1>0, TakesNotes DEF LinkInv, Notices, sendVars
  <1>7. AwaitsKept
    <2> SUFFICES ASSUME NEW s \in Entries, states'[s].status = "dialing"
                 PROVE  /\ AwaitsFailure(s) => AwaitsFailure(s)'
                        /\ Awaits("established", states[s].dest)
                              => \E e \in Queued' : /\ e.kind = "established"
                                                   /\ e.link.dest = states[s].dest
      BY DEF AwaitsKept
    <2>1. s # entry
      BY <1>3, EntriesType DEF LinkInv
    <2>2. states[s].dest # l.dest
      BY <2>1, EntriesType DEF entry, LinkInv
    <2>3. \A e \in Queued : e # Head(events) => e \in Queued'
      BY <1>0, TakesQueue DEF LinkInv
    <2>4. Head(events).kind = "established"
      BY <1>0, TakesQueue DEF LinkInv
    <2>5. AwaitsFailure(s) => AwaitsFailure(s)'
      BY <2>3, <2>4, AwaitsQueued, AwaitsQueuedNext
    <2>6. ASSUME NEW e \in Queued, e.kind = "established", e.link.dest = states[s].dest
          PROVE  e \in Queued'
      BY <2>2, <2>3, <2>6 DEF l
    <2> QED BY <2>5, <2>6, AwaitsQueued
  <1> QED BY <1>0, <1>4, <1>5, <1>6, <1>7, LoopKeeps DEF sendVars

LEMMA ClosedKeeps ==
    ASSUME LinkInv, NEW room \in BOOLEAN, HandleClosed(room) PROVE LinkInv'
  <1> DEFINE l     == Head(events).link
             entry == dests[l.dest].entry
  <1> USE DEF HandleClosed, LinkInv
  <1>1. /\ events' \in Seq(Event) /\ Len(events') <= QueueCap
        /\ l \in Link /\ l.dest \in Dest /\ Fault(l) \in FaultType
    BY TakesQueue, EventFields DEF Link, Fault, FaultType
  <1>2. ASSUME NEW s \in State
        PROVE  Follows(states[s], states'[s]) /\ NoteKept(states[s], states'[s])
    <2>1. Sound(states[s])
      BY DEF Owned, StatesSound
    <2>2. CASE s # entry
      BY <2>1, <2>2, FollowsSelf
    <2>3. CASE s = entry
      <3> DEFINE failed == WithStatus(states[s], "linkFailed")
                 due    == [failed EXCEPT !.due = TRUE]
                 tried  == Evaluate(due, room)
      <3>1. states[s].dest # None
        BY <1>1, <2>3 DEF Owned, EntriesOwned
      <3>2. Follows(states[s], failed) /\ NoteKept(states[s], failed)
        BY <2>1, <3>1, WithStatusFollows DEF Status
      <3>3. Follows(failed, due) /\ NoteKept(failed, due)
        BY <3>2, DueFollows DEF Follows
      <3>4. Sound(due) /\ due.dest # None
        BY <3>1, <3>2, <3>3 DEF Follows
      <3> HIDE DEF due
      <3>5. Follows(due, tried) /\ NoteKept(due, tried)
        BY <3>4, EvaluateFollows
      <3>6. Sound(tried)
        BY <3>5 DEF Follows
      <3>7. states'[s] = WithFault(tried, Fault(l))
        BY <2>3 DEF due
      <3> HIDE DEF failed, tried
      <3>8. Follows(tried, states'[s]) /\ NoteKept(tried, states'[s])
        BY <1>1, <3>6, <3>7, WithFaultFollows
      <3> QED BY <3>2, <3>3, <3>5, <3>8, FollowsTransitive, NoteTransitive
    <2> QED BY <2>2, <2>3
  <1>3. LoopStep /\ NotesKept
    BY <1>2, FollowAll, SameLinks, SameEntries DEF LoopStep, mapVars, NotesKept
  <1>4. TypeOK'
    BY <1>1, <1>3, WellType DEF TypeOK, LoopStep, StatesFollow, mapVars, ctrlVars, sendVars
  <1>5. NotesTold' /\ AwaitsKept
    BY TakesNotes, TakesAwaits DEF Notices, ctrlVars, sendVars
  <1> QED BY <1>3, <1>4, <1>5, LoopKeeps DEF ctrlVars, sendVars

LEMMA ReplacedKeeps == ASSUME LinkInv, HandleReplaced PROVE LinkInv'
  <1> DEFINE l     == Head(events).link
             entry == dests[l.dest].entry
  <1> USE DEF HandleReplaced, LinkInv
  <1>1. /\ events' \in Seq(Event) /\ Len(events') <= QueueCap
        /\ l \in Link /\ Fault(l) \in FaultType
    BY TakesQueue, EventFields DEF Link, Fault, FaultType
  <1>2. ASSUME NEW s \in State
        PROVE  Follows(states[s], states'[s]) /\ NoteKept(states[s], states'[s])
    <2>1. Sound(states[s])
      BY DEF Owned, StatesSound
    <2> QED BY <1>1, <2>1, FollowsSelf, WithFaultFollows
  <1>3. LoopStep /\ NotesKept
    BY <1>2, FollowAll, SameLinks, SameEntries DEF LoopStep, mapVars, NotesKept
  <1>4. TypeOK'
    BY <1>1, <1>3 DEF TypeOK, LoopStep, StatesFollow, mapVars, ctrlVars, sendVars, envVars
  <1>5. NotesTold' /\ AwaitsKept
    BY TakesNotes, TakesAwaits DEF Notices, ctrlVars, sendVars
  <1> QED BY <1>3, <1>4, <1>5, LoopKeeps DEF ctrlVars, sendVars

LEMMA DialFailedKeeps == ASSUME LinkInv, HandleDialFailed PROVE LinkInv'
  <1> DEFINE t == Head(events).state
  <1> USE DEF HandleDialFailed, LinkInv
  <1>1. /\ events' \in Seq(Event) /\ Len(events') <= QueueCap
        /\ t \in State /\ Head(events).kind = "dialFailed"
    BY TakesQueue, EventFields
  <1>2. states' = [states EXCEPT ![t] =
           IF states[t].status = "dialing"
           THEN DialFailed(WithStatus(states[t], "dialFailed")) ELSE states[t]]
    OBVIOUS
  <1> HIDE DEF t
  <1>3. ASSUME NEW s \in State
        PROVE  /\ Follows(states[s], states'[s]) /\ NoteKept(states[s], states'[s])
               /\ s = t => states'[s].status # "dialing"
    <2>1. Sound(states[s])
      BY DEF Owned, StatesSound
    <2>2. CASE s # t \/ states[s].status # "dialing"
      BY <1>1, <1>2, <2>1, <2>2, FollowsSelf DEF TypeOK
    <2>3. CASE s = t /\ states[s].status = "dialing"
      <3> DEFINE q == WithStatus(states[s], "dialFailed")
      <3>1. states[s].dest # None
        BY <2>1, <2>3 DEF Sound
      <3>2. Follows(states[s], q) /\ NoteKept(states[s], q) /\ q.status = "dialFailed"
        BY <2>1, <3>1, WithStatusFollows DEF Status
      <3>3. Sound(q) /\ q.dest # None /\ states'[s] = DialFailed(q)
        BY <1>1, <1>2, <2>3, <3>1, <3>2 DEF Follows, TypeOK
      <3> HIDE DEF q
      <3>4. /\ Follows(q, states'[s]) /\ NoteKept(q, states'[s])
            /\ states'[s].status = "dialFailed"
        BY <3>2, <3>3, DialFailedFollows
      <3> QED BY <3>2, <3>4, FollowsTransitive, NoteTransitive
    <2> QED BY <2>2, <2>3
  <1>4. LoopStep /\ NotesKept
    <2>1. states' = [s \in State |-> states'[s]]
      BY <1>2 DEF TypeOK
    <2> QED BY <1>3, <2>1, FollowAll, SameLinks, SameEntries DEF LoopStep, mapVars, NotesKept
  <1>5. TypeOK'
    BY <1>1, <1>4 DEF TypeOK, LoopStep, StatesFollow, mapVars, ctrlVars, sendVars, envVars
  <1>6. NotesTold'
    BY TakesNotes DEF Notices, ctrlVars, sendVars
  <1>7. AwaitsKept
    <2>1. \A e \in Queued : e # Head(events) => e \in Queued'
      BY TakesQueue
    <2>2. \A s \in Entries : states'[s].status = "dialing" => s # t
      BY <1>3, EntriesType
    <2> QED BY <1>1, <2>1, <2>2, AwaitsQueued, AwaitsQueuedNext DEF AwaitsKept, t
  <1> QED BY <1>4, <1>5, <1>6, <1>7, LoopKeeps DEF ctrlVars, sendVars

LEMMA NotifiedKeeps == ASSUME LinkInv, HandleNotified PROVE LinkInv'
  <1> DEFINE pairs == Head(events).pairs
             note  == [s \in State |-> [states[s] EXCEPT !.notified = TRUE]]
  <1> USE DEF HandleNotified, LinkInv
  <1>1. /\ events' \in Seq(Event) /\ Len(events') <= QueueCap
        /\ \A p \in pairs : p[2] \in told
    BY TakesQueue DEF Notices, NotesTold
  <1>2. ASSUME NEW s \in State
        PROVE  /\ Follows(states[s], states'[s])
               /\ \/ states'[s] = states[s]
                  \/ states'[s].link = states[s].link /\ states[s].link \in told
    <2>1. Sound(states[s])
      BY DEF Owned, StatesSound
    <2>2. CASE ~(states[s].status = "established" /\ <<s, states[s].link>> \in pairs)
      BY <2>1, <2>2, FollowsSelf
    <2>3. CASE states[s].status = "established" /\ <<s, states[s].link>> \in pairs
      <3>1. states'[s] = [states[s] EXCEPT !.notified = TRUE]
        BY <2>3
      <3>2. states[s].link \in told
        BY <1>1, <2>3
      <3> HIDE DEF HandleNotified, LinkInv
      <3> QED BY <2>1, <3>1, <3>2 DEF Sound, Follows, StateType, Status
    <2> QED BY <2>2, <2>3
  <1>3. LoopStep
    BY <1>2, FollowAll, SameLinks, SameEntries DEF LoopStep, mapVars
  <1>4. TypeOK'
    BY <1>1, <1>3 DEF TypeOK, LoopStep, StatesFollow, mapVars, ctrlVars, sendVars, envVars
  <1>5. NotesTold' /\ AwaitsKept
    BY TakesNotes, TakesAwaits DEF Notices, ctrlVars, sendVars
  <1>6. NoteTold'
    <2> HIDE DEF HandleNotified
    <2>1. told' = told
      BY DEF HandleNotified, ctrlVars, sendVars
    <2> QED BY <1>2, <2>1 DEF Notices, NoteTold
  <1> QED BY <1>3, <1>4, <1>5, <1>6, LoopStays

LEMMA FaultedKeeps == ASSUME LinkInv, HandleFaulted PROVE LinkInv'
  <1> USE DEF HandleFaulted, LinkInv
  <1>1. events' \in Seq(Event) /\ Len(events') <= QueueCap
    BY TakesQueue
  <1>2. ASSUME NEW s \in State
        PROVE  Follows(states[s], states'[s]) /\ NoteKept(states[s], states'[s])
    <2>1. PICK S : S \subseteq states[s].faults /\ states'[s] = [states[s] EXCEPT !.faults = S]
      OBVIOUS
    <2>2. Sound(states[s]) /\ S \in SUBSET FaultType
      BY <2>1 DEF Owned, StatesSound, Sound, StateType
    <2> QED BY <2>1, <2>2, FaultsFollow
  <1>3. LoopStep /\ NotesKept
    BY <1>2, FollowAll, SameLinks, SameEntries DEF LoopStep, mapVars, NotesKept
  <1>4. TypeOK'
    BY <1>1, <1>3 DEF TypeOK, LoopStep, StatesFollow, mapVars, ctrlVars, sendVars, envVars
  <1>5. NotesTold' /\ AwaitsKept
    BY TakesNotes, TakesAwaits DEF Notices, ctrlVars, sendVars
  <1> QED BY <1>3, <1>4, <1>5, LoopKeeps DEF ctrlVars, sendVars

-------------------------------------------------------------------------------
(***************************************************************************)
(* run(): the notification and the tickers                                 *)
(***************************************************************************)
LEMMA ReviewFollows ==
    ASSUME NEW r, Sound(r), r.dest # None, NEW l
    PROVE  Follows(r, Reviewed(r, l)) /\ NoteKept(r, Reviewed(r, l))
  <1> DEFINE q == WithStatus(r, "dialFailed")
  <1>1. Follows(r, q) /\ NoteKept(r, q)
    BY WithStatusFollows DEF Status
  <1>2. Follows(q, DialFailed(q)) /\ NoteKept(q, DialFailed(q))
    BY <1>1, DialFailedFollows DEF Follows
  <1>3. Follows(r, DialFailed(q)) /\ NoteKept(r, DialFailed(q))
    BY <1>1, <1>2, FollowsTransitive, NoteTransitive
  <1> QED BY <1>3, FollowsSelf, WithoutIdFollows DEF Reviewed

\* The review of link states that follow the ones before
LEMMA NotifyFollows ==
    ASSUME TypeOK, Owned, NEW sts, NEW room, NotifyControllers(sts, room),
           sts = [s \in State |-> sts[s]],
           \A s \in State : Follows(states[s], sts[s]) /\ NoteKept(states[s], sts[s])
    PROVE  /\ StatesFollow /\ NotesKept
           /\ notify' \in [step : {"idle", "links", "faults"}, links : SUBSET (State \X Link),
                           faults : SUBSET (State \X FaultType)]
           /\ told' = told /\ reported' = reported
  <1>1. CASE notify.step # "idle"
    <2>1. states' = sts /\ UNCHANGED sendVars
      BY <1>1 DEF NotifyControllers
    <2>2. StatesFollow /\ NotesKept
      BY <2>1, FollowAll DEF NotesKept
    <2> QED BY <2>1, <2>2 DEF TypeOK, sendVars
  <1>2. CASE notify.step = "idle"
    <2> DEFINE reviewed(s) == IF s \in Entries THEN Reviewed(sts[s], linkMap[sts[s].dest])
                              ELSE sts[s]
               new  == {<<s, linkMap[sts[s].dest]>> :
                           s \in {s \in Entries : /\ sts[s].status = "established"
                                                  /\ ~sts[s].notified
                                                  /\ linkMap[sts[s].dest] # None
                                                  /\ Dialed(linkMap[sts[s].dest])}}
               lost == UNION {{s} \X reviewed(s).faults : s \in Entries}
               message == [step   |-> IF new = {} THEN "faults" ELSE "links",
                           links  |-> new, faults |-> lost]
    <2>1. /\ states' = [s \in State |-> reviewed(s)]
          /\ notify' = notify \/ notify' = message
          /\ told' = told /\ reported' = reported
      BY <1>2 DEF NotifyControllers
    <2>2. ASSUME NEW s \in State
          PROVE  Follows(states[s], reviewed(s)) /\ NoteKept(states[s], reviewed(s))
      <3>1. CASE s \notin Entries
        BY <3>1
      <3>2. CASE s \in Entries
        <4>1. Sound(sts[s]) /\ sts[s].dest # None
          BY <3>2, EntriesType DEF Follows
        <4>2. /\ Follows(sts[s], reviewed(s)) /\ NoteKept(sts[s], reviewed(s))
              /\ Follows(states[s], sts[s]) /\ NoteKept(states[s], sts[s])
          BY <3>2, <4>1, ReviewFollows
        <4> QED BY <4>2, FollowsTransitive, NoteTransitive
      <3> QED BY <3>1, <3>2
    <2>3. StatesFollow /\ NotesKept
      BY <2>1, <2>2, FollowAll DEF NotesKept
    <2>4. new \subseteq State \X Link
      <3> SUFFICES ASSUME NEW s \in Entries, linkMap[sts[s].dest] # None
                   PROVE  <<s, linkMap[sts[s].dest]>> \in State \X Link
        OBVIOUS
      <3>1. s \in State /\ sts[s].dest \in Dest
        BY EntriesType DEF Follows
      <3> QED BY <3>1 DEF TypeOK
    <2>5. lost \subseteq State \X FaultType
      <3> SUFFICES ASSUME NEW s \in Entries, NEW f \in reviewed(s).faults
                   PROVE  <<s, f>> \in State \X FaultType
        OBVIOUS
      <3>1. s \in State
        BY EntriesType
      <3>2. reviewed(s) \in StateType
        BY <2>2, <3>1 DEF Follows, Sound
      <3>3. reviewed(s).faults \subseteq FaultType
        BY <3>2 DEF StateType
      <3> QED BY <3>1, <3>3
    <2> HIDE DEF new, lost
    <2>6. message \in [step : {"idle", "links", "faults"}, links : SUBSET (State \X Link),
                       faults : SUBSET (State \X FaultType)]
      BY <2>4, <2>5
    <2> QED BY <2>1, <2>3, <2>6 DEF TypeOK
  <1> QED BY <1>1, <1>2

LEMMA TriggerKeeps == ASSUME LinkInv, NEW room, TriggerFires(room) PROVE LinkInv'
  <1> USE DEF TriggerFires, LinkInv
  <1>1. \A s \in State : Follows(states[s], states[s]) /\ NoteKept(states[s], states[s])
    BY FollowsSelf DEF Owned, StatesSound
  <1>2. states = [s \in State |-> states[s]]
    BY DEF TypeOK
  <1>3. /\ StatesFollow /\ NotesKept
        /\ notify' \in [step : {"idle", "links", "faults"}, links : SUBSET (State \X Link),
                        faults : SUBSET (State \X FaultType)]
        /\ told' = told /\ reported' = reported
    BY <1>1, <1>2, NotifyFollows
  <1>4. LoopStep
    BY <1>3, SameLinks, SameEntries DEF LoopStep, mapVars
  <1>5. TypeOK'
    BY <1>3, <1>4, WellType DEF TypeOK, StatesFollow, mapVars
  <1>6. NotesTold' /\ AwaitsKept
    BY <1>3, SameEvents DEF Notices
  <1> QED BY <1>3, <1>4, <1>5, <1>6, LoopKeeps

LEMMA QueueKeeps ==
    ASSUME LinkInv, NEW room \in BOOLEAN, NEW sendRoom, QueueTick(room, sendRoom)
    PROVE  LinkInv'
  <1> DEFINE sts == [s \in State |->
                 IF states[s].waiting /\ states[s].due
                 THEN Evaluate([states[s] EXCEPT !.waiting = FALSE], room)
                 ELSE states[s]]
  <1> USE DEF LinkInv
  <1>1. ASSUME NEW s \in State
        PROVE  Follows(states[s], sts[s]) /\ NoteKept(states[s], sts[s])
    <2>1. Sound(states[s])
      BY DEF Owned, StatesSound
    <2>2. CASE ~states[s].waiting
      BY <2>1, <2>2, FollowsSelf
    <2>3. CASE states[s].waiting
      <3> DEFINE q == [states[s] EXCEPT !.waiting = FALSE]
      <3>1. Follows(states[s], q) /\ NoteKept(states[s], q) /\ Sound(q) /\ q.dest # None
        <4>1. states[s].dest # None
          BY <2>1, <2>3 DEF Sound
        <4>2. Follows(states[s], q) /\ NoteKept(states[s], q)
          BY <2>1, PoppedFollows
        <4> QED BY <4>1, <4>2 DEF Follows
      <3>2. sts[s] = Evaluate(q, room) \/ sts[s] = states[s]
        OBVIOUS
      <3> HIDE DEF q
      <3>3. Follows(q, Evaluate(q, room)) /\ NoteKept(q, Evaluate(q, room))
        BY <3>1, EvaluateFollows
      <3> QED BY <2>1, <3>1, <3>2, <3>3, FollowsSelf, FollowsTransitive, NoteTransitive
    <2> QED BY <2>2, <2>3
  <1>2. NotifyControllers(sts, sendRoom) /\ sts = [s \in State |-> sts[s]]
    BY DEF QueueTick
  <1> HIDE DEF sts
  <1> USE DEF QueueTick
  <1>3. /\ StatesFollow /\ NotesKept
        /\ notify' \in [step : {"idle", "links", "faults"}, links : SUBSET (State \X Link),
                        faults : SUBSET (State \X FaultType)]
        /\ told' = told /\ reported' = reported
    BY <1>1, <1>2, NotifyFollows
  <1>4. LoopStep
    BY <1>3, SameLinks, SameEntries DEF LoopStep, mapVars
  <1>5. TypeOK'
    BY <1>3, <1>4, WellType DEF TypeOK, StatesFollow, mapVars
  <1>6. NotesTold' /\ AwaitsKept
    BY <1>3, SameEvents DEF Notices
  <1> QED BY <1>3, <1>4, <1>5, <1>6, LoopKeeps

LEMMA ScanKeeps ==
    ASSUME LinkInv, NEW room \in BOOLEAN, NEW expired, ScanTick(room, expired)
    PROVE  LinkInv'
  <1> DEFINE checked(r) == IF r.status = "established" /\ ~HasOpenLink(r.dest)
                           THEN [WithStatus(r, "linkFailed") EXCEPT !.due = TRUE] ELSE r
  <1> USE DEF LinkInv, ScanTick
  <1>1. ASSUME NEW s \in State
        PROVE  Follows(states[s], states'[s]) /\ NoteKept(states[s], states'[s])
    <2>1. Sound(states[s])
      BY DEF Owned, StatesSound
    <2>2. CASE s \notin Entries
      BY <2>1, <2>2, FollowsSelf
    <2>3. CASE s \in Entries
      <3> DEFINE q == WithStatus(states[s], "linkFailed")
                 t == checked(states[s])
      <3>1. states[s].dest # None /\ states'[s] = Evaluate(t, room)
        BY <2>3, EntriesType
      <3>2. Follows(states[s], q) /\ NoteKept(states[s], q)
        BY <2>1, <3>1, WithStatusFollows DEF Status
      <3>3. Follows(q, [q EXCEPT !.due = TRUE]) /\ NoteKept(q, [q EXCEPT !.due = TRUE])
        BY <3>2, DueFollows DEF Follows
      <3>4. t = states[s] \/ t = [q EXCEPT !.due = TRUE]
        OBVIOUS
      <3> HIDE DEF q, t
      <3>5. Follows(states[s], t) /\ NoteKept(states[s], t)
        <4>1. CASE t = states[s]
          BY <2>1, <4>1, FollowsSelf
        <4>2. CASE t = [q EXCEPT !.due = TRUE]
          <5>1. Follows(q, t) /\ NoteKept(q, t)
            BY <3>3, <4>2
          <5> QED BY <3>2, <5>1, FollowsTransitive, NoteTransitive
        <4> QED BY <3>4, <4>1, <4>2
      <3>6. Follows(t, states'[s]) /\ NoteKept(t, states'[s])
        BY <3>1, <3>5, EvaluateFollows DEF Follows
      <3> QED BY <3>5, <3>6, FollowsTransitive, NoteTransitive
    <2> QED BY <2>2, <2>3
  <1>2. EntriesKept
    <2> DEFINE gone == [known |-> FALSE, healthy |-> FALSE, entry |-> None]
    <2>1. gone \in DestType
      BY DEF DestType
    <2>2. \A d \in Dest : dests'[d] \in {dests[d], gone}
      OBVIOUS
    <2>3. dests' = [d \in Dest |-> dests'[d]]
      OBVIOUS
    <2> QED BY <2>1, <2>2, <2>3 DEF EntriesKept, TypeOK
  <1>3. LoopStep /\ NotesKept
    BY <1>1, <1>2, FollowAll, SameLinks DEF LoopStep, mapVars, NotesKept
  <1>4. TypeOK'
    BY <1>2, <1>3, WellType DEF TypeOK, EntriesKept, LoopStep, StatesFollow, mapVars, ctrlVars,
       sendVars
  <1>5. NotesTold' /\ AwaitsKept
    BY SameEvents DEF Notices, ctrlVars, sendVars
  <1> QED BY <1>3, <1>4, <1>5, LoopKeeps DEF ctrlVars, sendVars

LEMMA BackoffKeeps == ASSUME LinkInv, NEW s \in State, BackoffElapses(s) PROVE LinkInv'
  <1> USE DEF LinkInv, BackoffElapses
  <1>1. ASSUME NEW t \in State
        PROVE  Follows(states[t], states'[t]) /\ NoteKept(states[t], states'[t])
    BY FollowsSelf, DueFollows DEF TypeOK, Owned, StatesSound
  <1>2. states' = [t \in State |-> states'[t]]
    BY DEF TypeOK
  <1>3. LoopStep /\ NotesKept
    BY <1>1, <1>2, FollowAll, SameLinks, SameEntries DEF LoopStep, mapVars, NotesKept
  <1>4. TypeOK'
    BY <1>3 DEF TypeOK, LoopStep, StatesFollow, mapVars, ctrlVars, sendVars, envVars
  <1>5. NotesTold' /\ AwaitsKept
    BY SameEvents DEF Notices, ctrlVars, sendVars
  <1> QED BY <1>3, <1>4, <1>5, LoopKeeps DEF ctrlVars, sendVars

-------------------------------------------------------------------------------
(***************************************************************************)
(* The goroutines beside run(): they move dials on.                        *)
(***************************************************************************)
Moves(r, q) ==
    /\ Sound(q) /\ q.dest = r.dest
    /\ q.status = r.status /\ q.notified = r.notified /\ q.link = r.link

StatesMove ==
    states' \in [State -> StateType] /\ \A s \in State : Moves(states[s], states'[s])

LEMMA MoveOne ==
    ASSUME TypeOK, StatesSound, NEW s \in State, NEW q, Moves(states[s], q),
           states' = [states EXCEPT ![s] = q]
    PROVE  StatesMove /\ states'[s] = q /\ \A t \in State : t # s => states'[t] = states[t]
  BY DEF TypeOK, StatesSound, StatesMove, Moves, Sound

LEMMA MovesKeep ==
    ASSUME TypeOK, Owned, Notices, StatesMove, UNCHANGED dests, told \subseteq told'
    PROVE  StatesSound' /\ EntriesOwned' /\ NoteTold' /\ Entries' = Entries
  <1>1. StatesSound'
    BY DEF StatesSound, StatesMove, Moves
  <1>2. EntriesOwned'
    <2> SUFFICES ASSUME NEW d \in Dest, dests[d].entry # None
                 PROVE  states'[dests[d].entry].dest = d
      BY DEF EntriesOwned
    <2>1. dests[d].entry \in State
      BY DEF TypeOK, DestType
    <2> QED BY <2>1 DEF Owned, EntriesOwned, StatesMove, Moves
  <1>3. NoteTold'
    BY DEF Notices, NoteTold, StatesMove, Moves
  <1>4. Entries' = Entries
    BY DEF Entries
  <1> QED BY <1>1, <1>2, <1>3, <1>4

\* Nothing that an entry counts on is lost while its dial stays where it is.
LEMMA CountsStay ==
    ASSUME TypeOK, Owned, Dialling, Queued \subseteq Queued',
           \A l \in Link : links[l].apply = "inserted" =>
               \/ links'[l].apply = "inserted"
               \/ \E e \in Queued' : e.kind = "established" /\ e.link.dest = l.dest,
           NEW s \in Entries, Moves(states[s], states'[s]), states'[s].status = "dialing",
           \/ linkMap'[states[s].dest] \in {linkMap[states[s].dest], None}
           \/ links'[linkMap'[states[s].dest]].apply = "inserted",
           \/ states'[s].dial = states[s].dial
           \/ states'[s].dial = "applying" /\ states[s].dial = "dialing"
    PROVE  Counts(s)'
  <1> DEFINE d == states[s].dest
  <1>1. states[s].status = "dialing" /\ states'[s].dest = d
    BY DEF Moves
  <1>2. Counts(s)
    BY <1>1 DEF Dialling, DialsCounted
  <1>3. /\ AwaitsFailure(s) => AwaitsFailure(s)'
        /\ Awaits("established", states[s].dest) => Awaits("established", states[s].dest)'
    <2>1. ASSUME AwaitsFailure(s) PROVE AwaitsFailure(s)'
      <3>1. PICK e \in Queued : e.kind = "dialFailed" /\ e.state = s
        BY <2>1, AwaitsQueued
      <3> QED BY <3>1, AwaitsQueuedNext
    <2>2. ASSUME Awaits("established", d) PROVE Awaits("established", states[s].dest)'
      <3>1. PICK e \in Queued : e.kind = "established" /\ e.link.dest = d
        BY <2>2, AwaitsQueued
      <3>2. e \in Queued' /\ e.link.dest = states'[s].dest
        BY <1>1, <3>1
      <3> QED BY <3>1, <3>2 DEF Awaits, Queued
    <2> QED BY <2>1, <2>2
  <1>4. linkMap[d] # None => linkMap[d] \in Link /\ linkMap[d].dest = d
    BY EntriesType DEF TypeOK, Owned, MapOwned
  <1>5. links[linkMap[d]].apply = "inserted" /\ linkMap[d] # None /\ linkMap'[d] = linkMap[d] =>
           links'[linkMap'[d]].apply = "inserted" \/ Awaits("established", states[s].dest)'
    BY <1>1, <1>4 DEF Awaits, Queued
  <1> QED BY <1>1, <1>2, <1>3, <1>5 DEF Counts

LEMMA PostNotes ==
    ASSUME TypeOK, NotesTold, NEW e \in Event, Post(e), told \subseteq told',
           e.kind = "notified" => \A p \in e.pairs : p[2] \in told'
    PROVE  NotesTold'
  BY PostQueue DEF NotesTold

LEMMA DialStartsKeeps == ASSUME LinkInv, NEW s \in State, DialStarts(s) PROVE LinkInv'
  <1> DEFINE l == linkMap[states[s].dest]
             q == [states[s] EXCEPT !.dial = IF l = None THEN "dialing" ELSE "found", !.found = l]
  <1> USE DEF LinkInv
  <1>0. /\ states[s].dial = "queued"
        /\ UNCHANGED <<dests, mapVars, links, events, ctrlVars, envVars>>
    BY DEF DialStarts
  <1>1. Sound(states[s]) /\ states[s].dest \in Dest
    BY <1>0 DEF Owned, StatesSound, Sound, StateType
  <1>2. l \in Link \cup {None} /\ (l # None => l.dest = states[s].dest)
    BY <1>1 DEF TypeOK, Owned, MapOwned
  <1>3. states' = [states EXCEPT ![s] = q]
    BY DEF DialStarts, TypeOK
  <1> HIDE DEF l
  <1>4. /\ Moves(states[s], q)
        /\ q.dial \in {"dialing", "found"} /\ (q.dial = "dialing" => l = None)
    BY <1>1, <1>2 DEF Moves, Sound, StateType, Status
  <1> HIDE DEF q
  <1>5. StatesMove /\ states'[s] = q /\ \A t \in State : t # s => states'[t] = states[t]
    BY <1>3, <1>4, MoveOne DEF Owned
  <1>6. StatesSound' /\ EntriesOwned' /\ NoteTold' /\ Entries' = Entries
    BY <1>0, <1>5, MovesKeep DEF ctrlVars, sendVars
  <1>7. TypeOK'
    BY <1>0, <1>5 DEF TypeOK, StatesMove, mapVars, ctrlVars, sendVars, envVars
  <1>8. Owned'
    <2>1. LinksOwned'
      BY <1>0, <1>5 DEF Owned, LinksOwned, StatesMove, Moves, Dialed
    <2>2. MapOwned'
      BY <1>0 DEF Owned, MapOwned, mapVars
    <2> QED BY <1>6, <2>1, <2>2 DEF Owned
  <1>9. Current'
    BY <1>0, CurrentCalm, SameLinks
  <1>10. Queued' = Queued
    BY <1>0 DEF Queued
  <1>11. Notices'
    BY <1>0, <1>6, <1>10 DEF Notices, NotesTold, ctrlVars, sendVars
  <1>12. DialApplies'
    BY <1>0, <1>5 DEF Dialling, DialApplies, Applying, Dialed
  <1>13. ASSUME NEW t \in Entries, states'[t].status = "dialing" PROVE Counts(t)'
    <2>1. CASE t = s
      BY <1>0, <1>4, <1>5, <2>1 DEF Counts, l, mapVars, Moves
    <2>2. CASE t # s
      <3>1. Moves(states[t], states'[t]) /\ states'[t].dial = states[t].dial
        BY <1>5, <2>2, EntriesType DEF StatesMove
      <3> QED BY <1>0, <1>10, <1>13, <3>1, CountsStay DEF mapVars
    <2> QED BY <2>1, <2>2
  <1> QED BY <1>6, <1>7, <1>8, <1>9, <1>11, <1>12, <1>13 DEF Dialling, DialsCounted

LEMMA DialSucceedsKeeps == ASSUME LinkInv, NEW s \in State, DialSucceeds(s) PROVE LinkInv'
  <1> DEFINE k == DialedLink(s)
             q == [states[s] EXCEPT !.dial = "applying"]
  <1> USE DEF LinkInv
  <1>0. /\ states[s].dial = "dialing" /\ links[k].apply = "none"
        /\ links' = [links EXCEPT ![k].apply = "made"]
        /\ states' = [states EXCEPT ![s] = q]
        /\ UNCHANGED <<dests, mapVars, events, ctrlVars, envVars>>
    BY DEF DialSucceeds, SetDial, TypeOK
  <1>1. Sound(states[s]) /\ states[s].dest \in Dest
    BY <1>0 DEF Owned, StatesSound, Sound, StateType
  <1>2. k.dest = states[s].dest /\ k.id = s
    BY DEF DialedLink
  <1> HIDE DEF k
  <1>3. /\ links' \in [Link -> LinkType]
        /\ \A l \in Link : /\ links'[l].close = links[l].close
                           /\ links'[l].doomed = links[l].doomed
                           /\ links'[l].apply = IF l = k THEN "made" ELSE links[l].apply
    <2>1. links' = [l \in Link |-> links'[l]]
      BY <1>0 DEF TypeOK
    <2>2. ASSUME NEW l \in Link
          PROVE  /\ links[l] \in LinkType
                 /\ links'[l] = IF l = k THEN [links[l] EXCEPT !.apply = "made"] ELSE links[l]
      BY <1>0 DEF TypeOK
    <2>3. ASSUME NEW l \in Link
          PROVE  /\ links'[l] \in LinkType
                 /\ links'[l].close = links[l].close
                 /\ links'[l].doomed = links[l].doomed
                 /\ links'[l].apply = IF l = k THEN "made" ELSE links[l].apply
      BY <2>2 DEF LinkType
    <2> QED BY <2>1, <2>3
  <1>4. Moves(states[s], q) /\ q.dial = "applying"
    BY <1>1 DEF Moves, Sound, StateType, Status
  <1> HIDE DEF q
  <1>5. StatesMove /\ states'[s] = q /\ \A t \in State : t # s => states'[t] = states[t]
    BY <1>0, <1>4, MoveOne DEF Owned
  <1>6. StatesSound' /\ EntriesOwned' /\ NoteTold' /\ Entries' = Entries
    BY <1>0, <1>5, MovesKeep DEF ctrlVars, sendVars
  <1>7. TypeOK'
    BY <1>0, <1>3, <1>5 DEF TypeOK, StatesMove, mapVars, ctrlVars, sendVars, envVars
  <1>8. Owned'
    <2>1. LinksOwned'
      <3> SUFFICES ASSUME NEW l \in Link, links'[l].apply # "none"
                   PROVE  /\ Dialed(l) => states'[l.id].dest = l.dest
                          /\ ~Dialed(l) => PeerDest[l.id] = l.dest
        BY DEF LinksOwned, Dialed
      <3>1. CASE l = k
        BY <1>2, <1>4, <1>5, <3>1 DEF Dialed, Moves
      <3>2. CASE l # k
        BY <1>3, <1>5, <3>2 DEF Owned, LinksOwned, StatesMove, Moves, Dialed
      <3> QED BY <3>1, <3>2
    <2>2. MapOwned'
      BY <1>0, <1>3 DEF Owned, MapOwned, mapVars, TypeOK
    <2> QED BY <1>6, <2>1, <2>2 DEF Owned
  <1>9. Current'
    <2>1. Exclusive'
      BY <1>3 DEF Current, Exclusive, HoldsMutex
    <2>2. ReplacesDoomed'
      <3> SUFFICES ASSUME NEW l \in Link, links'[l].apply = "checked", linkMap[l.dest] # None
                   PROVE  links'[linkMap[l.dest]].doomed
        BY <1>0 DEF ReplacesDoomed, mapVars
      <3>1. links[l].apply = "checked" /\ linkMap[l.dest] \in Link
        BY <1>3 DEF TypeOK, Link
      <3> QED BY <1>3, <3>1 DEF Current, ReplacesDoomed
    <2>3. Kept'
      BY <1>0, <1>3 DEF Current, Kept, Open, mapVars
    <2>4. IndexAgrees'
      BY <1>0 DEF Current, IndexAgrees, mapVars
    <2> QED BY <2>1, <2>2, <2>3, <2>4 DEF Current
  <1>10. Queued' = Queued
    BY <1>0 DEF Queued
  <1>11. Notices'
    BY <1>0, <1>6, <1>10 DEF Notices, NotesTold, ctrlVars, sendVars
  <1>12. DialApplies'
    <2>1. ASSUME NEW l \in Link, Applying(l)', l # k PROVE Applying(l) /\ l.id # s
      <3>1. Applying(l)
        BY <1>3, <2>1 DEF Applying, Dialed
      <3> QED BY <1>0, <3>1 DEF Dialling, DialApplies
    <2>2. ASSUME NEW l \in Link, Applying(l)' PROVE states'[l.id].dial = "applying"
      BY <1>2, <1>4, <1>5, <2>1, <2>2 DEF Dialling, DialApplies, Applying, Dialed
    <2>3. ASSUME NEW l \in Link, NEW m \in Link, Applying(l)', Applying(m)', l.id = m.id
          PROVE  l = m
      BY <1>2, <2>1, <2>3 DEF Dialling, DialApplies
    <2> QED BY <2>2, <2>3 DEF DialApplies
  <1>13. ASSUME NEW t \in Entries, states'[t].status = "dialing" PROVE Counts(t)'
    <2>1. /\ Moves(states[t], states'[t])
          /\ \/ states'[t].dial = states[t].dial
             \/ states'[t].dial = "applying" /\ states[t].dial = "dialing"
      BY <1>0, <1>4, <1>5, EntriesType DEF StatesMove
    <2>2. \A l \in Link : links[l].apply = "inserted" => links'[l].apply = "inserted"
      BY <1>0, <1>3
    <2> QED BY <1>0, <1>10, <1>13, <2>1, <2>2, CountsStay DEF mapVars
  <1> QED BY <1>6, <1>7, <1>8, <1>9, <1>11, <1>12, <1>13 DEF Dialling, DialsCounted

\* A dial that is over, with or without an event that it posts.
LEMMA DialEndKeeps ==
    ASSUME LinkInv, NEW s \in State, NEW q, Moves(states[s], q),
           states' = [states EXCEPT ![s] = q], states[s].dial # "applying",
           UNCHANGED <<dests, mapVars, links, ctrlVars, updates>>,
           troubles' \in 0 .. MaxTroubles,
           events' \in Seq(Event), Len(events') <= QueueCap, Queued \subseteq Queued',
           NotesTold',
           s \in Entries /\ states'[s].status = "dialing" => Counts(s)'
    PROVE  LinkInv'
  <1> USE DEF LinkInv
  <1>1. StatesMove /\ states'[s] = q /\ \A t \in State : t # s => states'[t] = states[t]
    BY MoveOne DEF Owned
  <1>2. StatesSound' /\ EntriesOwned' /\ NoteTold' /\ Entries' = Entries
    BY <1>1, MovesKeep DEF ctrlVars, sendVars
  <1>3. TypeOK'
    BY <1>1 DEF TypeOK, StatesMove, mapVars, ctrlVars, sendVars
  <1>4. Owned'
    <2>1. LinksOwned'
      BY <1>1 DEF Owned, LinksOwned, StatesMove, Moves, Dialed
    <2>2. MapOwned'
      BY DEF Owned, MapOwned, mapVars
    <2> QED BY <1>2, <2>1, <2>2 DEF Owned
  <1>5. Current'
    BY CurrentCalm, SameLinks
  <1>6. DialApplies'
    BY <1>1 DEF Dialling, DialApplies, Applying, Dialed
  <1>7. ASSUME NEW t \in Entries, states'[t].status = "dialing" PROVE Counts(t)'
    <2>1. CASE t = s
      BY <1>7, <2>1
    <2>2. CASE t # s
      <3>1. Moves(states[t], states'[t]) /\ states'[t].dial = states[t].dial
        BY <1>1, <2>2, EntriesType DEF StatesMove
      <3> QED BY <1>7, <3>1, CountsStay DEF mapVars
    <2> QED BY <2>1, <2>2
  <1> QED BY <1>2, <1>3, <1>4, <1>5, <1>6, <1>7 DEF Notices, Dialling, DialsCounted

LEMMA DialErrsKeeps == ASSUME LinkInv, NEW s \in State, DialErrs(s) PROVE LinkInv'
  <1> DEFINE q == [states[s] EXCEPT !.dial = "failed"]
  <1> USE DEF LinkInv
  <1>0. /\ states[s].dial = "dialing" /\ states' = [states EXCEPT ![s] = q]
        /\ UNCHANGED <<dests, mapVars, links, events, ctrlVars, updates>>
    BY DEF DialErrs, SetDial, TypeOK
  <1>1. troubles' \in 0 .. MaxTroubles
    BY WellType DEF DialErrs, TypeOK
  <1>2. Sound(states[s])
    BY DEF Owned, StatesSound
  <1>3. Moves(states[s], q) /\ q.dial = "failed"
    BY <1>0, <1>2 DEF Moves, Sound, StateType, Status
  <1> HIDE DEF q
  <1>4. states'[s] = q
    BY <1>0, <1>3, MoveOne DEF Owned
  <1>5. Counts(s)'
    BY <1>3, <1>4 DEF Counts
  <1>6. NotesTold' /\ Queued \subseteq Queued'
    BY <1>0, SameEvents DEF Notices, ctrlVars, sendVars, Queued
  <1> QED BY <1>0, <1>1, <1>3, <1>5, <1>6, DialEndKeeps DEF TypeOK

LEMMA DialPostsKeeps == ASSUME LinkInv, NEW s \in State, DialPosts(s) PROVE LinkInv'
  <1> DEFINE q == [states[s] EXCEPT !.dial = "idle", !.found = None]
             e == IF states[s].dial = "found"
                  THEN [kind |-> "established", link |-> states[s].found]
                  ELSE [kind |-> "dialFailed", state |-> s]
  <1> USE DEF LinkInv
  <1>0. /\ states[s].dial \in {"found", "failed"} /\ Post(e)
        /\ states' = [states EXCEPT ![s] = q]
        /\ UNCHANGED <<dests, mapVars, links, ctrlVars, envVars>>
    BY DEF DialPosts
  <1>1. Sound(states[s])
    BY DEF Owned, StatesSound
  <1>2. /\ e \in Event /\ e.kind # "notified"
        /\ states[s].dial = "found" => e.kind = "established" /\ e.link.dest = states[s].dest
        /\ states[s].dial = "failed" => e.kind = "dialFailed" /\ e.state = s
    <2>1. CASE states[s].dial = "found"
      <3>1. states[s].found \in Link /\ states[s].found.dest = states[s].dest
        BY <1>1, <2>1 DEF Sound, StateType
      <3> QED BY <2>1, <3>1 DEF Event
    <2>2. CASE states[s].dial # "found"
      BY <1>0, <2>2 DEF Event
    <2> QED BY <2>1, <2>2
  <1>3. Moves(states[s], q) /\ q.dial = "idle"
    BY <1>0, <1>1 DEF Moves, Sound, StateType, Status
  <1> HIDE DEF q, e
  <1>4. states'[s] = q
    BY <1>0, <1>3, MoveOne DEF Owned
  <1>5. events' \in Seq(Event) /\ Len(events') <= QueueCap /\ Queued' = Queued \cup {e}
    BY <1>0, <1>2, PostQueue
  <1>6. Counts(s)'
    <2>1. states'[s].dest = states[s].dest
      BY <1>3, <1>4 DEF Moves
    <2>2. AwaitsFailure(s)' \/ Awaits("established", states[s].dest)'
      BY <1>0, <1>2, <1>5, <2>1 DEF Awaits, AwaitsFailure, Queued
    <2> QED BY <1>3, <1>4, <2>2 DEF Counts
  <1>7. NotesTold'
    BY <1>0, <1>2, PostNotes DEF Notices, ctrlVars, sendVars
  <1> QED BY <1>0, <1>3, <1>5, <1>6, <1>7, DialEndKeeps DEF TypeOK, envVars

-------------------------------------------------------------------------------
(***************************************************************************)
(* Steps that change neither link states nor maps: a link ends, run() is   *)
(* told so, the controllers are notified, and they tell of routers.        *)
(***************************************************************************)
\* The link l is closed, or goes on to be closed.
LEMMA CloseOne ==
    ASSUME TypeOK, NEW l \in Link,
           NEW step \in {"closed", "current", "replaced", "done"},
           links' = [links EXCEPT ![l].close = step]
    PROVE  LinksCalm
  <1>1. links' = [m \in Link |-> links'[m]]
    BY DEF TypeOK
  <1>2. ASSUME NEW m \in Link
        PROVE  /\ links[m] \in LinkType
               /\ links'[m] = IF m = l THEN [links[m] EXCEPT !.close = step] ELSE links[m]
    BY DEF TypeOK
  <1>3. ASSUME NEW m \in Link
        PROVE  /\ links'[m] \in LinkType
               /\ links'[m].apply = links[m].apply
               /\ links'[m].doomed = links[m].doomed
               /\ links'[m].close = "open" => links[m].close = "open"
    <2>1. CASE m = l
      <3> DEFINE q == [links[m] EXCEPT !.close = step]
      <3>1. /\ q \in LinkType /\ q.apply = links[m].apply /\ q.doomed = links[m].doomed
            /\ q.close = step /\ step # "open"
        BY <1>2 DEF LinkType
      <3>2. links'[m] = q
        BY <1>2, <2>1
      <3> HIDE DEF q
      <3> QED BY <3>1, <3>2
    <2>2. CASE m # l
      BY <1>2, <2>2
    <2> QED BY <2>1, <2>2
  <1> QED BY <1>1, <1>3 DEF LinksCalm

LEMMA CloseKeeps == ASSUME LinkInv, NEW l \in Link, Close(l) PROVE LinkInv'
  <1> USE DEF LinkInv, Close
  <1>1. LinksCalm
    BY CloseOne
  <1>2. LoopStep /\ NotesKept
    BY <1>1, SameStates, SameEntries DEF LoopStep, mapVars, loopVars, Owned
  <1>3. troubles' \in 0 .. MaxTroubles
    BY DEF TypeOK
  <1>4. TypeOK'
    BY <1>1, <1>3 DEF TypeOK, LinksCalm, loopVars, mapVars, ctrlVars, sendVars
  <1>5. NotesTold' /\ AwaitsKept
    BY SameEvents DEF Notices, ctrlVars, sendVars
  <1> QED BY <1>2, <1>4, <1>5, LoopKeeps DEF ctrlVars, sendVars

LEMMA LinkClosedPostsKeeps ==
    ASSUME LinkInv, NEW l \in Link, LinkClosedPosts(l) PROVE LinkInv'
  <1> USE DEF LinkInv
  <1>0. /\ links' = [links EXCEPT ![l].close = "done"]
        /\ UNCHANGED <<loopVars, mapVars, ctrlVars, envVars>>
    BY DEF LinkClosedPosts
  <1>1. PICK e \in Event : e.kind \in {"closed", "replaced"} /\ Post(e)
    BY DEF LinkClosedPosts, Event
  <1>2. LoopStep /\ NotesKept
    BY <1>0, CloseOne, SameStates, SameEntries DEF LoopStep, loopVars, Owned
  <1>3. events' \in Seq(Event) /\ Len(events') <= QueueCap
    BY <1>1, PostQueue
  <1>4. TypeOK'
    BY <1>0, <1>2, <1>3 DEF TypeOK, LoopStep, LinksCalm, loopVars, mapVars, ctrlVars, sendVars,
       envVars
  <1>5. NotesTold' /\ AwaitsKept
    BY <1>0, <1>1, PostNotes, PostAwaits DEF Notices, ctrlVars, sendVars
  <1> QED BY <1>0, <1>2, <1>4, <1>5, LoopKeeps DEF ctrlVars, sendVars

LEMMA SendNewLinksKeeps == ASSUME LinkInv, SendNewLinks PROVE LinkInv'
  <1> DEFINE e    == [kind |-> "notified", pairs |-> notify.links]
             sent == {p[2] : p \in notify.links}
  <1> USE DEF LinkInv
  <1>0. UNCHANGED <<loopVars, mapVars, links, trigger, reported, updates>>
    BY DEF SendNewLinks
  <1>1. LoopStep /\ NotesKept
    BY <1>0, SameStates, SameEntries, SameLinks DEF LoopStep, loopVars, Owned
  <1>2. notify.links \subseteq State \X Link /\ sent \subseteq Link
    BY DEF TypeOK
  <1>3. e \in Event
    BY <1>2 DEF Event
  <1>4. notify' \in [step : {"idle", "links", "faults"}, links : SUBSET (State \X Link),
                     faults : SUBSET (State \X FaultType)]
    BY DEF TypeOK, SendNewLinks, Idle
  <1>5. /\ told' \subseteq Link /\ told \subseteq told'
        /\ \/ sent \subseteq told' /\ Post(e) /\ UNCHANGED troubles
           \/ UNCHANGED events /\ Well(FALSE)
    BY <1>2 DEF TypeOK, SendNewLinks
  <1>6. events' \in Seq(Event) /\ Len(events') <= QueueCap /\ troubles' \in 0 .. MaxTroubles
    BY <1>3, <1>5, PostQueue, WellType DEF TypeOK
  <1>7. TypeOK'
    BY <1>0, <1>4, <1>5, <1>6 DEF TypeOK, loopVars, mapVars
  <1>8. NotesTold' /\ AwaitsKept
    <2>1. CASE sent \subseteq told' /\ Post(e)
      BY <1>3, <1>5, <2>1, PostNotes, PostAwaits DEF Notices
    <2>2. CASE UNCHANGED events
      BY <1>5, <2>2, SameEvents DEF Notices
    <2> QED BY <1>5, <2>1, <2>2
  <1> QED BY <1>1, <1>5, <1>7, <1>8, LoopKeeps

LEMMA SendLinkFaultsKeeps == ASSUME LinkInv, SendLinkFaults PROVE LinkInv'
  <1> USE DEF LinkInv
  <1>0. UNCHANGED <<loopVars, mapVars, links, trigger, told, updates>> /\ notify' = Idle
    BY DEF SendLinkFaults
  <1>1. LoopStep /\ NotesKept
    BY <1>0, SameStates, SameEntries, SameLinks DEF LoopStep, loopVars, Owned
  <1>2. PICK sent \in SUBSET notify.faults :
           /\ Well(sent = notify.faults)
           /\ reported' = reported \cup {p[2] : p \in sent}
           /\ IF sent = {} THEN UNCHANGED events
              ELSE Post([kind |-> "faulted", pairs |-> sent])
    BY DEF SendLinkFaults
  <1>3. sent \subseteq State \X FaultType
    BY DEF TypeOK
  <1>4. [kind |-> "faulted", pairs |-> sent] \in Event
    BY <1>3 DEF Event
  <1>5. events' \in Seq(Event) /\ Len(events') <= QueueCap
    BY <1>2, <1>4, PostQueue DEF TypeOK
  <1>6. TypeOK'
    <2>1. notify' \in [step : {"idle", "links", "faults"}, links : SUBSET (State \X Link),
                       faults : SUBSET (State \X FaultType)]
      BY <1>0 DEF Idle
    <2>2. reported' \subseteq FaultType
      BY <1>2, <1>3 DEF TypeOK
    <2>3. troubles' \in 0 .. MaxTroubles
      BY <1>2, WellType
    <2> QED BY <1>0, <1>5, <2>1, <2>2, <2>3 DEF TypeOK, loopVars, mapVars
  <1>7. NotesTold' /\ AwaitsKept
    <2>1. CASE sent = {}
      BY <1>0, <1>2, <2>1, SameEvents DEF Notices
    <2>2. CASE sent # {}
      BY <1>0, <1>2, <1>4, <2>2, PostNotes, PostAwaits DEF Notices
    <2> QED BY <2>1, <2>2
  <1> QED BY <1>0, <1>1, <1>6, <1>7, LoopKeeps

LEMMA PeerStateChangeKeeps ==
    ASSUME LinkInv, NEW d \in Dest, PeerStateChange(d) PROVE LinkInv'
  <1> USE DEF LinkInv
  <1>0. /\ updates < MaxUpdates /\ updates' = updates + 1
        /\ UNCHANGED <<loopVars, mapVars, links, ctrlVars, troubles>>
    BY DEF PeerStateChange
  <1>1. PICK e \in Event : e.kind \in {"remove", "update"} /\ Post(e)
    <2>1. CASE Post([kind |-> "remove", dest |-> d])
      BY <2>1 DEF Event
    <2>2. CASE Post([kind |-> "update", dest |-> d, healthy |-> FALSE])
      BY <2>2 DEF Event, UpdateType
    <2>3. ASSUME NEW listed \in BOOLEAN, NEW moved \in BOOLEAN,
                 Post([kind |-> "update", dest |-> d, healthy |-> TRUE,
                       listed |-> listed, moved |-> moved])
          PROVE  \E e \in Event : e.kind \in {"remove", "update"} /\ Post(e)
      BY <2>3 DEF Event, UpdateType
    <2> QED BY <2>1, <2>2, <2>3 DEF PeerStateChange
  <1>2. LoopStep /\ NotesKept
    BY <1>0, SameStates, SameEntries, SameLinks DEF LoopStep, loopVars, Owned
  <1>3. events' \in Seq(Event) /\ Len(events') <= QueueCap
    BY <1>1, PostQueue
  <1>4. TypeOK'
    BY <1>0, <1>3 DEF TypeOK, loopVars, mapVars, ctrlVars, sendVars
  <1>5. NotesTold' /\ AwaitsKept
    BY <1>0, <1>1, PostNotes, PostAwaits DEF Notices, ctrlVars, sendVars
  <1> QED BY <1>0, <1>2, <1>4, <1>5, LoopKeeps DEF ctrlVars, sendVars

-------------------------------------------------------------------------------
(***************************************************************************)
(* applyLink and LinkClosed                                                *)
(***************************************************************************)
\* The link l goes on in applyLink.
LEMMA MarkApply ==
    ASSUME TypeOK, NEW l \in Link, NEW step \in {"made", "checked", "inserted", "done"},
           links' = [links EXCEPT ![l].apply = step]
    PROVE  /\ links' \in [Link -> LinkType]
           /\ \A m \in Link : /\ links'[m].close = links[m].close
                              /\ links'[m].doomed = links[m].doomed
                              /\ links'[m].apply = IF m = l THEN step ELSE links[m].apply
  <1>1. links' = [m \in Link |-> links'[m]]
    BY DEF TypeOK
  <1>2. ASSUME NEW m \in Link
        PROVE  /\ links[m] \in LinkType
               /\ links'[m] = IF m = l THEN [links[m] EXCEPT !.apply = step] ELSE links[m]
    BY DEF TypeOK
  <1>3. ASSUME NEW m \in Link
        PROVE  /\ links'[m] \in LinkType
               /\ links'[m].close = links[m].close
               /\ links'[m].doomed = links[m].doomed
               /\ links'[m].apply = IF m = l THEN step ELSE links[m].apply
    <2>1. CASE m = l
      <3> DEFINE q == [links[m] EXCEPT !.apply = step]
      <3>1. /\ q \in LinkType /\ q.close = links[m].close /\ q.doomed = links[m].doomed
            /\ q.apply = step
        BY <1>2 DEF LinkType
      <3>2. links'[m] = q
        BY <1>2, <2>1
      <3> HIDE DEF q
      <3> QED BY <2>1, <3>1, <3>2
    <2>2. CASE m # l
      <3>1. links'[m] = links[m] /\ links[m] \in LinkType
        BY <1>2, <2>2
      <3> QED BY <2>2, <3>1
    <2> QED BY <2>1, <2>2
  <1> QED BY <1>1, <1>3

LEMMA AcceptKeeps == ASSUME LinkInv, NEW l \in Link, Accept(l) PROVE LinkInv'
  <1> USE DEF LinkInv
  <1>0. /\ ~Dialed(l) /\ PeerDest[l.id] = l.dest
        /\ links' = [links EXCEPT ![l].apply = "made"]
        /\ UNCHANGED <<dests, states, mapVars, events, ctrlVars, envVars>>
    BY DEF Accept, loopVars
  <1>1. links[l].apply = "none"
    <2>1. l.iteration >= l.iteration
      BY DEF Link
    <2> QED BY <2>1 DEF Accept
  <1>2. /\ links' \in [Link -> LinkType]
        /\ \A m \in Link : /\ links'[m].close = links[m].close
                           /\ links'[m].doomed = links[m].doomed
                           /\ links'[m].apply = IF m = l THEN "made" ELSE links[m].apply
    BY <1>0, MarkApply
  <1>3. TypeOK'
    BY <1>0, <1>2 DEF TypeOK, mapVars, ctrlVars, sendVars, envVars
  <1>4. Owned'
    <2>1. StatesSound' /\ EntriesOwned'
      BY <1>0 DEF Owned, StatesSound, EntriesOwned
    <2>2. LinksOwned'
      BY <1>0, <1>2 DEF Owned, LinksOwned, Dialed
    <2>3. MapOwned'
      BY <1>0, <1>1, <1>2 DEF Owned, MapOwned, mapVars, TypeOK
    <2> QED BY <2>1, <2>2, <2>3 DEF Owned
  <1>5. Current'
    <2>1. Exclusive'
      BY <1>2 DEF Current, Exclusive, HoldsMutex
    <2>2. ReplacesDoomed'
      <3> SUFFICES ASSUME NEW m \in Link, links'[m].apply = "checked", linkMap[m.dest] # None
                   PROVE  links'[linkMap[m.dest]].doomed
        BY <1>0 DEF ReplacesDoomed, mapVars
      <3>1. links[m].apply = "checked" /\ linkMap[m.dest] \in Link
        BY <1>2 DEF TypeOK, Link
      <3> QED BY <1>2, <3>1 DEF Current, ReplacesDoomed
    <2>3. Kept'
      BY <1>0, <1>2 DEF Current, Kept, Open, mapVars
    <2>4. IndexAgrees'
      BY <1>0 DEF Current, IndexAgrees, mapVars
    <2> QED BY <2>1, <2>2, <2>3, <2>4 DEF Current
  <1>6. Queued' = Queued /\ Entries' = Entries
    BY <1>0 DEF Queued, Entries
  <1>7. Notices'
    BY <1>0, <1>6 DEF Notices, NotesTold, NoteTold, ctrlVars, sendVars
  <1>8. DialApplies'
    <2>1. ASSUME NEW m \in Link, Applying(m)' PROVE Applying(m)
      BY <1>0, <1>2, <2>1 DEF Applying, Dialed
    <2> QED BY <1>0, <2>1 DEF Dialling, DialApplies
  <1>9. ASSUME NEW t \in Entries, states'[t].status = "dialing" PROVE Counts(t)'
    <2>1. Moves(states[t], states'[t]) /\ states'[t].dial = states[t].dial
      BY <1>0, EntriesType DEF Moves, Owned, StatesSound
    <2>2. \A m \in Link : links[m].apply = "inserted" => links'[m].apply = "inserted"
      BY <1>1, <1>2
    <2> QED BY <1>0, <1>6, <1>9, <2>1, <2>2, CountsStay DEF mapVars
  <1> QED BY <1>3, <1>4, <1>5, <1>6, <1>7, <1>8, <1>9 DEF Dialling, DialsCounted

\* A dial whose link has been through applyLink
LEMMA GoesOnMoves ==
    ASSUME TypeOK, Owned, NEW l \in Link, links[l].apply # "none",
           NEW step \in {"failed", "idle"}, DialGoesOn(l, step)
    PROVE  /\ StatesMove
           /\ \A s \in State : IF s = l.id THEN states'[s].dial = step
                               ELSE states'[s] = states[s]
  <1>1. ASSUME NEW s \in State
        PROVE  /\ Moves(states[s], states'[s])
               /\ IF s = l.id THEN states'[s].dial = step ELSE states'[s] = states[s]
    <2>1. Sound(states[s])
      BY DEF Owned, StatesSound
    <2>2. CASE s # l.id
      BY <2>1, <2>2 DEF DialGoesOn, Moves
    <2>3. CASE s = l.id
      <3>1. states'[s] = [states[s] EXCEPT !.dial = step]
        BY <2>3 DEF DialGoesOn
      <3>2. states[s].dest # None
        BY <2>3 DEF Owned, LinksOwned, Dialed, Link
      <3> QED BY <2>1, <2>3, <3>1, <3>2 DEF Moves, Sound, StateType, Status
    <2> QED BY <2>2, <2>3
  <1>2. states' = [s \in State |-> states'[s]]
    BY DEF DialGoesOn
  <1> QED BY <1>1, <1>2 DEF StatesMove, Moves, Sound

\* The link l is through with applyLink, and no other goes on in it.
Ends(l) ==
    /\ links' \in [Link -> LinkType]
    /\ \A m \in Link : /\ links'[m].apply = IF m = l THEN "done" ELSE links[m].apply
                       /\ links'[m].close = links[m].close
                       /\ links[m].doomed => links'[m].doomed

\* The link ends by the mark alone.
LEMMA EndsByMark ==
    ASSUME TypeOK, NEW l \in Link, links' = [links EXCEPT ![l].apply = "done"]
    PROVE  Ends(l)
  <1>1. /\ links' \in [Link -> LinkType]
        /\ \A m \in Link : /\ links'[m].close = links[m].close
                           /\ links'[m].doomed = links[m].doomed
                           /\ links'[m].apply = IF m = l THEN "done" ELSE links[m].apply
    BY MarkApply
  <1>2. ASSUME NEW m \in Link, links[m].doomed PROVE links'[m].doomed
    <2>1. links'[m].doomed = links[m].doomed
      BY <1>1
    <2> QED BY <1>2, <2>1, Zenon
  <1> QED BY <1>1, <1>2 DEF Ends

LEMMA CurrentEnds ==
    ASSUME TypeOK, Current, UNCHANGED mapVars, NEW l \in Link, Ends(l),
           links[l].apply = "inserted" \/ ~Open(l) \/ links'[l].doomed
    PROVE  Current'
  <1>1. Exclusive'
    BY DEF Current, Exclusive, HoldsMutex, Ends
  <1>2. ReplacesDoomed'
    <2> SUFFICES ASSUME NEW m \in Link, links'[m].apply = "checked", linkMap[m.dest] # None
                 PROVE  links'[linkMap[m.dest]].doomed
      BY DEF ReplacesDoomed, mapVars
    <2>1. links[m].apply = "checked"
      BY DEF Ends
    <2>2. linkMap[m.dest] \in Link
      BY DEF TypeOK, Link
    <2>3. links[linkMap[m.dest]].doomed
      BY <2>1 DEF Current, ReplacesDoomed
    <2> QED BY <2>2, <2>3 DEF Ends
  <1>3. Kept'
    <2> SUFFICES ASSUME NEW m \in Link, links'[m].apply \in {"inserted", "done"},
                        links'[m].close = "open"
                 PROVE  linkMap[m.dest] = m \/ links'[m].doomed
      BY DEF Kept, Open, mapVars
    <2>1. Open(m)
      BY DEF Ends, Open
    <2> QED BY <2>1 DEF Current, Kept, Ends
  <1>4. IndexAgrees'
    BY DEF Current, IndexAgrees, mapVars
  <1> QED BY <1>1, <1>2, <1>3, <1>4 DEF Current

\* The end of applyLink, for a link that has won or lost
LEMMA ApplyEndKeeps ==
    ASSUME LinkInv, NEW l \in Link, links[l].apply \in {"made", "inserted"},
           NEW step \in {"failed", "idle"}, DialGoesOn(l, step),
           Ends(l), links[l].apply = "inserted" \/ ~Open(l) \/ links'[l].doomed,
           UNCHANGED <<dests, mapVars, ctrlVars, envVars>>,
           events' \in Seq(Event), Len(events') <= QueueCap, Queued \subseteq Queued',
           NotesTold',
           links[l].apply = "inserted" =>
               \E e \in Queued' : e.kind = "established" /\ e.link.dest = l.dest,
           Dialed(l) /\ step = "idle" =>
               \/ states[l.id].status # "dialing" \/ l.id \notin Entries
               \/ \E e \in Queued' : e.kind = "established" /\ e.link.dest = l.dest
    PROVE  LinkInv'
  <1> USE DEF LinkInv
  <1>1. /\ StatesMove
        /\ \A s \in State : IF s = l.id THEN states'[s].dial = step
                             ELSE states'[s] = states[s]
    BY GoesOnMoves
  <1>2. StatesSound' /\ EntriesOwned' /\ NoteTold' /\ Entries' = Entries
    BY <1>1, MovesKeep DEF ctrlVars, sendVars
  <1>3. TypeOK'
    BY <1>1 DEF TypeOK, StatesMove, Ends, mapVars, ctrlVars, sendVars, envVars
  <1>4. Owned'
    <2>1. LinksOwned'
      <3> SUFFICES ASSUME NEW m \in Link, links'[m].apply # "none"
                   PROVE  /\ Dialed(m) => states'[m.id].dest = m.dest
                          /\ ~Dialed(m) => PeerDest[m.id] = m.dest
        BY DEF LinksOwned, Dialed
      <3>1. links[m].apply # "none"
        BY DEF Ends
      <3> QED BY <1>1, <3>1 DEF Owned, LinksOwned, StatesMove, Moves, Dialed
    <2>2. MapOwned'
      BY DEF Owned, MapOwned, mapVars, TypeOK, Ends
    <2> QED BY <1>2, <2>1, <2>2 DEF Owned
  <1>5. Current'
    BY CurrentEnds
  <1>6. DialApplies'
    <2>1. ASSUME NEW m \in Link, Applying(m)' PROVE Applying(m) /\ m.id # l.id
      <3>1. m # l /\ Applying(m) /\ Dialed(m)
        BY <2>1 DEF Applying, Dialed, Ends
      <3>2. Dialed(l) => Applying(l)
        BY DEF Applying
      <3> QED BY <3>1, <3>2 DEF Dialling, DialApplies, Dialed
    <2>2. ASSUME NEW m \in Link, Applying(m)' PROVE states'[m.id].dial = "applying"
      <3>1. m.id \in State /\ states'[m.id] = states[m.id]
        BY <1>1, <2>1, <2>2 DEF Applying, Dialed
      <3> QED BY <2>1, <2>2, <3>1 DEF Dialling, DialApplies
    <2> QED BY <2>1, <2>2 DEF Dialling, DialApplies
  <1>7. ASSUME NEW t \in Entries, states'[t].status = "dialing" PROVE Counts(t)'
    <2>1. t \in State /\ Moves(states[t], states'[t])
      BY <1>1, EntriesType DEF StatesMove
    <2>2. CASE t # l.id
      <3>1. states'[t].dial = states[t].dial
        BY <1>1, <2>1, <2>2
      <3>2. \A m \in Link : links[m].apply = "inserted" =>
               \/ links'[m].apply = "inserted"
               \/ \E e \in Queued' : e.kind = "established" /\ e.link.dest = m.dest
        BY DEF Ends
      <3> QED BY <1>7, <2>1, <3>1, <3>2, CountsStay DEF mapVars
    <2>3. CASE t = l.id /\ step = "failed"
      BY <1>1, <2>1, <2>3 DEF Counts
    <2>4. CASE t = l.id /\ step = "idle"
      <3>1. Dialed(l) /\ states[t].status = "dialing"
        BY <1>7, <2>1, <2>4 DEF Dialed, Moves
      <3>2. PICK e \in Queued' : e.kind = "established" /\ e.link.dest = l.dest
        BY <2>4, <3>1
      <3>3. states'[t].dest = l.dest
        BY <2>1, <2>4, <3>1 DEF Moves, Owned, LinksOwned
      <3>4. Awaits("established", states[t].dest)'
        BY <3>2, <3>3 DEF Awaits, Queued
      <3> QED BY <1>1, <2>1, <2>4, <3>4 DEF Counts
    <2> QED BY <2>2, <2>3, <2>4
  <1> QED BY <1>2, <1>3, <1>4, <1>5, <1>6, <1>7 DEF Notices, Dialling, DialsCounted

LEMMA ApplyPostsKeeps == ASSUME LinkInv, NEW l \in Link, ApplyPosts(l) PROVE LinkInv'
  <1> DEFINE e == [kind |-> "established", link |-> l]
  <1>0. /\ links[l].apply = "inserted" /\ Post(e) /\ DialGoesOn(l, "idle")
        /\ links' = [links EXCEPT ![l].apply = "done"]
        /\ UNCHANGED <<dests, mapVars, ctrlVars, envVars>>
    BY DEF ApplyPosts
  <1>1. e \in Event /\ e.kind = "established" /\ e.link.dest = l.dest
    BY DEF Event
  <1> HIDE DEF e
  <1>2. events' \in Seq(Event) /\ Len(events') <= QueueCap /\ Queued' = Queued \cup {e}
    BY <1>0, <1>1, PostQueue DEF LinkInv
  <1>3. NotesTold'
    BY <1>0, <1>1, PostNotes DEF LinkInv, Notices, ctrlVars, sendVars
  <1>4. Ends(l)
    BY <1>0, EndsByMark DEF LinkInv
  <1> QED BY <1>0, <1>1, <1>2, <1>3, <1>4, ApplyEndKeeps

\* applyLink refuses the link, as it is closed or loses against the current one.
LEMMA ApplyRefusesKeeps ==
    ASSUME LinkInv, NEW l \in Link, links[l].apply = "made", \A m \in Link : ~HoldsMutex(m),
           NEW step \in {"failed", "idle"}, DialGoesOn(l, step), Ends(l),
           ~Open(l) \/ links'[l].doomed,
           step = "idle" => linkMap[l.dest] # None,
           UNCHANGED <<dests, mapVars, events, ctrlVars, envVars>>
    PROVE  LinkInv'
  <1>1. events' \in Seq(Event) /\ Len(events') <= QueueCap /\ Queued' = Queued /\ NotesTold'
    BY SameEvents DEF LinkInv, TypeOK, Notices, Queued, ctrlVars, sendVars
  <1>2. ASSUME Dialed(l), step = "idle", states[l.id].status = "dialing", l.id \in Entries
        PROVE  \E e \in Queued : e.kind = "established" /\ e.link.dest = l.dest
    <2>1. Applying(l) /\ states[l.id].dest = l.dest
      BY <1>2 DEF Applying, LinkInv, Owned, LinksOwned
    <2>2. states[l.id].dial = "applying" /\ Counts(l.id)
      BY <1>2, <2>1 DEF LinkInv, Dialling, DialApplies, DialsCounted
    <2>3. linkMap[l.dest] \in Link
      BY <1>2 DEF LinkInv, TypeOK, Link
    <2>4. links[linkMap[l.dest]].apply # "inserted"
      BY <2>3 DEF HoldsMutex
    <2>5. Awaits("established", l.dest)
      BY <1>2, <2>1, <2>2, <2>4 DEF Counts
    <2> QED BY <2>5, AwaitsQueued
  <1> QED BY <1>1, <1>2, ApplyEndKeeps

\* applyLink is going to insert the link.
Admits(l) ==
    /\ links' \in [Link -> LinkType]
    /\ \A m \in Link : /\ links'[m].apply = IF m = l THEN "checked" ELSE links[m].apply
                       /\ links'[m].close = links[m].close
                       /\ links[m].doomed => links'[m].doomed

LEMMA ApplyAdmitsKeeps ==
    ASSUME LinkInv, NEW l \in Link, links[l].apply = "made", \A m \in Link : ~HoldsMutex(m),
           Admits(l),
           linkMap[l.dest] # None => links'[linkMap[l.dest]].doomed,
           UNCHANGED <<dests, states, mapVars, events, ctrlVars, envVars>>
    PROVE  LinkInv'
  <1> USE DEF LinkInv, Admits
  <1>1. TypeOK'
    BY DEF TypeOK, mapVars, ctrlVars, sendVars, envVars
  <1>2. Owned'
    <2>1. StatesSound' /\ EntriesOwned'
      BY DEF Owned, StatesSound, EntriesOwned
    <2>2. LinksOwned'
      <3> SUFFICES ASSUME NEW m \in Link, links'[m].apply # "none"
                   PROVE  /\ Dialed(m) => states[m.id].dest = m.dest
                          /\ ~Dialed(m) => PeerDest[m.id] = m.dest
        BY DEF LinksOwned, Dialed
      <3>1. links[m].apply # "none"
        BY DEF Admits
      <3> QED BY <3>1 DEF Owned, LinksOwned
    <2>3. MapOwned'
      BY DEF Owned, MapOwned, mapVars, TypeOK
    <2> QED BY <2>1, <2>2, <2>3 DEF Owned
  <1>3. Current'
    <2>1. Exclusive'
      BY DEF Exclusive, HoldsMutex
    <2>2. ReplacesDoomed'
      BY DEF ReplacesDoomed, mapVars, HoldsMutex
    <2>3. Kept'
      BY DEF Current, Kept, Open, mapVars
    <2>4. IndexAgrees'
      BY DEF Current, IndexAgrees, mapVars
    <2> QED BY <2>1, <2>2, <2>3, <2>4 DEF Current
  <1>4. Queued' = Queued /\ Entries' = Entries
    BY DEF Queued, Entries
  <1>5. Notices'
    BY <1>4 DEF Notices, NotesTold, NoteTold, ctrlVars, sendVars
  <1>6. DialApplies'
    <2>1. ASSUME NEW m \in Link, Applying(m)' PROVE Applying(m)
      BY <2>1 DEF Applying, Dialed
    <2> QED BY <2>1 DEF Dialling, DialApplies
  <1>7. ASSUME NEW t \in Entries, states'[t].status = "dialing" PROVE Counts(t)'
    <2>1. Moves(states[t], states'[t]) /\ states'[t].dial = states[t].dial
      BY EntriesType DEF Moves, Owned, StatesSound
    <2>2. \A m \in Link : links[m].apply = "inserted" => links'[m].apply = "inserted"
      OBVIOUS
    <2> QED BY <1>4, <1>7, <2>1, <2>2, CountsStay DEF mapVars
  <1> QED BY <1>1, <1>2, <1>3, <1>4, <1>5, <1>6, <1>7 DEF Dialling, DialsCounted

LEMMA ApplyChecksKeeps == ASSUME LinkInv, NEW l \in Link, ApplyChecks(l) PROVE LinkInv'
  <1> DEFINE existing == linkMap[l.dest]
             rejected == links[existing].dups + 1
  <1>0. /\ links[l].apply = "made" /\ \A m \in Link : ~HoldsMutex(m)
        /\ UNCHANGED <<dests, mapVars, events, ctrlVars, envVars>>
    BY DEF ApplyChecks
  <1>1. ASSUME existing # None
        PROVE  existing \in Link /\ existing # l /\ rejected \in Nat
    <2>1. l.dest \in Dest
      BY DEF Link
    <2>2. existing \in Link
      BY <1>1, <2>1 DEF LinkInv, TypeOK
    <2>3. links[existing].apply \in {"inserted", "done"}
      BY <1>1, <2>1 DEF LinkInv, Owned, MapOwned
    <2>4. links[existing] \in LinkType
      BY <2>2 DEF LinkInv, TypeOK
    <2> QED BY <1>0, <2>2, <2>3, <2>4 DEF LinkType
  <1>2. CASE ~Open(l)
    <2>1. links' = [links EXCEPT ![l].apply = "done"] /\ DialGoesOn(l, "failed")
      BY <1>2 DEF ApplyChecks
    <2>2. Ends(l)
      BY <2>1, EndsByMark DEF LinkInv
    <2> QED BY <1>0, <1>2, <2>1, <2>2, ApplyRefusesKeeps
  <1>3. CASE Open(l) /\ Loses(l, existing)
    <2>1. /\ links' = [links EXCEPT ![l].apply = "done", ![l].doomed = TRUE,
                                    ![existing].dups = rejected]
          /\ DialGoesOn(l, "idle") /\ existing # None
      BY <1>3 DEF ApplyChecks, Loses
    <2> HIDE DEF existing, rejected
    <2>2. ASSUME NEW m \in Link
          PROVE  /\ links'[m] \in LinkType
                 /\ links'[m].apply = IF m = l THEN "done" ELSE links[m].apply
                 /\ links'[m].close = links[m].close
                 /\ links[m].doomed => links'[m].doomed
                 /\ m = l => links'[m].doomed
      <3>1. links[m] \in LinkType
        BY DEF LinkInv, TypeOK
      <3>2. links'[m] = IF m = l THEN [links[m] EXCEPT !.apply = "done", !.doomed = TRUE]
                        ELSE IF m = existing THEN [links[m] EXCEPT !.dups = rejected]
                        ELSE links[m]
        BY <1>1, <2>1 DEF LinkInv, TypeOK, LinkType
      <3>3. CASE m = l
        <4> DEFINE q == [links[m] EXCEPT !.apply = "done", !.doomed = TRUE]
        <4>1. /\ q \in LinkType /\ q.apply = "done" /\ q.close = links[m].close
              /\ q.doomed
          BY <3>1 DEF LinkType
        <4>2. links'[m] = q
          BY <3>2, <3>3
        <4> HIDE DEF q
        <4> QED BY <3>3, <4>1, <4>2
      <3>4. CASE m = existing /\ m # l
        <4> DEFINE q == [links[m] EXCEPT !.dups = rejected]
        <4>0. rejected \in Nat
          BY <1>1, <2>1
        <4>1. /\ q \in LinkType /\ q.apply = links[m].apply /\ q.close = links[m].close
              /\ links[m].doomed => q.doomed
          BY <3>1, <4>0 DEF LinkType
        <4>2. links'[m] = q
          BY <3>2, <3>4
        <4> HIDE DEF q
        <4> QED BY <3>4, <4>1, <4>2
      <3>5. CASE m # existing /\ m # l
        BY <3>1, <3>2, <3>5
      <3> QED BY <3>3, <3>4, <3>5
    <2>3. links' = [m \in Link |-> links'[m]]
      BY <2>1 DEF LinkInv, TypeOK
    <2>4. Ends(l)
      BY <2>2, <2>3 DEF Ends
    <2> QED BY <1>0, <2>1, <2>2, <2>4, ApplyRefusesKeeps DEF existing
  <1>4. CASE Open(l) /\ ~Loses(l, existing)
    <2> DEFINE counted == existing # None /\ existing.id < l.id
    <2>1. /\ links' = [m \in Link |->
                 IF m = l THEN [links[m] EXCEPT !.apply = "checked"]
                 ELSE IF m = existing
                 THEN [links[m] EXCEPT !.doomed = TRUE,
                                       !.dups = IF counted THEN rejected ELSE links[m].dups]
                 ELSE links[m]]
          /\ UNCHANGED states
      BY <1>4 DEF ApplyChecks
    <2> HIDE DEF counted
    <2>2. ASSUME NEW m \in Link
          PROVE  /\ links'[m] \in LinkType
                 /\ links'[m].apply = IF m = l THEN "checked" ELSE links[m].apply
                 /\ links'[m].close = links[m].close
                 /\ links[m].doomed => links'[m].doomed
                 /\ m = existing => links'[m].doomed
      <3>1. links[m] \in LinkType /\ (m = existing => m # l /\ rejected \in Nat)
        BY <1>1 DEF LinkInv, TypeOK
      <3> HIDE DEF existing, rejected
      <3>2. CASE m = l
        BY <2>1, <3>1, <3>2 DEF LinkType
      <3>3. CASE m = existing /\ m # l
        <4> DEFINE dups == IF counted THEN rejected ELSE links[m].dups
        <4>1. dups \in Nat
          BY <3>1, <3>3 DEF LinkType
        <4>2. links'[m] = [links[m] EXCEPT !.doomed = TRUE, !.dups = dups]
          BY <2>1, <3>3
        <4> HIDE DEF dups
        <4> QED BY <3>1, <3>3, <4>1, <4>2 DEF LinkType
      <3>4. CASE m # existing /\ m # l
        BY <2>1, <3>1, <3>4
      <3> QED BY <3>2, <3>3, <3>4
    <2>3. links' = [m \in Link |-> links'[m]]
      BY <2>1
    <2>4. links' \in [Link -> LinkType]
      BY <2>2, <2>3
    <2>5. Admits(l)
      BY <2>2, <2>4 DEF Admits
    <2>6. linkMap[l.dest] # None => links'[linkMap[l.dest]].doomed
      BY <1>1, <2>2
    <2> HIDE DEF existing
    <2> QED BY <1>0, <2>1, <2>5, <2>6, ApplyAdmitsKeeps
  <1> QED BY <1>2, <1>3, <1>4

\* The current link of a router is replaced by the holder of the Mutex.
LEMMA InsertsCurrent ==
    ASSUME TypeOK, Owned, Current, NEW l \in Link, ApplyInserts(l)
    PROVE  Current'
  <1>0. /\ links[l].apply = "checked" /\ links' = [links EXCEPT ![l].apply = "inserted"]
        /\ linkMap'     = [linkMap EXCEPT ![l.dest] = l]
        /\ linkByIdMap' = [linkByIdMap EXCEPT ![l.id] = l]
    BY DEF ApplyInserts
  <1>1. \A m \in Link : /\ links'[m].close = links[m].close
                        /\ links'[m].doomed = links[m].doomed
                        /\ links'[m].apply = IF m = l THEN "inserted" ELSE links[m].apply
    BY <1>0, MarkApply
  <1>2. l.dest \in Dest /\ l.id \in State \cup Peer
    BY DEF Link
  <1>3. /\ linkMap'[l.dest] = l /\ linkByIdMap'[l.id] = l
        /\ \A d \in Dest : d # l.dest => linkMap'[d] = linkMap[d]
        /\ \A i \in State \cup Peer : i # l.id => linkByIdMap'[i] = linkByIdMap[i]
    BY <1>0, <1>2 DEF TypeOK
  <1>4. Exclusive'
    BY <1>0, <1>1 DEF Current, Exclusive, HoldsMutex
  <1>5. ReplacesDoomed'
    BY <1>0, <1>1 DEF Current, Exclusive, ReplacesDoomed, HoldsMutex
  <1>6. ASSUME NEW m \in Link, links'[m].apply \in {"inserted", "done"}, Open(m)',
               linkMap'[m.dest] # m
        PROVE  links'[m].doomed
    <2>1. m # l /\ links[m].apply \in {"inserted", "done"} /\ Open(m) /\ m.dest \in Dest
      BY <1>1, <1>3, <1>6 DEF Open, Link
    <2>2. CASE links[m].doomed
      <3>1. links'[m].doomed = links[m].doomed
        BY <1>1
      <3> QED BY <2>2, <3>1, Zenon
    <2>3. CASE linkMap[m.dest] = m
      <3>1. m.dest = l.dest
        BY <1>3, <1>6, <2>1, <2>3
      <3>2. m # None
        BY NoneAssumption
      <3>3. links[m].doomed
        BY <1>0, <2>3, <3>1, <3>2 DEF Current, ReplacesDoomed
      <3>4. links'[m].doomed = links[m].doomed
        BY <1>1
      <3> QED BY <3>3, <3>4, Zenon
    <2> QED BY <2>1, <2>2, <2>3 DEF Current, Kept
  <1>7. ASSUME NEW d \in Dest, linkMap'[d] # None
        PROVE  linkByIdMap'[linkMap'[d].id] = linkMap'[d]
    <2>1. CASE d = l.dest
      BY <1>3, <2>1
    <2>2. CASE d # l.dest
      <3> DEFINE m == linkMap[d]
      <3>1. linkMap'[d] = m /\ m \in Link /\ linkByIdMap[m.id] = m
        BY <1>3, <1>7, <2>2 DEF TypeOK, Current, IndexAgrees
      <3>2. m.dest = d /\ links[m].apply # "none" /\ links[l].apply # "none"
        BY <1>0, <1>7, <3>1 DEF Owned, MapOwned
      <3>3. m.id \in State \cup Peer
        BY <3>1 DEF Link
      <3> HIDE DEF m
      <3>4. m.id # l.id
        BY <2>2, <3>1, <3>2 DEF Owned, LinksOwned, Dialed
      <3> QED BY <1>3, <3>1, <3>3, <3>4
    <2> QED BY <2>1, <2>2
  <1>8. Kept'
    BY <1>6 DEF Kept, Open
  <1> QED BY <1>4, <1>5, <1>7, <1>8 DEF Current, IndexAgrees

LEMMA ApplyInsertsKeeps == ASSUME LinkInv, NEW l \in Link, ApplyInserts(l) PROVE LinkInv'
  <1> USE DEF LinkInv
  <1>0. /\ links[l].apply = "checked" /\ links' = [links EXCEPT ![l].apply = "inserted"]
        /\ linkMap'     = [linkMap EXCEPT ![l.dest] = l]
        /\ linkByIdMap' = [linkByIdMap EXCEPT ![l.id] = l]
        /\ UNCHANGED <<dests, states, events, ctrlVars, envVars>>
    BY DEF ApplyInserts, loopVars
  <1>1. /\ links' \in [Link -> LinkType]
        /\ \A m \in Link : /\ links'[m].close = links[m].close
                           /\ links'[m].doomed = links[m].doomed
                           /\ links'[m].apply = IF m = l THEN "inserted" ELSE links[m].apply
    BY <1>0, MarkApply
  <1>2. /\ l.dest \in Dest /\ linkMap'[l.dest] = l
        /\ \A d \in Dest : d # l.dest => linkMap'[d] = linkMap[d]
    BY <1>0 DEF TypeOK, Link
  <1>3. TypeOK'
    BY <1>0, <1>1 DEF TypeOK, ctrlVars, sendVars, envVars
  <1>4. Owned'
    <2>1. StatesSound' /\ EntriesOwned'
      BY <1>0 DEF Owned, StatesSound, EntriesOwned
    <2>2. LinksOwned'
      BY <1>0, <1>1 DEF Owned, LinksOwned, Dialed
    <2>3. ASSUME NEW d \in Dest, linkMap'[d] # None
          PROVE  /\ linkMap'[d].dest = d
                 /\ links'[linkMap'[d]].apply \in {"inserted", "done"}
      <3>1. CASE d = l.dest
        BY <1>1, <1>2, <3>1
      <3>2. CASE d # l.dest
        <4>1. linkMap'[d] = linkMap[d] /\ linkMap[d] \in Link
          BY <1>2, <2>3, <3>2 DEF TypeOK
        <4> QED BY <1>1, <2>3, <4>1 DEF Owned, MapOwned
      <3> QED BY <3>1, <3>2
    <2> QED BY <2>1, <2>2, <2>3 DEF Owned, MapOwned
  <1>5. Current'
    BY InsertsCurrent
  <1>6. Queued' = Queued /\ Entries' = Entries
    BY <1>0 DEF Queued, Entries
  <1>7. Notices'
    BY <1>0, <1>6 DEF Notices, NotesTold, NoteTold, ctrlVars, sendVars
  <1>8. DialApplies'
    <2>1. ASSUME NEW m \in Link, Applying(m)' PROVE Applying(m)
      BY <1>0, <1>1, <2>1 DEF Applying, Dialed
    <2> QED BY <1>0, <2>1 DEF Dialling, DialApplies
  <1>9. ASSUME NEW t \in Entries, states'[t].status = "dialing" PROVE Counts(t)'
    <2>1. Moves(states[t], states'[t]) /\ states'[t].dial = states[t].dial
      BY <1>0, EntriesType DEF Moves, Owned, StatesSound
    <2>2. \A m \in Link : links[m].apply = "inserted" => links'[m].apply = "inserted"
      BY <1>1
    <2>3. \/ linkMap'[states[t].dest] \in {linkMap[states[t].dest], None}
          \/ links'[linkMap'[states[t].dest]].apply = "inserted"
      BY <1>1, <1>2, EntriesType
    <2> QED BY <1>6, <1>9, <2>1, <2>2, <2>3, CountsStay
  <1> QED BY <1>3, <1>4, <1>5, <1>6, <1>7, <1>8, <1>9 DEF Dialling, DialsCounted

\* A closed link leaves the maps to its successor.
LEMMA RemovesCurrent ==
    ASSUME TypeOK, Owned, Current, NEW l \in Link, LinkClosedRemoves(l)
    PROVE  Current'
  <1> DEFINE step == IF linkMap[l.dest] = l THEN "current" ELSE "replaced"
  <1>0. /\ links[l].close = "closed" /\ links' = [links EXCEPT ![l].close = step]
        /\ linkMap'     = [linkMap EXCEPT ![l.dest] = IF @ = l THEN None ELSE @]
        /\ linkByIdMap' = [linkByIdMap EXCEPT ![l.id] = IF @ = l THEN None ELSE @]
    BY DEF LinkClosedRemoves
  <1>1. step \in {"closed", "current", "replaced", "done"}
    OBVIOUS
  <1> HIDE DEF step
  <1>2. LinksCalm
    BY <1>0, <1>1, CloseOne
  <1>3. /\ \A d \in Dest : linkMap'[d] = IF d = l.dest /\ linkMap[d] = l THEN None
                                         ELSE linkMap[d]
        /\ \A i \in State \cup Peer :
              linkByIdMap'[i] = IF i = l.id /\ linkByIdMap[i] = l THEN None ELSE linkByIdMap[i]
    BY <1>0 DEF TypeOK
  <1>4. Exclusive'
    BY <1>2 DEF Current, Exclusive, HoldsMutex, LinksCalm
  <1>5. ASSUME NEW m \in Link, links'[m].apply = "checked", linkMap'[m.dest] # None
        PROVE  links'[linkMap'[m.dest]].doomed
    <2> DEFINE x == linkMap[m.dest]
    <2>1. linkMap'[m.dest] = x /\ x \in Link
      BY <1>3, <1>5 DEF TypeOK, Link
    <2>2. links[x].doomed
      BY <1>2, <1>5, <2>1 DEF Current, ReplacesDoomed, LinksCalm
    <2> HIDE DEF x
    <2>3. links'[x].doomed = links[x].doomed
      BY <1>2, <2>1 DEF LinksCalm
    <2>4. links'[x].doomed
      BY <2>2, <2>3, Zenon
    <2> QED BY <2>1, <2>4
  <1>6. ASSUME NEW m \in Link, links'[m].apply \in {"inserted", "done"}, Open(m)',
               linkMap'[m.dest] # m
        PROVE  links'[m].doomed
    <2>1. m # l
      BY <1>0, <1>2, <1>6 DEF LinksCalm, Open
    <2>2. links[m].apply \in {"inserted", "done"} /\ Open(m) /\ m.dest \in Dest
      BY <1>2, <1>6 DEF LinksCalm, Open, Link
    <2>3. linkMap[m.dest] # m
      BY <1>3, <1>6, <2>1, <2>2
    <2>4. links[m].doomed
      BY <2>2, <2>3 DEF Current, Kept
    <2>5. links'[m].doomed = links[m].doomed
      BY <1>2 DEF LinksCalm
    <2> QED BY <2>4, <2>5, Zenon
  <1>7. ASSUME NEW d \in Dest, linkMap'[d] # None
        PROVE  linkByIdMap'[linkMap'[d].id] = linkMap'[d]
    <2> DEFINE m == linkMap[d]
    <2>1. linkMap'[d] = m /\ m \in Link /\ linkByIdMap[m.id] = m /\ m.dest = d
      BY <1>3, <1>7 DEF TypeOK, Current, IndexAgrees, Owned, MapOwned
    <2>2. m # l
      BY <1>3, <1>7, <2>1
    <2>3. m.id \in State \cup Peer
      BY <2>1 DEF Link
    <2> HIDE DEF m
    <2> QED BY <1>3, <2>1, <2>2, <2>3
  <1> QED BY <1>4, <1>5, <1>6, <1>7 DEF Current, ReplacesDoomed, Kept, IndexAgrees, Open

LEMMA LinkClosedRemovesKeeps ==
    ASSUME LinkInv, NEW l \in Link, LinkClosedRemoves(l) PROVE LinkInv'
  <1> DEFINE step == IF linkMap[l.dest] = l THEN "current" ELSE "replaced"
  <1> USE DEF LinkInv
  <1>0. /\ links[l].close = "closed" /\ links' = [links EXCEPT ![l].close = step]
        /\ linkMap'     = [linkMap EXCEPT ![l.dest] = IF @ = l THEN None ELSE @]
        /\ linkByIdMap' = [linkByIdMap EXCEPT ![l.id] = IF @ = l THEN None ELSE @]
        /\ UNCHANGED <<dests, states, events, ctrlVars, envVars>>
    BY DEF LinkClosedRemoves, loopVars
  <1>1. LinksCalm
    <2>1. step \in {"closed", "current", "replaced", "done"}
      OBVIOUS
    <2> HIDE DEF step
    <2> QED BY <1>0, <2>1, CloseOne
  <1>2. \A d \in Dest : linkMap'[d] \in {linkMap[d], None}
    BY <1>0 DEF TypeOK
  <1>3. TypeOK'
    BY <1>0, <1>1 DEF TypeOK, LinksCalm, ctrlVars, sendVars, envVars
  <1>4. Owned'
    <2>1. StatesSound' /\ EntriesOwned'
      BY <1>0 DEF Owned, StatesSound, EntriesOwned
    <2>2. LinksOwned'
      BY <1>0, <1>1 DEF Owned, LinksOwned, Dialed, LinksCalm
    <2>3. ASSUME NEW d \in Dest, linkMap'[d] # None
          PROVE  /\ linkMap'[d].dest = d
                 /\ links'[linkMap'[d]].apply \in {"inserted", "done"}
      <3>1. linkMap'[d] = linkMap[d] /\ linkMap[d] \in Link
        BY <1>2, <2>3 DEF TypeOK
      <3> QED BY <1>1, <2>3, <3>1 DEF Owned, MapOwned, LinksCalm
    <2> QED BY <2>1, <2>2, <2>3 DEF Owned, MapOwned
  <1>5. Current'
    BY RemovesCurrent
  <1>6. Queued' = Queued /\ Entries' = Entries
    BY <1>0 DEF Queued, Entries
  <1>7. Notices'
    BY <1>0, <1>6 DEF Notices, NotesTold, NoteTold, ctrlVars, sendVars
  <1>8. DialApplies'
    <2>1. ASSUME NEW m \in Link, Applying(m)' PROVE Applying(m)
      BY <1>1, <2>1 DEF Applying, Dialed, LinksCalm
    <2> QED BY <1>0, <2>1 DEF Dialling, DialApplies
  <1>9. ASSUME NEW t \in Entries, states'[t].status = "dialing" PROVE Counts(t)'
    <2>1. /\ Moves(states[t], states'[t]) /\ states'[t].dial = states[t].dial
          /\ states[t].dest \in Dest
      BY <1>0, EntriesType DEF Moves, Owned, StatesSound
    <2>2. \A m \in Link : links[m].apply = "inserted" => links'[m].apply = "inserted"
      BY <1>1 DEF LinksCalm
    <2> QED BY <1>2, <1>6, <1>9, <2>1, <2>2, CountsStay
  <1> QED BY <1>3, <1>4, <1>5, <1>6, <1>7, <1>8, <1>9 DEF Dialling, DialsCounted

-------------------------------------------------------------------------------
(***************************************************************************)
(* The invariant holds                                                     *)
(***************************************************************************)
LEMMA InitInv == ASSUME Init PROVE LinkInv
  <1> USE DEF Init
  <1>1. Queued = {} /\ Entries = {}
    BY DEF Queued, Entries
  <1>2. TypeOK
    <2>1. dests \in [Dest -> DestType] /\ links \in [Link -> LinkType]
      BY DEF DestType, LinkType
    <2>2. states \in [State -> StateType]
      BY UnusedSound DEF Sound
    <2>3. events \in Seq(Event) /\ Len(events) <= QueueCap
      BY BoundAssumption
    <2>4. /\ notify \in [step : {"idle", "links", "faults"}, links : SUBSET (State \X Link),
                         faults : SUBSET (State \X FaultType)]
          /\ updates \in 0 .. MaxUpdates /\ troubles \in 0 .. MaxTroubles
      BY BoundAssumption DEF Idle
    <2> QED BY <2>1, <2>2, <2>3, <2>4 DEF TypeOK
  <1>3. Owned
    BY UnusedSound, IdAssumption DEF Owned, StatesSound, EntriesOwned, LinksOwned, MapOwned
  <1>4. Current
    BY DEF Current, Exclusive, HoldsMutex, ReplacesDoomed, Kept, IndexAgrees
  <1>5. Notices
    BY <1>1 DEF Notices, NotesTold, NoteTold, Unused
  <1>6. Dialling
    BY <1>1 DEF Dialling, DialApplies, Applying, DialsCounted
  <1> QED BY <1>2, <1>3, <1>4, <1>5, <1>6 DEF LinkInv

LEMMA StutterKeeps == ASSUME LinkInv, UNCHANGED vars PROVE LinkInv'
  <1> USE DEF LinkInv, vars
  <1>1. LoopStep /\ NotesKept
    BY SameStates, SameEntries, SameLinks DEF LoopStep, loopVars, Owned
  <1>2. TypeOK'
    BY DEF TypeOK, loopVars, mapVars, ctrlVars, sendVars, envVars
  <1>3. NotesTold' /\ AwaitsKept
    BY SameEvents DEF Notices, ctrlVars, sendVars
  <1> QED BY <1>1, <1>2, <1>3, LoopKeeps DEF ctrlVars, sendVars

\* One event of run()
LEMMA HandleKeeps == ASSUME LinkInv, Handle PROVE LinkInv'
  <1>1. CASE \E room \in BOOLEAN : HandleListed(room)
    BY <1>1, ListedKeeps
  <1>2. CASE \E room \in BOOLEAN : HandleClosed(room)
    BY <1>2, ClosedKeeps
  <1> QED
    BY <1>1, <1>2, UnhealthyKeeps, UnlistedKeeps, RemoveKeeps, EstablishedKeeps, ReplacedKeeps,
       DialFailedKeeps, NotifiedKeeps, FaultedKeeps DEF Handle

\* What becomes of a link
LEMMA LinkStepKeeps ==
    ASSUME LinkInv, NEW l \in Link, Accept(l) \/ ApplyStep(l) \/ Close(l) \/ CloseStep(l)
    PROVE  LinkInv'
  BY AcceptKeeps, ApplyChecksKeeps, ApplyInsertsKeeps, ApplyPostsKeeps, CloseKeeps,
     LinkClosedRemovesKeeps, LinkClosedPostsKeeps DEF ApplyStep, CloseStep

\* Every step of a goroutine keeps the invariant.
LEMMA NextKeeps == ASSUME LinkInv, [Next]_vars PROVE LinkInv'
  <1>1. CASE Handle
    BY <1>1, HandleKeeps
  <1>2. CASE \E room \in BOOLEAN : TriggerFires(room)
    BY <1>2, TriggerKeeps
  <1>3. CASE \E room, sendRoom \in BOOLEAN : QueueTick(room, sendRoom)
    BY <1>3, QueueKeeps
  <1>4. CASE Scan
    BY <1>4, ScanKeeps DEF Scan
  <1>5. ASSUME NEW s \in State, BackoffElapses(s) \/ DialStep(s) PROVE LinkInv'
    BY <1>5, BackoffKeeps, DialStartsKeeps, DialSucceedsKeeps, DialErrsKeeps, DialPostsKeeps
       DEF DialStep
  <1>6. ASSUME NEW l \in Link, Accept(l) \/ ApplyStep(l) \/ Close(l) \/ CloseStep(l)
        PROVE  LinkInv'
    BY <1>6, LinkStepKeeps
  <1>7. CASE NotifyStep
    BY <1>7, SendNewLinksKeeps, SendLinkFaultsKeeps DEF NotifyStep
  <1>8. ASSUME NEW d \in Dest, PeerStateChange(d) PROVE LinkInv'
    BY <1>8, PeerStateChangeKeeps
  <1>9. CASE UNCHANGED vars
    BY <1>9, StutterKeeps
  <1> QED BY <1>1, <1>2, <1>3, <1>4, <1>5, <1>6, <1>7, <1>8, <1>9 DEF Next

\* Ownership of links and states, the critical section of applyLink, what the
\* controllers were told and what a dial can count on hold together, whatever the
\* goroutines do to each other.
THEOREM LinkInvariant == Spec => []LinkInv
  <1>1. Init => LinkInv
    BY InitInv
  <1>2. LinkInv /\ [Next]_vars => LinkInv'
    BY NextKeeps
  <1> QED BY <1>1, <1>2, PTL DEF Spec

\* Every variable of the registry has its type, and the event channel is never
\* beyond its capacity, for every number of routers, states and links.
THEOREM TypeCorrect == Spec => []TypeOK
  <1>1. LinkInv => TypeOK
    BY DEF LinkInv
  <1> QED BY <1>1, LinkInvariant, PTL

\* applyLink and LinkClosed may interleave for any number of links of the same key
\* or id: the current link of a key is always the one that its id finds.
THEOREM IndexCorrect == Spec => []IndexAgrees
  <1>1. LinkInv => IndexAgrees
    BY DEF LinkInv, Current
  <1> QED BY <1>1, LinkInvariant, PTL

\* applyLink never forgets a link that is open: it is current, or going to be closed.
THEOREM NoLeak == Spec => []NoLeakedLink
  <1>1. LinkInv => NoLeakedLink
    BY DEF LinkInv, Current, Kept, NoLeakedLink
  <1> QED BY <1>1, LinkInvariant, PTL

\* A link is marked as notified only if the controllers were told of that link,
\* although the acknowledgement passes through the event channel and the link may
\* be replaced meanwhile.
THEOREM NotifiedCorrect == Spec => []NotifiedMeansTold
  <1>1. LinkInv => NotifiedMeansTold
    BY EntriesType DEF LinkInv, Notices, NoteTold, NotifiedMeansTold
  <1> QED BY <1>1, LinkInvariant, PTL

\* No entry is left with StatusDialing without a dial or an event that ends it.
THEOREM DialingCorrect == Spec => []DialingNotStuck
  <1>1. LinkInv => DialingNotStuck
    BY DEF LinkInv, Dialling, DialsCounted, Counts, DialingNotStuck
  <1> QED BY <1>1, LinkInvariant, PTL

===============================================================================
