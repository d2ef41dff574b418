------------------------------- MODULE SimBatches -----------------------------
(***************************************************************************)
(* The packet simulation of the ZTON hub: batch threads that record        *)
(* packets (server/simulator.py, server/packet_store.py) and the web       *)
(* handlers that start, stop and reset them and that read the store        *)
(* (server/soc_api.py).  The handlers run on the event loop, one at a      *)
(* time, and block it while they join a batch; the batch threads and the   *)
(* threads of the overlay run beside them.                                 *)
(*                                                                         *)
(* All simulated packets are those of one session.  The security events,   *)
(* which the store keeps and cuts as it does the packets, the limits of    *)
(* the lists and the buckets of the charts are left out.                   *)
(***************************************************************************)
EXTENDS Naturals, FiniteSets

CONSTANTS
    LongPause,   \* whether a batch may pause longer than a join waits
    MaxBatches,  \* bound: batches that are started
    Count,       \* packets of a batch
    MaxResets,   \* bound: resets of the dashboard
    MaxLive      \* bound: packets of the overlay

ASSUME SimAssumption ==
    /\ LongPause \in BOOLEAN
    /\ MaxBatches \in Nat /\ Count \in Nat
    /\ MaxResets \in Nat /\ MaxLive \in Nat

VARIABLES
    pc,       \* where the thread of a batch is
    left,     \* packets it has still to make
    seqOf,    \* sequence number of the packet it is working on
    verdict,  \* decision about that packet
    current,  \* the record of the last packet it inserted
    born,     \* resets there had been when it was started
    thread,   \* Simulator._thread: the batch started last, 0 for none
    stop,     \* the Simulator._stop that batches poll is set
    request,  \* the handler that blocks the event loop in a join
    running,  \* PacketStore._running
    packets,  \* PacketStore._packets
    sendSeq,  \* SessionState.send_seq
    high,     \* SessionState.recv_high_water, 0 for its -1
    history,  \* EventBus._history: packets of the overlay
    ingested, \* PacketStore._ingested_live
    made,     \* packets made so far
    live,     \* how many of them are of the overlay
    epoch     \* resets so far

batchVars == <<pc, left, seqOf, verdict, current, born>>
ctlVars   == <<thread, stop, request>>
sessVars  == <<sendSeq, high>>
busVars   == <<history, live>>
simVars   == <<batchVars, ctlVars, running, packets, sessVars, busVars,
               ingested, made, epoch>>

Batch == 1 .. MaxBatches

Working == {"check", "work", "judge", "insert", "tell", "pause"}

\* A packet of the store.  Its nr tells it from all others; its id, packet_id,
\* does so for the packets of the simulation only.
Record == [id : Nat, nr : Nat, epoch : Nat,
           verdict : {"accepted", "replay", "refused", "live"}]

\* The packet_id of the packets of the overlay: the second and the sequence
\* number, which is 0 for a denial.  They are all of one second here.
LiveId == 0

Alive(b) == pc[b] \notin {"none", "dead"}

\* Mutant: nobody joins the batch.
JoinSkipped == TRUE

\* Thread.join(timeout=2) returns: the batch has ended, or is in a pause that
\* outlasts the two seconds.
JoinEnds ==
    thread # 0 /\ Alive(thread) => LongPause /\ pc[thread] = "pause"

SimInit ==
    /\ pc = [b \in Batch |-> "none"]
    /\ left = [b \in Batch |-> 0]
    /\ seqOf = [b \in Batch |-> 0]
    /\ verdict = [b \in Batch |-> "refused"]
    /\ current = [b \in Batch |-> [id |-> 0, nr |-> 0, epoch |-> 0,
                                  verdict |-> "refused"]]
    /\ born = [b \in Batch |-> 0]
    /\ thread = 0 /\ stop = FALSE /\ request = "idle"
    /\ running = FALSE
    /\ packets = {}
    /\ sendSeq = 0 /\ high = 0
    /\ history = {} /\ ingested = {}
    /\ made = 0 /\ live = 0 /\ epoch = 0

-------------------------------------------------------------------------------
(* The web handlers, on the event loop.                                    *)

\* start_async finds a batch alive: it stops it and waits for its end.
StartRequest ==
    /\ request = "idle"
    /\ thread # 0 /\ Alive(thread) /\ thread < MaxBatches
    /\ stop' = TRUE /\ running' = FALSE
    /\ request' = "start"
    /\ UNCHANGED <<batchVars, thread, packets, sessVars, busVars, ingested,
                   made, epoch>>

\* Mutant: a new batch may start while the one before is pausing.
LaunchEarly ==
    /\ thread < MaxBatches
    /\ \/ request = "start" /\ (JoinEnds \/ pc[thread] = "pause")
       \/ request = "idle" /\ (thread # 0 => ~Alive(thread))
    /\ stop' = FALSE /\ request' = "idle"
    /\ thread' = thread + 1
    /\ pc' = [pc EXCEPT ![thread + 1] = "fresh"]
    /\ left' = [left EXCEPT ![thread + 1] = Count]
    /\ born' = [born EXCEPT ![thread + 1] = epoch]
    /\ UNCHANGED <<seqOf, verdict, current, running, packets, sessVars, busVars,
                   ingested, made, epoch>>

\* The rest of start_async: a new thread, with the stop event cleared.
Launch ==
    /\ thread < MaxBatches
    /\ JoinEnds
    /\ \/ request = "start"
       \/ request = "idle" /\ (thread # 0 => ~Alive(thread))
    /\ stop' = FALSE /\ request' = "idle"
    /\ thread' = thread + 1
    /\ pc' = [pc EXCEPT ![thread + 1] = "fresh"]
    /\ left' = [left EXCEPT ![thread + 1] = Count]
    /\ born' = [born EXCEPT ![thread + 1] = epoch]
    /\ UNCHANGED <<seqOf, verdict, current, running, packets, sessVars, busVars,
                   ingested, made, epoch>>

StopRequest ==
    /\ request = "idle"
    /\ stop' = TRUE /\ running' = FALSE
    /\ UNCHANGED <<batchVars, thread, request, packets, sessVars, busVars,
                   ingested, made, epoch>>

ResetRequest ==
    /\ request = "idle" /\ epoch < MaxResets
    /\ stop' = TRUE
    /\ request' = "reset"
    /\ UNCHANGED <<batchVars, thread, running, packets, sessVars, busVars,
                   ingested, made, epoch>>

\* Mutant: the history of the event bus stays.
ResetKeepsHistory ==
    /\ request = "reset"
    /\ JoinEnds
    /\ stop' = FALSE /\ request' = "idle" /\ running' = FALSE
    /\ packets' = {} /\ ingested' = {}
    /\ sendSeq' = 0 /\ high' = 0
    /\ epoch' = epoch + 1
    /\ UNCHANGED <<batchVars, thread, made, busVars>>

\* Mutant: the sending side of the sessions starts anew, the mark stays.
ResetKeepsMark ==
    /\ request = "reset"
    /\ JoinEnds
    /\ stop' = FALSE /\ request' = "idle" /\ running' = FALSE
    /\ packets' = {} /\ ingested' = {} /\ history' = {}
    /\ sendSeq' = 0
    /\ epoch' = epoch + 1
    /\ UNCHANGED <<batchVars, thread, made, live, high>>

\* The rest of the reset: the stop event is replaced by a new one, then the
\* store and the history of the event bus are cleared.
ResetDone ==
    /\ request = "reset"
    /\ JoinEnds
    /\ stop' = FALSE /\ request' = "idle" /\ running' = FALSE
    /\ packets' = {} /\ ingested' = {} /\ history' = {}
    /\ sendSeq' = 0 /\ high' = 0
    /\ epoch' = epoch + 1
    /\ UNCHANGED <<batchVars, thread, made, live>>

\* The hub announces a packet of the overlay: EventBus.publish, as a task of
\* the event loop.
Publish ==
    /\ request = "idle" /\ live < MaxLive
    /\ live' = live + 1
    /\ made' = made + 1
    /\ history' = history \cup {[id |-> LiveId, nr |-> made + 1,
                                 epoch |-> epoch, verdict |-> "live"]}
    /\ UNCHANGED <<batchVars, ctlVars, running, packets, sessVars, ingested,
                   epoch>>

\* What a handler does before it reads the store: it records the packets of
\* the history that it has not met yet.
Sync ==
    /\ request = "idle"
    /\ packets' = packets \cup (history \ ingested)
    /\ ingested' = ingested \cup history
    /\ UNCHANGED <<batchVars, ctlVars, running, sessVars, busVars, made, epoch>>

-------------------------------------------------------------------------------
(* The thread of a batch.                                                  *)

Begin(b) ==
    /\ pc[b] = "fresh"
    /\ running' = TRUE
    /\ pc' = [pc EXCEPT ![b] = "check"]
    /\ UNCHANGED <<left, seqOf, verdict, current, born, ctlVars, packets, sessVars,
                   busVars, ingested, made, epoch>>

\* Mutant: the loop ends on the stop event only.
CheckStop(b) ==
    /\ pc[b] = "check"
    /\ IF stop
       THEN pc' = [pc EXCEPT ![b] = "finish"] /\ UNCHANGED left
       ELSE pc' = [pc EXCEPT ![b] = "work"] /\ left' = [left EXCEPT ![b] = @ - 1]
    /\ UNCHANGED <<seqOf, verdict, current, born, ctlVars, running, packets,
                   sessVars, busVars, ingested, made, epoch>>

\* The head of the loop.
Check(b) ==
    /\ pc[b] = "check"
    /\ IF stop \/ left[b] = 0
       THEN pc' = [pc EXCEPT ![b] = "finish"] /\ UNCHANGED left
       ELSE pc' = [pc EXCEPT ![b] = "work"] /\ left' = [left EXCEPT ![b] = @ - 1]
    /\ UNCHANGED <<seqOf, verdict, current, born, ctlVars, running, packets, sessVars,
                   busVars, ingested, made, epoch>>

\* A packet of the unauthorized device, or one of an earlier packet that is
\* injected again: it is dropped unseen.
Refuse(b) ==
    /\ pc[b] = "work"
    /\ verdict' = [verdict EXCEPT ![b] = "refused"]
    /\ pc' = [pc EXCEPT ![b] = "insert"]
    /\ UNCHANGED <<left, seqOf, current, born, ctlVars, running, packets,
                   sessVars, busVars, ingested, made, epoch>>

\* Any other packet takes the next number of the session ...
Encrypt(b) ==
    /\ pc[b] = "work"
    /\ sendSeq' = sendSeq + 1
    /\ seqOf' = [seqOf EXCEPT ![b] = sendSeq + 1]
    /\ pc' = [pc EXCEPT ![b] = "judge"]
    /\ UNCHANGED <<left, verdict, current, born, ctlVars, running, packets, high,
                   busVars, ingested, made, epoch>>

\* ... and is decrypted like one that arrives at the hub.
Judge(b) ==
    /\ pc[b] = "judge"
    /\ IF seqOf[b] > high
       THEN /\ high' = seqOf[b]
            /\ verdict' = [verdict EXCEPT ![b] = "accepted"]
       ELSE /\ verdict' = [verdict EXCEPT ![b] = "replay"]
            /\ UNCHANGED high
    /\ pc' = [pc EXCEPT ![b] = "insert"]
    /\ UNCHANGED <<left, seqOf, current, born, ctlVars, running, packets,
                   sendSeq, busVars, ingested, made, epoch>>

\* The record of the packet a batch has made.
NewRecord(b) == [id |-> made + 1, nr |-> made + 1, epoch |-> born[b],
                 verdict |-> verdict[b]]

Insert(b) ==
    /\ pc[b] = "insert"
    /\ made' = made + 1
    /\ packets' = packets \cup {NewRecord(b)}
    /\ current' = [current EXCEPT ![b] = NewRecord(b)]
    /\ pc' = [pc EXCEPT ![b] = "tell"]
    /\ UNCHANGED <<left, seqOf, verdict, born, ctlVars, running, sessVars,
                   busVars, ingested, epoch>>

\* _broadcast, which follows without a lock that covers both.
Tell(b) ==
    /\ pc[b] = "tell"
    /\ pc' = [pc EXCEPT ![b] = "pause"]
    /\ UNCHANGED <<left, seqOf, verdict, current, born, ctlVars, running, packets,
                   sessVars, busVars, ingested, made, epoch>>

Wake(b) ==
    /\ pc[b] = "pause"
    /\ pc' = [pc EXCEPT ![b] = "check"]
    /\ UNCHANGED <<left, seqOf, verdict, current, born, ctlVars, running, packets,
                   sessVars, busVars, ingested, made, epoch>>

\* Mutant: only a batch that makes all its packets takes the flag down.
FinishWhole(b) ==
    /\ pc[b] = "finish"
    /\ IF left[b] = 0 THEN running' = FALSE ELSE UNCHANGED running
    /\ pc' = [pc EXCEPT ![b] = "exit"]
    /\ UNCHANGED <<left, seqOf, verdict, current, born, ctlVars, packets, sessVars,
                   busVars, ingested, made, epoch>>

Finish(b) ==
    /\ pc[b] = "finish"
    /\ running' = FALSE
    /\ pc' = [pc EXCEPT ![b] = "exit"]
    /\ UNCHANGED <<left, seqOf, verdict, current, born, ctlVars, packets, sessVars,
                   busVars, ingested, made, epoch>>

Exit(b) ==
    /\ pc[b] = "exit"
    /\ pc' = [pc EXCEPT ![b] = "dead"]
    /\ UNCHANGED <<left, seqOf, verdict, current, born, ctlVars, running, packets,
                   sessVars, busVars, ingested, made, epoch>>

\* The steps of a batch that nobody but the store sees.
BatchStep(b) ==
    \/ Begin(b) \/ Check(b) \/ Refuse(b) \/ Encrypt(b) \/ Judge(b)
    \/ Insert(b) \/ Wake(b) \/ Finish(b) \/ Exit(b)

Control == StartRequest \/ Launch \/ StopRequest \/ ResetRequest

SimNext ==
    \/ Control \/ ResetDone \/ Publish \/ Sync
    \/ \E b \in Batch : BatchStep(b) \/ Tell(b)

SimSpec == SimInit /\ [][SimNext]_simVars

-------------------------------------------------------------------------------
SimTypeOK ==
    /\ pc \in [Batch -> Working \cup {"none", "fresh", "finish", "exit", "dead"}]
    /\ left \in [Batch -> 0 .. Count]
    /\ seqOf \in [Batch -> Nat]
    /\ verdict \in [Batch -> {"accepted", "replay", "refused"}]
    /\ current \in [Batch -> Record]
    /\ born \in [Batch -> Nat]
    /\ thread \in 0 .. MaxBatches
    /\ stop \in BOOLEAN /\ running \in BOOLEAN
    /\ request \in {"idle", "start", "reset"}
    /\ packets \subseteq Record /\ history \subseteq Record
    /\ ingested \subseteq Record
    /\ sendSeq \in Nat /\ high \in Nat
    /\ made \in Nat /\ live \in 0 .. MaxLive /\ epoch \in 0 .. MaxResets

\* Two batches never run at once: start_async waits for the end of the one
\* before, and so does a reset.
OneBatch == \A b, c \in Batch : Alive(b) /\ Alive(c) => b = c

\* What the dashboard shows as running is so: the flag is set only while a
\* batch lives, and a batch that works and was not told to stop has it set.
\* Batches, stop, start and reset all write it, none under the lock.
RunningShown ==
    /\ running => \E b \in Batch : Alive(b)
    /\ \A b \in Batch : pc[b] \in Working /\ ~stop => running

\* A reset leaves nothing behind: every packet of the store was made by a
\* batch started after the last reset, or came over the overlay after it.
ResetIsClean == \A r \in packets : r.epoch = epoch

\* No packet of the simulation is taken for a replay of its own session: the
\* number is taken and compared with the mark in two steps, and a reset starts
\* both anew.
NoFalseReplay == \A r \in packets : r.verdict # "replay"

-------------------------------------------------------------------------------
Plain(r) == [id |-> r.id, nr |-> r.nr]

\* The log that the threads and handlers keep together.
Log == INSTANCE PacketLog WITH
           active <- {b \in Batch : Alive(b)},
           log    <- {Plain(r) : r \in packets},
           untold <- {Plain(current[b]) : b \in {c \in Batch : pc[c] = "tell"}},
           fresh  <- {Plain(r) : r \in history \ ingested}

\* Threads, handlers and the store they share without a common lock implement
\* the log: one batch at a time, and a reset only between batches.
LogSpec == Log!LogSpec
===============================================================================
