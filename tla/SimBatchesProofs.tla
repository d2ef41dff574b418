---------------------------- MODULE SimBatchesProofs ---------------------------
(***************************************************************************)
(* Proofs about SimBatches for every number of batches, packets, resets    *)
(* and packets of the overlay, when no batch pauses longer than a join     *)
(* waits: the web handlers and the batch threads, which share the store    *)
(* without a common lock, are kept apart by the joins alone.               *)
(***************************************************************************)
EXTENDS SimBatches, TLAPS

USE SimAssumption

\* Only the batch that was started last may be alive.
LastAlone == \A b \in Batch : Alive(b) => b = thread

\* The running flag follows that batch: up from its first step to its last,
\* unless a handler that stops it has taken it down.
FlagFollows ==
    \A b \in Batch :
        /\ pc[b] \in {"fresh", "exit"} => ~running
        /\ pc[b] \in Working /\ ~stop => running

FlagNeedsBatch == running => \E b \in Batch : pc[b] \in Working \cup {"finish"}

\* A live batch was started after the last reset, and so was all that is kept.
KeptIsNew ==
    /\ \A b \in Batch : Alive(b) => born[b] = epoch
    /\ \A r \in packets \cup history : r.epoch = epoch

\* The mark is behind the numbers handed out; a packet that waits to be judged
\* has the last of them.
MarkBehind ==
    /\ high <= sendSeq
    /\ \A b \in Batch : pc[b] = "judge" => seqOf[b] = sendSeq /\ high < seqOf[b]

NoneReplayed ==
    /\ \A b \in Batch : verdict[b] # "replay"
    /\ \A r \in packets \cup history : r.verdict # "replay"

\* Packets that come are told from all before by their number.
NumbersGrow == \A r \in history \cup ingested : r.nr <= made

\* The bound on resets holds while one is under way.
ResetCounted == request = "reset" => epoch < MaxResets

SimInv ==
    /\ SimTypeOK /\ LastAlone /\ FlagFollows /\ FlagNeedsBatch
    /\ KeptIsNew /\ MarkBehind /\ NoneReplayed /\ NumbersGrow
    /\ ResetCounted

-------------------------------------------------------------------------------
\* A join that returns has seen the end of the batch.
LEMMA JoinMeansEnd ==
    ASSUME ~LongPause, SimTypeOK, LastAlone, JoinEnds
    PROVE  \A b \in Batch : ~Alive(b)
  BY DEF SimTypeOK, LastAlone, JoinEnds, Batch

\* A record is typed when its parts are.
LEMMA NewRecordType ==
    ASSUME SimTypeOK, NEW b \in Batch
    PROVE  NewRecord(b) \in Record /\ made + 1 \in Nat
  BY DEF SimTypeOK, NewRecord, Record

\* The variables keep their types.
LEMMA TypeKept ==
    ASSUME ~LongPause, SimInv, [SimNext]_simVars
    PROVE  SimTypeOK'
<1> USE DEF SimInv, SimTypeOK, Working, ResetCounted, batchVars, ctlVars,
        sessVars, busVars, simVars
<1>1. CASE StartRequest
  BY <1>1 DEF StartRequest
<1>2. CASE Launch
  <2>1. thread + 1 \in Batch /\ thread + 1 \in 0 .. MaxBatches
    BY <1>2 DEF Launch, Batch
  <2>2. Count \in 0 .. Count /\ epoch \in Nat
    OBVIOUS
  <2> QED
    BY <1>2, <2>1, <2>2 DEF Launch
<1>3. CASE StopRequest
  BY <1>3 DEF StopRequest
<1>4. CASE ResetRequest
  BY <1>4 DEF ResetRequest
<1>5. CASE ResetDone
  <2>1. epoch + 1 \in 0 .. MaxResets
    BY <1>5 DEF ResetDone
  <2> QED
    BY <1>5, <2>1 DEF ResetDone
<1>6. CASE Publish
  BY <1>6 DEF Publish, Record, LiveId
<1>7. CASE Sync
  BY <1>7 DEF Sync
<1>8. ASSUME NEW b \in Batch, Begin(b) PROVE SimTypeOK'
  BY <1>8 DEF Begin
<1>9. ASSUME NEW b \in Batch, Check(b) PROVE SimTypeOK'
  BY <1>9 DEF Check
<1>10. ASSUME NEW b \in Batch, Refuse(b) PROVE SimTypeOK'
  BY <1>10 DEF Refuse
<1>11. ASSUME NEW b \in Batch, Encrypt(b) PROVE SimTypeOK'
  BY <1>11 DEF Encrypt
<1>12. ASSUME NEW b \in Batch, Judge(b) PROVE SimTypeOK'
  BY <1>12 DEF Judge
<1>13. ASSUME NEW b \in Batch, Insert(b) PROVE SimTypeOK'
  BY <1>13, NewRecordType DEF Insert
<1>14. ASSUME NEW b \in Batch, Tell(b) PROVE SimTypeOK'
  BY <1>14 DEF Tell
<1>15. ASSUME NEW b \in Batch, Wake(b) PROVE SimTypeOK'
  BY <1>15 DEF Wake
<1>16. ASSUME NEW b \in Batch, Finish(b) PROVE SimTypeOK'
  BY <1>16 DEF Finish
<1>17. ASSUME NEW b \in Batch, Exit(b) PROVE SimTypeOK'
  BY <1>17 DEF Exit
<1>18. CASE UNCHANGED simVars
  BY <1>18
<1> QED BY <1>1, <1>2, <1>3, <1>4, <1>5, <1>6, <1>7, <1>8, <1>9, <1>10, <1>11,
           <1>12, <1>13, <1>14, <1>15, <1>16, <1>17, <1>18 DEF SimNext,
           BatchStep, Control

\* A batch is launched only when the join has seen the end of the one before.
LEMMA LastAloneKept ==
    ASSUME ~LongPause, SimInv, [SimNext]_simVars
    PROVE  LastAlone'
<1> USE DEF SimInv, SimTypeOK, LastAlone, Alive, Working, batchVars, ctlVars,
        sessVars, busVars, simVars
<1>1. CASE StartRequest
  BY <1>1 DEF StartRequest
<1>2. CASE Launch
  BY <1>2, JoinMeansEnd DEF Launch, Batch, JoinEnds
<1>3. CASE StopRequest
  BY <1>3 DEF StopRequest
<1>4. CASE ResetRequest
  BY <1>4 DEF ResetRequest
<1>5. CASE ResetDone
  BY <1>5 DEF ResetDone
<1>6. CASE Publish
  BY <1>6 DEF Publish
<1>7. CASE Sync
  BY <1>7 DEF Sync
<1>8. ASSUME NEW b \in Batch, Begin(b) PROVE LastAlone'
  BY <1>8 DEF Begin
<1>9. ASSUME NEW b \in Batch, Check(b) PROVE LastAlone'
  BY <1>9 DEF Check
<1>10. ASSUME NEW b \in Batch, Refuse(b) PROVE LastAlone'
  BY <1>10 DEF Refuse
<1>11. ASSUME NEW b \in Batch, Encrypt(b) PROVE LastAlone'
  BY <1>11 DEF Encrypt
<1>12. ASSUME NEW b \in Batch, Judge(b) PROVE LastAlone'
  BY <1>12 DEF Judge
<1>13. ASSUME NEW b \in Batch, Insert(b) PROVE LastAlone'
  BY <1>13 DEF Insert
<1>14. ASSUME NEW b \in Batch, Tell(b) PROVE LastAlone'
  BY <1>14 DEF Tell
<1>15. ASSUME NEW b \in Batch, Wake(b) PROVE LastAlone'
  BY <1>15 DEF Wake
<1>16. ASSUME NEW b \in Batch, Finish(b) PROVE LastAlone'
  BY <1>16 DEF Finish
<1>17. ASSUME NEW b \in Batch, Exit(b) PROVE LastAlone'
  BY <1>17 DEF Exit
<1>18. CASE UNCHANGED simVars
  BY <1>18
<1> QED BY <1>1, <1>2, <1>3, <1>4, <1>5, <1>6, <1>7, <1>8, <1>9, <1>10, <1>11,
           <1>12, <1>13, <1>14, <1>15, <1>16, <1>17, <1>18 DEF SimNext,
           BatchStep, Control

\* Every handler that takes the flag down has set the stop event before, and a
\* batch that begins puts it up.
LEMMA FlagFollowsKept ==
    ASSUME ~LongPause, SimInv, [SimNext]_simVars
    PROVE  FlagFollows'
<1> USE DEF SimInv, SimTypeOK, FlagFollows, FlagNeedsBatch, LastAlone, Alive,
        Working, batchVars, ctlVars, sessVars, busVars, simVars
<1>1. CASE StartRequest
  BY <1>1 DEF StartRequest
<1>2. CASE Launch
  BY <1>2, JoinMeansEnd DEF Launch, Batch, JoinEnds
<1>3. CASE StopRequest
  BY <1>3 DEF StopRequest
<1>4. CASE ResetRequest
  BY <1>4 DEF ResetRequest
<1>5. CASE ResetDone
  BY <1>5, JoinMeansEnd DEF ResetDone
<1>6. CASE Publish
  BY <1>6 DEF Publish
<1>7. CASE Sync
  BY <1>7 DEF Sync
<1>8. ASSUME NEW b \in Batch, Begin(b) PROVE FlagFollows'
  BY <1>8 DEF Begin
<1>9. ASSUME NEW b \in Batch, Check(b) PROVE FlagFollows'
  BY <1>9 DEF Check
<1>10. ASSUME NEW b \in Batch, Refuse(b) PROVE FlagFollows'
  BY <1>10 DEF Refuse
<1>11. ASSUME NEW b \in Batch, Encrypt(b) PROVE FlagFollows'
  BY <1>11 DEF Encrypt
<1>12. ASSUME NEW b \in Batch, Judge(b) PROVE FlagFollows'
  BY <1>12 DEF Judge
<1>13. ASSUME NEW b \in Batch, Insert(b) PROVE FlagFollows'
  BY <1>13 DEF Insert
<1>14. ASSUME NEW b \in Batch, Tell(b) PROVE FlagFollows'
  BY <1>14 DEF Tell
<1>15. ASSUME NEW b \in Batch, Wake(b) PROVE FlagFollows'
  BY <1>15 DEF Wake
<1>16. ASSUME NEW b \in Batch, Finish(b) PROVE FlagFollows'
  BY <1>16 DEF Finish
<1>17. ASSUME NEW b \in Batch, Exit(b) PROVE FlagFollows'
  BY <1>17 DEF Exit
<1>18. CASE UNCHANGED simVars
  BY <1>18
<1> QED BY <1>1, <1>2, <1>3, <1>4, <1>5, <1>6, <1>7, <1>8, <1>9, <1>10, <1>11,
           <1>12, <1>13, <1>14, <1>15, <1>16, <1>17, <1>18 DEF SimNext,
           BatchStep, Control

\* The flag goes up in the first step of a batch and down in its last but one.
LEMMA FlagNeedsBatchKept ==
    ASSUME ~LongPause, SimInv, [SimNext]_simVars
    PROVE  FlagNeedsBatch'
<1> USE DEF SimInv, SimTypeOK, FlagNeedsBatch, LastAlone, Alive, Working,
        batchVars, ctlVars, sessVars, busVars, simVars
<1>1. CASE StartRequest
  BY <1>1 DEF StartRequest
<1>2. CASE Launch
  BY <1>2, JoinMeansEnd DEF Launch, Batch, JoinEnds
<1>3. CASE StopRequest
  BY <1>3 DEF StopRequest
<1>4. CASE ResetRequest
  BY <1>4 DEF ResetRequest
<1>5. CASE ResetDone
  BY <1>5 DEF ResetDone
<1>6. CASE Publish
  BY <1>6 DEF Publish
<1>7. CASE Sync
  BY <1>7 DEF Sync
<1>8. ASSUME NEW b \in Batch, Begin(b) PROVE FlagNeedsBatch'
  BY <1>8 DEF Begin
<1>9. ASSUME NEW b \in Batch, Check(b) PROVE FlagNeedsBatch'
  BY <1>9 DEF Check
<1>10. ASSUME NEW b \in Batch, Refuse(b) PROVE FlagNeedsBatch'
  BY <1>10 DEF Refuse
<1>11. ASSUME NEW b \in Batch, Encrypt(b) PROVE FlagNeedsBatch'
  BY <1>11 DEF Encrypt
<1>12. ASSUME NEW b \in Batch, Judge(b) PROVE FlagNeedsBatch'
  BY <1>12 DEF Judge
<1>13. ASSUME NEW b \in Batch, Insert(b) PROVE FlagNeedsBatch'
  BY <1>13 DEF Insert
<1>14. ASSUME NEW b \in Batch, Tell(b) PROVE FlagNeedsBatch'
  BY <1>14 DEF Tell
<1>15. ASSUME NEW b \in Batch, Wake(b) PROVE FlagNeedsBatch'
  BY <1>15 DEF Wake
<1>16. ASSUME NEW b \in Batch, Finish(b) PROVE FlagNeedsBatch'
  BY <1>16 DEF Finish
<1>17. ASSUME NEW b \in Batch, Exit(b) PROVE FlagNeedsBatch'
  BY <1>17 DEF Exit
<1>18. CASE UNCHANGED simVars
  BY <1>18
<1> QED BY <1>1, <1>2, <1>3, <1>4, <1>5, <1>6, <1>7, <1>8, <1>9, <1>10, <1>11,
           <1>12, <1>13, <1>14, <1>15, <1>16, <1>17, <1>18 DEF SimNext,
           BatchStep, Control

\* A reset happens between batches, so that no batch brings a packet of an
\* earlier one into the store.
LEMMA KeptIsNewKept ==
    ASSUME ~LongPause, SimInv, [SimNext]_simVars
    PROVE  KeptIsNew'
<1> USE DEF SimInv, SimTypeOK, KeptIsNew, LastAlone, Alive, Working, batchVars,
        ctlVars, sessVars, busVars, simVars
<1>1. CASE StartRequest
  BY <1>1 DEF StartRequest
<1>2. CASE Launch
  BY <1>2 DEF Launch, Batch
<1>3. CASE StopRequest
  BY <1>3 DEF StopRequest
<1>4. CASE ResetRequest
  BY <1>4 DEF ResetRequest
<1>5. CASE ResetDone
  BY <1>5, JoinMeansEnd DEF ResetDone
<1>6. CASE Publish
  BY <1>6 DEF Publish
<1>7. CASE Sync
  BY <1>7 DEF Sync
<1>8. ASSUME NEW b \in Batch, Begin(b) PROVE KeptIsNew'
  BY <1>8 DEF Begin
<1>9. ASSUME NEW b \in Batch, Check(b) PROVE KeptIsNew'
  BY <1>9 DEF Check
<1>10. ASSUME NEW b \in Batch, Refuse(b) PROVE KeptIsNew'
  BY <1>10 DEF Refuse
<1>11. ASSUME NEW b \in Batch, Encrypt(b) PROVE KeptIsNew'
  BY <1>11 DEF Encrypt
<1>12. ASSUME NEW b \in Batch, Judge(b) PROVE KeptIsNew'
  BY <1>12 DEF Judge
<1>13. ASSUME NEW b \in Batch, Insert(b) PROVE KeptIsNew'
  BY <1>13 DEF Insert, NewRecord
<1>14. ASSUME NEW b \in Batch, Tell(b) PROVE KeptIsNew'
  BY <1>14 DEF Tell
<1>15. ASSUME NEW b \in Batch, Wake(b) PROVE KeptIsNew'
  BY <1>15 DEF Wake
<1>16. ASSUME NEW b \in Batch, Finish(b) PROVE KeptIsNew'
  BY <1>16 DEF Finish
<1>17. ASSUME NEW b \in Batch, Exit(b) PROVE KeptIsNew'
  BY <1>17 DEF Exit
<1>18. CASE UNCHANGED simVars
  BY <1>18
<1> QED BY <1>1, <1>2, <1>3, <1>4, <1>5, <1>6, <1>7, <1>8, <1>9, <1>10, <1>11,
           <1>12, <1>13, <1>14, <1>15, <1>16, <1>17, <1>18 DEF SimNext,
           BatchStep, Control

\* Number and mark are taken in two steps of one thread, which no other batch
\* and no reset comes between.
LEMMA MarkBehindKept ==
    ASSUME ~LongPause, SimInv, [SimNext]_simVars
    PROVE  MarkBehind'
<1> USE DEF SimInv, SimTypeOK, MarkBehind, LastAlone, Alive, Working,
        batchVars, ctlVars, sessVars, busVars, simVars
<1>1. CASE StartRequest
  BY <1>1 DEF StartRequest
<1>2. CASE Launch
  BY <1>2 DEF Launch, Batch
<1>3. CASE StopRequest
  BY <1>3 DEF StopRequest
<1>4. CASE ResetRequest
  BY <1>4 DEF ResetRequest
<1>5. CASE ResetDone
  BY <1>5, JoinMeansEnd DEF ResetDone
<1>6. CASE Publish
  BY <1>6 DEF Publish
<1>7. CASE Sync
  BY <1>7 DEF Sync
<1>8. ASSUME NEW b \in Batch, Begin(b) PROVE MarkBehind'
  BY <1>8 DEF Begin
<1>9. ASSUME NEW b \in Batch, Check(b) PROVE MarkBehind'
  BY <1>9 DEF Check
<1>10. ASSUME NEW b \in Batch, Refuse(b) PROVE MarkBehind'
  BY <1>10 DEF Refuse
<1>11. ASSUME NEW b \in Batch, Encrypt(b) PROVE MarkBehind'
  BY <1>11 DEF Encrypt
<1>12. ASSUME NEW b \in Batch, Judge(b) PROVE MarkBehind'
  BY <1>12 DEF Judge
<1>13. ASSUME NEW b \in Batch, Insert(b) PROVE MarkBehind'
  BY <1>13 DEF Insert
<1>14. ASSUME NEW b \in Batch, Tell(b) PROVE MarkBehind'
  BY <1>14 DEF Tell
<1>15. ASSUME NEW b \in Batch, Wake(b) PROVE MarkBehind'
  BY <1>15 DEF Wake
<1>16. ASSUME NEW b \in Batch, Finish(b) PROVE MarkBehind'
  BY <1>16 DEF Finish
<1>17. ASSUME NEW b \in Batch, Exit(b) PROVE MarkBehind'
  BY <1>17 DEF Exit
<1>18. CASE UNCHANGED simVars
  BY <1>18
<1> QED BY <1>1, <1>2, <1>3, <1>4, <1>5, <1>6, <1>7, <1>8, <1>9, <1>10, <1>11,
           <1>12, <1>13, <1>14, <1>15, <1>16, <1>17, <1>18 DEF SimNext,
           BatchStep, Control

\* A number that is judged is beyond the mark.
LEMMA NoneReplayedKept ==
    ASSUME ~LongPause, SimInv, [SimNext]_simVars
    PROVE  NoneReplayed'
<1> USE DEF SimInv, SimTypeOK, NoneReplayed, MarkBehind, batchVars, ctlVars,
        sessVars, busVars, simVars
<1>1. CASE StartRequest
  BY <1>1 DEF StartRequest
<1>2. CASE Launch
  BY <1>2 DEF Launch
<1>3. CASE StopRequest
  BY <1>3 DEF StopRequest
<1>4. CASE ResetRequest
  BY <1>4 DEF ResetRequest
<1>5. CASE ResetDone
  BY <1>5 DEF ResetDone
<1>6. CASE Publish
  BY <1>6 DEF Publish
<1>7. CASE Sync
  BY <1>7 DEF Sync
<1>8. ASSUME NEW b \in Batch, Begin(b) PROVE NoneReplayed'
  BY <1>8 DEF Begin
<1>9. ASSUME NEW b \in Batch, Check(b) PROVE NoneReplayed'
  BY <1>9 DEF Check
<1>10. ASSUME NEW b \in Batch, Refuse(b) PROVE NoneReplayed'
  BY <1>10 DEF Refuse
<1>11. ASSUME NEW b \in Batch, Encrypt(b) PROVE NoneReplayed'
  BY <1>11 DEF Encrypt
<1>12. ASSUME NEW b \in Batch, Judge(b) PROVE NoneReplayed'
  BY <1>12 DEF Judge
<1>13. ASSUME NEW b \in Batch, Insert(b) PROVE NoneReplayed'
  BY <1>13 DEF Insert, NewRecord
<1>14. ASSUME NEW b \in Batch, Tell(b) PROVE NoneReplayed'
  BY <1>14 DEF Tell
<1>15. ASSUME NEW b \in Batch, Wake(b) PROVE NoneReplayed'
  BY <1>15 DEF Wake
<1>16. ASSUME NEW b \in Batch, Finish(b) PROVE NoneReplayed'
  BY <1>16 DEF Finish
<1>17. ASSUME NEW b \in Batch, Exit(b) PROVE NoneReplayed'
  BY <1>17 DEF Exit
<1>18. CASE UNCHANGED simVars
  BY <1>18
<1> QED BY <1>1, <1>2, <1>3, <1>4, <1>5, <1>6, <1>7, <1>8, <1>9, <1>10, <1>11,
           <1>12, <1>13, <1>14, <1>15, <1>16, <1>17, <1>18 DEF SimNext,
           BatchStep, Control

\* The bus and the store have met only packets that were made.
LEMMA NumbersGrowKept ==
    ASSUME ~LongPause, SimInv, [SimNext]_simVars
    PROVE  NumbersGrow'
<1> USE DEF SimInv, SimTypeOK, NumbersGrow, Record, batchVars, ctlVars,
        sessVars, busVars, simVars
<1>1. CASE StartRequest
  BY <1>1 DEF StartRequest
<1>2. CASE Launch
  BY <1>2 DEF Launch
<1>3. CASE StopRequest
  BY <1>3 DEF StopRequest
<1>4. CASE ResetRequest
  BY <1>4 DEF ResetRequest
<1>5. CASE ResetDone
  BY <1>5 DEF ResetDone
<1>6. CASE Publish
  BY <1>6 DEF Publish
<1>7. CASE Sync
  BY <1>7 DEF Sync
<1>8. ASSUME NEW b \in Batch, Begin(b) PROVE NumbersGrow'
  BY <1>8 DEF Begin
<1>9. ASSUME NEW b \in Batch, Check(b) PROVE NumbersGrow'
  BY <1>9 DEF Check
<1>10. ASSUME NEW b \in Batch, Refuse(b) PROVE NumbersGrow'
  BY <1>10 DEF Refuse
<1>11. ASSUME NEW b \in Batch, Encrypt(b) PROVE NumbersGrow'
  BY <1>11 DEF Encrypt
<1>12. ASSUME NEW b \in Batch, Judge(b) PROVE NumbersGrow'
  BY <1>12 DEF Judge
<1>13. ASSUME NEW b \in Batch, Insert(b) PROVE NumbersGrow'
  BY <1>13 DEF Insert
<1>14. ASSUME NEW b \in Batch, Tell(b) PROVE NumbersGrow'
  BY <1>14 DEF Tell
<1>15. ASSUME NEW b \in Batch, Wake(b) PROVE NumbersGrow'
  BY <1>15 DEF Wake
<1>16. ASSUME NEW b \in Batch, Finish(b) PROVE NumbersGrow'
  BY <1>16 DEF Finish
<1>17. ASSUME NEW b \in Batch, Exit(b) PROVE NumbersGrow'
  BY <1>17 DEF Exit
<1>18. CASE UNCHANGED simVars
  BY <1>18
<1> QED BY <1>1, <1>2, <1>3, <1>4, <1>5, <1>6, <1>7, <1>8, <1>9, <1>10, <1>11,
           <1>12, <1>13, <1>14, <1>15, <1>16, <1>17, <1>18 DEF SimNext,
           BatchStep, Control

\* A reset that is under way counts against the bound.
LEMMA ResetCountedKept ==
    ASSUME ~LongPause, SimInv, [SimNext]_simVars
    PROVE  ResetCounted'
<1> USE DEF SimInv, SimTypeOK, ResetCounted, batchVars, ctlVars, sessVars,
        busVars, simVars
<1>1. CASE StartRequest
  BY <1>1 DEF StartRequest
<1>2. CASE Launch
  BY <1>2 DEF Launch
<1>3. CASE StopRequest
  BY <1>3 DEF StopRequest
<1>4. CASE ResetRequest
  BY <1>4 DEF ResetRequest
<1>5. CASE ResetDone
  BY <1>5 DEF ResetDone
<1>6. CASE Publish
  BY <1>6 DEF Publish
<1>7. CASE Sync
  BY <1>7 DEF Sync
<1>8. ASSUME NEW b \in Batch, Begin(b) PROVE ResetCounted'
  BY <1>8 DEF Begin
<1>9. ASSUME NEW b \in Batch, Check(b) PROVE ResetCounted'
  BY <1>9 DEF Check
<1>10. ASSUME NEW b \in Batch, Refuse(b) PROVE ResetCounted'
  BY <1>10 DEF Refuse
<1>11. ASSUME NEW b \in Batch, Encrypt(b) PROVE ResetCounted'
  BY <1>11 DEF Encrypt
<1>12. ASSUME NEW b \in Batch, Judge(b) PROVE ResetCounted'
  BY <1>12 DEF Judge
<1>13. ASSUME NEW b \in Batch, Insert(b) PROVE ResetCounted'
  BY <1>13 DEF Insert
<1>14. ASSUME NEW b \in Batch, Tell(b) PROVE ResetCounted'
  BY <1>14 DEF Tell
<1>15. ASSUME NEW b \in Batch, Wake(b) PROVE ResetCounted'
  BY <1>15 DEF Wake
<1>16. ASSUME NEW b \in Batch, Finish(b) PROVE ResetCounted'
  BY <1>16 DEF Finish
<1>17. ASSUME NEW b \in Batch, Exit(b) PROVE ResetCounted'
  BY <1>17 DEF Exit
<1>18. CASE UNCHANGED simVars
  BY <1>18
<1> QED BY <1>1, <1>2, <1>3, <1>4, <1>5, <1>6, <1>7, <1>8, <1>9, <1>10, <1>11,
           <1>12, <1>13, <1>14, <1>15, <1>16, <1>17, <1>18 DEF SimNext,
           BatchStep, Control

-------------------------------------------------------------------------------
\* The inductive invariant.
THEOREM SimInvariant ==
    ASSUME ~LongPause
    PROVE  SimSpec => []SimInv
<1>1. SimInit => SimInv
  <2> SUFFICES ASSUME SimInit PROVE SimInv
    OBVIOUS
  <2>1. [id |-> 0, nr |-> 0, epoch |-> 0, verdict |-> "refused"] \in Record
    BY DEF Record
  <2>2. SimTypeOK
    <3>1. /\ current \in [Batch -> Record]
          /\ packets \subseteq Record /\ history \subseteq Record
          /\ ingested \subseteq Record
      BY <2>1 DEF SimInit
    <3>2. /\ pc \in [Batch -> {"none"}]
          /\ left \in [Batch -> 0 .. Count]
          /\ verdict \in [Batch -> {"refused"}]
      BY DEF SimInit
    <3>3. /\ seqOf \in [Batch -> Nat] /\ born \in [Batch -> Nat]
          /\ thread \in 0 .. MaxBatches /\ live \in 0 .. MaxLive
          /\ epoch \in 0 .. MaxResets
      BY DEF SimInit
    <3> QED
      BY <3>1, <3>2, <3>3 DEF SimInit, SimTypeOK
  <2>3. /\ LastAlone /\ FlagFollows /\ FlagNeedsBatch
        /\ KeptIsNew /\ MarkBehind /\ NoneReplayed /\ NumbersGrow
        /\ ResetCounted
    BY DEF SimInit, LastAlone, FlagFollows, FlagNeedsBatch, KeptIsNew,
       MarkBehind, NoneReplayed, NumbersGrow, ResetCounted, Alive, Working
  <2> QED
    BY <2>2, <2>3 DEF SimInv
<1>2. SimInv /\ [SimNext]_simVars => SimInv'
  <2> SUFFICES ASSUME SimInv, [SimNext]_simVars PROVE SimInv'
    OBVIOUS
  <2> QED
    BY TypeKept, LastAloneKept, FlagFollowsKept, FlagNeedsBatchKept,
       KeptIsNewKept, MarkBehindKept, NoneReplayedKept, NumbersGrowKept,
       ResetCountedKept DEF SimInv
<1> QED
  BY <1>1, <1>2, PTL DEF SimSpec

\* The variables keep their types.
THEOREM SimTypeCorrect ==
    ASSUME ~LongPause
    PROVE  SimSpec => []SimTypeOK
<1>1. SimInv => SimTypeOK
  BY DEF SimInv
<1> QED
  BY <1>1, SimInvariant, PTL

\* Two batches never run at once, however start, stop and reset interleave with
\* the steps of the batches.
THEOREM OneBatchCorrect ==
    ASSUME ~LongPause
    PROVE  SimSpec => []OneBatch
<1>1. SimInv => OneBatch
  BY DEF SimInv, LastAlone, OneBatch
<1> QED
  BY <1>1, SimInvariant, PTL

\* The running flag tells the truth.
THEOREM RunningCorrect ==
    ASSUME ~LongPause
    PROVE  SimSpec => []RunningShown
<1>1. SimInv => RunningShown
  BY DEF SimInv, FlagFollows, FlagNeedsBatch, RunningShown, Alive, Working
<1> QED
  BY <1>1, SimInvariant, PTL

\* A reset leaves no packet of before it, and none comes after it.
THEOREM ResetCorrect ==
    ASSUME ~LongPause
    PROVE  SimSpec => []ResetIsClean
<1>1. SimInv => ResetIsClean
  BY DEF SimInv, KeptIsNew, ResetIsClean
<1> QED
  BY <1>1, SimInvariant, PTL

\* The simulation never takes a packet of its own for a replay.
THEOREM ReplayCorrect ==
    ASSUME ~LongPause
    PROVE  SimSpec => []NoFalseReplay
<1>1. SimInv => NoFalseReplay
  BY DEF SimInv, NoneReplayed, NoFalseReplay
<1> QED
  BY <1>1, SimInvariant, PTL

-------------------------------------------------------------------------------
(* The refinement: what the log of PacketLog is in a state of SimBatches.  *)

LogActive == {b \in Batch : Alive(b)}
LogLog    == {Plain(r) : r \in packets}
LogUntold == {Plain(current[b]) : b \in {c \in Batch : pc[c] = "tell"}}
LogFresh  == {Plain(r) : r \in history \ ingested}

\* A step that leaves the four of them and the rest of the log alone.
LogStutters ==
    UNCHANGED <<LogActive, running, LogLog, LogUntold, LogFresh, made>>

LEMMA StutterMaps ==
    ASSUME LogStutters
    PROVE  UNCHANGED Log!logVars
  BY DEF LogStutters, LogActive, LogLog, LogUntold, LogFresh, Log!logVars

\* A step of the batch that changes only where it is leaves the log alone.
LEMMA QuietSteps ==
    ASSUME SimInv, NEW b \in Batch,
           Check(b) \/ Refuse(b) \/ Encrypt(b) \/ Judge(b) \/ Wake(b)
    PROVE  LogStutters
<1> USE DEF SimInv, SimTypeOK, batchVars, ctlVars, sessVars, busVars
<1>1. LogActive' = LogActive
  BY DEF LogActive, Alive, Check, Refuse, Encrypt, Judge, Wake, Working
<1>2. LogUntold' = LogUntold
  BY DEF LogUntold, Plain, Check, Refuse, Encrypt, Judge, Wake
<1>3. UNCHANGED <<running, packets, history, ingested, made>>
  BY DEF Check, Refuse, Encrypt, Judge, Wake
<1> QED
  BY <1>1, <1>2, <1>3 DEF LogStutters, LogLog, LogFresh

\* Without a live batch nothing is active and nothing is left to be told.
LEMMA NoneAlive ==
    ASSUME ~LongPause, SimInv, JoinEnds
    PROVE  LogActive = {} /\ LogUntold = {}
  BY JoinMeansEnd DEF SimInv, LogActive, LogUntold, Alive

\* A live batch is the only one that is active.
LEMMA OneActive ==
    ASSUME SimInv, NEW b \in Batch, Alive(b)
    PROVE  /\ LogActive = {b}
           /\ LogUntold = IF pc[b] = "tell" THEN {Plain(current[b])} ELSE {}
<1>1. \A c \in Batch : Alive(c) => c = b
  BY DEF SimInv, LastAlone
<1>2. \A c \in Batch : pc[c] = "tell" => c = b
  BY <1>1 DEF Alive
<1> QED
  BY <1>1, <1>2 DEF LogActive, LogUntold

LEMMA StepMaps ==
    ASSUME ~LongPause, SimInv, [SimNext]_simVars
    PROVE  [Log!LogNext]_(Log!logVars)
<1> USE DEF SimInv, SimTypeOK, batchVars, ctlVars, sessVars, busVars
<1>1. CASE StartRequest
  <2>1. /\ UNCHANGED <<LogActive, LogLog, LogUntold, LogFresh, made>>
        /\ running' = FALSE
    BY <1>1 DEF StartRequest, LogActive, Alive, LogLog, LogUntold, LogFresh
  <2>2. Log!Flag(FALSE)
    BY <2>1 DEF Log!Flag, LogActive, LogLog, LogUntold, LogFresh
  <2> QED
    BY <2>2 DEF Log!LogNext
<1>2. CASE Launch
  <2>1. thread + 1 \in Batch
    BY <1>2 DEF Launch, Batch
  <2>2. LogActive = {} /\ LogUntold = {}
    BY <1>2, NoneAlive DEF Launch
  <2>3. LogActive' = {thread + 1}
    BY <1>2, <2>1, <2>2 DEF Launch, LogActive, Alive
  <2>4. LogUntold' = {}
    BY <1>2, <2>1, <2>2 DEF Launch, LogUntold
  <2>5. UNCHANGED <<running, LogLog, LogFresh, made>>
    BY <1>2 DEF Launch, LogLog, LogFresh
  <2>6. Log!StartBatch(thread + 1)
    BY <2>2, <2>3, <2>4, <2>5
       DEF Log!StartBatch, LogActive, LogLog, LogUntold, LogFresh
  <2> QED
    BY <2>1, <2>6 DEF Log!LogNext
<1>3. CASE StopRequest
  <2>1. /\ UNCHANGED <<LogActive, LogLog, LogUntold, LogFresh, made>>
        /\ running' = FALSE
    BY <1>3 DEF StopRequest, LogActive, Alive, LogLog, LogUntold, LogFresh
  <2>2. Log!Flag(FALSE)
    BY <2>1 DEF Log!Flag, LogActive, LogLog, LogUntold, LogFresh
  <2> QED
    BY <2>2 DEF Log!LogNext
<1>4. CASE ResetRequest
  <2>1. LogStutters
    BY <1>4 DEF ResetRequest, LogStutters, LogActive, Alive, LogLog, LogUntold,
       LogFresh
  <2> QED
    BY <2>1, StutterMaps
<1>5. CASE ResetDone
  <2>1. LogActive = {} /\ LogUntold = {}
    BY <1>5, NoneAlive DEF ResetDone
  <2>2. LogActive' = LogActive /\ LogUntold' = LogUntold /\ made' = made
    BY <1>5 DEF ResetDone, LogActive, Alive, LogUntold
  <2>3. LogLog' = {} /\ LogFresh' = {} /\ running' = FALSE
    BY <1>5 DEF ResetDone, LogLog, LogFresh
  <2>4. Log!ResetLog
    BY <2>1, <2>2, <2>3
       DEF Log!ResetLog, LogActive, LogLog, LogUntold, LogFresh
  <2> QED
    BY <2>4 DEF Log!LogNext
<1>6. CASE Publish
  <2> DEFINE r == [id |-> LiveId, nr |-> made + 1, epoch |-> epoch,
                   verdict |-> "live"]
  <2>1. r \notin ingested
    BY DEF NumbersGrow, Record
  <2>2. Plain(r) = [id |-> 0, nr |-> made + 1]
    BY DEF Plain, LiveId
  <2>3. history' = history \cup {r} /\ ingested' = ingested
    BY <1>6 DEF Publish
  <2> HIDE DEF r
  <2>4. LogFresh' = LogFresh \cup {[id |-> 0, nr |-> made + 1]}
    BY <2>1, <2>2, <2>3 DEF LogFresh
  <2>5. /\ UNCHANGED <<LogActive, running, LogLog, LogUntold>>
        /\ made' = made + 1
    BY <1>6 DEF Publish, LogActive, Alive, LogLog, LogUntold
  <2>6. Log!Publish
    BY <2>4, <2>5
       DEF Log!Publish, Log!LiveId, LogActive, LogLog, LogUntold, LogFresh
  <2> QED
    BY <2>6 DEF Log!LogNext
<1>7. CASE Sync
  <2>1. LogLog' = LogLog \cup LogFresh /\ LogFresh' = {}
    BY <1>7 DEF Sync, LogLog, LogFresh
  <2>2. UNCHANGED <<LogActive, running, LogUntold, made>>
    BY <1>7 DEF Sync, LogActive, Alive, LogUntold
  <2>3. Log!Sync
    BY <2>1, <2>2 DEF Log!Sync, LogActive, LogLog, LogUntold, LogFresh
  <2> QED
    BY <2>3 DEF Log!LogNext
<1>8. ASSUME NEW b \in Batch, Begin(b) PROVE Log!LogNext
  <2>1. /\ UNCHANGED <<LogActive, LogLog, LogUntold, LogFresh, made>>
        /\ running' = TRUE /\ LogActive # {}
    BY <1>8 DEF Begin, LogActive, Alive, LogLog, LogUntold, LogFresh
  <2>2. Log!Flag(TRUE)
    BY <2>1 DEF Log!Flag, LogActive, LogLog, LogUntold, LogFresh
  <2> QED
    BY <2>2 DEF Log!LogNext
<1>9. ASSUME NEW b \in Batch,
             Check(b) \/ Refuse(b) \/ Encrypt(b) \/ Judge(b) \/ Wake(b)
      PROVE  UNCHANGED Log!logVars
  BY <1>9, QuietSteps, StutterMaps
<1>10. ASSUME NEW b \in Batch, Insert(b) PROVE Log!LogNext
  <2> DEFINE r == [id |-> made + 1, nr |-> made + 1]
  <2>1. Plain(NewRecord(b)) = r
    BY DEF Plain, NewRecord
  <2>2. LogActive' = LogActive /\ LogActive # {}
    BY <1>10 DEF Insert, LogActive, Alive
  <2>3. LogLog' = LogLog \cup {r}
    BY <1>10, <2>1 DEF Insert, LogLog
  <2>4. LogUntold = {}
    BY <1>10, OneActive DEF Insert, Alive
  <2>5. LogUntold' = {r}
    BY <1>10, <2>1, <2>4 DEF Insert, LogUntold
  <2>6. UNCHANGED <<running, LogFresh>> /\ made' = made + 1
    BY <1>10 DEF Insert, LogFresh
  <2>7. Log!Add
    BY <2>2, <2>3, <2>4, <2>5, <2>6
       DEF Log!Add, LogActive, LogLog, LogUntold, LogFresh
  <2> QED
    BY <2>7 DEF Log!LogNext
<1>11. ASSUME NEW b \in Batch, Tell(b) PROVE Log!LogNext
  <2> PICK r : r = Plain(current[b])
    OBVIOUS
  <2>1. LogUntold = {r}
    BY <1>11, OneActive DEF Tell, Alive
  <2>2. LogActive' = LogActive
    BY <1>11 DEF Tell, LogActive, Alive
  <2>3. LogUntold' = {}
    <3>1. \A c \in Batch : pc[c] = "tell" => c = b
      BY <1>11 DEF LastAlone, Alive, Tell
    <3> QED
      BY <1>11, <3>1 DEF Tell, LogUntold
  <2>4. UNCHANGED <<running, LogLog, LogFresh, made>>
    BY <1>11 DEF Tell, LogLog, LogFresh
  <2>5. Log!Announce(r)
    BY <2>1, <2>2, <2>3, <2>4
       DEF Log!Announce, LogActive, LogLog, LogUntold, LogFresh
  <2>6. r \in LogUntold
    BY <2>1
  <2> QED
    BY <2>5, <2>6 DEF Log!LogNext, LogUntold
<1>12. ASSUME NEW b \in Batch, Finish(b) PROVE Log!LogNext
  <2>1. /\ UNCHANGED <<LogActive, LogLog, LogUntold, LogFresh, made>>
        /\ running' = FALSE
    BY <1>12 DEF Finish, LogActive, Alive, LogLog, LogUntold, LogFresh
  <2>2. Log!Flag(FALSE)
    BY <2>1 DEF Log!Flag, LogActive, LogLog, LogUntold, LogFresh
  <2> QED
    BY <2>2 DEF Log!LogNext
<1>13. ASSUME NEW b \in Batch, Exit(b) PROVE Log!LogNext
  <2>1. LogActive = {b} /\ LogUntold = {} /\ ~running
    BY <1>13, OneActive DEF Exit, Alive, FlagFollows
  <2>2. LogActive' = {}
    BY <1>13, <2>1 DEF Exit, LogActive, Alive
  <2>3. UNCHANGED <<running, LogLog, LogUntold, LogFresh, made>>
    BY <1>13 DEF Exit, LogLog, LogUntold, LogFresh
  <2>4. Log!EndBatch
    BY <2>1, <2>2, <2>3
       DEF Log!EndBatch, LogActive, LogLog, LogUntold, LogFresh
  <2> QED
    BY <2>4 DEF Log!LogNext
<1>14. CASE UNCHANGED simVars
  <2>1. LogStutters
    BY <1>14 DEF simVars, LogStutters, LogActive, Alive, LogLog, LogUntold,
       LogFresh
  <2> QED
    BY <2>1, StutterMaps
<1> QED
  BY <1>1, <1>2, <1>3, <1>4, <1>5, <1>6, <1>7, <1>8, <1>9, <1>10, <1>11, <1>12,
     <1>13, <1>14 DEF SimNext, BatchStep, Control

\* Threads and handlers implement the packet log.
THEOREM ImplementsLog ==
    ASSUME ~LongPause
    PROVE  SimSpec => LogSpec
<1>1. SimInit => Log!LogInit
  BY DEF SimInit, Log!LogInit, Alive
<1>2. SimInv /\ [SimNext]_simVars => [Log!LogNext]_(Log!logVars)
  BY StepMaps
<1> QED
  BY <1>1, <1>2, SimInvariant, PTL DEF SimSpec, LogSpec, Log!LogSpec
===============================================================================
