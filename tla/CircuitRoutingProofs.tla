------------------------- MODULE CircuitRoutingProofs -------------------------
(***************************************************************************)
(* Proofs about CircuitRouting for every set of routers and paths, every   *)
(* number of attempts and any number of messages lost and routes failed.   *)
(***************************************************************************)
EXTENDS CircuitRouting, TLAPS

USE CircuitAssumption

\* A message or result belongs to a router of one of the attempts so far.
Known(m) == m.attempt \in 1 .. attempt /\ m.router \in Nodes(paths[m.attempt])

OfAttempts ==
    /\ \A m \in sent \cup filling \cup answers : Known(m)
    /\ \A i \in DOMAIN inbox : Known(inbox[i])
    /\ \A u \in unroutes :
          \/ u.by = Decided
          \/ u.by \in 1 .. attempt /\ u.router \in Nodes(paths[u.by])

Same(m, n) == m.router = n.router /\ m.attempt = n.attempt

\* The work of a router in an attempt is in one place at a time.
Once ==
    /\ \A m \in sent : /\ \A n \in filling \cup answers : ~Same(m, n)
                       /\ \A i \in DOMAIN inbox : ~Same(m, inbox[i])
    /\ \A f \in filling : /\ \A g \in filling : Same(f, g) => f = g
                          /\ \A s \in answers : ~Same(f, s)
                          /\ \A i \in DOMAIN inbox : ~Same(f, inbox[i])
    /\ \A s \in answers : /\ \A t \in answers : Same(s, t) => s = t
                          /\ \A i \in DOMAIN inbox : ~Same(s, inbox[i])
    /\ \A i, j \in DOMAIN inbox : Same(inbox[i], inbox[j]) => i = j

\* The attendance holds all routers of the path.
Attended == phase = "routing" => Nodes(path) \subseteq awaited \cup present

\* Before a selection there is an attempt left.
AttemptLeft == phase = "select" => attempt < LastAttempt

\* Until the creation is over its results find the route sender and nothing is
\* unrouted.
Quiet == phase \in {"select", "routing"} => listening /\ unroutes = {}

\* A router that is present, as all are when the circuit exists, has done its
\* work in the attempt.
PresentDone ==
    phase = "routing" =>
        \A r \in Nodes(path) \cap present : ~Outstanding(r, attempt)

CreatedDone ==
    phase = "created" => \A r \in Nodes(path) : ~Outstanding(r, attempt)

\* The router forwards as the path asks it to.
Routed(r) ==
    /\ current[r] # NoTable
    /\ Forwards(path, attempt, r) \subseteq tables[r][current[r]]

\* A success has been sent, queued or counted, or the circuit exists.
Succeeded(r) ==
    \/ \E s \in answers : s.router = r /\ s.ok
    \/ \E i \in DOMAIN inbox : inbox[i].router = r /\ inbox[i].ok
    \/ r \in present
    \/ phase = "created"

RoutedFirst ==
    phase \in {"routing", "created"} =>
        \A r \in Router : FirstTimer(r) /\ Succeeded(r) => Routed(r)

CircuitInv ==
    /\ TypeOK /\ AttemptLeft /\ OfAttempts /\ Once /\ Attended /\ Quiet
    /\ PresentDone /\ CreatedDone /\ OnlyLateAnswersUnroute /\ RoutedFirst

-------------------------------------------------------------------------------
\* There is at least one attempt, and no more than the retries ask for.
LEMMA AttemptsCounted ==
    LastAttempt \in Nat /\ LastAttempt >= 1 /\ (Retries > 0 => LastAttempt = Retries)
  BY DEF LastAttempt

\* The routers of a path are routers.
LEMMA NodesTyped ==
    ASSUME NEW p \in Path
    PROVE  Nodes(p) \subseteq Router
  BY DEF Nodes

\* The paths of the attempts, and
LEMMA PathsTyped ==
    ASSUME TypeOK, NEW a \in 1 .. attempt
    PROVE  /\ a \in Attempt
           /\ paths[a] \in Path
           /\ Nodes(paths[a]) \subseteq Router
  BY AttemptsCounted, NodesTyped DEF TypeOK, attempt, Attempt

\* that of the last one, are paths of routers.
LEMMA PathTyped ==
    ASSUME TypeOK, phase \in {"routing", "created"}
    PROVE  /\ attempt \in 1 .. attempt
           /\ Nodes(path) \subseteq Router /\ path \in Path
  BY PathsTyped DEF TypeOK, path, attempt

\* The forwards of a task are entries of a table,
LEMMA ForwardsTyped ==
    ASSUME TypeOK, NEW m, m.router \in Router, Known(m)
    PROVE  Forwards(paths[m.attempt], m.attempt, m.router) \subseteq Entries
  BY PathsTyped DEF Known, Entries

\* and so is what a table holds after they are set.
LEMMA OverwriteTyped ==
    ASSUME NEW t, NEW fs, NEW E, t \subseteq E, fs \subseteq E
    PROVE  Overwrite(t, fs) \subseteq E /\ fs \subseteq Overwrite(t, fs)
  BY DEF Overwrite

\* What the tail of a queue holds.
LEMMA TailHolds ==
    ASSUME NEW S, NEW q \in Seq(S), q # <<>>
    PROVE  /\ Head(q) = q[1] /\ Head(q) \in S
           /\ Tail(q) \in Seq(S)
           /\ \A i \in DOMAIN Tail(q) :
                 i + 1 \in DOMAIN q /\ i + 1 # 1 /\ Tail(q)[i] = q[i + 1]
           /\ \A i, j \in DOMAIN Tail(q) : i + 1 = j + 1 => i = j
           /\ 1 \in DOMAIN q
  OBVIOUS

\* And what a queue holds that has grown.
LEMMA AppendHolds ==
    ASSUME NEW S, NEW q \in Seq(S), NEW x \in S
    PROVE  /\ Append(q, x) \in Seq(S)
           /\ Len(q) \in Nat /\ Len(Append(q, x)) = Len(q) + 1
           /\ DOMAIN Append(q, x) = DOMAIN q \cup {Len(q) + 1}
           /\ \A i \in DOMAIN q : i # Len(q) + 1 /\ Append(q, x)[i] = q[i]
           /\ Append(q, x)[Len(q) + 1] = x
           /\ DOMAIN q = 1 .. Len(q)
  OBVIOUS

\* Its members are the new one and the old ones.
LEMMA AppendOld ==
    ASSUME NEW S, NEW q \in Seq(S), NEW x \in S, NEW t, t = Append(q, x)
    PROVE  \A i \in DOMAIN t : t[i] = x \/ (i \in DOMAIN q /\ t[i] = q[i])
  BY AppendHolds

\* A selection adds an attempt and leaves those before it alone.
LEMMA SelectAdds ==
    ASSUME TypeOK, NEW p \in Path, Select(p)
    PROVE  /\ attempt \in Nat /\ attempt' = attempt + 1
           /\ path' = p /\ paths' \in Seq(Path)
           /\ \A a \in 1 .. attempt : a \in 1 .. attempt' /\ paths'[a] = paths[a]
           /\ attempt + 1 \in 1 .. attempt' /\ paths'[attempt + 1] = p
  BY AppendHolds DEF TypeOK, Select, attempt, path

\* What is known stays known.
LEMMA KnownKept ==
    ASSUME TypeOK, (\E p \in Path : Select(p)) \/ UNCHANGED paths, NEW m, Known(m)
    PROVE  Known(m)'
<1>1. ASSUME NEW p \in Path, Select(p) PROVE Known(m)'
  BY <1>1, SelectAdds DEF Known
<1>2. CASE UNCHANGED paths
  BY <1>2 DEF Known, attempt
<1> QED BY <1>1, <1>2

\* A task is told by its router and its attempt.
LEMMA TaskTold ==
    ASSUME NEW m \in Task, NEW n \in Task, Same(m, n)
    PROVE  m = n
  BY DEF Task, Same

\* An answer is of the router and the attempt of its task.
LEMMA AnswerSame ==
    ASSUME NEW m
    PROVE  /\ Answer(m, TRUE).router = m.router /\ Answer(m, FALSE).router = m.router
           /\ Answer(m, TRUE).attempt = m.attempt /\ Answer(m, FALSE).attempt = m.attempt
           /\ Answer(m, TRUE).ok = TRUE /\ Answer(m, FALSE).ok = FALSE
           /\ m.router \in Router /\ m.attempt \in Attempt
                 => Answer(m, TRUE) \in Result /\ Answer(m, FALSE) \in Result
           /\ Known(m) => Known(Answer(m, TRUE)) /\ Known(Answer(m, FALSE))
<1> DEFINE t == Answer(m, TRUE)
           f == Answer(m, FALSE)
<1>1. t = [router |-> m.router, attempt |-> m.attempt, ok |-> TRUE]
  BY DEF Answer
<1>2. f = [router |-> m.router, attempt |-> m.attempt, ok |-> FALSE]
  BY DEF Answer
<1>3. /\ t.router = m.router /\ t.attempt = m.attempt /\ t.ok = TRUE
      /\ f.router = m.router /\ f.attempt = m.attempt /\ f.ok = FALSE
  <2> HIDE DEF t, f
  <2> QED BY <1>1, <1>2
<1>4. m.router \in Router /\ m.attempt \in Attempt => t \in Result /\ f \in Result
  <2> HIDE DEF t, f
  <2> QED BY <1>1, <1>2 DEF Result
<1>5. Known(m) => Known(t) /\ Known(f)
  <2> HIDE DEF t, f
  <2> QED BY <1>3 DEF Known
<1> QED BY <1>3, <1>4, <1>5


\* The variables keep their types.
LEMMA TypeKept ==
    ASSUME CircuitInv, [Next]_vars
    PROVE  TypeOK'
<1> USE DEF CircuitInv, TypeOK, senderVars, routerVars, wireVars, attempt
<1>1. ASSUME NEW p \in Path, Select(p) PROVE TypeOK'
  <2>1. Nodes(p) \subseteq Router /\ Len(paths) + 1 \in Attempt
    BY <1>1, NodesTyped, AttemptsCounted DEF Select, Attempt, AttemptLeft
  <2>2. paths' \in Seq(Path) /\ Len(paths') = Len(paths) + 1
    BY <1>1, AppendHolds DEF Select
  <2>3. sent' \subseteq Task
    BY <1>1, <2>1 DEF Select, Task
  <2> QED
    BY <1>1, <2>1, <2>2, <2>3 DEF Select, Attempt
<1>2. CASE SelectFails
  BY <1>2 DEF SelectFails
<1>3. CASE TakeSuccess
  <2>1. Head(inbox) \in Result /\ Tail(inbox) \in Seq(Result)
    BY <1>3, TailHolds DEF TakeSuccess
  <2>2. unroutes' \subseteq [router : Router, by : Attempt \cup {Decided}]
    BY <1>3 DEF TakeSuccess, Created, UnrouteTo
  <2> QED
    BY <1>3, <2>1, <2>2 DEF TakeSuccess, Created, Result
<1>4. CASE TakeFailure
  <2>1. Tail(inbox) \in Seq(Result)
    BY <1>4, TailHolds DEF TakeFailure
  <2>2. /\ unroutes' \subseteq [router : Router, by : Attempt \cup {Decided}]
        /\ cleanups' \subseteq Router
    BY <1>4 DEF TakeFailure, AttemptFails, UnrouteTo
  <2> QED
    BY <1>4, <2>1, <2>2 DEF TakeFailure, AttemptFails
<1>5. CASE TakeAlien
  BY <1>5 DEF TakeAlien
<1>6. CASE TimesOut
  <2>1. /\ unroutes' \subseteq [router : Router, by : Attempt \cup {Decided}]
        /\ cleanups' \subseteq Router
    BY <1>6 DEF TimesOut, AttemptFails, UnrouteTo
  <2> QED
    BY <1>6, <2>1 DEF TimesOut, AttemptFails
<1>7. CASE RemoveSender
  <2>1. <<>> \in Seq(Result)
    OBVIOUS
  <2> QED
    BY <1>7, <2>1 DEF RemoveSender
<1>8. CASE RemoveCircuit
  <2>1. Nodes(path) \subseteq Router
    BY <1>8, PathTyped DEF RemoveCircuit
  <2>2. unroutes' \subseteq [router : Router, by : Attempt \cup {Decided}]
    BY <1>8, <2>1 DEF RemoveCircuit, UnrouteTo
  <2> QED
    BY <1>8, <2>2 DEF RemoveCircuit
<1>9. ASSUME NEW m \in sent, LookUp(m) PROVE TypeOK'
  <2>1. filling' \subseteq [router : Router, attempt : Attempt, into : Attempt]
    BY <1>9 DEF LookUp, Task, NoTable
  <2> QED
    BY <1>9, <2>1 DEF LookUp
<1>10. ASSUME NEW m \in sent, DialFails(m) PROVE TypeOK'
  <2>1. answers' \subseteq Result
    BY <1>10, AnswerSame DEF DialFails, Task
  <2>2. troubles' \in 0 .. MaxTroubles
    BY <1>10 DEF DialFails, Trouble
  <2> QED
    BY <1>10, <2>1, <2>2 DEF DialFails
<1>11. ASSUME NEW f \in filling, Fill(f) PROVE TypeOK'
  <2>1. Forwards(paths[f.attempt], f.attempt, f.router) \subseteq Entries
    BY ForwardsTyped DEF OfAttempts
  <2>2. tables' \in [Router -> [Attempt -> SUBSET Entries]]
    <3> DEFINE fs == Forwards(paths[f.attempt], f.attempt, f.router)
    <3>1. f.router \in Router /\ f.into \in Attempt
      OBVIOUS
    <3>2. Overwrite(tables[f.router][f.into], fs) \subseteq Entries
      <4>1. tables[f.router][f.into] \subseteq Entries
        BY <3>1
      <4> QED BY <2>1, <4>1, OverwriteTyped DEF fs
    <3>3. tables' = [tables EXCEPT ![f.router][f.into] = Overwrite(@, fs)]
      BY <1>11 DEF Fill
    <3> HIDE DEF fs
    <3> QED BY <3>1, <3>2, <3>3
  <2>3. answers' \subseteq Result
    BY <1>11, AnswerSame DEF Fill
  <2> QED
    BY <1>11, <2>2, <2>3 DEF Fill
<1>12. ASSUME NEW f \in filling, FillFails(f) PROVE TypeOK'
  <2>1. Forwards(paths[f.attempt], f.attempt, f.router) \subseteq Entries
    BY ForwardsTyped DEF OfAttempts
  <2>2. tables' \in [Router -> [Attempt -> SUBSET Entries]]
    BY <1>12, <2>1, OverwriteTyped DEF FillFails
  <2>3. answers' \subseteq Result
    BY <1>12, AnswerSame DEF FillFails
  <2>4. troubles' \in 0 .. MaxTroubles
    BY <1>12 DEF FillFails, Trouble
  <2> QED
    BY <1>12, <2>2, <2>3, <2>4 DEF FillFails
<1>13. ASSUME NEW u \in unroutes, Unroute(u) PROVE TypeOK'
  BY <1>13 DEF Unroute
<1>14. CASE Lose
  BY <1>14 DEF Lose, Trouble
<1>15. ASSUME NEW s \in answers, ResultArrives(s) PROVE TypeOK'
  <2>1. s \in Result /\ Append(inbox, s) \in Seq(Result)
    BY AppendHolds
  <2>2. unroutes' \subseteq [router : Router, by : Attempt \cup {Decided}]
    BY <1>15, <2>1 DEF ResultArrives, UnrouteTo, Result
  <2> QED
    BY <1>15, <2>1, <2>2 DEF ResultArrives
<1>16. ASSUME NEW r \in Router, Confirm(r) PROVE TypeOK'
  <2>1. unroutes' \subseteq [router : Router, by : Attempt \cup {Decided}]
    BY <1>16 DEF Confirm, UnrouteTo
  <2> QED
    BY <1>16, <2>1 DEF Confirm
<1>17. CASE UNCHANGED vars
  BY <1>17 DEF vars
<1> QED BY <1>1, <1>2, <1>3, <1>4, <1>5, <1>6, <1>7, <1>8, <1>9,
           <1>10, <1>11, <1>12, <1>13, <1>14, <1>15, <1>16, <1>17 DEF Next

\* An attempt fails for good when it was the last.
LEMMA AttemptLeftKept ==
    ASSUME CircuitInv, [Next]_vars
    PROVE  AttemptLeft'
<1> USE DEF CircuitInv, AttemptLeft, senderVars, routerVars, wireVars, attempt
<1>1. ASSUME NEW p \in Path, Select(p) PROVE AttemptLeft'
  BY <1>1 DEF Select
<1>2. CASE SelectFails
  BY <1>2 DEF SelectFails
<1>3. CASE TakeSuccess
  BY <1>3 DEF TakeSuccess, Created
<1>4. CASE TakeFailure
  BY <1>4, AttemptsCounted DEF TakeFailure, AttemptFails, TypeOK
<1>5. CASE TakeAlien
  BY <1>5 DEF TakeAlien
<1>6. CASE TimesOut
  BY <1>6, AttemptsCounted DEF TimesOut, AttemptFails, TypeOK
<1>7. CASE RemoveSender
  BY <1>7 DEF RemoveSender
<1>8. CASE RemoveCircuit
  BY <1>8 DEF RemoveCircuit
<1>9. ASSUME NEW m \in sent, LookUp(m) PROVE AttemptLeft'
  BY <1>9 DEF LookUp
<1>10. ASSUME NEW m \in sent, DialFails(m) PROVE AttemptLeft'
  BY <1>10 DEF DialFails
<1>11. ASSUME NEW f \in filling, Fill(f) PROVE AttemptLeft'
  BY <1>11 DEF Fill
<1>12. ASSUME NEW f \in filling, FillFails(f) PROVE AttemptLeft'
  BY <1>12 DEF FillFails
<1>13. ASSUME NEW u \in unroutes, Unroute(u) PROVE AttemptLeft'
  BY <1>13 DEF Unroute
<1>14. CASE Lose
  BY <1>14 DEF Lose
<1>15. ASSUME NEW s \in answers, ResultArrives(s) PROVE AttemptLeft'
  BY <1>15 DEF ResultArrives
<1>16. ASSUME NEW r \in Router, Confirm(r) PROVE AttemptLeft'
  BY <1>16 DEF Confirm
<1>17. CASE UNCHANGED vars
  BY <1>17 DEF vars
<1> QED BY <1>1, <1>2, <1>3, <1>4, <1>5, <1>6, <1>7, <1>8, <1>9,
           <1>10, <1>11, <1>12, <1>13, <1>14, <1>15, <1>16, <1>17 DEF Next

\* What a router is sent and what it answers belongs to an attempt.
LEMMA OfAttemptsKept ==
    ASSUME CircuitInv, [Next]_vars
    PROVE  OfAttempts'
<1> USE DEF CircuitInv, OfAttempts, senderVars, routerVars, wireVars
<1>1. ASSUME NEW p \in Path, Select(p) PROVE OfAttempts'
  <2>0. \A a \in 1 .. attempt : a \in (1 .. attempt)' /\ paths'[a] = paths[a]
    BY <1>1, SelectAdds
  <2>1. \A k : Known(k) => Known(k)'
    BY <1>1, KnownKept
  <2>2. ASSUME NEW k \in sent' PROVE Known(k)'
    <3>1. CASE k \in sent
      BY <3>1, <2>1
    <3>2. CASE k \notin sent
      <4>1. PICK r \in Nodes(p) : k = [router |-> r, attempt |-> attempt + 1]
        BY <1>1, <3>2 DEF Select
      <4> QED BY <1>1, <4>1, SelectAdds DEF Known
    <3> QED BY <3>1, <3>2
  <2> QED
    BY <1>1, <2>0, <2>1, <2>2 DEF Select
<1>2. CASE SelectFails
  <2>0. \A a \in 1 .. attempt : a \in (1 .. attempt)' /\ paths'[a] = paths[a]
    BY <1>2 DEF SelectFails, attempt
  <2>1. \A k : Known(k) => Known(k)'
    BY <1>2, KnownKept DEF SelectFails
  <2> QED
    BY <1>2, <2>0, <2>1 DEF SelectFails
<1>3. CASE TakeSuccess
  <2>0. \A a \in 1 .. attempt : a \in (1 .. attempt)' /\ paths'[a] = paths[a]
    BY <1>3 DEF TakeSuccess, attempt
  <2>1. \A k : Known(k) => Known(k)'
    BY <1>3, KnownKept DEF TakeSuccess
  <2>2. \A i \in DOMAIN Tail(inbox) : Known(Tail(inbox)[i])
    BY <1>3, TailHolds DEF TakeSuccess, TypeOK
  <2> QED
    BY <1>3, <2>0, <2>1, <2>2 DEF TakeSuccess, Created, UnrouteTo
<1>4. CASE TakeFailure
  <2>0. \A a \in 1 .. attempt : a \in (1 .. attempt)' /\ paths'[a] = paths[a]
    BY <1>4 DEF TakeFailure, attempt
  <2>1. \A k : Known(k) => Known(k)'
    BY <1>4, KnownKept DEF TakeFailure
  <2>2. \A i \in DOMAIN Tail(inbox) : Known(Tail(inbox)[i])
    BY <1>4, TailHolds DEF TakeFailure, TypeOK
  <2> QED
    BY <1>4, <2>0, <2>1, <2>2 DEF TakeFailure, AttemptFails, UnrouteTo
<1>5. CASE TakeAlien
  <2>0. \A a \in 1 .. attempt : a \in (1 .. attempt)' /\ paths'[a] = paths[a]
    BY <1>5 DEF TakeAlien, attempt
  <2>1. \A k : Known(k) => Known(k)'
    BY <1>5, KnownKept DEF TakeAlien
  <2>2. \A i \in DOMAIN Tail(inbox) : Known(Tail(inbox)[i])
    BY <1>5, TailHolds DEF TakeAlien, TypeOK
  <2> QED
    BY <1>5, <2>0, <2>1, <2>2 DEF TakeAlien
<1>6. CASE TimesOut
  <2>0. \A a \in 1 .. attempt : a \in (1 .. attempt)' /\ paths'[a] = paths[a]
    BY <1>6 DEF TimesOut, attempt
  <2>1. \A k : Known(k) => Known(k)'
    BY <1>6, KnownKept DEF TimesOut
  <2> QED
    BY <1>6, <2>0, <2>1 DEF TimesOut, AttemptFails, UnrouteTo
<1>7. CASE RemoveSender
  <2>0. \A a \in 1 .. attempt : a \in (1 .. attempt)' /\ paths'[a] = paths[a]
    BY <1>7 DEF RemoveSender, attempt
  <2>1. \A k : Known(k) => Known(k)'
    BY <1>7, KnownKept DEF RemoveSender
  <2> QED
    BY <1>7, <2>0, <2>1 DEF RemoveSender
<1>8. CASE RemoveCircuit
  <2>0. \A a \in 1 .. attempt : a \in (1 .. attempt)' /\ paths'[a] = paths[a]
    BY <1>8 DEF RemoveCircuit, attempt
  <2>1. \A k : Known(k) => Known(k)'
    BY <1>8, KnownKept DEF RemoveCircuit
  <2> QED
    BY <1>8, <2>0, <2>1 DEF RemoveCircuit, UnrouteTo
<1>9. ASSUME NEW m \in sent, LookUp(m) PROVE OfAttempts'
  <2>0. \A a \in 1 .. attempt : a \in (1 .. attempt)' /\ paths'[a] = paths[a]
    BY <1>9 DEF LookUp, attempt
  <2>1. \A k : Known(k) => Known(k)'
    BY <1>9, KnownKept DEF LookUp
  <2>2. \A k \in filling' : k \in filling \/ Known(k)
    BY <1>9 DEF LookUp, Known
  <2> QED
    BY <1>9, <2>0, <2>1, <2>2 DEF LookUp
<1>10. ASSUME NEW m \in sent, DialFails(m) PROVE OfAttempts'
  <2>0. \A a \in 1 .. attempt : a \in (1 .. attempt)' /\ paths'[a] = paths[a]
    BY <1>10 DEF DialFails, attempt
  <2>1. \A k : Known(k) => Known(k)'
    BY <1>10, KnownKept DEF DialFails
  <2>2. Known(Answer(m, FALSE))
    BY AnswerSame DEF Known
  <2> QED
    BY <1>10, <2>0, <2>1, <2>2 DEF DialFails
<1>11. ASSUME NEW f \in filling, Fill(f) PROVE OfAttempts'
  <2>0. \A a \in 1 .. attempt : a \in (1 .. attempt)' /\ paths'[a] = paths[a]
    BY <1>11 DEF Fill, attempt
  <2>1. \A k : Known(k) => Known(k)'
    BY <1>11, KnownKept DEF Fill
  <2>2. Known(Answer(f, TRUE))
    BY AnswerSame DEF Known
  <2> QED
    BY <1>11, <2>0, <2>1, <2>2 DEF Fill
<1>12. ASSUME NEW f \in filling, FillFails(f) PROVE OfAttempts'
  <2>0. \A a \in 1 .. attempt : a \in (1 .. attempt)' /\ paths'[a] = paths[a]
    BY <1>12 DEF FillFails, attempt
  <2>1. \A k : Known(k) => Known(k)'
    BY <1>12, KnownKept DEF FillFails
  <2>2. Known(Answer(f, FALSE))
    BY AnswerSame DEF Known
  <2> QED
    BY <1>12, <2>0, <2>1, <2>2 DEF FillFails
<1>13. ASSUME NEW u \in unroutes, Unroute(u) PROVE OfAttempts'
  <2>0. \A a \in 1 .. attempt : a \in (1 .. attempt)' /\ paths'[a] = paths[a]
    BY <1>13 DEF Unroute, attempt
  <2>1. \A k : Known(k) => Known(k)'
    BY <1>13, KnownKept DEF Unroute
  <2> QED
    BY <1>13, <2>0, <2>1 DEF Unroute
<1>14. CASE Lose
  <2>0. \A a \in 1 .. attempt : a \in (1 .. attempt)' /\ paths'[a] = paths[a]
    BY <1>14 DEF Lose, attempt
  <2>1. \A k : Known(k) => Known(k)'
    BY <1>14, KnownKept DEF Lose
  <2> QED
    BY <1>14, <2>0, <2>1 DEF Lose
<1>15. ASSUME NEW s \in answers, ResultArrives(s) PROVE OfAttempts'
  <2>0. \A a \in 1 .. attempt : a \in (1 .. attempt)' /\ paths'[a] = paths[a]
    BY <1>15 DEF ResultArrives, attempt
  <2>1. \A k : Known(k) => Known(k)'
    BY <1>15, KnownKept DEF ResultArrives
  <2>2. \A i \in DOMAIN inbox' : Known(inbox'[i])
    <3>1. inbox \in Seq(Result) /\ s \in Result /\ Known(s)
      BY DEF TypeOK
    <3>2. inbox' = inbox \/ inbox' = Append(inbox, s)
      BY <1>15 DEF ResultArrives
    <3> QED BY <3>1, <3>2, AppendHolds
  <2>3. \A u \in unroutes' \ unroutes :
           u.by \in 1 .. attempt /\ u.router \in Nodes(paths[u.by])
    BY <1>15 DEF ResultArrives, UnrouteTo, Known
  <2> QED
    BY <1>15, <2>0, <2>1, <2>2, <2>3 DEF ResultArrives
<1>16. ASSUME NEW r \in Router, Confirm(r) PROVE OfAttempts'
  <2>0. \A a \in 1 .. attempt : a \in (1 .. attempt)' /\ paths'[a] = paths[a]
    BY <1>16 DEF Confirm, attempt
  <2>1. \A k : Known(k) => Known(k)'
    BY <1>16, KnownKept DEF Confirm
  <2> QED
    BY <1>16, <2>0, <2>1 DEF Confirm, UnrouteTo
<1>17. CASE UNCHANGED vars
  <2>0. \A a \in 1 .. attempt : a \in (1 .. attempt)' /\ paths'[a] = paths[a]
    BY <1>17 DEF vars, senderVars, attempt
  <2>1. \A k : Known(k) => Known(k)'
    BY <1>17, KnownKept DEF vars
  <2> QED
    BY <1>17, <2>0, <2>1 DEF vars
<1> QED BY <1>1, <1>2, <1>3, <1>4, <1>5, <1>6, <1>7, <1>8, <1>9,
           <1>10, <1>11, <1>12, <1>13, <1>14, <1>15, <1>16, <1>17 DEF Next

\* Work moves on from one place to the next.
LEMMA OnceKept ==
    ASSUME CircuitInv, [Next]_vars
    PROVE  Once'
<1> USE DEF CircuitInv, Once, senderVars, routerVars, wireVars
<1>1. ASSUME NEW p \in Path, Select(p) PROVE Once'
  <2>1. ASSUME NEW k \in sent' \ sent PROVE k.attempt = attempt + 1
    BY <1>1 DEF Select
  <2>2. \A k : Known(k) => k.attempt # attempt + 1
    BY DEF Known, TypeOK, attempt
  <2> QED
    BY <1>1, <2>1, <2>2 DEF Select, Same, OfAttempts
<1>2. CASE SelectFails
  BY <1>2 DEF SelectFails
<1>3. CASE TakeSuccess
  <2>1. \A i \in DOMAIN inbox' : i + 1 \in DOMAIN inbox /\ inbox'[i] = inbox[i + 1]
    BY <1>3, TailHolds DEF TakeSuccess, TypeOK
  <2>2. \A i, j \in DOMAIN inbox' : i + 1 = j + 1 => i = j
    BY <1>3, TailHolds DEF TakeSuccess, TypeOK
  <2>3. sent' = sent /\ filling' = filling /\ answers' = answers
    BY <1>3 DEF TakeSuccess
  <2> QED
    BY <2>1, <2>2, <2>3
<1>4. CASE TakeFailure
  <2>1. \A i \in DOMAIN inbox' : i + 1 \in DOMAIN inbox /\ inbox'[i] = inbox[i + 1]
    BY <1>4, TailHolds DEF TakeFailure, TypeOK
  <2>2. \A i, j \in DOMAIN inbox' : i + 1 = j + 1 => i = j
    BY <1>4, TailHolds DEF TakeFailure, TypeOK
  <2>3. sent' = sent /\ filling' = filling /\ answers' = answers
    BY <1>4 DEF TakeFailure
  <2> QED
    BY <2>1, <2>2, <2>3
<1>5. CASE TakeAlien
  <2>1. \A i \in DOMAIN inbox' : i + 1 \in DOMAIN inbox /\ inbox'[i] = inbox[i + 1]
    BY <1>5, TailHolds DEF TakeAlien, TypeOK
  <2>2. \A i, j \in DOMAIN inbox' : i + 1 = j + 1 => i = j
    BY <1>5, TailHolds DEF TakeAlien, TypeOK
  <2>3. sent' = sent /\ filling' = filling /\ answers' = answers
    BY <1>5 DEF TakeAlien
  <2> QED
    BY <2>1, <2>2, <2>3
<1>6. CASE TimesOut
  BY <1>6 DEF TimesOut
<1>7. CASE RemoveSender
  BY <1>7 DEF RemoveSender
<1>8. CASE RemoveCircuit
  BY <1>8 DEF RemoveCircuit
<1>9. ASSUME NEW m \in sent, LookUp(m) PROVE Once'
  <2>1. PICK g \in filling' : Same(g, m) /\ filling' = filling \cup {g}
    BY <1>9 DEF LookUp, Same
  <2>2. \A k : (Same(k, g) <=> Same(k, m)) /\ (Same(g, k) <=> Same(m, k))
    BY <2>1 DEF Same
  <2>3. \A k \in sent \ {m} : ~Same(k, m) /\ ~Same(m, k)
    BY TaskTold DEF TypeOK, Same
  <2>4. \A k \in filling \cup answers : ~Same(m, k) /\ ~Same(k, m)
    BY DEF Same
  <2> QED
    BY <1>9, <2>1, <2>2, <2>3, <2>4 DEF LookUp
<1>10. ASSUME NEW m \in sent, DialFails(m) PROVE Once'
  <2> DEFINE t == Answer(m, FALSE)
  <2>1. \A k : (Same(k, t) <=> Same(k, m)) /\ (Same(t, k) <=> Same(m, k))
    BY AnswerSame DEF Same
  <2> HIDE DEF t
  <2>2. answers' = answers \cup {t} /\ inbox' = inbox
    BY <1>10 DEF DialFails, t
  <2>3. \A k \in sent \ {m} : ~Same(k, m) /\ ~Same(m, k)
    BY TaskTold DEF TypeOK, Same
  <2>4. \A k \in filling \cup answers : ~Same(m, k) /\ ~Same(k, m)
    BY DEF Same
  <2>5. sent' = sent \ {m} /\ filling' = filling
    BY <1>10 DEF DialFails
  <2> QED
    BY <2>1, <2>2, <2>3, <2>4, <2>5
<1>11. ASSUME NEW f \in filling, Fill(f) PROVE Once'
  <2> DEFINE t == Answer(f, TRUE)
  <2>1. \A k : (Same(k, t) <=> Same(k, f)) /\ (Same(t, k) <=> Same(f, k))
    BY AnswerSame DEF Same
  <2> HIDE DEF t
  <2>2. answers' = answers \cup {t} /\ inbox' = inbox
    BY <1>11 DEF Fill, t
  <2>4. /\ \A k \in filling \ {f} : ~Same(f, k) /\ ~Same(k, f)
        /\ \A k \in sent \cup answers : ~Same(f, k) /\ ~Same(k, f)
    BY DEF Same
  <2>5. sent' = sent /\ filling' = filling \ {f}
    BY <1>11 DEF Fill
  <2> QED
    BY <2>1, <2>2, <2>4, <2>5
<1>12. ASSUME NEW f \in filling, FillFails(f) PROVE Once'
  <2> DEFINE t == Answer(f, FALSE)
  <2>1. \A k : (Same(k, t) <=> Same(k, f)) /\ (Same(t, k) <=> Same(f, k))
    BY AnswerSame DEF Same
  <2> HIDE DEF t
  <2>2. answers' = answers \cup {t} /\ inbox' = inbox
    BY <1>12 DEF FillFails, t
  <2>4. /\ \A k \in filling \ {f} : ~Same(f, k) /\ ~Same(k, f)
        /\ \A k \in sent \cup answers : ~Same(f, k) /\ ~Same(k, f)
    BY DEF Same
  <2>5. sent' = sent /\ filling' = filling \ {f}
    BY <1>12 DEF FillFails
  <2> QED
    BY <2>1, <2>2, <2>4, <2>5
<1>13. ASSUME NEW u \in unroutes, Unroute(u) PROVE Once'
  BY <1>13 DEF Unroute
<1>14. CASE Lose
  <2>1. /\ sent' \subseteq sent
        /\ filling' = filling /\ answers' \subseteq answers /\ inbox' = inbox
    BY <1>14 DEF Lose
  <2> QED
    BY <2>1
<1>15. ASSUME NEW s \in answers, ResultArrives(s) PROVE Once'
  <2>1. CASE listening
    <3>1. inbox \in Seq(Result) /\ s \in Result
      BY DEF TypeOK
    <3>2. inbox' = Append(inbox, s) /\ answers' = answers \ {s}
      BY <1>15, <2>1 DEF ResultArrives
    <3>3. \A k : Same(s, k) <=> Same(k, s)
      BY DEF Same
    <3>4. sent' = sent /\ filling' = filling
      BY <1>15 DEF ResultArrives
    <3> QED
      BY <3>1, <3>2, <3>3, <3>4, AppendHolds
  <2>2. CASE ~listening
    BY <1>15, <2>2 DEF ResultArrives
  <2> QED
    BY <2>1, <2>2
<1>16. ASSUME NEW r \in Router, Confirm(r) PROVE Once'
  BY <1>16 DEF Confirm
<1>17. CASE UNCHANGED vars
  BY <1>17 DEF vars
<1> QED BY <1>1, <1>2, <1>3, <1>4, <1>5, <1>6, <1>7, <1>8, <1>9,
           <1>10, <1>11, <1>12, <1>13, <1>14, <1>15, <1>16, <1>17 DEF Next

\* The attendance has the routers of the path from its selection on.
LEMMA AttendedKept ==
    ASSUME CircuitInv, [Next]_vars
    PROVE  Attended'
<1> USE DEF CircuitInv, Attended, senderVars, routerVars, wireVars, path, attempt
<1>1. ASSUME NEW p \in Path, Select(p) PROVE Attended'
  BY <1>1, SelectAdds DEF Select
<1>2. CASE SelectFails
  BY <1>2 DEF SelectFails
<1>3. CASE TakeSuccess
  BY <1>3 DEF TakeSuccess, Created
<1>4. CASE TakeFailure
  BY <1>4 DEF TakeFailure, AttemptFails
<1>5. CASE TakeAlien
  BY <1>5 DEF TakeAlien
<1>6. CASE TimesOut
  BY <1>6 DEF TimesOut, AttemptFails
<1>7. CASE RemoveSender
  BY <1>7 DEF RemoveSender
<1>8. CASE RemoveCircuit
  BY <1>8 DEF RemoveCircuit
<1>9. ASSUME NEW m \in sent, LookUp(m) PROVE Attended'
  BY <1>9 DEF LookUp
<1>10. ASSUME NEW m \in sent, DialFails(m) PROVE Attended'
  BY <1>10 DEF DialFails
<1>11. ASSUME NEW f \in filling, Fill(f) PROVE Attended'
  BY <1>11 DEF Fill
<1>12. ASSUME NEW f \in filling, FillFails(f) PROVE Attended'
  BY <1>12 DEF FillFails
<1>13. ASSUME NEW u \in unroutes, Unroute(u) PROVE Attended'
  BY <1>13 DEF Unroute
<1>14. CASE Lose
  BY <1>14 DEF Lose
<1>15. ASSUME NEW s \in answers, ResultArrives(s) PROVE Attended'
  BY <1>15 DEF ResultArrives
<1>16. ASSUME NEW r \in Router, Confirm(r) PROVE Attended'
  BY <1>16 DEF Confirm
<1>17. CASE UNCHANGED vars
  BY <1>17 DEF vars
<1> QED BY <1>1, <1>2, <1>3, <1>4, <1>5, <1>6, <1>7, <1>8, <1>9,
           <1>10, <1>11, <1>12, <1>13, <1>14, <1>15, <1>16, <1>17 DEF Next

\* The sender is there until its attempts are over.
LEMMA QuietKept ==
    ASSUME CircuitInv, [Next]_vars
    PROVE  Quiet'
<1> USE DEF CircuitInv, Quiet, senderVars, routerVars, wireVars, path, attempt
<1>1. ASSUME NEW p \in Path, Select(p) PROVE Quiet'
  BY <1>1 DEF Select
<1>2. CASE SelectFails
  BY <1>2 DEF SelectFails
<1>3. CASE TakeSuccess
  BY <1>3 DEF TakeSuccess, Created
<1>4. CASE TakeFailure
  BY <1>4 DEF TakeFailure, AttemptFails
<1>5. CASE TakeAlien
  BY <1>5 DEF TakeAlien
<1>6. CASE TimesOut
  BY <1>6 DEF TimesOut, AttemptFails
<1>7. CASE RemoveSender
  BY <1>7 DEF RemoveSender
<1>8. CASE RemoveCircuit
  BY <1>8 DEF RemoveCircuit
<1>9. ASSUME NEW m \in sent, LookUp(m) PROVE Quiet'
  BY <1>9 DEF LookUp
<1>10. ASSUME NEW m \in sent, DialFails(m) PROVE Quiet'
  BY <1>10 DEF DialFails
<1>11. ASSUME NEW f \in filling, Fill(f) PROVE Quiet'
  BY <1>11 DEF Fill
<1>12. ASSUME NEW f \in filling, FillFails(f) PROVE Quiet'
  BY <1>12 DEF FillFails
<1>13. ASSUME NEW u \in unroutes, Unroute(u) PROVE Quiet'
  BY <1>13 DEF Unroute
<1>14. CASE Lose
  BY <1>14 DEF Lose
<1>15. ASSUME NEW s \in answers, ResultArrives(s) PROVE Quiet'
  BY <1>15 DEF ResultArrives
<1>16. ASSUME NEW r \in Router, Confirm(r) PROVE Quiet'
  BY <1>16 DEF Confirm
<1>17. CASE UNCHANGED vars
  BY <1>17 DEF vars
<1> QED BY <1>1, <1>2, <1>3, <1>4, <1>5, <1>6, <1>7, <1>8, <1>9,
           <1>10, <1>11, <1>12, <1>13, <1>14, <1>15, <1>16, <1>17 DEF Next

\* But for a selection nothing adds to the work.
LEMMA WorkGoesOn ==
    ASSUME CircuitInv, [Next]_vars, ~ \E p \in Path : Select(p)
    PROVE  \A r, a : Outstanding(r, a)' => Outstanding(r, a)
<1> USE DEF CircuitInv, TypeOK, Outstanding, senderVars, routerVars, wireVars
<1>2. CASE SelectFails
  BY <1>2 DEF SelectFails
<1>3. CASE TakeSuccess
  <2>1. \A i \in DOMAIN inbox' : i + 1 \in DOMAIN inbox /\ inbox'[i] = inbox[i + 1]
    BY <1>3, TailHolds DEF TakeSuccess
  <2> QED
    BY <1>3, <2>1 DEF TakeSuccess
<1>4. CASE TakeFailure
  <2>1. \A i \in DOMAIN inbox' : i + 1 \in DOMAIN inbox /\ inbox'[i] = inbox[i + 1]
    BY <1>4, TailHolds DEF TakeFailure
  <2> QED
    BY <1>4, <2>1 DEF TakeFailure
<1>5. CASE TakeAlien
  <2>1. \A i \in DOMAIN inbox' : i + 1 \in DOMAIN inbox /\ inbox'[i] = inbox[i + 1]
    BY <1>5, TailHolds DEF TakeAlien
  <2> QED
    BY <1>5, <2>1 DEF TakeAlien
<1>6. CASE TimesOut
  BY <1>6 DEF TimesOut
<1>7. CASE RemoveSender
  BY <1>7 DEF RemoveSender
<1>8. CASE RemoveCircuit
  BY <1>8 DEF RemoveCircuit
<1>9. ASSUME NEW m \in sent, LookUp(m)
      PROVE  \A r, a : Outstanding(r, a)' => Outstanding(r, a)
  <2>1. m = [router |-> m.router, attempt |-> m.attempt]
    BY DEF Task
  <2>2. \A g \in filling' :
           g \in filling \/ (g.router = m.router /\ g.attempt = m.attempt)
    BY <1>9 DEF LookUp
  <2> QED
    BY <1>9, <2>1, <2>2 DEF LookUp
<1>10. ASSUME NEW m \in sent, DialFails(m)
       PROVE  \A r, a : Outstanding(r, a)' => Outstanding(r, a)
  <2>1. Answer(m, FALSE).router = m.router /\ Answer(m, FALSE).attempt = m.attempt
    BY AnswerSame
  <2>2. m = [router |-> m.router, attempt |-> m.attempt]
    BY DEF Task
  <2> QED
    BY <1>10, <2>1, <2>2 DEF DialFails
<1>11. ASSUME NEW f \in filling, Fill(f)
       PROVE  \A r, a : Outstanding(r, a)' => Outstanding(r, a)
  <2>1. Answer(f, TRUE).router = f.router /\ Answer(f, TRUE).attempt = f.attempt
    BY AnswerSame
  <2> QED
    BY <1>11, <2>1 DEF Fill
<1>12. ASSUME NEW f \in filling, FillFails(f)
       PROVE  \A r, a : Outstanding(r, a)' => Outstanding(r, a)
  <2>1. Answer(f, FALSE).router = f.router /\ Answer(f, FALSE).attempt = f.attempt
    BY AnswerSame
  <2> QED
    BY <1>12, <2>1 DEF FillFails
<1>13. ASSUME NEW u \in unroutes, Unroute(u)
       PROVE  \A r, a : Outstanding(r, a)' => Outstanding(r, a)
  BY <1>13 DEF Unroute
<1>14. CASE Lose
  BY <1>14 DEF Lose
<1>15. ASSUME NEW s \in answers, ResultArrives(s)
       PROVE  \A r, a : Outstanding(r, a)' => Outstanding(r, a)
  <2>1. \A i \in DOMAIN inbox' :
           inbox'[i] = s \/ (i \in DOMAIN inbox /\ inbox'[i] = inbox[i])
    <3>1. inbox' = inbox \/ inbox' = Append(inbox, s)
      BY <1>15 DEF ResultArrives
    <3>2. inbox \in Seq(Result) /\ s \in Result
      OBVIOUS
    <3>3. CASE inbox' = Append(inbox, s)
      BY <3>2, <3>3, AppendOld
    <3> QED BY <3>1, <3>3
  <2> QED
    BY <1>15, <2>1 DEF ResultArrives
<1>16. ASSUME NEW q \in Router, Confirm(q)
       PROVE  \A r, a : Outstanding(r, a)' => Outstanding(r, a)
  BY <1>16 DEF Confirm
<1>17. CASE UNCHANGED vars
  BY <1>17 DEF vars
<1> QED BY <1>2, <1>3, <1>4, <1>5, <1>6, <1>7, <1>8, <1>9, <1>10,
           <1>11, <1>12, <1>13, <1>14, <1>15, <1>16, <1>17 DEF Next

\* Whoever is present after a success has done its work.
LEMMA SuccessDone ==
    ASSUME CircuitInv, TakeSuccess
    PROVE  \A r \in Nodes(path) \cap present' : ~Outstanding(r, attempt)'
<1> DEFINE h == Head(inbox)
<1>1. /\ inbox # <<>> /\ inbox \in Seq(Result) /\ phase = "routing"
      /\ h.attempt = attempt /\ present' = present \cup {h.router}
      /\ sent' = sent /\ filling' = filling /\ answers' = answers
      /\ inbox' = Tail(inbox)
  BY DEF CircuitInv, TypeOK, TakeSuccess, Takes, routerVars
<1>2. /\ h = inbox[1] /\ 1 \in DOMAIN inbox
      /\ \A i \in DOMAIN inbox' :
            i + 1 \in DOMAIN inbox /\ i + 1 # 1 /\ inbox'[i] = inbox[i + 1]
  BY <1>1, TailHolds
<1>3. attempt' = attempt /\ attempt \in Nat
  BY DEF TakeSuccess, attempt, CircuitInv, TypeOK
<1> HIDE DEF h
<1>4. \A r \in present \cap Nodes(path) : ~Outstanding(r, attempt)'
  BY <1>1, <1>2, <1>3 DEF CircuitInv, PresentDone, Outstanding
<1>5. ASSUME NEW r, r = h.router PROVE ~Outstanding(r, attempt)'
  <2>1. /\ \A m \in sent \cup filling \cup answers : ~Same(m, h)
        /\ \A i \in DOMAIN inbox : i # 1 => ~Same(inbox[i], h)
    BY <1>2 DEF CircuitInv, Once
  <2>2. \A m \in sent \cup filling \cup answers :
           m.router = r => m.attempt # attempt
    BY <1>1, <1>5, <2>1 DEF Same
  <2>3. \A i \in DOMAIN inbox' : inbox'[i].router = r => inbox'[i].attempt # attempt
    BY <1>1, <1>2, <1>5, <2>1 DEF Same
  <2>4. [router |-> r, attempt |-> attempt] \notin sent
    BY <2>2
  <2> QED
    BY <1>1, <1>3, <2>2, <2>3, <2>4 DEF Outstanding
<1> QED
  BY <1>1, <1>4, <1>5


\* Where nothing is selected, a router that was done stays done.
LEMMA DoneStays ==
    ASSUME CircuitInv, [Next]_vars, ~ \E p \in Path : Select(p), UNCHANGED paths
    PROVE  \A r : Outstanding(r, attempt)' => Outstanding(r, attempt)
<1>1. attempt' = attempt
  BY DEF attempt
<1>2. \A r, a : Outstanding(r, a)' => Outstanding(r, a)
  BY WorkGoesOn
<1> QED BY <1>1, <1>2 DEF Outstanding


\* A router is present only by its answer to this attempt.
LEMMA PresentDoneKept ==
    ASSUME CircuitInv, [Next]_vars
    PROVE  PresentDone'
<1> USE DEF CircuitInv, PresentDone
<1>1. ASSUME NEW p \in Path, Select(p) PROVE PresentDone'
  BY <1>1, SelectAdds DEF Select
<1>2. CASE SelectFails
  <2>1. UNCHANGED <<paths, present>> /\ (phase' = phase \/ phase' = "gone")
    BY <1>2 DEF SelectFails, senderVars
  <2>2. ~ \E p \in Path : Select(p)
    BY <2>1, SelectAdds DEF attempt
  <2> QED
    BY <2>1, <2>2, DoneStays DEF path, attempt
<1>3. CASE TakeSuccess
  <2>1. Nodes(path)' = Nodes(path)
    BY <1>3 DEF TakeSuccess, path, attempt
  <2> QED
    BY <1>3, <2>1, SuccessDone
<1>4. CASE TakeFailure
  BY <1>4 DEF TakeFailure, AttemptFails
<1>5. CASE TakeAlien
  <2>1. UNCHANGED <<paths, present>> /\ (phase' = phase \/ phase' = "gone")
    BY <1>5 DEF TakeAlien, senderVars
  <2>2. ~ \E p \in Path : Select(p)
    BY <2>1, SelectAdds DEF attempt
  <2> QED
    BY <2>1, <2>2, DoneStays DEF path, attempt
<1>6. CASE TimesOut
  BY <1>6 DEF TimesOut, AttemptFails
<1>7. CASE RemoveSender
  <2>1. paths' = paths /\ present' = {} /\ phase' = phase
    BY <1>7 DEF RemoveSender, senderVars
  <2>2. ~ \E p \in Path : Select(p)
    BY <2>1, SelectAdds DEF attempt
  <2> QED
    BY <2>1, <2>2, DoneStays DEF path, attempt
<1>8. CASE RemoveCircuit
  <2>1. UNCHANGED <<paths, present>> /\ (phase' = phase \/ phase' = "gone")
    BY <1>8 DEF RemoveCircuit, senderVars
  <2>2. ~ \E p \in Path : Select(p)
    BY <2>1, SelectAdds DEF attempt
  <2> QED
    BY <2>1, <2>2, DoneStays DEF path, attempt
<1>9. ASSUME NEW m \in sent, LookUp(m) PROVE PresentDone'
  <2>1. UNCHANGED <<paths, present>> /\ (phase' = phase \/ phase' = "gone")
    BY <1>9 DEF LookUp, senderVars
  <2>2. ~ \E p \in Path : Select(p)
    BY <2>1, SelectAdds DEF attempt
  <2> QED
    BY <2>1, <2>2, DoneStays DEF path, attempt
<1>10. ASSUME NEW m \in sent, DialFails(m) PROVE PresentDone'
  <2>1. UNCHANGED <<paths, present>> /\ (phase' = phase \/ phase' = "gone")
    BY <1>10 DEF DialFails, senderVars
  <2>2. ~ \E p \in Path : Select(p)
    BY <2>1, SelectAdds DEF attempt
  <2> QED
    BY <2>1, <2>2, DoneStays DEF path, attempt
<1>11. ASSUME NEW f \in filling, Fill(f) PROVE PresentDone'
  <2>1. UNCHANGED <<paths, present>> /\ (phase' = phase \/ phase' = "gone")
    BY <1>11 DEF Fill, senderVars
  <2>2. ~ \E p \in Path : Select(p)
    BY <2>1, SelectAdds DEF attempt
  <2> QED
    BY <2>1, <2>2, DoneStays DEF path, attempt
<1>12. ASSUME NEW f \in filling, FillFails(f) PROVE PresentDone'
  <2>1. UNCHANGED <<paths, present>> /\ (phase' = phase \/ phase' = "gone")
    BY <1>12 DEF FillFails, senderVars
  <2>2. ~ \E p \in Path : Select(p)
    BY <2>1, SelectAdds DEF attempt
  <2> QED
    BY <2>1, <2>2, DoneStays DEF path, attempt
<1>13. ASSUME NEW u \in unroutes, Unroute(u) PROVE PresentDone'
  <2>1. UNCHANGED <<paths, present>> /\ (phase' = phase \/ phase' = "gone")
    BY <1>13 DEF Unroute, senderVars
  <2>2. ~ \E p \in Path : Select(p)
    BY <2>1, SelectAdds DEF attempt
  <2> QED
    BY <2>1, <2>2, DoneStays DEF path, attempt
<1>14. CASE Lose
  <2>1. UNCHANGED <<paths, present>> /\ (phase' = phase \/ phase' = "gone")
    BY <1>14 DEF Lose, senderVars
  <2>2. ~ \E p \in Path : Select(p)
    BY <2>1, SelectAdds DEF attempt
  <2> QED
    BY <2>1, <2>2, DoneStays DEF path, attempt
<1>15. ASSUME NEW s \in answers, ResultArrives(s) PROVE PresentDone'
  <2>1. UNCHANGED <<paths, present>> /\ (phase' = phase \/ phase' = "gone")
    BY <1>15 DEF ResultArrives, senderVars
  <2>2. ~ \E p \in Path : Select(p)
    BY <2>1, SelectAdds DEF attempt
  <2> QED
    BY <2>1, <2>2, DoneStays DEF path, attempt
<1>16. ASSUME NEW r \in Router, Confirm(r) PROVE PresentDone'
  <2>1. UNCHANGED <<paths, present>> /\ (phase' = phase \/ phase' = "gone")
    BY <1>16 DEF Confirm, senderVars
  <2>2. ~ \E p \in Path : Select(p)
    BY <2>1, SelectAdds DEF attempt
  <2> QED
    BY <2>1, <2>2, DoneStays DEF path, attempt
<1>17. CASE UNCHANGED vars
  <2>1. UNCHANGED <<paths, present>> /\ (phase' = phase \/ phase' = "gone")
    BY <1>17 DEF vars, senderVars
  <2>2. ~ \E p \in Path : Select(p)
    BY <2>1, SelectAdds DEF attempt
  <2> QED
    BY <2>1, <2>2, DoneStays DEF path, attempt
<1> QED BY <1>1, <1>2, <1>3, <1>4, <1>5, <1>6, <1>7, <1>8, <1>9,
           <1>10, <1>11, <1>12, <1>13, <1>14, <1>15, <1>16, <1>17 DEF Next

\* All of them were present when the circuit was made.
LEMMA CreatedDoneKept ==
    ASSUME CircuitInv, [Next]_vars
    PROVE  CreatedDone'
<1> USE DEF CircuitInv, CreatedDone
<1>1. ASSUME NEW p \in Path, Select(p) PROVE CreatedDone'
  BY <1>1 DEF Select
<1>2. CASE SelectFails
  <2>1. UNCHANGED <<paths, present>> /\ (phase' = phase \/ phase' = "gone")
    BY <1>2 DEF SelectFails, senderVars
  <2>2. ~ \E p \in Path : Select(p)
    BY <2>1, SelectAdds DEF attempt
  <2> QED
    BY <2>1, <2>2, DoneStays DEF path, attempt
<1>3. CASE TakeSuccess
  <2>1. Nodes(path)' = Nodes(path)
    BY <1>3 DEF TakeSuccess, path, attempt
  <2>2. phase' = "created" => Nodes(path) \subseteq present'
    BY <1>3 DEF TakeSuccess, Created, Attended
  <2> QED
    BY <1>3, <2>1, <2>2, SuccessDone
<1>4. CASE TakeFailure
  BY <1>4 DEF TakeFailure, AttemptFails
<1>5. CASE TakeAlien
  <2>1. UNCHANGED <<paths, present>> /\ (phase' = phase \/ phase' = "gone")
    BY <1>5 DEF TakeAlien, senderVars
  <2>2. ~ \E p \in Path : Select(p)
    BY <2>1, SelectAdds DEF attempt
  <2> QED
    BY <2>1, <2>2, DoneStays DEF path, attempt
<1>6. CASE TimesOut
  BY <1>6 DEF TimesOut, AttemptFails
<1>7. CASE RemoveSender
  <2>1. paths' = paths /\ present' = {} /\ phase' = phase
    BY <1>7 DEF RemoveSender, senderVars
  <2>2. ~ \E p \in Path : Select(p)
    BY <2>1, SelectAdds DEF attempt
  <2> QED
    BY <2>1, <2>2, DoneStays DEF path, attempt
<1>8. CASE RemoveCircuit
  <2>1. UNCHANGED <<paths, present>> /\ (phase' = phase \/ phase' = "gone")
    BY <1>8 DEF RemoveCircuit, senderVars
  <2>2. ~ \E p \in Path : Select(p)
    BY <2>1, SelectAdds DEF attempt
  <2> QED
    BY <2>1, <2>2, DoneStays DEF path, attempt
<1>9. ASSUME NEW m \in sent, LookUp(m) PROVE CreatedDone'
  <2>1. UNCHANGED <<paths, present>> /\ (phase' = phase \/ phase' = "gone")
    BY <1>9 DEF LookUp, senderVars
  <2>2. ~ \E p \in Path : Select(p)
    BY <2>1, SelectAdds DEF attempt
  <2> QED
    BY <2>1, <2>2, DoneStays DEF path, attempt
<1>10. ASSUME NEW m \in sent, DialFails(m) PROVE CreatedDone'
  <2>1. UNCHANGED <<paths, present>> /\ (phase' = phase \/ phase' = "gone")
    BY <1>10 DEF DialFails, senderVars
  <2>2. ~ \E p \in Path : Select(p)
    BY <2>1, SelectAdds DEF attempt
  <2> QED
    BY <2>1, <2>2, DoneStays DEF path, attempt
<1>11. ASSUME NEW f \in filling, Fill(f) PROVE CreatedDone'
  <2>1. UNCHANGED <<paths, present>> /\ (phase' = phase \/ phase' = "gone")
    BY <1>11 DEF Fill, senderVars
  <2>2. ~ \E p \in Path : Select(p)
    BY <2>1, SelectAdds DEF attempt
  <2> QED
    BY <2>1, <2>2, DoneStays DEF path, attempt
<1>12. ASSUME NEW f \in filling, FillFails(f) PROVE CreatedDone'
  <2>1. UNCHANGED <<paths, present>> /\ (phase' = phase \/ phase' = "gone")
    BY <1>12 DEF FillFails, senderVars
  <2>2. ~ \E p \in Path : Select(p)
    BY <2>1, SelectAdds DEF attempt
  <2> QED
    BY <2>1, <2>2, DoneStays DEF path, attempt
<1>13. ASSUME NEW u \in unroutes, Unroute(u) PROVE CreatedDone'
  <2>1. UNCHANGED <<paths, present>> /\ (phase' = phase \/ phase' = "gone")
    BY <1>13 DEF Unroute, senderVars
  <2>2. ~ \E p \in Path : Select(p)
    BY <2>1, SelectAdds DEF attempt
  <2> QED
    BY <2>1, <2>2, DoneStays DEF path, attempt
<1>14. CASE Lose
  <2>1. UNCHANGED <<paths, present>> /\ (phase' = phase \/ phase' = "gone")
    BY <1>14 DEF Lose, senderVars
  <2>2. ~ \E p \in Path : Select(p)
    BY <2>1, SelectAdds DEF attempt
  <2> QED
    BY <2>1, <2>2, DoneStays DEF path, attempt
<1>15. ASSUME NEW s \in answers, ResultArrives(s) PROVE CreatedDone'
  <2>1. UNCHANGED <<paths, present>> /\ (phase' = phase \/ phase' = "gone")
    BY <1>15 DEF ResultArrives, senderVars
  <2>2. ~ \E p \in Path : Select(p)
    BY <2>1, SelectAdds DEF attempt
  <2> QED
    BY <2>1, <2>2, DoneStays DEF path, attempt
<1>16. ASSUME NEW r \in Router, Confirm(r) PROVE CreatedDone'
  <2>1. UNCHANGED <<paths, present>> /\ (phase' = phase \/ phase' = "gone")
    BY <1>16 DEF Confirm, senderVars
  <2>2. ~ \E p \in Path : Select(p)
    BY <2>1, SelectAdds DEF attempt
  <2> QED
    BY <2>1, <2>2, DoneStays DEF path, attempt
<1>17. CASE UNCHANGED vars
  <2>1. UNCHANGED <<paths, present>> /\ (phase' = phase \/ phase' = "gone")
    BY <1>17 DEF vars, senderVars
  <2>2. ~ \E p \in Path : Select(p)
    BY <2>1, SelectAdds DEF attempt
  <2> QED
    BY <2>1, <2>2, DoneStays DEF path, attempt
<1> QED BY <1>1, <1>2, <1>3, <1>4, <1>5, <1>6, <1>7, <1>8, <1>9,
           <1>10, <1>11, <1>12, <1>13, <1>14, <1>15, <1>16, <1>17 DEF Next

\* A router of the circuit has no answer to this attempt left to send.
LEMMA OnlyLateAnswersUnrouteKept ==
    ASSUME CircuitInv, [Next]_vars
    PROVE  OnlyLateAnswersUnroute'
<1> USE DEF CircuitInv, OnlyLateAnswersUnroute, senderVars, routerVars, wireVars,
        path, attempt
<1>1. ASSUME NEW p \in Path, Select(p) PROVE OnlyLateAnswersUnroute'
  BY <1>1 DEF Select
<1>2. CASE SelectFails
  BY <1>2 DEF SelectFails
<1>3. CASE TakeSuccess
  BY <1>3 DEF TakeSuccess, Created, UnrouteTo, Quiet
<1>4. CASE TakeFailure
  BY <1>4 DEF TakeFailure, AttemptFails
<1>5. CASE TakeAlien
  BY <1>5 DEF TakeAlien
<1>6. CASE TimesOut
  BY <1>6 DEF TimesOut, AttemptFails
<1>7. CASE RemoveSender
  BY <1>7 DEF RemoveSender
<1>8. CASE RemoveCircuit
  BY <1>8 DEF RemoveCircuit
<1>9. ASSUME NEW m \in sent, LookUp(m) PROVE OnlyLateAnswersUnroute'
  BY <1>9 DEF LookUp
<1>10. ASSUME NEW m \in sent, DialFails(m) PROVE OnlyLateAnswersUnroute'
  BY <1>10 DEF DialFails
<1>11. ASSUME NEW f \in filling, Fill(f) PROVE OnlyLateAnswersUnroute'
  BY <1>11 DEF Fill
<1>12. ASSUME NEW f \in filling, FillFails(f) PROVE OnlyLateAnswersUnroute'
  BY <1>12 DEF FillFails
<1>13. ASSUME NEW u \in unroutes, Unroute(u) PROVE OnlyLateAnswersUnroute'
  BY <1>13 DEF Unroute
<1>14. CASE Lose
  BY <1>14 DEF Lose
<1>15. ASSUME NEW s \in answers, ResultArrives(s) PROVE OnlyLateAnswersUnroute'
  <2> SUFFICES ASSUME phase = "created", s.router \in Nodes(path), ~listening
               PROVE  s.attempt \in 1 .. attempt - 1
    BY <1>15 DEF ResultArrives, UnrouteTo
  <2>1. s.attempt \in 1 .. attempt /\ attempt \in Nat
    BY DEF OfAttempts, Known, TypeOK
  <2>2. s.attempt # attempt
    BY DEF CreatedDone, Outstanding
  <2> QED BY <2>1, <2>2
<1>16. ASSUME NEW r \in Router, Confirm(r) PROVE OnlyLateAnswersUnroute'
  BY <1>16 DEF Confirm, Confirmed, UnrouteTo
<1>17. CASE UNCHANGED vars
  BY <1>17 DEF vars
<1> QED BY <1>1, <1>2, <1>3, <1>4, <1>5, <1>6, <1>7, <1>8, <1>9,
           <1>10, <1>11, <1>12, <1>13, <1>14, <1>15, <1>16, <1>17 DEF Next

\* A router that takes part for the first time belongs to no earlier attempt.
LEMMA FirstIsLast ==
    ASSUME CircuitInv, NEW r, FirstTimer(r), NEW m, Known(m), m.router = r
    PROVE  m.attempt = attempt
<1>1. attempt \in Nat /\ m.attempt \in 1 .. attempt
  BY DEF CircuitInv, TypeOK, Known, attempt
<1>2. r \in Nodes(paths[m.attempt])
  BY DEF Known
<1>3. m.attempt \notin 1 .. attempt - 1
  BY <1>2 DEF FirstTimer
<1> QED BY <1>1, <1>3

\* And it has not succeeded as long as its route is being set up.
LEMMA FirstFilling ==
    ASSUME CircuitInv, phase \in {"routing", "created"},
           NEW f \in filling, FirstTimer(f.router)
    PROVE  f.attempt = attempt /\ ~Succeeded(f.router)
<1>1. f.attempt = attempt
  BY FirstIsLast DEF CircuitInv, OfAttempts
<1>2. Outstanding(f.router, attempt)
  BY <1>1 DEF Outstanding
<1>3. f.router \notin present /\ phase # "created"
  BY <1>2 DEF CircuitInv, PresentDone, CreatedDone, FirstTimer
<1>4. \A s \in answers : s.router # f.router
  BY <1>1, FirstIsLast DEF CircuitInv, OfAttempts, Once, Same
<1>5. \A i \in DOMAIN inbox : inbox[i].router # f.router
  BY <1>1, FirstIsLast DEF CircuitInv, OfAttempts, Once, Same
<1> QED BY <1>1, <1>3, <1>4, <1>5 DEF Succeeded

\* Nor does an unroute go to it.
LEMMA FirstStays ==
    ASSUME CircuitInv, phase \in {"routing", "created"}, NEW u \in unroutes
    PROVE  ~FirstTimer(u.router)
<1>1. phase = "created"
  BY DEF CircuitInv, Quiet
<1>2. CASE u.router \in Nodes(path)
  <2>1. u.by \in 1 .. attempt - 1
    BY <1>1, <1>2 DEF CircuitInv, OnlyLateAnswersUnroute
  <2>2. u.router \in Nodes(paths[u.by])
    BY <2>1 DEF CircuitInv, OfAttempts, Decided
  <2> QED BY <2>1, <2>2 DEF FirstTimer
<1> QED BY <1>2 DEF FirstTimer

\* A step that neither changes a table nor counts as the success of another
\* router leaves the routes as they are.
LEMMA RoutesStay ==
    ASSUME CircuitInv, UNCHANGED <<paths, tables, current>>,
           phase' \in {"routing", "created"} => phase \in {"routing", "created"},
           phase' \in {"routing", "created"} =>
               \A r \in Nodes(path) : Succeeded(r)' => Succeeded(r)
    PROVE  RoutedFirst'
<1>1. attempt' = attempt /\ path' = path
  BY DEF attempt, path
<1>2. \A r : FirstTimer(r)' => FirstTimer(r)
  BY <1>1 DEF FirstTimer
<1>3. \A r : Routed(r) => Routed(r)'
  BY <1>1 DEF Routed
<1>4. \A r : FirstTimer(r) => r \in Nodes(path)
  BY DEF FirstTimer
<1> QED BY <1>2, <1>3, <1>4 DEF CircuitInv, RoutedFirst


\* A first-timer that has succeeded keeps its route.
LEMMA RoutedFirstKept ==
    ASSUME CircuitInv, [Next]_vars
    PROVE  RoutedFirst'
<1> USE DEF CircuitInv
<1>1. ASSUME NEW p \in Path, Select(p) PROVE RoutedFirst'
  <2>1. ASSUME NEW r \in Router, FirstTimer(r)' PROVE ~Succeeded(r)'
    <3>1. r \in Nodes(p) /\ \A a \in 1 .. attempt : r \notin Nodes(paths[a])
      BY <1>1, <2>1, SelectAdds DEF FirstTimer
    <3>2. \A k : Known(k) => k.router # r
      BY <3>1 DEF Known
    <3>3. /\ r \notin present'
          /\ phase' # "created" /\ answers' = answers /\ inbox' = inbox
      BY <1>1, <3>1 DEF Select
    <3> QED BY <3>2, <3>3 DEF OfAttempts, Succeeded
  <2> QED BY <2>1 DEF RoutedFirst
<1>2. CASE SelectFails
  BY <1>2 DEF SelectFails, RoutedFirst
<1>3. CASE TakeSuccess
  <2>1. \A r \in Nodes(path) : Succeeded(r)' => Succeeded(r)
    <3> DEFINE h == Head(inbox)
    <3>1. /\ h = inbox[1] /\ 1 \in DOMAIN inbox /\ h.ok
          /\ \A i \in DOMAIN inbox' : i + 1 \in DOMAIN inbox /\ inbox'[i] = inbox[i + 1]
      BY <1>3, TailHolds DEF TakeSuccess, Takes, TypeOK
    <3>2. /\ answers' = answers /\ present' = present \cup {h.router}
          /\ phase' = "created" => Nodes(path) \subseteq present'
      BY <1>3 DEF TakeSuccess, Created, Attended
    <3> HIDE DEF h
    <3> QED BY <3>1, <3>2 DEF Succeeded
  <2> QED
    BY <1>3, <2>1, RoutesStay DEF TakeSuccess, routerVars
<1>4. CASE TakeFailure
  BY <1>4 DEF TakeFailure, AttemptFails, RoutedFirst
<1>5. CASE TakeAlien
  <2>1. \A r \in Nodes(path) :
           Succeeded(r)' => Succeeded(r) \/ phase' \notin {"routing", "created"}
    BY <1>5, TailHolds DEF TakeAlien, TypeOK, Succeeded, senderVars, wireVars
  <2> QED
    BY <1>5, <2>1, RoutesStay DEF TakeAlien, senderVars, routerVars
<1>6. CASE TimesOut
  BY <1>6 DEF TimesOut, AttemptFails, RoutedFirst
<1>7. CASE RemoveSender
  <2>1. \A r \in Nodes(path) :
           Succeeded(r)' => Succeeded(r) \/ phase' \notin {"routing", "created"}
    BY <1>7 DEF RemoveSender, Succeeded, senderVars, wireVars
  <2> QED
    BY <1>7, <2>1, RoutesStay DEF RemoveSender, senderVars, routerVars
<1>8. CASE RemoveCircuit
  BY <1>8 DEF RemoveCircuit, RoutedFirst
<1>9. ASSUME NEW m \in sent, LookUp(m) PROVE RoutedFirst'
  <2>1. \A r \in Nodes(path) :
           Succeeded(r)' => Succeeded(r) \/ phase' \notin {"routing", "created"}
    BY <1>9 DEF LookUp, Succeeded, senderVars, wireVars
  <2> QED
    BY <1>9, <2>1, RoutesStay DEF LookUp, senderVars, routerVars
<1>10. ASSUME NEW m \in sent, DialFails(m) PROVE RoutedFirst'
  <2>0. Answer(m, FALSE).ok = FALSE
    BY AnswerSame
  <2>1. \A r \in Nodes(path) : Succeeded(r)' => Succeeded(r)
    BY <1>10, <2>0 DEF DialFails, Succeeded, senderVars
  <2> QED
    BY <1>10, <2>1, RoutesStay DEF DialFails, senderVars, routerVars
<1>11. ASSUME NEW f \in filling, Fill(f) PROVE RoutedFirst'
  <2>1. /\ answers' = answers \cup {Answer(f, TRUE)} /\ UNCHANGED <<inbox, paths, phase, present>>
        /\ Answer(f, TRUE).router = f.router
    BY <1>11, AnswerSame DEF Fill, senderVars
  <2>2. attempt' = attempt /\ path' = path
    BY <2>1 DEF attempt, path
  <2> SUFFICES ASSUME NEW r \in Router, phase \in {"routing", "created"},
                      FirstTimer(r), Succeeded(r)'
               PROVE  Routed(r)'
    BY <2>1, <2>2 DEF RoutedFirst, FirstTimer
  <2>3. CASE r = f.router
    <3> DEFINE fs == Forwards(paths[f.attempt], f.attempt, f.router)
    <3>1. f.attempt = attempt /\ fs = Forwards(path, attempt, r)
      BY <2>3, FirstFilling DEF path
    <3>2. /\ f.router \in Router /\ f.into \in Attempt /\ f.into # NoTable
          /\ tables \in [Router -> [Attempt -> SUBSET Entries]]
          /\ current \in [Router -> Attempt \cup {NoTable}]
      BY DEF TypeOK, Attempt, NoTable
    <3>3. /\ tables' = [tables EXCEPT ![f.router][f.into] = Overwrite(@, fs)]
          /\ current' = [current EXCEPT ![f.router] = f.into]
      BY <1>11 DEF Fill
    <3>4. fs \subseteq Overwrite(tables[f.router][f.into], fs)
      BY DEF Overwrite
    <3> HIDE DEF fs
    <3>5. /\ current'[r] = f.into
          /\ tables'[r][f.into] = Overwrite(tables[f.router][f.into], fs)
      BY <2>3, <3>2, <3>3
    <3> QED BY <2>2, <3>1, <3>2, <3>4, <3>5 DEF Routed
  <2>4. CASE r # f.router
    <3>1. Routed(r)
      BY <2>1, <2>4 DEF Succeeded, RoutedFirst
    <3>2. current'[r] = current[r] /\ tables'[r] = tables[r]
      BY <1>11, <2>4 DEF Fill, TypeOK
    <3> QED BY <2>2, <3>1, <3>2 DEF Routed
  <2> QED BY <2>3, <2>4
<1>12. ASSUME NEW f \in filling, FillFails(f) PROVE RoutedFirst'
  <2>1. /\ answers' = answers \cup {Answer(f, FALSE)} /\ UNCHANGED <<inbox, paths, phase, present, current>>
        /\ Answer(f, FALSE).router = f.router /\ Answer(f, FALSE).ok = FALSE
    BY <1>12, AnswerSame DEF FillFails, senderVars
  <2>2. attempt' = attempt /\ path' = path
    BY <2>1 DEF attempt, path
  <2> SUFFICES ASSUME NEW r \in Router, phase \in {"routing", "created"},
                      FirstTimer(r), Succeeded(r)'
               PROVE  Routed(r)'
    BY <2>1, <2>2 DEF RoutedFirst, FirstTimer
  <2>3. Succeeded(r)
    BY <2>1 DEF Succeeded
  <2>4. r # f.router
    BY <2>3, FirstFilling
  <2>5. tables'[r] = tables[r]
    BY <1>12, <2>4 DEF FillFails, TypeOK
  <2> QED BY <2>1, <2>2, <2>3, <2>5 DEF Routed, RoutedFirst
<1>13. ASSUME NEW u \in unroutes, Unroute(u) PROVE RoutedFirst'
  <2>1. UNCHANGED <<answers, inbox, paths, phase, present, tables>>
    BY <1>13 DEF Unroute, senderVars
  <2>2. attempt' = attempt /\ path' = path
    BY <2>1 DEF attempt, path
  <2> SUFFICES ASSUME NEW r \in Router, phase \in {"routing", "created"},
                      FirstTimer(r), Succeeded(r)'
               PROVE  Routed(r)'
    BY <2>1, <2>2 DEF RoutedFirst, FirstTimer
  <2>3. Succeeded(r)
    BY <2>1 DEF Succeeded
  <2>4. r # u.router
    BY FirstStays
  <2>5. current'[r] = current[r]
    BY <1>13, <2>4 DEF Unroute, TypeOK
  <2> QED BY <2>1, <2>2, <2>3, <2>5 DEF Routed, RoutedFirst
<1>14. CASE Lose
  <2>1. \A r \in Nodes(path) :
           Succeeded(r)' => Succeeded(r) \/ phase' \notin {"routing", "created"}
    BY <1>14 DEF Lose, Succeeded, senderVars, wireVars
  <2> QED
    BY <1>14, <2>1, RoutesStay DEF Lose, senderVars, routerVars
<1>15. ASSUME NEW s \in answers, ResultArrives(s) PROVE RoutedFirst'
  <2>1. phase \in {"routing", "created"} => \A r \in Nodes(path) : Succeeded(r)' => Succeeded(r)
    <3>1. CASE listening
      <4>1. inbox \in Seq(Result) /\ s \in Result /\ inbox' = Append(inbox, s)
        BY <1>15, <3>1 DEF TypeOK, ResultArrives
      <4>2. \A i \in DOMAIN inbox' :
               inbox'[i] = s \/ (i \in DOMAIN inbox /\ inbox'[i] = inbox[i])
        BY <4>1, AppendOld
      <4> QED BY <1>15, <4>2 DEF ResultArrives, Succeeded, senderVars
    <3>2. CASE ~listening
      BY <3>2 DEF Quiet, Succeeded
    <3> QED BY <3>1, <3>2
  <2> QED
    BY <1>15, <2>1, RoutesStay DEF ResultArrives, senderVars, routerVars
<1>16. ASSUME NEW q \in Router, Confirm(q) PROVE RoutedFirst'
  <2>1. \A r \in Nodes(path) :
           Succeeded(r)' => Succeeded(r) \/ phase' \notin {"routing", "created"}
    BY <1>16 DEF Confirm, Succeeded, senderVars, wireVars
  <2> QED
    BY <1>16, <2>1, RoutesStay DEF Confirm, senderVars, routerVars
<1>17. CASE UNCHANGED vars
  <2>1. \A r \in Nodes(path) : Succeeded(r)' => Succeeded(r)
    BY <1>17 DEF vars, senderVars, wireVars, Succeeded
  <2> QED
    BY <1>17, <2>1, RoutesStay DEF vars, senderVars, routerVars
<1> QED BY <1>1, <1>2, <1>3, <1>4, <1>5, <1>6, <1>7, <1>8, <1>9,
           <1>10, <1>11, <1>12, <1>13, <1>14, <1>15, <1>16, <1>17 DEF Next

-------------------------------------------------------------------------------
\* The invariant is inductive, for all constants that CircuitAssumption allows.
THEOREM CircuitInvariant == Spec => []CircuitInv
<1>1. Init => CircuitInv
  <2> SUFFICES ASSUME Init PROVE CircuitInv
    OBVIOUS
  <2>1. TypeOK
    <3>1. <<>> \in Seq(Path) /\ <<>> \in Seq(Result) /\ Len(<<>>) = 0
      OBVIOUS
    <3>2. paths = <<>> /\ inbox = <<>> /\ attempt = 0
      BY <3>1 DEF Init, attempt
    <3> QED
      BY <3>1, <3>2, AttemptsCounted DEF Init, TypeOK
  <2>2. AttemptLeft
    BY AttemptsCounted DEF Init, AttemptLeft, attempt
  <2>3. OfAttempts /\ Once
    BY DEF Init, OfAttempts, Once
  <2> QED
    BY <2>1, <2>2, <2>3 DEF Init, CircuitInv, Attended, Quiet, PresentDone,
       CreatedDone, OnlyLateAnswersUnroute, RoutedFirst
<1>2. CircuitInv /\ [Next]_vars => CircuitInv'
  BY TypeKept, AttemptLeftKept, OfAttemptsKept, OnceKept, AttendedKept, QuietKept,
     PresentDoneKept, CreatedDoneKept, OnlyLateAnswersUnrouteKept,
     RoutedFirstKept DEF CircuitInv
<1> QED BY <1>1, <1>2, PTL DEF Spec

\* The variables have their types.
THEOREM CircuitTypeCorrect == Spec => []TypeOK
<1>1. CircuitInv => TypeOK
  BY DEF CircuitInv
<1> QED BY <1>1, CircuitInvariant, PTL

\* A circuit keeps its route in every router that took part in no attempt
\* before: nothing that is late, lost or failed in another attempt touches it.
THEOREM RouteCorrect == Spec => []RouteHolds
<1>1. CircuitInv => RouteHolds
  BY DEF CircuitInv, RoutedFirst, RouteHolds, Succeeded, Routed
<1> QED BY <1>1, CircuitInvariant, PTL

\* Only the answer to an abandoned attempt takes a router out of a circuit.
THEOREM UnroutesCorrect == Spec => []OnlyLateAnswersUnroute
<1>1. CircuitInv => OnlyLateAnswersUnroute
  BY DEF CircuitInv
<1> QED BY <1>1, CircuitInvariant, PTL

\* A circuit is made of the answers of its own attempt.
THEOREM AnswersCorrect == Spec => []PresentHasAnswered
<1>1. CircuitInv => PresentHasAnswered
  BY DEF CircuitInv, PresentDone, CreatedDone, PresentHasAnswered
<1> QED BY <1>1, CircuitInvariant, PTL
===============================================================================
