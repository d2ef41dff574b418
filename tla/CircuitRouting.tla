---------------------------- MODULE CircuitRouting ----------------------------
(***************************************************************************)
(* The creation of a circuit by the OpenZiti controller: CreateCircuit     *)
(* (controller/network/network.go) and its route sender (routesender.go),  *)
(* the routers that set up and remove routes (router/handler_ctrl,         *)
(* router/forwarder), and the handlers of their answers                    *)
(* (controller/handler_ctrl).                                              *)
(*                                                                         *)
(* A route message leaves on a goroutine of its own and is worked on by a  *)
(* pool of the router; its answer is handled on a goroutine too.  Routes,  *)
(* unroutes and answers of one router are therefore in no order, and those *)
(* of an attempt that was abandoned meet those of the next.                *)
(*                                                                         *)
(* Left out: reroutes, the destinations that the tables point to, the      *)
(* dialing of the terminator but for its failure, and the limit of 16      *)
(* answers that a route sender keeps.                                      *)
(***************************************************************************)
EXTENDS Naturals, Sequences

CONSTANTS
    Router,
    Path,        \* the paths, sequences of routers, that may be selected
    Retries,     \* the option createCircuitRetries
    MaxTroubles  \* bound: messages that are lost and routes that fail

LastAttempt == IF Retries = 0 THEN 1 ELSE Retries

\* The code counts attempts from 0.
Attempt == 1 .. LastAttempt

\* The router has no forward table for the circuit.
NoTable == 0

Nodes(p) == {p[i] : i \in DOMAIN p}

ASSUME CircuitAssumption ==
    /\ Retries \in Nat /\ MaxTroubles \in Nat
    /\ Path \subseteq Seq(Router)
    /\ \A p \in Path : p # <<>>

VARIABLES
    phase,     \* where CreateCircuit is
    paths,     \* the paths of its attempts so far
    awaited,   \* routeSender.attendance: the routers that are not there
    present,   \* and those that are
    cleanups,  \* allCleanups
    listening, \* the controller finds the route sender
    sent,      \* route messages on their way or in the pool
    filling,   \* routes that are being set up, and in which table
    tables,    \* the forward tables a router has made
    current,   \* the one in its circuit table
    answers,   \* results on their way to the controller
    inbox,     \* routeSender.in
    unroutes,  \* unroute messages on their way
    troubles   \* messages lost and routes failed so far

senderVars == <<phase, paths, awaited, present, cleanups, listening>>
routerVars == <<filling, tables, current>>
wireVars   == <<sent, answers, unroutes>>
vars       == <<senderVars, routerVars, wireVars, inbox, troubles>>

attempt == Len(paths)
path    == paths[attempt]

\* The addresses of a path.  Its ends have new ids in every attempt; a link has
\* always the same.
Address(p, a, i) ==
    IF i = 0 THEN <<"ingress", a>>
    ELSE IF i = Len(p) THEN <<"egress", a>>
    ELSE <<"link", {p[i], p[i + 1]}>>

\* The forwards of a router: from the address before it to the one behind it,
\* and back.
Forwards(p, a, r) ==
    UNION {{[src |-> Address(p, a, i - 1), dst |-> Address(p, a, i)],
            [src |-> Address(p, a, i), dst |-> Address(p, a, i - 1)]} :
           i \in {j \in DOMAIN p : p[j] = r}}

\* A table maps a source to one destination: what is set replaces what was.
Overwrite(table, forwards) ==
    {e \in table : \A f \in forwards : e.src # f.src} \cup forwards

Init ==
    /\ phase = "select" /\ paths = <<>>
    /\ awaited = {} /\ present = {} /\ cleanups = {}
    /\ listening = TRUE
    /\ sent = {} /\ filling = {}
    /\ tables = [r \in Router |-> [a \in Attempt |-> {}]]
    /\ current = [r \in Router |-> NoTable]
    /\ answers = {} /\ inbox = <<>> /\ unroutes = {}
    /\ troubles = 0

Trouble == troubles < MaxTroubles /\ troubles' = troubles + 1

-------------------------------------------------------------------------------
(* The controller creates the circuit.                                     *)

\* An attempt: a path, its route messages, and the attendance of its routers.
\* Those of earlier paths stay in the attendance.
Select(p) ==
    /\ phase = "select"
    /\ phase' = "routing"
    /\ paths' = Append(paths, p)
    /\ sent' = sent \cup {[router |-> r, attempt |-> attempt + 1] : r \in Nodes(p)}
    /\ awaited' = awaited \cup Nodes(p)
    /\ present' = present \ Nodes(p)
    /\ UNCHANGED <<cleanups, listening, routerVars, answers, unroutes,
                   inbox, troubles>>

\* No service, terminator or path: the routers of earlier attempts keep what
\* they have.
SelectFails ==
    /\ phase = "select"
    /\ phase' = "gone"
    /\ UNCHANGED <<paths, awaited, present, cleanups, listening, routerVars,
                   wireVars, inbox, troubles>>

\* What makes the controller send an unroute: an answer to an attempt, or its own
\* decision.
Decided == 0

UnrouteTo(R, why) == {[router |-> r, by |-> why] : r \in R}

\* Mutant: one attempt too many.
AttemptFailsLate ==
    LET all == cleanups \cup (Nodes(path) \cap present)
    IN  /\ cleanups' = all
        /\ IF attempt <= Retries
           THEN phase' = "select" /\ UNCHANGED unroutes
           ELSE phase' = "gone" /\ unroutes' = unroutes \cup UnrouteTo(all, Decided)

\* The routers of the path that have answered are to be cleaned up, now if
\* this was the last attempt.
AttemptFails ==
    LET all == cleanups \cup (Nodes(path) \cap present)
    IN  /\ cleanups' = all
        /\ IF attempt < Retries
           THEN phase' = "select" /\ UNCHANGED unroutes
           ELSE phase' = "gone" /\ unroutes' = unroutes \cup UnrouteTo(all, Decided)

\* Mutant: routers of the path are cleaned up with those that were abandoned.
CreatedCleansAll ==
    /\ phase' = "created"
    /\ unroutes' = unroutes \cup UnrouteTo(cleanups, Decided)

\* All are present: the routers that were abandoned are unrouted.
Created ==
    /\ phase' = "created"
    /\ unroutes' = unroutes \cup UnrouteTo(cleanups \ Nodes(path), Decided)

\* Mutant: the answer to any attempt will do.
TakesAny(s) == s.ok

\* handleRouteSend: a success of this attempt.
Takes(s) == s.ok /\ s.attempt = attempt

TakeSuccess ==
    /\ phase = "routing" /\ inbox # <<>> /\ Takes(Head(inbox))
    /\ inbox' = Tail(inbox)
    /\ awaited' = awaited \ {Head(inbox).router}
    /\ present' = present \cup {Head(inbox).router}
    /\ IF awaited' = {} THEN Created ELSE UNCHANGED <<phase, unroutes>>
    /\ UNCHANGED <<paths, cleanups, listening, routerVars, sent, answers,
                   troubles>>

TakeFailure ==
    /\ phase = "routing" /\ inbox # <<>>
    /\ ~Head(inbox).ok /\ Head(inbox).attempt = attempt
    /\ inbox' = Tail(inbox)
    /\ AttemptFails
    /\ UNCHANGED <<paths, awaited, present, listening, routerVars, sent, answers, troubles>>

TakeAlien ==
    /\ phase = "routing" /\ inbox # <<>>
    /\ Head(inbox).attempt # attempt /\ ~Takes(Head(inbox))
    /\ inbox' = Tail(inbox)
    /\ UNCHANGED <<senderVars, routerVars, wireVars, troubles>>

TimesOut ==
    /\ phase = "routing"
    /\ AttemptFails
    /\ UNCHANGED <<paths, awaited, present, listening, routerVars, sent, answers, inbox, troubles>>

\* CreateCircuit returns, and with it ends all that belongs to the creation.
RemoveSender ==
    /\ phase \in {"created", "gone"} /\ listening
    /\ listening' = FALSE
    /\ awaited' = {} /\ present' = {} /\ cleanups' = {}
    /\ inbox' = <<>>
    /\ UNCHANGED <<phase, paths, routerVars, wireVars, troubles>>

\* The circuit ends.
RemoveCircuit ==
    /\ phase = "created" /\ ~listening
    /\ phase' = "gone"
    /\ unroutes' = unroutes \cup UnrouteTo(Nodes(path), Decided)
    /\ UNCHANGED <<paths, awaited, present, cleanups, listening, routerVars, sent,
                   answers, inbox, troubles>>

-------------------------------------------------------------------------------
(* A router sets up and removes routes.                                    *)

\* Forwarder.Route gets the table of the circuit, or makes one.
LookUp(m) ==
    /\ m \in sent
    /\ sent' = sent \ {m}
    /\ filling' = filling \cup
          {[router |-> m.router, attempt |-> m.attempt,
            into |-> IF current[m.router] = NoTable THEN m.attempt
                     ELSE current[m.router]]}
    /\ UNCHANGED <<senderVars, tables, current, answers, unroutes, inbox,
                   troubles>>

\* Answer(m, ok) is the result that a router sends.
Answer(m, ok) == [router |-> m.router, attempt |-> m.attempt, ok |-> ok]

\* It sets the addresses and puts the table in the place of whatever is there
\* now, also if an unroute has removed it meanwhile.
Fill(f) ==
    /\ f \in filling
    /\ filling' = filling \ {f}
    /\ tables' = [tables EXCEPT ![f.router][f.into] =
                     Overwrite(@, Forwards(paths[f.attempt], f.attempt, f.router))]
    /\ current' = [current EXCEPT ![f.router] = f.into]
    /\ answers' = answers \cup {Answer(f, TRUE)}
    /\ UNCHANGED <<senderVars, sent, unroutes, inbox, troubles>>

\* A destination is missing: the addresses before it stay set, in a table that
\* may be in use.
FillFails(f) ==
    /\ f \in filling /\ Trouble
    /\ filling' = filling \ {f}
    /\ LET all == Forwards(paths[f.attempt], f.attempt, f.router)
       IN  \E e \in SUBSET all \ {all} :
              tables' = [tables EXCEPT ![f.router][f.into] = Overwrite(@, e)]
    /\ answers' = answers \cup {Answer(f, FALSE)}
    /\ UNCHANGED <<senderVars, current, sent, unroutes, inbox>>

\* The terminator cannot be dialed.
DialFails(m) ==
    /\ m \in sent /\ Trouble
    /\ sent' = sent \ {m}
    /\ answers' = answers \cup {Answer(m, FALSE)}
    /\ UNCHANGED <<senderVars, routerVars, unroutes, inbox>>

Unroute(u) ==
    /\ u \in unroutes
    /\ unroutes' = unroutes \ {u}
    /\ current' = [current EXCEPT ![u.router] = NoTable]
    /\ UNCHANGED <<senderVars, filling, tables, sent, answers, inbox,
                   troubles>>

\* A router is not connected, the queue of its pool is full, or sending fails.
Lose ==
    /\ Trouble
    /\ \/ \E m \in sent : sent' = sent \ {m} /\ UNCHANGED <<answers, unroutes>>
       \/ \E s \in answers : answers' = answers \ {s} /\ UNCHANGED <<sent, unroutes>>
       \/ \E u \in unroutes : unroutes' = unroutes \ {u} /\ UNCHANGED <<sent, answers>>
    /\ UNCHANGED <<senderVars, routerVars, inbox>>

-------------------------------------------------------------------------------
(* The controller hears of results and of idle circuits.                   *)

\* A result that finds no route sender makes the router unroute the circuit.
\* One that finds it may still be queued too late to be read.
ResultArrives(s) ==
    /\ s \in answers
    /\ answers' = answers \ {s}
    /\ IF listening
       THEN inbox' = Append(inbox, s) /\ UNCHANGED unroutes
       ELSE /\ unroutes' = unroutes \cup UnrouteTo({s.router}, s.attempt)
            /\ UNCHANGED inbox
    /\ UNCHANGED <<senderVars, routerVars, sent, troubles>>

\* Mutant: the circuit is there.
ConfirmedAnywhere(r) == phase = "created"

\* Mutant: no circuit is looked up.
ConfirmedNever(r) == FALSE

\* The circuit is there and goes through the router.
Confirmed(r) == phase = "created" /\ r \in Nodes(path)

\* A router reports a circuit that has been idle for a minute, long after its
\* creation was over (Scanner.scan).
Confirm(r) ==
    /\ current[r] # NoTable /\ phase \in {"created", "gone"} /\ ~listening
    /\ ~Confirmed(r)
    /\ unroutes' = unroutes \cup UnrouteTo({r}, Decided)
    /\ UNCHANGED <<senderVars, routerVars, sent, answers, inbox, troubles>>

-------------------------------------------------------------------------------
Next ==
    \/ \E p \in Path : Select(p)
    \/ SelectFails \/ TakeSuccess \/ TakeFailure \/ TakeAlien \/ TimesOut
    \/ RemoveSender \/ RemoveCircuit
    \/ \E m \in sent : LookUp(m) \/ DialFails(m)
    \/ \E f \in filling : Fill(f) \/ FillFails(f)
    \/ \E u \in unroutes : Unroute(u)
    \/ Lose
    \/ \E s \in answers : ResultArrives(s)
    \/ \E r \in Router : Confirm(r)

Spec == Init /\ [][Next]_vars

\* The goroutine of CreateCircuit goes on and its timer fires, the routers do
\* what messages and timers ask for.  Nothing is said of results, whose place a
\* timeout takes.
Fairness ==
    /\ WF_vars(\/ \E p \in Path : Select(p)
               \/ SelectFails \/ TakeSuccess \/ TakeFailure \/ TakeAlien
               \/ TimesOut \/ RemoveSender)
    /\ WF_vars(\/ \E m \in sent : LookUp(m)
               \/ \E f \in filling : Fill(f)
               \/ \E u \in unroutes : Unroute(u))
    /\ WF_vars(\E r \in Router : Confirm(r))

FairSpec == Spec /\ Fairness

-------------------------------------------------------------------------------
Task    == [router : Router, attempt : Attempt]
Result  == [router : Router, attempt : Attempt, ok : BOOLEAN]
Entries == UNION {Forwards(p, a, r) : p \in Path, a \in Attempt, r \in Router}

TypeOK ==
    /\ phase \in {"select", "routing", "created", "gone"}
    /\ paths \in Seq(Path) /\ attempt <= LastAttempt
    /\ phase \in {"routing", "created"} => attempt > 0
    /\ awaited \subseteq Router /\ present \subseteq Router
    /\ cleanups \subseteq Router
    /\ listening \in BOOLEAN
    /\ sent \subseteq Task
    /\ filling \subseteq [router : Router, attempt : Attempt, into : Attempt]
    /\ tables \in [Router -> [Attempt -> SUBSET Entries]]
    /\ current \in [Router -> Attempt \cup {NoTable}]
    /\ answers \subseteq Result
    /\ inbox \in Seq(Result)
    /\ unroutes \subseteq [router : Router, by : Attempt \cup {Decided}]
    /\ troubles \in 0 .. MaxTroubles

\* The router has taken part in this attempt and in none before.
FirstTimer(r) ==
    /\ r \in Nodes(path)
    /\ \A a \in 1 .. attempt - 1 : r \notin Nodes(paths[a])

\* While a circuit exists, each of its routers forwards to its neighbours on the
\* path, both ways.  Only a router that took part in an earlier attempt may
\* lose that, or have it overwritten, when the route or the answer of that
\* attempt comes late (handleRouteResult).
RouteHolds ==
    phase = "created" =>
        \A r \in Router : FirstTimer(r) =>
            /\ current[r] # NoTable
            /\ Forwards(path, attempt, r) \subseteq tables[r][current[r]]

\* Nobody but the answer to an earlier attempt makes a router of an existing
\* circuit unroute it: neither the cleanup of abandoned routers nor the reports
\* of idle circuits do.
OnlyLateAnswersUnroute ==
    phase = "created" =>
        \A u \in unroutes : u.router \in Nodes(path) => u.by \in 1 .. attempt - 1

\* What is on its way of the work of a router in an attempt.
Outstanding(r, a) ==
    \/ [router |-> r, attempt |-> a] \in sent
    \/ \E f \in filling : f.router = r /\ f.attempt = a
    \/ \E s \in answers : s.router = r /\ s.attempt = a
    \/ \E i \in DOMAIN inbox : inbox[i].router = r /\ inbox[i].attempt = a

\* A router is marked present by its answer to this attempt, and to no other.
PresentHasAnswered ==
    phase \in {"routing", "created"} =>
        \A r \in Nodes(path) \cap present : ~Outstanding(r, attempt)

\* In the end a router has a table only for a circuit that exists and that goes
\* through it, although cleanups are skipped when no path is selected, answers
\* to abandoned attempts are ignored and unroutes get lost: the routers report
\* what is idle until it is gone.
AbandonedRoutesGo ==
    <>[](\A r \in Router :
            current[r] # NoTable => phase = "created" /\ r \in Nodes(path))

\* etc/ctrl.yml:76: the controller waits "for a route attempt to succeed".  It
\* waits only for routers of the attempt.
WaitsForAttempt ==
    phase = "routing" => \E r \in Nodes(path) : r \notin present
===============================================================================
