------------------------------- MODULE PacketLog ------------------------------
(***************************************************************************)
(* What the packet store of the hub promises to those who read it and      *)
(* listen to it: at most one batch of the simulation is active, its        *)
(* packets are recorded and then announced, the running flag is up only    *)
(* while it is active, packets of the overlay are recorded by whoever      *)
(* reads, and a reset empties everything while no batch is active.         *)
(* SimBatches implements it; SocDashboard is built on it.                  *)
(***************************************************************************)
EXTENDS Naturals

CONSTANT Batch

VARIABLES
    active,  \* the batch that is active, as a set
    running, \* the running flag
    log,     \* the packets that are recorded
    untold,  \* recorded and not yet announced to the listeners
    fresh,   \* packets of the overlay that are not recorded yet
    made     \* packets so far

logVars == <<active, running, log, untold, fresh, made>>

\* The id of the packets of the overlay: the second and the sequence number,
\* which is 0 for a denial.  They are all of one second here.
LiveId == 0

LogInit ==
    /\ active = {} /\ running = FALSE
    /\ log = {} /\ untold = {} /\ fresh = {}
    /\ made = 0

StartBatch(b) ==
    /\ active = {}
    /\ active' = {b}
    /\ UNCHANGED <<running, log, untold, fresh, made>>

EndBatch ==
    /\ ~running /\ untold = {}
    /\ active' = {}
    /\ UNCHANGED <<running, log, untold, fresh, made>>

\* The batch puts the flag up when it begins, and it or a handler takes it
\* down.
Flag(up) ==
    /\ up => active # {}
    /\ running' = up
    /\ UNCHANGED <<active, log, untold, fresh, made>>

Add ==
    LET r == [id |-> made + 1, nr |-> made + 1]
    IN  /\ active # {}
        /\ made' = made + 1
        /\ log' = log \cup {r} /\ untold' = untold \cup {r}
        /\ UNCHANGED <<active, running, fresh>>

Announce(r) ==
    /\ r \in untold
    /\ untold' = untold \ {r}
    /\ UNCHANGED <<active, running, log, fresh, made>>

Publish ==
    /\ made' = made + 1
    /\ fresh' = fresh \cup {[id |-> LiveId, nr |-> made + 1]}
    /\ UNCHANGED <<active, running, log, untold>>

Sync ==
    /\ log' = log \cup fresh /\ fresh' = {}
    /\ UNCHANGED <<active, running, untold, made>>

ResetLog ==
    /\ active = {}
    /\ running' = FALSE
    /\ log' = {} /\ fresh' = {}
    /\ UNCHANGED <<active, untold, made>>

LogNext ==
    \/ \E b \in Batch : StartBatch(b)
    \/ EndBatch \/ Add \/ Publish \/ Sync \/ ResetLog
    \/ \E up \in BOOLEAN : Flag(up)
    \/ \E r \in untold : Announce(r)

LogSpec == LogInit /\ [][LogNext]_logVars
===============================================================================
