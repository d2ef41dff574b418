------------------------------ MODULE ZtonPolicy ------------------------------
(***************************************************************************)
(* The identity and route policy of the ZTON hub (zton/policy.py).         *)
(*                                                                         *)
(* A policy is a record of three tables: the authorized identities, the    *)
(* blocked ones, and for each device the targets it may send to.  A device *)
(* absent from the dictionary allowed_targets has the empty set here,      *)
(* which is the default the code reads it with.                            *)
(***************************************************************************)
CONSTANTS
    Device,     \* the device ids that the configuration can name
    Hub         \* a target that addresses the hub itself: target_id "" or "hub"

ASSUME HubAssumption == Hub \notin Device

Target == Device \cup {Hub}

PolicyType ==
    [authorized : SUBSET Device,
     blocked    : SUBSET Device,
     routes     : [Device -> SUBSET Target]]

\* The three default factories of the dataclass.
NoPolicy ==
    [authorized |-> {}, blocked |-> {}, routes |-> [d \in Device |-> {}]]

\* Mutant: authorizing a device does not lift its block.
RegisterDeviceKeepsBlock(policy, d, authorized, targets) ==
    IF authorized
    THEN [policy EXCEPT !.authorized = @ \cup {d},
                        !.routes[d]  = IF targets = {} THEN @ ELSE targets]
    ELSE [policy EXCEPT !.blocked    = @ \cup {d},
                        !.authorized = @ \ {d}]

\* An authorized registration without targets leaves the earlier routes in
\* place, and so does an unauthorized one.
RegisterDevice(policy, d, authorized, targets) ==
    IF authorized
    THEN [policy EXCEPT !.authorized = @ \cup {d},
                        !.blocked    = @ \ {d},
                        !.routes[d]  = IF targets = {} THEN @ ELSE targets]
    ELSE [policy EXCEPT !.blocked    = @ \cup {d},
                        !.authorized = @ \ {d}]

CanSend(policy, d) == d \notin policy.blocked /\ d \in policy.authorized

\* Mutant: the table of routes is not read.
CanForwardAnywhere(policy, d, target) == CanSend(policy, d)

CanForward(policy, d, target) ==
    CanSend(policy, d) /\ (target = Hub \/ target \in policy.routes[d])
===============================================================================
