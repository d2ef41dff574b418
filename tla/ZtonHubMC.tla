------------------------------ MODULE ZtonHubMC ------------------------------
(***************************************************************************)
(* The hub reads its configuration entry by entry (configure_peers) and    *)
(* starts.  TLC follows every configuration up to a bounded length, and    *)
(* the overlay under the one of server/app.py: all devices without faults, *)
(* and one of them with faults.                                            *)
(***************************************************************************)
EXTENDS ZtonOverlayMC

CONSTANT MaxEntries     \* bound: entries of the configuration

VARIABLES
    configs,    \* the entries that have been read
    started     \* the hub runs

Entry == [device : Device, authorized : BOOLEAN, targets : SUBSET {phoneB, Hub}]

Extend(c) ==
    /\ ~started /\ Len(configs) < MaxEntries
    /\ configs' = Append(configs, c)
    /\ UNCHANGED <<vars, started>>

Start ==
    /\ ~started /\ configs = AppConfig
    /\ started' = TRUE
    /\ UNCHANGED <<vars, configs>>

\* Nothing fails and nobody sends twice, or all others are silent.
Narrow ==
    \/ faults = 0 /\ \A d \in Device : sequence[d] <= 1
    \/ \A d \in Device \ {laptopB} : hellos[d] = 0 /\ sequence[d] = 0

Run == started /\ Next /\ Narrow' /\ UNCHANGED <<configs, started>>

HubInit == Init /\ configs = <<>> /\ started = FALSE
HubNext == Run \/ Start \/ \E c \in Entry : Extend(c)
HubSpec == HubInit /\ [][HubNext]_<<vars, configs, started>>

-------------------------------------------------------------------------------
\* The last of the entries that pass the test, as a set of at most one.
LastEntry(Test(_)) ==
    LET passing == {i \in DOMAIN configs : Test(configs[i])}
    IN  {configs[i] : i \in {j \in passing : \A k \in passing : k <= j}}

\* The answers of can_send and can_forward depend on two entries only: the last
\* one of the device decides whether it may send, and the last authorized one
\* that names targets decides where to, even if the device was blocked or
\* registered without targets since (register_device).
AnswersFollowLastEntry ==
    ~started =>
        LET policy == ConfigurePeers(configs)
        IN  \A d \in Device, target \in Target :
                CanForward(policy, d, target) <=>
                    /\ \E c \in LastEntry(LAMBDA e : e.device = d) : c.authorized
                    /\ \/ target = Hub
                       \/ \E c \in LastEntry(LAMBDA e : e.device = d /\ e.authorized
                                                        /\ e.targets # {}) :
                             target \in c.targets
===============================================================================
