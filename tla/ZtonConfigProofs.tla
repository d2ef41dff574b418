---------------------------- MODULE ZtonConfigProofs ---------------------------
(***************************************************************************)
(* Proofs about ZtonConfig, for configurations of every length: the policy *)
(* tables that configure_peers builds entry by entry have a closed form,   *)
(* which says which entries decide what can_send and can_forward answer.   *)
(* The fold over the configuration is a function that is chosen to satisfy *)
(* a recursive equation; the closed form satisfies it, and no other        *)
(* function does.                                                          *)
(***************************************************************************)
EXTENDS ZtonHubMC, FiniteSetTheorems, SequenceTheorems, TLAPS

USE HubAssumption

\* The last of some positions, as a set of at most one.
LastOf(P) == {i \in P : \A k \in P : k <= i}

\* Among the positions s, those of a device, and those of its entries that
\* set its routes.
OfDevice(cfg, s, d) == {i \in s : cfg[i].device = d}
Naming(cfg, s, d) ==
    {i \in s : cfg[i].device = d /\ cfg[i].authorized /\ cfg[i].targets # {}}

\* The tables that the entries at the positions s leave.
PolicyOf(cfg, s) ==
    [authorized |-> {d \in Device : \E i \in LastOf(OfDevice(cfg, s, d)) :
                                        cfg[i].authorized},
     blocked    |-> {d \in Device : \E i \in LastOf(OfDevice(cfg, s, d)) :
                                        ~cfg[i].authorized},
     routes     |-> [d \in Device |->
                        UNION {cfg[i].targets : i \in LastOf(Naming(cfg, s, d))}]]

Entries(T) == Seq([device : Device, authorized : BOOLEAN, targets : SUBSET T])

LEMMA BelowWellFounded ==
    IsWellFoundedOn({ss \in Nat \X Nat : ss[1] < ss[2]}, Nat)
  BY Zenon, NatLessThanWellFounded DEF OpToRel

\* A nonempty set of positions has a last one, and Max finds it.
LEMMA MaxIsLast ==
    ASSUME NEW n \in Nat, NEW s \in SUBSET (1 .. n), s # {}
    PROVE  Max(s) \in s /\ \A k \in s : k <= Max(s)
<1> DEFINE below  == {ss \in Nat \X Nat : ss[1] < ss[2]}
           bounds == {m \in Nat : \A k \in s : k <= m}
<1>1. n \in bounds /\ bounds \subseteq Nat
  OBVIOUS
<1>2. \E m \in bounds : \A b \in bounds : ~(<<b, m>> \in below)
  <2> HIDE DEF bounds
  <2> QED
    BY <1>1, BelowWellFounded, WFMin
<1>3. PICK m \in bounds : \A b \in bounds : m <= b
  <2>1. \A b, m \in Nat : ~(<<b, m>> \in below) => m <= b
    OBVIOUS
  <2> HIDE DEF bounds, below
  <2> QED
    BY <1>1, <1>2, <2>1
<1>4. m \in Nat /\ \A k \in s : k \in Nat /\ 1 <= k /\ k <= m
  OBVIOUS
<1>5. m \in s
  <2> SUFFICES ASSUME m \notin s PROVE FALSE
    OBVIOUS
  <2>1. m - 1 \in Nat
    <3>1. PICK k \in s : TRUE
      OBVIOUS
    <3> HIDE DEF bounds
    <3> QED
      BY <1>4, <3>1
  <2>2. \A k \in s : k <= m - 1
    <3> HIDE DEF bounds
    <3>1. \A k \in s : k # m
      OBVIOUS
    <3>2. \A i \in Nat : i <= m /\ i # m => i <= m - 1
      BY <1>4
    <3> QED
      BY <1>4, <3>1, <3>2
  <2>3. m - 1 \in bounds
    BY <2>1, <2>2
  <2> HIDE DEF bounds
  <2>4. m <= m - 1
    BY <1>3, <2>3
  <2> QED
    BY <1>4, <2>4
<1>6. Max(s) \in s /\ \A y \in s : Max(s) >= y
  <2> HIDE DEF bounds
  <2>1. \A y \in s : m >= y
    BY <1>4
  <2> QED
    BY <1>5, <2>1 DEF Max
<1>7. \A i \in s, k \in s : i >= k => k <= i
  OBVIOUS
<1> QED
  BY <1>6, <1>7

Tables(T) ==
    [authorized : SUBSET Device, blocked : SUBSET Device,
     routes : [Device -> SUBSET T]]

\* What a registration does to each of the tables.
Put(A, d, in) == IF in THEN A \cup {d} ELSE A \ {d}
Reroute(R, d, targets) == IF targets # {} THEN [R EXCEPT ![d] = targets] ELSE R

LEMMA RegisterTables ==
    ASSUME NEW T, NEW p \in Tables(T), NEW d \in Device,
           NEW authorized \in BOOLEAN, NEW targets
    PROVE  RegisterDevice(p, d, authorized, targets)
           = [authorized |-> Put(p.authorized, d, authorized),
              blocked    |-> Put(p.blocked, d, ~authorized),
              routes     |-> IF authorized THEN Reroute(p.routes, d, targets)
                                           ELSE p.routes]
<1> USE DEF Put, Reroute
<1>1. [p.routes EXCEPT ![d] = p.routes[d]] = p.routes
  BY DEF Tables
<1>2. CASE authorized /\ targets # {}
  BY <1>2 DEF RegisterDevice, Tables
<1>3. CASE authorized /\ targets = {}
  BY <1>1, <1>3 DEF RegisterDevice, Tables
<1>4. CASE ~authorized
  BY <1>4 DEF RegisterDevice, Tables
<1> QED
  BY <1>2, <1>3, <1>4

LEMMA PolicyOfTables ==
    ASSUME NEW T, NEW cfg \in Entries(T), NEW s \in SUBSET (DOMAIN cfg)
    PROVE  PolicyOf(cfg, s) \in Tables(T)
<1>1. \A i \in s : cfg[i].targets \in SUBSET T
  <2>1. \A i \in s : cfg[i] \in [device : Device, authorized : BOOLEAN, targets : SUBSET T]
    BY ElementOfSeq, LenProperties DEF Entries
  <2> QED
    BY <2>1
<1>2. \A d \in Device : UNION {cfg[i].targets : i \in LastOf(Naming(cfg, s, d))} \in SUBSET T
  BY <1>1 DEF LastOf, Naming
<1> QED
  BY <1>2 DEF PolicyOf, Tables

\* Registering the last entry takes the tables of the entries before it to
\* those of all.
LEMMA LastEntryRegisters ==
    ASSUME NEW T, NEW cfg \in Entries(T), NEW s \in SUBSET (DOMAIN cfg),
           NEW m \in s, \A k \in s : k <= m
    PROVE  PolicyOf(cfg, s) =
              RegisterDevice(PolicyOf(cfg, s \ {m}), cfg[m].device,
                             cfg[m].authorized, cfg[m].targets)
<1> DEFINE rest == s \ {m}
           c    == cfg[m]
           old  == PolicyOf(cfg, rest)
           new  == PolicyOf(cfg, s)
           next == RegisterDevice(old, c.device, c.authorized, c.targets)
<1>1. /\ c.device \in Device /\ c.authorized \in BOOLEAN /\ c.targets \in SUBSET T
      /\ m \in Nat /\ \A k \in s : k \in Nat
  <2>1. c \in [device : Device, authorized : BOOLEAN, targets : SUBSET T]
    BY ElementOfSeq, LenProperties DEF Entries
  <2>2. DOMAIN cfg = 1 .. Len(cfg) /\ Len(cfg) \in Nat
    BY LenProperties DEF Entries
  <2> QED
    BY <2>1, <2>2
<1>2. LastOf(OfDevice(cfg, s, c.device)) = {m}
  BY <1>1 DEF LastOf, OfDevice
<1>3. \A d \in Device : d # c.device => OfDevice(cfg, s, d) = OfDevice(cfg, rest, d)
  BY DEF OfDevice
<1>4. c.authorized /\ c.targets # {} => LastOf(Naming(cfg, s, c.device)) = {m}
  BY <1>1 DEF LastOf, Naming
<1>5. \A d \in Device : d # c.device \/ ~c.authorized \/ c.targets = {} =>
         Naming(cfg, s, d) = Naming(cfg, rest, d)
  BY DEF Naming
<1>6. new.authorized = Put(old.authorized, c.device, c.authorized)
  BY <1>1, <1>2, <1>3 DEF PolicyOf, Put
<1>7. new.blocked = Put(old.blocked, c.device, ~c.authorized)
  BY <1>1, <1>2, <1>3 DEF PolicyOf, Put
<1>8. new.routes = IF c.authorized THEN Reroute(old.routes, c.device, c.targets)
                                    ELSE old.routes
  <2>1. \A d \in Device : d # c.device \/ ~c.authorized \/ c.targets = {} =>
           new.routes[d] = old.routes[d]
    BY <1>5 DEF PolicyOf
  <2>2. c.authorized /\ c.targets # {} => new.routes[c.device] = c.targets
    BY <1>1, <1>4 DEF PolicyOf
  <2>3. /\ new.routes = [d \in Device |-> new.routes[d]]
        /\ old.routes = [d \in Device |-> old.routes[d]]
    BY DEF PolicyOf
  <2> HIDE DEF new, old, c
  <2>4. CASE c.authorized /\ c.targets # {}
    <3>1. [old.routes EXCEPT ![c.device] = c.targets] =
             [d \in Device |-> IF d = c.device THEN c.targets ELSE old.routes[d]]
      BY <2>3
    <3>2. \A d \in Device :
             new.routes[d] = IF d = c.device THEN c.targets ELSE old.routes[d]
      BY <2>1, <2>2, <2>4
    <3> QED
      BY <2>3, <2>4, <3>1, <3>2 DEF Reroute
  <2>5. CASE ~(c.authorized /\ c.targets # {})
    <3>1. \A d \in Device : new.routes[d] = old.routes[d]
      BY <1>1, <2>1, <2>5
    <3> QED
      BY <2>3, <2>5, <3>1 DEF Reroute
  <2> QED
    BY <2>4, <2>5
<1>9. /\ new = [authorized |-> new.authorized, blocked |-> new.blocked,
               routes |-> new.routes]
      /\ old = [authorized |-> old.authorized, blocked |-> old.blocked,
               routes |-> old.routes]
      /\ DOMAIN old.routes = Device
      /\ old.routes = [d \in Device |-> old.routes[d]]
  BY DEF PolicyOf
<1> HIDE DEF new, old, c
<1>10. next = [authorized |-> Put(old.authorized, c.device, c.authorized),
               blocked    |-> Put(old.blocked, c.device, ~c.authorized),
               routes     |-> IF c.authorized
                              THEN Reroute(old.routes, c.device, c.targets)
                              ELSE old.routes]
  <2>1. c.device \in Device /\ c.authorized \in BOOLEAN
    BY <1>1
  <2>2. old \in Tables(T)
    BY PolicyOfTables DEF old
  <2> QED
    BY <2>1, <2>2, RegisterTables
<1>11. new = next
  BY <1>6, <1>7, <1>8, <1>9, <1>10
<1> QED
  BY <1>11 DEF new, old, c

\* One step of the fold: the tables of the positions s from those of all but
\* the last.
Fold(cfg, g, s) ==
    IF s = {} THEN NoPolicy
    ELSE LET m == Max(s)
         IN  RegisterDevice(g[s \ {m}], cfg[m].device, cfg[m].authorized,
                            cfg[m].targets)

\* The fold of configure_peers: a function of sets of positions, chosen to be
\* the one that its steps lead to.
LEMMA ConfigureIsChosen ==
    ASSUME NEW cfg
    PROVE  LET iter == CHOOSE g : g = [s \in SUBSET (DOMAIN cfg) |-> Fold(cfg, g, s)]
           IN  ConfigurePeers(cfg) = iter[DOMAIN cfg]
  BY DEF ConfigurePeers, FoldLeft, MapThenFoldSet, Fold

\* The tables after configure_peers, in closed form.
LEMMA ConfigureIsPolicyOf ==
    ASSUME NEW T, NEW cfg \in Entries(T)
    PROVE  ConfigurePeers(cfg) = PolicyOf(cfg, DOMAIN cfg)
<1> DEFINE S       == DOMAIN cfg
           closed  == [s \in SUBSET S |-> PolicyOf(cfg, s)]
           iter    == CHOOSE g : g = [s \in SUBSET S |-> Fold(cfg, g, s)]
           missed  == {s \in SUBSET S : iter[s] # PolicyOf(cfg, s)}
<1>1. S = 1 .. Len(cfg) /\ Len(cfg) \in Nat
  BY LenProperties DEF Entries
<1>2. \A g : Fold(cfg, g, {}) = PolicyOf(cfg, {})
  BY DEF Fold, NoPolicy, PolicyOf, LastOf, OfDevice, Naming
<1>3. ASSUME NEW s \in SUBSET S, s # {}
      PROVE  /\ Max(s) \in s
             /\ \A g : g[s \ {Max(s)}] = PolicyOf(cfg, s \ {Max(s)}) =>
                   Fold(cfg, g, s) = PolicyOf(cfg, s)
  <2>1. Max(s) \in s /\ \A k \in s : k <= Max(s)
    BY <1>1, <1>3, MaxIsLast
  <2> DEFINE m == Max(s)
  <2> HIDE DEF m
  <2>2. PolicyOf(cfg, s) = RegisterDevice(PolicyOf(cfg, s \ {m}), cfg[m].device,
                                          cfg[m].authorized, cfg[m].targets)
    BY <2>1, LastEntryRegisters DEF m
  <2>3. \A g : Fold(cfg, g, s) = RegisterDevice(g[s \ {m}], cfg[m].device,
                                                cfg[m].authorized, cfg[m].targets)
    BY <1>3 DEF Fold, m
  <2> QED
    BY <2>1, <2>2, <2>3 DEF m
<1>4. closed = [s \in SUBSET S |-> Fold(cfg, closed, s)]
  <2> SUFFICES ASSUME NEW s \in SUBSET S
               PROVE  PolicyOf(cfg, s) = Fold(cfg, closed, s)
    OBVIOUS
  <2>1. CASE s = {}
    BY <1>2, <2>1
  <2>2. CASE s # {}
    <3>1. closed[s \ {Max(s)}] = PolicyOf(cfg, s \ {Max(s)})
      OBVIOUS
    <3> HIDE DEF closed
    <3> QED
      BY <1>3, <2>2, <3>1
  <2> QED
    BY <2>1, <2>2
<1>5. iter = [s \in SUBSET S |-> Fold(cfg, iter, s)]
  <2>1. \E g : g = [s \in SUBSET S |-> Fold(cfg, g, s)]
    BY <1>4
  <2> QED
    BY <2>1
<1> HIDE DEF closed, iter
<1>6. \A s \in SUBSET S : iter[s] = Fold(cfg, iter, s)
  BY <1>5
<1>7. missed = {}
  <2> SUFFICES ASSUME missed # {} PROVE FALSE
    OBVIOUS
  <2>1. IsFiniteSet(S)
    BY <1>1, FS_Interval
  <2>2. FiniteSubsetsOf(S) = SUBSET S
    BY <2>1, FS_FiniteSubsetsOfFinite
  <2>3. IsWellFoundedOn(StrictSubsetOrdering(S), SUBSET S)
    BY <2>2, FS_StrictSubsetOrderingWellFounded
  <2>4. missed \subseteq SUBSET S
    OBVIOUS
  <2>5. \E s \in missed : \A r \in missed : ~(<<r, s>> \in StrictSubsetOrdering(S))
    <3> HIDE DEF missed
    <3> QED
      BY <2>3, <2>4, WFMin
  <2>6. PICK s \in missed : \A r \in missed : ~(<<r, s>> \in StrictSubsetOrdering(S))
    BY <2>5
  <2>7. s \in SUBSET S /\ iter[s] # PolicyOf(cfg, s)
    BY <2>6
  <2>8. s # {}
    BY <1>2, <1>6, <2>7
  <2>9. Max(s) \in s
    BY <1>3, <2>7, <2>8
  <2>10. s \ {Max(s)} \in SUBSET S /\ s \ {Max(s)} # s
    BY <2>7, <2>9
  <2>11. <<s \ {Max(s)}, s>> \in StrictSubsetOrdering(S)
    BY <2>7, <2>10 DEF StrictSubsetOrdering
  <2>12. s \ {Max(s)} \notin missed
    BY <2>6, <2>11
  <2>13. iter[s \ {Max(s)}] = PolicyOf(cfg, s \ {Max(s)})
    BY <2>10, <2>12
  <2>14. Fold(cfg, iter, s) = PolicyOf(cfg, s)
    BY <1>3, <2>7, <2>8, <2>13
  <2> QED
    BY <1>6, <2>7, <2>14
<1>8. iter[S] = PolicyOf(cfg, S)
  BY <1>7
<1>9. ConfigurePeers(cfg) = iter[S]
  BY ConfigureIsChosen DEF iter
<1> QED
  BY <1>8, <1>9

\* What can_send and can_forward answer after a configuration of any length
\* and with any targets: the last entry of a device decides whether it may
\* send, its last authorized entry that names targets decides where to.
THEOREM AnswersFromLastEntry ==
    ASSUME NEW T, NEW cfg \in Entries(T), NEW d \in Device, NEW target
    PROVE  LET own    == LastOf(OfDevice(cfg, DOMAIN cfg, d))
               naming == LastOf(Naming(cfg, DOMAIN cfg, d))
           IN  CanForward(ConfigurePeers(cfg), d, target) <=>
                   /\ \E i \in own : cfg[i].authorized
                   /\ target = Hub \/ \E i \in naming : target \in cfg[i].targets
<1> DEFINE own    == LastOf(OfDevice(cfg, DOMAIN cfg, d))
           naming == LastOf(Naming(cfg, DOMAIN cfg, d))
           policy == PolicyOf(cfg, DOMAIN cfg)
<1>1. ConfigurePeers(cfg) = policy
  BY ConfigureIsPolicyOf
<1>2. \A i, j \in own : i = j
  <2>1. DOMAIN cfg = 1 .. Len(cfg) /\ Len(cfg) \in Nat
    BY LenProperties DEF Entries
  <2>2. \A i, j \in own : i <= j /\ j <= i /\ i \in Nat /\ j \in Nat
    BY <2>1 DEF LastOf, OfDevice
  <2> HIDE DEF own
  <2> QED
    BY <2>2
<1>3. /\ d \in policy.authorized <=> \E i \in own : cfg[i].authorized
      /\ d \in policy.blocked <=> \E i \in own : ~cfg[i].authorized
      /\ policy.routes[d] = UNION {cfg[i].targets : i \in naming}
  BY DEF PolicyOf
<1> HIDE DEF own, naming, policy
<1>4. CanSend(policy, d) <=> \E i \in own : cfg[i].authorized
  BY <1>2, <1>3 DEF CanSend
<1>5. target \in policy.routes[d] <=> \E i \in naming : target \in cfg[i].targets
  BY <1>3
<1>6. CanForward(policy, d, target) <=>
         /\ \E i \in own : cfg[i].authorized
         /\ target = Hub \/ \E i \in naming : target \in cfg[i].targets
  BY <1>4, <1>5 DEF CanForward
<1> QED
  BY <1>1, <1>6 DEF own, naming

\* The configuration that is read is a sequence of entries.
ConfigTyped == configs \in Seq(Entry)

LEMMA ConfigStaysTyped == HubSpec => []ConfigTyped
<1>1. HubInit => ConfigTyped
  BY DEF HubInit, ConfigTyped
<1>2. ConfigTyped /\ [HubNext]_<<vars, configs, started>> => ConfigTyped'
  <2> SUFFICES ASSUME ConfigTyped, [HubNext]_<<vars, configs, started>>
               PROVE  ConfigTyped'
    OBVIOUS
  <2>1. ASSUME NEW c \in Entry, Extend(c)
        PROVE  ConfigTyped'
    BY <2>1, AppendProperties DEF Extend, ConfigTyped
  <2>2. CASE UNCHANGED configs
    BY <2>2 DEF ConfigTyped
  <2> QED
    BY <2>1, <2>2 DEF HubNext, Run, Start
<1> QED
  BY <1>1, <1>2, PTL DEF HubSpec

\* After any number of entries of any configuration, the answers follow the
\* last entries of the device.
THEOREM HubFollowsLastEntry == HubSpec => []AnswersFollowLastEntry
<1>1. ConfigTyped => AnswersFollowLastEntry
  <2> SUFFICES ASSUME ConfigTyped, NEW d \in Device, NEW target \in Target
               PROVE  CanForward(ConfigurePeers(configs), d, target) <=>
                    /\ \E c \in LastEntry(LAMBDA e : e.device = d) : c.authorized
                    /\ \/ target = Hub
                       \/ \E c \in LastEntry(LAMBDA e : e.device = d /\ e.authorized
                                                        /\ e.targets # {}) :
                             target \in c.targets
    BY DEF AnswersFollowLastEntry
  <2> DEFINE own    == LastOf(OfDevice(configs, DOMAIN configs, d))
             naming == LastOf(Naming(configs, DOMAIN configs, d))
  <2>1. configs \in Entries({phoneB, Hub})
    BY DEF ConfigTyped, Entries, Entry
  <2>2. LastEntry(LAMBDA e : e.device = d) = {configs[i] : i \in own}
    BY DEF LastEntry, LastOf, OfDevice
  <2>3. LastEntry(LAMBDA e : e.device = d /\ e.authorized /\ e.targets # {}) =
           {configs[i] : i \in naming}
    BY DEF LastEntry, LastOf, Naming
  <2>4. CanForward(ConfigurePeers(configs), d, target) <=>
           /\ \E i \in own : configs[i].authorized
           /\ target = Hub \/ \E i \in naming : target \in configs[i].targets
    BY <2>1, AnswersFromLastEntry
  <2> HIDE DEF own, naming
  <2> QED
    BY <2>2, <2>3, <2>4
<1> QED
  BY <1>1, ConfigStaysTyped, PTL

================================================================================
