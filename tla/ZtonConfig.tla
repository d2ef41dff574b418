------------------------------- MODULE ZtonConfig -----------------------------
(***************************************************************************)
(* How the configuration of the hub becomes its policy tables              *)
(* (configure_peers in zton/hub.py).                                       *)
(***************************************************************************)
EXTENDS ZtonPolicy, SequencesExt

\* The entries are registered in order; an entry is a record of the device,
\* whether it is authorized, and its targets.
ConfigurePeers(configs) ==
    FoldLeft(LAMBDA policy, c :
                 RegisterDevice(policy, c.device, c.authorized, c.targets),
             NoPolicy, configs)
===============================================================================
