----------------------------- MODULE ZtonOverlayMC ----------------------------
(***************************************************************************)
(* Instances of ZtonOverlay for TLC.  The policy is the one _init_runtime  *)
(* configures (server/app.py), for the devices of the run.                 *)
(***************************************************************************)
EXTENDS ZtonOverlay, ZtonConfig

CONSTANTS laptopB, phoneB, phoneA

\* The peer configurations of server/app.py.
AppConfig ==
    <<[device |-> laptopB, authorized |-> TRUE,  targets |-> {phoneB, Hub}],
      [device |-> phoneB,  authorized |-> TRUE,  targets |-> {Hub}],
      [device |-> phoneA,  authorized |-> FALSE, targets |-> {}]>>

\* The entries of the devices of the run, with the targets that exist in it.
MCPolicy ==
    LET known == SelectSeq(AppConfig, LAMBDA c : c.device \in Device)
    IN  ConfigurePeers([i \in DOMAIN known |->
                           [known[i] EXCEPT !.targets = @ \cap Target]])
===============================================================================
