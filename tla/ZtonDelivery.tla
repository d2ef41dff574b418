------------------------------ MODULE ZtonDelivery ----------------------------
(***************************************************************************)
(* What the receiving side of the hub promises, with neither packets nor   *)
(* high-water marks: in one session of a device every number is taken at   *)
(* most once, in increasing order, and only while the session is open.     *)
(* Opening a session and losing all of them are the only other steps.      *)
(***************************************************************************)
EXTENDS Naturals

CONSTANTS
    Device,
    Number      \* the numbers that packets carry, some of Nat

VARIABLES
    open,    \* devices with a session
    session, \* the number of the current or last session of a device
    taken    \* every [dev, session, seq] that was taken

Init ==
    /\ open = {}
    /\ session = [d \in Device |-> 0]
    /\ taken = {}

Open(d) ==
    /\ open' = open \cup {d}
    /\ session' = [session EXCEPT ![d] = @ + 1]
    /\ UNCHANGED taken

Take(d, n) ==
    /\ d \in open
    /\ \A t \in taken : t.dev = d /\ t.session = session[d] => t.seq < n
    /\ taken' = taken \cup {[dev |-> d, session |-> session[d], seq |-> n]}
    /\ UNCHANGED <<open, session>>

Forget ==
    /\ open' = {}
    /\ UNCHANGED <<session, taken>>

Next ==
    \/ \E d \in Device : Open(d) \/ \E n \in Number : Take(d, n)
    \/ Forget

Spec == Init /\ [][Next]_<<open, session, taken>>
===============================================================================
