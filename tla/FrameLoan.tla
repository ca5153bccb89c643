------------------------------ MODULE FrameLoan ------------------------------
(***************************************************************************)
(* What the frame pool promises its users: a frame is lent to a thread     *)
(* only while nobody holds it.  A holder may share it with other threads   *)
(* and everybody gives up what he holds.                                   *)
(***************************************************************************)
CONSTANTS
    Frame,      \* the frames of the pool
    Thread      \* its users

VARIABLE
    holders     \* holders[f]: the threads that hold frame f

Init == holders = [f \in Frame |-> {}]

Lend(f, t) ==
    /\ holders[f] = {}
    /\ holders' = [holders EXCEPT ![f] = {t}]

Share(f, t) ==
    /\ holders[f] # {}
    /\ holders' = [holders EXCEPT ![f] = @ \cup {t}]

GiveUp(f, t) ==
    /\ t \in holders[f]
    /\ holders' = [holders EXCEPT ![f] = @ \ {t}]

Next == \E f \in Frame, t \in Thread : Lend(f, t) \/ Share(f, t) \/ GiveUp(f, t)

Spec == Init /\ [][Next]_holders
=============================================================================
