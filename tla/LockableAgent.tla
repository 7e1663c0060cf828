---------------------------- MODULE LockableAgent ----------------------------
(***************************************************************************)
(* What both agent backends promise about locking, whatever they are built *)
(* of: identities (in memory, and as they would come back from a restart)  *)
(* change only while the agent is unlocked; locking and unlocking change   *)
(* no identity; a restart brings back what is saved.                       *)
(***************************************************************************)

CONSTANT Contents        \* what an agent can hold

VARIABLES locked,        \* the agent refuses to sign and to be changed
          held,          \* what it holds
          saved          \* what it will hold after a restart

avars == <<locked, held, saved>>

Init == locked \in BOOLEAN /\ held \in Contents /\ saved = held

Lock == ~locked /\ locked' = TRUE /\ UNCHANGED <<held, saved>>

Unlock == locked /\ locked' = FALSE /\ UNCHANGED <<held, saved>>

Change == ~locked /\ held' \in Contents /\ saved' \in Contents /\ UNCHANGED locked

Restart == held' = saved /\ locked' \in BOOLEAN /\ UNCHANGED saved

Next == Lock \/ Unlock \/ Change \/ Restart

Spec == Init /\ [][Next]_avars
=============================================================================
