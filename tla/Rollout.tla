------------------------------- MODULE Rollout -------------------------------
(***************************************************************************)
(* What a deployment promises, without goroutines, attempts or a database. *)
(*                                                                         *)
(* A rollout opens its stages one by one, in order, and ends.  A device is *)
(* confirmed for a stage only once the stage has been opened and the       *)
(* device was confirmed for what the stage needs; it is never unconfirmed. *)
(* A confirmation may come late, after its stage has been left and even    *)
(* after the end, because answers cross the network.                       *)
(***************************************************************************)
EXTENDS FuotaStages

CONSTANT Devices

VARIABLES
  opened,     \* the columns whose step has been started
  ended,      \* the rollout is over, completed or aborted
  confirmed   \* per device, the stages it is known to have completed

vars == <<opened, ended, confirmed>>

Init == /\ opened = {}
        /\ ended = FALSE
        /\ confirmed = [d \in Devices |-> {}]

Open(c) == /\ ~ended
           /\ c \notin opened
           /\ opened = Before(c)
           /\ opened' = opened \cup {c}
           /\ UNCHANGED <<ended, confirmed>>

End == /\ ~ended
       /\ ended' = TRUE
       /\ UNCHANGED <<opened, confirmed>>

Confirm(d, s) == /\ s \in opened
                 /\ Needs(s) \subseteq confirmed[d]
                 /\ confirmed' = [confirmed EXCEPT ![d] = @ \cup {s}]
                 /\ UNCHANGED <<opened, ended>>

Next == \/ \E c \in Columns : Open(c)
        \/ End
        \/ \E d \in Devices, s \in Stages : Confirm(d, s)

SafetySpec == Init /\ [][Next]_vars

\* A rollout is not obliged to open every stage, but it ends.
Spec == SafetySpec /\ WF_vars(End)
=============================================================================
