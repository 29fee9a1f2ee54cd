----------------------------- MODULE Clearance -----------------------------
(***************************************************************************)
(* What the two-step commit of src/mr/coordinator.go promises about each   *)
(* task, with the scheduling left out: at most one attempt holds the right *)
(* to publish, an attempt is never given that right twice nor after a      *)
(* younger one had it, the right is lost only by being revoked, and a task *)
(* that was finished is never opened again.                                *)
(***************************************************************************)
EXTENDS Naturals

CONSTANT Task

VARIABLES
    phase,   \* for each task: free, held by an attempt, or closed for good
    holder   \* the attempt given the right last

vars == <<phase, holder>>

Init ==
    /\ phase = [t \in Task |-> "free"]
    /\ holder = [t \in Task |-> 0]

(* The right goes to an attempt younger than every one that had it before. *)
Grant(t) ==
    /\ phase[t] = "free"
    /\ phase' = [phase EXCEPT ![t] = "held"]
    /\ holder'[t] \in Nat
    /\ holder'[t] > holder[t]
    /\ holder' = [holder EXCEPT ![t] = holder'[t]]

(* Any number of overdue holders lose the right in one pass. *)
Revoke(ts) ==
    /\ \A t \in ts : phase[t] = "held"
    /\ phase' = [t \in Task |-> IF t \in ts THEN "free" ELSE phase[t]]
    /\ UNCHANGED holder

Close(t) ==
    /\ phase[t] = "held"
    /\ phase' = [phase EXCEPT ![t] = "closed"]
    /\ UNCHANGED holder

Next ==
    \/ \E t \in Task : Grant(t) \/ Close(t)
    \/ \E ts \in SUBSET Task : Revoke(ts)

Spec == Init /\ [][Next]_vars
=============================================================================
