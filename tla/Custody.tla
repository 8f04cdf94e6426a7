------------------------------ MODULE Custody -------------------------------
(***************************************************************************)
(* What a worker pool promises about its children, whatever its timers and  *)
(* tasks do: each child is kept by the pool or by one drain from its start  *)
(* until it has been waited for, custody moves only from the pool to a      *)
(* drain, and the daemon does not go down with a child still in the pool.   *)
(***************************************************************************)
CONSTANT Pid

VARIABLES
    child,   \* child[p]: "none", "running", or "exited" and not waited for
    keeper,  \* who must wait for child p: "nobody", the "pool", or a "drain"
    daemon   \* "up", "leaving" once told to stop, "down"

vars == <<child, keeper, daemon>>

Init ==
    /\ child = [p \in Pid |-> "none"]
    /\ keeper = [p \in Pid |-> "nobody"]
    /\ daemon = "up"

Start(p) ==
    /\ daemon = "up"
    /\ child[p] = "none"
    /\ child' = [child EXCEPT ![p] = "running"]
    /\ keeper' = [keeper EXCEPT ![p] = "pool"]
    /\ UNCHANGED daemon

End(p) ==
    /\ child[p] = "running"
    /\ child' = [child EXCEPT ![p] = "exited"]
    /\ UNCHANGED <<keeper, daemon>>

Wait(p) ==
    /\ child[p] = "exited"
    /\ keeper[p] # "nobody"
    /\ child' = [child EXCEPT ![p] = "none"]
    /\ keeper' = [keeper EXCEPT ![p] = "nobody"]
    /\ UNCHANGED daemon

Detach(p) ==
    /\ daemon = "up"
    /\ keeper[p] = "pool"
    /\ keeper' = [keeper EXCEPT ![p] = "drain"]
    /\ UNCHANGED <<child, daemon>>

(* The whole pool is handed over at once when the daemon is told to stop. *)
StopAll ==
    /\ daemon = "up"
    /\ daemon' = "leaving"
    /\ keeper' = [p \in Pid |-> IF keeper[p] = "pool" THEN "drain" ELSE keeper[p]]
    /\ UNCHANGED child

(* Drains that are not awaited end with the daemon. *)
Quit ==
    /\ daemon = "leaving"
    /\ daemon' = "down"
    /\ keeper' = [p \in Pid |-> "nobody"]
    /\ UNCHANGED child

Next ==
    \/ StopAll
    \/ Quit
    \/ \E p \in Pid : Start(p) \/ End(p) \/ Wait(p) \/ Detach(p)

Spec == Init /\ [][Next]_vars

=============================================================================
