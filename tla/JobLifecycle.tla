---------------------------- MODULE JobLifecycle ----------------------------
(***************************************************************************)
(* What the queue and its worker promise about one job, whatever crashes   *)
(* and whoever presses what: the module docstring of h3_48gb/queue.py and  *)
(* the table of reconcile, without files, leases or processes.  A job is   *)
(* queued, started, perhaps put back, and filed once.  It is put back only *)
(* while nothing has come of it: no engine has accepted it and no result   *)
(* of it is known.  It is filed as its result says.                        *)
(***************************************************************************)
CONSTANT Job

VARIABLES phase, engaged, fate

lvars == <<phase, engaged, fate>>

Init ==
    /\ phase = [j \in Job |-> "new"]
    /\ engaged = [j \in Job |-> FALSE]
    /\ fate = [j \in Job |-> "none"]

To(j, from, to) ==
    /\ phase[j] \in from
    /\ phase' = [phase EXCEPT ![j] = to]

Enqueue(j) == To(j, {"new"}, "queued") /\ UNCHANGED <<engaged, fate>>

Start(j) == To(j, {"queued"}, "started") /\ UNCHANGED <<engaged, fate>>

Engage(j) ==
    /\ phase[j] = "started" /\ ~engaged[j] /\ fate[j] = "none"
    /\ engaged' = [engaged EXCEPT ![j] = TRUE]
    /\ UNCHANGED <<phase, fate>>

Settle(j) ==
    /\ phase[j] = "started" /\ fate[j] = "none"
    /\ \E f \in {"ok", "bad"} : fate' = [fate EXCEPT ![j] = f]
    /\ UNCHANGED <<phase, engaged>>

PutBack(j) ==
    /\ ~engaged[j] /\ fate[j] = "none"
    /\ To(j, {"started"}, "queued")
    /\ UNCHANGED <<engaged, fate>>

File(j) ==
    /\ \/ fate[j] # "bad" /\ To(j, {"started"}, "done")
       \/ fate[j] # "ok" /\ To(j, {"started"}, "failed")
    /\ UNCHANGED <<engaged, fate>>

Leave(j) ==
    /\ To(j, {"queued", "done", "failed"}, "gone")
    /\ engaged' = [engaged EXCEPT ![j] = FALSE]
    /\ fate' = [fate EXCEPT ![j] = "none"]

Next ==
    \E j \in Job :
        \/ Enqueue(j) \/ Start(j) \/ Engage(j) \/ Settle(j)
        \/ PutBack(j) \/ File(j) \/ Leave(j)

Spec == Init /\ [][Next]_lvars
=============================================================================
