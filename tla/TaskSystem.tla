------------------------------ MODULE TaskSystem ------------------------------
(***************************************************************************)
(* What the scheduler promises the rest of the kernel, with no list, no    *)
(* interrupts and no stacks: one CPU with one owner, which is always a     *)
(* task that can run; a task stops being runnable only by its own act      *)
(* while it owns the CPU; a dead task stays dead.                          *)
(***************************************************************************)
CONSTANTS Task, Idle

VARIABLES tasks,   \* tasks admitted so far
          status,  \* "ready", "blocked" or "dead"; the owner is "ready"
          owner    \* the task the CPU belongs to

tvars == <<tasks, status, owner>>

TInit ==
    /\ tasks = {Idle}
    /\ status = [t \in Task |-> "ready"]
    /\ owner = Idle

Admit(t) ==
    /\ t \in Task \ tasks
    /\ tasks' = tasks \cup {t}
    /\ UNCHANGED <<status, owner>>

(* The tasks in W are woken; they may have been blocked.                   *)
WokenBy(W) == [t \in Task |-> IF t \in W THEN "ready" ELSE status[t]]

Wake(W) ==
    /\ W \subseteq {t \in tasks : status[t] = "blocked"}
    /\ status' = WokenBy(W)
    /\ UNCHANGED <<tasks, owner>>

(* The owner gives the CPU up, still ready, blocked or dead, to a task t   *)
(* that is ready once those in W are awake.                                *)
Switch(W, as, t) ==
    /\ W \subseteq {u \in tasks : status[u] = "blocked"}
    /\ t \in tasks \ {owner}
    /\ WokenBy(W)[t] = "ready"
    /\ status' = [WokenBy(W) EXCEPT ![owner] = as]
    /\ owner' = t
    /\ UNCHANGED tasks

TNext ==
    \/ \E t \in Task : Admit(t)
    \/ \E W \in SUBSET tasks : Wake(W)
    \/ \E W \in SUBSET tasks, as \in {"ready", "blocked", "dead"}, t \in tasks :
         Switch(W, as, t)

TSpec == TInit /\ [][TNext]_tvars

=============================================================================
