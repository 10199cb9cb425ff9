----------------------------- MODULE JobContract -----------------------------
(* What the durable job queue of internal/server/jobs.go promises to the      *)
(* modules that enqueue work, without leases, workers or timers: an accepted  *)
(* job is open until it is settled; a job whose cancellation was asked for    *)
(* while it was open can only settle as cancelled; a success is never undone; *)
(* a failed or cancelled job may be reopened by hand, which forgets the       *)
(* cancellation; only a settled job may be purged.                            *)
CONSTANT Jobs

VARIABLES stage,    \* stage[j]: how far job j has come
          unwanted  \* unwanted[j]: its cancellation has been requested

vars == <<stage, unwanted>>

Settled == {"succeeded", "failed", "cancelled"}
Stage   == {"absent", "open", "purged"} \cup Settled

Init == /\ stage = [j \in Jobs |-> "absent"]
        /\ unwanted = [j \in Jobs |-> FALSE]

Submit(j) == /\ stage[j] = "absent" /\ stage'[j] = "open"
             /\ ~unwanted'[j]

\* A request on an open job stays with it; modules also raise the flag of a
\* job that has just settled, where it means nothing.
AskCancel(j) == /\ stage[j] \in {"open"} \cup Settled
                /\ stage'[j] = stage[j]
                /\ unwanted'[j]

Settle(j) == /\ stage[j] = "open"
             /\ stage'[j] \in Settled
             /\ unwanted[j] => stage'[j] = "cancelled"
             /\ unwanted[j] => unwanted'[j]
             /\ unwanted'[j] => stage'[j] = "cancelled"

Reopen(j) == /\ stage[j] \in {"failed", "cancelled"}
             /\ stage'[j] = "open"
             /\ ~unwanted'[j]

Purge(j) == /\ stage[j] \in Settled
            /\ stage'[j] = "purged"
            /\ unwanted'[j] = unwanted[j]

\* One transaction may move several jobs; each of them takes one of its steps.
JobStep(j) == \/ Submit(j) \/ AskCancel(j) \/ Settle(j) \/ Reopen(j) \/ Purge(j)
              \/ stage'[j] = stage[j] /\ unwanted'[j] = unwanted[j]

Next == /\ stage' \in [Jobs -> Stage]
        /\ unwanted' \in [Jobs -> BOOLEAN]
        /\ \A j \in Jobs : JobStep(j)

Spec == Init /\ [][Next]_vars
==============================================================================
