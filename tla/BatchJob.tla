------------------------------ MODULE BatchJob ------------------------------
(***************************************************************************)
(* What a batch promises its user, without tokens, tasks, transactions or  *)
(* a queue: the datasets are chosen once, results only accumulate, work    *)
(* may stop and resume any number of times, and the batch is finished, and *)
(* its map public, only with every chosen dataset delivered.  All of it is *)
(* promised until the job is upset: MapBatches implements it with "upset"  *)
(* for two transactions that have crossed.                                 *)
(***************************************************************************)
CONSTANT Datasets

VARIABLES
    phase,      \* where the job stands, as the user sees it
    chosen,     \* the datasets the user asked for
    results,    \* the datasets delivered
    public,     \* the composed map is published
    upset       \* from here on nothing is promised

jobVars == <<phase, chosen, results, public, upset>>

JobInit ==
    /\ phase = "new"
    /\ chosen = {} /\ results = {}
    /\ public = FALSE
    /\ upset = FALSE

\* Another inspection is asked for, or a first one.
Submit ==
    /\ phase \in {"new", "refused"}
    /\ phase' = "inspecting"
    /\ UNCHANGED <<chosen, results, public>>

\* A refusal may be premature: the broker failed, the inspection did not.
Accept ==
    /\ phase \in {"inspecting", "refused"}
    /\ phase' = "ready"
    /\ UNCHANGED <<chosen, results, public>>

Refuse ==
    /\ phase \in {"inspecting", "ready"}
    /\ phase' = "refused"
    /\ UNCHANGED <<chosen, results, public>>

Choose(S) ==
    /\ phase = "ready" /\ S # {}
    /\ phase' = "working"
    /\ chosen' = S
    /\ UNCHANGED <<results, public>>

\* A result that was under way when the job stopped is still accepted.
Deliver(d) ==
    /\ phase \in {"working", "stopped"}
    /\ results' = results \cup {d}
    /\ UNCHANGED <<phase, chosen, public>>

\* Cancelled, failed, or reported failed after the fact.
Stop ==
    /\ phase \in {"working", "finished"}
    /\ phase' = "stopped"
    /\ public' \in {public, FALSE}
    /\ UNCHANGED <<chosen, results>>

Resume ==
    /\ phase = "stopped"
    /\ phase' = "working"
    /\ UNCHANGED <<chosen, results, public>>

Finish ==
    /\ phase \in {"working", "stopped"}
    /\ chosen \subseteq results
    /\ phase' = "finished"
    /\ public' \in BOOLEAN
    /\ UNCHANGED <<chosen, results>>

Withdraw ==
    /\ public
    /\ public' = FALSE
    /\ UNCHANGED <<phase, chosen, results>>

Proceed ==
    \/ Submit \/ Accept \/ Refuse
    \/ \E S \in SUBSET Datasets : Choose(S)
    \/ \E d \in chosen : Deliver(d)
    \/ Stop \/ Resume \/ Finish \/ Withdraw

JobNext == upset' \/ (Proceed /\ UNCHANGED upset)

JobSpec == JobInit /\ [][JobNext]_jobVars
=============================================================================
