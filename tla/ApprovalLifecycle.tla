-------------------------- MODULE ApprovalLifecycle --------------------------
(***************************************************************************)
(* What the approval engine promises an entity, without requests, users or *)
(* audit rows: a run of the workflow clears its tiers in sequence and ends *)
(* in exactly one outcome; only an approved run may still be cancelled;    *)
(* and an entity has one pending run at a time.                            *)
(***************************************************************************)
EXTENDS Naturals

CONSTANTS
    Entity, MaxRuns,
    TiersOf     \* TiersOf[w]: the tiers run w must clear, 1..k

VARIABLES
    outcome,    \* [Run -> "none", "pending" or how the run ended]
    cleared     \* [Run -> the tiers approved so far]

Run == Entity \X (1..MaxRuns)
ALvars == <<outcome, cleared>>

ALInit ==
    /\ outcome = [w \in Run |-> "none"]
    /\ cleared = [w \in Run |-> {}]

\* A run without tiers is approved as it is submitted.
Submit(w) ==
    /\ outcome[w] = "none"
    /\ \A n \in 1..MaxRuns : outcome[<<w[1], n>>] # "pending"
    /\ outcome' = [outcome EXCEPT ![w] = IF TiersOf[w] = {} THEN "approved" ELSE "pending"]
    /\ UNCHANGED cleared

\* Tier t is the first one not cleared; the last one approves the run.
ClearTier(w, t) ==
    /\ outcome[w] = "pending"
    /\ t \in TiersOf[w] \ cleared[w]
    /\ \A x \in TiersOf[w] : x < t => x \in cleared[w]
    /\ cleared' = [cleared EXCEPT ![w] = cleared[w] \cup {t}]
    /\ outcome' = [outcome EXCEPT ![w] =
           IF TiersOf[w] \subseteq cleared[w] \cup {t} THEN "approved" ELSE "pending"]

\* Reject and recall end a pending run, cancel an approved one.
Stop(w) ==
    /\ \/ outcome[w] = "pending" /\ outcome' = [outcome EXCEPT ![w] = "rejected"]
       \/ outcome[w] \in {"pending", "approved"}
          /\ outcome' = [outcome EXCEPT ![w] = "cancelled"]
    /\ UNCHANGED cleared

ALNext ==
    \E w \in Run : Submit(w) \/ Stop(w) \/ \E t \in TiersOf[w] : ClearTier(w, t)

ALSpec == ALInit /\ [][ALNext]_ALvars
=============================================================================
