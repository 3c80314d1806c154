------------------------------ MODULE Delivery ------------------------------
(***************************************************************************)
(* What ForgeAI promises the owner of a project, without plans, tasks,     *)
(* callers or retries: an intent is approved by the user, code is built    *)
(* from exactly that intent, an independent verdict is given on exactly    *)
(* that code, and only a passed verdict releases it.  Intents are numbered *)
(* in the order the user approves them.  BuildPipeline implements this.    *)
(***************************************************************************)
EXTENDS Naturals

VARIABLES
    phase,      \* where the current run of the project stands
    approved,   \* the intent the user approved last (0: none yet)
    candidate,  \* the intent the code under validation was built from
    released,   \* the intent of the released version (0: none yet)
    led         \* the Leader has put a plan of its own into the current run

deliveryVars == <<phase, approved, candidate, released, led>>

DeliveryInit == phase = "intent" /\ approved = 0 /\ candidate = 0 /\ released = 0 /\ led = FALSE
Open == {"intent", "building", "validating", "rejected"}

Approve == /\ phase = "intent"
           /\ approved' = approved + 1
           /\ phase' = "building"
           /\ UNCHANGED <<candidate, released, led>>
Build == /\ phase = "building"
         /\ candidate' = approved
         /\ phase' = "validating"
         /\ UNCHANGED <<approved, released, led>>
Pass == /\ phase = "validating"
        /\ released' = candidate
        /\ phase' = "released"
        /\ UNCHANGED <<approved, candidate, led>>
Reject == /\ phase = "validating"
          /\ phase' = "rejected"
          /\ UNCHANGED <<approved, candidate, released, led>>
\* After a rejection the same intent is built again, the same code is validated
\* again, or the user revises the intent.
Recover == /\ phase = "rejected"
           /\ phase' \in {"building", "validating", "intent"}
           /\ UNCHANGED <<approved, candidate, released, led>>
Stop == /\ phase \in Open
        /\ phase' = "stopped"
        /\ UNCHANGED <<approved, candidate, released, led>>
\* A revision of an approved project starts with a new intent, or repairs the old one.
Reopen == /\ phase \in {"released", "stopped"}
          /\ approved > 0
          /\ phase' \in {"intent", "building"}
          /\ candidate' = 0
          /\ led' = FALSE
          /\ UNCHANGED <<approved, released>>
\* A plan the Leader wrote is carried out as given.  From there to the end of the run only
\* this is left of the promise: the user approves one intent at a time, and a version is
\* released by ending the run, whichever intent, approved or not (0), it was built from.
Improvise == /\ phase \in Open
             /\ led' = TRUE
             /\ phase' \in Open \cup {"released", "stopped"}
             /\ approved' \in {approved, approved + 1}
             /\ candidate' \in 0 .. approved'
             /\ released' \in IF phase' = "released" THEN 0 .. approved' ELSE {released}

DeliveryNext ==
    Approve \/ Build \/ Pass \/ Reject \/ Recover \/ Stop \/ Reopen \/ Improvise
DeliverySpec == DeliveryInit /\ [][DeliveryNext]_deliveryVars
=============================================================================
