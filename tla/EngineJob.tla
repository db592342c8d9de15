----------------------------- MODULE EngineJob ------------------------------
(***************************************************************************)
(* What the engine promises its driver: a job runs in the window selected  *)
(* while it runs and nowhere else, nobody else touches the register file   *)
(* meanwhile, and when the job is over abort says whether it failed.       *)
(***************************************************************************)
EXTENDS Naturals

CONSTANTS Windows, Values

VARIABLES window, running, failed, abort, rf

jobVars == <<window, running, failed, abort, rf>>

JobInit ==
  /\ window \in Windows /\ rf \in [Windows -> Values]
  /\ running = FALSE /\ failed = FALSE /\ abort = FALSE

Select ==
  window' \in Windows /\ UNCHANGED <<running, failed, abort, rf>>

Load ==
  ~running /\ rf' \in [Windows -> Values] /\ UNCHANGED <<window, running, failed, abort>>

\* A new job is on its way: what the last one left in failed and abort is cleared.
Arm ==
  ~running /\ failed' = FALSE /\ abort' \in {abort, FALSE} /\ UNCHANGED <<window, running, rf>>

Go ==
  ~running /\ running' = TRUE /\ failed' = FALSE /\ UNCHANGED <<window, rf>>
  /\ abort' \in {abort, FALSE}

\* An instruction; abort follows failed with a delay.
Work ==
  /\ running /\ running' \in BOOLEAN
  /\ \E v \in Values : rf' = [rf EXCEPT ![window] = v]
  /\ failed' \in {failed, TRUE}
  /\ abort' \in {abort, failed, failed'}
  /\ ~running' => abort' = failed'
  /\ UNCHANGED window

JobNext == Select \/ Load \/ Arm \/ Go \/ Work
JobSpec == JobInit /\ [][JobNext]_jobVars
=============================================================================
