------------------------------ MODULE JobPromise ------------------------------
(***************************************************************************)
(* What a batch job run promises to HR (ADR 009), without tasks, workers,  *)
(* locks or retries: the data is cut into chunks once; each chunk is       *)
(* either applied, in one piece and once, or given up; the outcome of the  *)
(* run tells which; cancelling drops what is left; a retry tries again     *)
(* only what was given up.  JobRunner implements it.                       *)
(***************************************************************************)
EXTENDS Naturals

CONSTANTS Run, Chunk, DryRun

VARIABLES
  stage,     \* none, queued, running, or how the run has ended
  todo,      \* chunks of the plan that are still to be done
  done,      \* chunks that were done
  givenUp,   \* chunks that were tried often enough
  effects    \* how often the changes of a chunk are in the tables

promise == <<stage, todo, done, givenUp, effects>>

Stages == {"none", "queued", "running", "success", "partial", "failed", "cancelled"}

(* The outcome of a run whose chunks were all done or given up. *)
Verdict(worked, failed) ==
  IF failed = {} THEN "success" ELSE IF worked # {} THEN "partial" ELSE "failed"

(* A run is recorded and waits for a worker. *)
Create(r) ==
  /\ stage[r] = "none"
  /\ stage' = [stage EXCEPT ![r] = "queued"]
  /\ UNCHANGED <<todo, done, givenUp, effects>>

(* The plan is stored, or cannot be made; a run with nothing to do has succeeded. *)
Plan(r) ==
  /\ stage[r] = "queued"
  /\ \/ \E planned \in SUBSET Chunk :
          /\ stage' = [stage EXCEPT ![r] = IF planned = {} THEN "success" ELSE "running"]
          /\ todo' = [todo EXCEPT ![r] = planned]
     \/ stage' = [stage EXCEPT ![r] = "failed"] /\ UNCHANGED todo
  /\ UNCHANGED <<done, givenUp, effects>>

(* A chunk is done: its changes are in the tables now, unless this is a dry run. *)
Apply(r, c) ==
  /\ stage[r] = "running" /\ c \in todo[r]
  /\ todo' = [todo EXCEPT ![r] = @ \ {c}]
  /\ done' = [done EXCEPT ![r] = @ \cup {c}]
  /\ effects' = IF r \in DryRun THEN effects ELSE [effects EXCEPT ![r][c] = 1]
  /\ UNCHANGED <<stage, givenUp>>

(* A chunk is given up: nothing of it is in the tables. *)
GiveUp(r, c) ==
  /\ stage[r] = "running" /\ c \in todo[r]
  /\ todo' = [todo EXCEPT ![r] = @ \ {c}]
  /\ givenUp' = [givenUp EXCEPT ![r] = @ \cup {c}]
  /\ UNCHANGED <<stage, done, effects>>

Close(r) ==
  /\ stage[r] = "running" /\ todo[r] = {}
  /\ stage' = [stage EXCEPT ![r] = Verdict(done[r], givenUp[r])]
  /\ UNCHANGED <<todo, done, givenUp, effects>>

Cancel(r) ==
  /\ stage[r] \in {"queued", "running"}
  /\ stage' = [stage EXCEPT ![r] = "cancelled"]
  /\ todo' = [todo EXCEPT ![r] = {}]
  /\ UNCHANGED <<done, givenUp, effects>>

(* What was given up is to be done again; a run that failed without a plan is planned again. *)
Retry(r) ==
  /\ stage[r] \in {"failed", "partial"}
  /\ stage' = [stage EXCEPT ![r] = IF givenUp[r] = {} THEN "queued" ELSE "running"]
  /\ todo' = [todo EXCEPT ![r] = givenUp[r]]
  /\ givenUp' = [givenUp EXCEPT ![r] = {}]
  /\ UNCHANGED <<done, effects>>

PromiseInit ==
  /\ stage = [r \in Run |-> "none"]
  /\ todo = [r \in Run |-> {}]
  /\ done = [r \in Run |-> {}]
  /\ givenUp = [r \in Run |-> {}]
  /\ effects = [r \in Run |-> [c \in Chunk |-> 0]]

PromiseNext ==
  \E r \in Run : \/ Create(r) \/ Plan(r) \/ Close(r) \/ Cancel(r) \/ Retry(r)
                 \/ \E c \in Chunk : Apply(r, c) \/ GiveUp(r, c)

PromiseSpec == PromiseInit /\ [][PromiseNext]_promise

=============================================================================
