-------------------------- MODULE SchedulerPolicy ---------------------------
(***************************************************************************)
(* The session-state vocabulary and the pure policy that folds one Slurm   *)
(* observation into a session: subsystems/session/service.go (the state    *)
(* predicates) and subsystems/session/reconcile.go (nextState,             *)
(* applyObservation, missingFromScheduler, unreachableScheduler).          *)
(*                                                                         *)
(* A session is a record with the fields the policy reads or writes:       *)
(*   state   the session state, "ABSENT" when there is no row              *)
(*   seq     the number of the current run, 0 before the first one         *)
(*   job     the Slurm job recorded for the run, 0 for none.  A job is     *)
(*           identified by the seq in its name cs-<id>-<seq>               *)
(*   client  the run was launched by the client (launcherClient)           *)
(*   tun     the row carries Dev Tunnel metadata (Tunnel.ID # "")          *)
(*   started StartedAt has been set: the run was seen running              *)
(*   err     the row shows a diagnostic                                    *)
(* Node and the request's own fields are left out: no decision reads them. *)
(***************************************************************************)
EXTENDS Naturals

Live == {"SUBMITTING", "QUEUED", "STARTING", "READY"}
Terminal == {"STOPPED", "FAILED"}
Reconcilable == Live \cup {"STOPPING"}

(* The states internal/slurm normalises a job's state to.                  *)
Observations == {"pending", "active", "stopped", "expired", "failed", "unknown"}

(* How long ago the row was last written: 0 within                         *)
(* schedulerPropagationWindow (2 min), 1 within provisionTimeout (5 min),  *)
(* 2 later than both.                                                      *)
Ages == 0 .. 2

-----------------------------------------------------------------------------
(* Variants, named for what they get wrong, stand before the definition    *)
(* they vary: the properties of the project tell each of them apart.       *)
NextStateUnnormalized(current, observed) ==
  IF observed = "failed" THEN "NODE_FAIL" ELSE current

NextState(current, observed) ==
  CASE current = "STOPPING" /\ observed \in {"pending", "active"} -> "STOPPING"
    [] current # "STOPPING" /\ observed = "pending"               -> "QUEUED"
    [] current = "READY" /\ observed = "active"                   -> "READY"
    [] current \notin {"STOPPING", "READY"} /\ observed = "active" -> "STARTING"
    [] observed \in {"stopped", "expired"}                        -> "STOPPED"
    [] OTHER                                                      -> "FAILED"

(* The scheduler knows the job: adopt its ID, then its state, except that  *)
(* a linked run is READY however the scheduler calls it.                   *)
ApplyObservation(s, job, observed, linked, cancelError) ==
  LET adopted == IF s.job = 0 THEN job ELSE s.job
      next    == NextState(s.state, observed)
      shown   == IF next \in {"QUEUED", "STARTING"} /\ linked THEN "READY" ELSE next
      pending == s.state = "STOPPING" /\ shown = "STOPPING" /\ cancelError
  IN  IF observed = "unknown"
      THEN [s EXCEPT !.job = adopted]
      ELSE [s EXCEPT !.job = adopted, !.state = shown,
                     !.started = s.started \/ observed = "active",
                     !.err = pending]

MissingWithoutProvisionWindow(s, age) ==
  IF age = 0 THEN s ELSE [s EXCEPT !.state = "STOPPED", !.err = FALSE]

MissingAwaitsJobForever(s, age) ==
  IF s.job = 0 THEN s ELSE [s EXCEPT !.state = "STOPPED", !.err = FALSE]

MissingKeepsStopping(s, age) ==
  IF s.state = "STOPPING" THEN [s EXCEPT !.err = TRUE]
  ELSE IF age < 2 THEN s ELSE [s EXCEPT !.state = "STOPPED", !.err = FALSE]

(* The scheduler answers but has no such job.                              *)
MissingFromScheduler(s, age) ==
  IF s.job = 0 /\ age < 2
  THEN s
  ELSE IF s.state = "STOPPING" /\ age = 0
       THEN [s EXCEPT !.err = TRUE]
       ELSE IF s.job # 0 /\ age = 0
            THEN s
            ELSE [s EXCEPT !.state = "STOPPED", !.err = FALSE]

(* The scheduler does not answer.  Only a run that was seen running can    *)
(* have outlived its walltime; "elapsed" says that the walltime and its    *)
(* grace have passed since StartedAt.                                      *)
OutlivedWalltime(s, elapsed) ==
  s.state \in {"STARTING", "READY"} /\ s.started /\ elapsed

UnreachableScheduler(s, elapsed) ==
  IF OutlivedWalltime(s, elapsed)
  THEN [s EXCEPT !.state = "STOPPED", !.err = FALSE]
  ELSE [s EXCEPT !.err = TRUE]
=============================================================================
