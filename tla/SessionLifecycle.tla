-------------------------- MODULE SessionLifecycle --------------------------
(***************************************************************************)
(* One session of the control plane: its row in the database, its run      *)
(* records, its capability files, its Dev Tunnels, its Slurm jobs and its  *)
(* registered link, under every request that changes them.                 *)
(* subsystems/session/lifecycle.go, reconcile.go, tunnel.go, link.go and   *)
(* the freezing of run records in telemetry.go.                            *)
(*                                                                         *)
(* Every Store.locked section is one step: internal/db serialises them     *)
(* across goroutines and processes.  Between two of them, and around every *)
(* remote call, the requests interleave freely.  What a request remembers  *)
(* across steps is in snap (the row it read) and cand (the row it means to *)
(* write).                                                                 *)
(*                                                                         *)
(* The code decides whether a remembered row is still current by comparing *)
(* UpdatedAt.  Every write stamps a new UpdatedAt, so the comparison asks  *)
(* whether a stamping write happened in between; "fresh" is the set of     *)
(* requests for which none did.                                            *)
(***************************************************************************)
EXTENDS SchedulerPolicy

CONSTANTS
  Launchers,     \* concurrent Start and Attach requests
  Stoppers,      \* concurrent Stop requests
  Deleters,      \* concurrent Delete requests
  Dialers,       \* concurrent connections of a Linkspan to the link route
  Reconciler,    \* the background pass (one at a time: triggerRefresh)
  Nobody,        \* no request
  Kinds,         \* the runs requested: a subset of {"start", "attach", "adopt"}
  Modes,         \* whether a run asks for a Dev Tunnel: a subset of BOOLEAN
  Faults,        \* the failures the environment may show
  Redefinition,  \* a deleted session may be defined again under its ID
  MaxSeq         \* bound on the runs of the session

Requests == Launchers \cup Stoppers \cup Deleters \cup Dialers \cup {Reconciler}
Seqs == 1 .. MaxSeq

(* "unlisted": a job in the queue is not reported, because squeue failed   *)
(* and accounting has not heard of the job.  "misjudged": ssh or sbatch    *)
(* fails after the job was queued, and the exit reads as a refusal.        *)
(* "evict": newer records push one of this session's out of the list.      *)
FaultKinds == {"unreachable", "unlisted", "cancel", "ambiguous", "misjudged",
               "devtunnel", "credential", "file", "save", "crash", "requeue",
               "slow", "evict"}

ASSUME ConstantsAssumption ==
  /\ MaxSeq \in Nat
  /\ Modes \subseteq BOOLEAN
  /\ Faults \subseteq FaultKinds
  /\ Redefinition \in BOOLEAN
  /\ Nobody \notin Requests
  /\ Reconciler \notin Launchers \cup Stoppers \cup Deleters \cup Dialers

-----------------------------------------------------------------------------
Row == [state: Reconcilable \cup Terminal \cup {"ABSENT"}, seq: 0 .. MaxSeq,
        job: 0 .. MaxSeq, client: BOOLEAN, tun: BOOLEAN, started: BOOLEAN,
        err: BOOLEAN]

NoRow == [state |-> "ABSENT", seq |-> 0, job |-> 0, client |-> FALSE,
          tun |-> FALSE, started |-> FALSE, err |-> FALSE]

Alive == {"pending", "active"}
JobStates == Alive \cup {"none", "done"}
Endings == {"stopped", "expired", "failed"}

LauncherSteps == {"retire", "freeze", "serialize", "claim", "issue", "persist",
                  "unissue", "submit", "record", "unsaved", "cancel",
                  "cancelled", "abandon", "abandoned"}
Steps == LauncherSteps \cup
         {"idle", "release", "unlink", "observe", "merge", "forget",
          "register", "announce", "linked"}

VARIABLES
  row,       \* the session's row
  age,       \* how long ago the row was last stamped
  runs,      \* the seqs with a run record
  recorded,  \* history: the seqs that ever had one
  deleted,   \* the session has been deleted at least once
  caps,      \* the seqs with a capability file
  tunnels,   \* the seqs whose Dev Tunnel exists at the provider
  jobs,      \* the Slurm job submitted for each seq
  registry,  \* the connection registered as the session's link
  lock,      \* the launcher inside Service.serialized
  pc,        \* the next step of each request
  snap,      \* the row each request remembers
  cand,      \* the row each request means to write
  fresh,     \* the requests whose snap carries the row's UpdatedAt
  unreleased \* the stop requests whose releaseTunnel failed

store == <<row, age, runs, recorded, deleted>>
outside == <<caps, tunnels, jobs>>
memory == <<pc, snap, cand, fresh, lock, unreleased>>
vars == <<store, outside, memory, registry>>

-----------------------------------------------------------------------------
Init ==
  /\ row = NoRow
  /\ age = 0
  /\ runs = {}
  /\ recorded = {}
  /\ deleted = FALSE
  /\ caps = {}
  /\ tunnels = {}
  /\ jobs = [n \in Seqs |-> "none"]
  /\ registry = Nobody
  /\ lock = Nobody
  /\ pc = [p \in Requests |-> "idle"]
  /\ snap = [p \in Requests |-> NoRow]
  /\ cand = [p \in Requests |-> NoRow]
  /\ fresh = {}
  /\ unreleased = {}

(* What an operation that may fail can return.                             *)
Outcomes(fault) == IF fault \in Faults THEN BOOLEAN ELSE {TRUE}

Goto(p, step) == pc' = [pc EXCEPT ![p] = step]

(* A request ends: it forgets its rows and leaves Service.serialized.      *)
Return(p) ==
  /\ Goto(p, "idle")
  /\ snap' = [snap EXCEPT ![p] = NoRow]
  /\ cand' = [cand EXCEPT ![p] = NoRow]
  /\ lock' = IF lock = p THEN Nobody ELSE lock

(* A request remembers the row it reads.                                   *)
Read(p) ==
  /\ snap' = [snap EXCEPT ![p] = row]
  /\ fresh' = fresh \cup {p}

(* Store.save of a row stamped with a new UpdatedAt, which may fail.       *)
Save(p, saved, r) ==
  /\ row' = IF saved THEN r ELSE row
  /\ age' = IF saved THEN 0 ELSE age
  /\ fresh' = IF saved THEN {} ELSE fresh \ {p}

ReleaseCapabilityOnly(n, tun, token, unprovided, removed) ==
  /\ tunnels' = tunnels
  /\ caps' = IF removed THEN caps \ {n} ELSE caps

(* releaseTunnel: the provider is asked only when the row has a tunnel and *)
(* the caller a token; the capability file is removed in any case.         *)
ReleaseTunnel(n, tun, token, unprovided, removed) ==
  /\ tunnels' = IF tun /\ token /\ unprovided THEN tunnels \ {n} ELSE tunnels
  /\ caps' = IF removed THEN caps \ {n} ELSE caps

ReleaseFailed(n, tun, token, unprovided, removed) ==
  (tun /\ token /\ ~unprovided) \/ (n # 0 /\ ~removed)

(* freezeIfTerminal, inside a locked section, of the row r about to be     *)
(* saved: remove the capability, then record the run.  When the removal    *)
(* fails the row goes back to STOPPING.                                    *)
CleanupFailed(r, removed) == r.state \in Terminal /\ r.seq # 0 /\ ~removed

FrozenReadyAgain(r, removed) ==
  IF CleanupFailed(r, removed) THEN [r EXCEPT !.state = "READY", !.err = TRUE] ELSE r

Frozen(r, removed) ==
  IF CleanupFailed(r, removed) THEN [r EXCEPT !.state = "STOPPING", !.err = TRUE] ELSE r

Unrecorded(r) == r.state \in Terminal /\ r.seq # 0 /\ r.seq \notin runs

(* The record that goes when the list of all sessions' records is full:    *)
(* the oldest, whosever it is.                                             *)
PushedOut == {{}} \cup (IF "evict" \in Faults THEN {{n} : n \in runs} ELSE {})

RecordAnyState(r, removed, saved) ==
  /\ runs' = IF removed /\ saved THEN runs \cup ({r.seq} \ {0}) ELSE runs
  /\ recorded' = recorded \cup runs'

RecordStoppedOnly(r, removed, saved) ==
  /\ runs' = IF r.state = "STOPPED" /\ removed /\ saved THEN runs \cup ({r.seq} \ {0}) ELSE runs
  /\ recorded' = recorded \cup runs'

(* recordRun, and the save that keeps it.                                  *)
RecordRun(r, removed, saved) ==
  /\ IF Unrecorded(r) /\ removed /\ saved
     THEN \E out \in PushedOut : runs' = (runs \ out) \cup {r.seq}
     ELSE runs' = runs
  /\ recorded' = recorded \cup runs'

RemoveAnyCapability(r, removed) == IF removed THEN caps \ {r.seq} ELSE caps

RemoveCapability(r, removed) ==
  IF r.state \in Terminal /\ removed THEN caps \ {r.seq} ELSE caps

-----------------------------------------------------------------------------
(* Define and AdoptRuns: one locked section each.                          *)

Define ==
  /\ row = NoRow
  /\ deleted => Redefinition
  /\ row' = [NoRow EXCEPT !.state = "STOPPED"]
  /\ age' = 0
  /\ fresh' = {}
  /\ UNCHANGED <<runs, recorded, deleted, outside, pc, snap, cand, lock, unreleased, registry>>

(* n runs another client finished become runs 1 .. n of a session that     *)
(* never ran.                                                              *)
AdoptRuns(n, final) ==
  /\ "adopt" \in Kinds
  /\ row # NoRow
  /\ row.seq = 0
  /\ runs = {}
  /\ \E began, failed \in BOOLEAN :
       row' = [row EXCEPT !.seq = n, !.state = final, !.started = began, !.err = failed]
  /\ age' = 0
  /\ runs' = 1 .. n
  /\ recorded' = recorded \cup runs'
  /\ fresh' = {}
  /\ UNCHANGED <<deleted, outside, pc, snap, cand, lock, unreleased, registry>>

-----------------------------------------------------------------------------
(* Start and Attach.                                                       *)

(* The row a run is launched with, without its seq and tunnel.             *)
Intent(kind, tun) ==
  [NoRow EXCEPT !.state = IF kind = "attach" THEN "QUEUED" ELSE "SUBMITTING",
                !.client = kind = "attach", !.tun = tun]

(* What a launch uses of the finished run.                                 *)
Finished(r) == [NoRow EXCEPT !.state = r.state, !.seq = r.seq, !.tun = r.tun]

(* retireFinished, claimLaunch.                                            *)
LaunchBegin(p, kind, tun) ==
  /\ pc[p] = "idle"
  /\ row.state \in Terminal
  /\ row.seq < MaxSeq
  /\ snap' = [snap EXCEPT ![p] = Finished(row)]
  /\ cand' = [cand EXCEPT ![p] = Intent(kind, tun)]
  /\ Goto(p, "retire")
  /\ UNCHANGED <<store, outside, fresh, lock, unreleased, registry>>

(* retireFinished, the tunnel of the finished run.                         *)
LaunchRetire(p) ==
  /\ pc[p] = "retire"
  /\ \/ /\ ~snap[p].tun
        /\ Goto(p, "freeze")
        /\ UNCHANGED <<tunnels, caps, snap, cand, lock>>
     \/ /\ snap[p].tun
        /\ \E token \in Outcomes("credential"), unprovided \in Outcomes("devtunnel"),
              removed \in Outcomes("file") :
             /\ ReleaseTunnel(snap[p].seq, TRUE, token, unprovided, removed)
             /\ IF ReleaseFailed(snap[p].seq, TRUE, token, unprovided, removed)
                THEN Return(p)
                ELSE Goto(p, "freeze") /\ UNCHANGED <<snap, cand, lock>>
     \/ /\ snap[p].tun
        /\ "credential" \in Faults
        /\ Return(p)
        /\ UNCHANGED <<tunnels, caps>>
  /\ UNCHANGED <<store, jobs, fresh, unreleased, registry>>

(* freezeRun of the remembered row: the row in the database is not read.   *)
LaunchFreeze(p) ==
  /\ pc[p] = "freeze"
  /\ \E removed \in Outcomes("file"), saved \in Outcomes("save") :
       /\ caps' = RemoveCapability(snap[p], removed)
       /\ RecordRun(snap[p], removed, saved)
       /\ IF CleanupFailed(snap[p], removed) \/ (Unrecorded(snap[p]) /\ ~saved)
          THEN Return(p)
          ELSE /\ Goto(p, "serialize")
               /\ snap' = [snap EXCEPT ![p] = NoRow]
               /\ UNCHANGED <<cand, lock>>
  /\ UNCHANGED <<row, age, deleted, fresh, tunnels, jobs, unreleased, registry>>

NeverLocked == TRUE

(* The lock of Service.serialized is free.                                 *)
Unlocked == lock = Nobody

(* Service.serialized, and the remote reads that may refuse the launch     *)
(* (tunnelCredential, prepareSession, validateForCreate).  Attach resolves *)
(* its credential before it enters.                                        *)
LaunchSerialize(p) ==
  /\ pc[p] = "serialize"
  /\ \/ /\ Unlocked
        /\ lock' = p
        /\ Goto(p, "claim")
        /\ UNCHANGED <<snap, cand>>
     \/ Return(p)
  /\ UNCHANGED <<store, outside, fresh, unreleased, registry>>

NextSeqOrFirst == IF row.seq = 0 THEN 1 ELSE row.seq

NextSeq == row.seq + 1

(* claimRun, claimLaunch.  The bound on seqs ends the launch as well.      *)
LaunchClaim(p) ==
  /\ pc[p] = "claim"
  /\ \/ /\ row.state \in Terminal
        /\ row.seq < MaxSeq
        /\ snap' = [snap EXCEPT ![p] = Finished(row)]
        /\ fresh' = fresh \cup {p}
        /\ cand' = [cand EXCEPT ![p].seq = NextSeq]
        /\ Goto(p, "issue")
        /\ UNCHANGED lock
     \/ /\ row.state \notin Terminal \/ row.seq = MaxSeq
        /\ Return(p)
        /\ UNCHANGED fresh
  /\ UNCHANGED <<store, outside, unreleased, registry>>

(* issueSession: the tunnel, then the capability file.  A failed create    *)
(* may or may not have made the tunnel.                                    *)
LaunchIssue(p) ==
  LET n == cand[p].seq IN
  /\ pc[p] = "issue"
  /\ \/ /\ tunnels' = IF cand[p].tun THEN tunnels \cup {n} ELSE tunnels
        /\ caps' = caps \cup {n}
        /\ Goto(p, "persist")
     \/ /\ cand[p].tun /\ "devtunnel" \in Faults
        /\ tunnels' \in {tunnels, tunnels \cup {n}}
        /\ Goto(p, "unissue")
        /\ UNCHANGED caps
     \/ /\ "file" \in Faults
        /\ tunnels' = IF cand[p].tun THEN tunnels \cup {n} ELSE tunnels
        /\ Goto(p, "unissue")
        /\ UNCHANGED caps
  /\ UNCHANGED <<store, jobs, snap, cand, fresh, lock, unreleased, registry>>

(* persistSubmitIntent.  An attached run is then with its client.          *)
LaunchPersist(p) ==
  /\ pc[p] = "persist"
  /\ \E saved \in Outcomes("save") :
       IF p \in fresh /\ row.state = snap[p].state /\ saved
       THEN /\ Save(p, saved, cand[p])
            /\ IF cand[p].client
               THEN Return(p)
               ELSE /\ Goto(p, "submit")
                    /\ snap' = [snap EXCEPT ![p] = NoRow]
                    /\ UNCHANGED <<cand, lock>>
       ELSE /\ Goto(p, "unissue")
            /\ fresh' = fresh \ {p}
            /\ UNCHANGED <<row, age, snap, cand, lock>>
  /\ UNCHANGED <<runs, recorded, deleted, outside, unreleased, registry>>

(* releaseTunnel of a run that was not persisted.                          *)
LaunchUnissue(p) ==
  /\ pc[p] = "unissue"
  /\ \E unprovided \in Outcomes("devtunnel"), removed \in Outcomes("file") :
       ReleaseTunnel(cand[p].seq, cand[p].tun, TRUE, unprovided, removed)
  /\ Return(p)
  /\ fresh' = fresh \ {p}
  /\ UNCHANGED <<store, jobs, unreleased, registry>>

(* provisionSession, which changes nothing the model keeps, then sbatch:   *)
(* refused by either, accepted, no usable answer, or an exit that is taken *)
(* for a refusal although the job is queued.  With Redefinition a job name *)
(* can come back; the earlier job has then left the queue.                 *)
LaunchSubmit(p) ==
  LET n == cand[p].seq
      Queue == jobs[n] \notin Alive /\ jobs' = [jobs EXCEPT ![n] = "pending"]
  IN
  /\ pc[p] = "submit"
  /\ \/ Queue /\ Goto(p, "record") /\ UNCHANGED <<snap, cand, lock>>
     \/ Goto(p, "abandon") /\ UNCHANGED <<jobs, snap, cand, lock>>
     \/ "ambiguous" \in Faults /\ (Queue \/ UNCHANGED jobs) /\ Return(p)
     \/ "misjudged" \in Faults /\ Queue /\ Goto(p, "abandon") /\ UNCHANGED <<snap, cand, lock>>
  /\ UNCHANGED <<store, caps, tunnels, fresh, unreleased, registry>>

(* recordSubmittedJob: the row is found by session ID alone.               *)
LaunchRecord(p) ==
  LET n == cand[p].seq
      queued == row.state \in {"SUBMITTING", "QUEUED"}
  IN
  /\ pc[p] = "record"
  /\ \E saved \in Outcomes("save") :
       IF row # NoRow /\ saved
       THEN /\ Save(p, saved, [row EXCEPT !.job = n, !.state = IF queued THEN "QUEUED" ELSE row.state])
            /\ IF queued
               THEN Return(p)
               ELSE Goto(p, "cancel") /\ UNCHANGED <<snap, cand, lock>>
       ELSE Goto(p, "unsaved") /\ UNCHANGED <<row, age, fresh, snap, cand, lock>>
  /\ UNCHANGED <<runs, recorded, deleted, outside, unreleased, registry>>

ScancelRunningOnly(n, done) ==
  jobs' = IF done /\ jobs[n] = "active" THEN [jobs EXCEPT ![n] = "done"] ELSE jobs

(* scancel of one job.                                                     *)
Scancel(n, done) ==
  jobs' = IF done /\ jobs[n] \in Alive THEN [jobs EXCEPT ![n] = "done"] ELSE jobs

(* The job of a row that could not be saved is cancelled.                  *)
LaunchUnsaved(p) ==
  /\ pc[p] = "unsaved"
  /\ \E done \in Outcomes("cancel") : Scancel(cand[p].seq, done)
  /\ Return(p)
  /\ UNCHANGED <<store, caps, tunnels, fresh, unreleased, registry>>

(* cancelSupersededJob, scancel: a failure is remembered for the row.      *)
LaunchCancel(p) ==
  /\ pc[p] = "cancel"
  /\ \E done \in Outcomes("cancel") :
       /\ Scancel(cand[p].seq, done)
       /\ cand' = [cand EXCEPT ![p].err = ~done]
  /\ Goto(p, "cancelled")
  /\ UNCHANGED <<store, caps, tunnels, snap, fresh, lock, unreleased, registry>>

(* cancelSupersededJob, the row.                                           *)
LaunchCancelled(p) ==
  /\ pc[p] = "cancelled"
  /\ \E saved \in Outcomes("save") :
       IF row # NoRow /\ row.job = cand[p].seq /\ row.state # "QUEUED"
       THEN Save(p, saved, [row EXCEPT !.err = cand[p].err])
       ELSE UNCHANGED <<row, age, fresh>>
  /\ Return(p)
  /\ UNCHANGED <<runs, recorded, deleted, outside, unreleased, registry>>

(* abandonSubmitIntent, releaseTunnel.                                     *)
LaunchAbandon(p) ==
  LET n == cand[p].seq IN
  /\ pc[p] = "abandon"
  /\ \E unprovided \in Outcomes("devtunnel"), removed \in Outcomes("file") :
       /\ ReleaseTunnel(n, cand[p].tun, TRUE, unprovided, removed)
       /\ cand' = [cand EXCEPT ![p].err = ReleaseFailed(n, cand[p].tun, TRUE, unprovided, removed)]
  /\ Goto(p, "abandoned")
  /\ UNCHANGED <<store, jobs, snap, fresh, lock, unreleased, registry>>

(* abandonSubmitIntent, the row: no run is recorded.                       *)
LaunchAbandoned(p) ==
  /\ pc[p] = "abandoned"
  /\ \E saved \in Outcomes("save") :
       IF row.seq = cand[p].seq /\ row.job = 0 /\ row.state \in {"SUBMITTING", "STOPPING"}
       THEN Save(p, saved, [row EXCEPT !.state = IF row.state = "SUBMITTING" THEN "FAILED" ELSE "STOPPED",
                                       !.tun = FALSE, !.err = cand[p].err])
       ELSE UNCHANGED <<row, age, fresh>>
  /\ Return(p)
  /\ UNCHANGED <<runs, recorded, deleted, outside, unreleased, registry>>

-----------------------------------------------------------------------------
(* Reconciliation: reconcileSnapshots, and its merge into the row.         *)

Linked(s) == registry # Nobody /\ snap[registry].seq = s.seq

(* The job a row is observed and cancelled by: its ID, or else its name.   *)
Target(s) == IF s.job # 0 THEN s.job ELSE s.seq

(* A client-launched run is retired locally, and probed through its link   *)
(* or its tunnel.                                                          *)
ObserveClient(s) ==
  IF s.state = "STOPPING"
  THEN {[s EXCEPT !.state = "STOPPED", !.err = FALSE]}
  ELSE IF /\ s.state = "QUEUED" /\ s.tun
          /\ row.seq = s.seq
          /\ Linked(s) \/ s.seq \in tunnels \cap caps
       THEN {s, [s EXCEPT !.state = "READY", !.started = TRUE]}
       ELSE {s}

(* collectStartingSessionLogs: a starting run with output is READY.        *)
WithLogs(s) ==
  IF s.state = "STARTING" THEN {s, [s EXCEPT !.state = "READY"]} ELSE {s}

(* Slurm answered.  A finished job may have left the queue and not yet     *)
(* reached accounting; one in the queue is missing only if the queue was   *)
(* not listed either.  How a job ended is chosen when it is observed.      *)
ObserveScheduler(s, cancelled) ==
  LET n == Target(s)
      seen == ({jobs[n], jobs'[n]} \cap Alive) \cup (IF jobs'[n] = "done" THEN Endings ELSE {})
                \cup (IF "unreachable" \in Faults THEN {"unknown"} ELSE {})
      found == IF jobs[n] = "none" THEN {}
               ELSE UNION {WithLogs(ApplyObservation(s, n, o, Linked(s), ~cancelled)) : o \in seen}
      missing == IF jobs[n] \in Alive /\ "unlisted" \notin Faults THEN {}
                 ELSE {MissingFromScheduler(s, age)}
  IN  found \cup missing

(* Slurm did not answer, or the deadline passed.  Slurm ends a job at its  *)
(* walltime; a requeued job starts over.                                   *)
ObserveNothing(s) ==
  LET elapsed == IF jobs[Target(s)] \in Alive /\ "requeue" \notin Faults THEN {FALSE} ELSE BOOLEAN
  IN  {s} \cup {UnreachableScheduler(s, e) : e \in elapsed}

ReconcileSnapshots(p) ==
  LET s == snap[p] IN
  /\ pc[p] = "observe"
  /\ \/ /\ s.client
        /\ cand' \in {[cand EXCEPT ![p] = c] : c \in ObserveClient(s)}
        /\ UNCHANGED jobs
     \/ /\ ~s.client
        /\ \E cancelled \in IF s.state = "STOPPING" THEN Outcomes("cancel") ELSE {FALSE} :
             /\ Scancel(Target(s), cancelled)
             /\ \/ \E c \in ObserveScheduler(s, cancelled) : cand' = [cand EXCEPT ![p] = c]
                \/ /\ "unreachable" \in Faults
                   /\ \E c \in ObserveNothing(s) : cand' = [cand EXCEPT ![p] = c]
  /\ Goto(p, "merge")
  /\ UNCHANGED <<store, caps, tunnels, snap, fresh, lock, unreleased, registry>>

SnapshotUnchecked(p) == row # NoRow

(* reconciliationSnapshotCurrent.                                          *)
SnapshotCurrent(p) ==
  /\ row # NoRow
  /\ p \in fresh
  /\ row.state = snap[p].state
  /\ row.job = snap[p].job

(* Whether one diagnostic may follow another with a different text.        *)
Rewordings(p) ==
  IF cand[p].err /\ snap[p].err /\ Faults \cap {"unreachable", "cancel"} # {}
  THEN BOOLEAN ELSE {FALSE}

(* mergeReconciled: the snapshot is current and the candidate changes      *)
(* something, if only the wording of the diagnostic.                       *)
MergeApplies(p, reworded) == SnapshotCurrent(p) /\ (cand[p] # snap[p] \/ reworded)

Merged(p, reworded) ==
  IF MergeApplies(p, reworded)
  THEN [row EXCEPT !.state = cand[p].state, !.err = cand[p].err, !.job = cand[p].job,
                   !.started = cand[p].started]
  ELSE row

(* The rest of the locked section: freeze the merged row r, save if        *)
(* anything changed.  The capability is removed before the save.           *)
FreezeAndSave(p, r, stamped, removed, saved) ==
  /\ caps' = RemoveCapability(r, removed)
  /\ RecordRun(r, removed, saved)
  /\ IF stamped
     THEN Save(p, saved, Frozen(r, removed))
     ELSE /\ row' = IF saved THEN Frozen(r, removed) ELSE row
          /\ fresh' = fresh \ {p}
          /\ UNCHANGED age

ReconcileBegin ==
  /\ pc[Reconciler] = "idle"
  /\ row.state \in Reconcilable
  /\ Read(Reconciler)
  /\ Goto(Reconciler, "observe")
  /\ UNCHANGED <<store, outside, cand, lock, unreleased, registry>>

ReconcileMerge ==
  LET p == Reconciler IN
  /\ pc[p] = "merge"
  /\ \E reworded \in Rewordings(p) :
       \/ /\ MergeApplies(p, reworded)
          /\ \E removed \in Outcomes("file"), saved \in Outcomes("save") :
               FreezeAndSave(p, Merged(p, reworded), TRUE, removed, saved)
       \/ /\ ~MergeApplies(p, reworded)
          /\ fresh' = fresh \ {p}
          /\ UNCHANGED <<row, age, runs, recorded, caps>>
  /\ Return(p)
  /\ UNCHANGED <<deleted, tunnels, jobs, unreleased, registry>>

-----------------------------------------------------------------------------
(* Stop.                                                                   *)

StopMark(p) ==
  /\ pc[p] = "idle"
  /\ row # NoRow
  /\ \/ /\ row.state \in Terminal
        /\ Read(p)
        /\ UNCHANGED <<row, age>>
     \/ /\ row.state \notin Terminal
        /\ row' = [row EXCEPT !.state = "STOPPING", !.err = FALSE]
        /\ snap' = [snap EXCEPT ![p] = row']
        /\ age' = 0
        /\ fresh' = {p}
  /\ Goto(p, "release")
  /\ UNCHANGED <<runs, recorded, deleted, outside, cand, lock, unreleased, registry>>

StopRelease(p) ==
  LET s == snap[p] IN
  /\ pc[p] = "release"
  /\ \E token \in Outcomes("credential"), unprovided \in Outcomes("devtunnel"),
        removed \in Outcomes("file") :
       /\ ReleaseTunnel(s.seq, s.tun, token, unprovided, removed)
       /\ unreleased' = IF ReleaseFailed(s.seq, s.tun, token, unprovided, removed)
                        THEN unreleased \cup {p} ELSE unreleased
  /\ Goto(p, "unlink")
  /\ UNCHANGED <<store, jobs, snap, cand, fresh, lock, registry>>

(* The registered link is dropped, whichever run it belongs to.            *)
StopUnlink(p) ==
  /\ pc[p] = "unlink"
  /\ registry' = Nobody
  /\ cand' = [cand EXCEPT ![p] = snap[p]]
  /\ Goto(p, IF snap[p].state \in Reconcilable THEN "observe" ELSE "merge")
  /\ UNCHANGED <<store, outside, snap, fresh, lock, unreleased>>

(* The row still has the tunnel that Stop set out to release: its metadata *)
(* goes when the release succeeded, a diagnostic comes when it failed.     *)
SameTunnel(p) == row.seq = snap[p].seq /\ row.tun = snap[p].tun
Kept(p) == SameTunnel(p) /\ p \in unreleased
Freed(p) == SameTunnel(p) /\ p \notin unreleased /\ snap[p].tun
Settled(p, r) == [r EXCEPT !.err = r.err \/ Kept(p), !.tun = r.tun /\ ~Freed(p)]

StopMerge(p) ==
  /\ pc[p] = "merge"
  /\ \/ /\ row # NoRow
        /\ \E reworded \in Rewordings(p), removed \in Outcomes("file"), saved \in Outcomes("save") :
             FreezeAndSave(p, Settled(p, Merged(p, reworded)),
                           MergeApplies(p, reworded) \/ Kept(p) \/ Freed(p), removed, saved)
     \/ /\ row = NoRow
        /\ fresh' = fresh \ {p}
        /\ UNCHANGED <<row, age, runs, recorded, caps>>
  /\ Return(p)
  /\ unreleased' = unreleased \ {p}
  /\ UNCHANGED <<deleted, tunnels, jobs, registry>>

-----------------------------------------------------------------------------
(* Delete: the row, then the capability.  The tunnel is left to expire.    *)

DeleteRow(p) ==
  /\ pc[p] = "idle"
  /\ row.state \in Terminal
  /\ snap' = [snap EXCEPT ![p].seq = row.seq]
  /\ row' = NoRow
  /\ age' = 0
  /\ fresh' = {}
  /\ deleted' = TRUE
  /\ Goto(p, "forget")
  /\ UNCHANGED <<runs, recorded, outside, cand, lock, unreleased, registry>>

DeleteCapability(p) ==
  /\ pc[p] = "forget"
  /\ \E removed \in Outcomes("file") : caps' = IF removed THEN caps \ {snap[p].seq} ELSE caps
  /\ Return(p)
  /\ UNCHANGED <<store, tunnels, jobs, fresh, unreleased, registry>>

-----------------------------------------------------------------------------
(* Link: a Linkspan, in the run's job or at its client, connects.          *)

(* linkedSession.                                                          *)
LinkAccept(p) ==
  /\ pc[p] = "idle"
  /\ row.state \in Reconcilable
  /\ row.seq \in caps
  /\ row.client \/ jobs[row.seq] = "active"
  /\ snap' = [snap EXCEPT ![p].seq = row.seq]
  /\ Goto(p, "register")
  /\ UNCHANGED <<store, outside, cand, fresh, lock, unreleased, registry>>

(* The new link displaces the registered one.                              *)
LinkRegister(p) ==
  /\ pc[p] = "register"
  /\ registry' = p
  /\ Goto(p, "announce")
  /\ UNCHANGED <<store, outside, snap, cand, fresh, lock, unreleased>>

LinkAnnounce(p) ==
  /\ pc[p] = "announce"
  /\ \E saved \in Outcomes("save") :
       IF row.seq = snap[p].seq /\ row.state \in {"QUEUED", "STARTING"}
       THEN Save(p, saved, [row EXCEPT !.state = "READY", !.err = FALSE, !.started = TRUE])
       ELSE UNCHANGED <<row, age, fresh>>
  /\ Goto(p, "linked")
  /\ UNCHANGED <<runs, recorded, deleted, outside, snap, cand, lock, unreleased, registry>>

(* The connection closed, from either end.                                 *)
LinkClose(p) ==
  /\ pc[p] = "linked"
  /\ registry' = IF registry = p THEN Nobody ELSE registry
  /\ Return(p)
  /\ UNCHANGED <<store, outside, fresh, unreleased>>

-----------------------------------------------------------------------------
(* The environment: Slurm, the clock, and a restart of the process.        *)

JobStep(n) ==
  /\ \/ jobs[n] = "pending" /\ jobs' = [jobs EXCEPT ![n] = "active"]
     \/ jobs[n] \in Alive /\ jobs' = [jobs EXCEPT ![n] = "done"]
     \/ jobs[n] = "active" /\ "requeue" \in Faults /\ jobs' = [jobs EXCEPT ![n] = "pending"]
  /\ UNCHANGED <<store, caps, tunnels, memory, registry>>

(* Without the fault "slow" a launch is over within provisionTimeout.      *)
Tick ==
  /\ row.state \in Reconcilable
  /\ age < 2
  /\ age = 1 => \/ "slow" \in Faults
                \/ \A p \in Launchers : pc[p] \notin {"submit", "record"}
  /\ age' = age + 1
  /\ UNCHANGED <<row, runs, recorded, deleted, outside, memory, registry>>

(* Records of other sessions, added in sections of their own, push out one *)
(* of this session's.                                                      *)
PushOut ==
  /\ "evict" \in Faults
  /\ \E n \in runs : runs' = runs \ {n}
  /\ UNCHANGED <<row, age, recorded, deleted, outside, memory, registry>>

(* The rows that a locked section is about to freeze.                      *)
Freezing ==
  {snap[p] : p \in {q \in Launchers : pc[q] = "freeze"}} \cup
  {Merged(p, FALSE) : p \in {q \in Stoppers \cup {Reconciler} :
                               pc[q] = "merge" /\ (q = Reconciler => MergeApplies(q, FALSE))}}

(* A restart may interrupt such a section after the file was removed and   *)
(* before the row was saved.                                               *)
Crash ==
  /\ "crash" \in Faults
  /\ caps' \in {caps} \cup {RemoveCapability(r, TRUE) : r \in Freezing}
  /\ pc' = [p \in Requests |-> "idle"]
  /\ snap' = [p \in Requests |-> NoRow]
  /\ cand' = [p \in Requests |-> NoRow]
  /\ fresh' = {}
  /\ lock' = Nobody
  /\ unreleased' = {}
  /\ registry' = Nobody
  /\ UNCHANGED <<store, tunnels, jobs>>

-----------------------------------------------------------------------------
Launch(p) ==
  \/ \E kind \in Kinds \ {"adopt"}, tun \in Modes : LaunchBegin(p, kind, tun)
  \/ LaunchRetire(p) \/ LaunchFreeze(p) \/ LaunchSerialize(p)
  \/ LaunchClaim(p) \/ LaunchIssue(p) \/ LaunchPersist(p) \/ LaunchUnissue(p)
  \/ LaunchSubmit(p) \/ LaunchRecord(p) \/ LaunchUnsaved(p)
  \/ LaunchCancel(p) \/ LaunchCancelled(p) \/ LaunchAbandon(p) \/ LaunchAbandoned(p)

Stop(p) ==
  \/ StopMark(p) \/ StopRelease(p) \/ StopUnlink(p)
  \/ ReconcileSnapshots(p) \/ StopMerge(p)

Delete(p) == DeleteRow(p) \/ DeleteCapability(p)

Reconcile == ReconcileBegin \/ ReconcileSnapshots(Reconciler) \/ ReconcileMerge

Link(p) == LinkAccept(p) \/ LinkRegister(p) \/ LinkAnnounce(p) \/ LinkClose(p)

Next ==
  \/ Define
  \/ \E n \in Seqs, final \in Terminal : AdoptRuns(n, final)
  \/ \E p \in Launchers : Launch(p)
  \/ \E p \in Stoppers : Stop(p)
  \/ \E p \in Deleters : Delete(p)
  \/ \E p \in Dialers : Link(p)
  \/ Reconcile
  \/ \E n \in Seqs : JobStep(n)
  \/ Tick
  \/ PushOut
  \/ Crash

Spec == Init /\ [][Next]_vars

-----------------------------------------------------------------------------
(* The promise of SessionAbstract, read off the row.                       *)

Phase ==
  CASE row.state \in Live      -> "running"
    [] row.state = "STOPPING"  -> "stopping"
    [] row.state \in Terminal  -> "over"
    [] OTHER                   -> IF deleted THEN "gone" ELSE "undefined"

Promise == INSTANCE SessionAbstract WITH phase <- Phase, seq <- row.seq, runs <- recorded

(* The lifecycle keeps the promise of SessionAbstract: whatever the        *)
(* requests do, the row moves as one run after the other.                  *)
KeepsPromise == Promise!Spec

-----------------------------------------------------------------------------
(* Type correctness of the row, the files, the outside world and what the  *)
(* requests remember.                                                      *)
TypeOK ==
  /\ row \in Row
  /\ age \in Ages
  /\ runs \subseteq recorded /\ recorded \subseteq Seqs
  /\ deleted \in BOOLEAN
  /\ caps \subseteq Seqs
  /\ tunnels \subseteq Seqs
  /\ jobs \in [Seqs -> JobStates]
  /\ registry \in Dialers \cup {Nobody}
  /\ lock \in Launchers \cup {Nobody}
  /\ pc \in [Requests -> Steps]
  /\ snap \in [Requests -> Row]
  /\ cand \in [Requests -> Row]
  /\ fresh \subseteq Requests
  /\ unreleased \subseteq Stoppers

(* A run that has not been stopped keeps the capability its Linkspan and   *)
(* its users authenticate with for as long as its job is in the queue, or  *)
(* its client has it: no late Stop, compensating or retiring launch,       *)
(* Delete or freeze removes the file, and a save that fails, or a crash,   *)
(* after a freeze removed it leaves a live row only over a job that ended. *)
(* lifecycle.go releaseTunnel callers, telemetry.go freezeIfTerminal.      *)
LiveHasCapability ==
  row.state \in Live /\ (row.client \/ jobs[row.seq] \in Alive) => row.seq \in caps

(* A run gets its record only when it is over: no live run already has     *)
(* one.  recordRun keeps the first record of a (session, seq), so a record *)
(* written early, or by an earlier run of the same number, would replace   *)
(* the real one for good.                                                  *)
LiveRunUnrecorded == row.state \in Live => row.seq \notin runs

(* A job in the queue is never forgotten: a launch is still about to       *)
(* record or cancel it, or the row names its run and is still reconciled.  *)
NoOrphanJob ==
  \A n \in Seqs : jobs[n] \in Alive =>
    \/ \E p \in Launchers : pc[p] \in {"record", "unsaved", "cancel"} /\ cand[p].seq = n
    \/ /\ row.state \in Reconcilable /\ ~row.client
       /\ row.seq = n /\ row.job \in {0, n}

(* The job a row names is the job of its current run, although             *)
(* recordSubmittedJob finds the row by session ID alone.                   *)
JobOfCurrentRun == row.job \in {0, row.seq}

(* A finished run that never had a record never had a job, whatever newer  *)
(* records push out of the list afterwards.                                *)
(* telemetry.go recordRun, lifecycle.go abandonSubmitIntent.               *)
UnrecordedNeverRan ==
  row.state \in Terminal /\ row.seq \notin recorded \cup {0} /\ ~row.client
    => jobs[row.seq] = "none"

(* A Dev Tunnel at the provider is one some row or some launch still knows *)
(* of and will delete.                                                     *)
TunnelAccounted ==
  \A n \in tunnels :
    \/ row.seq = n /\ row.tun
    \/ \E p \in Launchers : pc[p] \in {"persist", "unissue"} /\ cand[p].seq = n
    \/ \E p \in Launchers \cup Stoppers :
         pc[p] \in {"retire", "release"} /\ snap[p].tun /\ snap[p].seq = n

(* Reconciliation never takes READY from a run whose link is registered.   *)
(* docs/ARCHITECTURE.md: "reconciliation never demotes a linked READY      *)
(* session".                                                               *)
LinkedStaysReady ==
  [][row.state = "READY" /\ Linked(row) /\ row'.seq = row.seq
       => row'.state \notin {"QUEUED", "STARTING"}]_vars

(* A run starts under a number no earlier run of the session had: none was *)
(* ever recorded under it and none was submitted under its job name.       *)
(* docs/ARCHITECTURE.md: "A seq is never reused."                          *)
SeqNeverReused ==
  [][row'.state \in Live /\ row.state \in Terminal
       => row'.seq \notin recorded /\ jobs[row'.seq] = "none"]_vars

(* A submission that returns cancels its job only if the session is no     *)
(* longer live.  docs/ARCHITECTURE.md: "A submission that returns after    *)
(* the session was stopped cancels its job."                               *)
CancelsOnlyStopped ==
  [][\A p \in Launchers : LaunchCancel(p) => row.state \notin Live]_vars

-----------------------------------------------------------------------------
(* Fairness: requests that have begun go on, the background pass runs      *)
(* every 30 seconds, and time passes.  No request has to begin, no job has *)
(* to start or end and no link has to connect or close.                    *)
Fairness ==
  /\ \A p \in Launchers : WF_vars(pc[p] # "idle" /\ Launch(p))
  /\ \A p \in Stoppers : WF_vars(pc[p] # "idle" /\ Stop(p))
  /\ WF_vars(Reconcile)
  /\ WF_vars(Tick)

FairSpec == Spec /\ Fairness

(* A session that is being stopped ends, if the client does not keep       *)
(* asking: the job is cancelled, or found missing once its window expired. *)
StopCompletes ==
  <>[][\A p \in Stoppers : ~StopMark(p)]_vars => []<>(row.state # "STOPPING")

(* A submission whose outcome is unknown is settled: the job is adopted or *)
(* the row is given up.                                                    *)
SubmissionSettles == row.state = "SUBMITTING" ~> row.state # "SUBMITTING"
=============================================================================
