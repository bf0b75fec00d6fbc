------------------------- MODULE SessionJobs_proofs -------------------------
(***************************************************************************)
(* JobInv, CapabilityInv and RecordInv are invariants: a job in the queue  *)
(* is never forgotten, nor does its run lose the capability, and a run is  *)
(* over without a record only if it never had a job.  With them IInv, the  *)
(* conjunction of all the invariants of the lifecycle, is one.             *)
(***************************************************************************)
EXTENDS SessionInvariant_proofs

(* The jobs in the queue.                                                  *)

(* No job is submitted and no launch comes to its submission; a slow       *)
(* launch keeps to its job until the job is gone.                          *)
JobsFrame ==
  /\ \A n \in Seqs : jobs'[n] = "none" <=> jobs[n] = "none"
  /\ \A n \in Seqs : jobs'[n] \in Alive => jobs[n] \in Alive
  /\ \A n \in Seqs : "slow" \in Faults /\ jobs'[n] \in Alive /\ Tended(n) => Tended(n)'
  /\ \A q \in Requests : pc'[q] = "submit" => pc[q] = "submit"

(* The row stays, or p writes it: when that ends the run, its job is not   *)
(* forgotten.                                                              *)
RowFrame(p) ==
  \/ UNCHANGED <<row, age>>
  \/ /\ SameRun /\ age' \in {0, age}
     /\ fresh' \subseteq {p} \/ (row.state \in Terminal /\ row'.job = row.job)
     /\ row'.state \in Terminal /\ row.state \notin Terminal =>
          \A n \in Seqs : n = row.seq /\ jobs'[n] \in Alive => "slow" \in Faults /\ Tended(n)'
     /\ "slow" \notin Faults /\ (\E q \in Requests : pc'[q] = "submit") =>
          row'.state \in {"SUBMITTING", "STOPPING"} /\ row'.job = 0

LEMMA OthersJobs ==
  ASSUME SeqInv, SeqInv', JobInv, KeepsRun, JobsFrame, NEW p, Untouched(p), RowFrame(p),
         NEW q \in Requests, q # p
  PROVE  LaunchJobInv(q)' /\ MergeJobInv(q)'
<1>0. /\ LaunchJobInv(q) /\ MergeJobInv(q) /\ LaunchInv(q) /\ MergeInv(q) /\ MergeInv(q)'
      /\ snap[q] \in Row /\ row \in Row /\ row' \in Row
  BY Zenon DEF JobInv, SeqInv, TypeOK
<1>1. /\ pc'[q] = pc[q] /\ snap'[q] = snap[q] /\ cand'[q] = cand[q]
      /\ q \in fresh' => q \in fresh
  BY Zenon DEF Untouched
<1>2. row' = row \/ (row'.client = row.client /\ row'.seq = row.seq)
  BY Zenon DEF KeepsRun, SameRun, RunRow
<1>3. LaunchJobInv(q)'
  <2>1. CASE UNCHANGED <<row, age>>
    BY Zenon, <1>0, <1>1, <2>1 DEF LaunchJobInv, KeepsRun
  <2>2. CASE ~UNCHANGED <<row, age>>
    <3>1. pc'[q] \in Persisted => ~cand'[q].client /\ ~row'.client
      BY Zenon, <1>0, <1>1, <1>2 DEF LaunchJobInv
    <3>2. pc'[q] = "submit" /\ "slow" \notin Faults =>
            row'.state \in {"SUBMITTING", "STOPPING"} /\ row'.job = 0 /\ age' < 2
      BY SMTT(20), <1>0, <1>1, <2>2 DEF LaunchJobInv, RowFrame
    <3>3. QED
      BY Zenon, <3>1, <3>2 DEF LaunchJobInv
  <2>3. QED
    BY Zenon, <2>1, <2>2
<1>4. MergeJobInv(q)'
  <2>1. CASE UNCHANGED row
    <3>1. ASSUME pc'[q] \in Stopping, q \in fresh'
          PROVE  row'.job = snap'[q].job /\ (snap'[q].state \in Reconcilable => row'.state = snap'[q].state)
      BY Zenon, <1>0, <1>1, <2>1, <3>1 DEF MergeJobInv
    <3>2. ASSUME pc'[q] = "merge", q \in fresh', snap'[q].state \in Reconcilable
          PROVE  /\ cand'[q].job # snap'[q].job => jobs'[snap'[q].seq] # "none"
                 /\ cand'[q].state \in Terminal =>
                      /\ jobs'[snap'[q].seq] \in Alive => "slow" \in Faults /\ Tended(snap[q].seq)'
                      /\ "slow" \notin Faults => \A l \in Launchers : pc'[l] # "submit"
      <4>1. snap[q].seq \in Seqs
        BY SMTT(20), <1>0, <1>1, <3>2 DEF MergeInv, Stopping, Row, Seqs
      <4>2. QED
        BY ZenonT(40), <1>0, <1>1, <3>2, <4>1 DEF MergeJobInv, JobsFrame, Requests
    <3>3. QED
      BY Zenon, <1>1, <3>1, <3>2 DEF MergeJobInv
  <2>2. CASE ~UNCHANGED row /\ q \notin fresh'
    BY Zenon, <2>2 DEF MergeJobInv
  <2>3. CASE ~UNCHANGED row /\ q \in fresh'
    <3>1. row.state \in Terminal /\ row'.job = row.job
      BY Zenon, <2>3 DEF RowFrame
    <3>2. pc[q] \in Stopping => snap[q].state \notin Reconcilable /\ row.job = snap[q].job
      BY Zenon, <1>0, <1>1, <2>3, <3>1 DEF MergeJobInv, Terminal, Reconcilable, Live
    <3>3. QED
      BY Zenon, <1>1, <3>1, <3>2 DEF MergeJobInv, Stopping
  <2>4. QED
    BY Zenon, <2>1, <2>2, <2>3
<1>5. QED
  BY Zenon, <1>3, <1>4

(* What follows for the row, its job and its record.                       *)
LEMMA JobsKept ==
  ASSUME SeqInv, SeqInv', JobInv, KeepsRun, JobsFrame, NEW p, Untouched(p), RowFrame(p),
         p \in Requests => LaunchJobInv(p)' /\ MergeJobInv(p)'
  PROVE  JobInv'
<1>0. /\ RowInv /\ RowInv' /\ row \in Row /\ row' \in Row /\ jobs' \in [Seqs -> JobStates]
  BY Zenon DEF SeqInv, TypeOK
<1>1. ASSUME NEW q \in Requests
      PROVE  LaunchJobInv(q)' /\ MergeJobInv(q)'
  BY Zenon, OthersJobs
<1>2. ASSUME NEW n \in Seqs, jobs'[n] \in Alive
      PROVE  Named(n)' \/ ("slow" \in Faults /\ Tended(n)')
  <2>1. jobs[n] \in Alive /\ (Named(n) \/ ("slow" \in Faults /\ Tended(n)'))
    BY Zenon, <1>2 DEF JobInv, JobsFrame
  <2>2. CASE Named(n) /\ UNCHANGED row
    BY Zenon, <2>2 DEF Named
  <2>3. CASE Named(n) /\ ~UNCHANGED row
    <3>1. /\ row.state \in Reconcilable /\ ~row.client /\ row.seq = n
          /\ row'.state # "ABSENT" /\ row'.seq = n /\ ~row'.client /\ row'.job \in {0, n}
      BY Zenon, <2>3 DEF Named, KeepsRun, SameRun, RunRow
    <3>2. CASE row'.state \in Reconcilable
      BY Zenon, <3>1, <3>2 DEF Named
    <3>3. CASE row'.state \notin Reconcilable
      <4>1. row'.state \in Terminal /\ row.state \notin Terminal
        BY Zenon, <1>0, <3>1, <3>3 DEF Row, Reconcilable, Live, Terminal
      <4>2. QED
        BY Zenon, <1>2, <2>3, <3>1, <4>1 DEF RowFrame
    <3>4. QED
      BY Zenon, <3>2, <3>3
  <2>4. QED
    BY Zenon, <2>1, <2>2, <2>3
<1>3. row'.client => \A n \in Seqs : n = row'.seq => jobs'[n] = "none"
  BY Zenon DEF JobInv, KeepsRun, SameRun, RunRow, JobsFrame
<1>4. QED
  BY Zenon, <1>1, <1>2, <1>3 DEF JobInv

(* Steps that write no row and leave no submitted job.                     *)
LEMMA TendedSame ==
  ASSUME NEW p, Untouched(p), NEW n, Tended(n),
         p \in Launchers => pc[p] \notin {"record", "unsaved", "cancel"}
  PROVE  Tended(n)'
BY Zenon DEF Tended, Untouched, Requests

LEMMA QuietJobs ==
  ASSUME SeqInv, SeqInv', JobInv, NEW p \in Requests, Untouched(p),
         UNCHANGED <<row, age>>, KeepsRun,
         pc[p] \notin {"record", "unsaved", "cancel"}, pc'[p] \notin Persisted,
         \A n \in Seqs : jobs'[n] = "none" <=> jobs[n] = "none",
         \A n \in Seqs : jobs'[n] \in Alive => jobs[n] \in Alive,
         MergeJobInv(p)'
  PROVE  JobInv'
<1>1. JobsFrame
  BY Zenon, TendedSame DEF JobsFrame, Untouched, Persisted
<1>2. LaunchJobInv(p)'
  BY Zenon DEF LaunchJobInv, Persisted
<1>3. QED
  BY Zenon, <1>1, <1>2, JobsKept DEF RowFrame

LEMMA NotMerging ==
  ASSUME NEW p, pc'[p] \notin Stopping
  PROVE  MergeJobInv(p)'
BY Zenon DEF MergeJobInv, Stopping

LEMMA BeforePersistJobs ==
  ASSUME SeqInv, SeqInv', JobInv, NEW p \in Launchers,
         \/ \E kind \in Kinds \ {"adopt"}, tun \in Modes : LaunchBegin(p, kind, tun)
         \/ LaunchRetire(p) \/ LaunchFreeze(p) \/ LaunchSerialize(p)
         \/ LaunchClaim(p) \/ LaunchIssue(p) \/ LaunchUnissue(p)
  PROVE  JobInv'
<1>0. /\ p \in Requests /\ TypeOK /\ TypeOK' /\ Tables /\ Untouched(p)
  BY Zenon, LaunchUntouched DEF SeqInv, TypeOK, Tables, Requests, Launch
<1>1. KeepsRun
  BY Zenon, <1>0, BeforePersistInv
<1> DEFINE Early == {"idle", "retire", "freeze", "serialize", "claim", "issue", "persist", "unissue"}
<1>2. UNCHANGED <<row, age, jobs>> /\ pc[p] \in Early /\ pc'[p] \in Early
  <2>1. CASE \E kind \in Kinds \ {"adopt"}, tun \in Modes : LaunchBegin(p, kind, tun)
    BY Zenon, <1>0, <2>1, GotoUntouched DEF LaunchBegin, store, outside
  <2>2. CASE LaunchRetire(p) \/ LaunchFreeze(p)
    BY Zenon, <1>0, <2>2, GotoUntouched, ReturnUntouched DEF LaunchRetire, LaunchFreeze, store
  <2>3. CASE LaunchSerialize(p) \/ LaunchClaim(p)
    BY Zenon, <1>0, <2>3, GotoUntouched, ReturnUntouched DEF LaunchSerialize, LaunchClaim, store, outside
  <2>4. CASE LaunchIssue(p) \/ LaunchUnissue(p)
    BY Zenon, <1>0, <2>4, GotoUntouched, ReturnUntouched DEF LaunchIssue, LaunchUnissue, store
  <2>5. QED
    BY Zenon, <2>1, <2>2, <2>3, <2>4
<1>3. /\ pc[p] \notin {"record", "unsaved", "cancel"} /\ pc'[p] \notin Persisted
      /\ pc'[p] \notin Stopping
  BY Zenon, <1>2 DEF Persisted, Stopping
<1>4. QED
  BY Zenon, <1>0, <1>1, <1>2, <1>3, QuietJobs, NotMerging

(* persistSubmitIntent: no job of an earlier run is in the queue, since    *)
(* the row was over and this launch holds the session's lock.              *)
LEMMA PersistJobs ==
  ASSUME SeqInv, SeqInv', JobInv, NEW p \in Launchers, LaunchPersist(p)
  PROVE  JobInv'
<1>0. /\ p \in Requests /\ TypeOK /\ TypeOK' /\ Tables /\ RowInv /\ LaunchInv(p)
      /\ Untouched(p) /\ row \in Row /\ cand[p] \in Row /\ snap[p] \in Row
  BY Zenon, LaunchUntouched DEF SeqInv, TypeOK, Tables, Requests, Launch
<1>1. UNCHANGED <<jobs, recorded, deleted>> /\ pc[p] = "persist"
  BY Zenon DEF LaunchPersist, outside
<1>2. CASE UNCHANGED <<row, age>> /\ pc'[p] = "unissue"
  <2>1. pc'[p] \notin Persisted /\ pc'[p] \notin Stopping
    BY Zenon, <1>2 DEF Persisted, Stopping
  <2>2. QED
    BY Zenon, <1>0, <1>1, <1>2, <2>1, QuietKeepsRun, QuietJobs, NotMerging
<1>3. CASE /\ p \in fresh /\ row.state = snap[p].state
           /\ row' = cand[p] /\ age' = 0 /\ fresh' = {}
           /\ cand[p].client => pc'[p] = "idle"
           /\ ~cand[p].client => pc'[p] = "submit" /\ UNCHANGED cand
  <2>1. /\ row.state \in Terminal /\ cand[p].seq = row.seq + 1 /\ Present
        /\ cand[p].state = IF cand[p].client THEN "QUEUED" ELSE "SUBMITTING"
        /\ cand[p].job = 0
    BY Zenon, <1>0, <1>1, <1>3 DEF LaunchInv, Unsubmitted, Issued, BeforePersist
  <2>2. \A n \in Seqs : jobs[n] \notin Alive
    <3>1. \A n : ~Named(n)
      BY Zenon, <2>1 DEF Named, Reconcilable, Live, Terminal
    <3>2. \A n : ~Tended(n)
      BY Zenon, <1>0, <1>1, OneLaunch DEF Tended, Issued, Persisted, Requests
    <3>3. QED
      BY Zenon, <3>1, <3>2 DEF JobInv
  <2>3. \A n \in Seqs : n = cand[p].seq => jobs[n] = "none"
    BY SMTT(20), <1>0, <2>1 DEF RowInv, Row, Seqs
  <2>4. row'.state \notin Terminal
    BY Zenon, <1>3, <2>1 DEF Terminal
  <2>5. \A q \in Requests : MergeJobInv(q)'
    BY Zenon, <1>3 DEF MergeJobInv
  <2>6. ASSUME NEW q \in Requests, q # p
        PROVE  LaunchJobInv(q)'
    <3>1. pc'[q] = pc[q] /\ pc[q] \notin Persisted
      BY Zenon, <1>0, <1>1, <2>6, OneLaunch DEF Untouched, Issued
    <3>2. QED
      BY Zenon, <3>1 DEF LaunchJobInv, Persisted
  <2>7. LaunchJobInv(p)'
    <3>1. CASE cand[p].client
      BY Zenon, <1>3, <3>1 DEF LaunchJobInv, Persisted
    <3>2. CASE ~cand[p].client
      <4>1. age' < 2
        BY <1>3
      <4>2. QED
        BY Zenon, <1>3, <2>1, <2>4, <3>2, <4>1 DEF LaunchJobInv
    <3>3. QED
      BY Zenon, <3>1, <3>2
  <2>8. QED
    BY Zenon, <1>1, <1>3, <2>2, <2>3, <2>4, <2>5, <2>6, <2>7 DEF JobInv
<1>4. QED
  <2>1. PICK saved \in Outcomes("save") :
          IF p \in fresh /\ row.state = snap[p].state /\ saved
          THEN /\ Save(p, saved, cand[p])
               /\ IF cand[p].client
                  THEN Return(p)
                  ELSE /\ Goto(p, "submit")
                       /\ snap' = [snap EXCEPT ![p] = NoRow]
                       /\ UNCHANGED <<cand, lock>>
          ELSE /\ Goto(p, "unissue")
               /\ fresh' = fresh \ {p}
               /\ UNCHANGED <<row, age, snap, cand, lock>>
    BY Zenon DEF LaunchPersist
  <2>2. CASE p \in fresh /\ row.state = snap[p].state /\ saved
    <3>1. row' = cand[p] /\ age' = 0 /\ fresh' = {}
      BY Zenon, <2>1, <2>2, SaveUntouched
    <3>2. cand[p].client => pc'[p] = "idle"
      BY Zenon, <1>0, <2>1, <2>2, ReturnUntouched
    <3>3. ~cand[p].client => Goto(p, "submit") /\ UNCHANGED cand
      BY Zenon, <2>1, <2>2
    <3>4. QED
      BY Zenon, <1>0, <1>3, <2>2, <3>1, <3>2, <3>3, GotoUntouched
  <2>3. CASE ~(p \in fresh /\ row.state = snap[p].state /\ saved)
    BY Zenon, <1>0, <1>2, <2>1, <2>3, GotoUntouched
  <2>4. QED
    BY Zenon, <2>2, <2>3

(* sbatch: the row names the new job, or a slow launch goes on to record   *)
(* it.                                                                     *)
LEMMA SubmitJobs ==
  ASSUME JobsAreFound, SeqInv, SeqInv', JobInv, NEW p \in Launchers, LaunchSubmit(p)
  PROVE  JobInv'
<1>0. /\ p \in Requests /\ TypeOK /\ TypeOK' /\ Tables /\ RowInv /\ LaunchInv(p) /\ LaunchJobInv(p)
      /\ Untouched(p) /\ row \in Row /\ cand[p] \in Row
  BY Zenon, LaunchUntouched DEF SeqInv, JobInv, TypeOK, Tables, Requests, Launch
<1>1. /\ pc[p] = "submit" /\ UNCHANGED <<row, age, recorded, deleted, fresh>>
      /\ \/ pc'[p] \in {"record", "abandon"} /\ UNCHANGED cand
         \/ pc'[p] = "idle" /\ "ambiguous" \in Faults
  <2>1. pc[p] = "submit" /\ UNCHANGED <<row, age, recorded, deleted, fresh>>
    BY Zenon DEF LaunchSubmit, store
  <2>2. \/ (Goto(p, "record") \/ Goto(p, "abandon")) /\ UNCHANGED cand
        \/ Return(p) /\ "ambiguous" \in Faults
    BY Zenon DEF LaunchSubmit
  <2>3. QED
    BY Zenon, <1>0, <2>1, <2>2, GotoUntouched, ReturnUntouched
<1>2. PICK n \in Seqs : n = cand[p].seq /\ jobs[n] = "none" /\ (Present => row.seq = n)
  <2>1. cand[p].seq \in Seqs
    BY SMTT(20), <1>0, <1>1 DEF LaunchInv, Unsubmitted, Persisted, Row, Seqs
  <2>2. QED
    BY Zenon, <1>0, <1>1, <2>1 DEF LaunchInv, Unsubmitted, Persisted
<1>3. \/ UNCHANGED jobs
      \/ jobs' = [jobs EXCEPT ![n] = "pending"] /\ pc'[p] \in {"record", "idle"}
  <2>1. "misjudged" \notin Faults
    BY Zenon DEF JobsAreFound, RefusalsAreDefinite
  <2>2. UNCHANGED jobs \/ (jobs' = [jobs EXCEPT ![n] = "pending"] /\ (Goto(p, "record") \/ Return(p)))
    BY Zenon, <1>2, <2>1 DEF LaunchSubmit
  <2>3. QED
    BY Zenon, <1>0, <2>2, GotoUntouched, ReturnUntouched
<1>4. \A q \in Launchers \ {p} : pc[q] \notin Persisted
  BY Zenon, <1>0, <1>1, OneLaunch DEF Persisted, Requests
<1>5. LaunchJobInv(p)'
  BY Zenon, <1>0, <1>1 DEF LaunchJobInv, Persisted
<1>6. MergeJobInv(p)'
  BY Zenon, <1>1, NotMerging DEF Stopping
<1>7. \A m : Tended(m) => Tended(m)'
  BY Zenon, <1>0, <1>1, TendedSame
<1>8. CASE UNCHANGED jobs
  <2>1. KeepsRun
    BY Zenon, <1>1, <1>8, QuietKeepsRun
  <2>2. JobsFrame
    BY Zenon, <1>0, <1>1, <1>7, <1>8 DEF JobsFrame, Untouched
  <2>3. QED
    BY Zenon, <1>0, <1>1, <1>5, <1>6, <2>1, <2>2, JobsKept DEF RowFrame
<1>9. CASE jobs' = [jobs EXCEPT ![n] = "pending"] /\ pc'[p] \in {"record", "idle"}
  <2>1. jobs'[n] = "pending" /\ \A m \in Seqs \ {n} : jobs'[m] = jobs[m]
    BY Zenon, <1>0, <1>2, <1>9 DEF Tables
  <2>2. "slow" \in Faults => Tended(n)'
    BY Zenon, <1>1, <1>2, <1>9 DEF JobsAreFound, Tended
  <2>3. "slow" \notin Faults => Named(n)'
    <3>1. "slow" \notin Faults => /\ row.state \in {"SUBMITTING", "STOPPING"} /\ row.job = 0
                                 /\ ~row.client /\ row.seq = n
      BY Zenon, <1>0, <1>1, <1>2 DEF LaunchJobInv, Persisted, Present
    <3>2. QED
      BY Zenon, <1>1, <3>1 DEF Named, Reconcilable, Live
  <2>4. ASSUME NEW m \in Seqs, jobs'[m] \in Alive
        PROVE  Named(m)' \/ ("slow" \in Faults /\ Tended(m)')
    BY Zenon, <1>1, <1>7, <2>1, <2>2, <2>3, <2>4 DEF JobInv, Named
  <2>5. ~row'.client
    BY Zenon, <1>0, <1>1 DEF LaunchJobInv, Persisted
  <2>6. ASSUME NEW q \in Requests, q # p
        PROVE  LaunchJobInv(q)' /\ MergeJobInv(q)'
    <3>1. /\ pc'[q] = pc[q] /\ snap'[q] = snap[q] /\ cand'[q] = cand[q]
          /\ LaunchJobInv(q) /\ MergeJobInv(q) /\ MergeInv(q) /\ snap[q] \in Row
      BY Zenon, <1>0, <2>6 DEF Untouched, JobInv, SeqInv, TypeOK
    <3>2. LaunchJobInv(q)'
      BY Zenon, <1>1, <3>1 DEF LaunchJobInv
    <3>3. ASSUME pc'[q] = "merge", q \in fresh', snap'[q].state \in Reconcilable
          PROVE  /\ cand'[q].job # snap'[q].job => jobs'[snap'[q].seq] # "none"
                 /\ cand'[q].state \in Terminal =>
                      /\ jobs'[snap'[q].seq] \in Alive => "slow" \in Faults /\ Tended(snap[q].seq)'
                      /\ "slow" \notin Faults => \A l \in Launchers : pc'[l] # "submit"
      <4>1. PICK m \in Seqs : m = snap[q].seq
        BY SMTT(20), <3>1, <3>3 DEF MergeInv, Stopping, Row, Seqs
      <4>2. cand[q].job # snap[q].job => jobs'[snap[q].seq] # "none"
        BY Zenon, <1>1, <2>1, <3>1, <3>3, <4>1 DEF MergeJobInv
      <4>3. cand[q].state \in Terminal => "slow" \in Faults
        BY Zenon, <1>1, <3>1, <3>3 DEF MergeJobInv
      <4>4. cand[q].state \in Terminal /\ jobs'[m] \in Alive => Tended(m)'
        BY ZenonT(40), <1>1, <1>7, <2>1, <2>2, <3>1, <3>3, <4>1, <4>3 DEF MergeJobInv
      <4>5. QED
        BY Zenon, <3>1, <4>1, <4>2, <4>3, <4>4
    <3>4. MergeJobInv(q)'
      BY Zenon, <1>1, <3>1, <3>3 DEF MergeJobInv
    <3>5. QED
      BY Zenon, <3>2, <3>4
  <2>7. QED
    BY Zenon, <1>5, <1>6, <2>4, <2>5, <2>6 DEF JobInv
<1>10. QED
  BY Zenon, <1>3, <1>8, <1>9

(* The end of a submission.                                                *)
LEMMA RecordJobs ==
  ASSUME SeqInv, SeqInv', JobInv, NEW p \in Launchers, LaunchRecord(p)
  PROVE  JobInv'
<1>0. /\ p \in Requests /\ TypeOK /\ TypeOK' /\ Tables /\ RowInv /\ LaunchInv(p) /\ LaunchJobInv(p)
      /\ Untouched(p) /\ row \in Row /\ cand[p] \in Row /\ row' \in Row
  BY Zenon, LaunchUntouched DEF SeqInv, JobInv, TypeOK, Tables, Requests, Launch
<1>1. KeepsRun
  BY Zenon, <1>0, PersistedInv
<1>2. pc[p] = "record" /\ UNCHANGED <<jobs, recorded>>
  BY Zenon DEF LaunchRecord, outside
<1>3. PICK n \in Seqs : n = cand[p].seq /\ (Present => row.seq = n)
  <2>1. cand[p].seq \in Seqs
    BY SMTT(20), <1>0, <1>2 DEF LaunchInv, Unsubmitted, Persisted, Row, Seqs
  <2>2. QED
    BY Zenon, <1>0, <1>2, <2>1 DEF LaunchInv, Unsubmitted, Persisted
<1>41. pc'[p] \in {"idle", "cancel", "unsaved"}
  BY Zenon, <1>0, GotoUntouched, ReturnUntouched DEF LaunchRecord
<1>4. \A q \in Requests : pc'[q] # "submit"
  BY Zenon, <1>0, <1>2, <1>41, OneLaunch DEF Untouched, Persisted
<1>5. MergeJobInv(p)'
  BY Zenon, <1>41, NotMerging DEF Stopping
<1>6. CASE UNCHANGED <<row, age>> /\ pc'[p] = "unsaved" /\ UNCHANGED cand
  <2>1. JobsFrame
    BY Zenon, <1>0, <1>2, <1>6 DEF JobsFrame, Untouched, Tended, Requests
  <2>2. LaunchJobInv(p)'
    BY Zenon, <1>0, <1>2, <1>6 DEF LaunchJobInv, Persisted
  <2>3. QED
    BY Zenon, <1>0, <1>1, <1>5, <1>6, <2>1, <2>2, JobsKept DEF RowFrame
<1>7. CASE /\ Present /\ age' = 0 /\ fresh' = {}
           /\ row'.state = IF row.state \in {"SUBMITTING", "QUEUED"} THEN "QUEUED" ELSE row.state
           /\ row'.client = row.client /\ row'.seq = row.seq /\ row'.job = n
           /\ \/ row.state \in {"SUBMITTING", "QUEUED"} /\ pc'[p] = "idle"
              \/ row.state \notin {"SUBMITTING", "QUEUED"} /\ pc'[p] = "cancel" /\ UNCHANGED cand
  <2>1. RowFrame(p)
    <3>1. SameRun
      BY Zenon, <1>0, <1>1, <1>7 DEF KeepsRun, SameRun, RunRow, RowInv, Present, Started,
         Live, Reconcilable
    <3>2. row'.state \in Terminal => row.state \in Terminal
      BY Zenon, <1>7 DEF Terminal
    <3>3. QED
      BY Zenon, <1>4, <1>7, <3>1, <3>2 DEF RowFrame
  <2>2. LaunchJobInv(p)'
    BY Zenon, <1>0, <1>2, <1>7 DEF LaunchJobInv, Persisted
  <2>3. CASE pc'[p] = "cancel" /\ UNCHANGED cand
    <3>1. JobsFrame
      BY Zenon, <1>0, <1>2, <1>4, <2>3 DEF JobsFrame, Untouched, Tended, Requests
    <3>2. QED
      BY Zenon, <1>0, <1>1, <1>5, <2>1, <2>2, <3>1, JobsKept
  <2>4. CASE row.state \in {"SUBMITTING", "QUEUED"} /\ pc'[p] = "idle"
    <3>1. Named(n)'
      BY Zenon, <1>0, <1>2, <1>3, <1>7, <2>4 DEF Named, LaunchJobInv, Persisted, Reconcilable, Live
    <3>2. ASSUME NEW m \in Seqs, jobs'[m] \in Alive
          PROVE  Named(m)'
      <4>1. CASE m = n
        BY Zenon, <3>1, <4>1
      <4>2. CASE m # n
        <5>1. ~Named(m)
          BY Zenon, <1>3, <1>7, <4>2 DEF Named
        <5>2. ~Tended(m)
          BY Zenon, <1>0, <1>2, <1>3, <4>2, OneLaunch DEF Tended, Persisted, Requests
        <5>3. QED
          BY Zenon, <1>2, <3>2, <5>1, <5>2 DEF JobInv
      <4>3. QED
        BY Zenon, <4>1, <4>2
    <3>3. ~row'.client /\ row'.state \notin Terminal
      BY Zenon, <1>0, <1>2, <1>7, <2>4 DEF LaunchJobInv, Persisted, Terminal
    <3>4. ASSUME NEW q \in Requests
          PROVE  LaunchJobInv(q)' /\ MergeJobInv(q)'
      <4>1. CASE q = p
        BY Zenon, <1>5, <2>2, <4>1
      <4>2. CASE q # p
        <5>1. pc'[q] = pc[q] /\ pc[q] \notin Persisted /\ q \notin fresh'
          BY Zenon, <1>0, <1>2, <1>7, <4>2, OneLaunch DEF Untouched, Persisted
        <5>2. QED
          BY Zenon, <5>1 DEF LaunchJobInv, MergeJobInv, Persisted
      <4>3. QED
        BY Zenon, <4>1, <4>2
    <3>5. QED
      BY Zenon, <3>2, <3>3, <3>4 DEF JobInv
  <2>5. QED
    BY Zenon, <1>7, <2>3, <2>4
<1>8. QED
  <2>1. PICK saved \in Outcomes("save") :
          IF row # NoRow /\ saved
          THEN /\ Save(p, saved, [row EXCEPT !.job = cand[p].seq,
                    !.state = IF row.state \in {"SUBMITTING", "QUEUED"} THEN "QUEUED" ELSE row.state])
               /\ IF row.state \in {"SUBMITTING", "QUEUED"}
                  THEN Return(p)
                  ELSE Goto(p, "cancel") /\ UNCHANGED <<snap, cand, lock>>
          ELSE Goto(p, "unsaved") /\ UNCHANGED <<row, age, fresh, snap, cand, lock>>
    BY Zenon DEF LaunchRecord
  <2>2. CASE row # NoRow /\ saved
    <3>1. /\ age' = 0 /\ fresh' = {} /\ Present
          /\ row' = [row EXCEPT !.job = n,
                !.state = IF row.state \in {"SUBMITTING", "QUEUED"} THEN "QUEUED" ELSE row.state]
      BY Zenon, <1>0, <1>3, <2>1, <2>2, SaveUntouched DEF RowInv
    <3>2. /\ row'.state = IF row.state \in {"SUBMITTING", "QUEUED"} THEN "QUEUED" ELSE row.state
          /\ row'.client = row.client /\ row'.seq = row.seq /\ row'.job = n
      BY Zenon, <1>0, <3>1 DEF Row
    <3>3. \/ row.state \in {"SUBMITTING", "QUEUED"} /\ pc'[p] = "idle"
          \/ row.state \notin {"SUBMITTING", "QUEUED"} /\ pc'[p] = "cancel" /\ UNCHANGED cand
      BY Zenon, <1>0, <2>1, <2>2, GotoUntouched, ReturnUntouched
    <3>4. QED
      BY Zenon, <1>7, <3>1, <3>2, <3>3
  <2>3. CASE ~(row # NoRow /\ saved)
    BY Zenon, <1>0, <1>6, <2>1, <2>3, GotoUntouched
  <2>4. QED
    BY Zenon, <2>2, <2>3

LEMMA CancelJobs ==
  ASSUME JobsAreFound, SeqInv, SeqInv', JobInv, NEW p \in Launchers,
         LaunchUnsaved(p) \/ LaunchCancel(p)
  PROVE  JobInv'
<1>0. /\ p \in Requests /\ TypeOK /\ TypeOK' /\ Tables /\ LaunchInv(p) /\ LaunchJobInv(p)
      /\ Untouched(p) /\ cand[p] \in Row
  BY ZenonT(40), LaunchUntouched DEF SeqInv, JobInv, TypeOK, Tables, Requests, Launch
<1>1. KeepsRun
  BY Zenon, <1>0, PersistedInv
<1>2. /\ pc[p] \in {"unsaved", "cancel"} /\ UNCHANGED <<row, age, recorded>>
      /\ \E done \in Outcomes("cancel") : Scancel(cand[p].seq, done)
      /\ \/ pc'[p] = "idle"
         \/ pc'[p] = "cancelled" /\ \E e : cand' = [cand EXCEPT ![p].err = e]
  BY ZenonT(40), <1>0, GotoUntouched, ReturnUntouched DEF LaunchUnsaved, LaunchCancel, store
<1>3. PICK n \in Seqs : n = cand[p].seq
  BY SMTT(20), <1>0, <1>2 DEF LaunchInv, Unsubmitted, Persisted, Row, Seqs
<1>4. /\ \A m \in Seqs : jobs'[m] = "none" <=> jobs[m] = "none"
      /\ \A m \in Seqs : jobs'[m] \in Alive => jobs[m] \in Alive
      /\ "cancel" \notin Faults => jobs'[n] \notin Alive
  BY Zenon, <1>0, <1>2, <1>3 DEF Scancel, Alive, Tables, Outcomes
<1>5. ASSUME NEW m \in Seqs, "slow" \in Faults, jobs'[m] \in Alive, Tended(m)
      PROVE  Tended(m)'
  <2>1. m # n
    BY Zenon, <1>4, <1>5 DEF JobsAreFound
  <2>2. QED
    BY Zenon, <1>0, <1>3, <1>5, <2>1 DEF Tended, Untouched, Requests
<1>6. JobsFrame
  BY Zenon, <1>0, <1>2, <1>4, <1>5 DEF JobsFrame, Untouched
<1>7. LaunchJobInv(p)'
  <2>1. pc'[p] = "cancelled" => cand'[p].client = cand[p].client
    BY ZenonT(40), <1>0, <1>2 DEF Tables, Row
  <2>2. QED
    BY Zenon, <1>0, <1>2, <2>1 DEF LaunchJobInv, Persisted
<1>8. MergeJobInv(p)'
  BY Zenon, <1>2, NotMerging DEF Stopping
<1>9. QED
  BY ZenonT(40), <1>0, <1>1, <1>2, <1>6, <1>7, <1>8, JobsKept DEF RowFrame

LEMMA CancelledJobs ==
  ASSUME JobsAreFound, SeqInv, SeqInv', JobInv, NEW p \in Launchers, LaunchCancelled(p) \/ LaunchAbandoned(p)
  PROVE  JobInv'
<1>0. /\ p \in Requests /\ TypeOK /\ TypeOK' /\ Tables /\ RowInv /\ LaunchInv(p)
      /\ Untouched(p) /\ row \in Row
  BY Zenon, LaunchUntouched DEF SeqInv, JobInv, TypeOK, Tables, Requests, Launch
<1>1. KeepsRun
  BY Zenon, <1>0, PersistedInv
<1>2. /\ pc[p] \in {"cancelled", "abandoned"} /\ UNCHANGED <<jobs, recorded>> /\ pc'[p] = "idle"
  BY Zenon, <1>0, ReturnUntouched DEF LaunchCancelled, LaunchAbandoned, outside
<1>3. \A q \in Requests : pc'[q] # "submit"
  BY Zenon, <1>0, <1>2, OneLaunch DEF Untouched, Persisted
<1>4. JobsFrame
  BY Zenon, <1>0, <1>2, <1>3, TendedSame DEF JobsFrame
<1>5. LaunchJobInv(p)' /\ MergeJobInv(p)'
  BY Zenon, <1>2, NotMerging DEF LaunchJobInv, Persisted, Stopping
<1>6. RowFrame(p)
  <2>1. CASE UNCHANGED <<row, age>>
    BY Zenon, <2>1 DEF RowFrame
  <2>2. CASE ~UNCHANGED <<row, age>>
    <3>1. /\ age' = 0 /\ fresh' = {} /\ Present
          /\ \/ \E e : row' = [row EXCEPT !.err = e]
             \/ /\ pc[p] = "abandoned" /\ row.seq = cand[p].seq
                /\ row'.state \in Terminal
      <4>1. CASE LaunchCancelled(p)
        <5>1. PICK saved \in Outcomes("save") :
                row # NoRow /\ Save(p, saved, [row EXCEPT !.err = cand[p].err])
          BY Zenon, <2>2, <4>1 DEF LaunchCancelled
        <5>2. age' = 0 /\ fresh' = {} /\ row' = [row EXCEPT !.err = cand[p].err]
          BY Zenon, <2>2, <5>1, SaveUntouched
        <5>3. Present
          BY Zenon, <1>0, <5>1 DEF RowInv
        <5>4. QED
          BY Zenon, <5>2, <5>3
      <4>2. CASE LaunchAbandoned(p)
        <5>1. PICK saved \in Outcomes("save") :
                /\ row.state \in {"SUBMITTING", "STOPPING"} /\ row.seq = cand[p].seq
                /\ Save(p, saved, [row EXCEPT !.state = IF row.state = "SUBMITTING" THEN "FAILED" ELSE "STOPPED",
                                              !.tun = FALSE, !.err = cand[p].err])
          BY Zenon, <2>2, <4>2 DEF LaunchAbandoned
        <5>2. /\ age' = 0 /\ fresh' = {} /\ Present
              /\ row' = [row EXCEPT !.state = IF row.state = "SUBMITTING" THEN "FAILED" ELSE "STOPPED",
                                    !.tun = FALSE, !.err = cand[p].err]
          BY Zenon, <2>2, <5>1, SaveUntouched DEF Present
        <5>3. row'.state \in {"FAILED", "STOPPED"}
          BY Zenon, <1>0, <5>2 DEF Row
        <5>4. QED
          BY Zenon, <4>2, <5>1, <5>2, <5>3 DEF LaunchAbandoned, Terminal
      <4>3. QED
        BY Zenon, <4>1, <4>2
    <3>2. SameRun
      <4>1. RunRow(row)
        BY Zenon, <1>0, <3>1 DEF RunRow, RowInv, Present, Started
      <4>2. QED
        BY Zenon, <1>1, <3>1, <4>1 DEF KeepsRun, SameRun
    <3>3. CASE \E e : row' = [row EXCEPT !.err = e]
      <4>1. row'.state = row.state
        BY Zenon, <1>0, <3>3 DEF Row
      <4>2. QED
        BY Zenon, <1>3, <3>1, <3>2, <4>1 DEF RowFrame
    <3>4. CASE pc[p] = "abandoned" /\ row.seq = cand[p].seq /\ row'.state \in Terminal
      <4>1. jobs'[row.seq] = "none"
        BY Zenon, <1>0, <1>2, <3>4 DEF LaunchInv, Unsubmitted, JobsAreFound, RefusalsAreDefinite
      <4>2. QED
        BY Zenon, <1>3, <3>1, <3>2, <4>1 DEF RowFrame, Alive
    <3>5. QED
      BY Zenon, <3>1, <3>3, <3>4
  <2>3. QED
    BY Zenon, <2>1, <2>2
<1>7. QED
  BY Zenon, <1>0, <1>1, <1>4, <1>5, <1>6, JobsKept

LEMMA AbandonJobs ==
  ASSUME SeqInv, SeqInv', JobInv, NEW p \in Launchers, LaunchAbandon(p)
  PROVE  JobInv'
<1>0. /\ p \in Requests /\ TypeOK /\ TypeOK' /\ Tables /\ LaunchJobInv(p)
      /\ Untouched(p) /\ cand[p] \in Row
  BY ZenonT(40), LaunchUntouched DEF SeqInv, JobInv, TypeOK, Tables, Requests, Launch
<1>1. KeepsRun
  BY Zenon, <1>0, PersistedInv
<1>2. /\ pc[p] = "abandon" /\ UNCHANGED <<row, age, jobs, recorded>> /\ pc'[p] = "abandoned"
      /\ \E e : cand' = [cand EXCEPT ![p].err = e]
  BY Zenon, <1>0, GotoUntouched DEF LaunchAbandon, store
<1>3. JobsFrame
  BY Zenon, <1>0, <1>2, TendedSame DEF JobsFrame, Untouched
<1>4. cand'[p].client = cand[p].client
  BY ZenonT(40), <1>0, <1>2 DEF Tables, Row
<1>5. LaunchJobInv(p)' /\ MergeJobInv(p)'
  BY Zenon, <1>0, <1>2, <1>4, NotMerging DEF LaunchJobInv, Persisted, Stopping
<1>6. QED
  BY ZenonT(40), <1>0, <1>1, <1>2, <1>3, <1>5, JobsKept DEF RowFrame

LEMMA LaunchJobs ==
  ASSUME JobsAreFound, SeqInv, SeqInv', JobInv, NEW p \in Launchers, Launch(p)
  PROVE  JobInv'
BY Zenon, BeforePersistJobs, PersistJobs, SubmitJobs, RecordJobs, CancelJobs, CancelledJobs,
   AbandonJobs DEF Launch

-----------------------------------------------------------------------------
(* Reconciliation.  A candidate that ends the run was derived from a job   *)
(* that is not in the queue, and one that adopts a job from a job that     *)
(* exists.                                                                 *)
Derived(s, c) ==
  /\ c.job # s.job => jobs[Target(s)] # "none"
  /\ c.state \in Terminal /\ s.state \in Reconcilable =>
       /\ jobs'[Target(s)] \notin Alive
       /\ s.job # 0 \/ age = 2 \/ jobs[Target(s)] # "none" \/ s.state \in {"STARTING", "READY"}

LEMMA NextStateEnds ==
  ASSUME NEW from \in Reconcilable, NEW o \in Alive
  PROVE  NextState(from, o) \notin Terminal
BY Zenon DEF NextState, Reconcilable, Live, Terminal, Alive

LEMMA ApplyEnds ==
  ASSUME NEW s \in Row, s.state \in Reconcilable, NEW n, NEW o, NEW linked, NEW e,
         ApplyObservation(s, n, o, linked, e).state \in Terminal
  PROVE  o \notin Alive \cup {"unknown"}
<1> DEFINE adopted == IF s.job = 0 THEN n ELSE s.job
           next == NextState(s.state, o)
           shown == IF next \in {"QUEUED", "STARTING"} /\ linked THEN "READY" ELSE next
           pending == s.state = "STOPPING" /\ shown = "STOPPING" /\ e
           seen == [s EXCEPT !.job = adopted, !.state = shown,
                             !.started = s.started \/ o = "active", !.err = pending]
           kept == [s EXCEPT !.job = adopted]
<1>1. ApplyObservation(s, n, o, linked, e) = IF o = "unknown" THEN kept ELSE seen
  BY Zenon DEF ApplyObservation
<1>2. kept.state = s.state /\ seen.state = shown
  BY Zenon DEF Row
<1>3. s.state \notin Terminal /\ (o \in Alive => next \notin Terminal)
  BY Zenon, NextStateEnds DEF Reconcilable, Live, Terminal
<1>4. shown \in Terminal => next \in Terminal
  BY Zenon DEF Terminal
<1> HIDE DEF kept, seen, shown, next
<1>5. QED
  BY Zenon, <1>1, <1>2, <1>3, <1>4

LEMMA LogsEnd ==
  ASSUME NEW c \in Row, NEW d \in WithLogs(c)
  PROVE  d.job = c.job /\ (d.state \in Terminal => c.state \in Terminal)
BY Zenon DEF WithLogs, Row, Terminal

LEMMA SchedulerDerived ==
  ASSUME JobsAreFound, TypeOK, TypeOK', NEW s \in Row, s.state \in Reconcilable, Target(s) \in Seqs,
         \A n \in Seqs : jobs'[n] \in Alive => jobs[n] \in Alive,
         NEW cancelled \in BOOLEAN, NEW c \in ObserveScheduler(s, cancelled)
  PROVE  Derived(s, c)
<1> DEFINE n == Target(s)
           seen == ({jobs[n], jobs'[n]} \cap Alive) \cup (IF jobs'[n] = "done" THEN Endings ELSE {})
                     \cup (IF "unreachable" \in Faults THEN {"unknown"} ELSE {})
<1>1. CASE /\ jobs[n] # "none"
           /\ \E o \in seen : c \in WithLogs(ApplyObservation(s, n, o, Linked(s), ~cancelled))
  <2>1. PICK o \in seen : c \in WithLogs(ApplyObservation(s, n, o, Linked(s), ~cancelled))
    BY Zenon, <1>1
  <2>2. Linked(s) \in BOOLEAN /\ (~cancelled) \in BOOLEAN
    BY Zenon DEF Linked
  <2>3. ApplyObservation(s, n, o, Linked(s), ~cancelled) \in Row
    BY Zenon, <2>2, ApplyObservationCandidate DEF Candidate
  <2>4. c.state \in Terminal => o \notin Alive \cup {"unknown"}
    BY Zenon, <2>1, <2>3, LogsEnd, ApplyEnds
  <2>5. c.state \in Terminal => jobs'[n] = "done"
    BY Zenon, <2>1, <2>4
  <2>6. QED
    BY Zenon, <1>1, <2>5 DEF Derived, Alive
<1>2. CASE jobs[n] \notin Alive /\ c = MissingFromScheduler(s, age)
  <2>1. c.job = s.job
    BY Zenon, <1>2 DEF MissingFromScheduler, Row
  <2>2. s.state \notin Terminal
    BY Zenon DEF Reconcilable, Live, Terminal
  <2>3. c.state \in Terminal => ~(s.job = 0 /\ age < 2)
    BY Zenon, <1>2, <2>2 DEF MissingFromScheduler
  <2>4. c.state \in Terminal => s.job # 0 \/ age = 2
    BY SMTT(20), <2>3 DEF TypeOK, Ages
  <2>5. jobs'[n] \notin Alive
    BY Zenon, <1>2
  <2>6. QED
    BY Zenon, <2>1, <2>4, <2>5 DEF Derived
<1>3. QED
  BY ZenonT(40), <1>1, <1>2 DEF ObserveScheduler, JobsAreFound

LEMMA NothingDerived ==
  ASSUME JobsAreFound, "unreachable" \in Faults, NEW s \in Row, s.state \in Reconcilable, Target(s) \in Seqs,
         \A n \in Seqs : jobs'[n] \in Alive => jobs[n] \in Alive,
         NEW c \in ObserveNothing(s)
  PROVE  Derived(s, c)
<1>1. s.state \notin Terminal
  BY Zenon DEF Reconcilable, Live, Terminal
<1>2. CASE c = s
  BY Zenon, <1>1, <1>2 DEF Derived
<1>3. CASE c # s
  <2>1. PICK e \in (IF jobs[Target(s)] \in Alive /\ "requeue" \notin Faults THEN {FALSE} ELSE BOOLEAN) :
          c = UnreachableScheduler(s, e)
    BY Zenon, <1>3 DEF ObserveNothing
  <2>2. c.job = s.job
    BY Zenon, <2>1 DEF UnreachableScheduler, Row
  <2>3. c.state \in Terminal => OutlivedWalltime(s, e)
    BY Zenon, <1>1, <2>1 DEF UnreachableScheduler, Row
  <2>4. "requeue" \notin Faults
    <3>1. "requeue" \in Faults => {"unreachable", "requeue"} \cap Faults = {"unreachable", "requeue"}
      OBVIOUS
    <3>2. QED
      BY Zenon, <3>1 DEF JobsAreFound
  <2>5. c.state \in Terminal => jobs[Target(s)] \notin Alive /\ s.state \in {"STARTING", "READY"}
    BY Zenon, <2>1, <2>3, <2>4 DEF OutlivedWalltime
  <2>6. QED
    BY Zenon, <2>2, <2>5 DEF Derived
<1>4. QED
  BY Zenon, <1>2, <1>3

(* What a Stop or the background pass has observed.                        *)
LEMMA ObserveJobs ==
  ASSUME JobsAreFound, SeqInv, SeqInv', JobInv, NEW p \in Requests, ReconcileSnapshots(p)
  PROVE  JobInv'
<1>0. /\ TypeOK /\ TypeOK' /\ Tables /\ MergeInv(p) /\ MergeJobInv(p) /\ LaunchJobInv(p)
      /\ snap[p] \in Row /\ row \in Row /\ cand' \in [Requests -> Row]
  BY Zenon DEF SeqInv, JobInv, TypeOK, Tables
<1>1. KeepsRun /\ Untouched(p) /\ pc'[p] = "merge"
  BY Zenon, <1>0, ObserveInv, ObserveUntouched
<1>2. pc[p] = "observe" /\ UNCHANGED <<row, age, recorded, snap, fresh>>
  BY ZenonT(40) DEF ReconcileSnapshots, store
<1>3. /\ snap[p].state \in Reconcilable /\ snap[p].job \in {0, snap[p].seq} /\ snap[p].seq \in Seqs
  BY SMTT(20), <1>0, <1>2 DEF MergeInv, Stopping, Row, Seqs
<1>4. Target(snap[p]) = snap[p].seq
  BY Zenon, <1>3 DEF Target
<1>5. /\ \A n \in Seqs : jobs'[n] = "none" <=> jobs[n] = "none"
      /\ \A n \in Seqs : jobs'[n] \in Alive => jobs[n] \in Alive
  BY Zenon, <1>0 DEF ReconcileSnapshots, Scancel, Alive, Tables
<1>6. snap[p].client \/ Derived(snap[p], cand'[p])
  <2>1. CASE ~snap[p].client
    <3>1. PICK cancelled \in (IF snap[p].state = "STOPPING" THEN Outcomes("cancel") ELSE {FALSE}) :
            \/ \E c \in ObserveScheduler(snap[p], cancelled) : cand' = [cand EXCEPT ![p] = c]
            \/ /\ "unreachable" \in Faults
               /\ \E c \in ObserveNothing(snap[p]) : cand' = [cand EXCEPT ![p] = c]
      BY Zenon, <2>1 DEF ReconcileSnapshots
    <3>2. cancelled \in BOOLEAN
      BY Zenon, OutcomesBoolean
    <3>3. \/ cand'[p] \in ObserveScheduler(snap[p], cancelled)
          \/ "unreachable" \in Faults /\ cand'[p] \in ObserveNothing(snap[p])
      BY Zenon, <1>0, <3>1 DEF Tables
    <3>4. QED
      BY ZenonT(40), <1>0, <1>3, <1>4, <1>5, <3>2, <3>3, SchedulerDerived, NothingDerived
  <2>2. QED
    BY Zenon, <2>1
<1>7. snap[p].client => cand'[p].job = snap[p].job
  <2>1. snap[p].client => \E c \in ObserveClient(snap[p]) : cand' = [cand EXCEPT ![p] = c]
    BY Zenon DEF ReconcileSnapshots
  <2>2. snap[p].client => cand'[p] \in ObserveClient(snap[p])
    BY Zenon, <1>0, <2>1 DEF Tables
  <2>3. \A c \in ObserveClient(snap[p]) : c.job = snap[p].job
    BY Zenon, <1>0 DEF ObserveClient, Row
  <2>4. QED
    BY Zenon, <2>2, <2>3
<1>8. MergeJobInv(p)'
  <2>1. ASSUME p \in fresh
        PROVE  /\ row.job = snap[p].job /\ row.state = snap[p].state
               /\ row.seq = snap[p].seq /\ row.client = snap[p].client
    BY ZenonT(40), <1>0, <1>2, <1>3, <2>1 DEF MergeInv, MergeJobInv, Stopping
  <2>2. cand'[p].job # snap[p].job => jobs'[snap[p].seq] # "none"
    BY Zenon, <1>3, <1>4, <1>5, <1>6, <1>7 DEF Derived
  <2>3. ASSUME p \in fresh, cand'[p].state \in Terminal
        PROVE  jobs'[snap[p].seq] \notin Alive
    <3>1. CASE snap[p].client
      BY ZenonT(40), <1>3, <1>5, <2>1, <2>3, <3>1 DEF JobInv, Alive
    <3>2. CASE ~snap[p].client
      BY Zenon, <1>3, <1>4, <1>6, <2>3, <3>2 DEF Derived
    <3>3. QED
      BY Zenon, <3>1, <3>2
  <2>4. ASSUME p \in fresh, cand'[p].state \in Terminal, "slow" \notin Faults,
               NEW q \in Launchers, pc'[q] = "submit"
        PROVE  FALSE
    <3>1. q \in Requests /\ pc[q] = "submit"
      BY ZenonT(40), <1>1, <2>4 DEF Untouched, Requests
    <3>2. /\ row.state \in {"SUBMITTING", "STOPPING"} /\ row.job = 0 /\ age < 2 /\ ~row.client
          /\ jobs[cand[q].seq] = "none" /\ (Present => row.seq = cand[q].seq)
      BY ZenonT(40), <2>4, <3>1 DEF JobInv, LaunchJobInv, SeqInv, LaunchInv, Unsubmitted, Persisted
    <3>3. jobs[snap[p].seq] = "none"
      BY Zenon, <2>1, <2>4, <3>2 DEF Present
    <3>4. age # 2
      BY <3>2
    <3>5. QED
      BY ZenonT(40), <1>3, <1>4, <1>6, <2>1, <2>4, <3>2, <3>3, <3>4 DEF Derived
  <2>5. QED
    BY ZenonT(40), <1>1, <1>2, <2>1, <2>2, <2>3, <2>4 DEF MergeJobInv
<1>9. pc[p] \notin {"record", "unsaved", "cancel"} /\ pc'[p] \notin Persisted
  BY Zenon, <1>1, <1>2 DEF Persisted
<1>10. QED
  BY ZenonT(40), <1>1, <1>2, <1>5, <1>8, <1>9, QuietJobs

(* The merge while a launch is about to submit.                            *)
LEMMA MergeBeforeSubmit ==
  ASSUME SeqInv, JobInv, NEW p \in Requests, pc[p] = "merge", NEW r \in Row, NEW stamped,
         MergeRow(p, r, stamped), "slow" \notin Faults, NEW q \in Requests, pc[q] = "submit"
  PROVE  r.state \in {"SUBMITTING", "STOPPING"} /\ r.job = 0
<1>0. /\ LaunchJobInv(q) /\ LaunchInv(q) /\ MergeInv(p) /\ MergeJobInv(p) /\ q \in Launchers
      /\ cand[p] \in Row /\ snap[p] \in Row
  <2>1. lock = q /\ lock \in Launchers \cup {Nobody} /\ Nobody \notin Requests
    BY ZenonT(40), ConstantsAssumption DEF SeqInv, LaunchInv, Unsubmitted, TypeOK, Persisted
  <2>2. QED
    BY ZenonT(40), <2>1 DEF SeqInv, JobInv, TypeOK
<1>1. /\ row.state \in {"SUBMITTING", "STOPPING"} /\ row.job = 0
      /\ jobs[cand[q].seq] = "none" /\ row.seq = cand[q].seq
  BY Zenon, <1>0 DEF LaunchJobInv, LaunchInv, Unsubmitted, Persisted, Present
<1>2. CASE SnapshotCurrent(p) /\ r.state = cand[p].state /\ r.job = cand[p].job
  <2>1. /\ p \in fresh /\ snap[p].state = row.state /\ snap[p].job = row.job
        /\ snap[p].seq = row.seq /\ snap[p].state \in Reconcilable
    BY Zenon, <1>0, <1>1, <1>2 DEF SnapshotCurrent, MergeInv, Stopping, Reconcilable, Live
  <2>2. cand[p].state \notin Terminal
    BY Zenon, <1>0, <2>1 DEF MergeJobInv
  <2>3. cand[p].job = 0
    BY Zenon, <1>0, <1>1, <2>1 DEF MergeJobInv
  <2>4. cand[p].state \notin {"QUEUED", "STARTING", "READY"} \/ row.state = "STOPPING"
    BY Zenon, <1>0, <1>1, <2>1 DEF MergeInv
  <2>5. Follows(row.state, cand[p].state)
    BY Zenon, <1>0, <2>1 DEF MergeInv
  <2>6. cand[p].state \in {"SUBMITTING", "STOPPING"}
    BY ZenonT(40), <1>1, <2>2, <2>4, <2>5 DEF Follows, Live
  <2>7. QED
    BY Zenon, <1>2, <2>3, <2>6
<1>3. CASE r.state = row.state /\ r.job = row.job
  BY Zenon, <1>1, <1>3
<1>4. QED
  BY Zenon, <1>2, <1>3 DEF MergeRow

LEMMA FreezeJobs ==
  ASSUME SeqInv, SeqInv', JobInv, KeepsRun, NEW p \in Requests, Untouched(p),
         pc[p] = "merge", pc'[p] = "idle", Present, UNCHANGED jobs,
         NEW r \in Row, r.seq = row.seq, NEW stamped \in BOOLEAN, MergeRow(p, r, stamped),
         NEW removed \in BOOLEAN, NEW saved \in BOOLEAN,
         FreezeAndSave(p, r, stamped, removed, saved)
  PROVE  JobInv'
<1>0. /\ RowInv /\ MergeInv(p) /\ MergeJobInv(p) /\ row \in Row
      /\ MergeJobInv(p)' /\ LaunchJobInv(p)' /\ pc'[p] \notin Persisted
  BY ZenonT(40), NotMerging DEF SeqInv, JobInv, TypeOK, Stopping, Persisted, LaunchJobInv
<1>1. CASE UNCHANGED <<row, age>>
  BY Zenon, <1>0, <1>1, QuietJobs
<1>2. CASE ~UNCHANGED <<row, age>>
  <2>1. /\ saved /\ row' = Frozen(r, removed)
        /\ stamped => age' = 0 /\ fresh' = {}
        /\ ~stamped => age' = age
    BY Zenon, <1>2, SaveUntouched DEF FreezeAndSave
  <2>2. SameRun
    <3>1. RunRow(row)
      BY Zenon, <1>0 DEF RunRow, RowInv, Present, Started
    <3>2. QED
      BY Zenon, <3>1 DEF KeepsRun, SameRun
  <2>3. fresh' \subseteq {p} \/ (row.state \in Terminal /\ row'.job = row.job)
    <3>1. CASE stamped
      BY Zenon, <2>1, <3>1
    <3>2. CASE ~stamped
      BY Zenon, <1>2, <2>1, <3>2, FrozenFields DEF MergeRow, CleanupFailed
    <3>3. QED
      BY Zenon, <3>1, <3>2
  <2>4. ASSUME row'.state \in Terminal, row.state \notin Terminal
        PROVE  \A n \in Seqs : n = row.seq /\ jobs'[n] \in Alive => "slow" \in Faults /\ Tended(n)'
    <3>1. r.state \in Terminal /\ row' = r /\ ~CleanupFailed(r, removed)
      BY Zenon, <2>1, <2>4, FrozenFields DEF Terminal
    <3>2. SnapshotCurrent(p) /\ r.state = cand[p].state
      BY Zenon, <2>4, <3>1 DEF MergeRow
    <3>3. row.state \in Reconcilable
      BY Zenon, <1>0, <2>4 DEF Row, Present, Reconcilable, Terminal
    <3>4. /\ p \in fresh /\ snap[p].seq = row.seq /\ snap[p].state \in Reconcilable
          /\ cand[p].state \in Terminal
      BY Zenon, <1>0, <3>1, <3>2, <3>3 DEF SnapshotCurrent, MergeInv, Stopping
    <3>5. ASSUME NEW n \in Seqs, n = row.seq, jobs'[n] \in Alive
          PROVE  "slow" \in Faults /\ Tended(n)'
      <4>1. "slow" \in Faults /\ Tended(n)
        BY Zenon, <1>0, <3>4, <3>5 DEF MergeJobInv
      <4>2. QED
        BY Zenon, <4>1, TendedSame
    <3>6. QED
      BY Zenon, <3>5
  <2>5. ASSUME "slow" \notin Faults, NEW q \in Requests, pc'[q] = "submit"
        PROVE  row'.state \in {"SUBMITTING", "STOPPING"} /\ row'.job = 0
    <3>1. pc[q] = "submit"
      BY Zenon, <2>5 DEF Untouched
    <3>2. r.state \in {"SUBMITTING", "STOPPING"} /\ r.job = 0
      BY Zenon, <2>5, <3>1, MergeBeforeSubmit
    <3>3. QED
      BY Zenon, <2>1, <3>2, FrozenFields
  <2>6. RowFrame(p)
    BY Zenon, <2>1, <2>2, <2>3, <2>4, <2>5 DEF RowFrame
  <2>7. JobsFrame
    BY Zenon, TendedSame DEF JobsFrame, Untouched
  <2>8. QED
    BY Zenon, <1>0, <2>6, <2>7, JobsKept
<1>3. QED
  BY ZenonT(40), <1>1, <1>2

(* Stop has marked the row, or read a row that was over.                   *)
LEMMA MarkJobs ==
  ASSUME SeqInv, SeqInv', JobInv, NEW p \in Stoppers, StopMark(p)
  PROVE  JobInv'
<1>0. /\ p \in Requests /\ TypeOK /\ TypeOK' /\ Tables /\ RowInv /\ Untouched(p) /\ KeepsRun
      /\ pc[p] = "idle" /\ pc'[p] = "release" /\ UNCHANGED jobs
  BY ZenonT(40), StopUntouched, StopInv, GotoUntouched
     DEF SeqInv, TypeOK, Tables, Requests, Stop, StopMark, outside
<1>1. pc'[p] \notin Persisted /\ LaunchJobInv(p)'
  BY Zenon, <1>0 DEF Persisted, LaunchJobInv
<1>2. CASE row.state \in Terminal
  <2>1. UNCHANGED <<row, age>> /\ Read(p)
    BY Zenon, <1>2 DEF StopMark
  <2>2. snap'[p] = row
    BY Zenon, <1>0, <2>1 DEF Read, Tables
  <2>3. MergeJobInv(p)'
    BY Zenon, <1>0, <2>1, <2>2 DEF MergeJobInv
  <2>4. QED
    BY Zenon, <1>0, <1>1, <2>1, <2>3, QuietJobs
<1>3. CASE row.state \notin Terminal
  <2>1. /\ row' = [row EXCEPT !.state = "STOPPING", !.err = FALSE]
        /\ snap' = [snap EXCEPT ![p] = row'] /\ age' = 0 /\ fresh' = {p} /\ row # NoRow
    BY Zenon, <1>3 DEF StopMark
  <2>2. /\ row'.state = "STOPPING" /\ row'.job = row.job /\ row \in Row
        /\ snap'[p] = row'
    BY Zenon, <1>0, <2>1 DEF Row, TypeOK, Tables
  <2>3. MergeJobInv(p)'
    BY Zenon, <1>0, <2>2 DEF MergeJobInv
  <2>4. SameRun
    <3>1. Present /\ RunRow(row)
      BY Zenon, <1>0, <2>1 DEF RunRow, RowInv, Present, Started
    <3>2. QED
      BY Zenon, <1>0, <3>1 DEF KeepsRun, SameRun
  <2>5. \A q \in Requests : pc'[q] = "submit" /\ "slow" \notin Faults => row.job = 0
    BY Zenon, <1>0 DEF Untouched, JobInv, LaunchJobInv
  <2>6. RowFrame(p)
    BY Zenon, <2>1, <2>2, <2>4, <2>5 DEF RowFrame, Terminal
  <2>7. JobsFrame
    BY Zenon, <1>0, TendedSame DEF JobsFrame, Untouched
  <2>8. QED
    BY ZenonT(40), <1>0, <1>1, <2>3, <2>6, <2>7, JobsKept
<1>4. QED
  BY ZenonT(40), <1>2, <1>3

LEMMA StopJobs ==
  ASSUME JobsAreFound, SeqInv, SeqInv', JobInv, NEW p \in Stoppers, Stop(p)
  PROVE  JobInv'
<1>0. /\ p \in Requests /\ TypeOK /\ TypeOK' /\ Tables /\ RowInv /\ Untouched(p) /\ KeepsRun
      /\ MergeJobInv(p)
  BY ZenonT(40), StopUntouched, StopInv DEF SeqInv, JobInv, TypeOK, Tables, Requests
<1>1. CASE StopRelease(p) \/ StopUnlink(p)
  <2>1. /\ UNCHANGED <<row, age, jobs, snap, fresh>> /\ pc[p] \in {"release", "unlink"}
        /\ pc'[p] \in {"unlink", "observe", "merge"}
    BY Zenon, <1>0, <1>1, GotoUntouched DEF StopRelease, StopUnlink, store, outside
  <2>2. pc'[p] = "merge" => snap'[p].state \notin Reconcilable
    <3>1. CASE StopRelease(p)
      <4>1. pc'[p] = "unlink"
        BY Zenon, <1>0, <3>1 DEF StopRelease, Goto, Tables
      <4>2. QED
        BY Zenon, <4>1
    <3>2. CASE StopUnlink(p)
      <4>1. pc'[p] = IF snap[p].state \in Reconcilable THEN "observe" ELSE "merge"
        BY Zenon, <1>0, <3>2 DEF StopUnlink, Goto, Tables
      <4>2. QED
        BY Zenon, <2>1, <4>1
    <3>3. QED
      BY Zenon, <1>1, <3>1, <3>2
  <2>3. MergeJobInv(p)'
    BY Zenon, <1>0, <2>1, <2>2 DEF MergeJobInv, Stopping
  <2>4. pc[p] \notin {"record", "unsaved", "cancel"} /\ pc'[p] \notin Persisted
    BY Zenon, <2>1 DEF Persisted
  <2>5. QED
    BY Zenon, <1>0, <2>1, <2>3, <2>4, QuietJobs
<1>2. CASE StopMerge(p)
  <2>1. UNCHANGED jobs /\ pc'[p] = "idle" /\ pc[p] = "merge"
    BY Zenon, <1>0, <1>2, ReturnUntouched DEF StopMerge
  <2>2. CASE row = NoRow
    <3>1. UNCHANGED <<row, age>>
      BY Zenon, <1>2, <2>2 DEF StopMerge
    <3>2. /\ pc[p] \notin {"record", "unsaved", "cancel"} /\ pc'[p] \notin Persisted
          /\ pc'[p] \notin Stopping
      BY Zenon, <2>1 DEF Persisted, Stopping
    <3>3. QED
      BY ZenonT(40), <1>0, <2>1, <3>1, <3>2, NotMerging, QuietJobs
  <2>3. CASE row # NoRow
    <3>1. Present
      BY Zenon, <1>0, <2>3 DEF RowInv
    <3>2. PICK reworded \in Rewordings(p), removed \in Outcomes("file"), saved \in Outcomes("save") :
            FreezeAndSave(p, Settled(p, Merged(p, reworded)),
                          MergeApplies(p, reworded) \/ Kept(p) \/ Freed(p), removed, saved)
      BY Zenon, <1>2, <2>3 DEF StopMerge
    <3>3. reworded \in BOOLEAN /\ removed \in BOOLEAN /\ saved \in BOOLEAN
      BY Zenon DEF Rewordings, Outcomes
    <3> DEFINE r == Settled(p, Merged(p, reworded))
               stamped == MergeApplies(p, reworded) \/ Kept(p) \/ Freed(p)
    <3>4. r \in Row /\ r.seq = row.seq /\ MergeRow(p, r, stamped)
      BY ZenonT(40), <1>0, <2>1, <3>1, <3>3, MergedRow, MergedIs
    <3>5. stamped \in BOOLEAN
      BY Zenon
    <3>6. FreezeAndSave(p, r, stamped, removed, saved)
      BY Zenon, <3>2
    <3> HIDE DEF r, stamped
    <3>7. QED
      BY ZenonT(40), <1>0, <2>1, <3>1, <3>3, <3>4, <3>5, <3>6, FreezeJobs
  <2>4. QED
    BY Zenon, <2>2, <2>3
<1>3. QED
  BY ZenonT(40), <1>0, <1>1, <1>2, MarkJobs, ObserveJobs DEF Stop

LEMMA ReconcileJobs ==
  ASSUME JobsAreFound, SeqInv, SeqInv', JobInv, Reconcile
  PROVE  JobInv'
<1> DEFINE p == Reconciler
<1>0. /\ p \in Requests /\ TypeOK /\ TypeOK' /\ Tables /\ RowInv /\ Untouched(p) /\ KeepsRun
  BY ZenonT(40), ReconcileUntouched, ReconcileInv DEF SeqInv, TypeOK, Tables, Requests
<1>1. CASE ReconcileBegin
  <2>1. /\ UNCHANGED <<row, age, jobs>> /\ pc[p] = "idle" /\ pc'[p] = "observe" /\ Read(p)
    BY Zenon, <1>0, <1>1, GotoUntouched DEF ReconcileBegin, store, outside
  <2>2. snap'[p] = row
    BY Zenon, <1>0, <2>1 DEF Read, Tables
  <2>3. MergeJobInv(p)'
    BY Zenon, <2>1, <2>2 DEF MergeJobInv
  <2>4. pc[p] \notin {"record", "unsaved", "cancel"} /\ pc'[p] \notin Persisted
    BY Zenon, <2>1 DEF Persisted
  <2>5. QED
    BY Zenon, <1>0, <2>1, <2>3, <2>4, QuietJobs
<1>2. CASE ReconcileMerge
  <2>1. UNCHANGED jobs /\ pc'[p] = "idle" /\ pc[p] = "merge"
    BY ZenonT(40), <1>0, <1>2, ReturnUntouched DEF ReconcileMerge
  <2>2. CASE UNCHANGED <<row, age>>
    <3>1. /\ pc[p] \notin {"record", "unsaved", "cancel"} /\ pc'[p] \notin Persisted
          /\ pc'[p] \notin Stopping
      BY Zenon, <2>1 DEF Persisted, Stopping
    <3>2. QED
      BY Zenon, <1>0, <2>1, <2>2, <3>1, NotMerging, QuietJobs
  <2>3. CASE ~UNCHANGED <<row, age>>
    <3>1. PICK reworded \in Rewordings(p), removed \in Outcomes("file"), saved \in Outcomes("save") :
            /\ MergeApplies(p, reworded)
            /\ FreezeAndSave(p, Merged(p, reworded), TRUE, removed, saved)
      BY Zenon, <1>2, <2>3 DEF ReconcileMerge
    <3>2. /\ reworded \in BOOLEAN /\ removed \in BOOLEAN /\ saved \in BOOLEAN /\ Present
      BY Zenon, <1>0, <3>1 DEF Rewordings, Outcomes, MergeApplies, SnapshotCurrent, RowInv
    <3> DEFINE r == Merged(p, reworded)
    <3>3. r \in Row /\ r.seq = row.seq /\ MergeRow(p, r, TRUE) /\ TRUE \in BOOLEAN
      BY Zenon, <1>0, <2>1, <3>1, <3>2, MergedRow, MergedIs
    <3>4. FreezeAndSave(p, r, TRUE, removed, saved)
      BY ZenonT(40), <3>1
    <3> HIDE DEF r
    <3>5. QED
      BY Zenon, <1>0, <2>1, <3>2, <3>3, <3>4, FreezeJobs
  <2>4. QED
    BY Zenon, <2>2, <2>3
<1>3. QED
  BY ZenonT(40), <1>0, <1>1, <1>2, ObserveJobs DEF Reconcile

(* Delete takes a row that is over: a job that is still in the queue is    *)
(* one that its launch will cancel.                                        *)
LEMMA DeleteJobs ==
  ASSUME SeqInv, SeqInv', JobInv, NEW p \in Deleters, Delete(p)
  PROVE  JobInv'
<1>0. /\ p \in Requests /\ TypeOK /\ TypeOK' /\ Tables /\ RowInv /\ Untouched(p)
  BY ZenonT(40), DeleteUntouched DEF SeqInv, TypeOK, Tables, Requests
<1>1. CASE DeleteRow(p)
  <2>1. /\ row.state \in Terminal /\ row' = NoRow /\ fresh' = {} /\ UNCHANGED <<recorded, jobs>>
        /\ pc[p] = "idle" /\ pc'[p] = "forget"
    BY Zenon, <1>0, <1>1, GotoUntouched DEF DeleteRow, outside
  <2>2. row'.state = "ABSENT" /\ ~row'.client
    BY Zenon, <2>1 DEF NoRow
  <2>3. \A n \in Seqs : jobs'[n] \in Alive => "slow" \in Faults /\ Tended(n)'
    <3>1. \A n \in Seqs : jobs'[n] \in Alive => "slow" \in Faults /\ Tended(n)
      BY Zenon, <2>1 DEF JobInv, Named, Terminal, Reconcilable, Live
    <3>2. QED
      BY Zenon, <1>0, <2>1, <3>1, TendedSame
  <2>4. ASSUME NEW q \in Requests
        PROVE  LaunchJobInv(q)'
    <3>1. pc'[q] \in Persisted => q # p
      BY Zenon, <2>1 DEF Persisted
    <3>2. pc'[q] \in Persisted => pc[q] = pc'[q] /\ cand'[q] = cand[q]
      BY ZenonT(40), <1>0, <3>1 DEF Untouched
    <3>3. pc'[q] \in Persisted => ~cand'[q].client
      BY ZenonT(40), <3>2 DEF JobInv, LaunchJobInv
    <3>4. pc'[q] = "submit" => "slow" \in Faults
      BY ZenonT(40), <2>1, <3>2 DEF JobInv, LaunchJobInv, Persisted, Terminal
    <3>5. QED
      BY Zenon, <2>2, <3>3, <3>4 DEF LaunchJobInv, Terminal
  <2>5. \A q \in Requests : MergeJobInv(q)'
    BY Zenon, <2>1 DEF MergeJobInv
  <2>6. QED
    BY ZenonT(40), <2>2, <2>3, <2>4, <2>5 DEF JobInv
<1>2. CASE DeleteCapability(p)
  <2>1. UNCHANGED <<row, age, recorded, deleted, jobs>> /\ pc[p] = "forget" /\ pc'[p] = "idle"
    BY Zenon, <1>0, <1>2, ReturnUntouched DEF DeleteCapability, store
  <2>2. /\ pc[p] \notin {"record", "unsaved", "cancel"} /\ pc'[p] \notin Persisted
        /\ pc'[p] \notin Stopping
    BY Zenon, <2>1 DEF Persisted, Stopping
  <2>3. QED
    BY ZenonT(40), <1>0, <2>1, <2>2, QuietKeepsRun, NotMerging, QuietJobs
<1>3. QED
  BY Zenon, <1>1, <1>2 DEF Delete

LEMMA LinkJobs ==
  ASSUME SeqInv, SeqInv', JobInv, NEW p \in Dialers, Link(p)
  PROVE  JobInv'
<1>0. /\ p \in Requests /\ TypeOK /\ TypeOK' /\ Tables /\ RowInv /\ Untouched(p) /\ KeepsRun
  BY ZenonT(40), LinkUntouched, LinkInv DEF SeqInv, TypeOK, Tables, Requests
<1>1. /\ UNCHANGED jobs /\ pc'[p] \in {"register", "announce", "linked", "idle"}
      /\ pc[p] \in {"register", "announce", "linked", "idle"}
  BY Zenon, <1>0, GotoUntouched, ReturnUntouched
     DEF Link, LinkAccept, LinkRegister, LinkAnnounce, LinkClose, outside
<1>2. /\ pc[p] \notin {"record", "unsaved", "cancel"} /\ pc'[p] \notin Persisted
      /\ pc'[p] \notin Stopping
  BY Zenon, <1>1 DEF Persisted, Stopping
<1>3. CASE UNCHANGED <<row, age>>
  BY Zenon, <1>0, <1>1, <1>2, <1>3, NotMerging, QuietJobs
<1>4. CASE ~UNCHANGED <<row, age>>
  <2>1. LinkAnnounce(p)
    BY Zenon, <1>4 DEF Link, LinkAccept, LinkRegister, LinkClose, store
  <2>2. PICK saved \in Outcomes("save") :
          /\ row.state \in {"QUEUED", "STARTING"}
          /\ Save(p, saved, [row EXCEPT !.state = "READY", !.err = FALSE, !.started = TRUE])
    BY Zenon, <1>4, <2>1 DEF LinkAnnounce
  <2>3. /\ row' = [row EXCEPT !.state = "READY", !.err = FALSE, !.started = TRUE]
        /\ age' = 0 /\ fresh' = {}
    BY Zenon, <1>4, <2>2, SaveUntouched DEF Outcomes
  <2>4. row'.state = "READY" /\ row'.job = row.job
    BY Zenon, <1>0, <2>3 DEF TypeOK, Row
  <2>5. SameRun
    <3>1. row' # row
      BY Zenon, <2>2, <2>4
    <3>2. QED
      BY Zenon, <1>0, <3>1 DEF KeepsRun
  <2>6. \A q \in Requests : pc'[q] = "submit" => "slow" \in Faults
    BY Zenon, <1>0, <1>1, <2>2 DEF Untouched, JobInv, LaunchJobInv
  <2>7. RowFrame(p)
    BY Zenon, <2>3, <2>4, <2>5, <2>6 DEF RowFrame, Terminal
  <2>8. JobsFrame
    BY Zenon, <1>0, <1>1, <1>2, TendedSame DEF JobsFrame, Untouched
  <2>9. LaunchJobInv(p)' /\ MergeJobInv(p)'
    BY Zenon, <1>2, NotMerging DEF LaunchJobInv, Persisted
  <2>10. QED
    BY Zenon, <1>0, <2>7, <2>8, <2>9, JobsKept
<1>5. QED
  BY Zenon, <1>3, <1>4

(* A session that has no job has no job to lose.                           *)
LEMMA NoJobs ==
  ASSUME fresh' = {}, \A n \in Seqs : jobs'[n] = "none",
         \A q \in Requests : pc'[q] \notin Persisted
  PROVE  JobInv'
<1>1. \A q \in Requests : LaunchJobInv(q)' /\ MergeJobInv(q)'
  BY Zenon DEF LaunchJobInv, MergeJobInv, Persisted
<1>2. \A n \in Seqs : jobs'[n] \notin Alive
  BY Zenon DEF Alive
<1>3. QED
  BY Zenon, <1>1, <1>2 DEF JobInv

LEMMA DefineJobs ==
  ASSUME ~Redefinition, SeqInv, SeqInv', Define \/ \E n \in Seqs, final \in Terminal : AdoptRuns(n, final)
  PROVE  JobInv'
<1>0. RowInv /\ \A q \in Requests : LaunchInv(q)
  BY Zenon DEF SeqInv
<1>1. (Defined \/ Adopted) /\ fresh' = {} /\ UNCHANGED <<jobs, pc>>
  BY Zenon, DefineInv, AdoptInv DEF SeqInv, Define, AdoptRuns, outside
<1>2. CASE Defined
  <2>1. ~Present /\ ~deleted /\ row'.seq = 0
    BY Zenon, <1>2 DEF Defined, Present, NoRow
  <2>2. \A n \in Seqs : jobs'[n] = "none"
    BY Zenon, <1>0, <1>1, <2>1 DEF RowInv
  <2>3. \A q \in Requests : pc'[q] \notin Persisted
    BY Zenon, <1>0, <1>1, <2>1 DEF LaunchInv, Unsubmitted
  <2>4. QED
    BY Zenon, <1>1, <2>1, <2>2, <2>3, NoJobs
<1>3. CASE Adopted
  <2>1. Present /\ row.seq = 0
    BY Zenon, <1>3 DEF Adopted, Present, Terminal
  <2>2. \A n \in Seqs : jobs'[n] = "none"
    BY SMTT(20), <1>0, <1>1, <2>1 DEF RowInv, Seqs
  <2>3. \A q \in Requests : pc'[q] \notin Persisted
    BY SMTT(20), <1>0, <1>1, <2>1 DEF LaunchInv, Unsubmitted
  <2>4. QED
    BY Zenon, <1>1, <2>2, <2>3, NoJobs
<1>4. QED
  BY Zenon, <1>1, <1>2, <1>3

(* The clock waits for a launch that is not slow.                          *)
LEMMA TickJobs ==
  ASSUME SeqInv, JobInv, Tick
  PROVE  JobInv'
<1>0. /\ UNCHANGED <<row, recorded, jobs, pc, snap, cand, fresh>> /\ age' = age + 1 /\ age \in 0 .. 2
      /\ age < 2 /\ (age = 1 => "slow" \in Faults \/ \A p \in Launchers : pc[p] # "submit")
  <2>1. age \in 0 .. 2
    BY Zenon DEF SeqInv, TypeOK, Ages
  <2>2. QED
    BY Zenon, <2>1 DEF Tick, outside, memory
<1>1. ASSUME NEW q \in Requests
      PROVE  LaunchJobInv(q)'
  <2>1. LaunchJobInv(q)
    BY Zenon DEF JobInv
  <2>2. pc[q] = "submit" => q \in Launchers
    <3>1. pc[q] = "submit" => lock = q
      BY ZenonT(40) DEF SeqInv, LaunchInv, Unsubmitted, Persisted
    <3>2. lock \in Launchers \cup {Nobody}
      BY Zenon DEF SeqInv, TypeOK
    <3>3. QED
      BY ZenonT(40), <3>1, <3>2, ConstantsAssumption
  <2>3. pc[q] = "submit" /\ "slow" \notin Faults => age' < 2
    BY SMTT(20), <1>0, <2>2
  <2>4. QED
    BY Zenon, <1>0, <2>1, <2>3 DEF LaunchJobInv
<1>2. ASSUME NEW n, Tended(n)
      PROVE  Tended(n)'
  BY Zenon, <1>0, <1>2 DEF Tended
<1>3. \A q \in Requests : MergeJobInv(q)'
  <2> SUFFICES ASSUME NEW q \in Requests PROVE MergeJobInv(q)'
    OBVIOUS
  <2>1. MergeJobInv(q)
    BY Zenon DEF JobInv
  <2>2. QED
    BY Zenon, <1>0, <2>1 DEF MergeJobInv, Tended
<1>4. \A n \in Seqs : jobs'[n] \in Alive => Named(n)' \/ ("slow" \in Faults /\ Tended(n)')
  BY Zenon, <1>0, <1>2 DEF JobInv, Named
<1>5. row'.client => \A n \in Seqs : n = row'.seq => jobs'[n] = "none"
  BY Zenon, <1>0 DEF JobInv
<1>6. QED
  BY ZenonT(40), <1>1, <1>3, <1>4, <1>5 DEF JobInv

(* Slurm never brings a job back; a run that leaves the history changes    *)
(* nothing, nor does stuttering.                                           *)
LEMMA SlurmJobs ==
  ASSUME SeqInv, SeqInv', JobInv, (\E n \in Seqs : JobStep(n)) \/ PushOut \/ UNCHANGED vars
  PROVE  JobInv'
<1>0. /\ UNCHANGED row /\ UNCHANGED age /\ UNCHANGED recorded /\ UNCHANGED deleted
      /\ UNCHANGED pc /\ UNCHANGED snap /\ UNCHANGED cand /\ UNCHANGED fresh /\ Tables
  BY Zenon DEF JobStep, PushOut, vars, store, outside, memory, SeqInv, TypeOK, Tables
<1>1. /\ \A n \in Seqs : jobs'[n] = "none" <=> jobs[n] = "none"
      /\ \A n \in Seqs : jobs'[n] \in Alive => jobs[n] \in Alive
  BY Zenon, <1>0 DEF JobStep, PushOut, vars, outside, Tables, Alive
<1>2. KeepsRun
  BY Zenon, <1>0, <1>1 DEF KeepsRun, RecordsOne
<1>3. JobsFrame
  BY Zenon, <1>0, <1>1 DEF JobsFrame, Tended
<1>4. Untouched(Nobody) /\ RowFrame(Nobody)
  BY Zenon, <1>0 DEF Untouched, RowFrame
<1>5. QED
  BY ZenonT(40), <1>2, <1>3, <1>4, JobsKept, ConstantsAssumption

(* A restart forgets the launches, never the row that names the job.       *)
LEMMA CrashJobs ==
  ASSUME JobsAreFound, SeqInv, JobInv, Crash
  PROVE  JobInv'
<1>0. /\ UNCHANGED <<row, recorded, jobs>> /\ fresh' = {} /\ "slow" \notin Faults
      /\ \A q \in Requests : pc'[q] = "idle"
  BY Zenon DEF Crash, store, outside, JobsAreFound
<1>1. \A q \in Requests : LaunchJobInv(q)' /\ MergeJobInv(q)'
  BY Zenon, <1>0 DEF LaunchJobInv, MergeJobInv, Persisted
<1>2. \A n \in Seqs : jobs'[n] \in Alive => Named(n)'
  BY Zenon, <1>0 DEF JobInv, Named
<1>3. row'.client => \A n \in Seqs : n = row'.seq => jobs'[n] = "none"
  BY Zenon, <1>0 DEF JobInv
<1>4. QED
  BY Zenon, <1>1, <1>2, <1>3 DEF JobInv

LEMMA JobsStep ==
  ASSUME ~Redefinition, JobsAreFound, SeqInv, JobInv, [Next]_vars
  PROVE  JobInv'
<1>0. SeqInv'
  BY Zenon, SeqStep
<1>1. QED
  BY ZenonT(40), <1>0, DefineJobs, LaunchJobs, StopJobs, ReconcileJobs, DeleteJobs, LinkJobs,
     TickJobs, SlurmJobs, CrashJobs DEF Next

LEMMA JobInit ==
  ASSUME Init
  PROVE  JobInv
<1>1. /\ row.state = "ABSENT" /\ ~row.client /\ fresh = {}
      /\ \A q \in Requests : pc[q] = "idle"
      /\ \A n \in Seqs : jobs[n] = "none"
  BY Zenon DEF Init, NoRow
<1>2. \A q \in Requests : LaunchJobInv(q) /\ MergeJobInv(q)
  BY ZenonT(40), <1>1 DEF LaunchJobInv, MergeJobInv, Persisted
<1>3. QED
  BY Zenon, <1>1, <1>2 DEF JobInv, Alive

(* JobInv is an invariant under the failures JobsAreFound allows.          *)
THEOREM JobInvariant ==
  ASSUME ~Redefinition, JobsAreFound
  PROVE  Spec => []JobInv
<1>1. Init => JobInv
  BY Zenon, JobInit
<1>2. SeqInv /\ JobInv /\ [Next]_vars => JobInv'
  BY Zenon, JobsStep
<1>3. QED
  BY <1>1, <1>2, SeqInvariant, PTL DEF Spec

(* The capability of a run that has a job or a client is never removed:    *)
(* what removes it has seen the run end, and CapabilityStep takes from     *)
(* JobInv that a run with a job in the queue is not seen to end.           *)
THEOREM CapabilityInvariant ==
  ASSUME ~Redefinition, CapabilitiesAreKept
  PROVE  Spec => []CapabilityInv
<1>0. JobsAreFound
  BY Zenon DEF CapabilitiesAreKept
<1>1. Init => CapabilityInv
  BY Zenon, CapabilityInit
<1>2. SeqInv /\ JobInv /\ CapabilityInv /\ [Next]_vars => CapabilityInv'
  BY Zenon, CapabilityStep
<1>3. Spec => []JobInv
  BY <1>0, JobInvariant
<1>4. QED
  BY <1>1, <1>2, <1>3, SeqInvariant, PTL DEF Spec

(* A live run whose job is in the queue, or which its client runs, has its *)
(* capability file, at every moment and after every restart: the file goes *)
(* only when the run is over, also where the row that says so could not be *)
(* saved or the server died before it was.                                 *)
THEOREM LiveRunKeepsCapability ==
  ASSUME ~Redefinition, CapabilitiesAreKept
  PROVE  Spec => []LiveHasCapability
<1>1. CapabilityInv => LiveHasCapability
  BY Zenon DEF CapabilityInv
<1>2. QED
  BY <1>1, CapabilityInvariant, PTL

-----------------------------------------------------------------------------
(* Records.  A run ends with its record, or before it was submitted.       *)
EndsRecorded ==
  row'.state \in Terminal /\ row.state \notin Terminal =>
    \/ row.seq \in recorded'
    \/ jobs'[row.seq] = "none" /\ \A q \in Requests : pc'[q] # "submit"

LEMMA RecordKept ==
  ASSUME SeqInv, SeqInv', RecordInv, KeepsRun, EndsRecorded,
         \A n \in Seqs : jobs[n] = "none" => jobs'[n] = "none",
         \A q \in Requests : pc'[q] = "submit" => pc[q] = "submit"
  PROVE  RecordInv'
<1>0. row \in Row /\ row' \in Row
  BY Zenon DEF SeqInv, TypeOK
<1>1. row'.state \in Terminal => row'.seq = row.seq /\ row'.client = row.client /\ recorded \subseteq recorded'
  BY Zenon DEF KeepsRun, SameRun, RunRow
<1>2. UnrecordedNeverRan'
  <2> SUFFICES ASSUME row'.state \in Terminal, row'.seq \notin recorded' \cup {0}, ~row'.client
               PROVE  jobs'[row'.seq] = "none"
    BY Zenon DEF UnrecordedNeverRan
  <2>1. row'.seq = row.seq /\ ~row.client /\ row.seq \notin recorded \cup {0} /\ row.seq \notin recorded'
    BY Zenon, <1>1
  <2>2. row.seq \in Seqs
    BY SMTT(20), <1>0, <2>1 DEF Row, Seqs
  <2>3. QED
    BY Zenon, <2>1, <2>2 DEF RecordInv, UnrecordedNeverRan, EndsRecorded
<1>3. \A q \in Requests : pc'[q] = "submit" /\ row'.state \in Terminal => row'.seq \in recorded'
  BY Zenon, <1>1 DEF RecordInv, EndsRecorded
<1>4. QED
  BY Zenon, <1>2, <1>3 DEF RecordInv

(* Every request leaves its own submission, and submits only its own.      *)
LEMMA LaunchRecords ==
  ASSUME RefusalsAreDefinite, SeqInv, SeqInv', RecordInv, NEW p \in Launchers, Launch(p)
  PROVE  RecordInv'
<1>0. /\ p \in Requests /\ TypeOK /\ TypeOK' /\ Tables /\ RowInv /\ LaunchInv(p)
      /\ Untouched(p) /\ row \in Row /\ cand[p] \in Row /\ snap[p] \in Row
  BY ZenonT(40), LaunchUntouched DEF SeqInv, TypeOK, Tables, Requests
<1>1. ASSUME KeepsRun, EndsRecorded, pc'[p] # "submit",
             \A n \in Seqs : jobs[n] = "none" => jobs'[n] = "none"
      PROVE  RecordInv'
  BY Zenon, <1>0, <1>1, RecordKept DEF Untouched
<1>2. CASE \/ \E kind \in Kinds \ {"adopt"}, tun \in Modes : LaunchBegin(p, kind, tun)
           \/ LaunchRetire(p) \/ LaunchFreeze(p) \/ LaunchSerialize(p)
           \/ LaunchClaim(p) \/ LaunchIssue(p) \/ LaunchUnissue(p)
  <2> DEFINE Early == {"idle", "retire", "freeze", "serialize", "claim", "issue", "persist", "unissue"}
  <2>1. UNCHANGED <<row, jobs>> /\ pc'[p] \in Early
    <3>1. CASE \E kind \in Kinds \ {"adopt"}, tun \in Modes : LaunchBegin(p, kind, tun)
      BY Zenon, <1>0, <3>1, GotoUntouched DEF LaunchBegin, store, outside
    <3>2. CASE LaunchRetire(p) \/ LaunchFreeze(p)
      BY Zenon, <1>0, <3>2, GotoUntouched, ReturnUntouched DEF LaunchRetire, LaunchFreeze, store
    <3>3. CASE LaunchSerialize(p) \/ LaunchClaim(p)
      BY ZenonT(40), <1>0, <3>3, GotoUntouched, ReturnUntouched DEF LaunchSerialize, LaunchClaim, store, outside
    <3>4. CASE LaunchIssue(p) \/ LaunchUnissue(p)
      BY Zenon, <1>0, <3>4, GotoUntouched, ReturnUntouched DEF LaunchIssue, LaunchUnissue, store
    <3>5. QED
      BY Zenon, <1>2, <3>1, <3>2, <3>3, <3>4
  <2>2. KeepsRun
    BY Zenon, <1>0, <1>2, BeforePersistInv
  <2>3. pc'[p] # "submit" /\ EndsRecorded
    BY Zenon, <2>1 DEF EndsRecorded
  <2>4. QED
    BY Zenon, <1>1, <2>1, <2>2, <2>3
<1>3. CASE LaunchPersist(p)
  <2>1. UNCHANGED <<jobs, recorded, deleted>> /\ pc[p] = "persist"
    BY Zenon, <1>3 DEF LaunchPersist, outside
  <2>2. PICK saved \in Outcomes("save") :
          IF p \in fresh /\ row.state = snap[p].state /\ saved
          THEN Save(p, saved, cand[p])
          ELSE Goto(p, "unissue") /\ UNCHANGED row
    BY Zenon, <1>3 DEF LaunchPersist
  <2>3. CASE p \in fresh /\ row.state = snap[p].state /\ saved
    <3>1. row' = cand[p]
      BY Zenon, <2>2, <2>3, SaveUntouched
    <3>2. row'.state \notin Terminal
      BY Zenon, <1>0, <2>1, <3>1 DEF LaunchInv, Unsubmitted, BeforePersist, Terminal
    <3>3. QED
      BY Zenon, <3>2 DEF RecordInv, UnrecordedNeverRan
  <2>4. CASE ~(p \in fresh /\ row.state = snap[p].state /\ saved)
    <3>1. UNCHANGED row /\ pc'[p] = "unissue"
      BY Zenon, <1>0, <2>2, <2>4, GotoUntouched
    <3>2. QED
      BY ZenonT(40), <1>1, <2>1, <3>1, QuietKeepsRun DEF EndsRecorded
  <2>5. QED
    BY Zenon, <2>3, <2>4
<1>4. CASE LaunchSubmit(p)
  <2>1. pc[p] = "submit" /\ UNCHANGED <<row, recorded>>
    BY Zenon, <1>4 DEF LaunchSubmit, store
  <2>2. pc'[p] # "submit"
    <3>1. Goto(p, "record") \/ Goto(p, "abandon") \/ Return(p)
      BY Zenon, <1>4 DEF LaunchSubmit
    <3>2. pc'[p] \in {"record", "abandon", "idle"}
      BY Zenon, <1>0, <3>1, GotoUntouched, ReturnUntouched
    <3>3. QED
      BY Zenon, <3>2
  <2>3. UnrecordedNeverRan'
    BY Zenon, <1>0, <2>1 DEF RecordInv, UnrecordedNeverRan
  <2>4. \A q \in Requests : pc'[q] = "submit" => pc[q] = "submit"
    BY Zenon, <1>0, <2>2 DEF Untouched
  <2>5. QED
    BY Zenon, <2>1, <2>3, <2>4 DEF RecordInv
<1>5. CASE \/ LaunchRecord(p) \/ LaunchUnsaved(p) \/ LaunchCancel(p)
           \/ LaunchCancelled(p) \/ LaunchAbandon(p) \/ LaunchAbandoned(p)
  <2>1. KeepsRun
    BY Zenon, <1>0, <1>5, PersistedInv
  <2>2. /\ pc[p] \in Persisted \ {"submit"}
        /\ pc'[p] \in {"idle", "cancel", "unsaved", "cancelled", "abandoned"}
    <3>1. pc[p] \in Persisted \ {"submit"}
      BY Zenon, <1>5 DEF LaunchRecord, LaunchUnsaved, LaunchCancel, LaunchCancelled,
         LaunchAbandon, LaunchAbandoned, Persisted
    <3>2. Return(p) \/ \E at \in {"cancel", "unsaved", "cancelled", "abandoned"} : Goto(p, at)
      BY Zenon, <1>5 DEF LaunchRecord, LaunchUnsaved, LaunchCancel, LaunchCancelled,
         LaunchAbandon, LaunchAbandoned
    <3>3. QED
      BY Zenon, <1>0, <3>1, <3>2, GotoUntouched, ReturnUntouched
  <2>3. \A q \in Requests : pc'[q] # "submit"
    <3>1. pc'[p] # "submit"
      BY Zenon, <2>2
    <3>2. \A q \in Requests \ {p} : pc[q] \notin Persisted
      BY Zenon, <1>0, <2>2, OneLaunch DEF Persisted
    <3>3. QED
      BY Zenon, <1>0, <3>1, <3>2 DEF Untouched, Persisted
  <2>4. \A n \in Seqs : jobs[n] = "none" => jobs'[n] = "none"
    <3>1. CASE LaunchUnsaved(p) \/ LaunchCancel(p)
      BY Zenon, <1>0, <3>1 DEF LaunchUnsaved, LaunchCancel, Scancel, Alive, Tables
    <3>2. CASE LaunchRecord(p) \/ LaunchCancelled(p) \/ LaunchAbandon(p) \/ LaunchAbandoned(p)
      BY Zenon, <3>2 DEF LaunchRecord, LaunchCancelled, LaunchAbandon, LaunchAbandoned, outside
    <3>3. QED
      BY Zenon, <1>5, <3>1, <3>2
  <2>5. EndsRecorded
    <3>1. CASE LaunchUnsaved(p) \/ LaunchCancel(p) \/ LaunchAbandon(p)
      BY Zenon, <3>1 DEF LaunchUnsaved, LaunchCancel, LaunchAbandon, store, EndsRecorded
    <3>2. CASE LaunchRecord(p)
      <4>1. \/ row' = row
            \/ row' = [row EXCEPT !.job = cand[p].seq,
                  !.state = IF row.state \in {"SUBMITTING", "QUEUED"} THEN "QUEUED" ELSE row.state]
        BY Zenon, <3>2 DEF LaunchRecord, Save
      <4>2. row'.state \in {row.state, "QUEUED"}
        BY Zenon, <1>0, <4>1 DEF Row
      <4>3. QED
        BY Zenon, <4>2 DEF EndsRecorded, Terminal
    <3>3. CASE LaunchCancelled(p)
      <4>1. row' = row \/ row' = [row EXCEPT !.err = cand[p].err]
        BY Zenon, <3>3 DEF LaunchCancelled, Save
      <4>2. row'.state = row.state
        BY Zenon, <1>0, <4>1 DEF Row
      <4>3. QED
        BY Zenon, <4>2 DEF EndsRecorded
    <3>4. CASE LaunchAbandoned(p)
      <4>1. UNCHANGED row \/ row.seq = cand[p].seq
        BY Zenon, <3>4 DEF LaunchAbandoned
      <4>2. jobs'[cand[p].seq] = "none"
        BY ZenonT(40), <1>0, <3>4 DEF LaunchAbandoned, LaunchInv, Unsubmitted, RefusalsAreDefinite, outside
      <4>3. QED
        BY Zenon, <2>3, <4>1, <4>2 DEF EndsRecorded
    <3>5. QED
      BY Zenon, <1>5, <3>1, <3>2, <3>3, <3>4
  <2>6. pc'[p] # "submit"
    BY Zenon, <1>0, <2>3
  <2>7. QED
    BY ZenonT(40), <1>1, <2>1, <2>4, <2>5, <2>6
<1>6. QED
  BY ZenonT(40), <1>2, <1>3, <1>4, <1>5 DEF Launch

(* A Stop or a background pass that ends a run records it.                 *)
LEMMA FreezeRecords ==
  ASSUME SeqInv, NEW p, NEW r \in Row, RunRow(r), Present,
         NEW stamped, NEW removed, NEW saved, FreezeAndSave(p, r, stamped, removed, saved)
  PROVE  EndsRecorded
<1> SUFFICES ASSUME row'.state \in Terminal, row.state \notin Terminal
             PROVE  row.seq \in recorded'
  BY Zenon DEF EndsRecorded
<1>0. TypeOK /\ RowInv /\ row \in Row
  BY Zenon DEF SeqInv, TypeOK
<1>1. saved /\ row' = Frozen(r, removed)
  BY Zenon DEF FreezeAndSave, Save
<1>2. ~CleanupFailed(r, removed) /\ row' = r
  BY Zenon, <1>1, FrozenFields DEF Terminal
<1>3. row.state \in Reconcilable
  BY Zenon, <1>0 DEF Row, Present, Reconcilable, Terminal
<1>4. row.seq # 0 /\ r.seq = row.seq
  BY SMTT(20), <1>0, <1>3 DEF RowInv, RunRow
<1>5. recorded' = RecordOf(r, removed, saved)
  BY Zenon, <1>0, RecordRunAdds DEF FreezeAndSave
<1>6. QED
  BY Zenon, <1>1, <1>2, <1>4, <1>5 DEF RecordOf, CleanupFailed

LEMMA ObserveFacts ==
  ASSUME Tables, NEW p \in Requests, ReconcileSnapshots(p)
  PROVE  /\ UNCHANGED row /\ pc'[p] = "merge"
         /\ \A n \in Seqs : jobs[n] = "none" => jobs'[n] = "none"
<1>1. UNCHANGED row /\ pc'[p] = "merge"
  BY Zenon DEF ReconcileSnapshots, Goto, Tables, store
<1>2. \A n \in Seqs : jobs[n] = "none" => jobs'[n] = "none"
  BY Zenon DEF ReconcileSnapshots, Scancel, Alive, Tables
<1>3. QED
  BY Zenon, <1>1, <1>2

LEMMA StopRecords ==
  ASSUME SeqInv, SeqInv', RecordInv, NEW p \in Stoppers, Stop(p)
  PROVE  RecordInv'
<1>0. /\ p \in Requests /\ TypeOK /\ TypeOK' /\ Tables /\ RowInv /\ Untouched(p) /\ KeepsRun
      /\ row \in Row
  BY ZenonT(40), StopUntouched, StopInv DEF SeqInv, TypeOK, Tables, Requests
<1>1. /\ pc'[p] \in {"release", "unlink", "observe", "merge", "idle"}
      /\ \A n \in Seqs : jobs[n] = "none" => jobs'[n] = "none"
  <2>1. CASE StopMark(p) \/ StopRelease(p) \/ StopUnlink(p)
    BY Zenon, <1>0, <2>1, GotoUntouched DEF StopMark, StopRelease, StopUnlink, outside
  <2>2. CASE ReconcileSnapshots(p)
    BY Zenon, <1>0, <2>2, ObserveFacts
  <2>3. CASE StopMerge(p)
    BY Zenon, <1>0, <2>3, ReturnUntouched DEF StopMerge
  <2>4. QED
    BY Zenon, <2>1, <2>2, <2>3 DEF Stop
<1>2. EndsRecorded
  <2>1. CASE StopMark(p)
    <3>1. row' = row \/ row' = [row EXCEPT !.state = "STOPPING", !.err = FALSE]
      BY Zenon, <2>1 DEF StopMark
    <3>2. row'.state \in {row.state, "STOPPING"}
      BY Zenon, <1>0, <3>1 DEF Row
    <3>3. QED
      BY Zenon, <3>2 DEF EndsRecorded, Terminal
  <2>2. CASE StopRelease(p) \/ StopUnlink(p)
    BY Zenon, <2>2 DEF StopRelease, StopUnlink, store, EndsRecorded
  <2>3. CASE ReconcileSnapshots(p)
    BY Zenon, <1>0, <2>3, ObserveFacts DEF EndsRecorded
  <2>4. CASE StopMerge(p) /\ row = NoRow
    BY Zenon, <2>4 DEF StopMerge, EndsRecorded
  <2>5. CASE StopMerge(p) /\ row # NoRow
    <3>1. Present /\ pc[p] = "merge"
      BY Zenon, <1>0, <2>5 DEF RowInv, StopMerge
    <3>2. PICK reworded \in Rewordings(p), removed \in Outcomes("file"), saved \in Outcomes("save") :
            FreezeAndSave(p, Settled(p, Merged(p, reworded)),
                          MergeApplies(p, reworded) \/ Kept(p) \/ Freed(p), removed, saved)
      BY Zenon, <2>5 DEF StopMerge
    <3>3. reworded \in BOOLEAN
      BY Zenon DEF Rewordings
    <3>4. Settled(p, Merged(p, reworded)) \in Row /\ RunRow(Settled(p, Merged(p, reworded)))
      BY Zenon, <1>0, <3>1, <3>3, MergedRow
    <3>5. QED
      BY Zenon, <3>1, <3>2, <3>4, FreezeRecords
  <2>6. QED
    BY Zenon, <2>1, <2>2, <2>3, <2>4, <2>5 DEF Stop
<1>3. \A q \in Requests : pc'[q] = "submit" => pc[q] = "submit"
  BY Zenon, <1>0, <1>1 DEF Untouched
<1>4. QED
  BY ZenonT(40), <1>0, <1>1, <1>2, <1>3, RecordKept

LEMMA ReconcileRecords ==
  ASSUME SeqInv, SeqInv', RecordInv, Reconcile
  PROVE  RecordInv'
<1> DEFINE p == Reconciler
<1>0. /\ p \in Requests /\ TypeOK /\ TypeOK' /\ Tables /\ RowInv /\ Untouched(p) /\ KeepsRun
  BY ZenonT(40), ReconcileUntouched, ReconcileInv DEF SeqInv, TypeOK, Tables, Requests
<1>1. /\ pc'[p] \in {"observe", "merge", "idle"}
      /\ \A n \in Seqs : jobs[n] = "none" => jobs'[n] = "none"
  <2>1. CASE ReconcileBegin
    BY Zenon, <1>0, <2>1, GotoUntouched DEF ReconcileBegin, outside
  <2>2. CASE ReconcileSnapshots(p)
    BY Zenon, <1>0, <2>2, ObserveFacts
  <2>3. CASE ReconcileMerge
    BY Zenon, <1>0, <2>3, ReturnUntouched DEF ReconcileMerge
  <2>4. QED
    BY Zenon, <2>1, <2>2, <2>3 DEF Reconcile
<1>2. EndsRecorded
  <2>1. CASE ReconcileBegin
    BY Zenon, <2>1 DEF ReconcileBegin, store, EndsRecorded
  <2>2. CASE ReconcileSnapshots(p)
    BY ZenonT(40), <1>0, <2>2, ObserveFacts DEF EndsRecorded
  <2>3. CASE ReconcileMerge /\ UNCHANGED row
    BY Zenon, <2>3 DEF EndsRecorded
  <2>4. CASE ReconcileMerge /\ ~UNCHANGED row
    <3>1. PICK reworded \in Rewordings(p), removed \in Outcomes("file"), saved \in Outcomes("save") :
            /\ MergeApplies(p, reworded)
            /\ FreezeAndSave(p, Merged(p, reworded), TRUE, removed, saved)
      BY Zenon, <2>4 DEF ReconcileMerge
    <3>2. reworded \in BOOLEAN /\ Present /\ pc[p] = "merge"
      BY Zenon, <1>0, <2>4, <3>1 DEF Rewordings, MergeApplies, SnapshotCurrent, RowInv, ReconcileMerge
    <3>3. Merged(p, reworded) \in Row /\ RunRow(Merged(p, reworded))
      BY Zenon, <1>0, <3>2, MergedRow
    <3>4. QED
      BY Zenon, <3>1, <3>2, <3>3, FreezeRecords
  <2>5. QED
    BY ZenonT(40), <2>1, <2>2, <2>3, <2>4 DEF Reconcile
<1>3. \A q \in Requests : pc'[q] = "submit" => pc[q] = "submit"
  BY Zenon, <1>0, <1>1 DEF Untouched
<1>4. QED
  BY ZenonT(40), <1>0, <1>1, <1>2, <1>3, RecordKept

LEMMA OtherRecords ==
  ASSUME SeqInv, SeqInv', RecordInv,
         \/ \E p \in Deleters : Delete(p)
         \/ \E p \in Dialers : Link(p)
  PROVE  RecordInv'
<1>0. /\ TypeOK /\ TypeOK' /\ Tables /\ RowInv /\ row \in Row
  BY Zenon DEF SeqInv, TypeOK, Tables
<1>1. ASSUME NEW p \in Deleters, DeleteRow(p)
      PROVE  RecordInv'
  <2>1. row'.state = "ABSENT"
    BY Zenon, <1>1 DEF DeleteRow, NoRow
  <2>2. QED
    BY Zenon, <2>1 DEF RecordInv, UnrecordedNeverRan, Terminal
<1>2. ASSUME NEW p \in Deleters, DeleteCapability(p)
      PROVE  RecordInv'
  <2>1. p \in Requests /\ Untouched(p)
    BY Zenon, <1>0, <1>2, DeleteUntouched DEF Requests, Delete
  <2>2. UNCHANGED <<row, recorded, deleted, jobs>> /\ pc'[p] = "idle"
    BY Zenon, <1>0, <1>2, <2>1, ReturnUntouched DEF DeleteCapability, store
  <2>3. \A q \in Requests : pc'[q] = "submit" => pc[q] = "submit"
    BY Zenon, <2>1, <2>2 DEF Untouched
  <2>4. QED
    BY Zenon, <2>2, <2>3, QuietKeepsRun, RecordKept DEF EndsRecorded
<1>3. ASSUME NEW p \in Dialers, Link(p)
      PROVE  RecordInv'
  <2>1. p \in Requests /\ Untouched(p) /\ KeepsRun
    BY Zenon, <1>0, <1>3, LinkUntouched, LinkInv DEF Requests
  <2>2. UNCHANGED jobs /\ pc'[p] \in {"register", "announce", "linked", "idle"}
    BY ZenonT(40), <1>0, <1>3, <2>1, GotoUntouched, ReturnUntouched
       DEF Link, LinkAccept, LinkRegister, LinkAnnounce, LinkClose, outside
  <2>3. row' = row \/ row' = [row EXCEPT !.state = "READY", !.err = FALSE, !.started = TRUE]
    BY Zenon, <1>3 DEF Link, LinkAccept, LinkRegister, LinkAnnounce, LinkClose, store, Save
  <2>4. row'.state \in {row.state, "READY"}
    BY Zenon, <1>0, <2>3 DEF Row
  <2>5. EndsRecorded
    BY Zenon, <2>4 DEF EndsRecorded, Terminal
  <2>6. \A q \in Requests : pc'[q] = "submit" => pc[q] = "submit"
    BY Zenon, <2>1, <2>2 DEF Untouched
  <2>7. QED
    BY Zenon, <2>1, <2>2, <2>5, <2>6, RecordKept
<1>4. QED
  BY ZenonT(40), <1>1, <1>2, <1>3 DEF Delete

LEMMA RecordStep ==
  ASSUME ~Redefinition, RefusalsAreDefinite, SeqInv, RecordInv, [Next]_vars
  PROVE  RecordInv'
<1>0. /\ SeqInv' /\ TypeOK /\ TypeOK' /\ Tables
  BY ZenonT(40), SeqStep DEF SeqInv, TypeOK, Tables
<1>1. CASE Define \/ \E n \in Seqs, final \in Terminal : AdoptRuns(n, final)
  <2>1. (Defined \/ Adopted) /\ UNCHANGED pc
    BY Zenon, <1>0, <1>1, DefineInv, AdoptInv DEF Define, AdoptRuns
  <2>2. row'.seq \in recorded' \cup {0}
    BY SMTT(20), <2>1 DEF Defined, Adopted
  <2>3. \A q \in Requests : pc'[q] # "submit"
    <3>1. \A q \in Requests : LaunchInv(q)
      BY Zenon DEF SeqInv
    <3>2. CASE Defined
      BY Zenon, <2>1, <3>1, <3>2 DEF LaunchInv, Unsubmitted, Persisted, Defined, NoRow, Present
    <3>3. CASE Adopted
      <4>1. Present /\ row.seq = 0
        BY Zenon, <3>3 DEF Adopted, Present, Terminal
      <4>2. \A q \in Requests : pc[q] \notin Persisted
        BY SMTT(20), <3>1, <4>1 DEF LaunchInv, Unsubmitted
      <4>3. QED
        BY Zenon, <2>1, <4>2 DEF Persisted
    <3>4. QED
      BY Zenon, <2>1, <3>2, <3>3
  <2>4. QED
    BY Zenon, <2>2, <2>3 DEF RecordInv, UnrecordedNeverRan
<1>2. CASE \/ \E n \in Seqs : JobStep(n)
           \/ Tick \/ PushOut
           \/ UNCHANGED vars
  <2>1. /\ UNCHANGED row /\ UNCHANGED recorded /\ UNCHANGED deleted /\ UNCHANGED pc
        /\ \A n \in Seqs : jobs'[n] = "none" <=> jobs[n] = "none"
    BY Zenon, <1>0, <1>2 DEF JobStep, Tick, PushOut, Tables, Alive, vars, store, outside, memory
  <2>2. KeepsRun
    BY Zenon, <2>1 DEF KeepsRun, RecordsOne
  <2>3. QED
    BY Zenon, <1>0, <2>1, <2>2, RecordKept DEF EndsRecorded
<1>3. CASE Crash
  <2>1. UNCHANGED <<row, recorded, deleted, jobs>> /\ \A q \in Requests : pc'[q] = "idle"
    BY Zenon, <1>3 DEF Crash, store, outside
  <2>2. QED
    BY Zenon, <2>1 DEF RecordInv, UnrecordedNeverRan
<1>4. QED
  BY ZenonT(40), <1>0, <1>1, <1>2, <1>3, LaunchRecords, StopRecords, ReconcileRecords, OtherRecords
     DEF Next

LEMMA RecordInit ==
  ASSUME Init
  PROVE  RecordInv
<1>1. row.state = "ABSENT" /\ \A q \in Requests : pc[q] = "idle"
  BY Zenon DEF Init, NoRow
<1>2. QED
  BY Zenon, <1>1 DEF RecordInv, UnrecordedNeverRan, Terminal

(* RecordInv is an invariant as long as a refusal of sbatch is one.        *)
THEOREM RecordInvariant ==
  ASSUME ~Redefinition, RefusalsAreDefinite
  PROVE  Spec => []RecordInv
<1>1. Init => RecordInv
  BY Zenon, RecordInit
<1>2. SeqInv /\ RecordInv /\ [Next]_vars => RecordInv'
  BY Zenon, RecordStep
<1>3. QED
  BY <1>1, <1>2, SeqInvariant, PTL DEF Spec

(* A finished run that was never recorded never had a job: recordRun and   *)
(* the save of the row are one locked section, and only a launch that was  *)
(* refused ends a run without recording it.  Any failure may happen but    *)
(* that of a refusal that is none.                                         *)
THEOREM UnrecordedRunNeverSubmitted ==
  ASSUME ~Redefinition, RefusalsAreDefinite
  PROVE  Spec => []UnrecordedNeverRan
<1>1. RecordInv => UnrecordedNeverRan
  BY Zenon DEF RecordInv
<1>2. QED
  BY <1>1, RecordInvariant, PTL

(* A job in the queue is never forgotten: the row still names its run and  *)
(* is reconciled, or the launch that submitted it is about to record or    *)
(* cancel it.                                                              *)
THEOREM JobIsNotForgotten ==
  ASSUME ~Redefinition, JobsAreFound
  PROVE  Spec => []NoOrphanJob
<1>1. JobInv => NoOrphanJob
  BY Zenon DEF JobInv, NoOrphanJob, Named, Tended
<1>2. QED
  BY <1>1, JobInvariant, PTL

(* The inductive invariant of the session, with its conditional parts.     *)
THEOREM SessionInductiveInvariant ==
  ASSUME ~Redefinition
  PROVE  Spec => []IInv
<1>1. IInv /\ [Next]_vars => IInv'
  <2> SUFFICES ASSUME IInv, [Next]_vars PROVE IInv'
    OBVIOUS
  <2>1. SeqInv'
    BY Zenon, SeqStep DEF IInv
  <2>2. RefusalsAreDefinite => RecordInv'
    BY Zenon, RecordStep DEF IInv
  <2>3. CapabilitiesAreKept => CapabilityInv'
    BY Zenon, CapabilityStep DEF IInv, CapabilitiesAreKept
  <2>4. JobsAreFound => JobInv'
    BY Zenon, JobsStep DEF IInv
  <2>5. JobsAreNotRequeued => ReadyInv'
    BY Zenon, ReadyStep DEF IInv
  <2>6. TunnelsAreReleased => TunnelInv'
    BY Zenon, TunnelsStep DEF IInv
  <2>7. QED
    BY Zenon, <2>1, <2>2, <2>3, <2>4, <2>5, <2>6
       DEF IInv, RefusalsAreDefinite, CapabilitiesAreKept, JobsAreFound, JobsAreNotRequeued, TunnelsAreReleased
<1>2. Init => IInv
  BY Zenon, SeqInit, RecordInit, CapabilityInit, JobInit, ReadyInit, TunnelInit DEF IInv
<1>3. QED
  BY <1>1, <1>2, PTL DEF Spec
=============================================================================
