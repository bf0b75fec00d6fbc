---------------------- MODULE SessionInvariant_proofs -----------------------
(***************************************************************************)
(* The lifecycle of a session, for any number of requests, any bound on    *)
(* seqs and any failures of the environment: its types, SeqInv with what   *)
(* follows from it, and the invariants that rest on SeqInv: the link of a  *)
(* run that was shown running and the owner of a tunnel.  That of the      *)
(* capability of a live run rests on JobInv as well: its steps are proved  *)
(* here, its theorems follow those of JobInv in SessionJobs_proofs.        *)
(*                                                                         *)
(* Most steps leave the session at the run it is at. For them it is enough *)
(* to say what happens to the row (KeepsRun) and what one request may      *)
(* touch of what the others rely on (Alone). Four steps change the run:    *)
(* Define, AdoptRuns, the persisting launch and the deletion of the row;   *)
(* each is proved by itself. First the types, then the steps of a launch,  *)
(* then reconciliation, Stop, Delete and Link; after them the steps of     *)
(* CapabilityInv, and ReadyInv and TunnelInv, each with its theorem.       *)
(***************************************************************************)
EXTENDS SessionInvariant, TLAPS

-----------------------------------------------------------------------------
(* The reconciliation policy.                                              *)

(* nextState never answers a state outside the vocabulary, never lets a    *)
(* stopping session live and never goes back to SUBMITTING.                *)
LEMMA NextStateFollows ==
  ASSUME NEW from \in Reconcilable, NEW o
  PROVE  /\ NextState(from, o) \in (Reconcilable \cup Terminal) \ {"SUBMITTING"}
         /\ Follows(from, NextState(from, o))
BY Zenon DEF NextState, Follows, Reconcilable, Live, Terminal

(* Every candidate that reconciliation derives from a snapshot is a row of *)
(* the same run whose state follows the snapshot's.                        *)
Candidate(s, c) ==
  /\ c \in Row
  /\ c.seq = s.seq /\ c.client = s.client /\ c.tun = s.tun
  /\ Follows(s.state, c.state)
  /\ c.job \in {s.job, Target(s)}

LEMMA ApplyObservationCandidate ==
  ASSUME NEW s \in Row, s.state \in Reconcilable,
         NEW o, NEW linked \in BOOLEAN, NEW e \in BOOLEAN
  PROVE  Candidate(s, ApplyObservation(s, Target(s), o, linked, e))
<1> DEFINE next == NextState(s.state, o)
           shown == IF next \in {"QUEUED", "STARTING"} /\ linked THEN "READY" ELSE next
<1>1. next \in (Reconcilable \cup Terminal) \ {"SUBMITTING"} /\ Follows(s.state, next)
  BY Zenon, NextStateFollows
<1>2. shown \in (Reconcilable \cup Terminal) \ {"SUBMITTING"} /\ Follows(s.state, shown)
  BY Zenon, <1>1 DEF Follows, Reconcilable, Live, Terminal
<1>3. Target(s) \in 0 .. MaxSeq /\ Follows(s.state, s.state)
  BY Zenon DEF Target, Row, Follows, Reconcilable, Live, Terminal
<1> HIDE DEF next, shown
<1>4. QED
  BY ZenonT(30), <1>2, <1>3 DEF ApplyObservation, Candidate, Row, next, shown

LEMMA MissingCandidate ==
  ASSUME NEW s \in Row, s.state \in Reconcilable, NEW a
  PROVE  Candidate(s, MissingFromScheduler(s, a))
BY ZenonT(40) DEF MissingFromScheduler, Candidate, Follows, Row, Reconcilable, Live, Terminal

LEMMA UnreachableCandidate ==
  ASSUME NEW s \in Row, s.state \in Reconcilable, NEW e \in BOOLEAN
  PROVE  Candidate(s, UnreachableScheduler(s, e))
BY Zenon DEF UnreachableScheduler, OutlivedWalltime, Candidate, Follows, Row, Reconcilable, Live, Terminal

LEMMA WithLogsCandidate ==
  ASSUME NEW s \in Row, s.state \in Reconcilable, NEW c, Candidate(s, c), NEW d \in WithLogs(c)
  PROVE  Candidate(s, d) /\ (d.state \in Live => c.state \in Live)
BY DEF WithLogs, Candidate, Follows, Row, Reconcilable, Live, Terminal

LEMMA ClientCandidate ==
  ASSUME NEW s \in Row, s.state \in Reconcilable, NEW c \in ObserveClient(s)
  PROVE  Candidate(s, c)
<1>1. CASE c = s
  BY Zenon, <1>1 DEF Candidate, Follows, Reconcilable, Live, Terminal
<1>2. CASE s.state = "STOPPING" /\ c = [s EXCEPT !.state = "STOPPED", !.err = FALSE]
  BY Zenon, <1>2 DEF Candidate, Follows, Row, Reconcilable, Live, Terminal
<1>3. CASE s.state = "QUEUED" /\ c = [s EXCEPT !.state = "READY", !.started = TRUE]
  BY Zenon, <1>3 DEF Candidate, Follows, Row, Reconcilable, Live, Terminal
<1>4. QED
  BY Zenon, <1>1, <1>2, <1>3 DEF ObserveClient

(* Silence is not evidence: a run that is still being submitted leaves     *)
(* SUBMITTING for a live state only if Slurm knows its job.                *)
LEMMA SchedulerCandidate ==
  ASSUME NEW s \in Row, s.state \in Reconcilable, NEW cancelled \in BOOLEAN,
         NEW c \in ObserveScheduler(s, cancelled)
  PROVE  /\ Candidate(s, c)
         /\ c.state \in {"QUEUED", "STARTING", "READY"} /\ s.state = "SUBMITTING"
              => jobs[Target(s)] # "none"
<1> DEFINE n == Target(s)
           seen == ({jobs[n], jobs'[n]} \cap Alive) \cup (IF jobs'[n] = "done" THEN Endings ELSE {})
                     \cup (IF "unreachable" \in Faults THEN {"unknown"} ELSE {})
           Applied(o) == ApplyObservation(s, n, o, Linked(s), ~cancelled)
           found == IF jobs[n] = "none" THEN {} ELSE UNION {WithLogs(Applied(o)) : o \in seen}
           missing == IF jobs[n] \in Alive /\ "unlisted" \notin Faults THEN {} ELSE {MissingFromScheduler(s, age)}
<1>1. c \in found \cup missing
  BY Zenon DEF ObserveScheduler
<1>2. CASE c \in found
  <2>1. jobs[n] # "none" /\ c \in UNION {WithLogs(Applied(o)) : o \in seen}
    BY Zenon, <1>2
  <2> HIDE DEF seen, Applied, found
  <2>2. PICK o \in seen : c \in WithLogs(Applied(o))
    BY Zenon, <2>1
  <2>3. Linked(s) \in BOOLEAN /\ (~cancelled) \in BOOLEAN
    BY Zenon DEF Linked
  <2>4. Candidate(s, Applied(o))
    BY Zenon, <2>3, ApplyObservationCandidate DEF Applied
  <2>5. Candidate(s, c)
    BY Zenon, <2>2, <2>4, WithLogsCandidate
  <2>6. QED
    BY Zenon, <2>1, <2>5
<1>3. CASE c \in missing
  <2>1. c = MissingFromScheduler(s, age)
    BY Zenon, <1>3
  <2>2. c.state \in {"QUEUED", "STARTING", "READY"} => s.state # "SUBMITTING"
    BY Zenon, <2>1 DEF MissingFromScheduler, Row
  <2>3. QED
    BY Zenon, <2>1, <2>2, MissingCandidate
<1>4. QED
  BY Zenon, <1>1, <1>2, <1>3

LEMMA NothingCandidate ==
  ASSUME NEW s \in Row, s.state \in Reconcilable, NEW c \in ObserveNothing(s)
  PROVE  /\ Candidate(s, c)
         /\ c.state \in {"QUEUED", "STARTING", "READY"} => s.state # "SUBMITTING"
<1>1. CASE c = s
  BY Zenon, <1>1 DEF Candidate, Follows, Reconcilable, Live, Terminal
<1>2. CASE \E e \in BOOLEAN : c = UnreachableScheduler(s, e)
  BY Zenon, <1>2, UnreachableCandidate DEF UnreachableScheduler, OutlivedWalltime, Row
<1>3. QED
  BY Zenon, <1>1, <1>2 DEF ObserveNothing

-----------------------------------------------------------------------------
(* Type correctness.                                                       *)

LEMMA OutcomesBoolean == \A f : Outcomes(f) \subseteq BOOLEAN
BY Zenon DEF Outcomes

LEMMA NoRowType == NoRow \in Row
BY ConstantsAssumption DEF NoRow, Row, Reconcilable, Live, Terminal

LEMMA GotoType ==
  ASSUME TypeOK, NEW p \in Requests, NEW step \in Steps, Goto(p, step)
  PROVE  pc' \in [Requests -> Steps]
BY Zenon DEF TypeOK, Goto

LEMMA ReturnType ==
  ASSUME TypeOK, NEW p \in Requests, Return(p)
  PROVE  /\ pc' \in [Requests -> Steps]
         /\ snap' \in [Requests -> Row]
         /\ cand' \in [Requests -> Row]
         /\ lock' \in Launchers \cup {Nobody}
BY Zenon, NoRowType DEF TypeOK, Return, Goto, Steps

LEMMA SaveType ==
  ASSUME TypeOK, NEW p \in Requests, NEW saved \in BOOLEAN, NEW r \in Row, Save(p, saved, r)
  PROVE  row' \in Row /\ age' \in Ages /\ fresh' \subseteq Requests
BY DEF TypeOK, Save, Ages

(* What recordRun adds to the runs that have been recorded: whatever it    *)
(* pushes out of the list, the run r when it is over and neither its file  *)
(* nor the save failed.                                                    *)
RecordOf(r, removed, saved) ==
  IF r.state \in Terminal /\ removed /\ saved THEN recorded \cup ({r.seq} \ {0}) ELSE recorded

LEMMA RecordRunAdds ==
  ASSUME TypeOK, NEW r, NEW removed, NEW saved, RecordRun(r, removed, saved)
  PROVE  runs' \subseteq recorded' /\ recorded' = RecordOf(r, removed, saved)
<1>1. runs \subseteq recorded /\ recorded' = recorded \cup runs'
  BY Zenon DEF TypeOK, RecordRun
<1>2. CASE Unrecorded(r) /\ removed /\ saved
  <2>1. PICK out : runs' = (runs \ out) \cup {r.seq}
    BY Zenon, <1>2 DEF RecordRun
  <2>2. r.state \in Terminal /\ r.seq # 0
    BY Zenon, <1>2 DEF Unrecorded
  <2>3. QED
    BY Zenon, <1>1, <1>2, <2>1, <2>2 DEF RecordOf
<1>3. CASE ~(Unrecorded(r) /\ removed /\ saved)
  <2>1. runs' = runs
    BY Zenon, <1>3 DEF RecordRun
  <2>2. recorded' = recorded
    BY Zenon, <1>1, <2>1
  <2>3. QED
    BY Zenon, <1>1, <1>3, <2>1, <2>2 DEF RecordOf, Unrecorded
<1>4. QED
  BY Zenon, <1>2, <1>3

LEMMA FreezeAndSaveType ==
  ASSUME TypeOK, NEW p \in Requests, NEW r \in Row, NEW stamped \in BOOLEAN,
         NEW removed \in BOOLEAN, NEW saved \in BOOLEAN,
         FreezeAndSave(p, r, stamped, removed, saved)
  PROVE  /\ row' \in Row /\ age' \in Ages /\ fresh' \subseteq Requests
         /\ caps' \subseteq Seqs /\ runs' \subseteq recorded' /\ recorded' \subseteq Seqs
<1>1. Frozen(r, removed) \in Row
  BY Zenon DEF Frozen, CleanupFailed, Row, Reconcilable, Live, Terminal
<1>2. caps' \subseteq Seqs
  BY Zenon DEF TypeOK, FreezeAndSave, RemoveCapability
<1>3. runs' \subseteq recorded' /\ recorded' \subseteq Seqs
  <2>1. {r.seq} \ {0} \subseteq Seqs
    BY ConstantsAssumption DEF Row, Seqs
  <2>2. RecordRun(r, removed, saved)
    BY Zenon DEF FreezeAndSave
  <2>3. QED
    BY Zenon, <2>1, <2>2, RecordRunAdds DEF TypeOK, RecordOf
<1>4. row' \in Row /\ age' \in Ages /\ fresh' \subseteq Requests
  <2>1. CASE stamped
    <3>1. Save(p, saved, Frozen(r, removed))
      BY Zenon, <2>1 DEF FreezeAndSave
    <3>2. QED
      BY Zenon, <1>1, <3>1, SaveType
  <2>2. CASE ~stamped
    BY Zenon, <1>1, <2>2 DEF TypeOK, FreezeAndSave
  <2>3. QED
    BY Zenon, <2>1, <2>2
<1>5. QED
  BY Zenon, <1>2, <1>3, <1>4

LEMMA MergedType ==
  ASSUME TypeOK, NEW p \in Requests, NEW reworded \in BOOLEAN
  PROVE  Merged(p, reworded) \in Row
BY Zenon DEF TypeOK, Merged, Row

(* The type invariant needs two facts about requests in flight: a run that *)
(* is being issued has a number, and only a row that the scheduler can be  *)
(* asked about is observed.                                                *)
TypeInv ==
  /\ TypeOK
  /\ \A p \in Requests :
       /\ pc[p] \in Issued => cand[p].seq \in Seqs
       /\ pc[p] = "observe" => snap[p].state \in Reconcilable

LEMMA IntentType == \A kind : \A tun \in BOOLEAN : Intent(kind, tun) \in Row
BY Zenon, NoRowType DEF Intent, NoRow, Row, Reconcilable, Live, Terminal

LEMMA FinishedType == \A r \in Row : Finished(r) \in Row
BY Zenon, NoRowType DEF Finished, NoRow, Row

LEMMA ReleaseTunnelType ==
  ASSUME TypeOK, NEW n, NEW tun, NEW token, NEW u, NEW r, ReleaseTunnel(n, tun, token, u, r)
  PROVE  tunnels' \subseteq Seqs /\ caps' \subseteq Seqs
BY Zenon DEF TypeOK, ReleaseTunnel

LEMMA ScancelType ==
  ASSUME TypeOK, NEW n, NEW done, Scancel(n, done)
  PROVE  /\ jobs' \in [Seqs -> JobStates]
         /\ \A m \in Seqs : jobs'[m] = "none" <=> jobs[m] = "none"
         /\ \A m \in Seqs : jobs'[m] \in Alive => jobs[m] \in Alive
BY Zenon DEF TypeOK, Scancel, JobStates, Alive

(* What a scheduler pass writes down is a candidate for its snapshot.      *)
LEMMA ObservedCandidate ==
  ASSUME NEW p \in Requests, TypeOK, snap[p].state \in Reconcilable, ReconcileSnapshots(p)
  PROVE  \E c : /\ cand' = [cand EXCEPT ![p] = c]
                /\ Candidate(snap[p], c)
                /\ c.state \in {"QUEUED", "STARTING", "READY"} /\ snap[p].state = "SUBMITTING"
                     => snap[p].client \/ jobs[Target(snap[p])] # "none"
<1> DEFINE s == snap[p]
<1>1. s \in Row
  BY Zenon DEF TypeOK
<1>2. CASE s.client
  <2>1. PICK c \in ObserveClient(s) : cand' = [cand EXCEPT ![p] = c]
    BY Zenon, <1>2 DEF ReconcileSnapshots
  <2>2. Candidate(s, c)
    BY Zenon, <1>1, ClientCandidate
  <2>3. QED
    BY Zenon, <1>2, <2>1, <2>2
<1>3. CASE ~s.client
  <2>1. PICK cancelled \in IF s.state = "STOPPING" THEN Outcomes("cancel") ELSE {FALSE} :
          \/ \E c \in ObserveScheduler(s, cancelled) : cand' = [cand EXCEPT ![p] = c]
          \/ \E c \in ObserveNothing(s) : cand' = [cand EXCEPT ![p] = c]
    BY Zenon, <1>3 DEF ReconcileSnapshots
  <2>2. cancelled \in BOOLEAN
    BY Zenon, OutcomesBoolean
  <2>3. CASE \E c \in ObserveScheduler(s, cancelled) : cand' = [cand EXCEPT ![p] = c]
    <3>1. PICK c \in ObserveScheduler(s, cancelled) : cand' = [cand EXCEPT ![p] = c]
      BY Zenon, <2>3
    <3> HIDE DEF s
    <3>2. Candidate(s, c)
      BY Zenon, <1>1, <2>2, SchedulerCandidate DEF s
    <3>3. c.state \in {"QUEUED", "STARTING", "READY"} /\ s.state = "SUBMITTING"
            => jobs[Target(s)] # "none"
      BY Zenon, <1>1, <2>2, SchedulerCandidate DEF s
    <3>4. QED
      BY Zenon, <3>1, <3>2, <3>3 DEF s
  <2>4. CASE \E c \in ObserveNothing(s) : cand' = [cand EXCEPT ![p] = c]
    BY Zenon, <1>1, <2>4, NothingCandidate
  <2>5. QED
    BY Zenon, <2>1, <2>3, <2>4
<1>4. QED
  BY Zenon, <1>2, <1>3

(* Every step keeps the type invariant.                                    *)
LEMMA LaunchType ==
  ASSUME TypeInv, NEW p \in Launchers, Launch(p)
  PROVE  TypeInv'
<1> USE OutcomesBoolean, NoRowType, ConstantsAssumption
<1>0. p \in Requests /\ snap[p] \in Row /\ cand[p] \in Row /\ row \in Row /\ TypeOK
  BY Zenon DEF TypeInv, TypeOK, Requests
<1>1. CASE \E kind \in Kinds \ {"adopt"}, tun \in Modes : LaunchBegin(p, kind, tun)
  BY SMTT(20), <1>0, <1>1, IntentType, FinishedType DEF TypeInv, TypeOK, Goto, Steps, LauncherSteps, Issued, store, outside, memory, LaunchBegin
<1>2. CASE LaunchRetire(p)
  <2>1. tunnels' \subseteq Seqs /\ caps' \subseteq Seqs
    BY Zenon, <1>2, ReleaseTunnelType DEF LaunchRetire, TypeInv, TypeOK
  <2>2. Return(p) \/ (Goto(p, "freeze") /\ UNCHANGED <<snap, cand, lock>>)
    BY Zenon, <1>2 DEF LaunchRetire
  <2>3. UNCHANGED <<store, jobs, fresh, unreleased, registry>>
    BY Zenon, <1>2 DEF LaunchRetire
  <2>4. QED
    BY <1>0, <2>1, <2>2, <2>3 DEF Return, TypeInv, TypeOK, Goto, Steps, LauncherSteps, Issued, store, outside, memory
<1>3. CASE LaunchFreeze(p)
  <2>1. PICK removed \in BOOLEAN, saved \in BOOLEAN :
          /\ caps' = RemoveCapability(snap[p], removed)
          /\ RecordRun(snap[p], removed, saved)
    BY Zenon, <1>3 DEF LaunchFreeze
  <2>2. caps' \subseteq Seqs
    BY Zenon, <2>1 DEF TypeInv, TypeOK, RemoveCapability
  <2>3. {snap[p].seq} \ {0} \subseteq Seqs
    BY <1>0 DEF Row, Seqs
  <2>4. runs' \subseteq recorded' /\ recorded' \subseteq Seqs
    BY Zenon, <1>0, <2>1, <2>3, RecordRunAdds DEF TypeInv, TypeOK, RecordOf
  <2>5. \/ Return(p)
        \/ Goto(p, "serialize") /\ snap' = [snap EXCEPT ![p] = NoRow] /\ UNCHANGED <<cand, lock>>
    BY Zenon, <1>3 DEF LaunchFreeze
  <2>6. UNCHANGED <<row, age, deleted, fresh, tunnels, jobs, unreleased, registry>>
    BY Zenon, <1>3 DEF LaunchFreeze
  <2>7. QED
    BY <1>0, <2>2, <2>4, <2>5, <2>6 DEF Return, TypeInv, TypeOK, Goto, Steps, LauncherSteps, Issued, store, outside, memory
<1>4. CASE LaunchSerialize(p)
  BY <1>0, <1>4 DEF TypeInv, TypeOK, Goto, Steps, LauncherSteps, Issued, store, outside, memory, LaunchSerialize, Return
<1>5. CASE LaunchClaim(p)
  <2>1. CASE Return(p) /\ UNCHANGED fresh
    BY Zenon, <1>0, <1>5, <2>1 DEF LaunchClaim, Return, TypeInv, TypeOK, Goto, Steps, LauncherSteps, Issued, store, outside, memory
  <2>2. CASE /\ row.seq < MaxSeq
             /\ snap' = [snap EXCEPT ![p] = Finished(row)]
             /\ fresh' = fresh \cup {p}
             /\ cand' = [cand EXCEPT ![p].seq = NextSeq]
             /\ Goto(p, "issue")
             /\ UNCHANGED lock
    <3> DEFINE c == [cand[p] EXCEPT !.seq = NextSeq]
    <3>1. c \in Row /\ c.seq \in Seqs
      BY <1>0, <2>2 DEF NextSeq, Row, Seqs
    <3>2. cand' = [cand EXCEPT ![p] = c]
      BY Zenon, <1>0, <2>2
    <3> HIDE DEF c
    <3>3. /\ snap' = [snap EXCEPT ![p] = Finished(row)]
          /\ fresh' = fresh \cup {p}
          /\ Goto(p, "issue")
          /\ UNCHANGED <<lock, store, outside, unreleased, registry>>
      BY Zenon, <1>5, <2>2 DEF LaunchClaim
    <3>4. Finished(row) \in Row
      BY Zenon, <1>0, FinishedType
    <3>5. QED
      BY Zenon, <1>0, <3>1, <3>2, <3>3, <3>4 DEF TypeInv, TypeOK, Goto, Steps, LauncherSteps, Issued, store, outside, memory
  <2>3. QED
    BY Zenon, <1>5, <2>1, <2>2 DEF LaunchClaim
<1>6. CASE LaunchIssue(p)
  BY SMTT(20), <1>0, <1>6 DEF TypeInv, TypeOK, Goto, Steps, LauncherSteps, Issued, store, outside, memory, LaunchIssue
<1>7. CASE LaunchPersist(p)
  BY <1>0, <1>7 DEF TypeInv, TypeOK, Goto, Steps, LauncherSteps, Issued, store, outside, memory, LaunchPersist, Return, Save, Ages
<1>8. CASE LaunchUnissue(p)
  BY ZenonT(40), <1>0, <1>8, ReleaseTunnelType DEF TypeInv, TypeOK, Goto, Steps, LauncherSteps, Issued, store, outside, memory, LaunchUnissue, Return
<1>9. CASE LaunchSubmit(p)
  BY SMTT(20), <1>0, <1>9 DEF TypeInv, TypeOK, Goto, Steps, LauncherSteps, Issued, store, outside, memory, LaunchSubmit, Return, JobStates, Alive
<1>10. CASE LaunchRecord(p)
  <2> DEFINE queued == row.state \in {"SUBMITTING", "QUEUED"}
             r == [row EXCEPT !.job = cand[p].seq, !.state = IF queued THEN "QUEUED" ELSE row.state]
  <2>1. r \in Row
    BY ZenonT(40), <1>0 DEF Row, Reconcilable, Live, Terminal
  <2>2. /\ \/ \E saved \in BOOLEAN : Save(p, saved, r)
           \/ UNCHANGED <<row, age, fresh>>
        /\ \/ Return(p)
           \/ \E step \in {"cancel", "unsaved"} : Goto(p, step) /\ UNCHANGED <<snap, cand, lock>>
        /\ UNCHANGED <<runs, recorded, deleted, outside, unreleased, registry>>
    BY Zenon, <1>10 DEF LaunchRecord
  <2> HIDE DEF r
  <2>3. QED
    BY <1>0, <2>1, <2>2 DEF Return, Save, Ages, TypeInv, TypeOK, Goto, Steps, LauncherSteps, Issued, store, outside, memory
<1>11. CASE LaunchUnsaved(p)
  BY Zenon, <1>0, <1>11, ScancelType DEF TypeInv, TypeOK, Goto, Steps, LauncherSteps, Issued, store, outside, memory, LaunchUnsaved, Return
<1>12. CASE LaunchCancel(p)
  <2>1. PICK done \in BOOLEAN : Scancel(cand[p].seq, done) /\ cand' = [cand EXCEPT ![p].err = ~done]
    BY Zenon, <1>12 DEF LaunchCancel
  <2> DEFINE c == [cand[p] EXCEPT !.err = ~done]
  <2>2. c \in Row
    BY ZenonT(30), <1>0 DEF Row
  <2>3. cand' = [cand EXCEPT ![p] = c]
    BY Zenon, <2>1
  <2> HIDE DEF c
  <2>4. jobs' \in [Seqs -> JobStates]
    BY Zenon, <1>0, <2>1, ScancelType
  <2>5. QED
    BY Zenon, <1>0, <1>12, <2>2, <2>3, <2>4 DEF LaunchCancel, TypeInv, TypeOK, Goto, Steps, LauncherSteps, Issued, store, outside, memory
<1>13. CASE LaunchCancelled(p)
  <2> DEFINE r == [row EXCEPT !.err = cand[p].err]
  <2>1. r \in Row
    BY Zenon, <1>0 DEF Row
  <2>2. /\ (\E saved \in BOOLEAN : Save(p, saved, r)) \/ UNCHANGED <<row, age, fresh>>
        /\ Return(p)
        /\ UNCHANGED <<runs, recorded, deleted, outside, unreleased, registry>>
    BY Zenon, <1>13 DEF LaunchCancelled
  <2> HIDE DEF r
  <2>3. QED
    BY <1>0, <2>1, <2>2 DEF Return, Save, Ages, TypeInv, TypeOK, Goto, Steps, LauncherSteps, Issued, store, outside, memory
<1>14. CASE LaunchAbandon(p)
  <2>1. PICK u \in BOOLEAN, removed \in BOOLEAN :
          /\ ReleaseTunnel(cand[p].seq, cand[p].tun, TRUE, u, removed)
          /\ cand' = [cand EXCEPT ![p].err = ReleaseFailed(cand[p].seq, cand[p].tun, TRUE, u, removed)]
    BY ZenonT(30), <1>14 DEF LaunchAbandon
  <2> DEFINE c == [cand[p] EXCEPT !.err = ReleaseFailed(cand[p].seq, cand[p].tun, TRUE, u, removed)]
  <2>2. c \in Row
    BY ZenonT(30), <1>0 DEF Row, ReleaseFailed
  <2>3. cand' = [cand EXCEPT ![p] = c]
    BY Zenon, <2>1
  <2> HIDE DEF c
  <2>4. tunnels' \subseteq Seqs /\ caps' \subseteq Seqs
    BY Zenon, <1>0, <2>1, ReleaseTunnelType
  <2>5. QED
    BY ZenonT(40), <1>0, <1>14, <2>2, <2>3, <2>4 DEF LaunchAbandon, TypeInv, TypeOK, Goto, Steps, LauncherSteps, Issued, store, outside, memory
<1>15. CASE LaunchAbandoned(p)
  <2> DEFINE final == IF row.state = "SUBMITTING" THEN "FAILED" ELSE "STOPPED"
             r == [row EXCEPT !.state = final, !.tun = FALSE, !.err = cand[p].err]
  <2>1. r \in Row
    <3>1. final \in Terminal
      BY Zenon DEF Terminal
    <3> HIDE DEF final
    <3>2. QED
      BY ZenonT(40), <1>0, <3>1 DEF Row
  <2>2. /\ (\E saved \in BOOLEAN : Save(p, saved, r)) \/ UNCHANGED <<row, age, fresh>>
        /\ Return(p)
        /\ UNCHANGED <<runs, recorded, deleted, outside, unreleased, registry>>
    BY Zenon, <1>15 DEF LaunchAbandoned
  <2> HIDE DEF r
  <2>3. QED
    BY <1>0, <2>1, <2>2 DEF Return, Save, Ages, TypeInv, TypeOK, Goto, Steps, LauncherSteps, Issued, store, outside, memory
<1>16. QED
  BY Zenon, <1>1, <1>2, <1>3, <1>4, <1>5, <1>6, <1>7, <1>8, <1>9, <1>10, <1>11, <1>12, <1>13, <1>14, <1>15 DEF Launch

LEMMA ObserveType ==
  ASSUME TypeInv, NEW p \in Requests, ReconcileSnapshots(p)
  PROVE  TypeInv'
<1>1. PICK c : cand' = [cand EXCEPT ![p] = c] /\ Candidate(snap[p], c)
  BY ZenonT(40), ObservedCandidate DEF TypeInv, ReconcileSnapshots
<1>2. c \in Row
  BY Zenon, <1>1 DEF Candidate
<1>3. jobs' \in [Seqs -> JobStates]
  BY Zenon, ScancelType DEF ReconcileSnapshots, TypeInv, TypeOK
<1>4. Goto(p, "merge") /\ UNCHANGED <<store, caps, tunnels, snap, fresh, lock, unreleased, registry>>
  BY Zenon DEF ReconcileSnapshots
<1>5. QED
  BY Zenon, <1>1, <1>2, <1>3, <1>4 DEF TypeInv, TypeOK, Goto, Steps, LauncherSteps, Issued, store, outside, memory

LEMMA ReconcileType ==
  ASSUME TypeInv, Reconcile
  PROVE  TypeInv'
<1> DEFINE p == Reconciler
<1>0. p \in Requests /\ TypeOK
  BY Zenon DEF Requests, TypeInv
<1>1. CASE ReconcileBegin
  BY Zenon, <1>0, <1>1 DEF ReconcileBegin, Read, TypeInv, TypeOK, Goto, Steps, LauncherSteps, Issued, store, outside, memory
<1>2. CASE ReconcileMerge
  <2> HIDE DEF p
  <2>1. /\ row' \in Row /\ age' \in Ages /\ fresh' \subseteq Requests
        /\ caps' \subseteq Seqs /\ runs' \subseteq recorded' /\ recorded' \subseteq Seqs
    <3>1. PICK reworded \in BOOLEAN :
            \/ /\ MergeApplies(p, reworded)
               /\ \E removed \in BOOLEAN, saved \in BOOLEAN :
                    FreezeAndSave(p, Merged(p, reworded), TRUE, removed, saved)
            \/ fresh' = fresh \ {p} /\ UNCHANGED <<row, age, runs, recorded, caps>>
      BY Zenon, <1>2, OutcomesBoolean DEF ReconcileMerge, Rewordings, p
    <3>2. Merged(p, reworded) \in Row
      BY Zenon, <1>0, MergedType
    <3>3. QED
      BY ZenonT(30), <1>0, <3>1, <3>2, FreezeAndSaveType DEF TypeOK
  <2>2. Return(p) /\ UNCHANGED <<deleted, tunnels, jobs, unreleased, registry>>
    BY Zenon, <1>2 DEF ReconcileMerge, p
  <2>3. QED
    BY Zenon, <1>0, <2>1, <2>2, NoRowType DEF Return, TypeInv, TypeOK, Goto, Steps, LauncherSteps, Issued, store, outside, memory
<1>3. QED
  BY Zenon, <1>0, <1>1, <1>2, ObserveType DEF Reconcile

LEMMA SettledType ==
  ASSUME NEW p, NEW r \in Row
  PROVE  Settled(p, r) \in Row
<1> DEFINE e == r.err \/ Kept(p)
           t == r.tun /\ ~Freed(p)
<1>1. e \in BOOLEAN /\ t \in BOOLEAN
  OBVIOUS
<1> HIDE DEF e, t
<1>2. [r EXCEPT !.err = e, !.tun = t] \in Row
  BY Zenon, <1>1 DEF Row
<1>3. QED
  BY Zenon, <1>2 DEF Settled, e, t

LEMMA StopType ==
  ASSUME TypeInv, NEW p \in Stoppers, Stop(p)
  PROVE  TypeInv'
<1>0. p \in Requests /\ TypeOK /\ row \in Row /\ snap[p] \in Row
  BY Zenon DEF Requests, TypeInv, TypeOK
<1>1. CASE StopMark(p)
  <2> DEFINE r == [row EXCEPT !.state = "STOPPING", !.err = FALSE]
  <2>1. r \in Row
    BY Zenon, <1>0 DEF Row, Reconcilable, Live, Terminal
  <2>2. \/ Read(p) /\ UNCHANGED <<row, age>>
        \/ row' = r /\ snap' = [snap EXCEPT ![p] = row'] /\ age' = 0 /\ fresh' = {p}
    BY Zenon, <1>1 DEF StopMark
  <2>3. Goto(p, "release") /\ UNCHANGED <<runs, recorded, deleted, outside, cand, lock, unreleased, registry>>
    BY Zenon, <1>1 DEF StopMark
  <2> HIDE DEF r
  <2>4. QED
    BY <1>0, <2>1, <2>2, <2>3 DEF Read, Ages, TypeInv, TypeOK, Goto, Steps, LauncherSteps, Issued, store, outside, memory
<1>2. CASE StopRelease(p)
  BY Zenon, <1>0, <1>2, ReleaseTunnelType DEF StopRelease, TypeInv, TypeOK, Goto, Steps, LauncherSteps, Issued, store, outside, memory
<1>3. CASE StopUnlink(p)
  BY Zenon, <1>0, <1>3 DEF StopUnlink, TypeInv, TypeOK, Goto, Steps, LauncherSteps, Issued, store, outside, memory
<1>4. CASE StopMerge(p)
  <2>1. /\ row' \in Row /\ age' \in Ages /\ fresh' \subseteq Requests
        /\ caps' \subseteq Seqs /\ runs' \subseteq recorded' /\ recorded' \subseteq Seqs
    <3>1. CASE fresh' = fresh \ {p} /\ UNCHANGED <<row, age, runs, recorded, caps>>
      BY Zenon, <1>0, <3>1 DEF TypeOK
    <3>2. CASE \E reworded \in BOOLEAN, removed \in BOOLEAN, saved \in BOOLEAN :
                 FreezeAndSave(p, Settled(p, Merged(p, reworded)),
                               MergeApplies(p, reworded) \/ Kept(p) \/ Freed(p), removed, saved)
      BY ZenonT(40), <1>0, <3>2, MergedType, SettledType, FreezeAndSaveType
    <3>3. Rewordings(p) \subseteq BOOLEAN
      BY Zenon DEF Rewordings
    <3>4. QED
      BY Zenon, <1>4, <3>1, <3>2, <3>3, OutcomesBoolean DEF StopMerge
  <2>2. /\ Return(p) /\ unreleased' = unreleased \ {p}
        /\ UNCHANGED <<deleted, tunnels, jobs, registry>>
    BY Zenon, <1>4 DEF StopMerge
  <2>3. QED
    BY Zenon, <1>0, <2>1, <2>2, NoRowType DEF Return, TypeInv, TypeOK, Goto, Steps, LauncherSteps, Issued, store, outside, memory
<1>5. QED
  BY Zenon, <1>0, <1>1, <1>2, <1>3, <1>4, ObserveType DEF Stop

LEMMA DeleteType ==
  ASSUME TypeInv, NEW p \in Deleters, Delete(p)
  PROVE  TypeInv'
<1>0. p \in Requests /\ snap[p] \in Row /\ row \in Row
  BY Zenon DEF Requests, TypeInv, TypeOK
<1>1. CASE DeleteRow(p)
  <2> DEFINE s == [snap[p] EXCEPT !.seq = row.seq]
  <2>1. s \in Row
    BY Zenon, <1>0 DEF Row
  <2>2. snap' = [snap EXCEPT ![p] = s]
    BY Zenon, <1>1 DEF DeleteRow
  <2>3. /\ row' = NoRow /\ age' = 0 /\ fresh' = {} /\ deleted' = TRUE
        /\ Goto(p, "forget")
        /\ UNCHANGED <<runs, recorded, outside, cand, lock, unreleased, registry>>
    BY Zenon, <1>1 DEF DeleteRow
  <2> HIDE DEF s
  <2>4. QED
    BY <1>0, <2>1, <2>2, <2>3, NoRowType DEF Ages, TypeInv, TypeOK, Goto, Steps, LauncherSteps, Issued, store, outside, memory
<1>2. CASE DeleteCapability(p)
  BY Zenon, <1>0, <1>2, NoRowType DEF DeleteCapability, Return, TypeInv, TypeOK, Goto, Steps, LauncherSteps, Issued, store, outside, memory
<1>3. QED
  BY Zenon, <1>1, <1>2 DEF Delete

LEMMA LinkType ==
  ASSUME TypeInv, NEW p \in Dialers, Link(p)
  PROVE  TypeInv'
<1>0. p \in Requests /\ snap[p] \in Row /\ row \in Row
  BY Zenon DEF Requests, TypeInv, TypeOK
<1>1. CASE LinkAccept(p)
  <2> DEFINE s == [snap[p] EXCEPT !.seq = row.seq]
  <2>1. s \in Row
    BY Zenon, <1>0 DEF Row
  <2>2. snap' = [snap EXCEPT ![p] = s]
    BY Zenon, <1>1 DEF LinkAccept
  <2>3. Goto(p, "register") /\ UNCHANGED <<store, outside, cand, fresh, lock, unreleased, registry>>
    BY Zenon, <1>1 DEF LinkAccept
  <2> HIDE DEF s
  <2>4. QED
    BY Zenon, <1>0, <2>1, <2>2, <2>3 DEF TypeInv, TypeOK, Goto, Steps, LauncherSteps, Issued, store, outside, memory
<1>2. CASE LinkRegister(p)
  BY Zenon, <1>0, <1>2 DEF LinkRegister, TypeInv, TypeOK, Goto, Steps, LauncherSteps, Issued, store, outside, memory
<1>3. CASE LinkAnnounce(p)
  <2> DEFINE r == [row EXCEPT !.state = "READY", !.err = FALSE, !.started = TRUE]
  <2>1. r \in Row
    BY ZenonT(40), <1>0 DEF Row, Reconcilable, Live, Terminal
  <2>2. /\ (\E saved \in BOOLEAN : Save(p, saved, r)) \/ UNCHANGED <<row, age, fresh>>
        /\ Goto(p, "linked")
        /\ UNCHANGED <<runs, recorded, deleted, outside, snap, cand, lock, unreleased, registry>>
    BY Zenon, <1>3, OutcomesBoolean DEF LinkAnnounce
  <2> HIDE DEF r
  <2>3. QED
    BY <1>0, <2>1, <2>2 DEF Save, Ages, TypeInv, TypeOK, Goto, Steps, LauncherSteps, Issued, store, outside, memory
<1>4. CASE LinkClose(p)
  BY Zenon, <1>0, <1>4, NoRowType DEF LinkClose, Return, TypeInv, TypeOK, Goto, Steps, LauncherSteps, Issued, store, outside, memory
<1>5. QED
  BY Zenon, <1>1, <1>2, <1>3, <1>4 DEF Link

LEMMA TypeStep == TypeInv /\ [Next]_vars => TypeInv'
<1> SUFFICES ASSUME TypeInv, [Next]_vars PROVE TypeInv'
  OBVIOUS
<1>1. CASE Define
  <2>1. [NoRow EXCEPT !.state = "STOPPED"] \in Row
    BY Zenon, NoRowType DEF Row, Reconcilable, Live, Terminal
  <2>2. QED
    BY <1>1, <2>1 DEF Define, Ages, TypeInv, TypeOK, Goto, Steps, LauncherSteps, Issued, store, outside, memory
<1>2. CASE \E n \in Seqs, final \in Terminal : AdoptRuns(n, final)
  <2>1. PICK n \in Seqs, final \in Terminal : AdoptRuns(n, final)
    BY Zenon, <1>2
  <2>0. PICK began, failed \in BOOLEAN :
          row' = [row EXCEPT !.seq = n, !.state = final, !.started = began, !.err = failed]
    BY Zenon, <2>1 DEF AdoptRuns
  <2> DEFINE r == [row EXCEPT !.seq = n, !.state = final, !.started = began, !.err = failed]
  <2>2. r \in Row
    <3>1. row \in Row /\ n \in 0 .. MaxSeq /\ final \in Reconcilable \cup Terminal \cup {"ABSENT"}
      BY ConstantsAssumption DEF TypeInv, TypeOK, Seqs
    <3>2. QED
      BY ZenonT(40), <3>1 DEF Row
  <2>3. 1 .. n \subseteq Seqs
    BY ConstantsAssumption DEF Seqs
  <2>4. /\ row' = r /\ age' = 0 /\ runs' = 1 .. n /\ recorded' = recorded \cup (1 .. n) /\ fresh' = {}
        /\ UNCHANGED <<deleted, outside, pc, snap, cand, lock, unreleased, registry>>
    BY Zenon, <2>0, <2>1 DEF AdoptRuns
  <2> HIDE DEF r
  <2>5. QED
    BY <2>2, <2>3, <2>4 DEF Ages, TypeInv, TypeOK, Goto, Steps, LauncherSteps, Issued, store, outside, memory
<1>3. CASE \E n \in Seqs : JobStep(n)
  BY Zenon, <1>3 DEF JobStep, JobStates, Alive, TypeInv, TypeOK, Goto, Steps, LauncherSteps, Issued, store, outside, memory
<1>4. CASE Tick
  BY <1>4 DEF Tick, Ages, TypeInv, TypeOK, Goto, Steps, LauncherSteps, Issued, store, outside, memory
<1>5. CASE Crash
  <2>1. caps' \subseteq Seqs
    BY Zenon, <1>5 DEF Crash, RemoveCapability, TypeInv, TypeOK
  <2>2. QED
    BY Zenon, <1>5, <2>1, NoRowType DEF Crash, TypeInv, TypeOK, Goto, Steps, LauncherSteps, Issued, store, outside, memory
<1>6. CASE UNCHANGED vars
  BY Zenon, <1>6 DEF vars, TypeInv, TypeOK, Goto, Steps, LauncherSteps, Issued, store, outside, memory
<1>7. CASE PushOut
  BY Zenon, <1>7 DEF PushOut, TypeInv, TypeOK, Goto, Steps, LauncherSteps, Issued, store, outside, memory
<1>8. QED
  BY Zenon, <1>1, <1>2, <1>3, <1>4, <1>5, <1>6, <1>7,
     LaunchType, StopType, DeleteType, LinkType, ReconcileType DEF Next

(* Type correctness, for any set of requests and any failures: the row,    *)
(* the files, the jobs and the remembered rows keep their types under      *)
(* every operation of the session subsystem.                               *)
THEOREM TypeCorrect == Spec => []TypeOK
<1>1. Init => TypeInv
  <2> SUFFICES ASSUME Init PROVE TypeInv
    OBVIOUS
  <2>1. TypeOK
    <3>1. /\ age \in Ages /\ jobs \in [Seqs -> JobStates]
          /\ pc \in [Requests -> Steps]
      BY DEF Init, Ages, JobStates, Steps
    <3>2. QED
      BY Zenon, <3>1, NoRowType DEF Init, TypeOK
  <2>2. QED
    BY Zenon, <2>1 DEF Init, TypeInv, Issued
<1>2. TypeInv => TypeOK
  BY Zenon DEF TypeInv
<1>3. QED
  BY <1>1, <1>2, TypeStep, PTL DEF Spec

-----------------------------------------------------------------------------

RequestInv(p) == PastInv(p) /\ LaunchInv(p) /\ MergeInv(p)

Started == {"QUEUED", "STARTING", "READY"}

(* The row stays, or is written for the same run: nothing that was over    *)
(* lives again, and a submission is known to have succeeded by its job.    *)
RunRow(r) ==
  /\ r.state # "ABSENT" /\ r.seq = row.seq /\ r.client = row.client
  /\ r.state \in Live => row.state \in Live
  /\ r.state \in Reconcilable => row.seq > 0
  /\ r.state = "SUBMITTING" => row.state = "SUBMITTING"
  /\ r.state \in Started /\ row.state = "SUBMITTING" => jobs[row.seq] # "none"
  /\ r.job \in {0, row.seq}

SameRun == Present /\ RunRow(row')

(* At most one run is recorded in a step: one that was over before, or the *)
(* current one with the row that ends it.                                  *)
RecordsOne ==
  \/ recorded' = recorded
  \/ \E n \in Seqs :
       /\ recorded' = recorded \cup {n}
       /\ UNCHANGED row \/ (n = row.seq /\ row'.state \in Terminal)

KeepsRun ==
  /\ UNCHANGED deleted
  /\ RecordsOne
  /\ UNCHANGED row \/ SameRun
  /\ recorded \subseteq recorded'
  /\ \A n \in recorded' \ recorded : Past(n)'
  /\ \A n \in Seqs : jobs'[n] = "none" => jobs[n] = "none"

(* The steps that change the run.                                          *)
Defined ==
  /\ row = NoRow /\ ~deleted
  /\ row'.state = "STOPPED" /\ row'.seq = 0
  /\ UNCHANGED <<recorded, deleted>>

Adopted ==
  /\ row.state \in Terminal /\ row.seq = 0 /\ recorded = {}
  /\ row'.state \in Terminal /\ row'.seq \in Nat \ {0} /\ recorded' = 1 .. row'.seq

NextRun ==
  /\ row.state \in Terminal /\ row'.state \in Live
  /\ row'.seq = row.seq + 1
  /\ UNCHANGED recorded

Forgotten ==
  /\ row.state \in Terminal /\ row' = NoRow
  /\ deleted'
  /\ UNCHANGED recorded

RunStep == KeepsRun \/ Defined \/ Adopted \/ NextRun \/ Forgotten

(* A step of p as the other requests see it.                               *)
Alone(p) ==
  /\ \A q \in Requests \ {p} :
       pc'[q] = pc[q] /\ snap'[q] = snap[q] /\ cand'[q] = cand[q]
  /\ fresh' \subseteq fresh \cup {p}
  /\ \A q \in Requests \ {p} : lock = q => lock' = q
  /\ \A n \in Seqs : jobs'[n] # "none" /\ jobs[n] = "none" =>
       p \in Requests /\ lock = p /\ pc[p] = "submit" /\ n = cand[p].seq

(* The typing of what is indexed by requests and seqs.                     *)
Tables ==
  /\ jobs \in [Seqs -> JobStates]
  /\ pc \in [Requests -> Steps]
  /\ snap \in [Requests -> Row]
  /\ cand \in [Requests -> Row]

LEMMA PastKept ==
  ASSUME SeqInv, KeepsRun, TypeOK', NEW n \in 0 .. MaxSeq, Past(n)
  PROVE  Past(n)'
BY Zenon DEF KeepsRun, SameRun, RunRow, Past, Present, SeqInv, TypeOK, Row

LEMMA RowInvKept ==
  ASSUME SeqInv, KeepsRun, TypeOK', NEW p, Alone(p)
  PROVE  RowInv'
<1>0. TypeOK /\ RowInv /\ (p \in Requests => LaunchInv(p))
  BY Zenon DEF SeqInv
<1>1. (~Present => row = NoRow)'
  BY Zenon, <1>0 DEF KeepsRun, SameRun, RunRow, RowInv, Present, NoRow
<1>2. (row.state \in Reconcilable => row.seq > 0)'
  BY Zenon, <1>0 DEF KeepsRun, SameRun, RunRow, RowInv
<1>3. (row.state = "SUBMITTING" => ~row.client)'
  BY Zenon, <1>0 DEF KeepsRun, SameRun, RunRow, RowInv
<1>4. (row.job \in {0, row.seq})'
  BY Zenon, <1>0 DEF KeepsRun, SameRun, RunRow, RowInv
<1>5. (Present => recorded \subseteq 1 .. row.seq)'
  <2> SUFFICES ASSUME Present', NEW n \in recorded' PROVE n \in 1 .. row'.seq
    OBVIOUS
  <2>1. n \in Nat /\ n >= 1 /\ row'.seq \in Nat /\ row.seq \in Nat
    BY <1>0 DEF TypeOK, Row, Seqs
  <2>2. CASE n \in recorded
    BY <1>0, <2>1, <2>2 DEF KeepsRun, SameRun, RunRow, RowInv, Present
  <2>3. CASE n \notin recorded
    BY SMTT(20), <2>1, <2>3 DEF KeepsRun, Past
  <2>4. QED
    BY Zenon, <2>2, <2>3
<1>6. (Present => \A n \in Seqs : jobs[n] # "none" => n <= row.seq)'
  BY <1>0 DEF KeepsRun, SameRun, RunRow, RowInv, Alone, LaunchInv, Unsubmitted, Persisted, Present, TypeOK, Row, Seqs
<1>7. (~Present /\ ~deleted => recorded = {} /\ \A n \in Seqs : jobs[n] = "none")'
  BY Zenon, <1>0 DEF KeepsRun, SameRun, RunRow, RowInv, Alone, LaunchInv, Unsubmitted, Persisted, Present, Past
<1>8. (row.state \in Live => row.seq \notin recorded)'
  BY <1>0 DEF KeepsRun, SameRun, RunRow, RowInv, Past, Present, TypeOK, Row, Live
<1>9. QED
  BY Zenon, <1>1, <1>2, <1>3, <1>4, <1>5, <1>6, <1>7, <1>8 DEF RowInv

LEMMA OthersKept ==
  ASSUME SeqInv, KeepsRun, TypeOK', NEW p, Alone(p),
         NEW q \in Requests, q # p
  PROVE  RequestInv(q)'
<1>0. /\ TypeOK /\ RowInv /\ PastInv(q) /\ LaunchInv(q) /\ MergeInv(q)
      /\ pc'[q] = pc[q] /\ snap'[q] = snap[q] /\ cand'[q] = cand[q]
      /\ snap[q] \in Row /\ cand[q] \in Row
      /\ q \in fresh' => q \in fresh
      /\ lock = q => lock' = q
  <2>1. TypeOK /\ RowInv /\ PastInv(q) /\ LaunchInv(q) /\ MergeInv(q)
    BY Zenon DEF SeqInv
  <2>2. snap[q] \in Row /\ cand[q] \in Row
    BY Zenon, <2>1 DEF TypeOK
  <2>3. QED
    BY Zenon, <2>1, <2>2 DEF Alone
<1>1. PastInv(q)'
  BY Zenon, <1>0, PastKept DEF PastInv, Row
<1>2. LaunchInv(q)'
  <2>1. (pc[q] \in {"claim"} \cup Issued \cup Persisted => lock = q)'
    BY Zenon, <1>0 DEF LaunchInv, Unsubmitted
  <2>2. (pc[q] \in BeforePersist =>
           /\ cand[q].state = IF cand[q].client THEN "QUEUED" ELSE "SUBMITTING"
           /\ cand[q].job = 0)'
    BY Zenon, <1>0 DEF LaunchInv, Unsubmitted
  <2>3. (pc[q] \in Issued =>
           /\ row.state \notin Live /\ snap[q].state \in Terminal
           /\ cand[q].seq = snap[q].seq + 1
           /\ q \in fresh => Present /\ row.seq = snap[q].seq)'
    BY Zenon, <1>0 DEF LaunchInv, Unsubmitted, KeepsRun, SameRun, RunRow, Present
  <2>4. (pc[q] \in Persisted =>
           /\ Present => row.seq = cand[q].seq
           /\ ~Present => deleted
           /\ cand[q].seq > 0)'
    BY Zenon, <1>0 DEF LaunchInv, Unsubmitted, KeepsRun, SameRun, RunRow, Present
  <2>5. (Unsubmitted(q) =>
           /\ jobs[cand[q].seq] = "none"
           /\ Present => row.state \in {"SUBMITTING", "STOPPING"} \cup Terminal)'
    <3>1. SUFFICES ASSUME Unsubmitted(q)
                   PROVE  /\ jobs'[cand[q].seq] = "none"
                          /\ Present' => row'.state \in {"SUBMITTING", "STOPPING"} \cup Terminal
      BY Zenon, <1>0 DEF Unsubmitted
    <3>2. lock = q /\ jobs[cand[q].seq] = "none" /\ cand[q].seq \in Seqs
      BY <1>0, <3>1, ConstantsAssumption DEF LaunchInv, Unsubmitted, Persisted, Row, Seqs
    <3>3. jobs'[cand[q].seq] = "none"
      BY Zenon, <3>2 DEF Alone
    <3>4. Present' => row'.state \in {"SUBMITTING", "STOPPING"} \cup Terminal
      BY Zenon, <1>0, <3>1, <3>2
         DEF LaunchInv, Unsubmitted, Persisted, KeepsRun, SameRun, RunRow, Present, Started, Live, Terminal, Reconcilable,
             TypeOK, Row
    <3>5. QED
      BY Zenon, <3>3, <3>4
  <2>6. (pc[q] = "record" => jobs[cand[q].seq] # "none")'
    BY <1>0, ConstantsAssumption DEF LaunchInv, Unsubmitted, Persisted, KeepsRun, Row, Seqs
  <2>7. QED
    BY Zenon, <2>1, <2>2, <2>3, <2>4, <2>5, <2>6 DEF LaunchInv, Unsubmitted
<1>3. MergeInv(q)'
  <2>1. (pc[q] \in Stopping =>
           /\ snap[q].state # "ABSENT"
           /\ snap[q].state \in Reconcilable => snap[q].seq > 0
           /\ snap[q].state = "SUBMITTING" => ~snap[q].client
           /\ snap[q].job \in {0, snap[q].seq}
           /\ q \in fresh => Present /\ row.seq = snap[q].seq /\ row.client = snap[q].client)'
    BY Zenon, <1>0 DEF MergeInv, KeepsRun, SameRun, RunRow, Present
  <2>2. (pc[q] = "observe" => snap[q].state \in Reconcilable)'
    BY Zenon, <1>0 DEF MergeInv
  <2>3. pc[q] = "merge" /\ snap[q].state = "SUBMITTING" => snap[q].seq \in Seqs
    BY <1>0, ConstantsAssumption DEF MergeInv, Stopping, Reconcilable, Live, Row, Seqs
  <2>4. (pc[q] = "merge" =>
           /\ Follows(snap[q].state, cand[q].state)
           /\ cand[q].job \in {0, snap[q].seq}
           /\ snap[q].state = "SUBMITTING" /\ cand[q].state \in {"QUEUED", "STARTING", "READY"}
                => jobs[snap[q].seq] # "none")'
    BY Zenon, <1>0, <2>3 DEF MergeInv, KeepsRun, Follows
  <2>5. QED
    BY Zenon, <2>1, <2>2, <2>4 DEF MergeInv
<1>4. QED
  BY Zenon, <1>1, <1>2, <1>3 DEF RequestInv

(* A step that stays within a run keeps the invariant if the request that  *)
(* takes it keeps its own part.                                            *)
LEMMA KeepsSeqInv ==
  ASSUME SeqInv, KeepsRun, TypeOK', NEW p \in Requests, Alone(p), RequestInv(p)'
  PROVE  SeqInv'
<1>1. \A q \in Requests : RequestInv(q)'
  BY Zenon, OthersKept
<1>2. QED
  BY Zenon, <1>1, RowInvKept DEF SeqInv, RequestInv

LEMMA IdleInv ==
  ASSUME NEW p, pc'[p] \in {"idle", "linked", "register", "announce"}
  PROVE  RequestInv(p)'
BY Zenon DEF RequestInv, PastInv, LaunchInv, Unsubmitted, MergeInv, BeforePersist, Issued, Persisted, Stopping

LEMMA ReturnAlone ==
  ASSUME TypeOK, NEW p \in Requests, Return(p)
  PROVE  /\ RequestInv(p)'
         /\ \A q \in Requests \ {p} :
              pc'[q] = pc[q] /\ snap'[q] = snap[q] /\ cand'[q] = cand[q]
         /\ \A q \in Requests \ {p} : lock = q => lock' = q
<1>1. pc'[p] = "idle"
  BY Zenon DEF TypeOK, Return, Goto
<1>2. QED
  BY <1>1, IdleInv DEF TypeOK, Return, Goto

(* What a launch that has persisted its row must keep.                     *)
LEMMA PersistedRequestInv ==
  ASSUME NEW p, pc'[p] \in Persisted, lock' = p, cand'[p].seq > 0,
         Present' => row'.seq = cand'[p].seq,
         ~Present' => deleted',
         Unsubmitted(p)' =>
           /\ jobs'[cand'[p].seq] = "none"
           /\ Present' => row'.state \in {"SUBMITTING", "STOPPING"} \cup Terminal,
         pc'[p] = "record" => jobs'[cand'[p].seq] # "none"
  PROVE  RequestInv(p)'
<1>1. /\ pc'[p] \notin {"retire", "freeze", "release", "forget", "observe", "merge"}
      /\ pc'[p] \notin BeforePersist /\ pc'[p] \notin Issued /\ pc'[p] \notin Stopping
  BY Zenon DEF BeforePersist, Issued, Persisted, Stopping
<1>2. PastInv(p)'
  BY Zenon, <1>1 DEF PastInv
<1>3. MergeInv(p)'
  BY Zenon, <1>1 DEF MergeInv
<1>4. LaunchInv(p)'
  BY Zenon, <1>1 DEF LaunchInv, Unsubmitted
<1>5. QED
  BY Zenon, <1>2, <1>3, <1>4 DEF RequestInv

LEMMA SeqInvType == SeqInv => TypeInv
<1> SUFFICES ASSUME SeqInv, NEW p \in Requests
             PROVE  /\ pc[p] \in Issued => cand[p].seq \in Seqs
                    /\ pc[p] = "observe" => snap[p].state \in Reconcilable
  BY Zenon DEF SeqInv, TypeInv
<1>1. snap[p] \in Row /\ cand[p] \in Row /\ LaunchInv(p) /\ MergeInv(p)
  BY Zenon DEF SeqInv, TypeOK
<1>2. QED
  BY <1>1, ConstantsAssumption DEF LaunchInv, Unsubmitted, MergeInv, Row, Seqs

LEMMA QuietKeepsRun == UNCHANGED <<row, recorded, deleted, jobs>> => KeepsRun
BY Zenon DEF KeepsRun, RecordsOne

LEMMA IntentFields ==
  ASSUME NEW kind, NEW tun
  PROVE  /\ Intent(kind, tun).state = IF Intent(kind, tun).client THEN "QUEUED" ELSE "SUBMITTING"
         /\ Intent(kind, tun).job = 0
BY Zenon DEF Intent, NoRow

(* The launch, up to the row it persists.                                  *)
LEMMA BeforePersistInv ==
  ASSUME SeqInv, TypeOK', NEW p \in Launchers,
         \/ \E kind \in Kinds \ {"adopt"}, tun \in Modes : LaunchBegin(p, kind, tun)
         \/ LaunchRetire(p) \/ LaunchFreeze(p) \/ LaunchSerialize(p)
         \/ LaunchClaim(p) \/ LaunchIssue(p) \/ LaunchUnissue(p)
  PROVE  SeqInv' /\ KeepsRun
<1>0. /\ p \in Requests /\ TypeOK /\ Tables /\ RowInv /\ PastInv(p) /\ LaunchInv(p)
      /\ row \in Row /\ snap[p] \in Row /\ cand[p] \in Row
  BY Zenon DEF SeqInv, TypeOK, Tables, Requests
<1>1. CASE \E kind \in Kinds \ {"adopt"}, tun \in Modes : LaunchBegin(p, kind, tun)
  <2>1. PICK kind \in Kinds \ {"adopt"}, tun \in Modes : LaunchBegin(p, kind, tun)
    BY Zenon, <1>1
  <2>2. /\ pc'[p] = "retire" /\ snap'[p] = Finished(row) /\ cand'[p] = Intent(kind, tun)
        /\ row.state \in Terminal /\ UNCHANGED <<row, deleted>>
    BY Zenon, <1>0, <2>1 DEF LaunchBegin, Goto, Tables, store
  <2>3. KeepsRun /\ Alone(p)
    BY Zenon, <1>0, <2>1, QuietKeepsRun DEF LaunchBegin, Goto, Alone, Tables, store, outside
  <2>4. Past(row.seq)' /\ snap'[p].seq = row.seq /\ snap'[p].state = row.state
    BY Zenon, <1>0, <2>2 DEF Past, Present, Finished, NoRow, Live, Terminal, Row
  <2>5. /\ cand'[p].state = IF cand'[p].client THEN "QUEUED" ELSE "SUBMITTING"
        /\ cand'[p].job = 0
    BY ZenonT(40), <2>2, IntentFields
  <2>6. RequestInv(p)'
    BY Zenon, <2>2, <2>4, <2>5
       DEF RequestInv, PastInv, LaunchInv, Unsubmitted, MergeInv, BeforePersist, Issued, Persisted, Stopping
  <2>7. QED
    BY Zenon, <1>0, <2>3, <2>6, KeepsSeqInv
<1>2. CASE LaunchRetire(p)
  <2>0. pc[p] = "retire" /\ UNCHANGED <<row, recorded, deleted, jobs, fresh>>
    BY Zenon, <1>2 DEF LaunchRetire, store
  <2>1. KeepsRun
    BY Zenon, <2>0, QuietKeepsRun
  <2>2. CASE Return(p)
    BY ZenonT(40), <1>0, <2>0, <2>1, <2>2, ReturnAlone, KeepsSeqInv DEF Alone
  <2>3. CASE Goto(p, "freeze") /\ UNCHANGED <<snap, cand, lock>>
    <3>1. Alone(p)
      BY Zenon, <1>0, <2>0, <2>3 DEF Goto, Alone, Tables
    <3>2. pc'[p] = "freeze"
      BY Zenon, <1>0, <2>3 DEF Goto, Tables
    <3>3. RequestInv(p)'
      BY ZenonT(40), <1>0, <2>0, <2>3, <3>2
         DEF RequestInv, PastInv, Past, Present, LaunchInv, Unsubmitted, MergeInv, BeforePersist, Issued, Persisted, Stopping
    <3>4. QED
      BY Zenon, <1>0, <2>1, <3>1, <3>3, KeepsSeqInv
  <2>4. QED
    BY Zenon, <1>2, <2>2, <2>3 DEF LaunchRetire
<1>3. CASE LaunchFreeze(p)
  <2>1. KeepsRun
    <3>1. PICK n : n = snap[p].seq
      OBVIOUS
    <3>2. Past(n)' /\ UNCHANGED <<row, deleted, jobs>>
      BY ZenonT(40), <1>0, <1>3, <3>1 DEF LaunchFreeze, PastInv, Past, Present
    <3>3. recorded \subseteq recorded' /\ recorded' \subseteq recorded \cup {n}
      BY Zenon, <1>0, <1>3, <3>1, RecordRunAdds DEF LaunchFreeze, RecordOf
    <3>4. RecordsOne
      <4>1. CASE recorded' = recorded
        BY Zenon, <4>1 DEF RecordsOne
      <4>2. CASE recorded' # recorded
        <5>1. recorded' = recorded \cup {n} /\ n \in Seqs
          BY ZenonT(40), <3>3, <4>2 DEF TypeOK
        <5>2. QED
          BY Zenon, <3>2, <5>1 DEF RecordsOne
      <4>3. QED
        BY Zenon, <4>1, <4>2
    <3>5. QED
      BY Zenon, <3>2, <3>3, <3>4 DEF KeepsRun
  <2>2. CASE Return(p)
    BY ZenonT(40), <1>0, <1>3, <2>1, <2>2, ReturnAlone, KeepsSeqInv DEF LaunchFreeze, Alone
  <2>3. CASE Goto(p, "serialize") /\ snap' = [snap EXCEPT ![p] = NoRow] /\ UNCHANGED <<cand, lock>>
    <3>1. Alone(p)
      BY Zenon, <1>0, <1>3, <2>3 DEF LaunchFreeze, Goto, Alone, Tables
    <3>2. pc[p] = "freeze" /\ pc'[p] = "serialize"
      BY Zenon, <1>0, <1>3, <2>3 DEF LaunchFreeze, Goto, Tables
    <3>3. RequestInv(p)'
      BY ZenonT(40), <1>0, <2>3, <3>2
         DEF RequestInv, PastInv, LaunchInv, Unsubmitted, MergeInv, BeforePersist, Issued, Persisted, Stopping
    <3>4. QED
      BY Zenon, <1>0, <2>1, <3>1, <3>3, KeepsSeqInv
  <2>4. QED
    BY Zenon, <1>3, <2>2, <2>3 DEF LaunchFreeze
<1>4. CASE LaunchSerialize(p)
  <2>1. KeepsRun
    BY Zenon, <1>4, QuietKeepsRun DEF LaunchSerialize, store, outside
  <2>2. CASE Return(p)
    BY ZenonT(40), <1>0, <1>4, <2>1, <2>2, ReturnAlone, KeepsSeqInv DEF LaunchSerialize, Alone, outside
  <2>3. CASE Unlocked /\ lock' = p /\ Goto(p, "claim") /\ UNCHANGED <<snap, cand>>
    <3>1. Alone(p)
      BY Zenon, <1>0, <1>4, <2>3, ConstantsAssumption DEF LaunchSerialize, Unlocked, Goto, Alone, Tables, outside
    <3>2. pc[p] = "serialize" /\ pc'[p] = "claim"
      BY Zenon, <1>0, <1>4, <2>3 DEF LaunchSerialize, Goto, Tables
    <3>3. RequestInv(p)'
      BY Zenon, <1>0, <2>3, <3>2
         DEF RequestInv, PastInv, LaunchInv, Unsubmitted, MergeInv, BeforePersist, Issued, Persisted, Stopping
    <3>4. QED
      BY Zenon, <1>0, <2>1, <3>1, <3>3, KeepsSeqInv
  <2>4. QED
    BY Zenon, <1>4, <2>2, <2>3 DEF LaunchSerialize
<1>5. CASE LaunchClaim(p)
  <2>1. KeepsRun /\ pc[p] = "claim" /\ lock = p
    BY Zenon, <1>0, <1>5, QuietKeepsRun DEF LaunchClaim, LaunchInv, Unsubmitted, store, outside
  <2>2. CASE Return(p) /\ UNCHANGED fresh
    BY Zenon, <1>0, <1>5, <2>1, <2>2, ReturnAlone, KeepsSeqInv DEF LaunchClaim, Alone, outside
  <2>3. CASE /\ row.state \in Terminal
             /\ snap' = [snap EXCEPT ![p] = Finished(row)]
             /\ fresh' = fresh \cup {p}
             /\ cand' = [cand EXCEPT ![p].seq = NextSeq]
             /\ Goto(p, "issue")
             /\ UNCHANGED lock
    <3>1. Alone(p)
      BY Zenon, <1>0, <1>5, <2>3 DEF LaunchClaim, Goto, Alone, Tables, outside
    <3>2. /\ pc'[p] = "issue" /\ snap'[p].seq = row.seq /\ snap'[p].state = row.state /\ UNCHANGED row
          /\ cand'[p] = [cand[p] EXCEPT !.seq = NextSeq]
      BY Zenon, <1>0, <1>5, <2>3 DEF LaunchClaim, Goto, Tables, Finished, NoRow, store
    <3>3. /\ cand'[p].seq = row.seq + 1 /\ cand'[p].state = cand[p].state
          /\ cand'[p].client = cand[p].client /\ cand'[p].job = cand[p].job
      BY Zenon, <1>0, <3>2 DEF Row, NextSeq
    <3>4. row.state \notin Live /\ Present
      BY Zenon, <2>3 DEF Terminal, Live, Present
    <3>5. RequestInv(p)'
      BY Zenon, <1>0, <2>1, <2>3, <3>2, <3>3, <3>4
         DEF RequestInv, PastInv, LaunchInv, Unsubmitted, MergeInv, BeforePersist, Issued, Persisted, Stopping, Present
    <3>6. QED
      BY ZenonT(40), <1>0, <2>1, <3>1, <3>5, KeepsSeqInv
  <2>4. QED
    BY Zenon, <1>5, <2>2, <2>3 DEF LaunchClaim
<1>6. CASE LaunchIssue(p)
  <2>1. KeepsRun
    BY Zenon, <1>6, QuietKeepsRun DEF LaunchIssue, store
  <2>2. Alone(p)
    BY Zenon, <1>0, <1>6 DEF LaunchIssue, Goto, Alone, Tables
  <2>3. /\ pc[p] = "issue" /\ pc'[p] \in {"persist", "unissue"}
        /\ UNCHANGED <<row, snap, cand, fresh, lock>>
    BY Zenon, <1>0, <1>6 DEF LaunchIssue, Goto, Tables, store
  <2>4. RequestInv(p)'
    BY ZenonT(30), <1>0, <2>3
       DEF RequestInv, PastInv, LaunchInv, Unsubmitted, MergeInv, BeforePersist, Issued, Persisted, Stopping, Present
  <2>5. QED
    BY Zenon, <1>0, <2>1, <2>2, <2>4, KeepsSeqInv
<1>7. CASE LaunchUnissue(p)
  <2>1. KeepsRun /\ Return(p) /\ fresh' = fresh \ {p} /\ UNCHANGED jobs
    BY ZenonT(30), <1>7, QuietKeepsRun DEF LaunchUnissue, store
  <2>2. QED
    BY ZenonT(30), <1>0, <2>1, ReturnAlone, KeepsSeqInv DEF Alone
<1>8. QED
  BY Zenon, <1>1, <1>2, <1>3, <1>4, <1>5, <1>6, <1>7

-----------------------------------------------------------------------------
(* From the step that persists the row of the launch on.                   *)

(* The launch persists its row: the session moves on to the next run.  The *)
(* other launches have not claimed one, since this one holds the lock.     *)
LEMMA PersistInv ==
  ASSUME SeqInv, TypeOK', NEW p \in Launchers, LaunchPersist(p)
  PROVE  SeqInv' /\ (KeepsRun \/ NextRun)
<1>0. /\ p \in Requests /\ TypeOK /\ Tables /\ RowInv /\ LaunchInv(p)
      /\ row \in Row /\ snap[p] \in Row /\ cand[p] \in Row
  BY Zenon DEF SeqInv, TypeOK, Tables, Requests
<1>1. /\ pc[p] = "persist" /\ lock = p /\ row.state \notin Live
      /\ snap[p].state \in Terminal /\ cand[p].seq = snap[p].seq + 1 /\ cand[p].job = 0
      /\ cand[p].state = IF cand[p].client THEN "QUEUED" ELSE "SUBMITTING"
      /\ UNCHANGED <<recorded, deleted, jobs>>
  BY Zenon, <1>0 DEF LaunchPersist, LaunchInv, Unsubmitted, Issued, BeforePersist, outside
<1>2. CASE /\ Goto(p, "unissue") /\ fresh' = fresh \ {p}
           /\ UNCHANGED <<row, age, snap, cand, lock>>
  <2>1. KeepsRun
    BY Zenon, <1>1, <1>2, QuietKeepsRun
  <2>2. Alone(p) /\ pc'[p] = "unissue"
    BY Zenon, <1>0, <1>1, <1>2 DEF Goto, Alone, Tables
  <2>3. RequestInv(p)'
    BY Zenon, <1>0, <1>1, <1>2, <2>2 DEF RequestInv, PastInv, LaunchInv, Unsubmitted, MergeInv, BeforePersist, Issued, Persisted, Stopping, Present
  <2>4. QED
    BY Zenon, <1>0, <2>1, <2>2, <2>3, KeepsSeqInv
<1>3. CASE /\ p \in fresh /\ row.state = snap[p].state /\ row' = cand[p] /\ fresh' = {}
           /\ \/ Return(p) /\ cand[p].client
              \/ /\ Goto(p, "submit") /\ ~cand[p].client
                 /\ snap' = [snap EXCEPT ![p] = NoRow] /\ UNCHANGED <<cand, lock>>
  <2>1. Present /\ row.seq = snap[p].seq /\ row'.seq = row.seq + 1 /\ row.seq \in Nat
    BY <1>0, <1>1, <1>3 DEF LaunchInv, Unsubmitted, Issued, Row
  <2>2. Present' /\ row'.state \in Live /\ row'.job = 0 /\ ~(row'.state = "SUBMITTING" /\ row'.client)
    BY Zenon, <1>0, <1>1, <1>3 DEF Present, Live
  <2>3. \A n \in Seqs : jobs[n] # "none" => n <= row.seq
    BY Zenon, <1>0, <2>1 DEF RowInv
  <2>4. recorded \subseteq 1 .. row.seq
    BY Zenon, <1>0, <2>1 DEF RowInv
  <2>5. RowInv'
    <3>1. (Present => recorded \subseteq 1 .. row.seq)' /\ (row.state \in Live => row.seq \notin recorded)'
      BY <1>1, <2>1, <2>4
    <3>2. (Present => \A n \in Seqs : jobs[n] # "none" => n <= row.seq)'
      BY <1>1, <2>1, <2>3 DEF Seqs
    <3>3. QED
      BY SMTT(20), <2>1, <2>2, <3>1, <3>2 DEF RowInv
  <2>6. ASSUME NEW q \in Requests, q # p
        PROVE  RequestInv(q)'
    <3>1. /\ pc'[q] = pc[q] /\ snap'[q] = snap[q] /\ cand'[q] = cand[q] /\ q \notin fresh'
          /\ PastInv(q) /\ LaunchInv(q) /\ MergeInv(q) /\ snap[q] \in Row
      BY Zenon, <1>0, <1>3, <2>6 DEF Return, Goto, Tables, SeqInv
    <3>2. pc[q] \notin {"claim"} \cup Issued \cup Persisted
      BY Zenon, <1>1, <2>6, <3>1 DEF LaunchInv, Unsubmitted
    <3>3. PastInv(q)'
      BY <2>1, <2>2, <3>1 DEF PastInv, Past, Present, Row
    <3>4. LaunchInv(q)'
      BY Zenon, <3>1, <3>2 DEF LaunchInv, Unsubmitted, Persisted
    <3>5. MergeInv(q)'
      BY Zenon, <1>1, <3>1 DEF MergeInv, Follows
    <3>6. QED
      BY Zenon, <3>3, <3>4, <3>5 DEF RequestInv
  <2>7. RequestInv(p)'
    <3>1. CASE Return(p)
      BY Zenon, <1>0, <3>1, ReturnAlone
    <3>2. CASE /\ Goto(p, "submit") /\ ~cand[p].client
               /\ snap' = [snap EXCEPT ![p] = NoRow] /\ UNCHANGED <<cand, lock>>
      <4>1. pc'[p] = "submit" /\ cand'[p] = cand[p] /\ lock' = p /\ row' = cand'[p]
        BY Zenon, <1>0, <1>1, <1>3, <3>2 DEF Goto, Tables
      <4>2. cand[p].seq > 0 /\ cand[p].seq \in Seqs /\ cand[p].seq > row.seq
        BY SMTT(20), <1>0, <1>1, <2>1, ConstantsAssumption DEF Row, Seqs
      <4>3. jobs'[cand[p].seq] = "none"
        BY <1>1, <2>1, <2>3, <4>2
      <4>4. (Present => row.state \in {"SUBMITTING", "STOPPING"} \cup Terminal)'
        BY Zenon, <1>1, <3>2, <4>1
      <4>5. QED
        BY Zenon, <2>2, <4>1, <4>2, <4>3, <4>4 DEF RequestInv, PastInv, LaunchInv, Unsubmitted, MergeInv, BeforePersist, Issued, Persisted, Stopping
    <3>3. QED
      BY Zenon, <1>3, <3>1, <3>2
  <2>8. NextRun
    BY Zenon, <1>1, <1>3, <2>1, <2>2 DEF NextRun
  <2>9. QED
    BY Zenon, <2>5, <2>6, <2>7, <2>8 DEF SeqInv, RequestInv
<1>4. QED
  BY Zenon, <1>0, <1>2, <1>3 DEF LaunchPersist, Save

LEMMA ScancelAlone ==
  ASSUME TypeOK, NEW n, NEW done, Scancel(n, done), UNCHANGED <<row, recorded, deleted>>
  PROVE  KeepsRun /\ \A m \in Seqs : jobs'[m] # "none" => jobs[m] # "none"
BY Zenon, ScancelType DEF KeepsRun, RecordsOne

(* The launch, once its row is persisted: it holds the lock, so the run it *)
(* submits is still the session's latest.                                  *)
LEMMA PersistedInv ==
  ASSUME SeqInv, TypeOK', NEW p \in Launchers,
         \/ LaunchSubmit(p) \/ LaunchRecord(p) \/ LaunchUnsaved(p)
         \/ LaunchCancel(p) \/ LaunchCancelled(p) \/ LaunchAbandon(p) \/ LaunchAbandoned(p)
  PROVE  SeqInv' /\ KeepsRun
<1>0. /\ p \in Requests /\ TypeOK /\ Tables /\ RowInv /\ LaunchInv(p)
      /\ row \in Row /\ snap[p] \in Row /\ cand[p] \in Row
  BY Zenon DEF SeqInv, TypeOK, Tables, Requests
<1>1. pc[p] \in Persisted
  BY ZenonT(40) DEF Persisted, LaunchSubmit, LaunchRecord, LaunchUnsaved, LaunchCancel, LaunchCancelled,
         LaunchAbandon, LaunchAbandoned
<1>2. /\ lock = p /\ cand[p].seq \in Seqs /\ cand[p].seq > 0
      /\ Present => row.seq = cand[p].seq
      /\ ~Present => deleted /\ row = NoRow
  <2>1. /\ lock = p /\ cand[p].seq > 0
        /\ Present => row.seq = cand[p].seq
        /\ ~Present => deleted
    BY Zenon, <1>0, <1>1 DEF LaunchInv, Unsubmitted
  <2>2. cand[p].seq \in Seqs
    <3>1. cand[p].seq \in 0 .. MaxSeq
      BY ZenonT(30), <1>0 DEF Row
    <3>2. QED
      BY <2>1, <3>1, ConstantsAssumption DEF Seqs
  <2>3. ~Present => row = NoRow
    BY ZenonT(30), <1>0 DEF RowInv
  <2>4. QED
    BY Zenon, <2>1, <2>2, <2>3
<1>3. CASE LaunchSubmit(p)
  <2>1. /\ pc[p] = "submit" /\ UNCHANGED <<row, recorded, deleted, fresh>>
        /\ \/ jobs' = [jobs EXCEPT ![cand[p].seq] = "pending"]
           \/ UNCHANGED jobs
    BY Zenon, <1>3 DEF LaunchSubmit, store
  <2>2. KeepsRun
    BY Zenon, <1>0, <1>2, <2>1 DEF KeepsRun, RecordsOne, Tables
  <2>3. \A n \in Seqs : jobs'[n] # "none" /\ jobs[n] = "none" => n = cand[p].seq
    BY Zenon, <1>0, <1>2, <2>1 DEF Tables
  <2>4. CASE Return(p)
    BY ZenonT(30), <1>0, <1>2, <2>1, <2>2, <2>3, <2>4, ReturnAlone, KeepsSeqInv DEF Alone
  <2>5. CASE \/ Goto(p, "record") /\ jobs' = [jobs EXCEPT ![cand[p].seq] = "pending"] /\ UNCHANGED <<snap, cand, lock>>
             \/ Goto(p, "abandon") /\ (UNCHANGED jobs \/ "misjudged" \in Faults) /\ UNCHANGED <<snap, cand, lock>>
    <3>1. Alone(p)
      BY Zenon, <1>0, <1>2, <2>1, <2>3, <2>5 DEF Alone, Goto, Tables
    <3>2. RequestInv(p)'
      <4>1. \/ pc'[p] = "record" /\ jobs'[cand[p].seq] # "none"
            \/ pc'[p] = "abandon" /\ (UNCHANGED jobs \/ "misjudged" \in Faults)
        BY Zenon, <1>0, <1>2, <2>5 DEF Goto, Tables
      <4>2. /\ jobs[cand[p].seq] = "none"
            /\ Present => row.state \in {"SUBMITTING", "STOPPING"} \cup Terminal
        BY Zenon, <1>0, <2>1 DEF LaunchInv, Unsubmitted
      <4>3. lock' = p /\ cand' = cand /\ (Present' <=> Present) /\ pc'[p] \in Persisted
        BY Zenon, <1>2, <2>1, <2>5, <4>1 DEF Present, Persisted
      <4>4. QED
        BY Zenon, <1>2, <2>1, <4>1, <4>2, <4>3, PersistedRequestInv DEF Unsubmitted
    <3>3. QED
      BY Zenon, <1>0, <2>2, <3>1, <3>2, KeepsSeqInv
  <2>6. QED
    BY ZenonT(30), <1>3, <2>4, <2>5 DEF LaunchSubmit
<1>4. CASE LaunchRecord(p)
  <2> DEFINE queued == row.state \in {"SUBMITTING", "QUEUED"}
             r == [row EXCEPT !.job = cand[p].seq, !.state = IF queued THEN "QUEUED" ELSE row.state]
  <2>1. pc[p] = "record" /\ UNCHANGED <<recorded, deleted, jobs>>
    BY Zenon, <1>4 DEF LaunchRecord, outside
  <2>2. \/ row # NoRow /\ row' = r /\ fresh' = {}
        \/ UNCHANGED <<row, fresh>>
    BY Zenon, <1>4 DEF LaunchRecord, Save
  <2>3. jobs[cand[p].seq] # "none"
    BY ZenonT(30), <1>0, <2>1 DEF LaunchInv, Unsubmitted
  <2>4. row # NoRow => Present
    BY Zenon, <1>2
  <2>5. UNCHANGED row \/ SameRun
    <3>1. /\ r.seq = row.seq /\ r.client = row.client /\ r.job = cand[p].seq
          /\ r.state = IF queued THEN "QUEUED" ELSE row.state
      BY Zenon, <1>0 DEF Row
    <3> HIDE DEF r
    <3>2. Present => row.seq > 0 /\ row.seq = cand[p].seq /\ jobs[row.seq] # "none"
      BY Zenon, <1>2, <2>3
    <3>3. Present => r.state # "ABSENT" /\ (r.state \in Live => row.state \in Live)
                       /\ (r.state = "SUBMITTING" => row.state = "SUBMITTING")
      BY Zenon, <3>1 DEF Present, Live
    <3>4. Present => RunRow(r)
      BY Zenon, <3>1, <3>2, <3>3 DEF RunRow
    <3>5. QED
      BY Zenon, <2>2, <2>4, <3>4 DEF SameRun
  <2>6. KeepsRun
    BY Zenon, <2>1, <2>5 DEF KeepsRun, RecordsOne
  <2>7. CASE Return(p)
    BY Zenon, <1>0, <2>1, <2>2, <2>6, <2>7, ReturnAlone, KeepsSeqInv DEF Alone
  <2>8. CASE \E step \in {"cancel", "unsaved"} : Goto(p, step) /\ UNCHANGED <<snap, cand, lock>>
    <3>1. Alone(p) /\ pc'[p] \in {"cancel", "unsaved"}
      BY Zenon, <1>0, <2>1, <2>2, <2>8 DEF Alone, Goto, Tables
    <3>2. RequestInv(p)'
      <4>1. (Present' <=> Present) /\ (Present => row'.seq = row.seq)
        BY Zenon, <2>5 DEF SameRun, RunRow, Present
      <4>2. /\ lock' = p /\ cand'[p].seq > 0
            /\ Present' => row'.seq = cand'[p].seq
            /\ ~Present' => deleted'
        BY Zenon, <1>2, <2>1, <2>8, <4>1
      <4>3. /\ pc'[p] \in Persisted
            /\ pc'[p] \notin {"submit", "record", "abandon", "abandoned"}
        BY Zenon, <3>1 DEF Persisted
      <4>4. QED
        BY Zenon, <4>2, <4>3, PersistedRequestInv DEF Unsubmitted
    <3>3. QED
      BY Zenon, <1>0, <2>6, <3>1, <3>2, KeepsSeqInv
  <2>9. QED
    BY Zenon, <1>4, <2>7, <2>8 DEF LaunchRecord
<1>5. CASE LaunchUnsaved(p)
  <2>1. /\ Return(p) /\ UNCHANGED <<row, recorded, deleted, fresh>>
        /\ \E done \in Outcomes("cancel") : Scancel(cand[p].seq, done)
    BY ZenonT(30), <1>5 DEF LaunchUnsaved, store
  <2>2. QED
    BY ZenonT(30), <1>0, <2>1, ScancelAlone, ReturnAlone, KeepsSeqInv DEF Alone
<1>6. CASE LaunchCancel(p)
  <2>1. PICK done \in Outcomes("cancel") :
          Scancel(cand[p].seq, done) /\ cand' = [cand EXCEPT ![p].err = ~done]
    BY ZenonT(30), <1>6 DEF LaunchCancel
  <2>2. Goto(p, "cancelled") /\ UNCHANGED <<row, recorded, deleted, snap, fresh, lock>>
    BY Zenon, <1>6 DEF LaunchCancel, store
  <2>3. Alone(p) /\ KeepsRun
    BY Zenon, <1>0, <2>1, <2>2, ScancelAlone DEF Alone, Goto, Tables
  <2>4. pc'[p] = "cancelled" /\ cand'[p].seq = cand[p].seq
    BY Zenon, <1>0, <2>1, <2>2 DEF Goto, Tables, Row
  <2>5. RequestInv(p)'
    <3>1. /\ pc'[p] \in Persisted \ {"submit", "record", "abandon", "abandoned"}
          /\ lock' = p /\ cand'[p].seq > 0
      BY ZenonT(40), <1>2, <2>2, <2>4 DEF Persisted
    <3>2. (Present' => row'.seq = cand'[p].seq) /\ (~Present' => deleted')
      BY Zenon, <1>2, <2>2, <2>4 DEF Present
    <3>3. QED
      BY Zenon, <3>1, <3>2, PersistedRequestInv DEF Unsubmitted
  <2>6. QED
    BY Zenon, <1>0, <2>3, <2>5, KeepsSeqInv
<1>7. CASE LaunchCancelled(p)
  <2> DEFINE r == [row EXCEPT !.err = cand[p].err]
  <2>1. /\ (row # NoRow /\ row' = r /\ fresh' = {}) \/ (row' = row /\ fresh' \subseteq fresh)
        /\ Return(p)
        /\ UNCHANGED <<recorded, deleted, jobs>>
    BY Zenon, <1>7 DEF LaunchCancelled, Save, outside
  <2>2. r.seq = row.seq /\ r.client = row.client /\ r.job = row.job /\ r.state = row.state
    BY Zenon, <1>0 DEF Row
  <2> HIDE DEF r
  <2>3. KeepsRun
    BY Zenon, <1>0, <1>2, <2>1, <2>2 DEF KeepsRun, RecordsOne, SameRun, RunRow, Present, RowInv, Started
  <2>4. QED
    BY Zenon, <1>0, <2>1, <2>3, ReturnAlone, KeepsSeqInv DEF Alone
<1>8. CASE LaunchAbandon(p)
  <2>1. /\ pc[p] = "abandon" /\ Goto(p, "abandoned")
        /\ UNCHANGED <<row, recorded, deleted, jobs, snap, fresh, lock>>
        /\ \E e : cand' = [cand EXCEPT ![p].err = e]
    BY Zenon, <1>8 DEF LaunchAbandon, store
  <2>2. Alone(p) /\ KeepsRun
    BY Zenon, <1>0, <2>1, QuietKeepsRun DEF Alone, Goto, Tables
  <2>3. pc'[p] = "abandoned" /\ cand'[p].seq = cand[p].seq
    BY <1>0, <2>1 DEF Goto, Tables, Row
  <2>4. RequestInv(p)'
    <3>1. "misjudged" \notin Faults =>
            /\ jobs[cand[p].seq] = "none"
            /\ Present => row.state \in {"SUBMITTING", "STOPPING"} \cup Terminal
      BY Zenon, <1>0, <2>1 DEF LaunchInv, Unsubmitted
    <3>2. pc'[p] \in Persisted \ {"submit", "record"} /\ lock' = p /\ cand'[p].seq > 0
      BY Zenon, <1>2, <2>1, <2>3 DEF Persisted
    <3>3. (Present' => row'.seq = cand'[p].seq) /\ (~Present' => deleted') /\ (Present' <=> Present)
      BY Zenon, <1>2, <2>1, <2>3 DEF Present
    <3>4. QED
      BY Zenon, <2>1, <2>3, <3>1, <3>2, <3>3, PersistedRequestInv DEF Unsubmitted
  <2>5. QED
    BY Zenon, <1>0, <2>2, <2>4, KeepsSeqInv
<1>9. CASE LaunchAbandoned(p)
  <2> DEFINE final == IF row.state = "SUBMITTING" THEN "FAILED" ELSE "STOPPED"
             r == [row EXCEPT !.state = final, !.tun = FALSE, !.err = cand[p].err]
  <2>1. /\ \/ row.state \in {"SUBMITTING", "STOPPING"} /\ row' = r /\ fresh' = {}
           \/ row' = row /\ fresh' \subseteq fresh
        /\ Return(p)
        /\ UNCHANGED <<recorded, deleted, jobs>>
    BY Zenon, <1>9 DEF LaunchAbandoned, Save, outside
  <2>2. r.seq = row.seq /\ r.client = row.client /\ r.job = row.job /\ r.state \in Terminal
    BY Zenon, <1>0 DEF Row, Terminal
  <2> HIDE DEF r
  <2>3. KeepsRun
    BY Zenon, <1>0, <1>2, <2>1, <2>2
       DEF KeepsRun, RecordsOne, SameRun, RunRow, Present, RowInv, Started, Terminal, Live, Reconcilable
  <2>4. QED
    BY Zenon, <1>0, <2>1, <2>3, ReturnAlone, KeepsSeqInv DEF Alone
<1>10. QED
  BY Zenon, <1>3, <1>4, <1>5, <1>6, <1>7, <1>8, <1>9

-----------------------------------------------------------------------------
(* What is merged is a row of the same run, and stays one when the freeze  *)
(* puts it back to STOPPING.                                               *)
LEMMA MergedRun ==
  ASSUME SeqInv, NEW p \in Requests, pc[p] = "merge", Present, NEW reworded
  PROVE  RunRow(Merged(p, reworded))
<1>0. row \in Row /\ cand[p] \in Row /\ RowInv /\ MergeInv(p)
  BY Zenon DEF SeqInv, TypeOK
<1>1. RunRow(row)
  BY Zenon, <1>0 DEF RunRow, RowInv, Present, Started
<1>2. CASE MergeApplies(p, reworded)
  <2> DEFINE r == Merged(p, reworded)
  <2>1. /\ r.seq = row.seq /\ r.client = row.client
        /\ r.state = cand[p].state /\ r.job = cand[p].job
    BY Zenon, <1>0, <1>2 DEF Merged, Row
  <2>2. row.state = snap[p].state /\ row.seq = snap[p].seq
    BY Zenon, <1>0, <1>2 DEF MergeApplies, SnapshotCurrent, MergeInv, Stopping
  <2>3. Follows(row.state, r.state) /\ r.job \in {0, row.seq}
    BY Zenon, <1>0, <2>1, <2>2 DEF MergeInv
  <2>4. r.state \in Started /\ row.state = "SUBMITTING" => jobs[row.seq] # "none"
    BY Zenon, <1>0, <2>1, <2>2 DEF MergeInv, Started
  <2>5. row.state \in Reconcilable \cup Terminal
    BY Zenon, <1>0 DEF Row, Present
  <2> HIDE DEF r
  <2>6. RunRow(r)
    BY Zenon, <1>0, <2>1, <2>3, <2>4, <2>5
       DEF RunRow, RowInv, Follows, Present, Reconcilable, Live, Terminal
  <2>7. QED
    BY Zenon, <2>6 DEF r
<1>3. QED
  BY Zenon, <1>1, <1>2 DEF Merged

LEMMA FreezeKeeps ==
  ASSUME SeqInv, NEW p \in Requests, Present, NEW r \in Row, RunRow(r),
         NEW stamped \in BOOLEAN, NEW removed \in BOOLEAN, NEW saved \in BOOLEAN,
         FreezeAndSave(p, r, stamped, removed, saved), UNCHANGED <<deleted, jobs>>
  PROVE  KeepsRun /\ fresh' \subseteq fresh
<1>0. row \in Row /\ RowInv
  BY Zenon DEF SeqInv, TypeOK
<1>1. RunRow(Frozen(r, removed))
  <2>1. CASE CleanupFailed(r, removed)
    <3> DEFINE f == Frozen(r, removed)
    <3>1. /\ f.state = "STOPPING" /\ f.seq = r.seq /\ f.client = r.client /\ f.job = r.job
          /\ r.seq # 0
      BY Zenon, <2>1 DEF Frozen, CleanupFailed, Row
    <3> HIDE DEF f
    <3>2. RunRow(f)
      BY <1>0, <3>1 DEF RunRow, Started, Live, Reconcilable, Row
    <3>3. QED
      BY Zenon, <3>2 DEF f
  <2>2. CASE ~CleanupFailed(r, removed)
    BY Zenon, <2>2 DEF Frozen
  <2>3. QED
    BY Zenon, <2>1, <2>2
<1>2. row' = row \/ row' = Frozen(r, removed)
  BY Zenon DEF FreezeAndSave, Save
<1>3. UNCHANGED row \/ SameRun
  BY Zenon, <1>1, <1>2 DEF SameRun
<1>4. fresh' \subseteq fresh
  BY Zenon DEF FreezeAndSave, Save
<1>5. CASE recorded' = recorded
  BY Zenon, <1>3, <1>4, <1>5 DEF KeepsRun, RecordsOne
<1>6. CASE recorded' # recorded
  <2>1. /\ r.state \in Terminal /\ removed /\ saved /\ r.seq # 0
        /\ recorded' = recorded \cup {r.seq}
    BY Zenon, <1>6, RecordRunAdds DEF FreezeAndSave, RecordOf, SeqInv
  <2>2. row' = r
    BY Zenon, <2>1 DEF FreezeAndSave, Save, Frozen, CleanupFailed
  <2>3. PICK n : n = r.seq
    OBVIOUS
  <2>4. Past(n)'
    BY Zenon, <2>1, <2>2, <2>3 DEF Past, Present, Terminal, Live
  <2>5. RecordsOne
    <3>1. n \in Seqs /\ n = row.seq /\ row'.state \in Terminal
      BY <2>1, <2>2, <2>3, ConstantsAssumption DEF RunRow, Row, Seqs
    <3>2. QED
      BY Zenon, <2>1, <2>3, <3>1 DEF RecordsOne
  <2>6. QED
    BY Zenon, <1>3, <1>4, <2>1, <2>3, <2>4, <2>5 DEF KeepsRun
<1>7. QED
  BY Zenon, <1>5, <1>6

(* A pass over the scheduler: what it derives may be merged.               *)
LEMMA ObserveInv ==
  ASSUME SeqInv, TypeOK', NEW p \in Requests, ReconcileSnapshots(p)
  PROVE  SeqInv' /\ KeepsRun
<1>0. /\ TypeOK /\ Tables /\ RowInv /\ MergeInv(p) /\ snap[p] \in Row
      /\ pc[p] = "observe" /\ snap[p].state \in Reconcilable
  BY Zenon DEF SeqInv, TypeOK, Tables, MergeInv, ReconcileSnapshots
<1>1. PICK c : /\ cand' = [cand EXCEPT ![p] = c]
               /\ Candidate(snap[p], c)
               /\ c.state \in {"QUEUED", "STARTING", "READY"} /\ snap[p].state = "SUBMITTING"
                    => snap[p].client \/ jobs[Target(snap[p])] # "none"
  BY Zenon, <1>0, ObservedCandidate
<1>2. /\ Goto(p, "merge")
      /\ UNCHANGED <<row, recorded, deleted, snap, fresh, lock>>
  BY Zenon DEF ReconcileSnapshots, store
<1>3. KeepsRun /\ \A m \in Seqs : jobs'[m] # "none" => jobs[m] # "none"
  <2>1. CASE UNCHANGED jobs
    BY Zenon, <1>2, <2>1 DEF KeepsRun, RecordsOne
  <2>2. CASE \E cancelled : Scancel(Target(snap[p]), cancelled)
    BY Zenon, <1>0, <1>2, <2>2, ScancelAlone
  <2>3. QED
    BY Zenon, <2>1, <2>2 DEF ReconcileSnapshots
<1>4. Alone(p)
  BY Zenon, <1>0, <1>1, <1>2, <1>3 DEF Alone, Goto, Tables
<1>5. Target(snap[p]) = snap[p].seq /\ snap[p].seq \in Seqs
  BY <1>0, ConstantsAssumption DEF Target, MergeInv, Stopping, Row, Seqs
<1>6. RequestInv(p)'
  <2>1. pc'[p] = "merge" /\ cand'[p] = c /\ snap'[p] = snap[p]
    BY Zenon, <1>0, <1>1, <1>2 DEF Goto, Tables
  <2>2. Follows(snap[p].state, c.state) /\ c.job \in {0, snap[p].seq}
    BY Zenon, <1>0, <1>1, <1>5 DEF Candidate, MergeInv, Stopping
  <2>3. snap[p].state = "SUBMITTING" /\ c.state \in {"QUEUED", "STARTING", "READY"}
          => jobs'[snap[p].seq] # "none"
    BY Zenon, <1>0, <1>1, <1>3, <1>5 DEF MergeInv, Stopping, KeepsRun
  <2>4. MergeInv(p)'
    BY <1>0, <1>2, <2>1, <2>2, <2>3 DEF MergeInv, Stopping, Present, Follows
  <2>5. QED
    BY Zenon, <2>1, <2>4 DEF RequestInv, PastInv, LaunchInv, Unsubmitted, BeforePersist, Issued, Persisted
<1>7. QED
  BY Zenon, <1>3, <1>4, <1>6, KeepsSeqInv

LEMMA ReconcileInv ==
  ASSUME SeqInv, TypeOK', Reconcile
  PROVE  SeqInv' /\ KeepsRun
<1> DEFINE p == Reconciler
<1>0. p \in Requests /\ TypeOK /\ Tables /\ RowInv /\ row \in Row
  BY Zenon DEF Requests, SeqInv, TypeOK, Tables
<1>1. CASE ReconcileBegin
  <2> HIDE DEF p
  <2>1. /\ row.state \in Reconcilable /\ Read(p) /\ Goto(p, "observe")
        /\ UNCHANGED <<row, recorded, deleted, jobs, cand, lock>>
    BY Zenon, <1>1 DEF ReconcileBegin, p, store, outside
  <2>2. KeepsRun /\ Alone(p) /\ pc'[p] = "observe" /\ snap'[p] = row
    BY Zenon, <1>0, <2>1, QuietKeepsRun DEF Alone, Read, Goto, Tables
  <2>3. RequestInv(p)'
    BY Zenon, <1>0, <2>1, <2>2 DEF RequestInv, PastInv, LaunchInv, Unsubmitted, MergeInv, BeforePersist, Issued, Persisted, Stopping, Present, RowInv, Reconcilable, Live
  <2>4. QED
    BY Zenon, <1>0, <2>2, <2>3, KeepsSeqInv
<1>2. CASE ReconcileMerge
  <2> HIDE DEF p
  <2>1. pc[p] = "merge" /\ Return(p) /\ UNCHANGED <<deleted, jobs>>
    BY Zenon, <1>2 DEF ReconcileMerge, p
  <2>2. KeepsRun /\ fresh' \subseteq fresh
    <3>1. PICK reworded \in BOOLEAN :
            \/ /\ MergeApplies(p, reworded)
               /\ \E removed \in BOOLEAN, saved \in BOOLEAN :
                    FreezeAndSave(p, Merged(p, reworded), TRUE, removed, saved)
            \/ fresh' = fresh \ {p} /\ UNCHANGED <<row, age, runs, recorded, caps>>
      BY Zenon, <1>2, OutcomesBoolean DEF ReconcileMerge, Rewordings, p
    <3>2. CASE fresh' = fresh \ {p} /\ UNCHANGED <<row, age, runs, recorded, caps>>
      BY Zenon, <2>1, <3>2, QuietKeepsRun
    <3>3. CASE /\ MergeApplies(p, reworded)
               /\ \E removed \in BOOLEAN, saved \in BOOLEAN :
                    FreezeAndSave(p, Merged(p, reworded), TRUE, removed, saved)
      <4>1. Present
        BY Zenon, <1>0, <3>3 DEF MergeApplies, SnapshotCurrent, RowInv
      <4>2. Merged(p, reworded) \in Row /\ RunRow(Merged(p, reworded))
        BY Zenon, <1>0, <2>1, <4>1, MergedType, MergedRun
      <4>3. QED
        BY Zenon, <1>0, <2>1, <3>3, <4>1, <4>2, FreezeKeeps
    <3>4. QED
      BY Zenon, <3>1, <3>2, <3>3
  <2>3. QED
    BY Zenon, <1>0, <2>1, <2>2, ReturnAlone, KeepsSeqInv DEF Alone
<1>3. QED
  BY Zenon, <1>0, <1>1, <1>2, ObserveInv DEF Reconcile

LEMMA StopInv ==
  ASSUME SeqInv, TypeOK', NEW p \in Stoppers, Stop(p)
  PROVE  SeqInv' /\ KeepsRun
<1>0. /\ p \in Requests /\ TypeOK /\ Tables /\ RowInv /\ PastInv(p) /\ MergeInv(p)
      /\ row \in Row /\ snap[p] \in Row
  BY Zenon DEF Requests, SeqInv, TypeOK, Tables
<1>1. CASE StopMark(p)
  <2> DEFINE r == [row EXCEPT !.state = "STOPPING", !.err = FALSE]
  <2>1. /\ row # NoRow /\ Goto(p, "release") /\ UNCHANGED <<recorded, deleted, jobs, cand, lock>>
        /\ \/ row.state \in Terminal /\ Read(p) /\ UNCHANGED row
           \/ /\ row.state \notin Terminal /\ row' = r
              /\ snap' = [snap EXCEPT ![p] = row'] /\ fresh' = {p}
    BY Zenon, <1>1 DEF StopMark, outside
  <2>2. Present /\ row.state \in Reconcilable \cup Terminal
    BY Zenon, <1>0, <2>1 DEF RowInv, Present, Row
  <2>3. r.state = "STOPPING" /\ r.seq = row.seq /\ r.client = row.client /\ r.job = row.job
    BY Zenon, <1>0 DEF Row
  <2> HIDE DEF r
  <2>4. UNCHANGED row \/ SameRun
    BY Zenon, <1>0, <2>1, <2>2, <2>3 DEF SameRun, RunRow, RowInv, Started, Live, Reconcilable, Terminal
  <2>5. KeepsRun
    BY Zenon, <2>1, <2>4 DEF KeepsRun, RecordsOne
  <2>6. Alone(p) /\ pc'[p] = "release" /\ snap'[p] = row'
    BY Zenon, <1>0, <2>1 DEF Alone, Read, Goto, Tables
  <2>7. Present' /\ row'.state \notin Live
    BY Zenon, <2>1, <2>2, <2>3 DEF Present, Live, Terminal
  <2>8. RowInv'
    BY Zenon, <1>0, <2>5, <2>6, RowInvKept
  <2>9. RequestInv(p)'
    BY Zenon, <2>6, <2>7, <2>8 DEF RequestInv, PastInv, LaunchInv, Unsubmitted, MergeInv, BeforePersist, Issued, Persisted, Stopping, Past, Present, RowInv
  <2>10. QED
    BY Zenon, <1>0, <2>5, <2>6, <2>9, KeepsSeqInv
<1>2. CASE StopRelease(p)
  <2>1. /\ pc[p] = "release" /\ Goto(p, "unlink")
        /\ UNCHANGED <<row, recorded, deleted, jobs, snap, cand, fresh, lock>>
    BY Zenon, <1>2 DEF StopRelease, store
  <2>2. KeepsRun /\ Alone(p) /\ pc'[p] = "unlink"
    BY Zenon, <1>0, <2>1, QuietKeepsRun DEF Alone, Goto, Tables
  <2>3. RequestInv(p)'
    BY Zenon, <1>0, <2>1, <2>2 DEF RequestInv, PastInv, LaunchInv, Unsubmitted, MergeInv, BeforePersist, Issued, Persisted, Stopping, Present
  <2>4. QED
    BY Zenon, <1>0, <2>2, <2>3, KeepsSeqInv
<1>3. CASE StopUnlink(p)
  <2>1. /\ pc[p] = "unlink" /\ cand' = [cand EXCEPT ![p] = snap[p]]
        /\ Goto(p, IF snap[p].state \in Reconcilable THEN "observe" ELSE "merge")
        /\ UNCHANGED <<row, recorded, deleted, jobs, snap, fresh, lock>>
    BY Zenon, <1>3 DEF StopUnlink, store, outside
  <2>2. /\ KeepsRun /\ Alone(p) /\ cand'[p] = snap[p] /\ snap'[p] = snap[p]
        /\ pc'[p] = IF snap[p].state \in Reconcilable THEN "observe" ELSE "merge"
    BY Zenon, <1>0, <2>1, QuietKeepsRun DEF Alone, Goto, Tables
  <2>3. snap[p].state \notin Reconcilable => snap[p].state \in Terminal
    BY Zenon, <1>0, <2>1 DEF MergeInv, Stopping, Row
  <2>4. MergeInv(p)'
    BY ZenonT(40), <1>0, <2>1, <2>2, <2>3
       DEF MergeInv, Stopping, Follows, Present, Reconcilable, Live, Terminal
  <2>5. RequestInv(p)'
    BY Zenon, <2>2, <2>4 DEF RequestInv, PastInv, LaunchInv, Unsubmitted, BeforePersist, Issued, Persisted
  <2>6. QED
    BY Zenon, <1>0, <2>2, <2>5, KeepsSeqInv
<1>4. CASE StopMerge(p)
  <2>1. pc[p] = "merge" /\ Return(p) /\ UNCHANGED <<deleted, jobs>>
    BY Zenon, <1>4 DEF StopMerge
  <2>2. KeepsRun /\ fresh' \subseteq fresh
    <3>1. CASE fresh' = fresh \ {p} /\ UNCHANGED <<row, age, runs, recorded, caps>>
      BY Zenon, <2>1, <3>1, QuietKeepsRun
    <3>2. CASE /\ row # NoRow
               /\ \E reworded \in BOOLEAN, removed \in BOOLEAN, saved \in BOOLEAN :
                    FreezeAndSave(p, Settled(p, Merged(p, reworded)),
                                  MergeApplies(p, reworded) \/ Kept(p) \/ Freed(p), removed, saved)
      <4>1. Present
        BY Zenon, <1>0, <3>2 DEF RowInv
      <4>2. PICK reworded \in BOOLEAN, removed \in BOOLEAN, saved \in BOOLEAN :
                    FreezeAndSave(p, Settled(p, Merged(p, reworded)),
                                  MergeApplies(p, reworded) \/ Kept(p) \/ Freed(p), removed, saved)
        BY Zenon, <3>2
      <4> DEFINE m == Merged(p, reworded)
                 r == Settled(p, m)
      <4>3. m \in Row /\ RunRow(m)
        BY Zenon, <1>0, <2>1, <4>1, MergedType, MergedRun
      <4> HIDE DEF m
      <4>4. r \in Row
        BY Zenon, <4>3, SettledType
      <4>5. r.state = m.state /\ r.seq = m.seq /\ r.client = m.client /\ r.job = m.job
        BY Zenon, <4>3 DEF Settled, Row
      <4> HIDE DEF r
      <4>6. RunRow(r)
        BY Zenon, <4>3, <4>5 DEF RunRow
      <4>7. FreezeAndSave(p, r, MergeApplies(p, reworded) \/ Kept(p) \/ Freed(p), removed, saved)
        BY Zenon, <4>2 DEF m, r
      <4>8. (MergeApplies(p, reworded) \/ Kept(p) \/ Freed(p)) \in BOOLEAN
        OBVIOUS
      <4>9. QED
        BY ZenonT(40), <1>0, <2>1, <4>1, <4>4, <4>6, <4>7, <4>8, FreezeKeeps
    <3>3. Rewordings(p) \subseteq BOOLEAN
      BY Zenon DEF Rewordings
    <3>4. QED
      BY Zenon, <1>4, <3>1, <3>2, <3>3, OutcomesBoolean DEF StopMerge
  <2>3. QED
    BY Zenon, <1>0, <2>1, <2>2, ReturnAlone, KeepsSeqInv DEF Alone
<1>5. QED
  BY Zenon, <1>0, <1>1, <1>2, <1>3, <1>4, ObserveInv DEF Stop

LEMMA DeleteInv ==
  ASSUME SeqInv, TypeOK', NEW p \in Deleters, Delete(p)
  PROVE  SeqInv' /\ (KeepsRun \/ Forgotten)
<1>0. p \in Requests /\ TypeOK /\ Tables
  BY Zenon DEF Requests, SeqInv, TypeOK, Tables
<1>1. CASE DeleteRow(p)
  <2>1. /\ row' = NoRow /\ fresh' = {} /\ deleted' = TRUE /\ Goto(p, "forget")
        /\ \A q \in Requests \ {p} : snap'[q] = snap[q]
        /\ UNCHANGED <<jobs, cand, lock>>
    BY Zenon, <1>0, <1>1 DEF DeleteRow, Tables, outside
  <2>2. ~Present' /\ row'.state \notin Live \cup Reconcilable /\ row'.job = 0
    BY Zenon, <2>1 DEF NoRow, Present, Live, Reconcilable
  <2>3. RowInv'
    BY Zenon, <2>1, <2>2 DEF RowInv, Reconcilable, Live
  <2>4. pc'[p] = "forget"
    BY ZenonT(40), <1>0, <2>1 DEF Goto, Tables
  <2>5. RequestInv(p)'
    BY Zenon, <2>1, <2>2, <2>4 DEF RequestInv, PastInv, LaunchInv, Unsubmitted, MergeInv, BeforePersist, Issued, Persisted, Stopping, Past
  <2>6. ASSUME NEW q \in Requests, q # p
        PROVE  RequestInv(q)'
    <3>0. PastInv(q) /\ LaunchInv(q) /\ MergeInv(q)
      BY Zenon DEF SeqInv
    <3>1. /\ pc'[q] = pc[q] /\ snap'[q] = snap[q] /\ cand'[q] = cand[q] /\ q \notin fresh'
          /\ PastInv(q) /\ LaunchInv(q) /\ MergeInv(q)
      BY Zenon, <1>0, <2>1, <2>6, <3>0 DEF Goto, Tables
    <3>2. PastInv(q)'
      BY ZenonT(30), <2>1, <2>2, <3>1 DEF PastInv, Past
    <3>3. LaunchInv(q)'
      BY ZenonT(30), <2>1, <2>2, <3>1 DEF LaunchInv, Unsubmitted
    <3>4. MergeInv(q)'
      BY ZenonT(30), <2>1, <2>2, <3>1 DEF MergeInv
    <3>5. QED
      BY Zenon, <3>2, <3>3, <3>4 DEF RequestInv
  <2>7. Forgotten
    BY Zenon, <1>1, <2>1 DEF DeleteRow, Forgotten
  <2>8. QED
    BY Zenon, <2>3, <2>5, <2>6, <2>7 DEF SeqInv, RequestInv
<1>2. CASE DeleteCapability(p)
  <2>1. Return(p) /\ UNCHANGED <<row, recorded, deleted, jobs, fresh>>
    BY Zenon, <1>2 DEF DeleteCapability, store
  <2>2. QED
    BY ZenonT(40), <1>0, <2>1, QuietKeepsRun, ReturnAlone, KeepsSeqInv DEF Alone
<1>3. QED
  BY Zenon, <1>1, <1>2 DEF Delete

LEMMA LinkInv ==
  ASSUME SeqInv, TypeOK', NEW p \in Dialers, Link(p)
  PROVE  SeqInv' /\ KeepsRun
<1>0. p \in Requests /\ TypeOK /\ Tables /\ RowInv /\ row \in Row
  BY Zenon DEF Requests, SeqInv, TypeOK, Tables
<1>1. CASE LinkAccept(p) \/ LinkRegister(p)
  <2>1. /\ UNCHANGED <<row, recorded, deleted, jobs, cand, fresh, lock>>
        /\ \A q \in Requests \ {p} : snap'[q] = snap[q]
        /\ \E step \in {"register", "announce"} : Goto(p, step)
    BY Zenon, <1>0, <1>1 DEF LinkAccept, LinkRegister, Tables, store, outside
  <2>2. KeepsRun /\ Alone(p) /\ pc'[p] \in {"register", "announce"}
    BY Zenon, <1>0, <2>1, QuietKeepsRun DEF Alone, Goto, Tables
  <2>3. QED
    BY <1>0, <2>2, IdleInv, KeepsSeqInv
<1>2. CASE LinkAnnounce(p)
  <2> DEFINE r == [row EXCEPT !.state = "READY", !.err = FALSE, !.started = TRUE]
  <2>1. /\ \/ row.state \in {"QUEUED", "STARTING"} /\ row' = r /\ fresh' = {}
           \/ row' = row /\ fresh' \subseteq fresh
        /\ Goto(p, "linked")
        /\ UNCHANGED <<recorded, deleted, jobs, snap, cand, lock>>
    BY Zenon, <1>2 DEF LinkAnnounce, Save, outside
  <2>2. r.state = "READY" /\ r.seq = row.seq /\ r.client = row.client /\ r.job = row.job
    BY Zenon, <1>0 DEF Row
  <2> HIDE DEF r
  <2>3. KeepsRun
    BY Zenon, <1>0, <2>1, <2>2
       DEF KeepsRun, RecordsOne, SameRun, RunRow, Present, RowInv, Started, Live, Reconcilable
  <2>4. Alone(p) /\ pc'[p] = "linked"
    BY Zenon, <1>0, <2>1 DEF Alone, Goto, Tables
  <2>5. QED
    BY <1>0, <2>3, <2>4, IdleInv, KeepsSeqInv
<1>3. CASE LinkClose(p)
  <2>1. Return(p) /\ UNCHANGED <<row, recorded, deleted, jobs, fresh>>
    BY Zenon, <1>3 DEF LinkClose, store, outside
  <2>2. QED
    BY Zenon, <1>0, <2>1, QuietKeepsRun, ReturnAlone, KeepsSeqInv DEF Alone
<1>4. QED
  BY ZenonT(40), <1>1, <1>2, <1>3 DEF Link

-----------------------------------------------------------------------------
(* The invariant.                                                          *)

(* Steps of no request: all of them are the others.                        *)
LEMMA NobodysInv ==
  ASSUME SeqInv, TypeOK', KeepsRun, UNCHANGED <<pc, snap, cand, fresh, lock>>,
         \A n \in Seqs : jobs'[n] # "none" => jobs[n] # "none"
  PROVE  SeqInv'
<1>1. Alone(Nobody)
  BY Zenon DEF Alone
<1>2. \A q \in Requests : RequestInv(q)'
  BY Zenon, <1>1, OthersKept, ConstantsAssumption
<1>3. QED
  BY Zenon, <1>1, <1>2, RowInvKept DEF SeqInv, RequestInv

(* A session comes into being once: no request remembers it.               *)
LEMMA DefineInv ==
  ASSUME SeqInv, TypeOK', ~Redefinition, Define
  PROVE  SeqInv' /\ Defined
<1>1. /\ row = NoRow /\ ~deleted /\ row' = [NoRow EXCEPT !.state = "STOPPED"] /\ fresh' = {}
      /\ UNCHANGED <<recorded, deleted, jobs, pc, snap, cand, lock>>
  BY Zenon DEF Define, outside
<1>2. ~Present /\ RowInv
  BY Zenon, <1>1 DEF Present, NoRow, SeqInv
<1>3. Present' /\ row'.state = "STOPPED" /\ row'.seq = 0 /\ row'.job = 0
  BY Zenon, <1>1 DEF NoRow, Present
<1>4. recorded' = {} /\ \A n \in Seqs : jobs'[n] = "none"
  BY Zenon, <1>1, <1>2 DEF RowInv
<1>5. RowInv'
  BY Zenon, <1>3, <1>4 DEF RowInv, Live, Reconcilable
<1>6. ASSUME NEW q \in Requests
      PROVE  RequestInv(q)'
  <2>1. PastInv(q) /\ LaunchInv(q) /\ MergeInv(q)
    BY Zenon DEF SeqInv
  <2>2. PastInv(q)'
    BY Zenon, <1>1, <1>2, <2>1 DEF PastInv, Past
  <2>3. LaunchInv(q)'
    BY Zenon, <1>1, <1>2, <1>3, <2>1 DEF LaunchInv, Unsubmitted, Persisted, Live
  <2>4. MergeInv(q)'
    BY <1>1, <2>1 DEF MergeInv, Follows
  <2>5. QED
    BY Zenon, <2>2, <2>3, <2>4 DEF RequestInv
<1>7. Defined
  BY Zenon, <1>1, <1>3 DEF Defined
<1>8. QED
  BY Zenon, <1>5, <1>6, <1>7 DEF SeqInv, RequestInv

(* Runs are adopted by a session that never ran: nothing was submitted.    *)
LEMMA AdoptInv ==
  ASSUME SeqInv, TypeOK', NEW n \in Seqs, NEW final \in Terminal, AdoptRuns(n, final)
  PROVE  SeqInv' /\ Adopted
<1>0. PICK began, failed \in BOOLEAN :
        row' = [row EXCEPT !.seq = n, !.state = final, !.started = began, !.err = failed]
  BY Zenon DEF AdoptRuns
<1> DEFINE r == [row EXCEPT !.seq = n, !.state = final, !.started = began, !.err = failed]
<1>1. /\ row # NoRow /\ row.seq = 0 /\ row' = r /\ recorded' = recorded \cup 1 .. n /\ fresh' = {}
      /\ UNCHANGED <<deleted, jobs, pc, snap, cand, lock>>
  BY Zenon, <1>0 DEF AdoptRuns, outside
<1>2. Present /\ RowInv /\ row \in Row /\ n \in Nat /\ n > 0
  BY SMTT(20), <1>1 DEF RowInv, SeqInv, TypeOK, Seqs
<1>10. recorded = {} /\ recorded' = 1 .. n
  BY SMTT(20), <1>1, <1>2 DEF RowInv
<1>3. r.seq = n /\ r.state = final /\ r.job = row.job
  BY Zenon, <1>2 DEF Row
<1> HIDE DEF r
<1>4. /\ Present' /\ row'.state \in Terminal /\ row'.seq = n /\ row'.job = 0
  BY Zenon, <1>1, <1>2, <1>3 DEF Present, Terminal, RowInv
<1>5. \A m \in Seqs : jobs'[m] = "none"
  BY SMTT(20), <1>1, <1>2 DEF RowInv, Seqs
<1>6. RowInv'
  BY Zenon, <1>1, <1>10, <1>2, <1>4, <1>5 DEF RowInv, Live, Reconcilable, Terminal
<1>7. ASSUME NEW q \in Requests
      PROVE  RequestInv(q)'
  <2>1. PastInv(q) /\ LaunchInv(q) /\ MergeInv(q) /\ snap[q] \in Row /\ cand[q] \in Row
    BY Zenon DEF SeqInv, TypeOK
  <2>2. PastInv(q)'
    BY SMTT(20), <1>1, <1>10, <1>2, <1>4, <2>1 DEF PastInv, Past, Row, Live, Terminal
  <2>3. LaunchInv(q)'
    BY SMTT(20), <1>1, <1>10, <1>2, <1>4, <2>1 DEF LaunchInv, Unsubmitted, Persisted, Live, Terminal
  <2>4. MergeInv(q)'
    BY <1>1, <2>1 DEF MergeInv, Follows
  <2>5. QED
    BY Zenon, <2>2, <2>3, <2>4 DEF RequestInv
<1>8. Adopted
  <2>1. row.state \in Terminal
    BY <1>1, <1>2 DEF RowInv, Present, Row, Reconcilable, Terminal
  <2>2. QED
    BY SMTT(20), <1>1, <1>10, <1>2, <1>4, <2>1 DEF Adopted
<1>9. QED
  BY Zenon, <1>6, <1>7, <1>8 DEF SeqInv, RequestInv

LEMMA SeqStep ==
  ASSUME ~Redefinition, SeqInv, [Next]_vars
  PROVE  SeqInv' /\ RunStep
<1>0. TypeOK' /\ TypeOK /\ Tables /\ RowInv
  BY Zenon, SeqInvType, TypeStep DEF TypeInv, SeqInv, TypeOK, Tables
<1>1. CASE \E p \in Launchers : Launch(p)
  BY Zenon, <1>0, <1>1, BeforePersistInv, PersistInv, PersistedInv DEF Launch, RunStep
<1>2. CASE \E n \in Seqs : JobStep(n)
  <2>1. /\ UNCHANGED <<row, recorded, deleted, pc, snap, cand, fresh, lock>>
        /\ \A n \in Seqs : jobs'[n] = "none" <=> jobs[n] = "none"
    BY Zenon, <1>0, <1>2 DEF JobStep, Tables, Alive, store, memory
  <2>2. KeepsRun
    BY Zenon, <2>1 DEF KeepsRun, RecordsOne
  <2>3. QED
    BY Zenon, <1>0, <2>1, <2>2, NobodysInv DEF RunStep
<1>3. CASE Tick \/ PushOut
  <2>1. UNCHANGED <<row, recorded, deleted, jobs, pc, snap, cand, fresh, lock>>
    BY Zenon, <1>3 DEF Tick, PushOut, outside, memory
  <2>2. QED
    BY Zenon, <1>0, <2>1, QuietKeepsRun, NobodysInv DEF RunStep
<1>4. CASE Crash
  <2>1. UNCHANGED <<row, recorded, deleted, jobs>> /\ \A p \in Requests : pc'[p] = "idle"
    BY Zenon, <1>4 DEF Crash, store, outside
  <2>2. RowInv'
    BY Zenon, <1>0, <2>1 DEF RowInv, Present
  <2>3. QED
    BY <1>0, <2>1, <2>2, IdleInv, QuietKeepsRun DEF SeqInv, RequestInv, RunStep
<1>5. CASE UNCHANGED vars
  <2>1. UNCHANGED <<row, recorded, deleted, jobs, pc, snap, cand, fresh, lock>>
    BY Zenon, <1>5 DEF vars, store, outside, memory
  <2>2. QED
    BY Zenon, <1>0, <2>1, QuietKeepsRun, NobodysInv DEF RunStep
<1>6. QED
  BY Zenon, <1>0, <1>1, <1>2, <1>3, <1>4, <1>5,
     StopInv, DeleteInv, LinkInv, ReconcileInv, DefineInv, AdoptInv DEF Next, RunStep

LEMMA SeqInit == Init => SeqInv
<1> SUFFICES ASSUME Init PROVE SeqInv
  OBVIOUS
<1>1. TypeOK
  <2>1. /\ age \in Ages /\ jobs \in [Seqs -> JobStates]
        /\ pc \in [Requests -> Steps]
    BY DEF Init, Ages, JobStates, Steps
  <2>2. QED
    BY Zenon, <2>1, NoRowType DEF Init, TypeOK
<1>2. row.state = "ABSENT" /\ row.seq = 0 /\ row.job = 0 /\ row = NoRow
  BY Zenon DEF Init, NoRow
<1>3. RowInv
  BY Zenon, <1>2 DEF Init, RowInv, Present, Live, Reconcilable
<1>4. \A p \in Requests : pc[p] = "idle"
  BY Zenon DEF Init
<1>5. QED
  BY ZenonT(40), <1>1, <1>3, <1>4
     DEF SeqInv, PastInv, LaunchInv, Unsubmitted, MergeInv, BeforePersist, Issued, Persisted, Stopping

(* SeqInv is an invariant of every session that is not defined again after *)
(* it was deleted, whatever fails.                                         *)
THEOREM SeqInvariant == ASSUME ~Redefinition PROVE Spec => []SeqInv
<1>1. SeqInv /\ [Next]_vars => SeqInv'
  BY Zenon, SeqStep
<1>2. QED
  BY <1>1, SeqInit, PTL DEF Spec

(* No run is recorded while it lives: recordRun keeps the first record of  *)
(* a run for good, so an early one would hide the real one.                *)
THEOREM NoEarlyRecord == ASSUME ~Redefinition PROVE Spec => []LiveRunUnrecorded
<1>1. SeqInv => LiveRunUnrecorded
  BY Zenon DEF SeqInv, RowInv, TypeOK, LiveRunUnrecorded
<1>2. QED
  BY <1>1, SeqInvariant, PTL

(* recordSubmittedJob finds the row by the session ID alone, and still     *)
(* never gives a run the job of another: the launch holds the session's    *)
(* lock from its claim to the end of the submission.                       *)
THEOREM JobIsOfCurrentRun == ASSUME ~Redefinition PROVE Spec => []JobOfCurrentRun
<1>1. SeqInv => JobOfCurrentRun
  BY Zenon DEF SeqInv, RowInv, JobOfCurrentRun
<1>2. QED
  BY <1>1, SeqInvariant, PTL

(* What a step does to the run, whoever takes it.                          *)
LEMMA RunSteps ==
  ASSUME ~Redefinition, SeqInv, [Next]_vars
  PROVE  TypeOK /\ TypeOK' /\ RowInv /\ RunStep
BY Zenon, SeqStep DEF SeqInv

(* A finished run is followed by one under a number that nothing was       *)
(* recorded or submitted under: persistSubmitIntent writes the seq that    *)
(* beginStart read under the session's lock, and only over that row.       *)
THEOREM SeqIsNeverReused == ASSUME ~Redefinition PROVE Spec => SeqNeverReused
<1>1. ASSUME SeqInv, [Next]_vars
      PROVE  [row'.state \in Live /\ row.state \in Terminal
                => row'.seq \notin recorded /\ jobs[row'.seq] = "none"]_vars
  <2> SUFFICES ASSUME row'.state \in Live, row.state \in Terminal
               PROVE  row'.seq \notin recorded /\ jobs[row'.seq] = "none"
    OBVIOUS
  <2>1. TypeOK /\ TypeOK' /\ RowInv /\ RunStep
    BY Zenon, <1>1, RunSteps
  <2>2. NextRun
    BY SMTT(20), <2>1 DEF RunStep, KeepsRun, SameRun, RunRow, Defined, Adopted, Forgotten, NoRow, Live, Terminal
  <2>3. /\ Present /\ row'.seq = row.seq + 1 /\ row.seq \in Nat /\ row'.seq \in Seqs
    BY SMTT(20), <2>1, <2>2 DEF NextRun, Present, Terminal, TypeOK, Row, Seqs
  <2>4. QED
    BY <2>1, <2>3 DEF RowInv
<1>2. QED
  BY <1>1, SeqInvariant, PTL DEF Spec, SeqNeverReused

LEMMA PhaseValues ==
  /\ row.state \in Live => Phase = "running"
  /\ row.state = "STOPPING" => Phase = "stopping"
  /\ row.state \in Terminal => Phase = "over"
  /\ row.state = "ABSENT" => Phase = IF deleted THEN "gone" ELSE "undefined"
BY Zenon DEF Phase, Live, Terminal

LEMMA NextPhaseValues ==
  /\ row'.state \in Live => Phase' = "running"
  /\ row'.state = "STOPPING" => Phase' = "stopping"
  /\ row'.state \in Terminal => Phase' = "over"
  /\ row'.state = "ABSENT" => Phase' = IF deleted' THEN "gone" ELSE "undefined"
BY Zenon DEF Phase, Live, Terminal

LEMMA StateSplit ==
  /\ \A r \in Row : r.state \in Live \cup Terminal \cup {"STOPPING", "ABSENT"}
  /\ "STOPPING" \notin Live \cup Terminal /\ "ABSENT" \notin Live \cup Terminal
  /\ Live \cap Terminal = {}
BY Zenon DEF Row, Reconcilable, Live, Terminal

(* A step within one run.                                                  *)
LEMMA KeepsRunPromise ==
  ASSUME TypeOK, TypeOK', RowInv, KeepsRun
  PROVE  [Promise!Next]_Promise!vars
<1>1. row \in Row /\ row' \in Row
  BY Zenon DEF TypeOK
<1>2. CASE UNCHANGED row
  <2>1. Phase' = Phase
    BY Zenon, <1>2 DEF KeepsRun, Phase
  <2>2. CASE recorded' = recorded
    BY Zenon, <1>2, <2>1, <2>2 DEF Promise!vars
  <2>3. CASE recorded' # recorded
    <3>1. PICK n \in Seqs : recorded' = recorded \cup {n}
      BY Zenon, <2>3 DEF KeepsRun, RecordsOne
    <3>2. Past(n)'
      BY Zenon, <2>3, <3>1 DEF KeepsRun
    <3>3. Phase = "running" => n # row.seq
      BY SMTT(20), <1>1, <1>2, <3>2, PhaseValues, StateSplit DEF Past, Present, TypeOK, Row, Seqs
    <3>4. Promise!Record
      BY Zenon, <1>2, <2>1, <3>1, <3>3 DEF Promise!Record
    <3>5. QED
      BY Zenon, <3>4 DEF Promise!Next
  <2>4. QED
    BY Zenon, <2>2, <2>3
<1>3. CASE row' # row
  <2>1. /\ row'.state # "ABSENT" /\ row'.seq = row.seq /\ row.state # "ABSENT"
        /\ row'.state \in Live => row.state \in Live
        /\ recorded' = recorded \/ (recorded' = recorded \cup {row.seq} /\ row'.state \in Terminal)
    BY Zenon, <1>3 DEF KeepsRun, RecordsOne, SameRun, RunRow, Present
  <2>2. CASE row'.state \in Live
    BY Zenon, <2>1, <2>2, PhaseValues, NextPhaseValues, StateSplit DEF Promise!vars
  <2>3. CASE row'.state = "STOPPING"
    <3>1. recorded' = recorded /\ Phase' = "stopping" /\ Phase \in {"running", "stopping", "over"}
      BY Zenon, <1>1, <2>1, <2>3, PhaseValues, NextPhaseValues, StateSplit
    <3>2. QED
      BY Zenon, <2>1, <3>1 DEF Promise!Next, Promise!RequestStop, Promise!Reopen, Promise!vars
  <2>4. CASE row'.state \in Terminal
    <3>1. Phase' = "over" /\ Phase \in {"running", "stopping", "over"}
      BY Zenon, <1>1, <2>1, <2>4, PhaseValues, NextPhaseValues, StateSplit
    <3>2. CASE Phase = "over"
      BY Zenon, <2>1, <3>1, <3>2 DEF Promise!Next, Promise!Record, Promise!vars
    <3>3. CASE Phase # "over"
      BY Zenon, <2>1, <3>1, <3>3 DEF Promise!Next, Promise!End
    <3>4. QED
      BY Zenon, <3>2, <3>3
  <2>5. QED
    BY Zenon, <1>1, <2>1, <2>2, <2>3, <2>4, StateSplit
<1>4. QED
  BY Zenon, <1>2, <1>3

(* A step that changes the run.                                            *)
LEMMA RunChangePromise ==
  ASSUME TypeOK, RowInv, Defined \/ Adopted \/ NextRun \/ Forgotten
  PROVE  Promise!Next
<1>0. row.seq \in Nat
  BY DEF TypeOK, Row
<1>1. CASE Defined
  BY Zenon, <1>1, PhaseValues, NextPhaseValues DEF Defined, NoRow, Terminal, Promise!Next, Promise!Define
<1>2. CASE Adopted
  BY <1>2, PhaseValues, NextPhaseValues DEF Adopted, Promise!Next, Promise!Adopt
<1>3. CASE NextRun
  <2>1. row.seq + 1 \notin recorded
    BY <1>0, <1>3 DEF NextRun, RowInv, Present, Terminal
  <2>2. QED
    BY Zenon, <1>3, <2>1, PhaseValues, NextPhaseValues DEF NextRun, Promise!Next, Promise!Launch
<1>4. CASE Forgotten
  BY Zenon, <1>4, PhaseValues, NextPhaseValues DEF Forgotten, NoRow, Promise!Next, Promise!Delete
<1>5. QED
  BY Zenon, <1>1, <1>2, <1>3, <1>4

(* The lifecycle implements SessionAbstract: with any number of requests   *)
(* in flight, whatever fails and wherever the server crashes, one run      *)
(* follows the other and only what is over is recorded.                    *)
THEOREM Refinement == ASSUME ~Redefinition PROVE Spec => KeepsPromise
<1>1. Init => Promise!Init
  BY PhaseValues DEF Init, NoRow, Promise!Init
<1>2. ASSUME SeqInv, [Next]_vars
      PROVE  [Promise!Next]_Promise!vars
  BY Zenon, <1>2, RunSteps, KeepsRunPromise, RunChangePromise DEF RunStep
<1>3. QED
  BY <1>1, <1>2, SeqInvariant, PTL DEF Spec, KeepsPromise, Promise!Spec

-----------------------------------------------------------------------------
(* What a request's step leaves to the other requests.                     *)
Untouched(p) ==
  /\ \A q \in Requests \ {p} :
       pc'[q] = pc[q] /\ snap'[q] = snap[q] /\ cand'[q] = cand[q]
  /\ fresh' \subseteq fresh \cup {p}

LEMMA GotoUntouched ==
  ASSUME Tables, NEW p \in Requests, NEW step, Goto(p, step)
  PROVE  /\ pc'[p] = step
         /\ \A q \in Requests \ {p} : pc'[q] = pc[q]
BY Zenon DEF Goto, Tables

LEMMA ReturnUntouched ==
  ASSUME Tables, NEW p \in Requests, Return(p)
  PROVE  /\ pc'[p] = "idle"
         /\ \A q \in Requests \ {p} :
              pc'[q] = pc[q] /\ snap'[q] = snap[q] /\ cand'[q] = cand[q]
BY Zenon DEF Return, Goto, Tables

LEMMA SaveUntouched ==
  ASSUME NEW p, NEW saved, NEW r, Save(p, saved, r)
  PROVE  /\ fresh' \subseteq fresh
         /\ saved => row' = r /\ age' = 0 /\ fresh' = {}
         /\ ~saved => row' = row /\ age' = age
BY Zenon DEF Save

LEMMA LaunchUntouched ==
  ASSUME Tables, NEW p \in Launchers, Launch(p)
  PROVE  Untouched(p)
<1>0. p \in Requests
  BY Zenon DEF Requests
<1>1. CASE \E kind \in Kinds \ {"adopt"}, tun \in Modes : LaunchBegin(p, kind, tun)
  BY Zenon, <1>0, <1>1, GotoUntouched DEF LaunchBegin, Untouched, Tables
<1>2. CASE LaunchRetire(p)
  BY Zenon, <1>0, <1>2, GotoUntouched, ReturnUntouched DEF LaunchRetire, Untouched
<1>3. CASE LaunchFreeze(p)
  BY Zenon, <1>0, <1>3, GotoUntouched, ReturnUntouched DEF LaunchFreeze, Untouched, Tables
<1>4. CASE LaunchSerialize(p)
  BY Zenon, <1>0, <1>4, GotoUntouched, ReturnUntouched DEF LaunchSerialize, Untouched
<1>5. CASE LaunchClaim(p)
  BY Zenon, <1>0, <1>5, GotoUntouched, ReturnUntouched DEF LaunchClaim, Untouched, Tables
<1>6. CASE LaunchIssue(p)
  BY Zenon, <1>0, <1>6, GotoUntouched DEF LaunchIssue, Untouched
<1>7. CASE LaunchPersist(p)
  BY Zenon, <1>0, <1>7, GotoUntouched, ReturnUntouched, SaveUntouched DEF LaunchPersist, Untouched, Tables
<1>8. CASE LaunchUnissue(p)
  BY Zenon, <1>0, <1>8, ReturnUntouched DEF LaunchUnissue, Untouched
<1>9. CASE LaunchSubmit(p)
  BY Zenon, <1>0, <1>9, GotoUntouched, ReturnUntouched DEF LaunchSubmit, Untouched
<1>10. CASE LaunchRecord(p)
  BY Zenon, <1>0, <1>10, GotoUntouched, ReturnUntouched, SaveUntouched DEF LaunchRecord, Untouched
<1>11. CASE LaunchUnsaved(p)
  BY Zenon, <1>0, <1>11, ReturnUntouched DEF LaunchUnsaved, Untouched
<1>12. CASE LaunchCancel(p)
  BY Zenon, <1>0, <1>12, GotoUntouched DEF LaunchCancel, Untouched, Tables
<1>13. CASE LaunchCancelled(p)
  BY Zenon, <1>0, <1>13, ReturnUntouched, SaveUntouched DEF LaunchCancelled, Untouched
<1>14. CASE LaunchAbandon(p)
  BY Zenon, <1>0, <1>14, GotoUntouched DEF LaunchAbandon, Untouched, Tables
<1>15. CASE LaunchAbandoned(p)
  BY Zenon, <1>0, <1>15, ReturnUntouched, SaveUntouched DEF LaunchAbandoned, Untouched
<1>16. QED
  BY Zenon, <1>1, <1>2, <1>3, <1>4, <1>5, <1>6, <1>7, <1>8, <1>9, <1>10, <1>11, <1>12,
     <1>13, <1>14, <1>15 DEF Launch

LEMMA FreezeUntouched ==
  ASSUME NEW p, NEW r, NEW stamped, NEW removed, NEW saved,
         FreezeAndSave(p, r, stamped, removed, saved)
  PROVE  fresh' \subseteq fresh
BY Zenon, SaveUntouched DEF FreezeAndSave

LEMMA ObserveUntouched ==
  ASSUME Tables, NEW p \in Requests, ReconcileSnapshots(p)
  PROVE  Untouched(p) /\ pc'[p] = "merge"
<1>1. Goto(p, "merge") /\ UNCHANGED <<snap, fresh>>
  BY Zenon DEF ReconcileSnapshots
<1>2. \E c : cand' = [cand EXCEPT ![p] = c]
  BY Zenon DEF ReconcileSnapshots
<1>3. QED
  BY Zenon, <1>1, <1>2, GotoUntouched DEF Untouched, Tables

LEMMA StopUntouched ==
  ASSUME Tables, NEW p \in Stoppers, Stop(p)
  PROVE  Untouched(p)
<1>0. p \in Requests
  BY Zenon DEF Requests
<1>1. CASE StopMark(p)
  BY Zenon, <1>0, <1>1, GotoUntouched DEF StopMark, Read, Untouched, Tables
<1>2. CASE StopRelease(p)
  BY Zenon, <1>0, <1>2, GotoUntouched DEF StopRelease, Untouched
<1>3. CASE StopUnlink(p)
  BY Zenon, <1>0, <1>3, GotoUntouched DEF StopUnlink, Untouched, Tables
<1>4. CASE StopMerge(p)
  BY Zenon, <1>0, <1>4, ReturnUntouched, FreezeUntouched DEF StopMerge, Untouched
<1>5. QED
  BY Zenon, <1>0, <1>1, <1>2, <1>3, <1>4, ObserveUntouched DEF Stop

LEMMA ReconcileUntouched ==
  ASSUME Tables, Reconcile
  PROVE  Untouched(Reconciler)
<1>0. Reconciler \in Requests
  BY Zenon DEF Requests
<1>1. CASE ReconcileBegin
  BY Zenon, <1>0, <1>1, GotoUntouched DEF ReconcileBegin, Read, Untouched, Tables
<1>2. CASE ReconcileMerge
  BY Zenon, <1>0, <1>2, ReturnUntouched, FreezeUntouched DEF ReconcileMerge, Untouched
<1>3. QED
  BY Zenon, <1>0, <1>1, <1>2, ObserveUntouched DEF Reconcile

LEMMA DeleteUntouched ==
  ASSUME Tables, NEW p \in Deleters, Delete(p)
  PROVE  Untouched(p)
<1>0. p \in Requests
  BY Zenon DEF Requests
<1>1. CASE DeleteRow(p)
  BY Zenon, <1>0, <1>1, GotoUntouched DEF DeleteRow, Untouched, Tables
<1>2. CASE DeleteCapability(p)
  BY Zenon, <1>0, <1>2, ReturnUntouched DEF DeleteCapability, Untouched
<1>3. QED
  BY Zenon, <1>1, <1>2 DEF Delete

LEMMA LinkUntouched ==
  ASSUME Tables, NEW p \in Dialers, Link(p)
  PROVE  Untouched(p)
<1>0. p \in Requests
  BY Zenon DEF Requests
<1>1. CASE LinkAccept(p)
  BY Zenon, <1>0, <1>1, GotoUntouched DEF LinkAccept, Untouched, Tables
<1>2. CASE LinkRegister(p)
  BY Zenon, <1>0, <1>2, GotoUntouched DEF LinkRegister, Untouched
<1>3. CASE LinkAnnounce(p)
  BY Zenon, <1>0, <1>3, GotoUntouched, SaveUntouched DEF LinkAnnounce, Untouched
<1>4. CASE LinkClose(p)
  BY Zenon, <1>0, <1>4, ReturnUntouched DEF LinkClose, Untouched
<1>5. QED
  BY Zenon, <1>1, <1>2, <1>3, <1>4 DEF Link

-----------------------------------------------------------------------------
(* The capability of a live run.                                           *)

(* The row's run has a job in the queue or a client, and is not stopped.   *)
NeedsCapability == row.state \in Live /\ (row.client \/ jobs[row.seq] \in Alive)

(* A client-launched run is ended by its Stop alone.                       *)
ClientMergeInv(p) ==
  pc[p] = "merge" /\ snap[p].client /\ snap[p].state \in Live => cand[p].state \in Live

(* A step within one run that takes only capabilities of runs that are     *)
(* over, or those of a run that has neither job nor client.                *)
CapsFrame ==
  /\ \/ \A n \in caps \ caps' : Past(n)'
     \/ ~NeedsCapability' /\ \A q \in Requests : pc'[q] \notin {"persist", "submit"}
  /\ \A q \in Requests : pc'[q] = "persist" /\ q \in fresh' =>
       (pc[q] = "persist" /\ q \in fresh /\ cand'[q] = cand[q]) \/ cand'[q].seq \in caps'
  /\ \A q \in Requests : pc'[q] = "submit" => pc[q] = "submit"
  /\ \A n \in Seqs : jobs'[n] \in Alive =>
       jobs[n] \in Alive \/ \E p \in Requests : pc[p] = "submit" /\ cand[p].seq = n
  /\ \A q \in Requests : ClientMergeInv(q)'

LEMMA CapsKept ==
  ASSUME SeqInv, SeqInv', CapabilityInv, KeepsRun, CapsFrame
  PROVE  CapabilityInv'
<1>0. /\ row \in Row /\ row' \in Row /\ RowInv /\ RowInv' /\ caps \subseteq Seqs
      /\ \A q \in Requests : LaunchInv(q) /\ LaunchInv(q)' /\ snap'[q] \in Row /\ cand'[q] \in Row
  BY Zenon DEF SeqInv, TypeOK
<1>1. row'.state \in Live => /\ Present /\ Present' /\ row'.seq = row.seq /\ row'.client = row.client
                            /\ row.state \in Live /\ row.seq \in Seqs
  <2>1. ASSUME row'.state \in Live
        PROVE  /\ Present' /\ row'.seq = row.seq /\ row'.client = row.client
               /\ row.state \in Live /\ row.seq > 0
    BY Zenon, <1>0, <2>1 DEF KeepsRun, SameRun, RunRow, Present, Live, RowInv, Reconcilable
  <2>2. QED
    BY SMTT(20), <1>0, <2>1 DEF Row, Seqs, Present, Live
<1>2. CASE \A n \in caps \ caps' : Past(n)'
  <2>1. ASSUME row'.state \in Live, row.seq \in caps
        PROVE  row'.seq \in caps'
    <3>1. \A n : n = row'.seq => ~Past(n)'
      BY SMTT(20), <1>0, <1>1, <2>1 DEF Past, Row
    <3>2. QED
      BY Zenon, <1>1, <1>2, <2>1, <3>1
  <2>2. ASSUME row'.state \in Live, row.seq \notin caps
        PROVE  ~NeedsCapability'
    <3>1. ~row.client /\ jobs[row.seq] \notin Alive
      BY Zenon, <1>1, <2>2 DEF CapabilityInv, LiveHasCapability
    <3>2. \A p \in Requests : pc[p] = "submit" => row.seq = cand[p].seq /\ row.seq \in caps
      BY Zenon, <1>0, <1>1, <2>2 DEF LaunchInv, Unsubmitted, Persisted, CapabilityInv
    <3>3. jobs'[row.seq] \notin Alive
      BY Zenon, <1>1, <2>2, <3>1, <3>2 DEF CapsFrame
    <3>4. QED
      BY Zenon, <1>1, <2>2, <3>1, <3>3 DEF NeedsCapability
  <2>3. ASSUME NEW q \in Requests, pc'[q] = "persist", q \in fresh'
        PROVE  cand'[q].seq \in caps'
    <3>1. /\ row'.seq = snap'[q].seq /\ cand'[q].seq = snap'[q].seq + 1 /\ Present'
      BY Zenon, <1>0, <2>3 DEF LaunchInv, Unsubmitted, Issued
    <3>2. \A n : n = cand'[q].seq => ~Past(n)'
      BY SMTT(20), <1>0, <3>1 DEF Past, Row
    <3>3. cand'[q].seq \in caps \cup caps'
      BY Zenon, <2>3 DEF CapsFrame, CapabilityInv
    <3>4. QED
      BY Zenon, <1>2, <3>2, <3>3
  <2>4. ASSUME NEW q \in Requests, pc'[q] = "submit", row'.state \in Live
        PROVE  row'.seq \in caps'
    BY Zenon, <1>1, <2>1, <2>4 DEF CapsFrame, CapabilityInv
  <2>5. LiveHasCapability'
    BY Zenon, <2>1, <2>2 DEF LiveHasCapability, NeedsCapability
  <2>6. QED
    BY Zenon, <2>3, <2>4, <2>5 DEF CapabilityInv, CapsFrame, ClientMergeInv
<1>3. CASE ~NeedsCapability' /\ \A q \in Requests : pc'[q] \notin {"persist", "submit"}
  BY Zenon, <1>3 DEF CapabilityInv, CapsFrame, ClientMergeInv, LiveHasCapability, NeedsCapability
<1>4. QED
  BY Zenon, <1>2, <1>3 DEF CapsFrame

LEMMA OtherMerges ==
  ASSUME CapabilityInv, NEW p \in Requests, Untouched(p), ClientMergeInv(p)'
  PROVE  \A q \in Requests : ClientMergeInv(q)'
BY Zenon DEF Untouched, ClientMergeInv, CapabilityInv

(* A step that submits nothing and comes neither to "persist" nor to       *)
(* "submit".                                                               *)
LEMMA QuietCaps ==
  ASSUME SeqInv, CapabilityInv, NEW p \in Requests, Untouched(p),
         pc'[p] \notin {"persist", "submit"}, ClientMergeInv(p)',
         \A n \in Seqs : jobs'[n] \in Alive => jobs[n] \in Alive \/ (pc[p] = "submit" /\ cand[p].seq = n),
         \/ \A n \in caps \ caps' : Past(n)'
         \/ ~NeedsCapability' /\ \A q \in Requests : pc'[q] \notin {"persist", "submit"}
  PROVE  CapsFrame
<1>1. \A q \in Requests : pc'[q] = "persist" /\ q \in fresh' =>
        pc[q] = "persist" /\ q \in fresh /\ cand'[q] = cand[q]
  BY Zenon DEF Untouched
<1>2. \A q \in Requests : pc'[q] = "submit" => pc[q] = "submit"
  BY Zenon DEF Untouched
<1>3. QED
  BY Zenon, <1>1, <1>2, OtherMerges DEF CapsFrame

(* Only one launch is between claim and the end of its submission.         *)
LEMMA OneLaunch ==
  ASSUME SeqInv, NEW p \in Requests, NEW q \in Requests,
         pc[p] \in {"claim"} \cup Issued \cup Persisted,
         pc[q] \in {"claim"} \cup Issued \cup Persisted
  PROVE  p = q
BY Zenon DEF SeqInv, LaunchInv, Unsubmitted

(* releaseTunnel and the freeze of a run that is over.                     *)
LEMMA ReleaseTakes ==
  ASSUME NEW n, NEW tun, NEW token, NEW u, NEW r, ReleaseTunnel(n, tun, token, u, r)
  PROVE  caps \ caps' \subseteq {n}
BY Zenon DEF ReleaseTunnel

LEMMA PastSame ==
  ASSUME UNCHANGED <<row, deleted>>, NEW n, Past(n)
  PROVE  Past(n)'
BY Zenon DEF Past, Present

LEMMA LaunchCaps ==
  ASSUME RefusalsAreDefinite, SeqInv, SeqInv', CapabilityInv, NEW p \in Launchers, Launch(p), ~LaunchPersist(p)
  PROVE  CapabilityInv'
<1>0. /\ p \in Requests /\ TypeOK /\ TypeOK' /\ Tables /\ RowInv /\ LaunchInv(p) /\ PastInv(p)
      /\ Untouched(p)
  BY Zenon, LaunchUntouched DEF SeqInv, TypeOK, Tables, Requests
<1>1. KeepsRun
  BY Zenon, <1>0, BeforePersistInv, PersistedInv DEF Launch
<1>2. CASE \/ \E kind \in Kinds \ {"adopt"}, tun \in Modes : LaunchBegin(p, kind, tun)
           \/ LaunchSerialize(p) \/ LaunchClaim(p)
  <2>1. UNCHANGED <<caps, jobs>> /\ pc'[p] \in {"retire", "claim", "idle", "issue"}
    BY Zenon, <1>0, <1>2, GotoUntouched, ReturnUntouched
       DEF LaunchBegin, LaunchSerialize, LaunchClaim, outside
  <2>2. QED
    BY Zenon, <1>0, <1>1, <2>1, QuietCaps, CapsKept DEF ClientMergeInv
<1>3. CASE LaunchRetire(p) \/ LaunchFreeze(p)
  <2>1. /\ UNCHANGED <<row, deleted, jobs>> /\ pc'[p] \in {"freeze", "serialize", "idle"}
        /\ caps \ caps' \subseteq {snap[p].seq} /\ pc[p] \in {"retire", "freeze"}
    BY Zenon, <1>0, <1>3, GotoUntouched, ReturnUntouched, ReleaseTakes
       DEF LaunchRetire, LaunchFreeze, RemoveCapability, store
  <2>2. \A n \in caps \ caps' : Past(n)'
    BY Zenon, <1>0, <2>1, PastSame DEF PastInv
  <2>3. QED
    BY Zenon, <1>0, <1>1, <2>1, <2>2, QuietCaps, CapsKept DEF ClientMergeInv
<1>4. CASE LaunchIssue(p)
  <2>1. /\ UNCHANGED <<jobs, cand>> /\ caps \subseteq caps'
        /\ pc'[p] = "unissue" \/ (pc'[p] = "persist" /\ cand[p].seq \in caps')
    BY Zenon, <1>0, <1>4, GotoUntouched DEF LaunchIssue
  <2>2. \A q \in Requests : ClientMergeInv(q)'
    BY Zenon, <1>0, <2>1, OtherMerges DEF ClientMergeInv
  <2>3. CapsFrame
    BY Zenon, <1>0, <2>1, <2>2 DEF CapsFrame, Untouched
  <2>4. QED
    BY Zenon, <1>1, <2>3, CapsKept
<1>5. CASE LaunchUnissue(p)
  <2>1. /\ UNCHANGED <<row, jobs>> /\ pc[p] = "unissue" /\ pc'[p] = "idle" /\ row.state \notin Live
    BY Zenon, <1>0, <1>5, ReturnUntouched DEF LaunchUnissue, LaunchInv, Unsubmitted, Issued, store
  <2>2. \A q \in Requests : pc'[q] \notin {"persist", "submit"}
    BY Zenon, <1>0, <2>1, OneLaunch DEF Untouched, Issued, Persisted
  <2>3. ~NeedsCapability' /\ ClientMergeInv(p)'
    BY Zenon, <2>1 DEF NeedsCapability, ClientMergeInv
  <2>4. QED
    BY Zenon, <1>0, <1>1, <2>1, <2>2, <2>3, QuietCaps, CapsKept
<1>6. CASE LaunchSubmit(p)
  <2>1. /\ UNCHANGED caps /\ pc[p] = "submit" /\ pc'[p] \in {"record", "abandon", "idle"}
        /\ \A n \in Seqs : jobs'[n] # jobs[n] => n = cand[p].seq
    BY Zenon, <1>0, <1>6, GotoUntouched, ReturnUntouched DEF LaunchSubmit, Tables
  <2>2. QED
    BY Zenon, <1>0, <1>1, <2>1, QuietCaps, CapsKept DEF ClientMergeInv
<1>7. CASE LaunchRecord(p) \/ LaunchCancelled(p) \/ LaunchAbandoned(p)
  <2>1. UNCHANGED <<caps, jobs>> /\ pc'[p] \in {"cancel", "unsaved", "idle"}
    BY Zenon, <1>0, <1>7, GotoUntouched, ReturnUntouched
       DEF LaunchRecord, LaunchCancelled, LaunchAbandoned, outside
  <2>2. QED
    BY Zenon, <1>0, <1>1, <2>1, QuietCaps, CapsKept DEF ClientMergeInv
<1>8. CASE LaunchUnsaved(p) \/ LaunchCancel(p)
  <2>1. /\ UNCHANGED caps /\ pc'[p] \in {"cancelled", "idle"}
        /\ \A n \in Seqs : jobs'[n] \in Alive => jobs[n] \in Alive
    BY Zenon, <1>0, <1>8, GotoUntouched, ReturnUntouched, ScancelType DEF LaunchUnsaved, LaunchCancel
  <2>2. QED
    BY Zenon, <1>0, <1>1, <2>1, QuietCaps, CapsKept DEF ClientMergeInv
<1>9. CASE LaunchAbandon(p)
  <2>1. UNCHANGED <<row, jobs>> /\ pc[p] = "abandon" /\ pc'[p] = "abandoned"
    BY Zenon, <1>0, <1>9, GotoUntouched DEF LaunchAbandon, store
  <2>2. row.state \in Live => row.state = "SUBMITTING" /\ row.seq = cand[p].seq /\ jobs[cand[p].seq] = "none"
    BY Zenon, <1>0, <2>1 DEF RefusalsAreDefinite, LaunchInv, Unsubmitted, Persisted, Live, Terminal, Present
  <2>3. ~NeedsCapability' /\ ClientMergeInv(p)'
    BY Zenon, <1>0, <2>1, <2>2 DEF NeedsCapability, ClientMergeInv, RowInv, Alive
  <2>4. \A q \in Requests : pc'[q] \notin {"persist", "submit"}
    BY ZenonT(40), <1>0, <2>1, OneLaunch DEF Untouched, Issued, Persisted
  <2>5. QED
    BY Zenon, <1>0, <1>1, <2>1, <2>3, <2>4, QuietCaps, CapsKept
<1>10. QED
  BY Zenon, <1>2, <1>3, <1>4, <1>5, <1>6, <1>7, <1>8, <1>9 DEF Launch

(* persistSubmitIntent: the capability of the new run was issued before.   *)
LEMMA PersistCaps ==
  ASSUME SeqInv, SeqInv', CapabilityInv, NEW p \in Launchers, LaunchPersist(p)
  PROVE  CapabilityInv'
<1>0. /\ p \in Requests /\ TypeOK /\ TypeOK' /\ Tables /\ RowInv /\ LaunchInv(p)
      /\ Untouched(p)
  BY Zenon, LaunchUntouched DEF SeqInv, TypeOK, Tables, Requests, Launch
<1>1. UNCHANGED <<caps, jobs>> /\ pc[p] = "persist" /\ pc'[p] \in {"unissue", "idle", "submit"}
  BY Zenon, <1>0, GotoUntouched, ReturnUntouched DEF LaunchPersist, outside
<1>2. \A q \in Requests : ClientMergeInv(q)'
  BY Zenon, <1>0, <1>1, OtherMerges DEF ClientMergeInv
<1>3. CASE row' = row /\ pc'[p] = "unissue"
  <2>1. KeepsRun
    BY Zenon, <1>1, <1>3, QuietKeepsRun DEF LaunchPersist
  <2>2. QED
    BY Zenon, <1>0, <1>1, <1>2, <1>3, <2>1, QuietCaps, CapsKept
<1>4. CASE p \in fresh /\ row' = cand[p] /\ fresh' = {}
  <2>1. cand[p].seq \in caps
    BY Zenon, <1>0, <1>1, <1>4 DEF CapabilityInv
  <2>2. QED
    BY Zenon, <1>1, <1>2, <1>4, <2>1 DEF CapabilityInv, LiveHasCapability, ClientMergeInv
<1>5. QED
  BY Zenon, <1>0, <1>3, <1>4, GotoUntouched, SaveUntouched DEF LaunchPersist

LEMMA ObserveCaps ==
  ASSUME SeqInv, SeqInv', CapabilityInv, NEW p \in Requests, ReconcileSnapshots(p)
  PROVE  CapabilityInv'
<1>0. TypeOK /\ TypeOK' /\ Tables /\ snap[p] \in Row
  BY Zenon DEF SeqInv, TypeOK, Tables
<1>1. KeepsRun /\ Untouched(p) /\ pc'[p] = "merge"
  BY Zenon, <1>0, ObserveInv, ObserveUntouched
<1>2. UNCHANGED caps /\ \A n \in Seqs : jobs'[n] \in Alive => jobs[n] \in Alive
  BY Zenon, <1>0 DEF ReconcileSnapshots, Scancel, Tables, Alive
<1>3. ClientMergeInv(p)'
  <2> SUFFICES ASSUME snap[p].client, snap[p].state \in Live
               PROVE  cand'[p].state \in Live
    BY Zenon DEF ClientMergeInv, ReconcileSnapshots
  <2>1. PICK c \in ObserveClient(snap[p]) : cand' = [cand EXCEPT ![p] = c]
    BY Zenon DEF ReconcileSnapshots
  <2>2. c.state \in {snap[p].state, "READY"}
    BY Zenon, <1>0, <2>1 DEF ObserveClient, Row, Live
  <2>3. QED
    BY Zenon, <1>0, <2>1, <2>2 DEF Tables, Live
<1>4. QED
  BY Zenon, <1>1, <1>2, <1>3, QuietCaps, CapsKept

LEMMA MergedRow ==
  ASSUME SeqInv, NEW p \in Requests, pc[p] = "merge", Present, NEW reworded \in BOOLEAN
  PROVE  /\ Merged(p, reworded) \in Row /\ RunRow(Merged(p, reworded))
         /\ Settled(p, Merged(p, reworded)) \in Row /\ RunRow(Settled(p, Merged(p, reworded)))
<1>1. Merged(p, reworded) \in Row /\ RunRow(Merged(p, reworded))
  BY Zenon, MergedRun, MergedType DEF SeqInv
<1> DEFINE m == Merged(p, reworded)
<1> HIDE DEF m
<1>2. Settled(p, m) \in Row
  BY Zenon, <1>1, SettledType DEF m
<1>3. /\ Settled(p, m).state = m.state /\ Settled(p, m).seq = m.seq
      /\ Settled(p, m).client = m.client /\ Settled(p, m).job = m.job
  BY SMTT(20), <1>1 DEF Settled, Row, m
<1>4. QED
  BY Zenon, <1>1, <1>2, <1>3 DEF RunRow, m

(* The rest of a merge's locked section, for the row r it means to write:  *)
(* the candidate's state and job over a current snapshot, or the row's.    *)
MergeRow(p, r, stamped) ==
  \/ stamped /\ SnapshotCurrent(p) /\ r.state = cand[p].state /\ r.job = cand[p].job
  \/ stamped /\ r.state = row.state /\ r.job = row.job
  \/ ~stamped /\ r = row

LEMMA FrozenFields ==
  ASSUME NEW r \in Row, NEW removed
  PROVE  /\ Frozen(r, removed).job = r.job /\ Frozen(r, removed).seq = r.seq
         /\ \/ CleanupFailed(r, removed) /\ Frozen(r, removed).state = "STOPPING"
            \/ ~CleanupFailed(r, removed) /\ Frozen(r, removed) = r
BY Zenon DEF Frozen, Row

LEMMA MergedIs ==
  ASSUME SeqInv, NEW p \in Requests, pc[p] = "merge", Present, NEW reworded \in BOOLEAN
  PROVE  /\ MergeApplies(p, reworded) => MergeRow(p, Merged(p, reworded), TRUE)
         /\ Merged(p, reworded).seq = row.seq /\ Settled(p, Merged(p, reworded)).seq = row.seq
         /\ MergeRow(p, Settled(p, Merged(p, reworded)),
                     MergeApplies(p, reworded) \/ Kept(p) \/ Freed(p))
<1> DEFINE m == Merged(p, reworded)
           t == Settled(p, m)
<1>0. row \in Row /\ cand[p] \in Row /\ m \in Row
  BY ZenonT(40), MergedRow DEF SeqInv, TypeOK
<1>1. m.seq = row.seq
  BY SMTT(20), <1>0 DEF Merged, Row
<1>2. MergeApplies(p, reworded) => m.state = cand[p].state /\ m.job = cand[p].job
  BY SMTT(20), <1>0 DEF Merged, Row
<1>3. ~MergeApplies(p, reworded) => m = row
  BY Zenon DEF Merged
<1>4. t.state = m.state /\ t.job = m.job /\ t.seq = m.seq
  <2> HIDE DEF m
  <2>1. QED
    BY SMTT(20), <1>0 DEF Settled, Row
<1>5. ASSUME ~(Kept(p) \/ Freed(p))
      PROVE  t = m
  <2> HIDE DEF m
  <2>1. t = [m EXCEPT !.err = m.err, !.tun = m.tun]
    <3>1. m.err \in BOOLEAN /\ m.tun \in BOOLEAN
      BY SMTT(20), <1>0 DEF Row
    <3>2. (m.err \/ Kept(p)) = m.err /\ (m.tun /\ ~Freed(p)) = m.tun
      BY Zenon, <1>5, <3>1
    <3>3. QED
      BY Zenon, <3>2 DEF Settled
  <2>2. [m EXCEPT !.err = m.err, !.tun = m.tun] = m
    BY Zenon, <1>0 DEF Row
  <2>3. QED
    BY Zenon, <2>1, <2>2
<1> HIDE DEF m, t
<1>6. MergeRow(p, t, MergeApplies(p, reworded) \/ Kept(p) \/ Freed(p))
  BY ZenonT(40), <1>2, <1>3, <1>4, <1>5 DEF MergeRow, MergeApplies
<1>7. MergeApplies(p, reworded) => MergeRow(p, m, TRUE)
  BY Zenon, <1>2 DEF MergeRow, MergeApplies
<1>8. QED
  BY Zenon, <1>1, <1>4, <1>6, <1>7 DEF m, t

(* A merge that would end a live run has found that it has neither a job   *)
(* nor a client, and that no launch will submit one.                       *)
LEMMA MergedTaken ==
  ASSUME CapabilitiesAreKept, SeqInv, JobInv, CapabilityInv, NEW p \in Requests, pc[p] = "merge",
         NEW r, NEW stamped, MergeRow(p, r, stamped), r.state \in Terminal, row.state \in Live
  PROVE  ~NeedsCapability /\ \A q \in Requests : pc[q] \notin {"persist", "submit"}
<1>0. /\ "slow" \notin Faults /\ MergeInv(p) /\ MergeJobInv(p) /\ lock \in Launchers \cup {Nobody}
      /\ \A q \in Requests : LaunchInv(q)
  BY Zenon DEF CapabilitiesAreKept, SeqInv, TypeOK, JobInv
<1>1. SnapshotCurrent(p) /\ cand[p].state \in Terminal
  BY Zenon DEF MergeRow, Live, Terminal
<1>2. /\ p \in fresh /\ snap[p].state = row.state /\ snap[p].state \in Reconcilable
      /\ snap[p].seq = row.seq /\ snap[p].client = row.client
  BY Zenon, <1>0, <1>1 DEF SnapshotCurrent, MergeInv, Stopping, Reconcilable
<1>3. jobs[row.seq] \notin Alive /\ \A q \in Launchers : pc[q] # "submit"
  BY Zenon, <1>0, <1>1, <1>2 DEF MergeJobInv
<1>4. ~row.client
  BY Zenon, <1>1, <1>2 DEF CapabilityInv, Live, Terminal
<1>5. \A q \in Requests : pc[q] = "submit" => q \in Launchers
  BY Zenon, <1>0, ConstantsAssumption DEF LaunchInv, Unsubmitted, Persisted
<1>6. \A q \in Requests : pc[q] # "persist"
  BY Zenon, <1>0 DEF LaunchInv, Unsubmitted, Issued
<1>7. QED
  BY Zenon, <1>3, <1>4, <1>5, <1>6 DEF NeedsCapability

(* The freeze takes the capability of a merged row that is over.  When the *)
(* row cannot be saved, a live row may stay behind without its capability. *)
LEMMA FreezeCaps ==
  ASSUME CapabilitiesAreKept, SeqInv, JobInv, CapabilityInv, NEW p \in Requests, pc[p] = "merge",
         Untouched(p), pc'[p] = "idle", UNCHANGED jobs,
         Present, NEW r \in Row, r.seq = row.seq, NEW stamped, MergeRow(p, r, stamped),
         NEW removed, NEW saved \in BOOLEAN,
         FreezeAndSave(p, r, stamped, removed, saved)
  PROVE  CapsFrame
<1>1. row' = IF saved THEN Frozen(r, removed) ELSE row
  BY Zenon, SaveUntouched DEF FreezeAndSave
<1>2. caps' # caps => caps \ caps' \subseteq {r.seq} /\ r.state \in Terminal /\ removed
  BY Zenon DEF FreezeAndSave, RemoveCapability
<1>3. CASE caps' = caps
  BY Zenon, <1>3, QuietCaps DEF ClientMergeInv
<1>4. CASE caps' # caps /\ (saved \/ row.state \notin Live)
  <2>1. row'.seq = r.seq /\ row'.state \notin Live /\ row'.state # "ABSENT"
    <3>1. Frozen(r, removed) = r
      BY Zenon, <1>2, <1>4 DEF Frozen, CleanupFailed
    <3>2. QED
      BY Zenon, <1>1, <1>2, <1>4, <3>1 DEF Present, Live, Terminal
  <2>2. \A n \in caps \ caps' : Past(n)'
    BY Zenon, <1>2, <1>4, <2>1 DEF Past, Present
  <2>3. QED
    BY Zenon, <2>2, QuietCaps DEF ClientMergeInv
<1>5. CASE caps' # caps /\ ~saved /\ row.state \in Live
  <2>1. ~NeedsCapability /\ \A q \in Requests : pc[q] \notin {"persist", "submit"}
    BY Zenon, <1>2, <1>5, MergedTaken
  <2>2. ~NeedsCapability' /\ \A q \in Requests : pc'[q] \notin {"persist", "submit"}
    BY Zenon, <1>1, <1>5, <2>1 DEF NeedsCapability, Untouched
  <2>3. QED
    BY Zenon, <2>2, QuietCaps DEF ClientMergeInv
<1>6. QED
  BY Zenon, <1>3, <1>4, <1>5

LEMMA StopCaps ==
  ASSUME CapabilitiesAreKept, SeqInv, SeqInv', JobInv, CapabilityInv, NEW p \in Stoppers, Stop(p)
  PROVE  CapabilityInv'
<1>0. /\ p \in Requests /\ TypeOK /\ TypeOK' /\ Tables /\ RowInv /\ PastInv(p)
      /\ Untouched(p)
  BY Zenon, StopUntouched DEF SeqInv, TypeOK, Tables, Requests
<1>1. KeepsRun
  BY Zenon, <1>0, StopInv
<1>2. CASE StopMark(p) \/ StopUnlink(p)
  <2>1. UNCHANGED <<caps, jobs>> /\ pc'[p] \in {"release", "observe", "merge"}
    BY Zenon, <1>0, <1>2, GotoUntouched DEF StopMark, StopUnlink, outside
  <2>2. ClientMergeInv(p)'
    <3>1. CASE StopMark(p)
      BY Zenon, <1>0, <3>1 DEF StopMark, ClientMergeInv, Goto, Tables
    <3>2. CASE StopUnlink(p)
      BY Zenon, <1>0, <3>2 DEF StopUnlink, ClientMergeInv, Tables
    <3>3. QED
      BY Zenon, <1>2, <3>1, <3>2
  <2>3. QED
    BY Zenon, <1>0, <1>1, <2>1, <2>2, QuietCaps, CapsKept
<1>3. CASE StopRelease(p)
  <2>1. /\ UNCHANGED <<row, deleted, jobs>> /\ pc'[p] = "unlink"
        /\ caps \ caps' \subseteq {snap[p].seq} /\ pc[p] = "release"
    BY Zenon, <1>0, <1>3, GotoUntouched, ReleaseTakes DEF StopRelease, store
  <2>2. \A n \in caps \ caps' : Past(n)'
    BY Zenon, <1>0, <2>1, PastSame DEF PastInv
  <2>3. QED
    BY Zenon, <1>0, <1>1, <2>1, <2>2, QuietCaps, CapsKept DEF ClientMergeInv
<1>4. CASE StopMerge(p)
  <2>1. UNCHANGED jobs /\ pc'[p] = "idle" /\ pc[p] = "merge"
    BY Zenon, <1>0, <1>4, ReturnUntouched DEF StopMerge
  <2>2. CASE row = NoRow
    <3>1. UNCHANGED caps
      BY Zenon, <1>4, <2>2 DEF StopMerge
    <3>2. QED
      BY Zenon, <1>0, <1>1, <2>1, <3>1, QuietCaps, CapsKept DEF ClientMergeInv
  <2>3. CASE row # NoRow
    <3>1. Present
      BY Zenon, <1>0, <2>3 DEF RowInv
    <3>2. PICK reworded \in Rewordings(p), removed \in Outcomes("file"), saved \in Outcomes("save") :
            FreezeAndSave(p, Settled(p, Merged(p, reworded)),
                          MergeApplies(p, reworded) \/ Kept(p) \/ Freed(p), removed, saved)
      BY Zenon, <1>4, <2>3 DEF StopMerge
    <3>3. reworded \in BOOLEAN /\ saved \in BOOLEAN
      BY Zenon, OutcomesBoolean DEF Rewordings
    <3>4. /\ Settled(p, Merged(p, reworded)) \in Row /\ Settled(p, Merged(p, reworded)).seq = row.seq
          /\ MergeRow(p, Settled(p, Merged(p, reworded)), MergeApplies(p, reworded) \/ Kept(p) \/ Freed(p))
      BY Zenon, <1>0, <2>1, <3>1, <3>3, MergedRow, MergedIs
    <3>5. CapsFrame
      BY Zenon, <1>0, <2>1, <3>1, <3>2, <3>3, <3>4, FreezeCaps
    <3>6. QED
      BY Zenon, <1>1, <3>5, CapsKept
  <2>4. QED
    BY Zenon, <2>2, <2>3
<1>5. QED
  BY Zenon, <1>0, <1>2, <1>3, <1>4, ObserveCaps DEF Stop

LEMMA ReconcileCaps ==
  ASSUME CapabilitiesAreKept, SeqInv, SeqInv', JobInv, CapabilityInv, Reconcile
  PROVE  CapabilityInv'
<1> DEFINE p == Reconciler
<1>0. /\ p \in Requests /\ TypeOK /\ TypeOK' /\ Tables /\ RowInv /\ Untouched(p)
  BY Zenon, ReconcileUntouched DEF SeqInv, TypeOK, Tables, Requests
<1>1. KeepsRun
  BY Zenon, <1>0, ReconcileInv
<1>2. CASE ReconcileBegin
  <2>1. UNCHANGED <<caps, jobs>> /\ pc'[p] = "observe"
    BY Zenon, <1>0, <1>2, GotoUntouched DEF ReconcileBegin, outside
  <2>2. QED
    BY Zenon, <1>0, <1>1, <2>1, QuietCaps, CapsKept DEF ClientMergeInv
<1>3. CASE ReconcileMerge
  <2>1. UNCHANGED jobs /\ pc'[p] = "idle" /\ pc[p] = "merge"
    BY Zenon, <1>0, <1>3, ReturnUntouched DEF ReconcileMerge
  <2>2. CASE UNCHANGED caps
    BY Zenon, <1>0, <1>1, <2>1, <2>2, QuietCaps, CapsKept DEF ClientMergeInv
  <2>3. CASE \E reworded \in Rewordings(p) :
               /\ MergeApplies(p, reworded)
               /\ \E removed \in Outcomes("file"), saved \in Outcomes("save") :
                    FreezeAndSave(p, Merged(p, reworded), TRUE, removed, saved)
    <3>1. PICK reworded \in Rewordings(p), removed \in Outcomes("file"), saved \in Outcomes("save") :
            /\ MergeApplies(p, reworded)
            /\ FreezeAndSave(p, Merged(p, reworded), TRUE, removed, saved)
      BY Zenon, <2>3
    <3>2. reworded \in BOOLEAN /\ saved \in BOOLEAN /\ Present
      BY Zenon, <1>0, <3>1, OutcomesBoolean DEF Rewordings, MergeApplies, SnapshotCurrent, RowInv
    <3>3. /\ Merged(p, reworded) \in Row /\ Merged(p, reworded).seq = row.seq
          /\ MergeRow(p, Merged(p, reworded), TRUE)
      BY Zenon, <1>0, <2>1, <3>1, <3>2, MergedRow, MergedIs
    <3>4. CapsFrame
      BY Zenon, <1>0, <2>1, <3>1, <3>2, <3>3, FreezeCaps
    <3>5. QED
      BY Zenon, <1>1, <3>4, CapsKept
  <2>4. QED
    BY Zenon, <1>3, <2>2, <2>3 DEF ReconcileMerge
<1>4. QED
  BY Zenon, <1>0, <1>2, <1>3, ObserveCaps DEF Reconcile

LEMMA DeleteCaps ==
  ASSUME SeqInv, SeqInv', CapabilityInv, NEW p \in Deleters, Delete(p)
  PROVE  CapabilityInv'
<1>0. /\ p \in Requests /\ TypeOK /\ TypeOK' /\ Tables /\ RowInv /\ PastInv(p)
      /\ Untouched(p)
  BY Zenon, DeleteUntouched DEF SeqInv, TypeOK, Tables, Requests
<1>1. CASE DeleteRow(p)
  <2>1. row'.state \notin Live /\ fresh' = {} /\ pc'[p] = "forget"
    BY Zenon, <1>0, <1>1, GotoUntouched DEF DeleteRow, NoRow, Live
  <2>2. \A q \in Requests : ClientMergeInv(q)'
    BY Zenon, <1>0, <2>1, OtherMerges DEF ClientMergeInv
  <2>3. QED
    BY Zenon, <2>1, <2>2 DEF CapabilityInv, LiveHasCapability, ClientMergeInv
<1>2. CASE DeleteCapability(p)
  <2>1. /\ UNCHANGED <<row, recorded, deleted, jobs>> /\ pc'[p] = "idle"
        /\ caps \ caps' \subseteq {snap[p].seq} /\ pc[p] = "forget"
    BY Zenon, <1>0, <1>2, ReturnUntouched DEF DeleteCapability, store
  <2>2. \A n \in caps \ caps' : Past(n)'
    BY Zenon, <1>0, <2>1, PastSame DEF PastInv
  <2>3. QED
    BY Zenon, <1>0, <2>1, <2>2, QuietKeepsRun, QuietCaps, CapsKept DEF ClientMergeInv
<1>3. QED
  BY Zenon, <1>1, <1>2 DEF Delete

LEMMA LinkCaps ==
  ASSUME SeqInv, SeqInv', CapabilityInv, NEW p \in Dialers, Link(p)
  PROVE  CapabilityInv'
<1>0. p \in Requests /\ TypeOK /\ TypeOK' /\ Tables /\ Untouched(p) /\ KeepsRun
  BY Zenon, LinkUntouched, LinkInv DEF SeqInv, TypeOK, Tables, Requests
<1>1. UNCHANGED <<caps, jobs>> /\ pc'[p] \in {"register", "announce", "linked", "idle"}
  BY Zenon, <1>0, GotoUntouched, ReturnUntouched
     DEF Link, LinkAccept, LinkRegister, LinkAnnounce, LinkClose, outside
<1>2. QED
  BY Zenon, <1>0, <1>1, QuietCaps, CapsKept DEF ClientMergeInv

(* A restart that interrupts a freeze.                                     *)
LEMMA CrashCaps ==
  ASSUME CapabilitiesAreKept, SeqInv, SeqInv', JobInv, CapabilityInv, Crash
  PROVE  CapabilityInv'
<1>0. RowInv /\ \A q \in Requests : PastInv(q)
  BY Zenon DEF SeqInv
<1>1. UNCHANGED <<row, recorded, deleted, jobs>> /\ \A q \in Requests : pc'[q] = "idle"
  BY Zenon DEF Crash, store
<1>2. (\A n \in caps \ caps' : Past(n)') \/ ~NeedsCapability'
  <2>1. CASE caps' = caps
    BY Zenon, <2>1
  <2>2. CASE caps' # caps
    <3>1. PICK r \in Freezing : caps' = RemoveCapability(r, TRUE)
      BY Zenon, <2>2 DEF Crash
    <3>2. r.state \in Terminal /\ caps \ caps' \subseteq {r.seq}
      BY Zenon, <2>2, <3>1 DEF RemoveCapability
    <3>3. CASE \E p \in Launchers : pc[p] = "freeze" /\ r = snap[p]
      BY Zenon, <1>0, <1>1, <3>2, <3>3, PastSame DEF PastInv, Requests
    <3>4. CASE \E p \in Stoppers \cup {Reconciler} : pc[p] = "merge" /\ r = Merged(p, FALSE)
      <4>1. PICK p \in Stoppers \cup {Reconciler} : pc[p] = "merge" /\ r = Merged(p, FALSE)
        BY Zenon, <3>4
      <4>2. p \in Requests
        BY Zenon DEF Requests
      <4>3. Present
        <5>1. row # NoRow \/ row.state \in Terminal
          BY Zenon, <3>2, <4>1 DEF Merged, MergeApplies, SnapshotCurrent
        <5>2. QED
          BY Zenon, <1>0, <5>1 DEF RowInv, Present, Terminal
      <4>4. r.seq = row.seq /\ \E stamped \in BOOLEAN : MergeRow(p, r, stamped)
        <5>1. PICK reworded \in BOOLEAN : reworded = FALSE
          BY Zenon
        <5>2. r.seq = row.seq /\ (MergeApplies(p, reworded) => MergeRow(p, r, TRUE))
          BY Zenon, <4>1, <4>2, <4>3, <5>1, MergedIs
        <5>3. ~MergeApplies(p, reworded) => MergeRow(p, r, FALSE)
          BY Zenon, <4>1, <5>1 DEF Merged, MergeRow
        <5>4. QED
          BY Zenon, <5>2, <5>3
      <4>5. CASE row.state \in Live
        BY Zenon, <1>1, <3>2, <4>1, <4>2, <4>4, <4>5, MergedTaken DEF NeedsCapability
      <4>6. CASE row.state \notin Live
        BY Zenon, <1>1, <3>2, <4>3, <4>4, <4>6 DEF Past, Present
      <4>7. QED
        BY Zenon, <4>5, <4>6
    <3>5. QED
      BY Zenon, <3>1, <3>3, <3>4 DEF Freezing
  <2>3. QED
    BY Zenon, <2>1, <2>2
<1>3. CapsFrame
  BY Zenon, <1>1, <1>2 DEF CapsFrame, ClientMergeInv
<1>4. QED
  BY Zenon, <1>1, <1>3, QuietKeepsRun, CapsKept

LEMMA CapabilityStep ==
  ASSUME ~Redefinition, CapabilitiesAreKept, SeqInv, JobInv, CapabilityInv, [Next]_vars
  PROVE  CapabilityInv'
<1>0. /\ SeqInv' /\ TypeOK /\ TypeOK' /\ Tables /\ RefusalsAreDefinite
  BY Zenon, SeqStep DEF SeqInv, TypeOK, Tables, CapabilitiesAreKept, JobsAreFound
<1>1. CASE Define \/ \E n \in Seqs, final \in Terminal : AdoptRuns(n, final)
  <2>1. fresh' = {} /\ UNCHANGED <<pc, snap, cand>> /\ (Defined \/ Adopted)
    BY Zenon, <1>0, <1>1, DefineInv, AdoptInv DEF Define, AdoptRuns
  <2>2. row'.state \notin Live
    BY Zenon, <2>1 DEF Defined, Adopted, Live, Terminal
  <2>3. QED
    BY Zenon, <2>1, <2>2 DEF CapabilityInv, LiveHasCapability
<1>2. CASE \/ \E n \in Seqs : JobStep(n)
           \/ Tick \/ PushOut
           \/ UNCHANGED vars
  <2>1. /\ UNCHANGED <<row, recorded, deleted, caps, pc, snap, cand, fresh>>
        /\ \A n \in Seqs : (jobs'[n] = "none" <=> jobs[n] = "none") /\ (jobs'[n] \in Alive => jobs[n] \in Alive)
    BY Zenon, <1>0, <1>2 DEF JobStep, Tick, PushOut, Tables, Alive, vars, store, outside, memory
  <2>2. KeepsRun
    BY Zenon, <2>1 DEF KeepsRun, RecordsOne
  <2>3. CapsFrame
    BY Zenon, <2>1 DEF CapsFrame, ClientMergeInv, CapabilityInv
  <2>4. QED
    BY Zenon, <1>0, <2>2, <2>3, CapsKept
<1>3. QED
  BY Zenon, <1>0, <1>1, <1>2, LaunchCaps, PersistCaps, StopCaps, ReconcileCaps, DeleteCaps, LinkCaps, CrashCaps
     DEF Next

LEMMA CapabilityInit ==
  ASSUME Init
  PROVE  CapabilityInv
<1>1. row.state = "ABSENT"
  BY Zenon DEF Init, NoRow
<1>2. \A q \in Requests : pc[q] = "idle"
  BY Zenon DEF Init
<1>3. QED
  BY Zenon, <1>1, <1>2 DEF CapabilityInv, LiveHasCapability, Live

-----------------------------------------------------------------------------
(* What a run is shown as, and the link that says so.                      *)

ShownRunning == {"STARTING", "READY"}

(* A job that left the queue stays out of it, a run comes to be shown as   *)
(* running only when it has begun, and is then not sent back.              *)
ReadyFrame ==
  /\ \A n \in Seqs : Begun(n) => Begun(n)'
  /\ row'.state \in ShownRunning =>
       KeepsRun /\ (row.state \in ShownRunning \/ row.client \/ Begun(row.seq) \/ Begun(row.seq)')
  /\ row.state = "READY" /\ row'.seq = row.seq => row'.state \notin {"QUEUED", "STARTING"}

(* The registered link is that of a connection that is past its register.  *)
RegistryInv == registry # Nobody => pc[registry] \in {"announce", "linked"}

LEMMA OtherDials ==
  ASSUME SeqInv, SeqInv', RunStep, \A n \in Seqs : Begun(n) => Begun(n)',
         NEW q \in Requests, DialInv(q), pc'[q] = pc[q], snap'[q] = snap[q]
  PROVE  DialInv(q)'
<1> SUFFICES ASSUME pc[q] \in {"register", "announce", "linked"}
             PROVE  /\ snap[q].seq > 0
                    /\ Present' => snap[q].seq <= row'.seq
                    /\ ~Present' => deleted'
                    /\ snap[q].seq = row'.seq => row'.client \/ Begun(row.seq)'
  BY Zenon DEF DialInv
<1>0. /\ row \in Row /\ row' \in Row /\ snap[q] \in Row
      /\ ~Present => row = NoRow
  BY Zenon DEF SeqInv, TypeOK, RowInv
<1>1. /\ snap[q].seq > 0 /\ (Present => snap[q].seq <= row.seq) /\ (~Present => deleted)
      /\ snap[q].seq = row.seq => row.client \/ Begun(row.seq)
  BY Zenon DEF DialInv
<1>2. snap[q].seq \in Seqs
  BY SMTT(20), <1>0, <1>1 DEF Row, Seqs
<1>3. CASE KeepsRun
  <2>1. row'.seq = row.seq /\ row'.client = row.client /\ (Present' <=> Present) /\ deleted' = deleted
    BY Zenon, <1>3 DEF KeepsRun, SameRun, RunRow, Present
  <2>2. QED
    BY Zenon, <1>1, <1>2, <2>1
<1>4. CASE Defined
  BY Zenon, <1>1, <1>4 DEF Defined, Present, NoRow
<1>5. CASE Adopted
  <2>1. Present /\ row.seq = 0
    BY Zenon, <1>5 DEF Adopted, Present, Terminal
  <2>2. QED
    BY SMTT(20), <1>0, <1>1, <2>1 DEF Row
<1>6. CASE NextRun
  <2>1. Present /\ Present' /\ row'.seq = row.seq + 1
    BY Zenon, <1>6 DEF NextRun, Present, Terminal, Live
  <2>2. snap[q].seq < row'.seq
    BY SMTT(20), <1>0, <1>1, <2>1 DEF Row
  <2>3. snap[q].seq <= row'.seq /\ snap[q].seq # row'.seq
    BY SMTT(20), <1>0, <2>2 DEF Row
  <2>4. QED
    BY Zenon, <1>1, <2>1, <2>3
<1>7. CASE Forgotten
  <2>1. ~Present' /\ deleted' /\ row'.seq = 0
    BY Zenon, <1>7 DEF Forgotten, Present, NoRow
  <2>2. snap[q].seq # 0
    BY SMTT(20), <1>0, <1>1 DEF Row
  <2>3. QED
    BY Zenon, <1>1, <2>1, <2>2
<1>8. QED
  BY Zenon, <1>3, <1>4, <1>5, <1>6, <1>7 DEF RunStep

LEMMA OtherMergesReady ==
  ASSUME SeqInv, \A n \in Seqs : Begun(n) => Begun(n)',
         NEW q \in Requests, MergeReadyInv(q), q \in fresh' => q \in fresh,
         pc'[q] = pc[q], snap'[q] = snap[q], cand'[q] = cand[q]
  PROVE  MergeReadyInv(q)'
<1> SUFFICES ASSUME pc[q] \in Stopping, q \in fresh
             PROVE  /\ snap[q].state \in {"STARTING", "READY"} => snap[q].client \/ Begun(snap[q].seq)'
                    /\ pc[q] = "merge" =>
                         /\ cand[q].state \in {"STARTING", "READY"} => snap[q].client \/ Begun(snap[q].seq)'
                         /\ snap[q].state = "READY" => cand[q].state \notin {"QUEUED", "STARTING"}
  BY Zenon DEF MergeReadyInv
<1>0. MergeInv(q) /\ snap[q] \in Row
  BY Zenon DEF SeqInv, TypeOK
<1>1. pc[q] = "merge" /\ cand[q].state \in {"STARTING", "READY"} => snap[q].state \in Reconcilable
  BY Zenon, <1>0 DEF MergeInv, Follows, Row, Reconcilable, Live, Terminal
<1>2. snap[q].state \in Reconcilable => snap[q].seq \in Seqs
  <2>1. snap[q].state \in Reconcilable => snap[q].seq > 0
    BY Zenon, <1>0 DEF MergeInv
  <2>2. QED
    BY SMTT(20), <1>0, <2>1 DEF Row, Seqs
<1>3. QED
  BY Zenon, <1>1, <1>2 DEF MergeReadyInv, Reconcilable, Live

LEMMA ReadyKept ==
  ASSUME SeqInv, SeqInv', ReadyInv, RunStep, ReadyFrame, RegistryInv', NEW p, Untouched(p),
         p \in Requests => DialInv(p)' /\ MergeReadyInv(p)'
  PROVE  ReadyInv'
<1>0. row \in Row /\ row' \in Row /\ RowInv /\ RowInv'
  BY Zenon DEF SeqInv, TypeOK
<1>1. row'.state \in {"STARTING", "READY"} => row'.client \/ Begun(row.seq)'
  <2>1. SUFFICES ASSUME row'.state \in {"STARTING", "READY"}
                 PROVE  row'.client \/ Begun(row.seq)'
    OBVIOUS
  <2>2. row'.seq = row.seq /\ row'.client = row.client
    BY Zenon, <2>1 DEF ReadyFrame, ShownRunning, KeepsRun, SameRun, RunRow
  <2>3. row.client \/ Begun(row.seq) \/ Begun(row.seq)'
    BY Zenon, <2>1 DEF ReadyFrame, ShownRunning, ReadyInv
  <2>4. row'.seq > 0
    BY Zenon, <1>0, <2>1 DEF RowInv, Reconcilable, Live
  <2>5. row.seq \in Seqs
    BY SMTT(20), <1>0, <2>2, <2>4 DEF Row, Seqs
  <2>6. QED
    BY Zenon, <2>2, <2>3, <2>5 DEF ReadyFrame
<1>2. \A q \in Requests \ {p} : DialInv(q)' /\ MergeReadyInv(q)'
  BY Zenon, OtherDials, OtherMergesReady DEF ReadyInv, ReadyFrame, Untouched
<1>3. QED
  BY Zenon, <1>1, <1>2 DEF ReadyInv, RegistryInv

(* A request that is neither a connection nor about to merge.              *)
LEMMA QuietReady ==
  ASSUME NEW p, pc'[p] \notin Stopping \cup {"register", "announce", "linked"}
  PROVE  DialInv(p)' /\ MergeReadyInv(p)'
BY Zenon DEF DialInv, MergeReadyInv

LEMMA NoDial ==
  ASSUME NEW p, pc'[p] \notin {"register", "announce", "linked"}
  PROVE  DialInv(p)'
BY Zenon DEF DialInv

LEMMA NoReadyMerge ==
  ASSUME NEW p, pc'[p] \notin Stopping \/ p \notin fresh'
  PROVE  MergeReadyInv(p)'
BY Zenon DEF MergeReadyInv

LEMMA RegistryKept ==
  ASSUME TypeOK, ReadyInv, NEW p, Untouched(p), pc[p] \notin {"announce", "linked"},
         registry' \in {registry, Nobody}
  PROVE  RegistryInv'
<1>1. registry # Nobody => registry \in Requests \ {p} /\ pc[registry] \in {"announce", "linked"}
  BY Zenon DEF ReadyInv, TypeOK, Requests
<1>2. QED
  BY Zenon, <1>1 DEF RegistryInv, Untouched

LEMMA ShownKeepsRun ==
  ASSUME RunStep, row'.state \in ShownRunning, row.state \notin Terminal
  PROVE  KeepsRun
BY Zenon DEF ShownRunning, RunStep, Defined, Adopted, NextRun, Forgotten, NoRow

(* A step that neither writes the row nor moves a job back.                *)
LEMMA QuietFrame ==
  ASSUME RunStep, row'.state = row.state, \A n \in Seqs : Begun(n) => Begun(n)'
  PROVE  ReadyFrame
BY Zenon, ShownKeepsRun DEF ReadyFrame, ShownRunning, Terminal

LEMMA ScancelBegun ==
  ASSUME TypeOK, NEW n, NEW done, Scancel(n, done)
  PROVE  \A m \in Seqs : Begun(m) => Begun(m)'
BY Zenon DEF Scancel, Begun, TypeOK, Alive

(* The steps of a launch keep to the launch's own program counters.        *)
LEMMA LaunchSteps ==
  ASSUME Tables, NEW p \in Launchers, Launch(p)
  PROVE  /\ pc[p] \in {"idle"} \cup LauncherSteps
         /\ pc'[p] \in {"idle"} \cup LauncherSteps
         /\ UNCHANGED <<registry, deleted, unreleased>>
<1>0. p \in Requests
  BY Zenon DEF Requests
<1>1. CASE \/ \E kind \in Kinds \ {"adopt"}, tun \in Modes : LaunchBegin(p, kind, tun)
           \/ LaunchRetire(p) \/ LaunchFreeze(p) \/ LaunchSerialize(p)
           \/ LaunchClaim(p) \/ LaunchIssue(p) \/ LaunchUnissue(p)
  BY Zenon, <1>0, <1>1, GotoUntouched, ReturnUntouched
     DEF LaunchBegin, LaunchRetire, LaunchFreeze, LaunchSerialize, LaunchClaim, LaunchIssue,
         LaunchUnissue, LauncherSteps, store
<1>2. CASE LaunchPersist(p) \/ LaunchSubmit(p) \/ LaunchRecord(p) \/ LaunchUnsaved(p)
  BY Zenon, <1>0, <1>2, GotoUntouched, ReturnUntouched
     DEF LaunchPersist, LaunchSubmit, LaunchRecord, LaunchUnsaved, LauncherSteps, store
<1>3. CASE LaunchCancel(p) \/ LaunchCancelled(p) \/ LaunchAbandon(p) \/ LaunchAbandoned(p)
  BY Zenon, <1>0, <1>3, GotoUntouched, ReturnUntouched
     DEF LaunchCancel, LaunchCancelled, LaunchAbandon, LaunchAbandoned, LauncherSteps, store
<1>4. QED
  BY Zenon, <1>1, <1>2, <1>3 DEF Launch

LEMMA LaunchFrame ==
  ASSUME SeqInv, ReadyInv, RunStep, NEW p \in Launchers, Launch(p)
  PROVE  ReadyFrame
<1>0. /\ p \in Requests /\ TypeOK /\ Tables /\ LaunchInv(p) /\ row \in Row
  BY Zenon DEF SeqInv, TypeOK, Tables, Requests
<1>1. CASE \/ \E kind \in Kinds \ {"adopt"}, tun \in Modes : LaunchBegin(p, kind, tun)
           \/ LaunchRetire(p) \/ LaunchFreeze(p) \/ LaunchSerialize(p)
           \/ LaunchClaim(p) \/ LaunchIssue(p) \/ LaunchUnissue(p) \/ LaunchAbandon(p)
  <2>1. UNCHANGED <<row, jobs>>
    BY Zenon, <1>1
       DEF LaunchBegin, LaunchRetire, LaunchFreeze, LaunchSerialize, LaunchClaim, LaunchIssue,
           LaunchUnissue, LaunchAbandon, store, outside
  <2>2. QED
    BY Zenon, <2>1, QuietFrame DEF Begun
<1>2. CASE LaunchPersist(p)
  <2>1. UNCHANGED jobs
    BY Zenon, <1>2 DEF LaunchPersist, outside
  <2>2. CASE UNCHANGED row
    BY Zenon, <2>1, <2>2, QuietFrame DEF Begun
  <2>3. CASE ~UNCHANGED row
    <3>1. row' = cand[p] /\ row.state = snap[p].state /\ pc[p] = "persist"
      BY Zenon, <1>2, <2>3, SaveUntouched DEF LaunchPersist
    <3>2. cand[p].state \in {"QUEUED", "SUBMITTING"} /\ snap[p].state \in Terminal
      BY Zenon, <1>0, <3>1 DEF LaunchInv, Unsubmitted, BeforePersist, Issued
    <3>3. QED
      BY Zenon, <2>1, <3>1, <3>2 DEF ReadyFrame, ShownRunning, Begun, Terminal
  <2>4. QED
    BY Zenon, <2>2, <2>3
<1>3. CASE LaunchSubmit(p)
  <2>1. UNCHANGED row /\ jobs[cand[p].seq] = "none"
    BY Zenon, <1>0, <1>3 DEF LaunchSubmit, LaunchInv, Unsubmitted, store
  <2>2. \A n \in Seqs : Begun(n) => Begun(n)'
    <3>1. \A n \in Seqs : n # cand[p].seq => jobs'[n] = jobs[n]
      BY Zenon, <1>0, <1>3 DEF LaunchSubmit, Tables
    <3>2. QED
      BY Zenon, <2>1, <3>1 DEF Begun
  <2>3. QED
    BY Zenon, <2>1, <2>2, QuietFrame
<1>4. CASE LaunchRecord(p) \/ LaunchCancelled(p) \/ LaunchAbandoned(p)
  <2>1. UNCHANGED jobs
    BY Zenon, <1>4 DEF LaunchRecord, LaunchCancelled, LaunchAbandoned, outside
  <2>2. \/ row'.state = row.state
        \/ row'.state = "QUEUED" /\ row.state \in {"SUBMITTING", "QUEUED"}
        \/ row'.state \in Terminal
    <3>1. CASE LaunchRecord(p)
      <4> DEFINE state == IF row.state \in {"SUBMITTING", "QUEUED"} THEN "QUEUED" ELSE row.state
      <4>1. row' = row \/ row' = [row EXCEPT !.job = cand[p].seq, !.state = state]
        BY Zenon, <3>1 DEF LaunchRecord, Save
      <4>2. state = row.state \/ (state = "QUEUED" /\ row.state \in {"SUBMITTING", "QUEUED"})
        BY Zenon
      <4> HIDE DEF state
      <4>3. [row EXCEPT !.job = cand[p].seq, !.state = state].state = state
        BY Zenon, <1>0 DEF Row
      <4>4. QED
        BY Zenon, <4>1, <4>2, <4>3
    <3>2. CASE LaunchCancelled(p)
      BY SMTT(20), <1>0, <3>2 DEF LaunchCancelled, Save, Row
    <3>3. CASE LaunchAbandoned(p)
      <4> DEFINE state == IF row.state = "SUBMITTING" THEN "FAILED" ELSE "STOPPED"
      <4>1. row' = row \/ row' = [row EXCEPT !.state = state, !.tun = FALSE, !.err = cand[p].err]
        BY Zenon, <3>3 DEF LaunchAbandoned, Save
      <4>2. state \in Terminal
        BY Zenon DEF Terminal
      <4> HIDE DEF state
      <4>3. [row EXCEPT !.state = state, !.tun = FALSE, !.err = cand[p].err].state = state
        BY Zenon, <1>0 DEF Row
      <4>4. QED
        BY Zenon, <4>1, <4>2, <4>3
    <3>4. QED
      BY Zenon, <1>4, <3>1, <3>2, <3>3
  <2>3. CASE row'.state = row.state
    BY Zenon, <2>1, <2>3, QuietFrame DEF Begun
  <2>4. CASE row'.state # row.state
    BY Zenon, <2>1, <2>2, <2>4 DEF ReadyFrame, ShownRunning, Terminal, Begun
  <2>5. QED
    BY Zenon, <2>3, <2>4
<1>5. CASE LaunchUnsaved(p) \/ LaunchCancel(p)
  <2>1. UNCHANGED row /\ \A n \in Seqs : Begun(n) => Begun(n)'
    BY Zenon, <1>0, <1>5, ScancelBegun DEF LaunchUnsaved, LaunchCancel, store
  <2>2. QED
    BY Zenon, <2>1, QuietFrame
<1>6. QED
  BY Zenon, <1>1, <1>2, <1>3, <1>4, <1>5 DEF Launch

LEMMA LaunchReady ==
  ASSUME SeqInv, SeqInv', ReadyInv, RunStep, NEW p \in Launchers, Launch(p)
  PROVE  ReadyInv' /\ ReadyFrame
<1>0. p \in Requests /\ TypeOK /\ Tables /\ Untouched(p)
  BY Zenon, LaunchUntouched DEF SeqInv, TypeOK, Tables, Requests
<1>1. /\ pc[p] \notin {"announce", "linked"} /\ registry' = registry
      /\ pc'[p] \notin Stopping \cup {"register", "announce", "linked"}
  BY Zenon, <1>0, LaunchSteps DEF LauncherSteps, Stopping
<1>2. RegistryInv' /\ DialInv(p)' /\ MergeReadyInv(p)'
  BY Zenon, <1>0, <1>1, RegistryKept, QuietReady
<1>3. ReadyFrame
  BY Zenon, LaunchFrame
<1>4. QED
  BY Zenon, <1>0, <1>2, <1>3, ReadyKept

(* A pass shows a run as running when Slurm says so, when a link does, or  *)
(* when it was so before; only a pending job sends a READY run back.       *)
LEMMA NextStateShows ==
  ASSUME NEW from \in Reconcilable, NEW o
  PROVE  /\ NextState(from, o) \in ShownRunning => o = "active"
         /\ NextState(from, o) = "QUEUED" => o = "pending"
         /\ NextState("READY", o) # "STARTING"
BY Zenon DEF NextState, ShownRunning, Reconcilable, Live

LEMMA ApplyShows ==
  ASSUME NEW s \in Row, s.state \in Reconcilable, NEW n, NEW o, NEW linked \in BOOLEAN, NEW e
  PROVE  LET a == ApplyObservation(s, n, o, linked, e) IN
         /\ a.state \in ShownRunning => \/ o = "unknown" /\ s.state \in ShownRunning
                                       \/ o = "active"
                                       \/ linked
         /\ s.state = "READY" /\ a.state \in {"QUEUED", "STARTING"} => o = "pending"
<1> DEFINE adopted == IF s.job = 0 THEN n ELSE s.job
           next == NextState(s.state, o)
           shown == IF next \in {"QUEUED", "STARTING"} /\ linked THEN "READY" ELSE next
           pending == s.state = "STOPPING" /\ shown = "STOPPING" /\ e
           seen == [s EXCEPT !.job = adopted, !.state = shown,
                             !.started = s.started \/ o = "active", !.err = pending]
           kept == [s EXCEPT !.job = adopted]
<1>1. ApplyObservation(s, n, o, linked, e) = IF o = "unknown" THEN kept ELSE seen
  BY Zenon DEF ApplyObservation
<1>2. kept.state = s.state /\ seen.state = shown
  BY Zenon DEF Row
<1>3. /\ next \in ShownRunning => o = "active"
      /\ next = "QUEUED" => o = "pending"
      /\ s.state = "READY" => next # "STARTING"
  BY Zenon, NextStateShows
<1>4. shown = next \/ (shown = "READY" /\ linked)
  BY Zenon
<1> HIDE DEF kept, seen, shown, next
<1>5. QED
  BY Zenon, <1>1, <1>2, <1>3, <1>4 DEF ShownRunning

LEMMA LogsShow ==
  ASSUME NEW c \in Row, NEW d \in WithLogs(c)
  PROVE  /\ d.state \in ShownRunning => c.state \in ShownRunning
         /\ d.state \in {"QUEUED", "STARTING"} => c.state \in {"QUEUED", "STARTING"}
BY Zenon DEF WithLogs, Row, ShownRunning

(* What a pass makes of a run that is not its client's.                    *)
Shows(s, c) ==
  /\ c.state \in ShownRunning =>
       s.state \in ShownRunning \/ Begun(Target(s)) \/ jobs'[Target(s)] = "active" \/ Linked(s)
  /\ s.state = "READY" /\ c.state \in {"QUEUED", "STARTING"} =>
       jobs[Target(s)] = "pending" \/ jobs'[Target(s)] = "pending"

LEMMA SchedulerShows ==
  ASSUME TypeOK, NEW s \in Row, s.state \in Reconcilable, NEW cancelled \in BOOLEAN,
         NEW c \in ObserveScheduler(s, cancelled)
  PROVE  Shows(s, c)
<1> DEFINE n == Target(s)
           seen == ({jobs[n], jobs'[n]} \cap Alive) \cup (IF jobs'[n] = "done" THEN Endings ELSE {})
                     \cup (IF "unreachable" \in Faults THEN {"unknown"} ELSE {})
<1>1. CASE \E o \in seen : c \in WithLogs(ApplyObservation(s, n, o, Linked(s), ~cancelled))
  <2>1. PICK o \in seen : c \in WithLogs(ApplyObservation(s, n, o, Linked(s), ~cancelled))
    BY Zenon, <1>1
  <2> DEFINE a == ApplyObservation(s, n, o, Linked(s), ~cancelled)
  <2>2. Linked(s) \in BOOLEAN /\ (~cancelled) \in BOOLEAN
    BY Zenon DEF Linked
  <2>3. a \in Row
    BY Zenon, <2>2, ApplyObservationCandidate DEF Candidate
  <2>4. /\ a.state \in ShownRunning =>
             (o = "unknown" /\ s.state \in ShownRunning) \/ o = "active" \/ Linked(s)
        /\ s.state = "READY" /\ a.state \in {"QUEUED", "STARTING"} => o = "pending"
    BY Zenon, <2>2, ApplyShows
  <2>5. o \in {"active", "pending"} => jobs[n] = o \/ jobs'[n] = o
    BY Zenon, <2>1 DEF Endings
  <2> HIDE DEF a
  <2>6. /\ c.state \in ShownRunning => a.state \in ShownRunning
        /\ c.state \in {"QUEUED", "STARTING"} => a.state \in {"QUEUED", "STARTING"}
    BY Zenon, <2>1, <2>3, LogsShow DEF a
  <2>7. QED
    BY Zenon, <2>4, <2>5, <2>6 DEF Shows, Begun
<1>2. CASE c = MissingFromScheduler(s, age)
  <2>1. c.state = s.state \/ c.state = "STOPPED"
    BY Zenon, <1>2 DEF MissingFromScheduler, Row
  <2>2. QED
    BY Zenon, <2>1 DEF Shows, ShownRunning
<1>3. QED
  BY ZenonT(40), <1>1, <1>2 DEF ObserveScheduler

LEMMA NothingShows ==
  ASSUME NEW s \in Row, NEW c \in ObserveNothing(s)
  PROVE  Shows(s, c)
<1>1. c = s \/ \E e : c = UnreachableScheduler(s, e)
  BY Zenon DEF ObserveNothing
<1>2. c.state = s.state \/ c.state = "STOPPED"
  BY Zenon, <1>1 DEF UnreachableScheduler, Row
<1>3. QED
  BY Zenon, <1>2 DEF Shows, ShownRunning

LEMMA ObserveReady ==
  ASSUME SeqInv, SeqInv', ReadyInv, RunStep, NEW p \in Requests, ReconcileSnapshots(p)
  PROVE  ReadyInv' /\ ReadyFrame
<1> DEFINE s == snap[p]
<1>0. /\ TypeOK /\ Tables /\ MergeInv(p) /\ MergeReadyInv(p) /\ s \in Row
      /\ Untouched(p) /\ pc'[p] = "merge"
  BY Zenon, ObserveUntouched DEF SeqInv, TypeOK, Tables, ReadyInv
<1>1. pc[p] = "observe" /\ UNCHANGED <<row, snap, fresh, registry>>
  BY Zenon DEF ReconcileSnapshots, store
<1>2. s.state \in Reconcilable /\ s.seq \in Seqs /\ Target(s) = s.seq
  <2>1. s.state \in Reconcilable /\ s.seq > 0 /\ s.job \in {0, s.seq}
    BY Zenon, <1>0, <1>1 DEF MergeInv, Stopping
  <2>2. QED
    BY SMTT(20), <1>0, <2>1 DEF Row, Seqs, Target
<1>3. \A n \in Seqs : Begun(n) => Begun(n)'
  BY Zenon, <1>0, ScancelBegun DEF ReconcileSnapshots, Begun
<1>4. ReadyFrame
  BY Zenon, <1>1, <1>3, QuietFrame
<1>5. RegistryInv' /\ DialInv(p)'
  BY Zenon, <1>0, <1>1, RegistryKept, NoDial
<1>6. ASSUME p \in fresh
      PROVE  /\ s.state \in ShownRunning => s.client \/ (Begun(s.seq) /\ jobs'[s.seq] \in {"active", "done"})
             /\ Linked(s) => s.client \/ Begun(s.seq)
  <2>1. s.state \in ShownRunning => s.client \/ Begun(s.seq)
    BY Zenon, <1>0, <1>1, <1>6 DEF MergeReadyInv, Stopping, ShownRunning
  <2>2. Begun(s.seq) => jobs'[s.seq] \in {"active", "done"}
    BY Zenon, <1>2, <1>3 DEF Begun
  <2>3. row.seq = s.seq /\ row.client = s.client
    BY Zenon, <1>0, <1>1, <1>6 DEF MergeInv, Stopping
  <2>4. ASSUME Linked(s)
        PROVE  s.client \/ Begun(s.seq)
    <3>1. registry \in Requests /\ registry # Nobody /\ snap[registry].seq = s.seq
      BY Zenon, <1>0, <2>4 DEF Linked, TypeOK, Requests
    <3>2. DialInv(registry) /\ pc[registry] \in {"announce", "linked"}
      BY Zenon, <3>1 DEF ReadyInv
    <3>3. QED
      BY Zenon, <2>3, <3>1, <3>2 DEF DialInv
  <2>5. QED
    BY Zenon, <2>1, <2>2, <2>4
<1>7. MergeReadyInv(p)'
  <2>1. CASE p \notin fresh
    BY Zenon, <1>1, <2>1, NoReadyMerge
  <2>2. CASE p \in fresh /\ s.client
    <3>1. PICK c \in ObserveClient(s) : cand' = [cand EXCEPT ![p] = c]
      BY Zenon, <2>2 DEF ReconcileSnapshots
    <3>2. s.state = "READY" => c = s
      BY Zenon, <3>1 DEF ObserveClient
    <3>3. cand'[p] = c
      BY Zenon, <1>0, <3>1 DEF Tables
    <3>4. QED
      BY Zenon, <1>1, <2>2, <3>2, <3>3 DEF MergeReadyInv
  <2>3. CASE p \in fresh /\ ~s.client
    <3>1. PICK c : cand' = [cand EXCEPT ![p] = c] /\ Shows(s, c)
      BY Zenon, <1>0, <1>2, <2>3, SchedulerShows, NothingShows, OutcomesBoolean DEF ReconcileSnapshots
    <3>2. cand'[p] = c
      BY Zenon, <1>0, <3>1 DEF Tables
    <3>3. c.state \in ShownRunning => jobs'[s.seq] \in {"active", "done"}
      <4>1. Begun(s.seq) => jobs'[s.seq] \in {"active", "done"}
        BY Zenon, <1>2, <1>3 DEF Begun
      <4>2. QED
        BY Zenon, <1>2, <1>6, <2>3, <3>1, <4>1 DEF Shows
    <3>4. s.state = "READY" => c.state \notin {"QUEUED", "STARTING"}
      BY Zenon, <1>2, <1>6, <2>3, <3>1 DEF Shows, ShownRunning, Begun
    <3>5. s.state \in ShownRunning => jobs'[s.seq] \in {"active", "done"}
      BY Zenon, <1>6, <2>3
    <3>6. QED
      BY Zenon, <1>1, <3>2, <3>3, <3>4, <3>5 DEF MergeReadyInv, ShownRunning, Begun
  <2>4. QED
    BY Zenon, <2>1, <2>2, <2>3
<1>8. QED
  BY Zenon, <1>0, <1>4, <1>5, <1>7, ReadyKept

(* The merge of a pass over a current snapshot, or over another row.       *)
LEMMA FreezeStates ==
  ASSUME NEW p, NEW r \in Row, NEW stamped, MergeRow(p, r, stamped), NEW removed, NEW saved,
         FreezeAndSave(p, r, stamped, removed, saved)
  PROVE  row'.state \in {row.state, "STOPPING"} \/ (SnapshotCurrent(p) /\ row'.state = cand[p].state)
<1>1. UNCHANGED row \/ row' = Frozen(r, removed)
  BY Zenon DEF FreezeAndSave, Save
<1>2. row'.state \in {row.state, r.state, "STOPPING"}
  BY Zenon, <1>1, FrozenFields
<1>3. QED
  BY Zenon, <1>2 DEF MergeRow

LEMMA MergeStates ==
  ASSUME SeqInv, NEW p \in Requests, StopMerge(p) \/ (p = Reconciler /\ ReconcileMerge)
  PROVE  row'.state \in {row.state, "STOPPING"} \/ (SnapshotCurrent(p) /\ row'.state = cand[p].state)
<1>0. RowInv /\ pc[p] = "merge"
  BY Zenon DEF SeqInv, StopMerge, ReconcileMerge
<1>1. CASE UNCHANGED row
  BY Zenon, <1>1
<1>2. CASE StopMerge(p) /\ ~UNCHANGED row
  <2>1. row # NoRow /\ Present
    BY Zenon, <1>0, <1>2 DEF StopMerge, RowInv
  <2>2. PICK reworded \in Rewordings(p), removed \in Outcomes("file"), saved \in Outcomes("save") :
          FreezeAndSave(p, Settled(p, Merged(p, reworded)),
                        MergeApplies(p, reworded) \/ Kept(p) \/ Freed(p), removed, saved)
    BY Zenon, <1>2 DEF StopMerge
  <2>3. reworded \in BOOLEAN
    BY Zenon DEF Rewordings
  <2>4. /\ Settled(p, Merged(p, reworded)) \in Row
        /\ MergeRow(p, Settled(p, Merged(p, reworded)), MergeApplies(p, reworded) \/ Kept(p) \/ Freed(p))
    BY Zenon, <1>0, <2>1, <2>3, MergedRow, MergedIs
  <2>5. QED
    BY Zenon, <2>2, <2>4, FreezeStates
<1>3. CASE p = Reconciler /\ ReconcileMerge /\ ~UNCHANGED row
  <2>1. PICK reworded \in Rewordings(p), removed \in Outcomes("file"), saved \in Outcomes("save") :
          /\ MergeApplies(p, reworded)
          /\ FreezeAndSave(p, Merged(p, reworded), TRUE, removed, saved)
    BY Zenon, <1>3 DEF ReconcileMerge
  <2>2. reworded \in BOOLEAN /\ Present
    BY Zenon, <1>0, <2>1 DEF Rewordings, MergeApplies, SnapshotCurrent, RowInv
  <2>3. Merged(p, reworded) \in Row /\ MergeRow(p, Merged(p, reworded), TRUE)
    BY Zenon, <1>0, <2>1, <2>2, MergedRow, MergedIs
  <2>4. QED
    BY Zenon, <2>1, <2>3, FreezeStates
<1>4. QED
  BY Zenon, <1>1, <1>2, <1>3

LEMMA MergeReady ==
  ASSUME SeqInv, SeqInv', ReadyInv, RunStep, NEW p \in Requests, Untouched(p), pc'[p] = "idle",
         StopMerge(p) \/ (p = Reconciler /\ ReconcileMerge)
  PROVE  ReadyInv' /\ ReadyFrame
<1>0. TypeOK /\ RowInv /\ MergeInv(p) /\ MergeReadyInv(p)
  BY Zenon DEF SeqInv, ReadyInv
<1>1. pc[p] = "merge" /\ UNCHANGED <<jobs, registry>>
  BY Zenon DEF StopMerge, ReconcileMerge
<1>2. \A n \in Seqs : Begun(n) => Begun(n)'
  BY Zenon, <1>1 DEF Begun
<1>3. ReadyFrame
  <2>1. CASE row'.state = row.state
    BY Zenon, <1>2, <2>1, QuietFrame
  <2>2. CASE row'.state = "STOPPING"
    BY Zenon, <1>2, <2>2 DEF ReadyFrame, ShownRunning
  <2>3. CASE SnapshotCurrent(p) /\ row'.state = cand[p].state /\ row'.state # row.state
    <3>1. /\ p \in fresh /\ snap[p].state = row.state /\ snap[p].seq = row.seq
          /\ snap[p].client = row.client
      BY Zenon, <1>0, <1>1, <2>3 DEF SnapshotCurrent, MergeInv, Stopping
    <3>2. row'.state \in ShownRunning => row.client \/ Begun(row.seq)
      BY Zenon, <1>0, <1>1, <2>3, <3>1 DEF MergeReadyInv, Stopping, ShownRunning
    <3>3. row.state = "READY" => row'.state \notin {"QUEUED", "STARTING"}
      BY Zenon, <1>0, <1>1, <2>3, <3>1 DEF MergeReadyInv, Stopping
    <3>4. row'.state \in ShownRunning => row.state \notin Terminal
      BY Zenon, <1>0, <1>1, <2>3, <3>1 DEF MergeInv, Follows
    <3>5. QED
      BY Zenon, <1>2, <3>2, <3>3, <3>4, ShownKeepsRun DEF ReadyFrame
  <2>4. QED
    BY Zenon, <2>1, <2>2, <2>3, MergeStates
<1>4. RegistryInv' /\ DialInv(p)' /\ MergeReadyInv(p)'
  BY Zenon, <1>0, <1>1, RegistryKept, QuietReady DEF Stopping
<1>5. QED
  BY Zenon, <1>3, <1>4, ReadyKept

LEMMA StopReady ==
  ASSUME SeqInv, SeqInv', ReadyInv, RunStep, NEW p \in Stoppers, Stop(p)
  PROVE  ReadyInv' /\ ReadyFrame
<1>0. /\ p \in Requests /\ TypeOK /\ Tables /\ MergeReadyInv(p) /\ Untouched(p)
      /\ row \in Row /\ snap[p] \in Row
  BY Zenon, StopUntouched DEF SeqInv, TypeOK, Tables, Requests, ReadyInv
<1>1. CASE StopMark(p)
  <2>1. pc[p] = "idle" /\ pc'[p] = "release" /\ UNCHANGED <<jobs, registry>>
    BY Zenon, <1>0, <1>1, GotoUntouched DEF StopMark, outside
  <2>2. \/ UNCHANGED row /\ row.state \in Terminal
        \/ row'.state = "STOPPING"
    BY Zenon, <1>0, <1>1 DEF StopMark, Row
  <2>3. snap'[p] = row'
    BY Zenon, <1>0, <1>1 DEF StopMark, Read, Tables
  <2>4. ReadyFrame
    <3>1. \A n \in Seqs : Begun(n) => Begun(n)'
      BY Zenon, <2>1 DEF Begun
    <3>2. QED
      BY Zenon, <2>2, <3>1, QuietFrame DEF ReadyFrame, ShownRunning
  <2>5. MergeReadyInv(p)'
    BY Zenon, <2>1, <2>2, <2>3 DEF MergeReadyInv, Terminal
  <2>6. RegistryInv' /\ DialInv(p)'
    BY Zenon, <1>0, <2>1, RegistryKept, NoDial
  <2>7. QED
    BY Zenon, <1>0, <2>4, <2>5, <2>6, ReadyKept
<1>2. CASE StopRelease(p) \/ StopUnlink(p)
  <2>1. /\ pc[p] \in {"release", "unlink"} /\ pc'[p] \in {"unlink", "observe", "merge"}
        /\ UNCHANGED <<row, jobs, snap, fresh>> /\ registry' \in {registry, Nobody}
    BY Zenon, <1>0, <1>2, GotoUntouched DEF StopRelease, StopUnlink, store, outside
  <2>2. pc'[p] = "merge" => cand'[p] = snap[p] /\ snap[p].state \notin Reconcilable
    <3>1. CASE StopRelease(p)
      BY Zenon, <1>0, <3>1 DEF StopRelease, Goto, Tables
    <3>2. CASE StopUnlink(p)
      <4>1. cand'[p] = snap[p]
        BY Zenon, <1>0, <3>2 DEF StopUnlink, Tables
      <4>2. pc'[p] = IF snap[p].state \in Reconcilable THEN "observe" ELSE "merge"
        BY Zenon, <1>0, <3>2 DEF StopUnlink, Goto, Tables
      <4>3. QED
        BY Zenon, <4>1, <4>2
    <3>3. QED
      BY Zenon, <1>2, <3>1, <3>2
  <2>3. ReadyFrame
    BY Zenon, <2>1, QuietFrame DEF Begun
  <2>4. MergeReadyInv(p)'
    BY Zenon, <1>0, <2>1, <2>2 DEF MergeReadyInv, Stopping, Begun, Reconcilable, Live
  <2>5. RegistryInv' /\ DialInv(p)'
    BY Zenon, <1>0, <2>1, RegistryKept, NoDial
  <2>6. QED
    BY Zenon, <1>0, <2>3, <2>4, <2>5, ReadyKept
<1>3. CASE StopMerge(p)
  BY Zenon, <1>0, <1>3, ReturnUntouched, MergeReady DEF StopMerge
<1>4. QED
  BY Zenon, <1>0, <1>1, <1>2, <1>3, ObserveReady DEF Stop

LEMMA ReconcileReady ==
  ASSUME SeqInv, SeqInv', ReadyInv, RunStep, Reconcile
  PROVE  ReadyInv' /\ ReadyFrame
<1> DEFINE p == Reconciler
<1>0. p \in Requests /\ TypeOK /\ Tables /\ Untouched(p)
  BY Zenon, ReconcileUntouched DEF SeqInv, TypeOK, Tables, Requests
<1>1. CASE ReconcileBegin
  <2>1. /\ pc[p] = "idle" /\ pc'[p] = "observe" /\ UNCHANGED <<row, jobs, registry>>
        /\ snap'[p] = row
    BY Zenon, <1>0, <1>1, GotoUntouched DEF ReconcileBegin, Read, store, outside, Tables
  <2>2. ReadyFrame
    BY Zenon, <2>1, QuietFrame DEF Begun
  <2>3. MergeReadyInv(p)'
    BY Zenon, <2>1 DEF MergeReadyInv, ReadyInv, Begun
  <2>4. RegistryInv' /\ DialInv(p)'
    BY Zenon, <1>0, <2>1, RegistryKept, NoDial
  <2>5. QED
    BY Zenon, <1>0, <2>2, <2>3, <2>4, ReadyKept
<1>2. CASE ReconcileMerge
  BY Zenon, <1>0, <1>2, ReturnUntouched, MergeReady DEF ReconcileMerge
<1>3. QED
  BY Zenon, <1>0, <1>1, <1>2, ObserveReady DEF Reconcile

LEMMA DeleteReady ==
  ASSUME SeqInv, SeqInv', ReadyInv, RunStep, NEW p \in Deleters, Delete(p)
  PROVE  ReadyInv' /\ ReadyFrame
<1>0. p \in Requests /\ TypeOK /\ Tables /\ Untouched(p)
  BY Zenon, DeleteUntouched DEF SeqInv, TypeOK, Tables, Requests
<1>1. /\ pc[p] \in {"idle", "forget"} /\ pc'[p] \in {"idle", "forget"} /\ UNCHANGED <<jobs, registry>>
      /\ row'.state \in {row.state, "ABSENT"}
  <2>1. CASE DeleteRow(p)
    BY Zenon, <1>0, <2>1, GotoUntouched DEF DeleteRow, outside, NoRow
  <2>2. CASE DeleteCapability(p)
    BY Zenon, <1>0, <2>2, ReturnUntouched DEF DeleteCapability, store
  <2>3. QED
    BY Zenon, <2>1, <2>2 DEF Delete
<1>2. ReadyFrame
  <2>1. \A n \in Seqs : Begun(n) => Begun(n)'
    BY Zenon, <1>1 DEF Begun
  <2>2. QED
    BY Zenon, <1>1, <2>1, QuietFrame DEF ReadyFrame, ShownRunning
<1>3. RegistryInv' /\ DialInv(p)' /\ MergeReadyInv(p)'
  BY Zenon, <1>0, <1>1, RegistryKept, QuietReady DEF Stopping
<1>4. QED
  BY Zenon, <1>0, <1>2, <1>3, ReadyKept

LEMMA LinkReady ==
  ASSUME SeqInv, SeqInv', ReadyInv, RunStep, NEW p \in Dialers, Link(p)
  PROVE  ReadyInv' /\ ReadyFrame
<1>0. /\ p \in Requests /\ TypeOK /\ Tables /\ Untouched(p) /\ RowInv
      /\ row \in Row /\ DialInv(p) /\ (registry # Nobody => registry \in Requests)
  BY Zenon, LinkUntouched DEF SeqInv, TypeOK, Tables, Requests, ReadyInv
<1>1. pc'[p] \in {"idle", "register", "announce", "linked"} /\ UNCHANGED jobs
  BY Zenon, <1>0, GotoUntouched, ReturnUntouched
     DEF Link, LinkAccept, LinkRegister, LinkAnnounce, LinkClose, outside
<1>2. (\A n \in Seqs : Begun(n) => Begun(n)') /\ MergeReadyInv(p)'
  BY Zenon, <1>1, NoReadyMerge DEF Begun, Stopping
<1>3. CASE LinkAccept(p)
  <2>1. /\ pc[p] = "idle" /\ pc'[p] = "register" /\ UNCHANGED <<row, deleted, registry>>
        /\ row.state \in Reconcilable /\ (row.client \/ jobs[row.seq] = "active")
    BY Zenon, <1>0, <1>3, GotoUntouched DEF LinkAccept, store
  <2>2. snap'[p].seq = row.seq
    BY SMTT(20), <1>0, <1>3 DEF LinkAccept, Tables, Row
  <2>3. row.seq > 0 /\ Present /\ row.seq <= row.seq
    <3>1. row.seq > 0 /\ Present
      BY Zenon, <1>0, <2>1 DEF RowInv, Reconcilable, Live, Present
    <3>2. QED
      BY SMTT(20), <1>0, <3>1 DEF Row
  <2>4. DialInv(p)'
    BY Zenon, <1>1, <2>1, <2>2, <2>3 DEF DialInv, Present, Begun
  <2>5. RegistryInv' /\ ReadyFrame
    BY Zenon, <1>0, <1>2, <2>1, RegistryKept, QuietFrame
  <2>6. QED
    BY Zenon, <1>0, <1>2, <2>4, <2>5, ReadyKept
<1>4. CASE LinkRegister(p)
  <2>1. /\ pc[p] = "register" /\ pc'[p] = "announce" /\ UNCHANGED <<row, deleted, snap>> /\ registry' = p
    BY Zenon, <1>0, <1>4, GotoUntouched DEF LinkRegister, store
  <2>2. DialInv(p)'
    BY Zenon, <1>0, <1>1, <2>1 DEF DialInv, Present, Begun
  <2>3. RegistryInv' /\ ReadyFrame
    BY Zenon, <1>2, <2>1, QuietFrame DEF RegistryInv
  <2>4. QED
    BY Zenon, <1>0, <1>2, <2>2, <2>3, ReadyKept
<1>5. CASE LinkAnnounce(p)
  <2>1. pc[p] = "announce" /\ pc'[p] = "linked" /\ UNCHANGED <<deleted, snap, registry>>
    BY Zenon, <1>0, <1>5, GotoUntouched DEF LinkAnnounce
  <2>2. \/ UNCHANGED row
        \/ row'.state = "READY" /\ row.seq = snap[p].seq /\ row.state \in {"QUEUED", "STARTING"}
    <3>1. \/ UNCHANGED row
          \/ /\ row.seq = snap[p].seq /\ row.state \in {"QUEUED", "STARTING"}
             /\ row' = [row EXCEPT !.state = "READY", !.err = FALSE, !.started = TRUE]
      BY Zenon, <1>5 DEF LinkAnnounce, Save
    <3>2. [row EXCEPT !.state = "READY", !.err = FALSE, !.started = TRUE].state = "READY"
      BY Zenon, <1>0 DEF Row
    <3>3. QED
      BY Zenon, <3>1, <3>2
  <2>3. ReadyFrame
    <3>1. CASE UNCHANGED row
      BY Zenon, <1>2, <3>1, QuietFrame
    <3>2. CASE row'.state = "READY" /\ row.seq = snap[p].seq /\ row.state \in {"QUEUED", "STARTING"}
      <4>1. row.client \/ Begun(row.seq)
        BY Zenon, <1>0, <2>1, <3>2 DEF DialInv
      <4>2. KeepsRun
        BY Zenon, <3>2, ShownKeepsRun DEF ShownRunning, Terminal
      <4>3. QED
        BY Zenon, <1>2, <3>2, <4>1, <4>2 DEF ReadyFrame
    <3>3. QED
      BY Zenon, <2>2, <3>1, <3>2
  <2>4. DialInv(p)'
    <3>1. pc[p] = "announce" => pc[p] \in {"register", "announce", "linked"}
      OBVIOUS
    <3>2. row'.seq = row.seq /\ row'.client = row.client /\ (Present <=> Present')
      BY Zenon, <1>0, LinkInv DEF KeepsRun, SameRun, RunRow, Present, SeqInv
    <3>3. QED
      BY Zenon, <1>0, <1>1, <2>1, <3>2 DEF DialInv, Begun
  <2>5. RegistryInv'
    BY Zenon, <1>0, <2>1 DEF RegistryInv, ReadyInv, Untouched
  <2>6. QED
    BY Zenon, <1>0, <1>2, <2>3, <2>4, <2>5, ReadyKept
<1>6. CASE LinkClose(p)
  <2>1. pc'[p] = "idle" /\ UNCHANGED row /\ registry' = IF registry = p THEN Nobody ELSE registry
    BY Zenon, <1>0, <1>6, ReturnUntouched DEF LinkClose, store
  <2>2. DialInv(p)' /\ ReadyFrame
    BY Zenon, <1>2, <2>1, NoDial, QuietFrame
  <2>3. RegistryInv'
    BY Zenon, <1>0, <2>1 DEF RegistryInv, ReadyInv, Untouched
  <2>4. QED
    BY Zenon, <1>0, <1>2, <2>2, <2>3, ReadyKept
<1>7. QED
  BY Zenon, <1>3, <1>4, <1>5, <1>6 DEF Link

LEMMA ReadyStep ==
  ASSUME ~Redefinition, JobsAreNotRequeued, SeqInv, ReadyInv, [Next]_vars
  PROVE  ReadyInv' /\ ReadyFrame
<1>0. SeqInv' /\ RunStep /\ TypeOK /\ Tables
  BY Zenon, SeqStep DEF SeqInv, TypeOK, Tables
<1>1. CASE \/ Define \/ \E n \in Seqs, final \in Terminal : AdoptRuns(n, final)
           \/ \E n \in Seqs : JobStep(n)
           \/ Tick \/ PushOut
           \/ UNCHANGED vars
  <2>1. /\ UNCHANGED <<pc, snap, cand, registry>> /\ fresh' \subseteq fresh
        /\ row'.state = row.state \/ row'.state \in Terminal
    <3>1. CASE Define \/ \E n \in Seqs, final \in Terminal : AdoptRuns(n, final)
      BY Zenon, <1>0, <3>1, DefineInv, AdoptInv DEF Define, AdoptRuns, Defined, Adopted, Terminal, SeqInv
    <3>2. CASE (\E n \in Seqs : JobStep(n)) \/ Tick \/ PushOut \/ UNCHANGED vars
      BY Zenon, <3>2 DEF JobStep, Tick, PushOut, vars, store, memory
    <3>3. QED
      BY Zenon, <1>1, <3>1, <3>2
  <2>2. \A n \in Seqs : Begun(n) => Begun(n)'
    BY Zenon, <1>0, <1>1
       DEF Define, AdoptRuns, JobStep, Tick, PushOut, vars, outside, Tables, Begun, Alive, JobsAreNotRequeued
  <2>3. ReadyFrame
    BY Zenon, <1>0, <2>1, <2>2, QuietFrame DEF ReadyFrame, ShownRunning, Terminal
  <2>4. /\ Untouched(Nobody) /\ RegistryInv' /\ Nobody \notin Requests
    BY Zenon, <2>1, ConstantsAssumption DEF Untouched, RegistryInv, ReadyInv, ConstantsAssumption
  <2>5. QED
    BY Zenon, <1>0, <2>3, <2>4, ReadyKept
<1>2. CASE Crash
  <2>1. UNCHANGED <<row, jobs>> /\ registry' = Nobody /\ \A q \in Requests : pc'[q] = "idle"
    BY Zenon, <1>2 DEF Crash, store, outside
  <2>2. \A q \in Requests : DialInv(q)' /\ MergeReadyInv(q)'
    BY Zenon, <2>1, QuietReady DEF Stopping
  <2>3. ReadyFrame
    BY Zenon, <1>0, <2>1, QuietFrame DEF Begun
  <2>4. QED
    BY Zenon, <2>1, <2>2, <2>3 DEF ReadyInv, Begun
<1>3. QED
  BY Zenon, <1>0, <1>1, <1>2, LaunchReady, StopReady, ReconcileReady, DeleteReady, LinkReady DEF Next

LEMMA ReadyInit ==
  ASSUME Init
  PROVE  ReadyInv
<1>1. row.state = "ABSENT" /\ registry = Nobody
  BY Zenon DEF Init, NoRow
<1>2. \A q \in Requests : pc[q] = "idle"
  BY Zenon DEF Init
<1>3. QED
  BY Zenon, <1>1, <1>2 DEF ReadyInv, DialInv, MergeReadyInv, Stopping

(* ReadyInv is an invariant while no job is requeued.                      *)
THEOREM ReadyInvariant ==
  ASSUME ~Redefinition, JobsAreNotRequeued
  PROVE  Spec => []ReadyInv
<1>1. Init => ReadyInv
  BY Zenon, ReadyInit
<1>2. SeqInv /\ ReadyInv /\ [Next]_vars => ReadyInv'
  BY Zenon, ReadyStep
<1>3. QED
  BY <1>1, <1>2, SeqInvariant, PTL DEF Spec

(* Reconciliation never takes READY from a run whose link is registered,   *)
(* nor from one whose link has closed: a job that a link was accepted for  *)
(* has begun, and Slurm calls it pending again only if it is requeued.     *)
THEOREM LinkedReadyStays ==
  ASSUME ~Redefinition, JobsAreNotRequeued
  PROVE  Spec => LinkedStaysReady
<1> DEFINE Stays == row.state = "READY" /\ Linked(row) /\ row'.seq = row.seq
                      => row'.state \notin {"QUEUED", "STARTING"}
<1>1. SeqInv /\ ReadyInv /\ [Next]_vars => [Stays]_vars
  BY Zenon, ReadyStep DEF ReadyFrame
<1> HIDE DEF Stays
<1>2. Spec => [][Stays]_vars
  BY <1>1, SeqInvariant, ReadyInvariant, PTL DEF Spec
<1>3. QED
  BY <1>2 DEF Stays, LinkedStaysReady

-----------------------------------------------------------------------------
(* Tunnels.                                                                *)

(* A step that creates no tunnel and starts no run, and that forgets the   *)
(* tunnel of the row only when it is gone.                                 *)
TunnelFrame ==
  /\ tunnels' \subseteq tunnels
  /\ row'.seq = row.seq
  /\ row'.tun => row.tun
  /\ row.tun /\ ~row'.tun => row.seq \notin tunnels'

(* What a step of p does to the tunnels that others know of.               *)
TunnelStep(p) ==
  /\ \A q \in Stoppers \ {p} : q \in unreleased' <=> q \in unreleased
  /\ p \in Stoppers /\ pc'[p] \in Stopping /\ snap'[p].tun =>
       row.tun \/ (pc[p] \in Stopping /\ snap[p].tun)
  /\ p \in Launchers /\ pc[p] \in {"persist", "unissue"} /\ cand[p].tun /\ cand[p].seq \in tunnels' =>
       pc'[p] \in {"persist", "unissue"} /\ cand'[p] = cand[p]

LEMMA NoTunnelReadKept ==
  ASSUME TunnelFrame, NEW p, Untouched(p), TunnelStep(p), NoTunnelRead
  PROVE  NoTunnelRead'
<1>1. \A q \in Stoppers : q \in Requests
  BY Zenon DEF Requests
<1>2. ASSUME NEW q \in Stoppers, pc'[q] \in Stopping
      PROVE  ~snap'[q].tun
  <2>1. CASE q = p
    BY Zenon, <1>2, <2>1 DEF TunnelStep, NoTunnelRead
  <2>2. CASE q # p
    BY Zenon, <1>1, <1>2, <2>2 DEF NoTunnelRead, Untouched
  <2>3. QED
    BY Zenon, <2>1, <2>2
<1>3. QED
  BY Zenon, <1>2 DEF NoTunnelRead, TunnelFrame

LEMMA OtherLaunchTunnel ==
  ASSUME TunnelFrame, NEW p, Untouched(p), TunnelStep(p),
         NEW q \in Launchers, q # p, LaunchTunnelInv(q)
  PROVE  LaunchTunnelInv(q)'
<1>0. /\ pc'[q] = pc[q] /\ snap'[q] = snap[q] /\ cand'[q] = cand[q] /\ (q \in fresh' => q \in fresh)
  BY Zenon DEF Untouched, Requests
<1>1. NoTunnelRead => NoTunnelRead'
  BY Zenon, NoTunnelReadKept
<1>2. /\ row'.seq = row.seq /\ tunnels' \subseteq tunnels
  BY Zenon DEF TunnelFrame
<1>3. QED
  BY Zenon, <1>0, <1>1, <1>2 DEF LaunchTunnelInv

LEMMA OtherStopTunnel ==
  ASSUME TunnelFrame, NEW p, Untouched(p), TunnelStep(p),
         NEW q \in Stoppers, q # p, StopTunnelInv(q)
  PROVE  StopTunnelInv(q)'
<1>0. /\ pc'[q] = pc[q] /\ snap'[q] = snap[q] /\ (q \in unreleased' <=> q \in unreleased)
  BY Zenon DEF Untouched, Requests, TunnelStep
<1>1. row'.seq = row.seq /\ tunnels' \subseteq tunnels
  BY Zenon DEF TunnelFrame
<1>2. QED
  BY Zenon, <1>0, <1>1 DEF StopTunnelInv

LEMMA TunnelsKept ==
  ASSUME TunnelInv, TunnelFrame, NEW p, Untouched(p), TunnelStep(p),
         p \in Launchers => LaunchTunnelInv(p)',
         p \in Stoppers => StopTunnelInv(p)'
  PROVE  TunnelInv'
<1>1. row'.tun => row'.seq > 0
  BY Zenon DEF TunnelInv, TunnelFrame
<1>2. ASSUME NEW n \in tunnels'
      PROVE  (row'.seq = n /\ row'.tun) \/ Held(n)'
  <2>1. n \in tunnels
    BY Zenon DEF TunnelFrame
  <2>2. CASE row.seq = n /\ row.tun
    BY Zenon, <1>2, <2>2 DEF TunnelFrame
  <2>3. CASE Held(n)
    <3>1. PICK q \in Launchers : pc[q] \in {"persist", "unissue"} /\ cand[q].seq = n /\ cand[q].tun
      BY Zenon, <2>3 DEF Held
    <3>2. pc'[q] \in {"persist", "unissue"} /\ cand'[q] = cand[q]
      <4>1. CASE q = p
        BY Zenon, <1>2, <3>1, <4>1 DEF TunnelStep
      <4>2. CASE q # p
        BY Zenon, <3>1, <4>2 DEF Untouched, Requests
      <4>3. QED
        BY Zenon, <4>1, <4>2
    <3>3. QED
      BY Zenon, <3>1, <3>2 DEF Held
  <2>4. QED
    BY Zenon, <2>1, <2>2, <2>3 DEF TunnelInv
<1>3. \A q \in Launchers : LaunchTunnelInv(q)'
  BY Zenon, OtherLaunchTunnel DEF TunnelInv
<1>4. \A q \in Stoppers : StopTunnelInv(q)'
  BY Zenon, OtherStopTunnel DEF TunnelInv
<1>5. QED
  BY Zenon, <1>1, <1>2, <1>3, <1>4 DEF TunnelInv

(* A request that is neither a launch under way nor a Stop.                *)
LEMMA QuietTunnel ==
  ASSUME NEW p, pc'[p] \notin LauncherSteps \cup Stopping
  PROVE  LaunchTunnelInv(p)' /\ StopTunnelInv(p)'
<1>1. pc'[p] \notin Issued \cup Stopping \cup {"unlink", "observe", "merge", "persist"}
  BY Zenon DEF LauncherSteps, Issued, Stopping
<1>2. QED
  BY Zenon, <1>1 DEF LaunchTunnelInv, StopTunnelInv, LauncherSteps

(* Without failures a tunnel is released when it is asked for.             *)
LEMMA ReleasedTunnel ==
  ASSUME TunnelsAreReleased, NEW n, NEW tun \in BOOLEAN, NEW token \in Outcomes("credential"),
         NEW u \in Outcomes("devtunnel"), NEW removed, ReleaseTunnel(n, tun, token, u, removed)
  PROVE  tunnels' = IF tun THEN tunnels \ {n} ELSE tunnels
<1>1. "credential" \notin Faults /\ "devtunnel" \notin Faults
  BY Zenon DEF TunnelsAreReleased
<1>2. token = TRUE /\ u = TRUE
  BY Zenon, <1>1 DEF Outcomes
<1>3. QED
  BY Zenon, <1>2 DEF ReleaseTunnel

LEMMA OnlyLaunch ==
  ASSUME TunnelsAreReleased, NEW p \in Launchers, NEW q \in Launchers
  PROVE  q = p
BY Zenon DEF TunnelsAreReleased

(* The only launch holds no tunnel before it has created one.              *)
LEMMA NothingHeld ==
  ASSUME TunnelsAreReleased, TunnelInv, NEW p \in Launchers, pc[p] \notin {"persist", "unissue"}
  PROVE  \A n \in tunnels : row.seq = n /\ row.tun
<1>1. \A q \in Launchers : pc[q] \notin {"persist", "unissue"}
  BY Zenon, OnlyLaunch
<1>2. QED
  BY Zenon, <1>1 DEF TunnelInv, Held

LEMMA LaunchTunnelKept ==
  ASSUME SeqInv, TunnelInv, NEW p \in Launchers, Launch(p), TunnelFrame, LaunchTunnelInv(p)',
         pc[p] \in {"persist", "unissue"} /\ cand[p].tun /\ cand[p].seq \in tunnels' =>
           pc'[p] \in {"persist", "unissue"} /\ cand'[p] = cand[p]
  PROVE  TunnelInv'
<1>0. p \in Requests /\ Tables /\ Untouched(p)
  BY Zenon, LaunchUntouched DEF SeqInv, TypeOK, Tables, Requests
<1>1. pc'[p] \notin Stopping /\ UNCHANGED unreleased
  BY Zenon, <1>0, LaunchSteps DEF LauncherSteps, Stopping
<1>2. StopTunnelInv(p)'
  BY Zenon, <1>1 DEF StopTunnelInv, Stopping
<1>3. TunnelStep(p)
  BY Zenon, <1>1 DEF TunnelStep
<1>4. QED
  BY Zenon, <1>0, <1>2, <1>3, TunnelsKept

LEMMA QuietTunnelFrame ==
  ASSUME tunnels' \subseteq tunnels, UNCHANGED row
  PROVE  TunnelFrame
BY Zenon DEF TunnelFrame

(* A launch up to its claim: the tunnel of the finished run goes first.    *)
LEMMA RetireTunnels ==
  ASSUME TunnelsAreReleased, SeqInv, TunnelInv, NEW p \in Launchers,
         \/ \E kind \in Kinds \ {"adopt"}, tun \in Modes : LaunchBegin(p, kind, tun)
         \/ LaunchRetire(p)
  PROVE  TunnelInv'
<1>0. /\ p \in Requests /\ Tables /\ Launch(p) /\ LaunchTunnelInv(p) /\ row \in Row /\ snap[p] \in Row
  BY Zenon DEF SeqInv, TypeOK, Tables, Requests, Launch, TunnelInv
<1>1. CASE \E kind \in Kinds \ {"adopt"}, tun \in Modes : LaunchBegin(p, kind, tun)
  <2>1. /\ pc[p] = "idle" /\ pc'[p] = "retire" /\ UNCHANGED <<row, tunnels>>
        /\ snap'[p] = Finished(row)
    BY Zenon, <1>0, <1>1, GotoUntouched DEF LaunchBegin, store, outside, Tables
  <2>2. Finished(row).seq = row.seq /\ Finished(row).tun = row.tun
    BY Zenon DEF Finished, NoRow
  <2>3. row.seq \in tunnels => row.tun
    BY Zenon, <2>1, NothingHeld
  <2>4. LaunchTunnelInv(p)'
    BY Zenon, <2>1, <2>2, <2>3 DEF LaunchTunnelInv, Issued
  <2>5. QED
    BY Zenon, <1>0, <2>1, <2>4, QuietTunnelFrame, LaunchTunnelKept
<1>2. CASE LaunchRetire(p)
  <2>1. /\ pc[p] = "retire" /\ pc'[p] \in {"freeze", "idle"} /\ UNCHANGED row
    BY Zenon, <1>0, <1>2, GotoUntouched, ReturnUntouched DEF LaunchRetire, store
  <2>2. /\ tunnels' \subseteq tunnels
        /\ pc'[p] = "freeze" => tunnels' = IF snap[p].tun THEN tunnels \ {snap[p].seq} ELSE tunnels
    <3>1. CASE UNCHANGED tunnels /\ (~snap[p].tun \/ Return(p))
      BY Zenon, <1>0, <3>1, ReturnUntouched
    <3>2. CASE /\ snap[p].tun
               /\ \E token \in Outcomes("credential"), unprovided \in Outcomes("devtunnel"),
                     removed \in Outcomes("file") :
                     ReleaseTunnel(snap[p].seq, TRUE, token, unprovided, removed)
      <4>1. tunnels' = IF TRUE THEN tunnels \ {snap[p].seq} ELSE tunnels
        BY Zenon, <3>2, ReleasedTunnel
      <4>2. QED
        BY Zenon, <3>2, <4>1
    <3>3. QED
      BY Zenon, <1>2, <3>1, <3>2 DEF LaunchRetire
  <2>3. pc'[p] = "freeze" => row.seq \notin tunnels'
    BY Zenon, <1>0, <2>1, <2>2 DEF LaunchTunnelInv
  <2>4. LaunchTunnelInv(p)'
    BY Zenon, <2>1, <2>3 DEF LaunchTunnelInv, Issued
  <2>5. QED
    BY Zenon, <1>0, <2>1, <2>2, <2>4, QuietTunnelFrame, LaunchTunnelKept
<1>3. QED
  BY Zenon, <1>1, <1>2

LEMMA ClaimTunnels ==
  ASSUME TunnelsAreReleased, SeqInv, TunnelInv, NEW p \in Launchers,
         LaunchFreeze(p) \/ LaunchSerialize(p) \/ LaunchClaim(p)
  PROVE  TunnelInv'
<1>0. /\ p \in Requests /\ Tables /\ Launch(p) /\ LaunchTunnelInv(p) /\ row \in Row
      /\ cand[p] \in Row
  BY Zenon DEF SeqInv, TypeOK, Tables, Requests, Launch, TunnelInv
<1>1. /\ pc[p] \in {"freeze", "serialize", "claim"} /\ pc'[p] \in {"serialize", "claim", "issue", "idle"}
      /\ UNCHANGED <<row, tunnels>>
  <2>1. CASE LaunchFreeze(p)
    BY Zenon, <1>0, <2>1, GotoUntouched, ReturnUntouched DEF LaunchFreeze
  <2>2. CASE LaunchSerialize(p) \/ LaunchClaim(p)
    BY Zenon, <1>0, <2>2, GotoUntouched, ReturnUntouched DEF LaunchSerialize, LaunchClaim, store, outside
  <2>3. QED
    BY Zenon, <2>1, <2>2
<1>2. row'.seq \notin tunnels'
  BY Zenon, <1>0, <1>1 DEF LaunchTunnelInv
<1>3. pc'[p] = "issue" => cand'[p].seq > row'.seq
  <2>1. SUFFICES ASSUME pc'[p] = "issue" PROVE cand'[p].seq > row'.seq
    OBVIOUS
  <2>2. cand' = [cand EXCEPT ![p].seq = row.seq + 1]
    <3>1. CASE LaunchFreeze(p) \/ LaunchSerialize(p)
      BY Zenon, <1>0, <2>1, <3>1 DEF LaunchFreeze, LaunchSerialize, Goto, Return, Tables
    <3>2. CASE LaunchClaim(p)
      BY Zenon, <1>0, <2>1, <3>2 DEF LaunchClaim, NextSeq, Goto, Return, Tables
    <3>3. QED
      BY Zenon, <3>1, <3>2
  <2>3. QED
    BY SMTT(20), <1>0, <1>1, <2>2 DEF Tables, Row
<1>4. LaunchTunnelInv(p)'
  BY Zenon, <1>1, <1>2, <1>3 DEF LaunchTunnelInv, Issued
<1>5. QED
  BY Zenon, <1>0, <1>1, <1>4, QuietTunnelFrame, LaunchTunnelKept

(* The launch creates the tunnel of its run, and holds it.                 *)
LEMMA IssueTunnels ==
  ASSUME TunnelsAreReleased, SeqInv, TunnelInv, NEW p \in Launchers, LaunchIssue(p)
  PROVE  TunnelInv'
<1> DEFINE n == cand[p].seq
<1>0. /\ p \in Requests /\ TypeOK /\ Tables /\ LaunchTunnelInv(p) /\ LaunchInv(p) /\ row \in Row
      /\ cand[p] \in Row /\ snap[p] \in Row
  BY Zenon DEF SeqInv, TypeOK, Tables, Requests, TunnelInv
<1>1. /\ pc[p] = "issue" /\ pc'[p] \in {"persist", "unissue"}
      /\ UNCHANGED <<row, snap, cand, fresh, unreleased>>
      /\ \A q \in Requests \ {p} : pc'[q] = pc[q]
  BY Zenon, <1>0, GotoUntouched DEF LaunchIssue, store
<1>2. tunnels' = IF cand[p].tun THEN tunnels \cup {n} ELSE tunnels
  BY Zenon DEF LaunchIssue, TunnelsAreReleased
<1>3. n > row.seq \/ NoTunnelRead
  BY Zenon, <1>0, <1>1 DEF LaunchTunnelInv, Issued
<1>4. ASSUME NEW m \in tunnels'
      PROVE  (row'.seq = m /\ row'.tun) \/ Held(m)'
  <2>1. CASE m \in tunnels
    BY Zenon, <1>1, <2>1, NothingHeld
  <2>2. CASE cand[p].tun /\ m = n
    BY Zenon, <1>1, <2>2 DEF Held
  <2>3. QED
    BY Zenon, <1>2, <1>4, <2>1, <2>2
<1>5. NoTunnelRead => NoTunnelRead'
  <2>1. \A q \in Stoppers : pc'[q] \in Stopping => pc[q] \in Stopping
    BY Zenon, <1>1 DEF Stopping, Requests
  <2>2. QED
    BY Zenon, <1>1, <2>1 DEF NoTunnelRead
<1>6. LaunchTunnelInv(p)'
  <2>1. ASSUME p \in fresh
        PROVE  row.seq \notin tunnels'
    <3>1. row.seq \notin tunnels /\ row.seq = snap[p].seq /\ n = snap[p].seq + 1
      BY Zenon, <1>0, <1>1, <2>1 DEF LaunchTunnelInv, LaunchInv, Unsubmitted, Issued
    <3>2. row.seq # n
      BY SMTT(20), <1>0, <3>1 DEF Row
    <3>3. QED
      BY Zenon, <1>2, <3>1, <3>2
  <2>2. QED
    BY Zenon, <1>1, <1>3, <1>5, <2>1 DEF LaunchTunnelInv, Issued
<1>7. ASSUME NEW q \in Stoppers
      PROVE  StopTunnelInv(q)'
  <2>1. CASE q = p
    BY Zenon, <1>1, <2>1 DEF StopTunnelInv, Stopping
  <2>2. CASE q # p
    <3>1. q \in Requests /\ pc'[q] = pc[q] /\ StopTunnelInv(q) /\ snap[q] \in Row
      BY Zenon, <1>0, <1>1, <2>2 DEF Requests, TunnelInv, Tables
    <3>2. ASSUME pc[q] \in {"unlink", "observe", "merge"}, snap[q].tun, q \notin unreleased
          PROVE  snap[q].seq \notin tunnels'
      <4>1. snap[q].seq \notin tunnels /\ pc[q] \in Stopping
        BY Zenon, <3>1, <3>2 DEF StopTunnelInv, Stopping
      <4>2. snap[q].seq <= row.seq /\ ~NoTunnelRead
        BY Zenon, <3>1, <3>2, <4>1 DEF StopTunnelInv, NoTunnelRead
      <4>3. snap[q].seq # n
        BY SMTT(20), <1>0, <1>3, <3>1, <4>2 DEF Row
      <4>4. QED
        BY Zenon, <1>2, <4>1, <4>3
    <3>3. QED
      BY Zenon, <1>1, <3>1, <3>2 DEF StopTunnelInv
  <2>3. QED
    BY Zenon, <2>1, <2>2
<1>8. \A q \in Launchers : LaunchTunnelInv(q)'
  BY Zenon, <1>6, OnlyLaunch
<1>9. QED
  BY Zenon, <1>1, <1>4, <1>7, <1>8 DEF TunnelInv

(* The row takes the tunnel over.                                          *)
LEMMA PersistTunnels ==
  ASSUME TunnelsAreReleased, SeqInv, TunnelInv, NEW p \in Launchers, LaunchPersist(p)
  PROVE  TunnelInv'
<1>0. /\ p \in Requests /\ TypeOK /\ Tables /\ LaunchTunnelInv(p) /\ LaunchInv(p) /\ row \in Row
      /\ cand[p] \in Row /\ snap[p] \in Row /\ Launch(p) /\ Untouched(p)
  BY Zenon, LaunchUntouched DEF SeqInv, TypeOK, Tables, Requests, TunnelInv, Launch
<1>1. pc[p] = "persist" /\ UNCHANGED <<tunnels, unreleased>>
  BY Zenon DEF LaunchPersist, outside
<1>2. CASE Goto(p, "unissue") /\ UNCHANGED <<row, snap, cand>>
  <2>1. pc'[p] = "unissue"
    BY Zenon, <1>0, <1>2, GotoUntouched
  <2>2. NoTunnelRead => NoTunnelRead'
    <3>1. \A q \in Stoppers : pc'[q] \in Stopping => pc[q] \in Stopping
      BY Zenon, <1>0, <2>1 DEF Stopping, Requests, Untouched
    <3>2. QED
      BY Zenon, <1>2, <3>1 DEF NoTunnelRead
  <2>3. LaunchTunnelInv(p)'
    BY Zenon, <1>0, <1>1, <1>2, <2>1, <2>2 DEF LaunchTunnelInv, Issued
  <2>4. QED
    BY Zenon, <1>0, <1>1, <1>2, <2>1, <2>3, QuietTunnelFrame, LaunchTunnelKept
<1>3. CASE /\ p \in fresh /\ row' = cand[p] /\ pc'[p] \in {"idle", "submit"}
           /\ pc'[p] = "submit" => UNCHANGED cand
  <2>1. /\ row.seq \notin tunnels /\ row.seq = snap[p].seq /\ cand[p].seq = snap[p].seq + 1
    BY Zenon, <1>0, <1>1, <1>3 DEF LaunchTunnelInv, LaunchInv, Unsubmitted, Issued
  <2>2. row.seq < cand[p].seq /\ cand[p].seq > 0
    BY SMTT(20), <1>0, <2>1 DEF Row
  <2>3. ASSUME NEW m \in tunnels
        PROVE  m = cand[p].seq /\ cand[p].tun
    <3>1. Held(m)
      BY Zenon, <2>1, <2>3 DEF TunnelInv
    <3>2. QED
      BY Zenon, <3>1, OnlyLaunch DEF Held
  <2>4. LaunchTunnelInv(p)'
    BY Zenon, <1>1, <1>3, <2>3 DEF LaunchTunnelInv, Issued
  <2>5. ASSUME NEW q \in Stoppers
        PROVE  StopTunnelInv(q)'
    <3>1. CASE q = p
      BY Zenon, <1>3, <3>1 DEF StopTunnelInv, Stopping
    <3>2. CASE q # p
      <4>1. q \in Requests /\ pc'[q] = pc[q] /\ snap'[q] = snap[q] /\ StopTunnelInv(q) /\ snap[q] \in Row
        BY Zenon, <1>0, <3>2 DEF Requests, TunnelInv, Tables, Untouched
      <4>2. snap[q].seq <= row.seq => snap[q].seq <= cand[p].seq
        BY SMTT(20), <1>0, <2>2, <4>1 DEF Row
      <4>3. QED
        BY Zenon, <1>1, <1>3, <4>1, <4>2 DEF StopTunnelInv
    <3>3. QED
      BY Zenon, <3>1, <3>2
  <2>6. \A q \in Launchers : LaunchTunnelInv(q)'
    BY Zenon, <2>4, OnlyLaunch
  <2>7. QED
    BY Zenon, <1>1, <1>3, <2>2, <2>3, <2>5, <2>6 DEF TunnelInv
<1>4. \/ Goto(p, "unissue") /\ UNCHANGED <<row, snap, cand>>
      \/ /\ p \in fresh /\ row' = cand[p] /\ pc'[p] \in {"idle", "submit"}
         /\ pc'[p] = "submit" => UNCHANGED cand
  <2>1. PICK saved \in Outcomes("save") :
          IF p \in fresh /\ row.state = snap[p].state /\ saved
          THEN /\ Save(p, saved, cand[p])
               /\ IF cand[p].client
                  THEN Return(p)
                  ELSE /\ Goto(p, "submit")
                       /\ snap' = [snap EXCEPT ![p] = NoRow]
                       /\ UNCHANGED <<cand, lock>>
          ELSE /\ Goto(p, "unissue")
               /\ fresh' = fresh \ {p}
               /\ UNCHANGED <<row, age, snap, cand, lock>>
    BY Zenon DEF LaunchPersist
  <2>2. CASE p \in fresh /\ row.state = snap[p].state /\ saved
    <3>1. row' = cand[p]
      BY Zenon, <2>1, <2>2, SaveUntouched
    <3>2. Return(p) \/ (Goto(p, "submit") /\ UNCHANGED cand)
      BY Zenon, <2>1, <2>2
    <3>3. pc'[p] = "idle" \/ (pc'[p] = "submit" /\ UNCHANGED cand)
      BY Zenon, <1>0, <3>2, GotoUntouched, ReturnUntouched
    <3>4. QED
      BY Zenon, <2>2, <3>1, <3>3
  <2>3. CASE ~(p \in fresh /\ row.state = snap[p].state /\ saved)
    BY Zenon, <2>1, <2>3
  <2>4. QED
    BY Zenon, <2>2, <2>3
<1>5. QED
  BY Zenon, <1>2, <1>3, <1>4

(* A launch that gives up releases what it holds; a launch that goes on    *)
(* leaves the tunnel to the row.                                           *)
LEMMA ReleaseTunnels ==
  ASSUME TunnelsAreReleased, SeqInv, TunnelInv, NEW p \in Launchers,
         LaunchUnissue(p) \/ LaunchAbandon(p)
  PROVE  TunnelInv'
<1>0. /\ p \in Requests /\ Tables /\ LaunchTunnelInv(p) /\ cand[p] \in Row /\ Launch(p)
      /\ cand[p].tun \in BOOLEAN
  BY Zenon DEF SeqInv, TypeOK, Tables, Requests, TunnelInv, Launch, Row
<1>1. /\ UNCHANGED row
      /\ tunnels' = IF cand[p].tun THEN tunnels \ {cand[p].seq} ELSE tunnels
  <2>1. PICK u \in Outcomes("devtunnel"), removed \in Outcomes("file") :
          ReleaseTunnel(cand[p].seq, cand[p].tun, TRUE, u, removed)
    BY Zenon DEF LaunchUnissue, LaunchAbandon
  <2>2. PICK token : token = TRUE /\ token \in Outcomes("credential")
    BY Zenon DEF Outcomes
  <2>3. tunnels' = IF cand[p].tun THEN tunnels \ {cand[p].seq} ELSE tunnels
    BY Zenon, <1>0, <2>1, <2>2, ReleasedTunnel
  <2>4. QED
    BY Zenon, <2>3 DEF LaunchUnissue, LaunchAbandon, store
<1>2. TunnelFrame /\ (cand[p].tun => cand[p].seq \notin tunnels')
  BY Zenon, <1>1, QuietTunnelFrame
<1>3. CASE LaunchUnissue(p)
  <2>1. pc'[p] = "idle"
    BY Zenon, <1>0, <1>3, ReturnUntouched DEF LaunchUnissue
  <2>2. LaunchTunnelInv(p)'
    BY Zenon, <2>1 DEF LaunchTunnelInv, Issued
  <2>3. QED
    BY Zenon, <1>0, <1>2, <2>2, LaunchTunnelKept
<1>4. CASE LaunchAbandon(p)
  <2>1. pc[p] = "abandon" /\ pc'[p] = "abandoned"
    BY Zenon, <1>0, <1>4, GotoUntouched DEF LaunchAbandon
  <2>2. cand'[p].seq = cand[p].seq
    <3>1. PICK e : cand' = [cand EXCEPT ![p].err = e]
      BY Zenon, <1>4 DEF LaunchAbandon
    <3>2. QED
      BY SMTT(20), <1>0, <3>1 DEF Tables, Row
  <2>3. cand[p].seq \notin tunnels'
    BY Zenon, <1>0, <1>1, <1>2, <2>1 DEF LaunchTunnelInv
  <2>4. LaunchTunnelInv(p)'
    BY Zenon, <2>1, <2>2, <2>3 DEF LaunchTunnelInv, Issued
  <2>5. QED
    BY Zenon, <1>0, <1>2, <2>1, <2>4, LaunchTunnelKept
<1>5. QED
  BY Zenon, <1>3, <1>4

LEMMA SubmitTunnels ==
  ASSUME TunnelsAreReleased, SeqInv, TunnelInv, NEW p \in Launchers,
         \/ LaunchSubmit(p) \/ LaunchRecord(p) \/ LaunchUnsaved(p)
         \/ LaunchCancel(p) \/ LaunchCancelled(p) \/ LaunchAbandoned(p)
  PROVE  TunnelInv'
<1>0. /\ p \in Requests /\ Tables /\ LaunchTunnelInv(p) /\ row \in Row /\ Launch(p)
  BY Zenon DEF SeqInv, TypeOK, Tables, Requests, TunnelInv, Launch
<1>1. /\ pc[p] \in {"submit", "record", "unsaved", "cancel", "cancelled", "abandoned"}
      /\ pc'[p] \in {"record", "unsaved", "cancel", "cancelled", "abandon", "idle"}
      /\ UNCHANGED tunnels
  <2>1. CASE LaunchSubmit(p)
    BY Zenon, <1>0, <2>1, GotoUntouched, ReturnUntouched DEF LaunchSubmit
  <2>2. CASE LaunchRecord(p) \/ LaunchUnsaved(p)
    BY Zenon, <1>0, <2>2, GotoUntouched, ReturnUntouched DEF LaunchRecord, LaunchUnsaved, outside
  <2>3. CASE LaunchCancel(p) \/ LaunchCancelled(p) \/ LaunchAbandoned(p)
    BY Zenon, <1>0, <2>3, GotoUntouched, ReturnUntouched
       DEF LaunchCancel, LaunchCancelled, LaunchAbandoned, outside
  <2>4. QED
    BY Zenon, <2>1, <2>2, <2>3
<1>2. pc'[p] = "abandon" => pc[p] = "submit" /\ UNCHANGED cand
  <2>1. CASE LaunchSubmit(p)
    BY Zenon, <1>0, <2>1 DEF LaunchSubmit, Goto, Return, Tables
  <2>2. CASE LaunchRecord(p) \/ LaunchUnsaved(p)
    BY Zenon, <1>0, <2>2 DEF LaunchRecord, LaunchUnsaved, Goto, Return, Tables
  <2>3. CASE LaunchCancel(p) \/ LaunchCancelled(p) \/ LaunchAbandoned(p)
    BY Zenon, <1>0, <2>3 DEF LaunchCancel, LaunchCancelled, LaunchAbandoned, Goto, Return, Tables
  <2>4. QED
    BY Zenon, <2>1, <2>2, <2>3
<1>3. LaunchTunnelInv(p)'
  BY Zenon, <1>0, <1>1, <1>2 DEF LaunchTunnelInv, Issued
<1>4. TunnelFrame
  <2>1. CASE UNCHANGED row
    BY Zenon, <1>1, <2>1, QuietTunnelFrame
  <2>2. CASE LaunchAbandoned(p) /\ ~UNCHANGED row
    <3>1. /\ row.seq = cand[p].seq /\ pc[p] = "abandoned"
          /\ \E state, e : row' = [row EXCEPT !.state = state, !.tun = FALSE, !.err = e]
      BY Zenon, <2>2 DEF LaunchAbandoned, Save
    <3>2. row'.seq = row.seq /\ row'.tun = FALSE
      BY Zenon, <1>0, <3>1 DEF Row
    <3>3. row.seq \notin tunnels'
      BY Zenon, <1>0, <1>1, <3>1 DEF LaunchTunnelInv
    <3>4. QED
      BY Zenon, <1>1, <3>2, <3>3 DEF TunnelFrame
  <2>3. CASE ~LaunchAbandoned(p) /\ ~UNCHANGED row
    <3>1. \/ \E n, state : row' = [row EXCEPT !.job = n, !.state = state]
          \/ \E e : row' = [row EXCEPT !.err = e]
      BY Zenon, <2>3 DEF LaunchSubmit, LaunchRecord, LaunchUnsaved, LaunchCancel, LaunchCancelled, Save, store
    <3>2. row'.seq = row.seq /\ row'.tun = row.tun
      BY Zenon, <1>0, <3>1 DEF Row
    <3>3. QED
      BY Zenon, <1>1, <3>2 DEF TunnelFrame
  <2>4. QED
    BY Zenon, <2>1, <2>2, <2>3
<1>5. QED
  BY Zenon, <1>0, <1>1, <1>3, <1>4, LaunchTunnelKept

LEMMA LaunchTunnels ==
  ASSUME TunnelsAreReleased, SeqInv, TunnelInv, NEW p \in Launchers, Launch(p)
  PROVE  TunnelInv'
BY Zenon, RetireTunnels, ClaimTunnels, IssueTunnels, PersistTunnels, ReleaseTunnels, SubmitTunnels DEF Launch

(* The row a merge writes has the run and, but for a release that          *)
(* succeeded, the tunnel it had.                                           *)
LEMMA FrozenTunnel ==
  ASSUME NEW r \in Row, NEW removed
  PROVE  Frozen(r, removed).tun = r.tun /\ Frozen(r, removed).seq = r.seq
BY Zenon DEF Frozen, Row

LEMMA MergedTunnel ==
  ASSUME row \in Row, NEW p, NEW reworded
  PROVE  Merged(p, reworded).tun = row.tun /\ Merged(p, reworded).seq = row.seq
BY Zenon DEF Merged, Row

LEMMA SettledTunnel ==
  ASSUME NEW r \in Row, NEW p
  PROVE  Settled(p, r).seq = r.seq /\ Settled(p, r).tun = (r.tun /\ ~Freed(p))
BY Zenon DEF Settled, Row

LEMMA NoLaunchTunnel ==
  ASSUME TunnelInv, NEW p, Untouched(p), TunnelFrame,
         pc[p] \notin LauncherSteps, pc'[p] \notin LauncherSteps,
         \A q \in Stoppers \ {p} : q \in unreleased' <=> q \in unreleased,
         p \in Stoppers /\ pc'[p] \in Stopping /\ snap'[p].tun =>
           row.tun \/ (pc[p] \in Stopping /\ snap[p].tun),
         p \in Stoppers => StopTunnelInv(p)'
  PROVE  TunnelInv'
<1>1. TunnelStep(p)
  BY Zenon DEF TunnelStep, LauncherSteps
<1>2. LaunchTunnelInv(p)'
  BY Zenon DEF LaunchTunnelInv, LauncherSteps, Issued
<1>3. QED
  BY Zenon, <1>1, <1>2, TunnelsKept

LEMMA ObserveTunnels ==
  ASSUME SeqInv, TunnelInv, NEW p \in Requests, ReconcileSnapshots(p)
  PROVE  TunnelInv'
<1>0. Tables /\ Untouched(p) /\ pc'[p] = "merge"
  BY Zenon, ObserveUntouched DEF SeqInv, TypeOK, Tables
<1>1. pc[p] = "observe" /\ UNCHANGED <<row, tunnels, snap, unreleased>>
  BY Zenon DEF ReconcileSnapshots, store
<1>2. p \in Stoppers => StopTunnelInv(p)'
  BY Zenon, <1>0, <1>1 DEF StopTunnelInv, TunnelInv, Stopping
<1>3. QED
  BY Zenon, <1>0, <1>1, <1>2, QuietTunnelFrame, NoLaunchTunnel DEF LauncherSteps, Stopping

LEMMA StopMergeTunnel ==
  ASSUME SeqInv, TunnelInv, NEW p \in Stoppers, StopMerge(p)
  PROVE  TunnelFrame
<1>0. p \in Requests /\ row \in Row /\ RowInv /\ StopTunnelInv(p)
  BY Zenon DEF SeqInv, TypeOK, Requests, TunnelInv
<1>1. pc[p] = "merge" /\ UNCHANGED tunnels
  BY Zenon DEF StopMerge
<1>2. CASE UNCHANGED row
  BY Zenon, <1>1, <1>2, QuietTunnelFrame
<1>3. CASE ~UNCHANGED row
  <2>1. row # NoRow /\ Present
    BY Zenon, <1>0, <1>3 DEF StopMerge, RowInv
  <2>2. PICK reworded \in Rewordings(p), removed \in Outcomes("file"), saved \in Outcomes("save") :
          FreezeAndSave(p, Settled(p, Merged(p, reworded)),
                        MergeApplies(p, reworded) \/ Kept(p) \/ Freed(p), removed, saved)
    BY Zenon, <1>3 DEF StopMerge
  <2> DEFINE m == Merged(p, reworded)
             r == Settled(p, m)
  <2>3. reworded \in BOOLEAN
    BY Zenon DEF Rewordings
  <2>4. m \in Row /\ r \in Row
    BY Zenon, <1>0, <1>1, <2>1, <2>3, MergedRow
  <2>5. m.tun = row.tun /\ m.seq = row.seq
    BY Zenon, <1>0, MergedTunnel
  <2>6. row' = Frozen(r, removed)
    BY Zenon, <1>3, <2>2 DEF FreezeAndSave, Save
  <2> HIDE DEF m, r
  <2>7. r.seq = m.seq /\ r.tun = (m.tun /\ ~Freed(p))
    BY Zenon, <2>4, SettledTunnel DEF r
  <2>8. row'.seq = row.seq /\ row'.tun = (row.tun /\ ~Freed(p))
    BY Zenon, <2>4, <2>5, <2>6, <2>7, FrozenTunnel
  <2>9. Freed(p) => row.seq \notin tunnels
    BY Zenon, <1>0, <1>1 DEF Freed, SameTunnel, StopTunnelInv
  <2>10. QED
    BY Zenon, <1>1, <2>8, <2>9 DEF TunnelFrame
<1>4. QED
  BY Zenon, <1>2, <1>3

LEMMA StopTunnels ==
  ASSUME TunnelsAreReleased, SeqInv, TunnelInv, NEW p \in Stoppers, Stop(p)
  PROVE  TunnelInv'
<1>0. /\ p \in Requests /\ Tables /\ StopTunnelInv(p) /\ row \in Row /\ snap[p] \in Row /\ Untouched(p)
      /\ snap[p].tun \in BOOLEAN /\ row.seq <= row.seq
  <2>1. row \in Row
    BY Zenon DEF SeqInv, TypeOK
  <2>2. row.seq <= row.seq
    BY SMTT(20), <2>1 DEF Row
  <2>3. QED
    BY Zenon, <2>1, <2>2, StopUntouched DEF SeqInv, TypeOK, Tables, Requests, TunnelInv, Row
<1>1. CASE StopMark(p)
  <2>1. pc[p] = "idle" /\ pc'[p] = "release" /\ UNCHANGED <<tunnels, unreleased>> /\ snap'[p] = row'
    BY Zenon, <1>0, <1>1, GotoUntouched DEF StopMark, Read, outside, Tables
  <2>2. row' = row \/ row' = [row EXCEPT !.state = "STOPPING", !.err = FALSE]
    BY Zenon, <1>1 DEF StopMark
  <2>3. row'.seq = row.seq /\ row'.tun = row.tun
    BY Zenon, <1>0, <2>2 DEF Row
  <2>4. TunnelFrame
    BY Zenon, <2>1, <2>3 DEF TunnelFrame
  <2>5. StopTunnelInv(p)'
    BY Zenon, <1>0, <2>1, <2>3 DEF StopTunnelInv, TunnelInv
  <2>6. QED
    BY Zenon, <1>0, <2>1, <2>3, <2>4, <2>5, NoLaunchTunnel DEF LauncherSteps
<1>2. CASE StopRelease(p)
  <2>1. pc[p] = "release" /\ pc'[p] = "unlink" /\ UNCHANGED <<row, snap>>
    BY Zenon, <1>0, <1>2, GotoUntouched DEF StopRelease, store
  <2>2. tunnels' = IF snap[p].tun THEN tunnels \ {snap[p].seq} ELSE tunnels
    BY Zenon, <1>0, <1>2, ReleasedTunnel DEF StopRelease
  <2>3. \A q \in Stoppers \ {p} : q \in unreleased' <=> q \in unreleased
    BY Zenon, <1>2 DEF StopRelease
  <2>4. tunnels' \subseteq tunnels /\ (snap[p].tun => snap[p].seq \notin tunnels')
    BY Zenon, <2>2
  <2>5. StopTunnelInv(p)'
    BY Zenon, <1>0, <2>1, <2>4 DEF StopTunnelInv, Stopping
  <2>6. QED
    BY Zenon, <1>0, <2>1, <2>3, <2>4, <2>5, QuietTunnelFrame, NoLaunchTunnel DEF LauncherSteps, Stopping
<1>3. CASE StopUnlink(p)
  <2>1. pc[p] = "unlink" /\ pc'[p] \in {"observe", "merge"} /\ UNCHANGED <<row, tunnels, snap, unreleased>>
    BY Zenon, <1>0, <1>3, GotoUntouched DEF StopUnlink, store, outside
  <2>2. StopTunnelInv(p)'
    BY Zenon, <1>0, <2>1 DEF StopTunnelInv, Stopping
  <2>3. QED
    BY Zenon, <1>0, <2>1, <2>2, QuietTunnelFrame, NoLaunchTunnel DEF LauncherSteps, Stopping
<1>4. CASE StopMerge(p)
  <2>1. pc[p] = "merge" /\ pc'[p] = "idle" /\ unreleased' = unreleased \ {p}
    BY Zenon, <1>0, <1>4, ReturnUntouched DEF StopMerge
  <2>2. StopTunnelInv(p)'
    BY Zenon, <2>1 DEF StopTunnelInv, Stopping
  <2>3. QED
    BY Zenon, <1>0, <1>4, <2>1, <2>2, StopMergeTunnel, NoLaunchTunnel DEF LauncherSteps, Stopping
<1>5. QED
  BY Zenon, <1>0, <1>1, <1>2, <1>3, <1>4, ObserveTunnels DEF Stop

LEMMA ReconcileTunnels ==
  ASSUME SeqInv, TunnelInv, Reconcile
  PROVE  TunnelInv'
<1> DEFINE p == Reconciler
<1>0. p \in Requests /\ p \notin Stoppers /\ Tables /\ row \in Row /\ Untouched(p) /\ RowInv
  BY Zenon, ReconcileUntouched, ConstantsAssumption DEF SeqInv, TypeOK, Tables, Requests, ConstantsAssumption
<1>1. CASE ReconcileBegin
  <2>1. pc[p] = "idle" /\ pc'[p] = "observe" /\ UNCHANGED <<row, tunnels, unreleased>>
    BY Zenon, <1>0, <1>1, GotoUntouched DEF ReconcileBegin, store, outside
  <2>2. QED
    BY Zenon, <1>0, <2>1, QuietTunnelFrame, NoLaunchTunnel DEF LauncherSteps
<1>2. CASE ReconcileMerge
  <2>1. pc[p] = "merge" /\ pc'[p] = "idle" /\ UNCHANGED <<tunnels, unreleased>>
    BY Zenon, <1>0, <1>2, ReturnUntouched DEF ReconcileMerge
  <2>2. TunnelFrame
    <3>1. CASE UNCHANGED row
      BY Zenon, <2>1, <3>1, QuietTunnelFrame
    <3>2. CASE ~UNCHANGED row
      <4>1. PICK reworded \in Rewordings(p), removed \in Outcomes("file"), saved \in Outcomes("save") :
              /\ MergeApplies(p, reworded)
              /\ FreezeAndSave(p, Merged(p, reworded), TRUE, removed, saved)
        BY Zenon, <1>2, <3>2 DEF ReconcileMerge
      <4>2. reworded \in BOOLEAN /\ Present
        BY Zenon, <1>0, <4>1 DEF Rewordings, MergeApplies, SnapshotCurrent, RowInv
      <4>3. Merged(p, reworded) \in Row
        BY Zenon, <1>0, <2>1, <4>2, MergedRow
      <4>4. row' = Frozen(Merged(p, reworded), removed)
        BY Zenon, <3>2, <4>1 DEF FreezeAndSave, Save
      <4>5. row'.seq = row.seq /\ row'.tun = row.tun
        BY Zenon, <1>0, <4>3, <4>4, FrozenTunnel, MergedTunnel
      <4>6. QED
        BY Zenon, <2>1, <4>5 DEF TunnelFrame
    <3>3. QED
      BY Zenon, <3>1, <3>2
  <2>3. QED
    BY Zenon, <1>0, <2>1, <2>2, NoLaunchTunnel DEF LauncherSteps, Stopping
<1>3. QED
  BY Zenon, <1>0, <1>1, <1>2, ObserveTunnels DEF Reconcile

LEMMA LinkTunnels ==
  ASSUME SeqInv, TunnelInv, NEW p \in Dialers, Link(p)
  PROVE  TunnelInv'
<1>0. p \in Requests /\ Tables /\ row \in Row /\ Untouched(p)
  BY Zenon, LinkUntouched DEF SeqInv, TypeOK, Tables, Requests
<1>1. /\ pc[p] \in {"idle", "register", "announce", "linked"}
      /\ pc'[p] \in {"idle", "register", "announce", "linked"}
      /\ UNCHANGED <<tunnels, unreleased>>
  BY Zenon, <1>0, GotoUntouched, ReturnUntouched
     DEF Link, LinkAccept, LinkRegister, LinkAnnounce, LinkClose, outside
<1>2. row' = row \/ row' = [row EXCEPT !.state = "READY", !.err = FALSE, !.started = TRUE]
  BY Zenon DEF Link, LinkAccept, LinkRegister, LinkAnnounce, LinkClose, Save, store
<1>3. row'.seq = row.seq /\ row'.tun = row.tun
  BY Zenon, <1>0, <1>2 DEF Row
<1>4. TunnelFrame
  BY Zenon, <1>1, <1>3 DEF TunnelFrame
<1>5. StopTunnelInv(p)'
  BY Zenon, <1>1 DEF StopTunnelInv, Stopping
<1>6. QED
  BY Zenon, <1>0, <1>1, <1>4, <1>5, NoLaunchTunnel DEF LauncherSteps, Stopping

(* Adopted runs have no tunnel here, and only a session that never ran     *)
(* adopts: no Stop has read a tunnel.                                      *)
LEMMA AdoptTunnels ==
  ASSUME TunnelsAreReleased, SeqInv, TunnelInv, NEW n \in Seqs, NEW final, AdoptRuns(n, final)
  PROVE  TunnelInv'
<1>0. row \in Row /\ Tables
  BY Zenon DEF SeqInv, TypeOK, Tables
<1>1. row.seq = 0 /\ fresh' = {} /\ UNCHANGED <<tunnels, pc, snap, cand, unreleased>>
  BY Zenon DEF AdoptRuns, outside
<1>2. ~row.tun
  <2>1. ~(row.seq > 0)
    BY SMTT(20), <1>1
  <2>2. QED
    BY Zenon, <2>1 DEF TunnelInv
<1>3. row'.tun = row.tun
  <2>1. PICK began, failed :
          row' = [row EXCEPT !.seq = n, !.state = final, !.started = began, !.err = failed]
    BY Zenon DEF AdoptRuns
  <2>2. QED
    BY Zenon, <1>0, <2>1 DEF Row
<1>4. \A q \in Stoppers : pc[q] \in Stopping => ~snap[q].tun
  <2>1. ASSUME NEW q \in Stoppers, pc[q] \in Stopping, snap[q].tun
        PROVE  FALSE
    <3>1. snap[q].seq > 0 /\ snap[q].seq <= row.seq /\ snap[q] \in Row
      BY Zenon, <1>0, <2>1 DEF TunnelInv, StopTunnelInv, Tables, Requests
    <3>2. QED
      BY SMTT(20), <1>1, <3>1 DEF Row
  <2>2. QED
    BY Zenon, <2>1
<1>5. NoTunnelRead'
  BY Zenon, <1>1, <1>2, <1>3, <1>4 DEF NoTunnelRead
<1>6. \A m \in tunnels : Held(m)
  BY Zenon, <1>2 DEF TunnelInv
<1>7. ASSUME NEW m \in tunnels'
      PROVE  Held(m)'
  BY Zenon, <1>1, <1>6 DEF Held
<1>8. ASSUME NEW q \in Launchers
      PROVE  LaunchTunnelInv(q)'
  <2>1. LaunchTunnelInv(q)
    BY Zenon DEF TunnelInv
  <2>2. ASSUME pc[q] \in {"retire", "freeze", "serialize", "claim"}
        PROVE  tunnels = {}
    <3>1. pc[q] \notin {"persist", "unissue"}
      BY Zenon, <2>2
    <3>2. QED
      BY Zenon, <1>2, <3>1, NothingHeld
  <2>3. QED
    BY Zenon, <1>1, <1>5, <2>1, <2>2 DEF LaunchTunnelInv
<1>9. ASSUME NEW q \in Stoppers
      PROVE  StopTunnelInv(q)'
  BY Zenon, <1>1, <1>4 DEF StopTunnelInv, Stopping
<1>10. QED
  BY Zenon, <1>2, <1>3, <1>7, <1>8, <1>9 DEF TunnelInv

LEMMA TunnelsStep ==
  ASSUME ~Redefinition, TunnelsAreReleased, SeqInv, TunnelInv, [Next]_vars
  PROVE  TunnelInv'
<1>0. Nobody \notin Requests /\ Nobody \notin Stoppers /\ Nobody \notin Launchers
  BY Zenon, ConstantsAssumption DEF ConstantsAssumption, Requests
<1>1. CASE Define \/ (\E n \in Seqs : JobStep(n)) \/ Tick \/ PushOut \/ UNCHANGED vars
  <2>1. /\ UNCHANGED <<tunnels, pc, snap, cand, unreleased>> /\ fresh' \subseteq fresh
        /\ UNCHANGED row \/ (row = NoRow /\ row' = [NoRow EXCEPT !.state = "STOPPED"])
    BY Zenon, <1>1 DEF Define, JobStep, Tick, PushOut, vars, store, outside, memory
  <2>2. row'.seq = row.seq /\ row'.tun = row.tun
    BY Zenon, <2>1 DEF NoRow
  <2>3. TunnelFrame /\ Untouched(Nobody) /\ TunnelStep(Nobody)
    BY Zenon, <1>0, <2>1, <2>2 DEF TunnelFrame, Untouched, TunnelStep
  <2>4. QED
    BY Zenon, <1>0, <2>3, TunnelsKept
<1>2. CASE Crash \/ \E p \in Deleters : Delete(p)
  BY Zenon, <1>2 DEF TunnelsAreReleased, Crash
<1>3. QED
  BY Zenon, <1>1, <1>2, AdoptTunnels, LaunchTunnels, StopTunnels, ReconcileTunnels, LinkTunnels DEF Next

LEMMA TunnelInit ==
  ASSUME Init
  PROVE  TunnelInv
<1>1. ~row.tun /\ tunnels = {}
  BY Zenon DEF Init, NoRow
<1>2. \A q \in Requests : pc[q] = "idle"
  BY Zenon DEF Init
<1>3. \A q \in Launchers : LaunchTunnelInv(q)
  BY Zenon, <1>1, <1>2 DEF LaunchTunnelInv, Issued, Requests
<1>4. \A q \in Stoppers : StopTunnelInv(q)
  BY Zenon, <1>1, <1>2 DEF StopTunnelInv, Stopping, Requests
<1>5. QED
  BY Zenon, <1>1, <1>3, <1>4 DEF TunnelInv

(* TunnelInv is an invariant of one launch at a time, for any number of    *)
(* Stops, passes and links.                                                *)
THEOREM TunnelInvariant ==
  ASSUME ~Redefinition, TunnelsAreReleased
  PROVE  Spec => []TunnelInv
<1>1. Init => TunnelInv
  BY Zenon, TunnelInit
<1>2. SeqInv /\ TunnelInv /\ [Next]_vars => TunnelInv'
  BY Zenon, TunnelsStep
<1>3. QED
  BY <1>1, <1>2, SeqInvariant, PTL DEF Spec

(* No tunnel is left at the provider that nobody will delete: it is the    *)
(* tunnel of the row, or of the launch that has just created it.  A launch *)
(* retires the tunnel of the finished run before it claims a number, a     *)
(* Stop forgets the row's tunnel only after its own release of it.         *)
THEOREM TunnelIsAccountedFor ==
  ASSUME ~Redefinition, TunnelsAreReleased
  PROVE  Spec => []TunnelAccounted
<1>1. TunnelInv => TunnelAccounted
  BY Zenon DEF TunnelInv, TunnelAccounted, Held
<1>2. QED
  BY <1>1, TunnelInvariant, PTL
=============================================================================
