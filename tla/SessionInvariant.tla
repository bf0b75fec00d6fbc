-------------------------- MODULE SessionInvariant --------------------------
(***************************************************************************)
(* The inductive invariant of SessionLifecycle: what must be true of a     *)
(* session and of every request in flight for the properties to survive    *)
(* the next step.  It speaks of sessions that are not defined again after  *)
(* they were deleted.                                                      *)
(***************************************************************************)
EXTENDS SessionLifecycle

Present == row.state # "ABSENT"

(* Run n is over, and no step brings it back.                              *)
Past(n) ==
  /\ Present => n < row.seq \/ (n = row.seq /\ row.state \notin Live)
  /\ ~Present => deleted

BeforePersist == {"retire", "freeze", "serialize", "claim", "issue", "persist"}
Issued == {"issue", "persist", "unissue"}
Persisted == {"submit", "record", "unsaved", "cancel", "cancelled", "abandon", "abandoned"}
Stopping == {"release", "unlink", "observe", "merge"}

(* The row and what exists under its run numbers.                          *)
RowInv ==
  /\ ~Present => row = NoRow
  /\ row.state \in Reconcilable => row.seq > 0
  /\ row.state = "SUBMITTING" => ~row.client
  /\ row.job \in {0, row.seq}
  /\ Present => recorded \subseteq 1 .. row.seq
  /\ Present => \A n \in Seqs : jobs[n] # "none" => n <= row.seq
  /\ ~Present /\ ~deleted => recorded = {} /\ \A n \in Seqs : jobs[n] = "none"
  /\ row.state \in Live => row.seq \notin recorded

(* A request that will remove the capability of a run it remembers.        *)
PastInv(p) ==
  /\ pc[p] \in {"retire", "freeze", "release", "forget"} => Past(snap[p].seq)
  /\ pc[p] \in {"retire", "freeze"} => snap[p].state \in Terminal

(* A launch that has not submitted its job, or has been refused.           *)
Unsubmitted(p) ==
  \/ pc[p] = "submit"
  \/ pc[p] \in {"abandon", "abandoned"} /\ "misjudged" \notin Faults

(* A launch, before and after its row is persisted.                        *)
LaunchInv(p) ==
  /\ pc[p] \in {"claim"} \cup Issued \cup Persisted => lock = p
  /\ pc[p] \in BeforePersist =>
       /\ cand[p].state = IF cand[p].client THEN "QUEUED" ELSE "SUBMITTING"
       /\ cand[p].job = 0
  /\ pc[p] \in Issued =>
       /\ row.state \notin Live /\ snap[p].state \in Terminal
       /\ cand[p].seq = snap[p].seq + 1
       /\ p \in fresh => Present /\ row.seq = snap[p].seq
  /\ pc[p] \in Persisted =>
       /\ Present => row.seq = cand[p].seq
       /\ ~Present => deleted
       /\ cand[p].seq > 0
  /\ Unsubmitted(p) =>
       /\ jobs[cand[p].seq] = "none"
       /\ Present => row.state \in {"SUBMITTING", "STOPPING"} \cup Terminal
  /\ pc[p] = "record" => jobs[cand[p].seq] # "none"

(* What reconciliation may make of a state.                                *)
Follows(from, to) ==
  /\ from = "STOPPING" => to \in {"STOPPING"} \cup Terminal
  /\ from \in Live => to \in Live \cup Terminal
  /\ from \in Terminal => to = from
  /\ to = "SUBMITTING" => from = "SUBMITTING"

(* A Stop or a background pass, and the candidate it will merge.           *)
MergeInv(p) ==
  /\ pc[p] \in Stopping =>
       /\ snap[p].state # "ABSENT"
       /\ snap[p].state \in Reconcilable => snap[p].seq > 0
       /\ snap[p].state = "SUBMITTING" => ~snap[p].client
       /\ snap[p].job \in {0, snap[p].seq}
       /\ p \in fresh => Present /\ row.seq = snap[p].seq /\ row.client = snap[p].client
  /\ pc[p] = "observe" => snap[p].state \in Reconcilable
  /\ pc[p] = "merge" =>
       /\ Follows(snap[p].state, cand[p].state)
       /\ cand[p].job \in {0, snap[p].seq}
       /\ snap[p].state = "SUBMITTING" /\ cand[p].state \in {"QUEUED", "STARTING", "READY"}
            => jobs[snap[p].seq] # "none"

SeqInv ==
  /\ TypeOK
  /\ RowInv
  /\ \A p \in Requests : PastInv(p) /\ LaunchInv(p) /\ MergeInv(p)

(* A row that is over although its launch has yet to submit was recorded.  *)
RecordInv ==
  /\ UnrecordedNeverRan
  /\ \A p \in Requests : pc[p] = "submit" /\ row.state \in Terminal => row.seq \in recorded

(* Where the capability of the current run must be.  A client-launched run *)
(* is ended by its Stop alone.                                             *)
CapabilityInv ==
  /\ LiveHasCapability
  /\ \A p \in Requests :
       /\ pc[p] = "persist" /\ p \in fresh => cand[p].seq \in caps
       /\ pc[p] = "submit" /\ row.state \in Live => row.seq \in caps
       /\ pc[p] = "merge" /\ snap[p].client /\ snap[p].state \in Live
            => cand[p].state \in Live

(* A launch will still record or cancel the job of run n.                  *)
Tended(n) ==
  \E p \in Launchers : pc[p] \in {"record", "unsaved", "cancel"} /\ cand[p].seq = n

(* The row will lead reconciliation and Stop to the job of run n.          *)
Named(n) ==
  row.state \in Reconcilable /\ ~row.client /\ row.seq = n /\ row.job \in {0, n}

(* A job that is in the queue, and what is about to become of it.  A slow  *)
(* launch can be given up before its job is submitted: then only the       *)
(* launch itself knows the job.                                            *)
LaunchJobInv(p) ==
  /\ pc[p] \in Persisted => ~cand[p].client /\ ~row.client
  /\ pc[p] = "submit" /\ "slow" \notin Faults =>
       row.state \in {"SUBMITTING", "STOPPING"} /\ row.job = 0 /\ age < 2

(* A merge that would end the run while its snapshot is still current.     *)
MergeJobInv(p) ==
  /\ pc[p] \in Stopping /\ p \in fresh =>
       row.job = snap[p].job /\ (snap[p].state \in Reconcilable => row.state = snap[p].state)
  /\ pc[p] = "merge" /\ p \in fresh /\ snap[p].state \in Reconcilable =>
       /\ cand[p].job # snap[p].job => jobs[snap[p].seq] # "none"
       /\ cand[p].state \in Terminal =>
            /\ jobs[snap[p].seq] \in Alive => "slow" \in Faults /\ Tended(snap[p].seq)
            /\ "slow" \notin Faults => \A q \in Launchers : pc[q] # "submit"

JobInv ==
  /\ \A n \in Seqs : jobs[n] \in Alive => Named(n) \/ ("slow" \in Faults /\ Tended(n))
  /\ row.client => \A n \in Seqs : n = row.seq => jobs[n] = "none"
  /\ \A p \in Requests : LaunchJobInv(p) /\ MergeJobInv(p)

(* The job of run n has left the queue: it is running, or it is over.      *)
Begun(n) == jobs[n] \in {"active", "done"}

(* A connection was accepted for a run that had begun or has a client, and *)
(* the run it speaks for is the row's or an earlier one.                   *)
DialInv(p) ==
  pc[p] \in {"register", "announce", "linked"} =>
    /\ snap[p].seq > 0
    /\ Present => snap[p].seq <= row.seq
    /\ ~Present => deleted
    /\ snap[p].seq = row.seq => row.client \/ Begun(row.seq)

(* What a pass that may still be merged says of a run that began.          *)
MergeReadyInv(p) ==
  pc[p] \in Stopping /\ p \in fresh =>
    /\ snap[p].state \in {"STARTING", "READY"} => snap[p].client \/ Begun(snap[p].seq)
    /\ pc[p] = "merge" =>
         /\ cand[p].state \in {"STARTING", "READY"} => snap[p].client \/ Begun(snap[p].seq)
         /\ snap[p].state = "READY" => cand[p].state \notin {"QUEUED", "STARTING"}

(* A run is shown as starting or ready only once its job has begun, so     *)
(* that no later answer of the scheduler can call it pending.              *)
ReadyInv ==
  /\ row.state \in {"STARTING", "READY"} => row.client \/ Begun(row.seq)
  /\ registry # Nobody => pc[registry] \in {"announce", "linked"}
  /\ \A p \in Requests : DialInv(p) /\ MergeReadyInv(p)

(* The tunnel of run n is in the hands of the launch that created it.      *)
Held(n) ==
  \E p \in Launchers : pc[p] \in {"persist", "unissue"} /\ cand[p].seq = n /\ cand[p].tun

(* The row has no tunnel, and no Stop read one that had.                   *)
NoTunnelRead ==
  ~row.tun /\ \A q \in Stoppers : pc[q] \in Stopping => ~snap[q].tun

(* A launch retires the finished run's tunnel before it creates its own,   *)
(* and its own has a number of its own unless runs were adopted meanwhile. *)
LaunchTunnelInv(p) ==
  /\ pc[p] = "retire" /\ row.seq \in tunnels => snap[p].tun /\ snap[p].seq = row.seq
  /\ pc[p] \in {"freeze", "serialize", "claim"} => row.seq \notin tunnels
  /\ pc[p] \in {"issue", "persist"} /\ p \in fresh => row.seq \notin tunnels
  /\ pc[p] \in Issued => cand[p].seq > row.seq \/ NoTunnelRead
  /\ pc[p] \in {"submit", "abandon"} /\ ~cand[p].tun => cand[p].seq \notin tunnels
  /\ pc[p] = "abandoned" => cand[p].seq \notin tunnels

(* A Stop, and the tunnel of the row it read.                              *)
StopTunnelInv(p) ==
  /\ pc[p] \in Stopping /\ snap[p].tun => snap[p].seq > 0 /\ snap[p].seq <= row.seq
  /\ pc[p] \in {"unlink", "observe", "merge"} /\ snap[p].tun /\ p \notin unreleased
       => snap[p].seq \notin tunnels

(* A tunnel is the row's, or that of the launch under way.                 *)
TunnelInv ==
  /\ row.tun => row.seq > 0
  /\ \A n \in tunnels : (row.seq = n /\ row.tun) \/ Held(n)
  /\ \A p \in Launchers : LaunchTunnelInv(p)
  /\ \A p \in Stoppers : StopTunnelInv(p)

(* The failures under which the parts of the invariant hold.  A refusal    *)
(* that is none leaves a job whose run is given up.  A requeued job        *)
(* outlives the walltime by which an unreachable scheduler is judged, and  *)
(* a job that is not listed is taken for ended.  When a launch outlasts    *)
(* provisionTimeout the row may be given up before sbatch: nobody knows    *)
(* the job if the launch then dies, gets no answer, or cannot cancel.      *)
RefusalsAreDefinite == "misjudged" \notin Faults

JobsAreFound ==
  /\ RefusalsAreDefinite
  /\ "unlisted" \notin Faults
  /\ {"unreachable", "requeue"} \cap Faults # {"unreachable", "requeue"}
  /\ "slow" \in Faults => {"ambiguous", "crash", "cancel"} \cap Faults = {}

(* A run that is given up before sbatch loses its capability, and the job  *)
(* may still come if the row could not be saved.                           *)
CapabilitiesAreKept == JobsAreFound /\ "slow" \notin Faults

(* A job that is put back into the queue is pending again.                 *)
JobsAreNotRequeued == "requeue" \notin Faults

(* A second launch moves the row past a tunnel that the first one left, a  *)
(* Delete leaves the tunnel to expire, and so do a launch that dies and a  *)
(* release without a token or without an answer.                           *)
TunnelsAreReleased ==
  /\ \A p, q \in Launchers : p = q
  /\ Deleters = {}
  /\ Faults \cap {"devtunnel", "credential", "crash"} = {}

(* The invariant of SessionLifecycle: run numbers only grow, what is       *)
(* remembered of a finished run stays finished, a launch owns its run      *)
(* from claim to the end of its submission, and what reconciliation is     *)
(* about to write agrees with the job and with the link.                   *)
IInv ==
  /\ SeqInv
  /\ RefusalsAreDefinite => RecordInv
  /\ CapabilitiesAreKept => CapabilityInv
  /\ JobsAreFound => JobInv
  /\ JobsAreNotRequeued => ReadyInv
  /\ TunnelsAreReleased => TunnelInv
=============================================================================
