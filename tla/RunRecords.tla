---------------------------- MODULE RunRecords ----------------------------
(***************************************************************************)
(* What is kept of the runs of all sessions (subsystems/session/           *)
(* telemetry.go): the samples collected while a run is READY, and the      *)
(* bounded list of records frozen when a run ends.  Samples are collected  *)
(* and accounting is read outside the store lock, and both are applied     *)
(* later by session ID or by (session, seq).  A sample stands for the run  *)
(* it was taken of.  How a run ends is the subject of SessionLifecycle.    *)
(***************************************************************************)
EXTENDS Naturals, Sequences

CONSTANTS
    Sessions,
    MaxSeq,         \* bound: runs of a session
    MaxRunRecords,  \* maxRunRecords
    MaxSamples,     \* maxSessionMetricSamples
    SaveFaults      \* {FALSE}, or BOOLEAN when Store.save may fail

ASSUME RecordsAssumption ==
    /\ MaxSeq \in Nat \ {0}
    /\ MaxRunRecords \in Nat \ {0}
    /\ MaxSamples \in Nat \ {0}
    /\ FALSE \in SaveFaults /\ SaveFaults \subseteq BOOLEAN

VARIABLES
    phase,          \* the session's row, as far as freezing tells it apart
    seq,            \* the number of its last run
    runs,           \* state.Runs, newest first
    series,         \* sessionMetrics.series: the runs the samples are of
    sampling,       \* the run a collection in flight asked, or 0
    accounting      \* runs whose accounting completeRunStats is reading

recordVars == <<phase, seq, runs, series, sampling, accounting>>

Phases == {"stopped", "retired", "live", "ready", "failed", "deleted"}

Over == {"stopped", "failed", "retired"}

Keyed(list, s, n) == {i \in DOMAIN list : list[i].session = s /\ list[i].seq = n}

RecordsInit ==
    /\ phase = [s \in Sessions |-> "stopped"]
    /\ seq = [s \in Sessions |-> 0]
    /\ runs = <<>>
    /\ series = [s \in Sessions |-> <<>>]
    /\ sampling = [s \in Sessions |-> 0]
    /\ accounting = {}

----------------------------------------------------------------------------
recorded(list, record) == record.seq = 0 \/ Keyed(list, record.session, record.seq) # {}

Untruncated(list) == list

Truncated(list) == SubSeq(list, 1, IF Len(list) > MaxRunRecords THEN MaxRunRecords ELSE Len(list))

recordRun(list, record) ==
    IF recorded(list, record) THEN list ELSE Truncated(<<record>> \o list)

runOf(s) == [session |-> s, seq |-> seq[s], samples |-> series[s], stats |-> FALSE]

BuffersKept(s) == UNCHANGED series

forgetSessionBuffers(s) == series' = [series EXCEPT ![s] = <<>>]

(* freezeIfTerminal and the save that follows it: the buffers are dropped  *)
(* before the transaction, whether or not it commits, and only when the    *)
(* run had no record.                                                      *)
freezeIfTerminal(s, next) ==
    \E failed \in SaveFaults :
        /\ IF recorded(runs, runOf(s)) THEN UNCHANGED series ELSE forgetSessionBuffers(s)
        /\ runs' = IF failed THEN runs ELSE recordRun(runs, runOf(s))
        /\ phase' = IF failed THEN phase ELSE [phase EXCEPT ![s] = next]
    /\ UNCHANGED <<seq, sampling, accounting>>

(* A pass or Stop closes the run; a Stop of a finished session freezes the *)
(* row it finds once more.                                                 *)
EndRun(s) == phase[s] \in {"live", "ready"} /\ freezeIfTerminal(s, "stopped")
StopAgain(s) == phase[s] \in Over /\ freezeIfTerminal(s, phase[s])

(* A launch that was refused ends without a freeze (abandonSubmitIntent).  *)
abandonSubmitIntent(s) ==
    /\ phase[s] = "live"
    /\ phase' = [phase EXCEPT ![s] = "failed"]
    /\ UNCHANGED <<seq, runs, series, sampling, accounting>>

retireFinished(s) == phase[s] \in {"stopped", "failed"} /\ freezeIfTerminal(s, "retired")

claimRun(s) ==
    /\ phase[s] = "retired"
    /\ seq[s] < MaxSeq
    /\ phase' = [phase EXCEPT ![s] = "live"]
    /\ seq' = [seq EXCEPT ![s] = @ + 1]
    /\ UNCHANGED <<runs, series, sampling, accounting>>

Ready(s) ==
    /\ phase[s] = "live"
    /\ phase' = [phase EXCEPT ![s] = "ready"]
    /\ UNCHANGED <<seq, runs, series, sampling, accounting>>

Delete(s) ==
    /\ phase[s] \in Over
    /\ phase' = [phase EXCEPT ![s] = "deleted"]
    /\ forgetSessionBuffers(s)
    /\ UNCHANGED <<seq, runs, sampling, accounting>>

(* Runs another client finished, oldest first, with their statistics.      *)
adopted(s, n, list) ==
    LET add[i \in 0 .. n] ==
          IF i = 0 THEN list
          ELSE recordRun(add[i - 1], [session |-> s, seq |-> i, samples |-> <<i>>, stats |-> TRUE])
    IN  add[n]

AdoptRuns(s, n) ==
    /\ phase[s] # "deleted"
    /\ seq[s] = 0
    /\ \A i \in DOMAIN runs : runs[i].session # s
    /\ seq' = [seq EXCEPT ![s] = n]
    /\ runs' = adopted(s, n, runs)
    /\ UNCHANGED <<phase, series, sampling, accounting>>

----------------------------------------------------------------------------
(* sampleOnce reads the rows, asks every READY session, and waits for all  *)
(* answers before it returns to the loop.                                  *)
sampleSession(s) ==
    /\ phase[s] = "ready"
    /\ sampling[s] = 0
    /\ sampling' = [sampling EXCEPT ![s] = seq[s]]
    /\ UNCHANGED <<phase, seq, runs, series, accounting>>

append(list, sample) ==
    LET all == Append(list, sample)
    IN  IF Len(all) > MaxSamples THEN SubSeq(all, Len(all) - MaxSamples + 1, Len(all)) ELSE all

sampleOnce(s) ==
    /\ sampling[s] # 0
    /\ sampling' = [sampling EXCEPT ![s] = 0]
    /\ \/ series' = [series EXCEPT ![s] = append(@, sampling[s])]
       \/ UNCHANGED series
    /\ UNCHANGED <<phase, seq, runs, accounting>>

(* completeRunStats: the due runs are read under the lock, asked one after *)
(* the other without it, and the answer is attached under it again.        *)
pendingRunStats ==
    /\ accounting = {}
    /\ accounting' = {<<runs[i].session, runs[i].seq>> : i \in {j \in DOMAIN runs : ~runs[j].stats}}
    /\ accounting' # {}
    /\ UNCHANGED <<phase, seq, runs, series, sampling>>

attachRunStats(s, n) ==
    [i \in DOMAIN runs |-> [runs[i] EXCEPT !.stats = @ \/ i \in Keyed(runs, s, n)]]

completeRunStats(s, n) ==
    /\ <<s, n>> \in accounting
    /\ accounting' = accounting \ {<<s, n>>}
    /\ runs' \in {runs, attachRunStats(s, n)}
    /\ UNCHANGED <<phase, seq, series, sampling>>

RecordsNext ==
    \/ \E s \in Sessions :
          \/ EndRun(s) \/ StopAgain(s) \/ abandonSubmitIntent(s) \/ retireFinished(s)
          \/ claimRun(s) \/ Ready(s) \/ Delete(s) \/ sampleSession(s) \/ sampleOnce(s)
          \/ \E n \in 1 .. MaxSeq : AdoptRuns(s, n) \/ completeRunStats(s, n)
    \/ pendingRunStats

RecordsSpec == RecordsInit /\ [][RecordsNext]_recordVars

----------------------------------------------------------------------------
Samples == UNION {[1 .. n -> 1 .. MaxSeq] : n \in 0 .. MaxSamples}
Records == [session : Sessions, seq : 1 .. MaxSeq, samples : Samples, stats : BOOLEAN]

(* The types of the state, with the bounds of the list of records and of   *)
(* every sample window.  No run has two records, although Stop, a pass,    *)
(* the next launch and AdoptRuns all record: (session, seq) is the table's *)
(* primary key, and a second record would fail every later save.           *)
RecordsTypeOK ==
    /\ phase \in [Sessions -> Phases]
    /\ seq \in [Sessions -> 0 .. MaxSeq]
    /\ Len(runs) <= MaxRunRecords
    /\ \A i \in DOMAIN runs : runs[i] \in Records /\ Keyed(runs, runs[i].session, runs[i].seq) = {i}
    /\ series \in [Sessions -> Samples]
    /\ sampling \in [Sessions -> 0 .. MaxSeq]
    /\ accounting \in SUBSET (Sessions \X (1 .. MaxSeq))

(* A sample that arrives after its run was frozen waits in the buffer for  *)
(* the next run's record.  There is never more than one, and it is the     *)
(* oldest: the sampler has one request per session in flight, and every    *)
(* freeze that records a run empties the buffer.                           *)
AtMostOneStraySample ==
    /\ \A s \in Sessions : \A i \in 2 .. Len(series[s]) : series[s][i] = seq[s]
    /\ \A k \in DOMAIN runs : \A i \in 2 .. Len(runs[k].samples) : runs[k].samples[i] = runs[k].seq
============================================================================
