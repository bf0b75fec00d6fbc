---------------------------- MODULE SlurmClient ----------------------------
(***************************************************************************)
(* The Slurm client (internal/slurm) against a cluster that moves on while *)
(* it works: a submission whose connection may break before, while or      *)
(* after sbatch queues the job, and a status round that cancels, lists the *)
(* queue and asks accounting one after the other and joins the three       *)
(* answers.  The output is a sequence of lines; what is in a line is       *)
(* abstracted to the fields the parser keeps.                              *)
(***************************************************************************)
EXTENDS Naturals, Sequences, FiniteSets

CONSTANTS
    Jobs,          \* submissions; the job ID sbatch assigns to one
    JobNames,      \* --job-name values; two submissions may share one
    ByName,        \* a target without a job ID is looked up by name
    MaxMoves,      \* states of one job that a round overlaps
    HostFaults     \* "lost", "garbled", "failed", "squeue", "lag", "stray", "scancel"

ASSUME SlurmAssumption == IsFiniteSet(Jobs) /\ ByName \notin Jobs /\ MaxMoves \in Nat \ {0}

VARIABLES
    cluster,       \* Slurm: the raw state of a job, or "NONE"
    queued,        \* Slurm: jobs squeue lists
    nameOf,        \* Slurm: the name of a job
    submission,    \* what Submit returned: see SubmitResult
    misled,        \* history: submissions whose exit said nothing of the job
    roundAt,       \* the next command of the status script
    target,        \* the job the round is about
    output,        \* what the script has printed
    seen,          \* history: the states of each job during the round
    status         \* the JobStatus the round returned

slurmVars == <<cluster, queued, nameOf, submission, misled, roundAt, target, output, seen, status>>

Host(fault) == fault \in HostFaults

PendingStates == {"PENDING", "REQUEUED", "REQUEUE_FED", "REQUEUE_HOLD", "SUSPENDED"}
ActiveStates == {"RUNNING", "CONFIGURING", "COMPLETING", "RESIZING", "SIGNALING", "STAGE_OUT"}
StoppedStates == {"COMPLETED", "CANCELLED", "STOPPED"}
FailedStates == {"BOOT_FAIL", "DEADLINE", "FAILED", "NODE_FAIL", "OUT_OF_MEMORY", "PREEMPTED",
                 "REVOKED", "SPECIAL_EXIT"}

NormalizeEnded(raw) == IF raw \in PendingStates THEN "Pending" ELSE "Active"

normalizeState(raw) ==
    CASE raw \in PendingStates -> "Pending"
      [] raw \in ActiveStates -> "Active"
      [] raw \in StoppedStates -> "Stopped"
      [] raw = "TIMEOUT" -> "Expired"
      [] raw \in FailedStates -> "Failed"
      [] OTHER -> "Unknown"

NoTarget == [id |-> ByName, name |-> "none", cancel |-> FALSE]
NoStatus == [round |-> FALSE, found |-> FALSE, id |-> ByName, state |-> "Unknown", elapsed |-> 0, cancelError |-> FALSE]

SlurmInit ==
    /\ cluster = [j \in Jobs |-> "NONE"]
    /\ queued = {}
    /\ nameOf \in [Jobs -> JobNames]
    /\ submission = [j \in Jobs |-> "none"]
    /\ misled = {}
    /\ roundAt = "idle"
    /\ target = NoTarget
    /\ output = <<>>
    /\ seen = [j \in Jobs |-> {}]
    /\ status = NoStatus

----------------------------------------------------------------------------
(* The cluster.  A job's elapsed time is 0 until it has run.               *)

(* What happens after a round has read the cluster commutes with its       *)
(* report, so it waits for the report.                                     *)
Witnessed(j, raw) ==
    /\ roundAt # "reported"
    /\ seen' = IF roundAt = "idle" THEN seen ELSE [seen EXCEPT ![j] = @ \cup {raw}]
    /\ Cardinality(seen'[j]) <= MaxMoves

JobBecomes(j, raw) ==
    /\ cluster' = [cluster EXCEPT ![j] = raw]
    /\ Witnessed(j, raw)
    /\ UNCHANGED <<nameOf, submission, misled, roundAt, target, output, status>>

elapsed(raw) == IF raw \in {"NONE", "PENDING"} THEN 0 ELSE 1

JobRuns(j) == cluster[j] = "PENDING" /\ JobBecomes(j, "RUNNING") /\ UNCHANGED queued
JobEnds(j) == cluster[j] = "RUNNING" /\ (JobBecomes(j, "COMPLETED") \/ JobBecomes(j, "TIMEOUT")) /\ UNCHANGED queued
JobRequeued(j) == cluster[j] = "RUNNING" /\ JobBecomes(j, "PENDING") /\ UNCHANGED queued

JobLeavesQueue(j) ==
    /\ j \in queued
    /\ cluster[j] \in {"COMPLETED", "TIMEOUT", "CANCELLED"}
    /\ queued' = queued \ {j}
    /\ UNCHANGED <<cluster, nameOf, submission, misled, roundAt, target, output, seen, status>>

----------------------------------------------------------------------------
(* Submit.  The remote program outlives a lost connection and a killed     *)
(* client, and slurmctld works on a request sbatch no longer waits for.    *)

Submit(j) ==
    /\ submission[j] = "none"
    /\ submission' = [submission EXCEPT ![j] = "sending"]
    /\ UNCHANGED <<cluster, queued, nameOf, misled, roundAt, target, output, seen, status>>

Sbatch(j) ==
    /\ submission[j] \in {"sending", "ambiguous"} \/ j \in misled
    /\ cluster[j] = "NONE"
    /\ cluster' = [cluster EXCEPT ![j] = "PENDING"]
    /\ Witnessed(j, "PENDING")
    /\ queued' = queued \cup {j}
    /\ UNCHANGED <<nameOf, submission, misled, roundAt, target, output, status>>

(* How the ssh command can end: sbatch refused or accepted the job, ssh's  *)
(* 255, a timeout, which is not an exit status at all, an answer that is   *)
(* no job ID, or another status that says nothing of the job: the client   *)
(* was killed by a signal, or sbatch gave up with its request under way.   *)
Exits(j) ==
    (IF cluster[j] = "NONE" THEN {"refused"} ELSE {"accepted"})
    \cup (IF Host("lost") THEN {"255", "timeout"} ELSE {})
    \cup (IF Host("garbled") /\ cluster[j] # "NONE" THEN {"garbled"} ELSE {})
    \cup (IF Host("failed") THEN {"failed"} ELSE {})

AmbiguousTimeout(exit) == exit = "timeout"

(* Any exit status but 255 is taken for sbatch's refusal, also the -1 that *)
(* Go gives a client ended by a signal.                                    *)
AmbiguousExit(exit) == exit \in {"255", "timeout"}

SubmitResult(exit) ==
    CASE exit = "accepted" -> "id"
      [] exit = "garbled" \/ AmbiguousExit(exit) -> "ambiguous"
      [] OTHER -> "refused"

SubmitReturns(j) ==
    /\ submission[j] = "sending"
    /\ \E exit \in Exits(j) :
          /\ submission' = [submission EXCEPT ![j] = SubmitResult(exit)]
          /\ misled' = IF exit = "failed" THEN misled \cup {j} ELSE misled
    /\ UNCHANGED <<cluster, queued, nameOf, roundAt, target, output, seen, status>>

----------------------------------------------------------------------------
(* A status round: statusScript, run line by line.                         *)

Cancel == "CANCEL"
Queue == "QUEUE"
Accounting == "ACCT"
Marker(m) == [marker |-> m, id |-> ByName, name |-> "none", state |-> "none", elapsed |-> 0]
Line(j, withElapsed) == [marker |-> "none", id |-> j, name |-> nameOf[j], state |-> cluster[j],
                         elapsed |-> IF withElapsed THEN elapsed(cluster[j]) ELSE 0]
Text == [marker |-> "none", id |-> ByName, name |-> "none", state |-> "none", elapsed |-> 0]

(* The rows of a set of jobs, in any order.                                *)
Listings(S, withElapsed) ==
    {[i \in 1 .. Cardinality(S) |-> Line(order[i], withElapsed)] :
        order \in {f \in [1 .. Cardinality(S) -> S] : {f[i] : i \in DOMAIN f} = S}}

BeginRound(t) ==
    /\ roundAt = "idle"
    /\ target' = t
    /\ roundAt' = IF t.cancel THEN "scancel" ELSE "squeue"
    /\ output' = <<Marker(Cancel)>>
    /\ seen' = [j \in Jobs |-> {cluster[j]}]
    /\ UNCHANGED <<cluster, queued, nameOf, submission, misled, status>>

Targeted(j) == IF target.id = ByName THEN nameOf[j] = target.name ELSE j = target.id

(* A failure is reported under the key of the target, with what scancel    *)
(* said, if it said anything.                                              *)
Scancel ==
    /\ roundAt = "scancel"
    /\ roundAt' = "squeue"
    /\ \/ LET hit == {j \in Jobs : Targeted(j) /\ cluster[j] \in {"PENDING", "RUNNING"}}
          IN  /\ cluster' = [j \in Jobs |-> IF j \in hit THEN "CANCELLED" ELSE cluster[j]]
              /\ seen' = [j \in Jobs |-> seen[j] \cup {cluster'[j]}]
              /\ UNCHANGED output
       \/ /\ Host("scancel")
          /\ \E said \in {"none", "message"} :
                output' = Append(output, [Text EXCEPT !.id = target.id, !.name = target.name, !.state = said])
          /\ UNCHANGED <<cluster, seen>>
    /\ UNCHANGED <<queued, nameOf, submission, misled, target, status>>

(* squeue prints no elapsed time; when it fails its section is empty.  A   *)
(* line of the host's own may look like a marker.                          *)
Squeue ==
    /\ roundAt = "squeue"
    /\ roundAt' = "sacct"
    /\ \E rows \in Listings(queued, FALSE) \cup (IF Host("squeue") THEN {<<>>} ELSE {})
                                          \cup (IF Host("stray") THEN {<<Marker(Queue)>>} ELSE {}) :
          output' = output \o <<Marker(Queue)>> \o rows
    /\ UNCHANGED <<cluster, queued, nameOf, submission, misled, target, seen, status>>

(* Accounting is asked for the names of every session the round is about,  *)
(* and may not have heard of some of their jobs.                           *)
Sacct ==
    /\ roundAt = "sacct"
    /\ roundAt' = "parse"
    /\ \E names \in {N \in SUBSET JobNames : target.name \in N} :
          LET known == {j \in Jobs : cluster[j] # "NONE" /\ nameOf[j] \in names}
          IN  \E heard \in IF Host("lag") THEN SUBSET known ELSE {known} :
                 \E rows \in Listings(heard, TRUE) : output' = output \o <<Marker(Accounting)>> \o rows
    /\ UNCHANGED <<cluster, queued, nameOf, submission, misled, target, seen, status>>

(* Sections: the markers must be the expected ones, in order, once each.   *)
Framed(lines, names) ==
    SelectSeq(lines, LAMBDA l : l.marker # "none") = [i \in DOMAIN names |-> Marker(names[i])]

Sections(lines, m) ==
    LET markers == {i \in DOMAIN lines : lines[i].marker # "none"}
        first == CHOOSE i \in markers : lines[i].marker = m
        next == {i \in markers : i > first} \cup {Len(lines) + 1}
    IN  SubSeq(lines, first + 1, (CHOOSE i \in next : \A k \in next : i <= k) - 1)

LastRow(rows, S) == rows[CHOOSE i \in S : \A k \in S : k <= i]

KeyById(row, t) == row.id = t.id

(* The key of a target's observation and of its cancellation error.        *)
KeyOf(row, t) == IF t.id = ByName THEN row.name = t.name ELSE row.id = t.id

(* Accounting is read first, then the queue: the first accounting row of a *)
(* job counts, a queue row replaces it but keeps its elapsed time, and a   *)
(* name belongs to the row that was taken last.                            *)
Observation(acct, queue, t) ==
    LET taken == {i \in DOMAIN acct : \A k \in 1 .. i - 1 : acct[k].id # acct[i].id}
        a == {i \in taken : KeyOf(acct[i], t)}
        q == {i \in DOMAIN queue : KeyOf(queue[i], t)}
        row == IF q # {} THEN LastRow(queue, q) ELSE LastRow(acct, a)
        earlier == {i \in taken : acct[i].id = row.id}
    IN  IF q \cup a = {} THEN NoStatus
        ELSE [NoStatus EXCEPT !.found = TRUE, !.id = row.id, !.state = normalizeState(row.state),
                !.elapsed = IF row.elapsed = 0 /\ earlier # {} THEN LastRow(acct, earlier).elapsed ELSE row.elapsed]

RefusalById(row, t) == t.id # ByName /\ row.id = t.id

RefusalOf(row, t) == KeyOf(row, t)

(* A failed cancellation without a message reads as none.                  *)
parseStatuses(lines, t) ==
    LET refusals == Sections(lines, Cancel)
    IN  [Observation(Sections(lines, Accounting), Sections(lines, Queue), t)
            EXCEPT !.round = TRUE,
                   !.cancelError = t.cancel /\ \E i \in DOMAIN refusals :
                                       RefusalOf(refusals[i], t) /\ refusals[i].state # "none"]

Observe ==
    /\ roundAt = "parse"
    /\ roundAt' = "reported"
    /\ status' = IF Framed(output, <<Cancel, Queue, Accounting>>) THEN parseStatuses(output, target) ELSE NoStatus
    /\ UNCHANGED <<cluster, queued, nameOf, submission, misled, target, output, seen>>

EndRound ==
    /\ roundAt = "reported"
    /\ roundAt' = "idle"
    /\ target' = NoTarget
    /\ output' = <<>>
    /\ seen' = [j \in Jobs |-> {}]
    /\ status' = NoStatus
    /\ UNCHANGED <<cluster, queued, nameOf, submission, misled>>

(* A target is a recorded job ID with its name, or a name alone.           *)
Targets == [id : {ByName}, name : JobNames, cancel : BOOLEAN]
           \cup {[id |-> j, name |-> nameOf[j], cancel |-> c] :
                    j \in {i \in Jobs : submission[i] = "id"}, c \in BOOLEAN}

SlurmNext ==
    \/ \E j \in Jobs :
          \/ JobRuns(j) \/ JobEnds(j) \/ JobRequeued(j) \/ JobLeavesQueue(j)
          \/ Submit(j) \/ Sbatch(j) \/ SubmitReturns(j)
    \/ \E t \in Targets : BeginRound(t)
    \/ Scancel \/ Squeue \/ Sacct \/ Observe \/ EndRound

SlurmSpec == SlurmInit /\ [][SlurmNext]_slurmVars

----------------------------------------------------------------------------
RawStates == {"NONE", "PENDING", "RUNNING", "COMPLETED", "TIMEOUT", "CANCELLED"}

(* The types of the cluster, of a submission and of a round.               *)
SlurmTypeOK ==
    /\ cluster \in [Jobs -> RawStates]
    /\ queued \subseteq {j \in Jobs : cluster[j] # "NONE"}
    /\ submission \in [Jobs -> {"none", "sending", "id", "ambiguous", "refused"}]
    /\ misled \subseteq Jobs
    /\ roundAt \in {"idle", "scancel", "squeue", "sacct", "parse", "reported"}
    /\ target.id \in Jobs \cup {ByName}
    /\ seen \in [Jobs -> SUBSET RawStates]
    /\ status.id \in Jobs \cup {ByName}

(* A submission reported as refused queued no job and never will: the      *)
(* launch that compensates it, and the next launch of the session, rely on *)
(* it.  Every exit that may hide a queued job is ambiguous, but for a      *)
(* client ended by a signal and an sbatch that failed with its request     *)
(* under way.                                                              *)
DefiniteRefusal ==
    \A j \in Jobs : submission[j] = "refused" /\ cluster[j] # "NONE" => j \in misled

(* What a round reports of its target was true of a job of that target at  *)
(* some moment of the round, although the queue and accounting are read at *)
(* different moments and joined by job ID or by name.                      *)
ReportedStateHeld ==
    roundAt = "reported" /\ status.found =>
        /\ Targeted(status.id)
        /\ CASE status.state = "Pending" -> "PENDING" \in seen[status.id]
             [] status.state = "Active" -> "RUNNING" \in seen[status.id]
             [] status.state = "Stopped" -> {"COMPLETED", "CANCELLED"} \cap seen[status.id] # {}
             [] status.state = "Expired" -> "TIMEOUT" \in seen[status.id]
             [] OTHER -> FALSE
        /\ status.elapsed > 0 => seen[status.id] \cap {"RUNNING", "COMPLETED", "TIMEOUT", "CANCELLED"} # {}

(* A job that was pending or running throughout the round is found, by ID  *)
(* or by name, unless the queue was not listed and accounting had not      *)
(* heard of this very job: no other job's row, and neither failure alone,  *)
(* hides it.                                                               *)
LiveJobFound ==
    roundAt = "reported" /\ status.round =>
        \A j \in Jobs :
            Targeted(j) /\ seen[j] # {} /\ seen[j] \subseteq {"PENDING", "RUNNING"} =>
                \/ status.found
                \/ /\ Sections(output, Queue) = <<>>
                   /\ \A i \in DOMAIN Sections(output, Accounting) : Sections(output, Accounting)[i].id # j

(* A cancellation is never lost silently: after a round that asked for it  *)
(* and reports no error, every job the target had when the round began has *)
(* been cancelled or has ended, unless scancel failed without a word.      *)
CancelNotLost ==
    /\ roundAt = "reported" /\ status.round /\ target.cancel /\ ~status.cancelError
    /\ \A i \in DOMAIN Sections(output, Cancel) : Sections(output, Cancel)[i].state # "none"
    => \A j \in Jobs : Targeted(j) /\ "NONE" \notin seen[j] =>
          seen[j] \cap {"CANCELLED", "COMPLETED", "TIMEOUT"} # {}
============================================================================
