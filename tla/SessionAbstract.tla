-------------------------- MODULE SessionAbstract ---------------------------
(***************************************************************************)
(* What the control plane promises of one session, without requests, files *)
(* or remote systems: runs are numbered one after the other, at most one   *)
(* goes on at a time, a stopped run does not come back, and a run is       *)
(* recorded only once it is over.  How long the list of records keeps one  *)
(* is no part of the promise.                                              *)
(* docs/ARCHITECTURE.md, "Sessions".                                       *)
(***************************************************************************)
EXTENDS Naturals

VARIABLES
  phase,  \* "undefined", "over", "running", "stopping" or "gone"
  seq,    \* the number of the latest run
  runs    \* the runs that have been recorded

vars == <<phase, seq, runs>>

Init == phase = "undefined" /\ seq = 0 /\ runs = {}

Define ==
  /\ phase = "undefined" /\ phase' = "over"
  /\ UNCHANGED <<seq, runs>>

(* Runs finished elsewhere become the history of a session that never ran. *)
Adopt ==
  /\ phase = "over" /\ seq = 0 /\ runs = {}
  /\ seq' \in Nat \ {0} /\ runs' = 1 .. seq'
  /\ UNCHANGED phase

Launch ==
  /\ phase = "over" /\ phase' = "running"
  /\ seq + 1 \notin runs
  /\ seq' = seq + 1
  /\ UNCHANGED runs

RequestStop ==
  /\ phase = "running" /\ phase' = "stopping"
  /\ UNCHANGED <<seq, runs>>

(* A run ends; its record may have to wait.                                *)
End ==
  /\ phase \in {"running", "stopping"} /\ phase' = "over"
  /\ runs' \in {runs, runs \cup {seq}}
  /\ UNCHANGED seq

(* The cleanup of a finished run failed and will be tried again.           *)
Reopen ==
  /\ phase = "over" /\ phase' = "stopping"
  /\ UNCHANGED <<seq, runs>>

(* A run that is over, the latest or an earlier one, is recorded.          *)
Record ==
  /\ \E n \in runs' : runs' = runs \cup {n} /\ (phase = "running" => n # seq)
  /\ UNCHANGED <<phase, seq>>

Delete ==
  /\ phase = "over" /\ phase' = "gone"
  /\ seq' = 0
  /\ UNCHANGED runs

Next == Define \/ Adopt \/ Launch \/ RequestStop \/ End \/ Reopen \/ Record \/ Delete

Spec == Init /\ [][Next]_vars
=============================================================================
