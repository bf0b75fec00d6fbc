---------------------------- MODULE MCProcesses ----------------------------
(***************************************************************************)
(* The components whose goroutines wait for each other: the logins, and    *)
(* the server with its background passes.  They share no state, so a       *)
(* behaviour is one of one of them: "part" says which, the variables of    *)
(* the other stay as they are, and the state space is the sum of theirs.   *)
(***************************************************************************)
EXTENDS ControlMasters, ServiceRuntime

VARIABLE part

processVars == <<part, controlVars, runtimeVars>>

MCInit ==
    /\ part \in {"logins", "serve"}
    /\ ControlInit /\ RuntimeInit
    /\ part # "logins" => effective = CHOOSE p \in Paths : TRUE

Logging(A) == part = "logins" /\ A /\ UNCHANGED <<part, runtimeVars>>
Serving(A) == part = "serve" /\ A /\ UNCHANGED <<part, controlVars>>

(* A server that has returned is the one state that may have no step.      *)
Returned == Serving(serveAt = "returned" /\ UNCHANGED runtimeVars)

MCNext == Logging(ControlNext) \/ Serving(RuntimeNext) \/ Returned

(* The fairness of the components' specifications, each for its own part.  *)
MCFairness ==
    /\ WF_processVars(Logging(CloseStep))
    /\ \A a \in Logins : WF_processVars(Logging(Cancelled /\ LoginStep(a)))
    /\ WF_processVars(Serving(TeardownStep))
    /\ \A r \in Operations : WF_processVars(Serving(~blocked /\ OperationStep(r)))
    /\ \A p \in Passes : WF_processVars(Serving(~blocked /\ PassStep(p))) /\ SF_processVars(Serving(every(p)))

MCSpec == MCInit /\ [][MCNext]_processVars /\ MCFairness

(* The state of each part has its type; in particular no wait group drops  *)
(* below zero.                                                             *)
MCTypeOK == ControlTypeOK /\ RuntimeTypeOK
=============================================================================
