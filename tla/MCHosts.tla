------------------------------ MODULE MCHosts ------------------------------
(***************************************************************************)
(* What cs-plane and the hosts say to each other around the lifecycle of a *)
(* row: the dialogue with Slurm, the traffic of a run, and the             *)
(* provisioning of a host.  The three models share no state, so a          *)
(* behaviour is one of one of them: hostPart says which, the variables of  *)
(* the others stay as they are, and the state space is the sum of theirs.  *)
(***************************************************************************)
EXTENDS SlurmClient, SessionTraffic, Provisioning, TLC

VARIABLE hostPart

hostVars == <<hostPart, slurmVars, trafficVars, provisionVars>>

HostsInit ==
    /\ hostPart \in {"slurm", "traffic", "provision"}
    /\ SlurmInit /\ TrafficInit /\ ProvisionInit
    /\ hostPart # "provision" => publishedRelease = 0

HostsNext ==
    \/ hostPart = "slurm" /\ SlurmNext /\ UNCHANGED <<hostPart, trafficVars, provisionVars>>
    \/ hostPart = "traffic" /\ TrafficNext /\ UNCHANGED <<hostPart, slurmVars, provisionVars>>
    \/ hostPart = "provision" /\ ProvisionNext /\ UNCHANGED <<hostPart, slurmVars, trafficVars>>

HostsSpec == HostsInit /\ [][HostsNext]_hostVars

(* The state of the part that moves has its type; in particular the        *)
(* Linkspan at its path is never a partial download.                       *)
HostsTypeOK ==
    CASE hostPart = "slurm" -> SlurmTypeOK
      [] hostPart = "traffic" -> TrafficTypeOK
      [] hostPart = "provision" -> ProvisionTypeOK

(* Jobs, links and scripts are interchangeable, each in its own part; the  *)
(* parts take them from one set, so that one permutation serves all three. *)
HostsSymmetry == Permutations(Jobs)
============================================================================
