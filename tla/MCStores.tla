------------------------------ MODULE MCStores ------------------------------
(***************************************************************************)
(* What cs-plane keeps for its users: SSH keys and hosts, linked Dev       *)
(* Tunnels accounts, the caches of signing keys and of Custos users, and   *)
(* run records.  The models share no state, so a behaviour is one of one   *)
(* of them: "part" says which, the variables of the others stay as they    *)
(* are, and the state space is the sum of theirs.                          *)
(***************************************************************************)
EXTENDS SSHKeyStore, TunnelBroker, SigningKeys, CustosUsers, RunRecords, TLC

VARIABLE part

keptVars == <<part, storeVars, brokerVars, keyVars, custosVars, recordVars>>

MCInit ==
    /\ part \in {"hosts", "broker", "keys", "users", "records"}
    /\ StoreInit /\ BrokerInit /\ KeyInit /\ CustosInit /\ RecordsInit
    /\ part # "users" => userOf = [t \in IDTokens |-> Unknown]

MCNext ==
    \/ /\ part = "hosts" /\ StoreNext
       /\ UNCHANGED <<part, brokerVars, keyVars, custosVars, recordVars>>
    \/ /\ part = "broker" /\ BrokerNext
       /\ UNCHANGED <<part, storeVars, keyVars, custosVars, recordVars>>
    \/ /\ part = "keys" /\ KeyNext
       /\ UNCHANGED <<part, storeVars, brokerVars, custosVars, recordVars>>
    \/ /\ part = "users" /\ CustosNext
       /\ UNCHANGED <<part, storeVars, brokerVars, keyVars, recordVars>>
    \/ /\ part = "records" /\ RecordsNext
       /\ UNCHANGED <<part, storeVars, brokerVars, keyVars, custosVars>>

MCSpec == MCInit /\ [][MCNext]_keptVars

(* The state of the part that moves has its type, and every table and      *)
(* cache stays within the bound the code gives it (maxLinkBrokerEntries,   *)
(* maxCustosUsers, maxRunRecords, maxSessionMetricSamples).                *)
MCTypeOK ==
    CASE part = "hosts" -> StoreTypeOK
      [] part = "broker" -> BrokerTypeOK
      [] part = "keys" -> KeyTypeOK
      [] part = "users" -> CustosTypeOK
      [] part = "records" -> RecordsTypeOK

(* Callers, requests, sessions and private keys are interchangeable, and   *)
(* so are accounts, ID tokens and key names.  The parts take them from the *)
(* same two sets, so that few permutations serve all.                      *)
MCSymmetry == Permutations(Callers) \cup Permutations(Principals)
=============================================================================
