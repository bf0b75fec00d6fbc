------------------------- MODULE Composition_proofs -------------------------
(***************************************************************************)
(* The parts beside each other: what Stores_proofs and Accounts_proofs     *)
(* prove of one store holds of the composition MCStores, and what          *)
(* SlurmClient_proofs and Hosts_proofs prove of one dialogue with the      *)
(* hosts holds of the composition MCHosts.                                 *)
(***************************************************************************)
EXTENDS MCStores, MCHosts, Stores_proofs, Accounts_proofs, SlurmClient_proofs, Hosts_proofs

(* The stores share no state: a behaviour of their composition is one of   *)
(* each of them, so that what was proved of one holds beside the others.   *)
THEOREM StoresCompose == MCSpec => StoreSpec /\ BrokerSpec /\ KeySpec /\ CustosSpec /\ RecordsSpec
<1>1. MCInit => StoreInit /\ BrokerInit /\ KeyInit /\ CustosInit /\ RecordsInit
  BY Zenon DEF MCInit
<1>2. [MCNext]_keptVars => [StoreNext]_storeVars
  BY Zenon DEF MCNext, keptVars
<1>3. [MCNext]_keptVars => [BrokerNext]_brokerVars
  BY Zenon DEF MCNext, keptVars
<1>4. [MCNext]_keptVars => [KeyNext]_keyVars
  BY Zenon DEF MCNext, keptVars
<1>5. [MCNext]_keptVars => [CustosNext]_custosVars
  BY Zenon DEF MCNext, keptVars
<1>6. [MCNext]_keptVars => [RecordsNext]_recordVars
  BY Zenon DEF MCNext, keptVars
<1> QED BY <1>1, <1>2, <1>3, <1>4, <1>5, <1>6, PTL DEF MCSpec, StoreSpec, BrokerSpec, KeySpec, CustosSpec, RecordsSpec

(* Every store keeps its types and bounds beside the others.               *)
THEOREM StoreTypesCompose == MCSpec => []MCTypeOK
<1> DEFINE OnePart == part \in {"hosts", "broker", "keys", "users", "records"}
<1>1. OnePart /\ StoreTypeOK /\ BrokerTypeOK /\ KeyTypeOK /\ CustosTypeOK /\ RecordsTypeOK
        => MCTypeOK
  BY DEF MCTypeOK
<1>2. MCInit => OnePart
  BY Zenon DEF MCInit
<1>3. OnePart /\ [MCNext]_keptVars => OnePart'
  BY Zenon DEF MCNext, keptVars
<1>4. MCSpec => []StoreTypeOK /\ []BrokerTypeOK /\ []KeyTypeOK /\ []CustosTypeOK /\ []RecordsTypeOK
  BY StoresCompose, StoreTypes, PendingTableBounded, KeyTypes, CustosCacheBounded, RecordsHaveTheirKey, PTL
<1> HIDE DEF OnePart
<1> QED BY <1>1, <1>2, <1>3, <1>4, PTL DEF MCSpec

(* The dialogue with Slurm, the traffic of a run and the provisioning of a *)
(* host each keep their types and bounds beside the others.                *)
THEOREM HostTypesCompose == HostsSpec => []HostsTypeOK
<1> DEFINE OneSide == hostPart \in {"slurm", "traffic", "provision"}
<1>1. OneSide /\ SlurmTypeOK /\ TrafficTypeOK /\ ProvisionTypeOK => HostsTypeOK
  BY DEF HostsTypeOK
<1>2. HostsInit => OneSide
  BY Zenon DEF HostsInit
<1>3. OneSide /\ [HostsNext]_hostVars => OneSide'
  BY Zenon DEF HostsNext, hostVars
<1>4. HostsSpec => []SlurmTypeOK /\ []TrafficTypeOK /\ []ProvisionTypeOK
  BY HostsCompose, SlurmTypes, TrafficTypes, ProvisionTypes, PTL
<1> HIDE DEF OneSide
<1> QED BY <1>1, <1>2, <1>3, <1>4, PTL DEF HostsSpec
=============================================================================
