--------------------------- MODULE Stores_proofs ----------------------------
(***************************************************************************)
(* What the stores keep, for any number of keys, names, hosts, sessions,   *)
(* runs and samples, whichever steps fail and wherever the process stops:  *)
(* the SSH keys and hosts, and the records of finished runs.               *)
(*                                                                         *)
(* The invariant of the key store says what each flow has established by   *)
(* the step it is at: what a flow finds in the directory and in the tables *)
(* when it starts is what the previous flow, or startup, left there.       *)
(***************************************************************************)
EXTENDS SSHKeyStore, RunRecords, Integers, SequenceTheorems, WellFoundedInduction, TLAPS

Rows == [Names -> Keys \cup {None}]
Hosts == [Aliases -> Names \cup {NoKey, None}]

Types ==
    /\ keyRows \in Rows
    /\ hostRows \in Hosts
    /\ keyFile \in Rows
    /\ tombstone \in Rows
    /\ unanswered \subseteq Names
    /\ storeAt \in StoreSteps
    /\ change.name \in Names \cup {None}

(* Where the bytes of the key n are.  A tombstone only counts while there  *)
(* is no key file, because a rename back would otherwise replace the file. *)
(* Nothing is known of a key whose commit was reported as failed.          *)
BytesOf(n) ==
    n \notin unanswered /\ keyRows[n] # None =>
        \/ keyFile[n] = keyRows[n]
        \/ <<n, keyRows[n]>> \in staged
        \/ tombstone[n] = keyRows[n] /\ keyFile[n] = None

(* putSSHKey, at each of its steps.                                        *)
Putting ==
    /\ storeAt \in {"insert", "unstage", "promote"} => change.name \in Names /\ change.key \in Keys
    /\ storeAt \in {"insert", "unstage"} => keyRows[change.name] = None \/ (storeAt = "unstage" /\ change.name \in unanswered)
    /\ storeAt = "insert" => <<change.name, change.key>> \in staged
    /\ storeAt = "promote" => keyRows[change.name] = change.key

Mutating == {"mutate", "replace", "commit", "restore", "rollback", "discard"}

(* deleteSSHKey: the key file is away from the rename until the flow ends, *)
(* and the row from the commit.                                            *)
Deleting ==
    /\ storeAt \in {"unrename", "mutate", "rollback", "discard"} => change.name \in Names
    /\ storeAt \in Mutating \cup {"unrename"} /\ change.name \in Names => keyFile[change.name] = None
    /\ storeAt = "discard" => keyRows[change.name] = None

NamesStored(hosts, rows) == \A a \in Aliases : hosts[a] \in Names => rows[hosts[a]] # None

ConfigStored(config, rows) ==
    config # None =>
        /\ \A s \in config : s.identityFile \in Names \cup {NoKey}
        /\ \A s \in config : s.identityFile \notin unanswered \cup {NoKey} => rows[s.identityFile] # None

(* mutateHosts: what the transaction will commit, the config that is       *)
(* rendered from it and the one that is put back after an error only name  *)
(* stored keys.                                                            *)
Committing ==
    /\ storeAt \in {"replace", "commit"} =>
          /\ change.rows = IF change.name \in Names THEN DeleteKeyRow(keyRows, change.name) ELSE keyRows
          /\ change.hosts \in Hosts
          /\ NamesStored(change.hosts, change.rows)
    /\ storeAt = "commit" => ConfigStored(sshConfig, change.rows)
    /\ storeAt \in {"mutate", "replace", "commit", "restore"} => ConfigStored(change.previous, keyRows)

StoreInv ==
    /\ Types
    /\ \A n \in Names : BytesOf(n)
    /\ Putting
    /\ Deleting
    /\ Committing
    /\ NamesStored(hostRows, keyRows)
    /\ ConfigStored(sshConfig, keyRows)

----------------------------------------------------------------------------
LEMMA ChangeFields ==
    ASSUME NEW name, NEW key, NEW rows, NEW hosts, NEW previous
    PROVE  /\ Change(name, key, rows, hosts, previous).name = name
           /\ Change(name, key, rows, hosts, previous).key = key
           /\ Change(name, key, rows, hosts, previous).rows = rows
           /\ Change(name, key, rows, hosts, previous).hosts = hosts
           /\ Change(name, key, rows, hosts, previous).previous = previous
BY Zenon DEF Change

LEMMA NoChangeName == NoChange.name = None
BY Zenon DEF NoChange, Change

LEMMA EmptyStore == StoreInit => StoreInv
BY Zenon, StoreAssumption, NoChangeName
DEF StoreInit, StoreInv, Types, BytesOf, Putting, Deleting, Committing, Mutating, NamesStored, ConfigStored, NoRows, NoHosts,
    Rows, Hosts, StoreSteps

(* A rendered config names the keys its hosts name.                        *)
LEMMA Rendered ==
    ASSUME NEW hosts \in Hosts, NEW rows, NamesStored(hosts, rows)
    PROVE  ConfigStored(renderConfig(hosts), rows)
<1> SUFFICES ASSUME NEW s \in renderConfig(hosts)
             PROVE  /\ s.identityFile \in Names \cup {NoKey}
                    /\ s.identityFile \notin unanswered \cup {NoKey} => rows[s.identityFile] # None
  BY Zenon DEF ConfigStored
<1>1. PICK a \in Aliases : hosts[a] # None /\ s = stanza(a, hosts[a])
  BY Zenon DEF renderConfig
<1>2. s.identityFile = hosts[a]
  BY Zenon, <1>1 DEF stanza
<1>3. hosts[a] \in Names \cup {NoKey}
  BY Zenon, <1>1 DEF Hosts
<1> QED BY Zenon, <1>2, <1>3 DEF NamesStored

(* The outcomes of a replacement and of a removal.                         *)
LEMMA Replaced ==
    ASSUME NEW old, NEW new, NEW o \in ReplaceFile(old, new)
    PROVE  o[1] \in {old, new} /\ (o[2] = "ok" => o[1] = new)
BY DEF ReplaceFile

LEMMA Removed ==
    ASSUME NEW old, NEW new, NEW o \in RemoveFile(old, new)
    PROVE  o[1] \in {old, new} /\ ("remove" \notin StoreFaults => o[1] = new)
BY DEF RemoveFile, May

(* A flow ends, or the process dies: nothing is held any more.             *)
LEMMA FlowEnds ==
    ASSUME Types', \A n \in Names : BytesOf(n)', NamesStored(hostRows, keyRows)', ConfigStored(sshConfig, keyRows)',
           storeAt' \in {"idle", "down", "recover"}
    PROVE  StoreInv'
BY Zenon DEF StoreInv, Putting, Deleting, Committing, Mutating

LEMMA TablesKept ==
    ASSUME StoreInv, UNCHANGED <<keyRows, hostRows, unanswered, sshConfig>>
    PROVE  /\ NamesStored(hostRows, keyRows)'
           /\ ConfigStored(sshConfig, keyRows)'
           /\ keyRows' \in Rows /\ hostRows' \in Hosts /\ unanswered' \subseteq Names
BY Zenon DEF StoreInv, Types, NamesStored, ConfigStored

LEMMA Ended ==
    ASSUME NEW step \in {"idle", "down", "recover"}, NEW held, Goto(step, held), step = "recover" => held = NoChange
    PROVE  storeAt' = step /\ storeAt' \in StoreSteps /\ change' = NoChange /\ change'.name \in Names \cup {None}
BY Zenon, NoChangeName DEF Goto, StoreSteps

----------------------------------------------------------------------------
(* putSSHKey.                                                              *)
LEMMA putSSHKeyKeeps ==
    ASSUME StoreInv, NEW n \in Names, NEW k \in Keys, putSSHKey(n, k)
    PROVE  StoreInv'
<1>1. PICK o \in ReplaceFile(staged, staged \cup {<<n, k>>}) :
        /\ staged' = o[1]
        /\ Goto(IF o[2] = "ok" THEN "insert" ELSE "idle", Change(n, k, NoRows, NoHosts, None))
  BY Zenon DEF putSSHKey
<1>2. UNCHANGED <<keyRows, hostRows, unanswered, keyFile, tombstone, sshConfig>> /\ keyRows[n] = None
  BY Zenon DEF putSSHKey, tables
<1>3. staged \subseteq staged' /\ (o[2] = "ok" => <<n, k>> \in staged')
  BY <1>1, Replaced
<1>4. \A m \in Names : BytesOf(m)'
  BY Zenon, <1>2, <1>3 DEF StoreInv, BytesOf
<1>5. CASE o[2] # "ok"
  <2>1. storeAt' = "idle" /\ storeAt' \in StoreSteps /\ change'.name \in Names \cup {None}
    BY Zenon, <1>1, <1>5, Ended
  <2> QED BY Zenon, <1>2, <1>4, <2>1, TablesKept, FlowEnds DEF StoreInv, Types
<1>6. CASE o[2] = "ok"
  <2>1. storeAt' = "insert" /\ change' = Change(n, k, NoRows, NoHosts, None)
    BY Zenon, <1>1, <1>6 DEF Goto
  <2>2. change'.name = n /\ change'.key = k
    BY <2>1, ChangeFields
  <2> QED BY Zenon, <1>2, <1>3, <1>4, <1>6, <2>1, <2>2, TablesKept
          DEF StoreInv, Types, StoreSteps, Putting, Deleting, Committing, Mutating
<1> QED BY Zenon, <1>5, <1>6

LEMMA InsertKeyKeeps ==
    ASSUME StoreInv, InsertKey
    PROVE  StoreInv'
<1>1. /\ storeAt = "insert" /\ change.name \in Names /\ change.key \in Keys /\ keyRows[change.name] = None
      /\ <<change.name, change.key>> \in staged
      /\ UNCHANGED <<hostRows, keyFile, tombstone, staged, sshConfig, change>>
  BY Zenon DEF InsertKey, StoreInv, Putting, files
<1>2. ASSUME keyRows' = InsertKeyRow(keyRows, change.name, change.key), unanswered \subseteq unanswered'
      PROVE  /\ keyRows' \in Rows /\ keyRows'[change.name] = change.key
             /\ \A m \in Names : BytesOf(m)'
             /\ NamesStored(hostRows, keyRows)' /\ ConfigStored(sshConfig, keyRows)'
  <2>1. keyRows' = [keyRows EXCEPT ![change.name] = change.key] /\ keyRows \in Rows
    BY Zenon, <1>2 DEF InsertKeyRow, StoreInv, Types
  <2>2. /\ keyRows' \in Rows /\ keyRows'[change.name] = change.key
        /\ \A m \in Names : keyRows[m] # None => keyRows'[m] # None
    BY Zenon, <1>1, <2>1, StoreAssumption DEF Rows
  <2>3. \A m \in Names : BytesOf(m)'
    BY Zenon, <1>1, <1>2, <2>1 DEF StoreInv, BytesOf, Rows
  <2>4. NamesStored(hostRows, keyRows)' /\ ConfigStored(sshConfig, keyRows)'
    BY Zenon, <1>1, <1>2, <2>2 DEF StoreInv, NamesStored, ConfigStored
  <2> QED BY Zenon, <2>2, <2>3, <2>4
<1>3. CASE keyRows' = InsertKeyRow(keyRows, change.name, change.key) /\ storeAt' = "promote" /\ UNCHANGED unanswered
  BY Zenon, <1>1, <1>2, <1>3 DEF StoreInv, Types, StoreSteps, Putting, Deleting, Committing, Mutating
<1>4. CASE /\ keyRows' = InsertKeyRow(keyRows, change.name, change.key) /\ storeAt' = "unstage"
           /\ unanswered' = unanswered \cup {change.name}
  <2>1. unanswered \subseteq unanswered' /\ unanswered' \subseteq Names /\ change.name \in unanswered'
    BY Zenon, <1>1, <1>4 DEF StoreInv, Types
  <2> QED BY Zenon, <1>1, <1>2, <1>4, <2>1 DEF StoreInv, Types, StoreSteps, Putting, Deleting, Committing, Mutating
<1>5. CASE storeAt' = "unstage" /\ UNCHANGED <<keyRows, unanswered>>
  <2>1. \A m \in Names : BytesOf(m)'
    BY Zenon, <1>1, <1>5 DEF StoreInv, BytesOf
  <2> QED BY Zenon, <1>1, <1>5, <2>1, TablesKept DEF StoreInv, Types, StoreSteps, Putting, Deleting, Committing, Mutating
<1> QED BY Zenon, <1>3, <1>4, <1>5 DEF InsertKey

LEMMA UnstageKeeps ==
    ASSUME StoreInv, Unstage
    PROVE  StoreInv'
<1>1. PICK o \in RemoveFile(staged, staged \ {<<change.name, change.key>>}) : staged' = o[1]
  BY Zenon DEF Unstage
<1>2. /\ UNCHANGED <<keyRows, hostRows, unanswered, keyFile, tombstone, sshConfig>>
      /\ keyRows[change.name] = None \/ change.name \in unanswered
      /\ change.name \in Names
  BY Zenon DEF Unstage, tables, StoreInv, Putting
<1>3. staged' = staged \/ staged' = staged \ {<<change.name, change.key>>}
  BY <1>1, Removed
<1>4. \A m \in Names : BytesOf(m)'
  BY Zenon, <1>2, <1>3 DEF StoreInv, BytesOf
<1>5. storeAt' = "idle" /\ storeAt' \in StoreSteps /\ change'.name \in Names \cup {None}
  BY Zenon, Ended DEF Unstage, Release
<1> QED BY Zenon, <1>2, <1>4, <1>5, TablesKept, FlowEnds DEF StoreInv, Types

LEMMA PromoteKeyKeeps ==
    ASSUME StoreInv, PromoteKey
    PROVE  StoreInv'
<1>1. /\ UNCHANGED <<keyRows, hostRows, unanswered, tombstone, sshConfig>> /\ keyRows[change.name] = change.key
      /\ change.name \in Names /\ change.key \in Keys /\ keyFile \in Rows
  BY Zenon DEF PromoteKey, tables, StoreInv, Putting, Types
<1>2. \/ keyFile' = [keyFile EXCEPT ![change.name] = change.key] /\ staged' = staged \ {<<change.name, change.key>>}
      \/ UNCHANGED <<keyFile, staged>>
  BY Zenon DEF PromoteKey
<1>3. (\A m \in Names : BytesOf(m)') /\ keyFile' \in Rows
  BY Zenon, <1>1, <1>2 DEF StoreInv, BytesOf, Rows
<1>4. storeAt' = "idle" /\ storeAt' \in StoreSteps /\ change'.name \in Names \cup {None}
  BY Zenon, Ended DEF PromoteKey, Release
<1> QED BY Zenon, <1>1, <1>3, <1>4, TablesKept, FlowEnds DEF StoreInv, Types

----------------------------------------------------------------------------
(* deleteSSHKey and the host operations: mutateHosts.                      *)
LEMMA stageSSHDeleteKeeps ==
    ASSUME StoreInv, NEW n \in Names, stageSSHDelete(n)
    PROVE  StoreInv'
<1>1. /\ UNCHANGED <<keyRows, hostRows, unanswered, staged, sshConfig>> /\ keyFile \in Rows /\ tombstone \in Rows
      /\ tombstone' = [tombstone EXCEPT ![n] = keyFile[n]] /\ keyFile' = [keyFile EXCEPT ![n] = None]
      /\ storeAt' \in {"mutate", "unrename"} /\ keyFile[n] # None
  BY Zenon DEF stageSSHDelete, tables, StoreInv, Types
<1>2. change'.name = n /\ change'.previous = sshConfig
  BY ChangeFields DEF stageSSHDelete
<1>3. tombstone' \in Rows /\ keyFile' \in Rows /\ keyFile'[n] = None
  BY Zenon, <1>1 DEF Rows
<1>4. \A m \in Names : BytesOf(m)'
  BY Zenon, <1>1 DEF StoreInv, BytesOf, Rows
<1>5. ConfigStored(change.previous, keyRows)'
  BY Zenon, <1>1, <1>2 DEF StoreInv, ConfigStored
<1> QED BY Zenon, <1>1, <1>2, <1>3, <1>4, <1>5, TablesKept
        DEF StoreInv, Types, StoreSteps, Putting, Deleting, Committing, Mutating

(* The key file comes back, or stays in the tombstone.                     *)
LEMMA BackKeeps ==
    ASSUME StoreInv, RenameBack, keyFile[change.name] = None, change.name \in Names,
           UNCHANGED <<keyRows, unanswered, staged>>
    PROVE  (\A m \in Names : BytesOf(m)') /\ keyFile' \in Rows /\ tombstone' \in Rows
<1>1. \/ /\ keyFile' = [keyFile EXCEPT ![change.name] = tombstone[change.name]]
         /\ tombstone' = [tombstone EXCEPT ![change.name] = None]
      \/ UNCHANGED <<keyFile, tombstone>>
  BY Zenon DEF RenameBack
<1> QED BY ZenonT(40), <1>1 DEF StoreInv, Types, BytesOf, Rows

LEMMA UnrenameKeeps ==
    ASSUME StoreInv, Unrename
    PROVE  StoreInv'
<1>1. RenameBack /\ keyFile[change.name] = None /\ change.name \in Names /\ UNCHANGED <<keyRows, hostRows, unanswered, staged, sshConfig>>
  BY Zenon DEF Unrename, tables, StoreInv, Deleting, Mutating
<1>2. storeAt' = "idle" /\ storeAt' \in StoreSteps /\ change'.name \in Names \cup {None}
  BY Zenon, Ended DEF Unrename, Release
<1> QED BY Zenon, <1>1, <1>2, BackKeeps, TablesKept, FlowEnds DEF Types

LEMMA RollbackDeleteKeeps ==
    ASSUME StoreInv, RollbackDelete
    PROVE  StoreInv'
<1>1. RenameBack /\ keyFile[change.name] = None /\ change.name \in Names /\ UNCHANGED <<keyRows, hostRows, unanswered, staged, sshConfig>>
  <2>1. keyFile[change.name] = None /\ change.name \in Names
    BY Zenon DEF RollbackDelete, StoreInv, Deleting, Mutating
  <2> QED BY Zenon, <2>1 DEF RollbackDelete, tables
<1>2. storeAt' = "idle" /\ storeAt' \in StoreSteps /\ change'.name \in Names \cup {None}
  BY Zenon, Ended DEF RollbackDelete, Release
<1> QED BY Zenon, <1>1, <1>2, BackKeeps, TablesKept, FlowEnds DEF Types

LEMMA FilesKept ==
    ASSUME StoreInv, UNCHANGED <<keyRows, unanswered, keyFile, tombstone, staged>>
    PROVE  (\A m \in Names : BytesOf(m)') /\ keyFile' \in Rows /\ tombstone' \in Rows /\ keyRows' \in Rows
           /\ unanswered' \subseteq Names
BY Zenon DEF StoreInv, Types, BytesOf

LEMMA deleteSSHKeyKeeps ==
    ASSUME StoreInv, deleteSSHKey
    PROVE  StoreInv'
<1>1. /\ UNCHANGED <<keyRows, hostRows, unanswered, keyFile, tombstone, staged, sshConfig>>
      /\ change.name \in Names /\ keyFile[change.name] = None /\ ConfigStored(change.previous, keyRows)
  BY Zenon DEF deleteSSHKey, tables, files, StoreInv, Deleting, Committing, Mutating
<1>2. CASE storeAt' = "rollback" /\ change' = change
  BY Zenon, <1>1, <1>2, TablesKept, FilesKept DEF StoreInv, Types, StoreSteps, Putting, Deleting, Committing, Mutating
<1>3. CASE /\ storeAt' = "replace"
           /\ change' = Change(change.name, None, DeleteKeyRow(keyRows, change.name),
                               ClearKey(hostRows, change.name), change.previous)
  <2>1. /\ change'.name = change.name /\ change'.rows = DeleteKeyRow(keyRows, change.name)
        /\ change'.hosts = ClearKey(hostRows, change.name) /\ change'.previous = change.previous
    BY <1>3, ChangeFields
  <2>2. change'.hosts \in Hosts
    BY Zenon, <2>1 DEF ClearKey, StoreInv, Types, Hosts
  <2>3. NamesStored(change'.hosts, change'.rows)
    BY <1>1, <2>1, StoreAssumption DEF StoreInv, Types, Rows, Hosts, NamesStored, ClearKey, DeleteKeyRow
  <2>4. ConfigStored(change.previous, keyRows)'
    BY Zenon, <1>1, <2>1 DEF ConfigStored
  <2>5. Committing'
    BY Zenon, <1>1, <1>3, <2>1, <2>2, <2>3, <2>4 DEF Committing
  <2> QED BY Zenon, <1>1, <1>3, <2>1, <2>5, TablesKept, FilesKept DEF StoreInv, Types, StoreSteps, Putting, Deleting, Mutating
<1> QED BY Zenon, <1>2, <1>3 DEF deleteSSHKey

LEMMA mutateHostsKeeps ==
    ASSUME StoreInv, NEW hosts \in Hosts, NamesStored(hosts, keyRows), mutateHosts(hosts)
    PROVE  StoreInv'
<1>1. UNCHANGED <<keyRows, hostRows, unanswered, keyFile, tombstone, staged, sshConfig>> /\ storeAt' = "replace"
  BY Zenon DEF mutateHosts, tables, files
<1>2. change'.name = None /\ change'.rows = keyRows /\ change'.hosts = hosts /\ change'.previous = sshConfig
  BY ChangeFields DEF mutateHosts
<1>3. ConfigStored(change.previous, keyRows)'
  BY Zenon, <1>1, <1>2 DEF StoreInv, ConfigStored
<1>4. Committing'
  BY Zenon, <1>1, <1>2, <1>3, StoreAssumption DEF Committing
<1> QED BY Zenon, <1>1, <1>2, <1>4, StoreAssumption, TablesKept, FilesKept DEF StoreInv, Types, StoreSteps, Putting, Deleting, Mutating

(* A host is only stored with a key that is stored, or without one.        *)
LEMMA putHostKeeps ==
    ASSUME StoreInv, NEW a \in Aliases, NEW key \in Names \cup {NoKey}, addHost(a, key) \/ updateHost(a, key)
    PROVE  StoreInv'
<1>1. resolveSSHCredential(key) /\ mutateHosts(PutHostRow(hostRows, a, key))
  BY Zenon DEF addHost, updateHost
<1>2. PutHostRow(hostRows, a, key) \in Hosts
  BY Zenon DEF PutHostRow, StoreInv, Types, Hosts
<1>3. NamesStored(PutHostRow(hostRows, a, key), keyRows)
  BY Zenon, <1>1, StoreAssumption DEF PutHostRow, StoreInv, Types, Hosts, NamesStored, resolveSSHCredential
<1> QED BY Zenon, <1>1, <1>2, <1>3, mutateHostsKeeps

LEMMA deleteHostKeeps ==
    ASSUME StoreInv, NEW a \in Aliases, deleteHost(a)
    PROVE  StoreInv'
<1>1. mutateHosts(DeleteHostRow(hostRows, a))
  BY Zenon DEF deleteHost
<1>2. DeleteHostRow(hostRows, a) \in Hosts
  BY Zenon DEF DeleteHostRow, StoreInv, Types, Hosts
<1>3. NamesStored(DeleteHostRow(hostRows, a), keyRows)
  BY Zenon, StoreAssumption DEF DeleteHostRow, StoreInv, Types, Hosts, NamesStored
<1> QED BY Zenon, <1>1, <1>2, <1>3, mutateHostsKeeps

(* What the transaction holds is stored already.                           *)
LEMMA Uncommitted ==
    ASSUME StoreInv, storeAt \in {"replace", "commit"}
    PROVE  /\ change.rows \in Rows
           /\ \A m \in Names : change.rows[m] # None => change.rows[m] = keyRows[m]
           /\ \A config : ConfigStored(config, change.rows) => ConfigStored(config, keyRows)
<1>1. /\ change.rows = IF change.name \in Names THEN DeleteKeyRow(keyRows, change.name) ELSE keyRows
      /\ keyRows \in Rows
  BY Zenon DEF StoreInv, Committing, Types
<1>2. change.rows \in Rows /\ \A m \in Names : change.rows[m] # None => change.rows[m] = keyRows[m]
  BY Zenon, <1>1 DEF DeleteKeyRow, Rows
<1>3. \A config : ConfigStored(config, change.rows) => ConfigStored(config, keyRows)
  BY Zenon, <1>2 DEF ConfigStored
<1> QED BY Zenon, <1>2, <1>3

LEMMA ReplaceConfigKeeps ==
    ASSUME StoreInv, ReplaceConfig
    PROVE  StoreInv'
<1>1. PICK o \in ReplaceFile(sshConfig, renderConfig(change.hosts)) :
        sshConfig' = o[1] /\ storeAt' = IF o[2] = "ok" THEN "commit" ELSE "restore"
  BY Zenon DEF ReplaceConfig
<1>2. UNCHANGED <<keyRows, hostRows, unanswered, keyFile, tombstone, staged, change>> /\ storeAt = "replace"
  BY Zenon DEF ReplaceConfig, tables, files
<1>3. ConfigStored(renderConfig(change.hosts), change.rows)
  BY Zenon, <1>2, Rendered DEF StoreInv, Committing
<1>4. /\ sshConfig' \in {sshConfig, renderConfig(change.hosts)}
      /\ storeAt' \in {"commit", "restore"} /\ (storeAt' = "commit" => sshConfig' = renderConfig(change.hosts))
  BY <1>1, Replaced
<1>5. ConfigStored(sshConfig', keyRows)
  BY Zenon, <1>2, <1>3, <1>4, Uncommitted DEF StoreInv
<1>6. ConfigStored(sshConfig, keyRows)' /\ NamesStored(hostRows, keyRows)' /\ hostRows' \in Hosts
  BY Zenon, <1>2, <1>5 DEF StoreInv, Types, ConfigStored, NamesStored
<1>7. Committing'
  BY Zenon, <1>2, <1>3, <1>4 DEF StoreInv, Committing, ConfigStored, NamesStored
<1> QED BY Zenon, <1>2, <1>4, <1>6, <1>7, FilesKept DEF StoreInv, Types, StoreSteps, Putting, Deleting, Mutating

LEMMA TxKeeps ==
    ASSUME StoreInv, Tx
    PROVE  StoreInv'
<1>1. storeAt = "commit" /\ UNCHANGED <<keyFile, tombstone, staged, sshConfig>>
  BY Zenon DEF Tx, files
<1>2. ASSUME keyRows' = change.rows, hostRows' = change.hosts, unanswered \subseteq unanswered'
      PROVE  /\ keyRows' \in Rows /\ hostRows' \in Hosts /\ keyFile' \in Rows /\ tombstone' \in Rows
             /\ NamesStored(hostRows, keyRows)' /\ ConfigStored(sshConfig, keyRows)'
             /\ \A m \in Names : BytesOf(m)'
  <2>1. keyRows' \in Rows /\ hostRows' \in Hosts /\ keyFile' \in Rows /\ tombstone' \in Rows
    BY Zenon, <1>1, <1>2, Uncommitted DEF StoreInv, Committing, Types
  <2>2. NamesStored(hostRows, keyRows)' /\ ConfigStored(sshConfig, keyRows)'
    BY Zenon, <1>1, <1>2 DEF StoreInv, Committing, NamesStored, ConfigStored
  <2>3. \A m \in Names : BytesOf(m)'
    BY Zenon, <1>1, <1>2, Uncommitted DEF StoreInv, BytesOf
  <2> QED BY Zenon, <2>1, <2>2, <2>3
<1>3. CASE /\ keyRows' = change.rows /\ hostRows' = change.hosts /\ UNCHANGED unanswered
           /\ Goto(IF change.name = None THEN "idle" ELSE "discard", change)
  <2>1. unanswered' \subseteq Names
    BY Zenon, <1>3 DEF StoreInv, Types
  <2>2. CASE change.name = None
    <3>1. storeAt' = "idle" /\ storeAt' \in StoreSteps /\ change'.name \in Names \cup {None}
      BY Zenon, <1>3, <2>2, Ended
    <3> QED BY Zenon, <1>2, <1>3, <2>1, <3>1, FlowEnds DEF Types
  <2>3. CASE change.name # None
    <3>1. storeAt' = "discard" /\ change' = change /\ change.name \in Names
      BY Zenon, <1>3, <2>3 DEF Goto, StoreInv, Types
    <3>2. keyRows'[change.name] = None /\ keyFile'[change.name] = None
      BY Zenon, <1>1, <1>3, <3>1 DEF StoreInv, Types, Rows, Committing, Deleting, Mutating, DeleteKeyRow
    <3> QED BY Zenon, <1>2, <1>3, <2>1, <3>1, <3>2
            DEF StoreInv, Types, StoreSteps, Putting, Deleting, Committing, Mutating
  <2> QED BY Zenon, <2>2, <2>3
<1>4. CASE /\ keyRows' = change.rows /\ hostRows' = change.hosts /\ unanswered' = unanswered \cup ({change.name} \ {None})
           /\ Goto("restore", change)
  <2>1. /\ unanswered \subseteq unanswered' /\ unanswered' \subseteq Names /\ change.name \in Names \cup {None}
        /\ change.name \in Names => change.name \in unanswered'
    BY Zenon, <1>4, StoreAssumption DEF StoreInv, Types
  <2>2. storeAt' = "restore" /\ change' = change
    BY Zenon, <1>4 DEF Goto
  <2>3. \A m \in Names \ unanswered' : keyRows'[m] = keyRows[m]
    BY Zenon, <1>1, <1>4, <2>1 DEF StoreInv, Types, Rows, Committing, DeleteKeyRow
  <2>4. ConfigStored(change.previous, keyRows)'
    BY Zenon, <1>1, <2>1, <2>2, <2>3 DEF StoreInv, Committing, ConfigStored
  <2>5. keyFile' = keyFile /\ (change.name \in Names => keyFile[change.name] = None)
    BY Zenon, <1>1 DEF StoreInv, Deleting, Mutating
  <2>6. Committing' /\ Putting' /\ Deleting'
    BY Zenon, <2>2, <2>4, <2>5 DEF Committing, Putting, Deleting, Mutating
  <2> QED BY Zenon, <1>2, <1>4, <2>1, <2>2, <2>6 DEF StoreInv, Types, StoreSteps
<1>5. CASE UNCHANGED tables /\ Goto("restore", change)
  <2>1. storeAt' = "restore" /\ change' = change /\ UNCHANGED <<keyRows, hostRows, unanswered>>
    BY Zenon, <1>5 DEF Goto, tables
  <2>2. Committing'
    BY Zenon, <1>1, <2>1 DEF StoreInv, Committing, ConfigStored
  <2> QED BY Zenon, <1>1, <2>1, <2>2, TablesKept, FilesKept DEF StoreInv, Types, StoreSteps, Putting, Deleting, Mutating
<1> QED BY Zenon, <1>3, <1>4, <1>5 DEF Tx

LEMMA RestoreConfigKeeps ==
    ASSUME StoreInv, RestoreConfig
    PROVE  StoreInv'
<1>1. /\ UNCHANGED <<keyRows, hostRows, unanswered, keyFile, tombstone, staged>> /\ storeAt = "restore"
      /\ Goto(IF change.name = None THEN "idle" ELSE "rollback", change)
  BY Zenon DEF RestoreConfig, tables, files
<1>2. sshConfig' \in {sshConfig, change.previous}
  <2>1. CASE change.previous = None
    BY <2>1, Removed DEF RestoreConfig
  <2>2. CASE change.previous # None
    BY <2>2, Replaced DEF RestoreConfig
  <2> QED BY Zenon, <2>1, <2>2
<1>3. ConfigStored(sshConfig', keyRows)
  BY Zenon, <1>1, <1>2 DEF StoreInv, Committing
<1>4. ConfigStored(sshConfig, keyRows)' /\ NamesStored(hostRows, keyRows)' /\ hostRows' \in Hosts
  BY Zenon, <1>1, <1>3 DEF StoreInv, Types, ConfigStored, NamesStored
<1>5. CASE change.name = None
  <2>1. storeAt' = "idle" /\ storeAt' \in StoreSteps /\ change'.name \in Names \cup {None}
    BY Zenon, <1>1, <1>5, Ended
  <2> QED BY Zenon, <1>1, <1>4, <2>1, FilesKept, FlowEnds DEF Types
<1>6. CASE change.name # None
  <2>1. storeAt' = "rollback" /\ change' = change /\ change.name \in Names
    BY Zenon, <1>1, <1>6 DEF Goto, StoreInv, Types
  <2> QED BY Zenon, <1>1, <1>4, <2>1, FilesKept DEF StoreInv, Types, StoreSteps, Putting, Deleting, Committing, Mutating
<1> QED BY Zenon, <1>5, <1>6

LEMMA DiscardTombstoneKeeps ==
    ASSUME StoreInv, DiscardTombstone
    PROVE  StoreInv'
<1>1. PICK o \in RemoveFile(tombstone, [tombstone EXCEPT ![change.name] = None]) : tombstone' = o[1]
  BY Zenon DEF DiscardTombstone
<1>2. /\ UNCHANGED <<keyRows, hostRows, unanswered, keyFile, staged, sshConfig>> /\ keyRows[change.name] = None
      /\ change.name \in Names
  BY Zenon DEF DiscardTombstone, tables, StoreInv, Deleting
<1>3. tombstone' = tombstone \/ tombstone' = [tombstone EXCEPT ![change.name] = None]
  BY <1>1, Removed
<1>4. (\A m \in Names : BytesOf(m)') /\ tombstone' \in Rows
  BY Zenon, <1>2, <1>3 DEF StoreInv, Types, BytesOf, Rows
<1>5. storeAt' = "idle" /\ storeAt' \in StoreSteps /\ change'.name \in Names \cup {None}
  BY Zenon, Ended DEF DiscardTombstone, Release
<1> QED BY Zenon, <1>2, <1>4, <1>5, TablesKept, FlowEnds DEF StoreInv, Types

----------------------------------------------------------------------------
(* The process dies, and startup settles the directory.                    *)
LEMMA RestartKeeps ==
    ASSUME StoreInv, Crash \/ Start
    PROVE  StoreInv'
<1>1. UNCHANGED <<keyRows, hostRows, unanswered, keyFile, tombstone, staged, sshConfig>>
  BY Zenon DEF Crash, Start, tables, files
<1>2. storeAt' \in {"down", "recover"} /\ storeAt' \in StoreSteps /\ change'.name \in Names \cup {None}
  BY Zenon, Ended DEF Crash, Start
<1> QED BY Zenon, <1>1, <1>2, TablesKept, FilesKept, FlowEnds DEF Types

(* Startup goes on, or ends the process.                                   *)
LEMMA Recovering ==
    ASSUME StoreInv, storeAt = "recover", UNCHANGED <<storeAt, change>> \/ Goto("down", NoChange)
    PROVE  storeAt' \in {"recover", "down"} /\ storeAt' \in StoreSteps /\ change'.name \in Names \cup {None}
BY Zenon, Ended DEF StoreInv, Types

LEMMA RecoverTombstoneKeeps ==
    ASSUME StoreInv, NEW n \in Names, RecoverTombstone(n)
    PROVE  StoreInv'
<1>1. UNCHANGED <<keyRows, hostRows, unanswered, staged, sshConfig>> /\ keyFile \in Rows /\ tombstone \in Rows
  BY Zenon DEF RecoverTombstone, tables, StoreInv, Types
<1>2. \/ /\ tombstone' = [tombstone EXCEPT ![n] = None]
         /\ keyFile' = IF keyRows[n] # None THEN [keyFile EXCEPT ![n] = tombstone[n]] ELSE keyFile
         /\ keyRows[n] # None => keyFile[n] = None
      \/ UNCHANGED <<keyFile, tombstone>>
  BY Zenon DEF RecoverTombstone, Refused
<1>3. (\A m \in Names : BytesOf(m)') /\ keyFile' \in Rows /\ tombstone' \in Rows
  BY ZenonT(40), <1>1, <1>2 DEF StoreInv, BytesOf, Rows
<1>4. storeAt' \in {"recover", "down"} /\ storeAt' \in StoreSteps /\ change'.name \in Names \cup {None}
  BY Zenon, Recovering DEF RecoverTombstone
<1> QED BY Zenon, <1>1, <1>3, <1>4, TablesKept, FlowEnds DEF Types

LEMMA RecoverStageKeeps ==
    ASSUME StoreInv, NEW n \in Names, NEW k \in Keys, RecoverStage(n, k)
    PROVE  StoreInv'
<1>1. UNCHANGED <<keyRows, hostRows, unanswered, tombstone, sshConfig>> /\ keyFile \in Rows /\ tombstone \in Rows
  BY Zenon DEF RecoverStage, tables, StoreInv, Types
<1>2. \/ /\ staged' = staged \ {<<n, k>>}
         /\ keyFile' = IF keyRows[n] = k THEN [keyFile EXCEPT ![n] = k] ELSE keyFile
      \/ UNCHANGED <<keyFile, staged>>
  BY Zenon DEF RecoverStage
<1>3. (\A m \in Names : BytesOf(m)') /\ keyFile' \in Rows
  BY Zenon, <1>1, <1>2 DEF StoreInv, BytesOf, Rows
<1>4. storeAt' \in {"recover", "down"} /\ storeAt' \in StoreSteps /\ change'.name \in Names \cup {None}
  BY Zenon, Recovering DEF RecoverStage
<1> QED BY Zenon, <1>1, <1>3, <1>4, TablesKept, FlowEnds DEF Types

LEMMA reconcileConfigsKeeps ==
    ASSUME StoreInv, reconcileConfigs
    PROVE  StoreInv'
<1>1. PICK o \in ReplaceFile(sshConfig, renderConfig(hostRows)) :
        sshConfig' = o[1] /\ Goto(IF o[2] = "ok" THEN "idle" ELSE "down", NoChange)
  BY Zenon DEF reconcileConfigs
<1>2. UNCHANGED <<keyRows, hostRows, unanswered, keyFile, tombstone, staged>>
  BY Zenon DEF reconcileConfigs, tables, files
<1>3. ConfigStored(renderConfig(hostRows), keyRows)
  BY Zenon, Rendered DEF StoreInv, Types
<1>4. sshConfig' \in {sshConfig, renderConfig(hostRows)}
  BY Zenon, <1>1, Replaced
<1>5. ConfigStored(sshConfig', keyRows)
  BY Zenon, <1>3, <1>4 DEF StoreInv
<1>6. ConfigStored(sshConfig, keyRows)' /\ NamesStored(hostRows, keyRows)' /\ hostRows' \in Hosts
  BY Zenon, <1>2, <1>5 DEF StoreInv, Types, ConfigStored, NamesStored
<1>7. storeAt' \in {"idle", "down"} /\ storeAt' \in StoreSteps /\ change'.name \in Names \cup {None}
  BY Zenon, <1>1, Ended
<1> QED BY Zenon, <1>2, <1>6, <1>7, FilesKept, FlowEnds DEF Types

LEMMA StoreStepKeeps == StoreInv /\ [StoreNext]_storeVars => StoreInv'
<1> SUFFICES ASSUME StoreInv, [StoreNext]_storeVars
             PROVE  StoreInv'
  OBVIOUS
<1>1. CASE StoreStep
  BY Zenon, <1>1, InsertKeyKeeps, UnstageKeeps, PromoteKeyKeeps, UnrenameKeeps, deleteSSHKeyKeeps, ReplaceConfigKeeps, TxKeeps,
     RestoreConfigKeeps, RollbackDeleteKeeps, DiscardTombstoneKeeps, RestartKeeps, reconcileConfigsKeeps,
     RecoverTombstoneKeeps, RecoverStageKeeps DEF StoreStep
<1>2. CASE StoreRequest
  BY Zenon, <1>2, putSSHKeyKeeps, stageSSHDeleteKeeps, putHostKeeps, deleteHostKeeps DEF StoreRequest
<1>3. CASE Crash
  BY ZenonT(40), <1>3, RestartKeeps
<1>4. CASE UNCHANGED storeVars
  BY <1>4 DEF storeVars, StoreInv, Types, BytesOf, Putting, Deleting, Committing, NamesStored, ConfigStored
<1> QED BY Zenon, <1>1, <1>2, <1>3, <1>4 DEF StoreNext

LEMMA StoreInvariant == StoreSpec => []StoreInv
BY EmptyStore, StoreStepKeeps, PTL DEF StoreSpec

(* Whatever failed and wherever the process died, the bytes of every       *)
(* committed key are in one of its three files (putSSHKey, stageSSHDelete  *)
(* and recoverSSHChanges in keys.go), for any keys, names and hosts; but   *)
(* for a key whose own commit was reported as failed.                      *)
THEOREM CommittedKeysKeepTheirBytes == StoreSpec => []KeyBytesKept
<1>1. StoreInv => KeyBytesKept
  BY DEF StoreInv, BytesOf, KeyBytesKept
<1> QED BY <1>1, StoreInvariant, PTL

(* No host row ever names a deleted key, and no stanza of the config one   *)
(* whose deletion was reported as done (mutateHosts, deleteSSHKey and      *)
(* resolveSSHCredential in persistence.go).                                *)
THEOREM HostsNameOnlyStoredKeys == StoreSpec => []HostsNameStoredKeys
<1>1. StoreInv => HostsNameStoredKeys
  BY DEF StoreInv, NamesStored, ConfigStored, HostsNameStoredKeys
<1> QED BY <1>1, StoreInvariant, PTL

----------------------------------------------------------------------------
(* When removing a file succeeds, or fails only in the directory sync, a   *)
(* tombstone outlives its row only until the flow, or startup, has removed *)
(* it, and a key file is the committed key.                                *)
Settled(n) ==
    n \notin unanswered =>
    /\ keyFile[n] # None => keyFile[n] = keyRows[n]
    /\ tombstone[n] # None =>
          /\ keyFile[n] = None
          /\ keyRows[n] # None => tombstone[n] = keyRows[n]
          /\ keyRows[n] = None => storeAt \in {"down", "recover"} \/ (storeAt = "discard" /\ change.name = n)

Fresh ==
    storeAt \in {"insert", "unstage", "promote"} /\ change.name \notin unanswered =>
        tombstone[change.name] = None

SettledInv ==
    /\ StoreInv
    /\ \A n \in Names : Settled(n)
    /\ Fresh

LEMMA EmptySettled == StoreInit => SettledInv
<1> SUFFICES ASSUME StoreInit
             PROVE  SettledInv
  OBVIOUS
<1>1. StoreInv
  BY Zenon, EmptyStore
<1>2. (\A n \in Names : Settled(n)) /\ Fresh
  BY Zenon DEF StoreInit, Settled, Fresh, NoRows
<1> QED BY Zenon, <1>1, <1>2 DEF SettledInv

(* A step that leaves rows and key files alone.                            *)
LEMMA SettledFrame ==
    ASSUME SettledInv, UNCHANGED <<keyRows, keyFile, tombstone>>, unanswered \subseteq unanswered',
           storeAt \notin {"discard", "down", "recover"} \/ storeAt' \in {"down", "recover"}
    PROVE  \A n \in Names : Settled(n)'
BY Zenon DEF SettledInv, Settled

LEMMA PutSettled ==
    ASSUME SettledInv, NEW n \in Names, NEW k \in Keys, putSSHKey(n, k)
    PROVE  (\A m \in Names : Settled(m)') /\ Fresh'
<1>1. UNCHANGED <<keyRows, unanswered, keyFile, tombstone>> /\ storeAt = "idle" /\ keyRows[n] = None
  BY Zenon DEF putSSHKey, tables
<1>2. n \in unanswered \/ tombstone[n] = None
  BY Zenon, <1>1 DEF SettledInv, Settled
<1>3. storeAt' = "idle" \/ (storeAt' = "insert" /\ change' = Change(n, k, NoRows, NoHosts, None))
  BY Zenon DEF putSSHKey, Goto
<1>4. Fresh'
  BY <1>1, <1>2, <1>3, ChangeFields DEF Fresh
<1> QED BY Zenon, <1>1, <1>4, SettledFrame

LEMMA InsertSettled ==
    ASSUME SettledInv, InsertKey
    PROVE  (\A m \in Names : Settled(m)') /\ Fresh'
<1>1. /\ storeAt = "insert" /\ change.name \in Names /\ change.key \in Keys /\ keyRows[change.name] = None
      /\ change.name \in unanswered \/ (tombstone[change.name] = None /\ keyFile[change.name] = None)
      /\ UNCHANGED <<keyFile, tombstone, change>> /\ unanswered \subseteq unanswered'
  BY Zenon DEF InsertKey, SettledInv, StoreInv, Putting, Fresh, Settled, files
<1>2. /\ keyRows' = keyRows \/ keyRows' = [keyRows EXCEPT ![change.name] = change.key]
      /\ keyRows \in Rows /\ storeAt' \in {"promote", "unstage"}
  BY Zenon DEF InsertKey, InsertKeyRow, SettledInv, StoreInv, Types
<1>3. \A m \in Names : Settled(m)'
  BY Zenon, <1>1, <1>2 DEF SettledInv, Settled, Rows
<1> QED BY Zenon, <1>1, <1>3 DEF Fresh

LEMMA UnstageSettled ==
    ASSUME SettledInv, Unstage
    PROVE  (\A m \in Names : Settled(m)') /\ Fresh'
<1>1. UNCHANGED <<keyRows, unanswered, keyFile, tombstone>> /\ storeAt = "unstage" /\ storeAt' = "idle"
  BY Zenon DEF Unstage, tables, Release, Goto
<1> QED BY Zenon, <1>1, SettledFrame DEF Fresh

LEMMA PromoteSettled ==
    ASSUME SettledInv, PromoteKey
    PROVE  (\A m \in Names : Settled(m)') /\ Fresh'
<1>1. /\ UNCHANGED <<keyRows, unanswered, tombstone>> /\ keyRows[change.name] = change.key /\ keyFile \in Rows
      /\ change.name \in Names /\ (change.name \in unanswered \/ tombstone[change.name] = None)
      /\ storeAt = "promote" /\ storeAt' = "idle"
  BY Zenon DEF PromoteKey, tables, SettledInv, StoreInv, Putting, Types, Fresh, Release, Goto
<1>2. keyFile' = keyFile \/ keyFile' = [keyFile EXCEPT ![change.name] = change.key]
  BY Zenon DEF PromoteKey
<1>3. \A m \in Names : Settled(m)'
  BY ZenonT(40), <1>1, <1>2 DEF SettledInv, Settled, Rows
<1> QED BY Zenon, <1>1, <1>3 DEF Fresh

LEMMA StageDeleteSettled ==
    ASSUME SettledInv, NEW n \in Names, stageSSHDelete(n)
    PROVE  (\A m \in Names : Settled(m)') /\ Fresh'
<1>1. /\ UNCHANGED <<keyRows, unanswered>> /\ keyFile \in Rows /\ tombstone \in Rows /\ keyFile[n] # None
      /\ tombstone' = [tombstone EXCEPT ![n] = keyFile[n]] /\ keyFile' = [keyFile EXCEPT ![n] = None]
      /\ storeAt = "idle" /\ storeAt' \in {"mutate", "unrename"}
  BY Zenon DEF stageSSHDelete, tables, SettledInv, StoreInv, Types
<1>2. \A m \in Names : Settled(m)'
  BY Zenon, <1>1 DEF SettledInv, Settled, Rows
<1> QED BY Zenon, <1>1, <1>2 DEF Fresh

LEMMA BackSettled ==
    ASSUME SettledInv, Unrename \/ RollbackDelete
    PROVE  (\A m \in Names : Settled(m)') /\ Fresh'
<1>1. /\ UNCHANGED <<keyRows, unanswered>> /\ keyFile \in Rows /\ tombstone \in Rows /\ change.name \in Names
      /\ storeAt \in {"unrename", "rollback"} /\ storeAt' = "idle"
  BY Zenon DEF Unrename, RollbackDelete, tables, SettledInv, StoreInv, Types, Deleting, Release, Goto
<1>2. \/ /\ keyFile' = [keyFile EXCEPT ![change.name] = tombstone[change.name]]
         /\ tombstone' = [tombstone EXCEPT ![change.name] = None]
      \/ UNCHANGED <<keyFile, tombstone>>
  BY Zenon DEF Unrename, RollbackDelete, RenameBack
<1>3. keyFile[change.name] = None
  BY Zenon, <1>1 DEF SettledInv, StoreInv, Deleting, Mutating
<1>4. \A m \in Names : Settled(m)'
  BY <1>1, <1>2, <1>3 DEF SettledInv, Settled, Rows
<1> QED BY Zenon, <1>1, <1>4 DEF Fresh

LEMMA MutationSettled ==
    ASSUME SettledInv,
           \/ deleteSSHKey \/ ReplaceConfig \/ RestoreConfig
           \/ \E a \in Aliases, key \in Names \cup {NoKey} : addHost(a, key) \/ updateHost(a, key)
           \/ \E a \in Aliases : deleteHost(a)
    PROVE  (\A m \in Names : Settled(m)') /\ Fresh'
<1>1. UNCHANGED <<keyRows, unanswered, keyFile, tombstone>>
  BY Zenon DEF deleteSSHKey, ReplaceConfig, RestoreConfig, addHost, updateHost, deleteHost, mutateHosts, tables, files
<1>2. /\ storeAt \in {"mutate", "replace", "restore", "idle"}
      /\ storeAt' \in {"rollback", "replace", "commit", "restore", "idle"}
  BY Zenon DEF deleteSSHKey, ReplaceConfig, RestoreConfig, addHost, updateHost, deleteHost, mutateHosts, Goto
<1> QED BY Zenon, <1>1, <1>2, SettledFrame DEF Fresh

LEMMA TxSettled ==
    ASSUME SettledInv, Tx
    PROVE  (\A m \in Names : Settled(m)') /\ Fresh'
<1>1. /\ storeAt = "commit" /\ UNCHANGED <<keyFile, tombstone>> /\ storeAt' \in {"idle", "discard", "restore"}
      /\ unanswered \subseteq unanswered'
  BY Zenon DEF Tx, files, tables, Goto
<1>2. CASE keyRows' = keyRows
  BY Zenon, <1>1, <1>2, SettledFrame DEF Fresh
<1>3. CASE keyRows' # keyRows
  <2>1. /\ keyRows' = change.rows
        /\ \/ Goto(IF change.name = None THEN "idle" ELSE "discard", change)
           \/ unanswered' = unanswered \cup ({change.name} \ {None})
    BY Zenon, <1>3 DEF Tx, tables
  <2>2. change.rows = IF change.name \in Names THEN DeleteKeyRow(keyRows, change.name) ELSE keyRows
    BY Zenon, <1>1 DEF SettledInv, StoreInv, Committing
  <2>3. change.name \in Names /\ change.name # None
    BY Zenon, <1>3, <2>1, <2>2, StoreAssumption
  <2>4. change.name \in unanswered' \/ (storeAt' = "discard" /\ change' = change)
    BY Zenon, <2>1, <2>3 DEF Goto
  <2>5. keyRows' = [keyRows EXCEPT ![change.name] = None]
    BY Zenon, <2>1, <2>2, <2>3 DEF DeleteKeyRow
  <2>6. keyFile[change.name] = None /\ keyRows \in Rows
    BY Zenon, <1>1, <2>3 DEF SettledInv, StoreInv, Types, Deleting, Mutating
  <2>7. \A m \in Names : Settled(m)'
    BY Zenon, <1>1, <2>4, <2>5, <2>6 DEF SettledInv, Settled, Rows
  <2> QED BY Zenon, <1>1, <2>7 DEF Fresh
<1> QED BY Zenon, <1>2, <1>3

LEMMA DiscardSettled ==
    ASSUME SettledInv, DiscardTombstone, "remove" \notin StoreFaults
    PROVE  (\A m \in Names : Settled(m)') /\ Fresh'
<1>1. tombstone' = [tombstone EXCEPT ![change.name] = None]
  BY ZenonT(40), Removed DEF DiscardTombstone
<1>2. UNCHANGED <<keyRows, unanswered, keyFile>> /\ storeAt = "discard" /\ storeAt' = "idle" /\ tombstone \in Rows
  BY Zenon DEF DiscardTombstone, tables, Release, Goto, SettledInv, StoreInv, Types
<1>3. \A m \in Names : Settled(m)'
  BY Zenon, <1>1, <1>2 DEF SettledInv, Settled, Rows
<1> QED BY Zenon, <1>2, <1>3 DEF Fresh

LEMMA RestartSettled ==
    ASSUME SettledInv, Crash \/ Start
    PROVE  (\A m \in Names : Settled(m)') /\ Fresh'
<1>1. UNCHANGED <<keyRows, unanswered, keyFile, tombstone>> /\ storeAt' \in {"down", "recover"}
  BY Zenon DEF Crash, Start, tables, files, Goto
<1> QED BY Zenon, <1>1, SettledFrame DEF Fresh

LEMMA RecoverSettled ==
    ASSUME SettledInv, NEW n \in Names, RecoverTombstone(n) \/ \E k \in Keys : RecoverStage(n, k)
    PROVE  (\A m \in Names : Settled(m)') /\ Fresh'
<1>1. /\ UNCHANGED <<keyRows, unanswered>> /\ keyFile \in Rows /\ tombstone \in Rows
      /\ storeAt = "recover" /\ storeAt' \in {"recover", "down"}
  BY Zenon DEF RecoverTombstone, RecoverStage, tables, Goto, SettledInv, StoreInv, Types
<1>2. CASE RecoverTombstone(n)
  <2>1. \/ /\ tombstone' = [tombstone EXCEPT ![n] = None]
           /\ keyFile' = IF keyRows[n] # None THEN [keyFile EXCEPT ![n] = tombstone[n]] ELSE keyFile
        \/ UNCHANGED <<keyFile, tombstone>>
    BY Zenon, <1>2 DEF RecoverTombstone
  <2>2. \A m \in Names : Settled(m)'
    BY Zenon, <1>1, <2>1 DEF SettledInv, Settled, Rows
  <2> QED BY Zenon, <1>1, <2>2 DEF Fresh
<1>3. ASSUME NEW k \in Keys, RecoverStage(n, k)
      PROVE  (\A m \in Names : Settled(m)') /\ Fresh'
  <2>1. /\ tombstone = NoRows /\ tombstone' = tombstone
        /\ keyFile' = keyFile \/ (keyRows[n] = k /\ keyFile' = [keyFile EXCEPT ![n] = k])
    BY Zenon, <1>3 DEF RecoverStage
  <2>2. \A m \in Names : Settled(m)'
    BY Zenon, <1>1, <2>1 DEF SettledInv, Settled, Rows, NoRows
  <2> QED BY Zenon, <1>1, <2>2 DEF Fresh
<1> QED BY Zenon, <1>2, <1>3

LEMMA ReconcileSettled ==
    ASSUME SettledInv, reconcileConfigs
    PROVE  (\A m \in Names : Settled(m)') /\ Fresh'
<1>1. UNCHANGED <<keyRows, unanswered, keyFile, tombstone>> /\ tombstone = NoRows /\ storeAt' \in {"idle", "down"}
  BY Zenon DEF reconcileConfigs, tables, files, Goto
<1> QED BY Zenon, <1>1 DEF SettledInv, Settled, Fresh, NoRows

LEMMA SettledKept ==
    ASSUME "remove" \notin StoreFaults
    PROVE  SettledInv /\ [StoreNext]_storeVars => SettledInv'
<1> SUFFICES ASSUME SettledInv, [StoreNext]_storeVars
             PROVE  (\A n \in Names : Settled(n)') /\ Fresh'
  BY Zenon, StoreStepKeeps DEF SettledInv
<1>1. CASE StoreStep
  BY Zenon, <1>1, InsertSettled, UnstageSettled, PromoteSettled, BackSettled, MutationSettled, TxSettled, DiscardSettled,
     RestartSettled, ReconcileSettled, RecoverSettled DEF StoreStep
<1>2. CASE StoreRequest
  BY Zenon, <1>2, PutSettled, StageDeleteSettled, MutationSettled DEF StoreRequest
<1>3. CASE Crash
  BY Zenon, <1>3, RestartSettled
<1>4. CASE UNCHANGED storeVars
  BY Zenon, <1>4 DEF storeVars, SettledInv, Settled, Fresh
<1> QED BY Zenon, <1>1, <1>2, <1>3, <1>4 DEF StoreNext

LEMMA SettledInvariant ==
    ASSUME "remove" \notin StoreFaults
    PROVE  StoreSpec => []SettledInv
BY EmptySettled, SettledKept, PTL DEF StoreSpec

(* A key file is only ever the committed key of its name, provided that a  *)
(* file the store removes is gone afterwards (keys.go).                    *)
THEOREM KeyFilesAreCommitted ==
    ASSUME "remove" \notin StoreFaults
    PROVE  StoreSpec => []KeyFileCommitted
<1>1. SettledInv => KeyFileCommitted
  BY DEF SettledInv, Settled, KeyFileCommitted
<1> QED BY <1>1, SettledInvariant, PTL

(* Under the same proviso recoverSSHChanges never finds a key beside its   *)
(* own tombstone, the state it refuses to start with.                      *)
THEOREM StartupIsNotRefused ==
    ASSUME "remove" \notin StoreFaults
    PROVE  StoreSpec => []StartupNotRefused
<1>1. SettledInv => StartupNotRefused
  BY DEF SettledInv, Settled, StartupNotRefused, Refused
<1> QED BY <1>1, SettledInvariant, PTL

(* And when NewService returns, every row has its key file, no file is     *)
(* pending and the config is rendered from the committed hosts.            *)
THEOREM StartupLeavesNothingPending ==
    ASSUME "remove" \notin StoreFaults
    PROVE  StoreSpec => StartupSettles
<1> DEFINE Settles == storeAt = "recover" /\ storeAt' = "idle" =>
                        /\ \A n \in Names \ unanswered : keyFile'[n] = keyRows'[n]
                        /\ tombstone' = NoRows /\ staged' = {}
                        /\ sshConfig' = renderConfig(hostRows')
<1>1. SettledInv /\ [StoreNext]_storeVars => [Settles]_storeVars
  <2> SUFFICES ASSUME SettledInv, StoreNext, storeAt = "recover", storeAt' = "idle"
               PROVE  /\ \A n \in Names \ unanswered : keyFile'[n] = keyRows'[n]
                      /\ tombstone' = NoRows /\ staged' = {}
                      /\ sshConfig' = renderConfig(hostRows')
    OBVIOUS
  <2>1. reconcileConfigs
    <3>1. ~StoreRequest
      BY Zenon DEF StoreRequest, putSSHKey, stageSSHDelete, addHost, updateHost, deleteHost
    <3>2. ~Crash
      BY Zenon DEF Crash, Goto
    <3>3. \A n \in Names : ~RecoverTombstone(n)
      BY Zenon DEF RecoverTombstone, Goto
    <3>4. \A n \in Names, k \in Keys : ~RecoverStage(n, k)
      BY Zenon DEF RecoverStage, Goto
    <3> QED BY Zenon, <3>1, <3>2, <3>3, <3>4
            DEF StoreNext, StoreStep, InsertKey, Unstage, PromoteKey, Unrename, deleteSSHKey, ReplaceConfig, Tx, RestoreConfig,
                RollbackDelete, DiscardTombstone, Start
  <2>2. /\ UNCHANGED <<keyRows, hostRows, unanswered, keyFile, tombstone, staged>> /\ tombstone = NoRows /\ staged = {}
        /\ keyRows \in Rows /\ keyFile \in Rows
    BY Zenon, <2>1 DEF reconcileConfigs, tables, files, SettledInv, StoreInv, Types
  <2>3. sshConfig' = renderConfig(hostRows)
    <3>1. PICK o \in ReplaceFile(sshConfig, renderConfig(hostRows)) :
            sshConfig' = o[1] /\ storeAt' = IF o[2] = "ok" THEN "idle" ELSE "down"
      BY Zenon, <2>1 DEF reconcileConfigs, Goto
    <3> QED BY Zenon, <3>1, Replaced
  <2>4. \A n \in Names \ unanswered : keyFile[n] = keyRows[n]
    <3> SUFFICES ASSUME NEW n \in Names, n \notin unanswered
                 PROVE  keyFile[n] = keyRows[n]
      BY Zenon
    <3>1. (keyFile[n] # None => keyFile[n] = keyRows[n]) /\ tombstone[n] = None
      BY Zenon, <2>2 DEF SettledInv, Settled, NoRows
    <3>2. keyRows[n] # None => keyFile[n] = keyRows[n] \/ tombstone[n] = keyRows[n]
      BY Zenon, <2>2 DEF SettledInv, StoreInv, BytesOf
    <3> QED BY Zenon, <3>1, <3>2
  <2> QED BY Zenon, <2>2, <2>3, <2>4
<1> QED BY <1>1, SettledInvariant, PTL DEF StoreSpec, StartupSettles

-----------------------------------------------------------------------------
(* Run records. A sample is taken of one run, and buffered for whichever   *)
(* run of its session is frozen next.                                      *)

(* Every sample but the oldest is of run n.                                *)
Stray(list, n) == \A i \in 2 .. Len(list) : list[i] = n

(* A list of records as Store.save accepts it.                             *)
Listed(list) ==
    /\ list \in Seq(Records) /\ Len(list) <= MaxRunRecords
    /\ \A i, j \in 1 .. Len(list) : list[i].session = list[j].session /\ list[i].seq = list[j].seq => i = j
    /\ \A i \in 1 .. Len(list) : Stray(list[i].samples, list[i].seq)

RecordShapes ==
    /\ phase \in [Sessions -> Phases]
    /\ seq \in [Sessions -> 0 .. MaxSeq]
    /\ series \in [Sessions -> Samples]
    /\ sampling \in [Sessions -> 0 .. MaxSeq]
    /\ accounting \in SUBSET (Sessions \X (1 .. MaxSeq))

(* Records are of runs that began, and an open run has none.               *)
NumberInv(s) ==
    /\ phase[s] \in {"live", "ready"} =>
          seq[s] # 0 /\ \A k \in 1 .. Len(runs) : runs[k].session = s => runs[k].seq # seq[s]
    /\ \A k \in 1 .. Len(runs) : runs[k].session = s => runs[k].seq <= seq[s]

(* A collection of an earlier run, or of a run that has ended, finds the   *)
(* buffer empty.                                                           *)
BufferInv(s) ==
    /\ Stray(series[s], seq[s])
    /\ phase[s] # "ready" => Len(series[s]) <= 1
    /\ phase[s] # "ready" /\ sampling[s] # 0 => series[s] = <<>>
    /\ sampling[s] \notin {0, seq[s]} => series[s] = <<>>

RecordsInv == RecordShapes /\ Listed(runs) /\ \A s \in Sessions : NumberInv(s) /\ BufferInv(s)

----------------------------------------------------------------------------
LEMMA SamplesAre ==
  /\ \A x \in Samples : x \in Seq(1 .. MaxSeq) /\ Len(x) \in Nat /\ Len(x) <= MaxSamples
  /\ \A x \in Seq(1 .. MaxSeq) : Len(x) <= MaxSamples => x \in Samples
<1>1. ASSUME NEW x \in Samples
      PROVE  x \in Seq(1 .. MaxSeq) /\ Len(x) \in Nat /\ Len(x) <= MaxSamples
  <2>1. PICK n \in 0 .. MaxSamples : x \in [1 .. n -> 1 .. MaxSeq]
    BY Zenon DEF Samples
  <2>2. x \in Seq(1 .. MaxSeq) /\ Len(x) = n
    BY <2>1, RecordsAssumption
  <2>3. QED
    BY <2>1, <2>2, RecordsAssumption
<1>2. ASSUME NEW x \in Seq(1 .. MaxSeq), Len(x) <= MaxSamples
      PROVE  x \in Samples
  <2>1. PICK n : n = Len(x)
    BY Zenon
  <2>2. n \in 0 .. MaxSamples /\ x \in [1 .. n -> 1 .. MaxSeq]
    BY <1>2, <2>1, RecordsAssumption
  <2>3. QED
    BY Zenon, <2>2 DEF Samples
<1>3. QED
  BY Zenon, <1>1, <1>2

(* The empty buffer, and one with a sample.                                *)
LEMMA ShortIsStray ==
  ASSUME NEW x \in Samples, NEW n, Len(x) <= 1
  PROVE  Stray(x, n)
<1>1. Len(x) \in Nat
  BY Zenon, SamplesAre
<1>2. \A i \in 2 .. Len(x) : FALSE
  BY <1>1
<1>3. QED
  BY Zenon, <1>2 DEF Stray

LEMMA EmptyBuffer == <<>> \in Samples /\ Len(<<>>) <= 1 /\ \A n : Stray(<<>>, n)
<1>1. <<>> \in Seq(1 .. MaxSeq) /\ Len(<<>>) <= MaxSamples /\ Len(<<>>) <= 1
  BY RecordsAssumption
<1>2. QED
  BY Zenon, <1>1, SamplesAre, ShortIsStray

LEMMA OneSample ==
  ASSUME NEW n \in 1 .. MaxSeq, NEW m
  PROVE  <<n>> \in Samples /\ Len(<<n>>) = 1 /\ Stray(<<n>>, m)
<1>1. <<n>> \in Seq(1 .. MaxSeq) /\ Len(<<n>>) = 1 /\ Len(<<n>>) <= MaxSamples /\ Len(<<n>>) <= 1
  BY RecordsAssumption
<1>2. QED
  BY Zenon, <1>1, SamplesAre, ShortIsStray

(* sessionMetrics.append drops the oldest samples.                         *)
LEMMA AppendedSample ==
  ASSUME NEW x \in Samples, NEW n \in 1 .. MaxSeq, Stray(x, n)
  PROVE  append(x, n) \in Samples /\ Stray(append(x, n), n) /\ (x = <<>> => Len(append(x, n)) <= 1)
<1>1. x \in Seq(1 .. MaxSeq) /\ Len(x) \in Nat /\ Len(x) <= MaxSamples
  BY Zenon, SamplesAre
<1>2. PICK all, y : all = Append(x, n) /\ y = append(x, n)
  BY Zenon
<1>3. /\ all \in Seq(1 .. MaxSeq) /\ Len(all) = Len(x) + 1
      /\ \A i \in 1 .. Len(x) : all[i] = x[i] 
      /\ all[Len(x) + 1] = n
  BY <1>1, <1>2
<1>4. \A i \in 2 .. Len(all) : all[i] = n
  <2>1. \A i \in 2 .. Len(x) : x[i] = n
    BY Zenon DEF Stray
  <2>2. QED
    BY <1>1, <1>3, <2>1
<1>5. CASE ~(Len(all) > MaxSamples)
  <2>1. y = all
    BY Zenon, <1>2, <1>5 DEF append
  <2>2. y \in Seq(1 .. MaxSeq) /\ Len(y) <= MaxSamples /\ Stray(y, n)
    BY <1>1, <1>3, <1>4, <1>5, <2>1, RecordsAssumption DEF Stray
  <2>3. x = <<>> => Len(y) <= 1
    BY <1>1, <1>3, <2>1
  <2>4. QED
    BY Zenon, <1>2, <2>2, <2>3, SamplesAre
<1>6. CASE Len(all) > MaxSamples
  <2>1. PICK from : from = Len(all) - MaxSamples + 1
    BY Zenon
  <2>2. from \in 1 .. Len(all) /\ Len(all) - from + 1 = MaxSamples
    BY <1>1, <1>3, <1>6, <2>1, RecordsAssumption
  <2>3. y = SubSeq(all, from, Len(all))
    BY Zenon, <1>2, <1>6, <2>1 DEF append
  <2>4. /\ y \in Seq(1 .. MaxSeq) /\ Len(y) = MaxSamples
        /\ \A i \in 1 .. MaxSamples : y[i] = all[from + (i - 1)]
    <3>1. PICK last \in Nat : last = Len(all) /\ from \in 1 .. last
      BY <1>1, <1>3, <2>2
    <3>2. y = SubSeq(all, from, last) /\ (last - from) + 1 = MaxSamples
      BY Zenon, <2>2, <2>3, <3>1
    <3>3. y = [i \in 1 .. MaxSamples |-> all[from + (i - 1)]]
      BY <3>1, <3>2, RecordsAssumption
    <3>4. \A i \in 1 .. MaxSamples : from + (i - 1) \in 1 .. last
      BY <3>1, <3>2, RecordsAssumption
    <3>5. ASSUME NEW i \in 1 .. MaxSamples
          PROVE  y[i] \in 1 .. MaxSeq
      <4>1. PICK k \in 1 .. last : k = from + (i - 1)
        BY Zenon, <3>4
      <4>2. all[k] \in 1 .. MaxSeq
        BY ElementOfSeq, <1>3, <3>1
      <4>3. QED
        BY Zenon, <3>3, <4>1, <4>2
    <3>6. QED
      BY <3>3, <3>5, RecordsAssumption
  <2>5. ASSUME NEW i \in 2 .. Len(y)
        PROVE  y[i] = n
    <3>1. PICK k \in 2 .. Len(all) : k = from + (i - 1) /\ i \in 1 .. MaxSamples
      BY <1>1, <1>3, <2>2, <2>4, RecordsAssumption
    <3>2. QED
      BY Zenon, <1>4, <2>4, <3>1
  <2>6. x = <<>> => Len(y) <= 1
    BY <1>1, <1>3, <1>6, <2>4, RecordsAssumption
  <2>7. Len(y) <= MaxSamples
    BY <2>4, RecordsAssumption
  <2>8. QED
    BY Zenon, <1>2, <2>4, <2>5, <2>6, <2>7, SamplesAre DEF Stray
<1>7. QED
  BY Zenon, <1>5, <1>6

(* What recordRun leaves: the list it found, perhaps shortened, perhaps    *)
(* with the new record in front.                                           *)
Follows(new, list, record) ==
    \A k \in 1 .. Len(new) : new[k] = record \/ \E j \in 1 .. Len(list) : new[k] = list[j]

LEMMA RecordRun ==
  ASSUME NEW list, Listed(list), NEW record, record.seq # 0 => record \in Records, Stray(record.samples, record.seq)
  PROVE  Listed(recordRun(list, record)) /\ Follows(recordRun(list, record), list, record)
<1>1. list \in Seq(Records) /\ Len(list) \in Nat /\ Len(list) <= MaxRunRecords
  BY DEF Listed
<1>2. CASE recorded(list, record)
  BY Zenon, <1>2 DEF recordRun, Follows
<1>3. CASE ~recorded(list, record)
  <2>1. record \in Records /\ Keyed(list, record.session, record.seq) = {}
    BY Zenon, <1>3 DEF recorded
  <2>2. \A j \in 1 .. Len(list) : ~(list[j].session = record.session /\ list[j].seq = record.seq)
    BY <1>1, <2>1 DEF Keyed
  <2>3. PICK whole, new, n : /\ whole = <<record>> \o list /\ new = recordRun(list, record)
                             /\ n = IF Len(whole) > MaxRunRecords THEN MaxRunRecords ELSE Len(whole)
    BY Zenon
  <2>4. /\ whole \in Seq(Records) /\ Len(whole) = Len(list) + 1 /\ whole[1] = record
        /\ \A k \in 2 .. Len(list) + 1 : whole[k] = list[k - 1]
    BY <1>1, <2>1, <2>3
  <2>5. n \in 1 .. Len(list) + 1 /\ n <= MaxRunRecords
    BY <1>1, <2>3, <2>4, RecordsAssumption
  <2>6. new = SubSeq(whole, 1, n)
    BY Zenon, <1>3, <2>3 DEF recordRun, Truncated
  <2>7. new \in Seq(Records) /\ Len(new) = n /\ \A k \in 1 .. n : new[k] = whole[k]
    BY <1>1, <2>4, <2>5, <2>6
  <2>8. \A k \in 1 .. n : (k = 1 /\ new[k] = record) \/ (k # 1 /\ k - 1 \in 1 .. Len(list) /\ new[k] = list[k - 1])
    BY <1>1, <2>4, <2>5, <2>7
  <2>9. Follows(new, list, record)
    BY Zenon, <2>7, <2>8 DEF Follows
  <2>10. ASSUME NEW i \in 1 .. n, NEW j \in 1 .. n, new[i].session = new[j].session /\ new[i].seq = new[j].seq
         PROVE  i = j
    <3>1. CASE i = 1 /\ j = 1
      BY Zenon, <3>1
    <3>2. CASE i = 1 /\ j # 1
      BY Zenon, <2>2, <2>8, <2>10, <3>2
    <3>3. CASE i # 1 /\ j = 1
      BY Zenon, <2>2, <2>8, <2>10, <3>3
    <3>4. CASE i # 1 /\ j # 1
      <4>1. PICK a, b : a = i - 1 /\ b = j - 1
        BY Zenon
      <4>2. a \in 1 .. Len(list) /\ b \in 1 .. Len(list) /\ new[i] = list[a] /\ new[j] = list[b]
        BY Zenon, <2>8, <3>4, <4>1
      <4>3. a = b
        BY Zenon, <2>10, <4>2 DEF Listed
      <4>4. QED
        BY <2>5, <4>1, <4>3
    <3>5. QED
      BY Zenon, <3>1, <3>2, <3>3, <3>4
  <2>11. \A i \in 1 .. n : Stray(new[i].samples, new[i].seq)
    BY Zenon, <2>8 DEF Listed
  <2>12. QED
    BY Zenon, <2>3, <2>5, <2>7, <2>9, <2>10, <2>11 DEF Listed
<1>4. QED
  BY Zenon, <1>2, <1>3

----------------------------------------------------------------------------
(* Lists that name no other runs of session s than another one.            *)
KeysFrom(new, list, s) ==
    \A k \in 1 .. Len(new) :
        new[k].session = s =>
            \E j \in 1 .. Len(list) : list[j].session = s /\ list[j].seq = new[k].seq

LEMMA NumberKept ==
  ASSUME NEW q \in Sessions, NumberInv(q), seq'[q] = seq[q],
         phase'[q] \in {"live", "ready"} => phase[q] \in {"live", "ready"}, KeysFrom(runs', runs, q)
  PROVE  (NumberInv(q))'
  BY Zenon DEF NumberInv, KeysFrom

LEMMA BufferKept ==
  ASSUME NEW q \in Sessions, BufferInv(q), phase'[q] = phase[q], seq'[q] = seq[q], series'[q] = series[q],
         sampling'[q] = sampling[q]
  PROVE  (BufferInv(q))'
  BY Zenon DEF BufferInv

LEMMA EmptyKept ==
  ASSUME NEW q \in Sessions, series'[q] = <<>>
  PROVE  (BufferInv(q))'
<1>1. Stray(series'[q], seq'[q]) /\ Len(series'[q]) <= 1
  BY Zenon, EmptyBuffer
<1>2. QED
  BY Zenon, <1>1 DEF BufferInv

LEMMA SameKeys ==
  ASSUME NEW q, runs' = runs
  PROVE  KeysFrom(runs', runs, q)
  BY Zenon DEF KeysFrom

(* A step of session s that leaves the records alone.                      *)
LEMMA OwnStep ==
  ASSUME RecordsInv, NEW s \in Sessions, RecordShapes', runs' = runs,
         \A q \in Sessions \ {s} : /\ phase'[q] = phase[q] /\ seq'[q] = seq[q]
                                   /\ series'[q] = series[q] /\ sampling'[q] = sampling[q],
         (NumberInv(s))', (BufferInv(s))'
  PROVE  RecordsInv'
<1>1. ASSUME NEW q \in Sessions \ {s}
      PROVE  (NumberInv(q))' /\ (BufferInv(q))'
  BY Zenon, SameKeys, NumberKept, BufferKept DEF RecordsInv
<1>2. (Listed(runs))'
  BY Zenon DEF RecordsInv
<1>3. QED
  BY Zenon, <1>1, <1>2 DEF RecordsInv

LEMMA RecordsStart == RecordsInit => RecordsInv
<1> SUFFICES ASSUME RecordsInit
             PROVE  RecordsInv
  BY Zenon
<1>1. 0 \in 0 .. MaxSeq
  BY RecordsAssumption
<1>2. RecordShapes
  BY Zenon, <1>1, EmptyBuffer DEF RecordsInit, RecordShapes, Phases
<1>3. runs = <<>> /\ Len(runs) = 0 /\ Len(runs) <= MaxRunRecords /\ \A i \in 1 .. Len(runs) : FALSE
  BY RecordsAssumption DEF RecordsInit
<1>4. Listed(runs)
  <2>1. runs \in Seq(Records)
    BY <1>3
  <2>2. QED
    BY Zenon, <1>3, <2>1 DEF Listed
<1>5. ASSUME NEW s \in Sessions
      PROVE  NumberInv(s) /\ BufferInv(s)
  <2>1. phase[s] = "stopped" /\ series[s] = <<>>
    BY Zenon DEF RecordsInit
  <2>2. Stray(series[s], seq[s]) /\ Len(series[s]) <= 1
    BY Zenon, <2>1, EmptyBuffer
  <2>3. QED
    BY Zenon, <1>3, <2>1, <2>2 DEF NumberInv, BufferInv
<1>6. QED
  BY Zenon, <1>2, <1>4, <1>5 DEF RecordsInv

----------------------------------------------------------------------------
LEMMA runOfSession ==
  ASSUME RecordsInv, NEW s \in Sessions
  PROVE  /\ runOf(s).session = s /\ runOf(s).seq = seq[s] /\ Stray(runOf(s).samples, runOf(s).seq)
         /\ runOf(s).seq # 0 => runOf(s) \in Records
         /\ phase[s] \in {"live", "ready"} => ~recorded(runs, runOf(s))
<1>1. PICK r, n, x : r = runOf(s) /\ n = seq[s] /\ x = series[s] /\ r = [session |-> s, seq |-> n, samples |-> x, stats |-> FALSE]
  BY Zenon DEF runOf
<1>2. n \in 0 .. MaxSeq /\ x \in Samples
  BY Zenon, <1>1 DEF RecordsInv, RecordShapes
<1>3. n # 0 => n \in 1 .. MaxSeq
  BY <1>2, RecordsAssumption
<1>4. r.session = s /\ r.seq = n /\ r.samples = x /\ r.stats = FALSE
  BY <1>1
<1>5. n # 0 => r \in Records
  BY <1>1, <1>2, <1>3 DEF Records
<1>6. ASSUME phase[s] \in {"live", "ready"}
      PROVE  ~recorded(runs, r)
  <2>1. n # 0 /\ \A k \in 1 .. Len(runs) : ~(runs[k].session = s /\ runs[k].seq = n)
    BY Zenon, <1>1, <1>6 DEF RecordsInv, NumberInv
  <2>2. runs \in Seq(Records)
    BY Zenon DEF RecordsInv, Listed
  <2>3. Keyed(runs, r.session, r.seq) = {}
    BY <1>4, <2>1, <2>2 DEF Keyed
  <2>4. QED
    BY Zenon, <1>4, <2>1, <2>3 DEF recorded
<1>7. Stray(x, n)
  BY Zenon, <1>1 DEF RecordsInv, BufferInv
<1>8. QED
  BY Zenon, <1>1, <1>4, <1>5, <1>6, <1>7

LEMMA FreezeStep ==
  ASSUME RecordsInv, NEW s \in Sessions, NEW next \in Over, phase[s] \in {"live", "ready"} \cup Over,
         freezeIfTerminal(s, next)
  PROVE  RecordsInv'
<1>1. PICK failed \in SaveFaults :
         /\ IF recorded(runs, runOf(s)) THEN UNCHANGED series ELSE forgetSessionBuffers(s)
         /\ runs' = IF failed THEN runs ELSE recordRun(runs, runOf(s))
         /\ phase' = IF failed THEN phase ELSE [phase EXCEPT ![s] = next]
  BY Zenon DEF freezeIfTerminal
<1>2. UNCHANGED <<seq, sampling, accounting>> /\ RecordShapes /\ Listed(runs)
  BY Zenon DEF freezeIfTerminal, RecordsInv
<1>3. PICK r : r = runOf(s)
  BY Zenon
<1>4. /\ r.session = s /\ r.seq = seq[s] /\ Stray(r.samples, r.seq) /\ (r.seq # 0 => r \in Records)
      /\ phase[s] \in {"live", "ready"} => ~recorded(runs, r)
  BY Zenon, <1>3, runOfSession
<1>5. next \in Phases /\ next \notin {"live", "ready"} /\ \A q \in Over : q # "live" /\ q # "ready"
  BY Zenon DEF Over, Phases
<1>6. /\ phase' \in [Sessions -> Phases] /\ (phase'[s] = phase[s] \/ phase'[s] = next)
      /\ \A q \in Sessions \ {s} : phase'[q] = phase[q]
  BY Zenon, <1>1, <1>2, <1>5 DEF RecordShapes
<1>7. /\ series' \in [Sessions -> Samples] /\ (series'[s] = <<>> \/ (recorded(runs, r) /\ series'[s] = series[s]))
      /\ \A q \in Sessions \ {s} : series'[q] = series[q]
  <2>1. CASE recorded(runs, r)
    BY Zenon, <1>1, <1>2, <1>3, <2>1 DEF RecordShapes
  <2>2. CASE ~recorded(runs, r)
    <3>1. PICK e \in Samples : e = <<>>
      BY Zenon, EmptyBuffer
    <3>2. series' = [series EXCEPT ![s] = e] /\ series \in [Sessions -> Samples]
      BY Zenon, <1>1, <1>2, <1>3, <2>2, <3>1 DEF forgetSessionBuffers, RecordShapes
    <3>3. QED
      BY Zenon, <3>1, <3>2
  <2>3. QED
    BY Zenon, <2>1, <2>2
<1>8. RecordShapes'
  BY Zenon, <1>2, <1>6, <1>7 DEF RecordShapes
<1>9. Listed(runs') /\ Follows(runs', runs, r)
  <2>1. CASE runs' = runs
    BY Zenon, <1>2, <2>1 DEF Follows
  <2>2. CASE runs' = recordRun(runs, r)
    <3>1. PICK list : list = runs
      BY Zenon
    <3>2. Listed(recordRun(list, r)) /\ Follows(recordRun(list, r), list, r)
      BY Zenon, <1>2, <1>4, <3>1, RecordRun
    <3>3. QED
      BY Zenon, <2>2, <3>1, <3>2
  <2>3. QED
    BY Zenon, <1>1, <1>3, <2>1, <2>2
<1>10. ASSUME NEW q \in Sessions \ {s}
       PROVE  (NumberInv(q))' /\ (BufferInv(q))'
  <2>1. NumberInv(q) /\ BufferInv(q)
    BY Zenon DEF RecordsInv
  <2>2. KeysFrom(runs', runs, q)
    BY Zenon, <1>4, <1>9 DEF KeysFrom, Follows
  <2>3. QED
    BY Zenon, <1>2, <1>6, <1>7, <2>1, <2>2, NumberKept, BufferKept
<1>11. (BufferInv(s))'
  <2>1. CASE series'[s] = <<>>
    BY Zenon, <2>1, EmptyKept
  <2>2. CASE recorded(runs, r) /\ series'[s] = series[s]
    <3>1. phase[s] # "ready" /\ phase'[s] # "ready"
      BY Zenon, <1>4, <1>5, <1>6, <2>2
    <3>2. BufferInv(s)
      BY Zenon DEF RecordsInv
    <3>3. QED
      BY Zenon, <1>2, <2>2, <3>1, <3>2 DEF BufferInv
  <2>3. QED
    BY Zenon, <1>7, <2>1, <2>2
<1>12. (NumberInv(s))'
  <2>1. NumberInv(s) /\ seq'[s] = seq[s]
    BY Zenon, <1>2 DEF RecordsInv
  <2>2. PICK m \in 0 .. MaxSeq : m = seq[s]
    BY Zenon, <1>2 DEF RecordShapes
  <2>3. m <= m
    BY <2>2, RecordsAssumption
  <2>4. \A k \in 1 .. Len(runs') : runs'[k].session = s => runs'[k].seq <= seq'[s]
    BY Zenon, <1>4, <1>9, <2>1, <2>2, <2>3 DEF NumberInv, Follows
  <2>5. ASSUME phase'[s] \in {"live", "ready"}
        PROVE  phase[s] \in {"live", "ready"} /\ runs' = runs
    <3>1. phase'[s] # next
      BY Zenon, <1>5, <2>5
    <3>2. failed
      BY Zenon, <1>1, <1>2, <3>1 DEF RecordShapes
    <3>3. QED
      BY Zenon, <1>1, <1>6, <2>5, <3>1, <3>2
  <2>6. QED
    BY Zenon, <2>1, <2>4, <2>5 DEF NumberInv
<1>13. QED
  BY Zenon, <1>8, <1>9, <1>10, <1>11, <1>12 DEF RecordsInv

----------------------------------------------------------------------------
(* A step of session s on its row alone.                                   *)
LEMMA PhaseStep ==
  ASSUME RecordsInv, NEW s \in Sessions, NEW next \in Phases, phase' = [phase EXCEPT ![s] = next],
         UNCHANGED <<seq, runs, series, sampling, accounting>>,
         next \in {"live", "ready"} => phase[s] \in {"live", "ready"}, phase[s] # "ready"
  PROVE  RecordsInv'
<1>1. RecordShapes /\ NumberInv(s) /\ BufferInv(s)
  BY Zenon DEF RecordsInv
<1>2. phase' \in [Sessions -> Phases] /\ phase'[s] = next /\ \A q \in Sessions \ {s} : phase'[q] = phase[q]
  BY Zenon, <1>1 DEF RecordShapes
<1>3. RecordShapes'
  BY Zenon, <1>1, <1>2 DEF RecordShapes
<1>4. (NumberInv(s))'
  BY Zenon, <1>1, <1>2, SameKeys, NumberKept
<1>5. (BufferInv(s))'
  BY Zenon, <1>1, <1>2 DEF BufferInv
<1>6. QED
  BY Zenon, <1>2, <1>3, <1>4, <1>5, OwnStep

LEMMA AbandonStep ==
  ASSUME RecordsInv, NEW s \in Sessions, abandonSubmitIntent(s)
  PROVE  RecordsInv'
<1>1. PICK next \in Phases : next = "failed"
  BY Zenon DEF Phases
<1>2. QED
  BY Zenon, <1>1, PhaseStep DEF abandonSubmitIntent

LEMMA ReadyStep ==
  ASSUME RecordsInv, NEW s \in Sessions, Ready(s)
  PROVE  RecordsInv'
<1>1. PICK next \in Phases : next = "ready"
  BY Zenon DEF Phases
<1>2. QED
  BY Zenon, <1>1, PhaseStep DEF Ready

LEMMA ClaimStep ==
  ASSUME RecordsInv, NEW s \in Sessions, claimRun(s)
  PROVE  RecordsInv'
<1>1. RecordShapes /\ NumberInv(s) /\ BufferInv(s) /\ phase[s] = "retired"
  BY Zenon DEF RecordsInv, claimRun
<1>2. PICK n, m : n = seq[s] /\ m = n + 1
  BY Zenon
<1>3. n \in 0 .. MaxSeq /\ m \in 1 .. MaxSeq /\ m \in 0 .. MaxSeq /\ m # 0
  BY <1>1, <1>2, RecordsAssumption DEF RecordShapes, claimRun
<1>4. seq' = [seq EXCEPT ![s] = m] /\ UNCHANGED <<runs, series, sampling, accounting>>
  BY Zenon, <1>2 DEF claimRun
<1>5. seq' \in [Sessions -> 0 .. MaxSeq] /\ seq'[s] = m /\ \A q \in Sessions \ {s} : seq'[q] = seq[q]
  BY Zenon, <1>1, <1>3, <1>4 DEF RecordShapes
<1>6. phase' = [phase EXCEPT ![s] = "live"] /\ "live" \in Phases
  BY Zenon DEF claimRun, Phases
<1>7. phase' \in [Sessions -> Phases] /\ phase'[s] = "live" /\ \A q \in Sessions \ {s} : phase'[q] = phase[q]
  BY Zenon, <1>1, <1>6 DEF RecordShapes
<1>8. RecordShapes'
  BY Zenon, <1>1, <1>4, <1>5, <1>7 DEF RecordShapes
<1>9. ASSUME NEW k \in 1 .. Len(runs), runs[k].session = s
      PROVE  runs[k].seq # m /\ runs[k].seq <= m
  <2>1. runs \in Seq(Records) /\ runs[k].seq <= n
    BY Zenon, <1>1, <1>2, <1>9 DEF RecordsInv, Listed, NumberInv
  <2>2. runs[k] \in Records
    BY Zenon, <2>1, ElementOfSeq
  <2>3. PICK x \in 1 .. MaxSeq : x = runs[k].seq
    BY Zenon, <2>2 DEF Records
  <2>4. x <= n
    BY Zenon, <2>1, <2>3
  <2>5. x # m /\ x <= m
    BY <1>2, <1>3, <2>4
  <2>6. QED
    BY Zenon, <2>3, <2>5
<1>10. (NumberInv(s))'
  BY Zenon, <1>3, <1>4, <1>5, <1>9 DEF NumberInv
<1>11. (BufferInv(s))'
  <2>1. series[s] \in Samples /\ Len(series[s]) <= 1 /\ (sampling[s] # 0 => series[s] = <<>>)
    BY Zenon, <1>1 DEF RecordShapes, BufferInv
  <2>2. Stray(series[s], m)
    BY Zenon, <2>1, ShortIsStray
  <2>3. QED
    BY Zenon, <1>4, <1>5, <2>1, <2>2 DEF BufferInv
<1>12. QED
  BY Zenon, <1>4, <1>5, <1>7, <1>8, <1>10, <1>11, OwnStep

LEMMA DeleteStep ==
  ASSUME RecordsInv, NEW s \in Sessions, Delete(s)
  PROVE  RecordsInv'
<1>1. RecordShapes /\ NumberInv(s) /\ UNCHANGED <<seq, runs, sampling, accounting>>
  BY Zenon DEF RecordsInv, Delete
<1>2. PICK e \in Samples : e = <<>>
  BY Zenon, EmptyBuffer
<1>3. series' = [series EXCEPT ![s] = e] /\ phase' = [phase EXCEPT ![s] = "deleted"] /\ "deleted" \in Phases
  BY Zenon, <1>2 DEF Delete, forgetSessionBuffers, Phases
<1>4. series' \in [Sessions -> Samples] /\ series'[s] = <<>> /\ \A q \in Sessions \ {s} : series'[q] = series[q]
  BY Zenon, <1>1, <1>2, <1>3 DEF RecordShapes
<1>5. phase' \in [Sessions -> Phases] /\ phase'[s] = "deleted" /\ \A q \in Sessions \ {s} : phase'[q] = phase[q]
  BY Zenon, <1>1, <1>3 DEF RecordShapes
<1>6. RecordShapes'
  BY Zenon, <1>1, <1>4, <1>5 DEF RecordShapes
<1>7. (NumberInv(s))' /\ (BufferInv(s))'
  BY Zenon, <1>1, <1>4, <1>5, SameKeys, NumberKept, EmptyKept
<1>8. QED
  BY Zenon, <1>1, <1>4, <1>5, <1>6, <1>7, OwnStep

LEMMA SampleSessionStep ==
  ASSUME RecordsInv, NEW s \in Sessions, sampleSession(s)
  PROVE  RecordsInv'
<1>1. /\ RecordShapes /\ NumberInv(s) /\ BufferInv(s) /\ UNCHANGED <<phase, seq, runs, series, accounting>>
      /\ phase[s] = "ready"
  BY Zenon DEF RecordsInv, sampleSession
<1>2. PICK n \in 0 .. MaxSeq : n = seq[s] /\ sampling' = [sampling EXCEPT ![s] = n]
  BY Zenon, <1>1 DEF RecordShapes, sampleSession
<1>3. /\ sampling' \in [Sessions -> 0 .. MaxSeq] /\ sampling'[s] = n
      /\ \A q \in Sessions \ {s} : sampling'[q] = sampling[q]
  BY Zenon, <1>1, <1>2 DEF RecordShapes
<1>4. RecordShapes'
  BY Zenon, <1>1, <1>3 DEF RecordShapes
<1>5. (NumberInv(s))' /\ (BufferInv(s))'
  BY Zenon, <1>1, <1>2, <1>3 DEF NumberInv, BufferInv
<1>6. QED
  BY Zenon, <1>1, <1>3, <1>4, <1>5, OwnStep

(* The answer arrives: of this run, or of one that has ended.              *)
LEMMA SampleOnceStep ==
  ASSUME RecordsInv, NEW s \in Sessions, sampleOnce(s)
  PROVE  RecordsInv'
<1>1. /\ RecordShapes /\ NumberInv(s) /\ BufferInv(s) /\ UNCHANGED <<phase, seq, runs, accounting>>
      /\ sampling[s] # 0
  BY Zenon DEF RecordsInv, sampleOnce
<1>2. PICK n, x, y : n = sampling[s] /\ x = series[s] /\ y = append(x, n)
  BY Zenon
<1>3. x \in Samples /\ n \in 0 .. MaxSeq /\ n # 0
  BY Zenon, <1>1, <1>2 DEF RecordShapes
<1>4. n \in 1 .. MaxSeq /\ 0 \in 0 .. MaxSeq
  BY <1>3, RecordsAssumption
<1>5. /\ sampling' \in [Sessions -> 0 .. MaxSeq] /\ sampling'[s] = 0
      /\ \A q \in Sessions \ {s} : sampling'[q] = sampling[q]
  BY Zenon, <1>1, <1>4 DEF RecordShapes, sampleOnce
<1>6. x = <<>> \/ (n = seq[s] /\ phase[s] = "ready")
  BY Zenon, <1>1, <1>2 DEF BufferInv
<1>7. Stray(x, n)
  BY Zenon, <1>1, <1>2, <1>6, EmptyBuffer DEF BufferInv
<1>8. y \in Samples /\ Stray(y, n) /\ (x = <<>> => Len(y) <= 1)
  BY Zenon, <1>2, <1>3, <1>4, <1>7, AppendedSample
<1>9. Stray(y, seq[s]) /\ (phase[s] # "ready" => Len(y) <= 1)
  BY Zenon, <1>6, <1>8, ShortIsStray
<1>10. CASE series' = series
  <2>1. RecordShapes'
    BY Zenon, <1>1, <1>5, <1>10 DEF RecordShapes
  <2>2. (NumberInv(s))' /\ (BufferInv(s))'
    BY Zenon, <1>1, <1>5, <1>10 DEF NumberInv, BufferInv
  <2>3. QED
    BY Zenon, <1>1, <1>5, <1>10, <2>1, <2>2, OwnStep
<1>11. CASE series' = [series EXCEPT ![s] = y]
  <2>1. series' \in [Sessions -> Samples] /\ series'[s] = y /\ \A q \in Sessions \ {s} : series'[q] = series[q]
    BY Zenon, <1>1, <1>8, <1>11 DEF RecordShapes
  <2>2. RecordShapes'
    BY Zenon, <1>1, <1>5, <2>1 DEF RecordShapes
  <2>3. (NumberInv(s))' /\ (BufferInv(s))'
    BY Zenon, <1>1, <1>5, <1>9, <2>1 DEF NumberInv, BufferInv
  <2>4. QED
    BY Zenon, <1>1, <1>5, <2>1, <2>2, <2>3, OwnStep
<1>12. series' = series \/ series' = [series EXCEPT ![s] = y]
  BY Zenon, <1>2 DEF sampleOnce
<1>13. QED
  BY Zenon, <1>10, <1>11, <1>12

----------------------------------------------------------------------------
(* AdoptRuns goes through the other client's runs one by one.  That the    *)
(* function it is written with exists, and what it computes, is shown from *)
(* the least number for which it would fail.                               *)

LEMMA LeastNat ==
  ASSUME NEW T, T \subseteq Nat, T # {}
  PROVE  \E x \in T : \A y \in T : x <= y
<1> DEFINE R == OpToRel(<, Nat)
<1>1. IsWellFoundedOn(R, Nat)
  BY NatLessThanWellFounded
<1>2. \A x, y \in Nat : x < y => <<x, y>> \in R
  BY DEF OpToRel
<1> HIDE DEF R
<1>3. PICK x \in T : \A y \in T : ~(<<y, x>> \in R)
  BY <1>1, WFMin
<1>4. \A y \in T : ~(y < x)
  BY Zenon, <1>2, <1>3
<1>5. \A y \in T : x <= y
  BY <1>4
<1>6. QED
  BY Zenon, <1>5

Finished(s, i) == [session |-> s, seq |-> i, samples |-> <<i>>, stats |-> TRUE]

Adds(add, s, n, list) ==
    add = [i \in 0 .. n |-> IF i = 0 THEN list ELSE recordRun(add[i - 1], Finished(s, i))]

LEMMA AddsExists ==
  ASSUME NEW s, NEW list, NEW n \in Nat
  PROVE  \E add : Adds(add, s, n, list)
<1> DEFINE T == {m \in Nat : ~\E add : Adds(add, s, m, list)}
<1>1. SUFFICES ASSUME T # {}
               PROVE  FALSE
  BY Zenon
<1>2. PICK m \in T : \A y \in T : m <= y
  <2>1. T \subseteq Nat
    BY Zenon
  <2>2. QED
    BY Zenon, <1>1, <2>1, LeastNat
<1>3. m \in Nat /\ ~\E add : Adds(add, s, m, list)
  BY Zenon, <1>2
<1>4. m # 0
  <2>1. SUFFICES ASSUME m = 0
                 PROVE  FALSE
    BY Zenon
  <2>2. PICK add : add = [i \in 0 .. m |-> list]
    BY Zenon
  <2>3. \A i \in 0 .. m : i = 0
    BY <2>1
  <2>4. add = [i \in 0 .. m |-> IF i = 0 THEN list ELSE recordRun(add[i - 1], Finished(s, i))]
    BY Zenon, <2>2, <2>3
  <2>5. QED
    BY Zenon, <1>3, <2>4 DEF Adds
<1>5. PICK p \in Nat : m = p + 1 /\ p = m - 1
  BY <1>3, <1>4
<1>6. p \notin T
  <2>1. ~(m <= p)
    BY <1>3, <1>5
  <2>2. QED
    BY Zenon, <1>2, <2>1
<1>7. PICK f : Adds(f, s, p, list)
  BY Zenon, <1>6
<1>8. \A i \in 0 .. p : f[i] = IF i = 0 THEN list ELSE recordRun(f[i - 1], Finished(s, i))
  BY Zenon, <1>7 DEF Adds
<1>9. PICK g : g = [i \in 0 .. m |-> IF i = 0 THEN list ELSE recordRun(f[i - 1], Finished(s, i))]
  BY Zenon
<1>10. \A i \in 0 .. m : (i \in 0 .. p \/ i = m) /\ (i # 0 => i - 1 \in 0 .. p)
  BY <1>3, <1>5
<1>11. \A i \in 0 .. p : i \in 0 .. m
  BY <1>3, <1>5
<1>12. \A i \in 0 .. p : g[i] = f[i]
  BY Zenon, <1>8, <1>9, <1>11
<1>13. ASSUME NEW i \in 0 .. m
       PROVE  g[i] = IF i = 0 THEN list ELSE recordRun(g[i - 1], Finished(s, i))
  <2>1. g[i] = IF i = 0 THEN list ELSE recordRun(f[i - 1], Finished(s, i))
    BY Zenon, <1>9
  <2>2. i # 0 => g[i - 1] = f[i - 1]
    BY Zenon, <1>10, <1>12
  <2>3. QED
    BY Zenon, <2>1, <2>2
<1>14. g = [i \in 0 .. m |-> IF i = 0 THEN list ELSE recordRun(g[i - 1], Finished(s, i))]
  <2>1. g = [i \in 0 .. m |-> g[i]]
    BY Zenon, <1>9
  <2>2. QED
    BY Zenon, <1>13, <2>1
<1>15. QED
  BY Zenon, <1>3, <1>14 DEF Adds

LEMMA AdoptedIs ==
  ASSUME NEW s, NEW list, NEW n \in Nat
  PROVE  \E add : Adds(add, s, n, list) /\ adopted(s, n, list) = add[n]
<1>1. PICK f : f = CHOOSE add : Adds(add, s, n, list)
  BY Zenon
<1>2. Adds(f, s, n, list)
  BY Zenon, <1>1, AddsExists
<1>3. adopted(s, n, list) = f[n]
  BY Zenon, <1>1 DEF adopted, Adds, Finished
<1>4. QED
  BY Zenon, <1>2, <1>3

(* Every record is one of the list, or of a run of s up to n.              *)
Upto(new, list, s, n) ==
    \A k \in 1 .. Len(new) :
        \/ \E j \in 1 .. Len(list) : new[k] = list[j]
        \/ new[k].session = s /\ new[k].seq <= n

LEMMA FinishedRecord ==
  ASSUME NEW s \in Sessions, NEW i \in 1 .. MaxSeq
  PROVE  /\ Finished(s, i) \in Records /\ Finished(s, i).session = s /\ Finished(s, i).seq = i
         /\ Stray(Finished(s, i).samples, Finished(s, i).seq)
<1>1. PICK r, x : x = <<i>> /\ r = [session |-> s, seq |-> i, samples |-> x, stats |-> TRUE] /\ r = Finished(s, i)
  BY Zenon DEF Finished
<1>2. x \in Samples /\ Stray(x, i)
  BY Zenon, <1>1, OneSample
<1>3. r \in Records /\ r.session = s /\ r.seq = i /\ r.samples = x
  BY <1>1, <1>2 DEF Records
<1>4. QED
  BY Zenon, <1>1, <1>2, <1>3

LEMMA OneLess ==
  ASSUME NEW k \in Nat \ {0}, NEW n \in 1 .. k, NEW m \in 0 .. n, m # 0
  PROVE  \E p \in 0 .. n : p = m - 1 /\ m \in 1 .. k /\ p \in Nat /\ m = p + 1 /\ ~(m <= p)
<1>1. PICK p : p = m - 1
  BY Zenon
<1>2. p \in 0 .. n /\ m \in 1 .. k /\ p \in Nat /\ m = p + 1 /\ ~(m <= p)
  BY <1>1
<1>3. QED
  BY Zenon, <1>1, <1>2

LEMMA AdoptedList ==
  ASSUME NEW s \in Sessions, NEW list, Listed(list), NEW n \in 1 .. MaxSeq
  PROVE  Listed(adopted(s, n, list)) /\ Upto(adopted(s, n, list), list, s, n)
<1>1. n \in Nat /\ n \in 0 .. n /\ n <= MaxSeq
  BY RecordsAssumption
<1>2. PICK add : Adds(add, s, n, list) /\ adopted(s, n, list) = add[n]
  BY Zenon, <1>1, AdoptedIs
<1> DEFINE Good(i) == Listed(add[i]) /\ Upto(add[i], list, s, i)
           T == {i \in 0 .. n : ~Good(i)}
<1>3. SUFFICES ASSUME T # {}
               PROVE  FALSE
  BY Zenon, <1>1, <1>2
<1>4. PICK m \in T : \A y \in T : m <= y
  <2>1. T \subseteq Nat
    BY <1>1
  <2>2. QED
    BY Zenon, <1>3, <2>1, LeastNat
<1>5. m \in 0 .. n /\ ~Good(m)
  BY Zenon, <1>4
<1>6. add[m] = IF m = 0 THEN list ELSE recordRun(add[m - 1], Finished(s, m))
  BY Zenon, <1>2, <1>5 DEF Adds
<1>7. m # 0
  BY Zenon, <1>5, <1>6 DEF Upto
<1>8. PICK p \in 0 .. n : p = m - 1 /\ m \in 1 .. MaxSeq /\ p \in Nat /\ m = p + 1 /\ ~(m <= p)
  BY Zenon, <1>5, <1>7, OneLess, RecordsAssumption
<1>9. Good(p)
  BY Zenon, <1>4, <1>8
<1> HIDE DEF T
<1>10. PICK before, record : before = add[p] /\ record = Finished(s, m) /\ add[m] = recordRun(before, record)
  BY Zenon, <1>6, <1>7, <1>8
<1>11. record \in Records /\ record.session = s /\ record.seq = m /\ Stray(record.samples, record.seq)
  BY Zenon, <1>8, <1>10, FinishedRecord
<1>12. Listed(before) /\ Upto(before, list, s, p)
  BY Zenon, <1>9, <1>10
<1>13. Listed(add[m]) /\ Follows(add[m], before, record)
  BY Zenon, <1>10, <1>11, <1>12, RecordRun
<1>14. ASSUME NEW k \in 1 .. Len(add[m])
       PROVE  \/ \E j \in 1 .. Len(list) : add[m][k] = list[j]
              \/ add[m][k].session = s /\ add[m][k].seq <= m
  <2>1. CASE add[m][k] = record
    <3>1. m <= m
      BY <1>8
    <3>2. QED
      BY Zenon, <1>11, <2>1, <3>1
  <2>2. ASSUME NEW j \in 1 .. Len(before), add[m][k] = before[j], before[j].session = s, before[j].seq <= p
        PROVE  before[j].seq <= m
    <3>1. before \in Seq(Records)
      BY Zenon, <1>12 DEF Listed
    <3>2. before[j] \in Records
      BY Zenon, <3>1, ElementOfSeq
    <3>3. PICK x \in 1 .. MaxSeq : x = before[j].seq
      BY Zenon, <3>2 DEF Records
    <3>4. x <= p
      BY Zenon, <2>2, <3>3
    <3>5. x <= m
      BY <1>8, <3>4
    <3>6. QED
      BY Zenon, <3>3, <3>5
  <2>3. QED
    BY Zenon, <1>12, <1>13, <2>1, <2>2 DEF Follows, Upto
<1>15. Upto(add[m], list, s, m)
  BY Zenon, <1>14 DEF Upto
<1>16. QED
  BY Zenon, <1>5, <1>13, <1>15

LEMMA AdoptStep ==
  ASSUME RecordsInv, NEW s \in Sessions, NEW n \in 1 .. MaxSeq, AdoptRuns(s, n)
  PROVE  RecordsInv'
<1>1. /\ RecordShapes /\ Listed(runs) /\ NumberInv(s) /\ BufferInv(s) /\ UNCHANGED <<phase, series, sampling, accounting>>
      /\ seq[s] = 0 /\ seq' = [seq EXCEPT ![s] = n]
  BY Zenon DEF RecordsInv, AdoptRuns
<1>2. phase[s] \notin {"live", "ready"}
  BY Zenon, <1>1 DEF NumberInv
<1>3. n \in 0 .. MaxSeq
  BY RecordsAssumption
<1>4. seq' \in [Sessions -> 0 .. MaxSeq] /\ seq'[s] = n /\ \A q \in Sessions \ {s} : seq'[q] = seq[q]
  BY Zenon, <1>1, <1>3 DEF RecordShapes
<1>5. RecordShapes'
  BY Zenon, <1>1, <1>4 DEF RecordShapes
<1>6. PICK list : list = runs /\ runs' = adopted(s, n, list)
  BY Zenon DEF AdoptRuns
<1>7. Listed(runs') /\ Upto(runs', runs, s, n)
  BY Zenon, <1>1, <1>6, AdoptedList
<1>8. ASSUME NEW q \in Sessions \ {s}
      PROVE  (NumberInv(q))' /\ (BufferInv(q))'
  <2>1. NumberInv(q) /\ BufferInv(q)
    BY Zenon DEF RecordsInv
  <2>2. KeysFrom(runs', runs, q)
    BY Zenon, <1>7 DEF KeysFrom, Upto
  <2>3. QED
    BY Zenon, <1>1, <1>4, <2>1, <2>2, NumberKept, BufferKept
<1>9. (NumberInv(s))'
  <2>1. \A j \in 1 .. Len(runs) : runs[j].session # s
    <3>1. runs \in Seq(Records) /\ \A i \in DOMAIN runs : runs[i].session # s
      BY Zenon, <1>1 DEF Listed, AdoptRuns
    <3>2. QED
      BY <3>1
  <2>2. \A k \in 1 .. Len(runs') : runs'[k].session = s => runs'[k].seq <= n
    BY Zenon, <1>7, <2>1 DEF Upto
  <2>3. QED
    BY Zenon, <1>1, <1>2, <1>4, <2>2 DEF NumberInv
<1>10. (BufferInv(s))'
  <2>1. series[s] \in Samples /\ Len(series[s]) <= 1 /\ (sampling[s] # 0 => series[s] = <<>>)
    BY Zenon, <1>1, <1>2 DEF RecordShapes, BufferInv
  <2>2. Stray(series[s], n)
    BY Zenon, <2>1, ShortIsStray
  <2>3. QED
    BY Zenon, <1>1, <1>4, <2>1, <2>2 DEF BufferInv
<1>11. QED
  BY Zenon, <1>5, <1>7, <1>8, <1>9, <1>10 DEF RecordsInv

----------------------------------------------------------------------------
LEMMA PendingStep ==
  ASSUME RecordsInv, pendingRunStats
  PROVE  RecordsInv'
<1>1. RecordShapes /\ UNCHANGED <<phase, seq, runs, series, sampling>> /\ runs \in Seq(Records)
  BY Zenon DEF RecordsInv, Listed, pendingRunStats
<1>2. \A j \in DOMAIN runs : runs[j] \in Records
  BY <1>1
<1>3. \A j \in DOMAIN runs : runs[j].session \in Sessions /\ runs[j].seq \in 1 .. MaxSeq
  BY Zenon, <1>2 DEF Records
<1>4. accounting' \in SUBSET (Sessions \X (1 .. MaxSeq))
  BY SMTT(20), <1>3 DEF pendingRunStats
<1>5. RecordShapes'
  BY Zenon, <1>1, <1>4 DEF RecordShapes
<1>6. QED
  BY Zenon, <1>1, <1>5 DEF RecordsInv, NumberInv, BufferInv

(* The answer changes the statistics of the records and nothing else.      *)
SameRuns(new, list) ==
    /\ Len(new) = Len(list)
    /\ \A i \in 1 .. Len(list) : new[i].session = list[i].session /\ new[i].seq = list[i].seq

Attached(list, K) == [i \in DOMAIN list |-> [list[i] EXCEPT !.stats = @ \/ i \in K]]

LEMMA AttachedStats ==
  ASSUME NEW list, Listed(list), NEW new, NEW K, new = Attached(list, K)
  PROVE  Listed(new) /\ SameRuns(new, list)
<1>1. list \in Seq(Records) /\ Len(list) \in Nat /\ DOMAIN list = 1 .. Len(list)
  BY DEF Listed
<1>2. ASSUME NEW i \in 1 .. Len(list)
      PROVE  /\ new[i] \in Records /\ new[i].session = list[i].session /\ new[i].seq = list[i].seq
             /\ new[i].samples = list[i].samples
  <2>1. PICK r : r = list[i] /\ r \in Records
    BY Zenon, <1>1, ElementOfSeq
  <2>2. PICK b \in BOOLEAN : b = (r.stats \/ i \in K)
    BY Zenon
  <2>3. new[i] = [r EXCEPT !.stats = b]
    BY Zenon, <1>1, <2>1, <2>2 DEF Attached
  <2>4. new[i] \in Records /\ new[i].session = r.session /\ new[i].seq = r.seq /\ new[i].samples = r.samples
    BY <2>1, <2>3 DEF Records
  <2>5. QED
    BY Zenon, <2>1, <2>4
<1>3. PICK n \in Nat : n = Len(list)
  BY Zenon, <1>1
<1>4. new \in Seq(Records) /\ Len(new) = n
  <2>1. new = [i \in 1 .. n |-> new[i]]
    BY Zenon, <1>1, <1>3 DEF Attached
  <2>2. new \in [1 .. n -> Records]
    BY Zenon, <1>2, <1>3, <2>1
  <2>3. QED
    BY <2>2
<1>5. \A i, j \in 1 .. n : new[i].session = new[j].session /\ new[i].seq = new[j].seq => i = j
  <2>1. \A i, j \in 1 .. n : list[i].session = list[j].session /\ list[i].seq = list[j].seq => i = j
    BY Zenon, <1>3 DEF Listed
  <2>2. \A i \in 1 .. n : new[i].session = list[i].session /\ new[i].seq = list[i].seq
    BY Zenon, <1>2, <1>3
  <2>3. QED
    BY Zenon, <2>1, <2>2
<1>6. \A i \in 1 .. n : Stray(new[i].samples, new[i].seq)
  BY Zenon, <1>2, <1>3 DEF Listed
<1>7. n <= MaxRunRecords
  BY Zenon, <1>3 DEF Listed
<1>8. Listed(new)
  BY Zenon, <1>4, <1>5, <1>6, <1>7 DEF Listed
<1>9. SameRuns(new, list)
  BY Zenon, <1>2, <1>3, <1>4 DEF SameRuns
<1>10. QED
  BY Zenon, <1>8, <1>9

LEMMA CompleteStep ==
  ASSUME RecordsInv, NEW s \in Sessions, NEW n \in 1 .. MaxSeq, completeRunStats(s, n)
  PROVE  RecordsInv'
<1>1. RecordShapes /\ Listed(runs) /\ UNCHANGED <<phase, seq, series, sampling>> /\ accounting' \subseteq accounting
  BY Zenon DEF RecordsInv, completeRunStats
<1>2. RecordShapes'
  BY Zenon, <1>1 DEF RecordShapes
<1>3. Listed(runs') /\ SameRuns(runs', runs)
  <2>1. CASE runs' = runs
    BY Zenon, <1>1, <2>1 DEF SameRuns
  <2>2. CASE runs' = attachRunStats(s, n)
    <3>1. PICK list, new, K : list = runs /\ new = runs' /\ K = Keyed(list, s, n)
      BY Zenon
    <3>2. new = Attached(list, K)
      BY Zenon, <2>2, <3>1 DEF attachRunStats, Attached
    <3>3. Listed(new) /\ SameRuns(new, list)
      BY Zenon, <1>1, <3>1, <3>2, AttachedStats
    <3>4. QED
      BY Zenon, <3>1, <3>3
  <2>3. QED
    BY Zenon, <2>1, <2>2 DEF completeRunStats
<1>4. ASSUME NEW q \in Sessions
      PROVE  (NumberInv(q))' /\ (BufferInv(q))'
  <2>1. KeysFrom(runs', runs, q)
    BY Zenon, <1>3 DEF KeysFrom, SameRuns
  <2>2. QED
    BY Zenon, <1>1, <2>1, NumberKept, BufferKept DEF RecordsInv
<1>5. QED
  BY Zenon, <1>2, <1>3, <1>4 DEF RecordsInv

LEMMA RecordsStep ==
  ASSUME RecordsInv, [RecordsNext]_recordVars
  PROVE  RecordsInv'
<1>1. CASE UNCHANGED recordVars
  BY Zenon, <1>1 DEF recordVars, RecordsInv, RecordShapes, NumberInv, BufferInv
<1>2. ASSUME NEW s \in Sessions, EndRun(s) \/ StopAgain(s) \/ retireFinished(s)
      PROVE  RecordsInv'
  BY Zenon, <1>2, FreezeStep DEF EndRun, StopAgain, retireFinished, Over
<1>3. ASSUME NEW s \in Sessions, NEW n \in 1 .. MaxSeq, AdoptRuns(s, n) \/ completeRunStats(s, n)
      PROVE  RecordsInv'
  BY Zenon, <1>3, AdoptStep, CompleteStep
<1>4. QED
  BY Zenon, <1>1, <1>2, <1>3, AbandonStep, ClaimStep, ReadyStep, DeleteStep, SampleSessionStep, SampleOnceStep,
     PendingStep DEF RecordsNext

(* The inductive invariant of the run records: the table's key holds, open *)
(* runs have no record, and a late sample meets an empty buffer.           *)
THEOREM RecordsInvariant == RecordsSpec => []RecordsInv
<1>1. RecordsInit => RecordsInv
  BY Zenon, RecordsStart
<1>2. RecordsInv /\ [RecordsNext]_recordVars => RecordsInv'
  BY Zenon, RecordsStep
<1>3. QED
  BY <1>1, <1>2, PTL DEF RecordsSpec

LEMMA RecordsTyped == RecordsInv => RecordsTypeOK
<1> SUFFICES ASSUME RecordsInv
             PROVE  RecordsTypeOK
  BY Zenon
<1>1. runs \in Seq(Records) /\ Len(runs) <= MaxRunRecords /\ RecordShapes
  BY Zenon DEF RecordsInv, Listed
<1>2. DOMAIN runs = 1 .. Len(runs) /\ \A i \in DOMAIN runs : runs[i] \in Records
  BY <1>1
<1>3. ASSUME NEW i \in DOMAIN runs
      PROVE  Keyed(runs, runs[i].session, runs[i].seq) = {i}
  BY Zenon, <1>2 DEF RecordsInv, Listed, Keyed
<1>4. QED
  BY Zenon, <1>1, <1>2, <1>3 DEF RecordsTypeOK, RecordShapes

(* The types of the state, the bounds of the table of run records and of   *)
(* every sample window, and (session, seq) as the table's key.             *)
THEOREM RecordsHaveTheirKey == RecordsSpec => []RecordsTypeOK
<1>1. RecordsInv => RecordsTypeOK
  BY Zenon, RecordsTyped
<1>2. QED
  BY <1>1, RecordsInvariant, PTL

(* A sample that arrives after its run was frozen waits for the next run's *)
(* record: there is never more than one, and it is the oldest.             *)
THEOREM StraySampleIsAlone == RecordsSpec => []AtMostOneStraySample
<1>1. RecordsInv => AtMostOneStraySample
  <2> SUFFICES ASSUME RecordsInv
               PROVE  AtMostOneStraySample
    BY Zenon
  <2>1. runs \in Seq(Records)
    BY Zenon DEF RecordsInv, Listed
  <2>2. DOMAIN runs = 1 .. Len(runs)
    BY <2>1
  <2>3. QED
    BY Zenon, <2>2 DEF RecordsInv, Listed, BufferInv, Stray, AtMostOneStraySample
<1>2. QED
  BY <1>1, RecordsInvariant, PTL
-----------------------------------------------------------------------------
(* The other types of the key store.                                       *)
HeldTypes ==
    /\ staged \in SUBSET (Names \X Keys)
    /\ sshConfig \in Configs
    /\ change \in Changes

LEMMA ChangeTypes ==
    ASSUME NEW name \in Names \cup {None}, NEW key \in Keys \cup {None}, NEW rows \in Rows, NEW hosts \in Hosts,
           NEW previous \in Configs
    PROVE  Change(name, key, rows, hosts, previous) \in Changes
BY Zenon DEF Change, Changes, Rows, Hosts

LEMMA NothingHeldTypes == NoChange \in Changes /\ NoRows \in Rows /\ NoHosts \in Hosts /\ None \in Configs
<1>1. NoRows \in Rows /\ NoHosts \in Hosts
  BY SMT DEF NoRows, NoHosts, Rows, Hosts
<1>2. None \in Configs
  BY Zenon DEF Configs
<1>3. None \in Names \cup {None} /\ None \in Keys \cup {None}
  BY Zenon
<1> QED BY Zenon, <1>1, <1>2, <1>3, ChangeTypes DEF NoChange

LEMMA HeldFields ==
    ASSUME HeldTypes
    PROVE  /\ change.name \in Names \cup {None} /\ change.key \in Keys \cup {None}
           /\ change.rows \in Rows /\ change.hosts \in Hosts /\ change.previous \in Configs
BY Zenon DEF HeldTypes, Changes, Rows, Hosts

LEMMA RenderedType ==
    ASSUME NEW hosts \in Hosts
    PROVE  renderConfig(hosts) \in Configs
<1> SUFFICES ASSUME NEW s \in renderConfig(hosts) PROVE s \in [host : Aliases, identityFile : Names \cup {NoKey}]
  BY Zenon DEF Configs
<1>1. PICK a \in Aliases : hosts[a] # None /\ s = stanza(a, hosts[a])
  BY Zenon DEF renderConfig
<1>2. hosts[a] \in Names \cup {NoKey}
  BY Zenon, <1>1 DEF Hosts
<1> QED BY Zenon, <1>1, <1>2 DEF stanza

LEMMA WentTo ==
    ASSUME NEW step, NEW held \in Changes, Goto(step, held)
    PROVE  change' \in Changes
BY Zenon, NothingHeldTypes DEF Goto

LEMMA HeldStart == StoreInit => HeldTypes
BY Zenon, NothingHeldTypes DEF StoreInit, HeldTypes

(* Put.                                                                    *)
LEMMA HeldPut ==
    ASSUME StoreInv, HeldTypes,
           \/ \E n \in Names, k \in Keys : putSSHKey(n, k)
           \/ InsertKey \/ Unstage \/ PromoteKey
    PROVE  HeldTypes'
<1>1. UNCHANGED sshConfig
  BY Zenon DEF putSSHKey, InsertKey, Unstage, PromoteKey
<1>2. CASE \E n \in Names, k \in Keys : putSSHKey(n, k)
  <2>1. PICK n \in Names, k \in Keys : putSSHKey(n, k)
    BY Zenon, <1>2
  <2>2. PICK o \in ReplaceFile(staged, staged \cup {<<n, k>>}) :
          /\ staged' = o[1]
          /\ Goto(IF o[2] = "ok" THEN "insert" ELSE "idle", Change(n, k, NoRows, NoHosts, None))
    BY Zenon, <2>1 DEF putSSHKey
  <2>3. staged' \in {staged, staged \cup {<<n, k>>}}
    BY Zenon, <2>2, Replaced
  <2>4. staged' \in SUBSET (Names \X Keys)
    BY SMTT(20), <2>3 DEF HeldTypes
  <2>5. Change(n, k, NoRows, NoHosts, None) \in Changes
    BY Zenon, NothingHeldTypes, ChangeTypes
  <2> QED BY Zenon, <1>1, <2>2, <2>4, <2>5, WentTo DEF HeldTypes
<1>3. CASE InsertKey
  BY Zenon, <1>1, <1>3 DEF InsertKey, files, HeldTypes
<1>4. CASE Unstage
  <2>1. PICK o \in RemoveFile(staged, staged \ {<<change.name, change.key>>}) : staged' = o[1]
    BY Zenon, <1>4 DEF Unstage
  <2>2. staged' \in {staged, staged \ {<<change.name, change.key>>}}
    BY Zenon, <2>1, Removed
  <2>3. change' \in Changes
    BY Zenon, <1>4, NothingHeldTypes, WentTo DEF Unstage, Release
  <2>4. staged' \in SUBSET staged
    BY Zenon, <2>2
  <2> QED BY Zenon, <1>1, <2>3, <2>4 DEF HeldTypes
<1>5. CASE PromoteKey
  <2>1. staged' \in SUBSET staged
    BY Zenon, <1>5 DEF PromoteKey
  <2>2. change' \in Changes
    BY Zenon, <1>5, NothingHeldTypes, WentTo DEF PromoteKey, Release
  <2> QED BY Zenon, <1>1, <2>1, <2>2 DEF HeldTypes
<1> QED BY Zenon, <1>2, <1>3, <1>4, <1>5

(* A step that leaves stage and config alone and ends its flow or begins   *)
(* one.                                                                    *)
LEMMA HeldEnds ==
    ASSUME HeldTypes, UNCHANGED <<staged, sshConfig>>, change' \in Changes
    PROVE  HeldTypes'
BY Zenon DEF HeldTypes

(* Mutations of the hosts.                                                 *)
LEMMA HeldMutation ==
    ASSUME StoreInv, HeldTypes, NEW hosts \in Hosts, mutateHosts(hosts)
    PROVE  HeldTypes'
<1>1. keyRows \in Rows
  BY Zenon DEF StoreInv, Types
<1>2. Change(None, None, keyRows, hosts, sshConfig) \in Changes
  BY Zenon, <1>1, ChangeTypes DEF HeldTypes
<1> QED BY Zenon, <1>2, HeldEnds DEF mutateHosts, files

LEMMA HeldHosts ==
    ASSUME StoreInv, HeldTypes,
           \/ \E a \in Aliases, key \in Names \cup {NoKey} : addHost(a, key) \/ updateHost(a, key)
           \/ \E a \in Aliases : deleteHost(a)
    PROVE  HeldTypes'
<1>1. hostRows \in Hosts
  BY Zenon DEF StoreInv, Types
<1>2. ASSUME NEW a \in Aliases, NEW key \in Names \cup {NoKey, None} PROVE [hostRows EXCEPT ![a] = key] \in Hosts
  BY Zenon, <1>1 DEF Hosts
<1>3. \E hosts \in Hosts : mutateHosts(hosts)
  BY Zenon, <1>2 DEF addHost, updateHost, deleteHost, PutHostRow, DeleteHostRow
<1> QED BY Zenon, <1>3, HeldMutation

LEMMA HeldDelete ==
    ASSUME StoreInv, HeldTypes, (\E n \in Names : stageSSHDelete(n)) \/ deleteSSHKey
    PROVE  HeldTypes'
<1>1. CASE \E n \in Names : stageSSHDelete(n)
  <2>1. PICK n \in Names : stageSSHDelete(n)
    BY Zenon, <1>1
  <2>2. Change(n, None, NoRows, NoHosts, sshConfig) \in Changes
    BY Zenon, NothingHeldTypes, ChangeTypes DEF HeldTypes
  <2> QED BY Zenon, <2>1, <2>2, HeldEnds DEF stageSSHDelete
<1>2. CASE deleteSSHKey
  <2>1. UNCHANGED <<staged, sshConfig>>
    BY Zenon, <1>2 DEF deleteSSHKey, files
  <2>2. change.name \in Names \cup {None} /\ change.previous \in Configs
    BY Zenon, HeldFields
  <2>3. DeleteKeyRow(keyRows, change.name) \in Rows
    BY Zenon DEF DeleteKeyRow, StoreInv, Types, Rows
  <2>4. ClearKey(hostRows, change.name) \in Hosts
    <3>1. ASSUME NEW a \in Aliases
          PROVE  (IF hostRows[a] = change.name THEN NoKey ELSE hostRows[a]) \in Names \cup {NoKey, None}
      BY Zenon DEF StoreInv, Types, Hosts
    <3> QED BY Zenon, <3>1 DEF ClearKey, Hosts
  <2>5. Change(change.name, None, DeleteKeyRow(keyRows, change.name), ClearKey(hostRows, change.name), change.previous)
           \in Changes
    BY Zenon, <2>2, <2>3, <2>4, ChangeTypes
  <2>6. change' \in Changes
    BY Zenon, <1>2, <2>5 DEF deleteSSHKey, HeldTypes
  <2> QED BY Zenon, <2>1, <2>6, HeldEnds
<1> QED BY Zenon, <1>1, <1>2

(* The config.                                                             *)
LEMMA HeldConfig ==
    ASSUME StoreInv, HeldTypes, ReplaceConfig \/ RestoreConfig \/ reconcileConfigs
    PROVE  HeldTypes'
<1>1. UNCHANGED staged
  BY Zenon DEF ReplaceConfig, RestoreConfig, reconcileConfigs, files
<1>2. sshConfig \in Configs /\ change \in Changes /\ hostRows \in Hosts
  BY Zenon DEF HeldTypes, StoreInv, Types
<1>3. CASE ReplaceConfig
  <2>1. PICK o \in ReplaceFile(sshConfig, renderConfig(change.hosts)) : sshConfig' = o[1]
    BY Zenon, <1>3 DEF ReplaceConfig
  <2>2. renderConfig(change.hosts) \in Configs
    BY Zenon, HeldFields, RenderedType
  <2>3. sshConfig' \in {sshConfig, renderConfig(change.hosts)}
    BY Zenon, <2>1, Replaced
  <2>4. change' = change
    BY Zenon, <1>3 DEF ReplaceConfig
  <2> QED BY Zenon, <1>1, <1>2, <2>2, <2>3, <2>4 DEF HeldTypes
<1>4. CASE RestoreConfig
  <2>1. sshConfig' \in Configs
    <3>1. CASE change.previous = None
      <4>1. PICK o \in RemoveFile(sshConfig, None) : sshConfig' = o[1]
        BY Zenon, <1>4, <3>1 DEF RestoreConfig
      <4>2. sshConfig' \in {sshConfig, None}
        BY Zenon, <4>1, Removed
      <4> QED BY Zenon, <4>2, <1>2, NothingHeldTypes
    <3>2. CASE change.previous # None
      <4>1. PICK o \in ReplaceFile(sshConfig, change.previous) : sshConfig' = o[1]
        BY Zenon, <1>4, <3>2 DEF RestoreConfig
      <4>2. sshConfig' \in {sshConfig, change.previous}
        BY Zenon, <4>1, Replaced
      <4> QED BY Zenon, <4>2, <1>2, HeldFields
    <3> QED BY Zenon, <3>1, <3>2
  <2>2. change' \in Changes
    BY Zenon, <1>2, <1>4, WentTo DEF RestoreConfig
  <2> QED BY Zenon, <1>1, <2>1, <2>2 DEF HeldTypes
<1>5. CASE reconcileConfigs
  <2>1. PICK o \in ReplaceFile(sshConfig, renderConfig(hostRows)) :
           sshConfig' = o[1] /\ Goto(IF o[2] = "ok" THEN "idle" ELSE "down", NoChange)
    BY Zenon, <1>5 DEF reconcileConfigs
  <2>2. renderConfig(hostRows) \in Configs
    BY Zenon, <1>2, RenderedType
  <2>3. sshConfig' \in {sshConfig, renderConfig(hostRows)}
    BY Zenon, <2>1, Replaced
  <2>4. change' \in Changes
    BY Zenon, <2>1, NothingHeldTypes, WentTo
  <2> QED BY Zenon, <1>1, <1>2, <2>2, <2>3, <2>4 DEF HeldTypes
<1> QED BY Zenon, <1>3, <1>4, <1>5

(* The steps that only end a flow, and startup.                            *)
LEMMA HeldRest ==
    ASSUME HeldTypes, Unrename \/ Tx \/ RollbackDelete \/ DiscardTombstone \/ Start \/ Crash
                      \/ \E n \in Names : RecoverTombstone(n)
    PROVE  HeldTypes'
<1>1. UNCHANGED <<staged, sshConfig>>
  BY Zenon DEF Unrename, Tx, RollbackDelete, DiscardTombstone, Start, Crash, RecoverTombstone, files
<1>2. \/ UNCHANGED change
      \/ \E step : Goto(step, NoChange) \/ Goto(step, change)
  BY Zenon DEF Unrename, Tx, RollbackDelete, DiscardTombstone, Start, Crash, RecoverTombstone, Release
<1>3. change' \in Changes
  BY Zenon, <1>2, NothingHeldTypes, WentTo DEF HeldTypes
<1> QED BY Zenon, <1>1, <1>3, HeldEnds

LEMMA HeldStage ==
    ASSUME HeldTypes, NEW n \in Names, NEW k \in Keys, RecoverStage(n, k)
    PROVE  HeldTypes'
<1>1. UNCHANGED sshConfig /\ staged' \in SUBSET staged
  BY Zenon DEF RecoverStage
<1>2. change' \in Changes
  BY Zenon, NothingHeldTypes, WentTo DEF RecoverStage, HeldTypes
<1> QED BY Zenon, <1>1, <1>2 DEF HeldTypes

(* Rows, files, config and what a flow holds have their types, whichever   *)
(* step failed and wherever the process died.                              *)
THEOREM StoreTypes == StoreSpec => []StoreTypeOK
<1>1. StoreInv /\ HeldTypes => StoreTypeOK
  BY Zenon DEF StoreInv, Types, HeldTypes, StoreTypeOK, Rows, Hosts
<1>2. StoreInv /\ HeldTypes /\ [StoreNext]_storeVars => HeldTypes'
  BY Zenon, HeldPut, HeldHosts, HeldDelete, HeldConfig, HeldRest, HeldStage
     DEF StoreNext, StoreStep, StoreRequest, storeVars, HeldTypes
<1> QED BY <1>1, <1>2, StoreInvariant, HeldStart, PTL DEF StoreSpec
=============================================================================
