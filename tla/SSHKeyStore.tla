---------------------------- MODULE SSHKeyStore ----------------------------
(***************************************************************************)
(* The stored SSH keys and hosts of one principal (subsystems/ssh): two    *)
(* tables, a directory of key files and the rendered OpenSSH config.  The  *)
(* database and the files cannot change in one step, so every mutation is  *)
(* a flow of steps under the database lock, each of which may fail and     *)
(* between any two of which the process may die; startup settles what was  *)
(* left behind.  A key stands for its type, fingerprint and bytes: the     *)
(* staged file's name carries a digest of the first two.                   *)
(***************************************************************************)
CONSTANTS
    Names,         \* key names (keyId)
    Keys,          \* private keys
    Aliases,       \* host aliases, up to case
    None,          \* no file, no row
    NoKey,         \* a host without keyId
    StoreFaults    \* which calls may fail: see the actions

ASSUME StoreAssumption ==
    /\ None \notin Keys \cup Names
    /\ NoKey \notin Names \cup {None}

VARIABLES
    keyRows,       \* ssh_keys: the key of a name, or None
    hostRows,      \* ssh_hosts: the keyId of an alias, NoKey, or None
    keyFile,       \* keys/<name>
    tombstone,     \* keys/.delete-<name>
    staged,        \* keys/.put-<name>-<digest>, as <<name, key>>
    sshConfig,     \* the rendered config: a set of stanzas, or None
    unanswered,    \* history: key names whose row changed in a commit that reported an error
    storeAt,       \* the next step of the flow that holds the lock
    change         \* what that flow holds in its variables and transaction

storeVars == <<keyRows, hostRows, keyFile, tombstone, staged, sshConfig, unanswered, storeAt, change>>

files == <<keyFile, tombstone, staged>>
tables == <<keyRows, hostRows, unanswered>>

StoreSteps == {"idle", "insert", "unstage", "promote", "unrename", "mutate", "replace",
               "commit", "restore", "rollback", "discard", "down", "recover"}

(* The config has one stanza per host; it names the key file only for a    *)
(* host with a key, and nothing else of the host matters here.             *)
stanza(alias, key) == [host |-> alias, identityFile |-> key]

renderConfig(hosts) == {stanza(a, hosts[a]) : a \in {b \in Aliases : hosts[b] # None}}

Configs == (SUBSET [host : Aliases, identityFile : Names \cup {NoKey}]) \cup {None}

NoRows == [n \in Names |-> None]
NoHosts == [a \in Aliases |-> None]

Change(name, key, rows, hosts, previous) ==
    [name |-> name, key |-> key, rows |-> rows, hosts |-> hosts, previous |-> previous]
NoChange == Change(None, None, NoRows, NoHosts, None)

May(fault) == fault \in StoreFaults

(* What a file can be after a replacement or removal, and whether the call *)
(* reports success: it fails before the rename or, in the directory sync,  *)
(* after it.                                                               *)
ReplaceFile(old, new) ==
    {<<new, "ok">>} \cup (IF May("write") THEN {<<old, "error">>} ELSE {})
                    \cup (IF May("sync") THEN {<<new, "error">>} ELSE {})

RemoveNothing(old, new) == {<<old, "ok">>}

RemoveFile(old, new) ==
    {<<new, "ok">>} \cup (IF May("remove") THEN {<<old, "error">>} ELSE {})
                    \cup (IF May("sync") THEN {<<new, "error">>} ELSE {})

InsertKeyRow(rows, n, k) == [rows EXCEPT ![n] = k]
DeleteKeyRow(rows, n) == [rows EXCEPT ![n] = None]
PutHostRow(hosts, a, key) == [hosts EXCEPT ![a] = key]
DeleteHostRow(hosts, a) == [hosts EXCEPT ![a] = None]
ClearKey(hosts, n) == [a \in Aliases |-> IF hosts[a] = n THEN NoKey ELSE hosts[a]]

StoreInit ==
    /\ keyRows = NoRows
    /\ hostRows = NoHosts
    /\ keyFile = NoRows
    /\ tombstone = NoRows
    /\ staged = {}
    /\ sshConfig = None
    /\ unanswered = {}
    /\ storeAt = "idle"
    /\ change = NoChange

Goto(step, held) ==
    /\ storeAt' = step
    /\ change' = IF step \in {"idle", "down"} THEN NoChange ELSE held

Release == Goto("idle", NoChange)

----------------------------------------------------------------------------
(* putSSHKey: stage the bytes, commit the row, rename the stage.           *)

putSSHKey(n, k) ==
    /\ storeAt = "idle"
    /\ keyRows[n] = None
    /\ keyFile[n] = None
    /\ \E o \in ReplaceFile(staged, staged \cup {<<n, k>>}) :
          /\ staged' = o[1]
          /\ Goto(IF o[2] = "ok" THEN "insert" ELSE "idle", Change(n, k, NoRows, NoHosts, None))
    /\ UNCHANGED <<tables, keyFile, tombstone, sshConfig>>

(* The statement fails, or its row is committed and the answer is lost.    *)
InsertKey ==
    /\ storeAt = "insert"
    /\ \/ /\ keyRows' = InsertKeyRow(keyRows, change.name, change.key)
          /\ \/ storeAt' = "promote" /\ UNCHANGED unanswered
             \/ May("reply") /\ storeAt' = "unstage" /\ unanswered' = unanswered \cup {change.name}
       \/ May("insert") /\ storeAt' = "unstage" /\ UNCHANGED <<keyRows, unanswered>>
    /\ UNCHANGED <<hostRows, files, sshConfig, change>>

Unstage ==
    /\ storeAt = "unstage"
    /\ \E o \in RemoveFile(staged, staged \ {<<change.name, change.key>>}) : staged' = o[1]
    /\ Release
    /\ UNCHANGED <<tables, keyFile, tombstone, sshConfig>>

PromoteKey ==
    /\ storeAt = "promote"
    /\ \/ /\ keyFile' = [keyFile EXCEPT ![change.name] = change.key]
          /\ staged' = staged \ {<<change.name, change.key>>}
       \/ May("rename") /\ UNCHANGED <<keyFile, staged>>
    /\ Release
    /\ UNCHANGED <<tables, tombstone, sshConfig>>

----------------------------------------------------------------------------
(* mutateHosts: remember the config, stage a key deletion if there is one, *)
(* mutate in a transaction, replace the config inside it, commit; after an *)
(* error put the config and the key file back.                             *)

stageSSHDelete(n) ==
    /\ storeAt = "idle"
    /\ keyFile[n] # None
    /\ tombstone[n] = None
    /\ tombstone' = [tombstone EXCEPT ![n] = keyFile[n]]
    /\ keyFile' = [keyFile EXCEPT ![n] = None]
    /\ storeAt' = "mutate" \/ (May("sync") /\ storeAt' = "unrename")
    /\ change' = Change(n, None, NoRows, NoHosts, sshConfig)
    /\ UNCHANGED <<tables, staged, sshConfig>>

DropTombstone ==
    /\ tombstone' = [tombstone EXCEPT ![change.name] = None]
    /\ UNCHANGED keyFile

RenameBack ==
    \/ /\ keyFile' = [keyFile EXCEPT ![change.name] = tombstone[change.name]]
       /\ tombstone' = [tombstone EXCEPT ![change.name] = None]
    \/ May("rename") /\ UNCHANGED <<keyFile, tombstone>>

Unrename ==
    /\ storeAt = "unrename"
    /\ RenameBack
    /\ Release
    /\ UNCHANGED <<tables, staged, sshConfig>>

deleteSSHKey ==
    /\ storeAt = "mutate"
    /\ \/ /\ keyRows[change.name] # None
          /\ storeAt' = "replace"
          /\ change' = Change(change.name, None, DeleteKeyRow(keyRows, change.name),
                              ClearKey(hostRows, change.name), change.previous)
       \/ /\ keyRows[change.name] = None \/ May("commit")
          /\ storeAt' = "rollback"
          /\ change' = change
    /\ UNCHANGED <<tables, files, sshConfig>>

mutateHosts(hosts) ==
    /\ storeAt' = "replace"
    /\ change' = Change(None, None, keyRows, hosts, sshConfig)
    /\ UNCHANGED <<tables, files, sshConfig>>

CredentialUnchecked(key) == TRUE

resolveSSHCredential(key) == key # NoKey => keyRows[key] # None

addHost(a, key) ==
    /\ storeAt = "idle"
    /\ resolveSSHCredential(key)
    /\ hostRows[a] = None
    /\ mutateHosts(PutHostRow(hostRows, a, key))

updateHost(a, key) ==
    /\ storeAt = "idle"
    /\ resolveSSHCredential(key)
    /\ hostRows[a] # None
    /\ mutateHosts(PutHostRow(hostRows, a, key))

deleteHost(a) ==
    /\ storeAt = "idle"
    /\ hostRows[a] # None
    /\ mutateHosts(DeleteHostRow(hostRows, a))

ReplaceConfig ==
    /\ storeAt = "replace"
    /\ \E o \in ReplaceFile(sshConfig, renderConfig(change.hosts)) :
          /\ sshConfig' = o[1]
          /\ storeAt' = IF o[2] = "ok" THEN "commit" ELSE "restore"
    /\ UNCHANGED <<tables, files, change>>

(* A commit whose answer is lost looks like one that failed.               *)
Tx ==
    /\ storeAt = "commit"
    /\ \/ /\ keyRows' = change.rows
          /\ hostRows' = change.hosts
          /\ \/ /\ Goto(IF change.name = None THEN "idle" ELSE "discard", change)
                /\ UNCHANGED unanswered
             \/ /\ May("reply")
                /\ Goto("restore", change)
                /\ unanswered' = unanswered \cup ({change.name} \ {None})
       \/ May("commit") /\ UNCHANGED tables /\ Goto("restore", change)
    /\ UNCHANGED <<files, sshConfig>>

RestoreConfig ==
    /\ storeAt = "restore"
    /\ \E o \in IF change.previous = None THEN RemoveFile(sshConfig, None)
                                          ELSE ReplaceFile(sshConfig, change.previous) :
          sshConfig' = o[1]
    /\ Goto(IF change.name = None THEN "idle" ELSE "rollback", change)
    /\ UNCHANGED <<tables, files>>

RollbackDelete ==
    /\ storeAt = "rollback"
    /\ IF keyFile[change.name] = None THEN RenameBack ELSE UNCHANGED <<keyFile, tombstone>>
    /\ Release
    /\ UNCHANGED <<tables, staged, sshConfig>>

DiscardTombstone ==
    /\ storeAt = "discard"
    /\ \E o \in RemoveFile(tombstone, [tombstone EXCEPT ![change.name] = None]) : tombstone' = o[1]
    /\ Release
    /\ UNCHANGED <<tables, keyFile, staged, sshConfig>>

----------------------------------------------------------------------------
(* The process dies: the open transaction rolls back, files and committed  *)
(* rows stay.  NewService then settles every pending file in the order of  *)
(* the directory listing, tombstones first, and rerenders the config; an   *)
(* error ends the process again.                                           *)

Crash ==
    /\ May("crash")
    /\ storeAt # "down"
    /\ Goto("down", NoChange)
    /\ UNCHANGED <<tables, files, sshConfig>>

Start ==
    /\ storeAt = "down"
    /\ Goto("recover", NoChange)
    /\ UNCHANGED <<tables, files, sshConfig>>

Refused(n) == tombstone[n] # None /\ keyRows[n] # None /\ keyFile[n] # None

RecoverTombstone(n) ==
    /\ storeAt = "recover"
    /\ tombstone[n] # None
    /\ \/ /\ ~Refused(n)
          /\ tombstone' = [tombstone EXCEPT ![n] = None]
          /\ keyFile' = IF keyRows[n] # None THEN [keyFile EXCEPT ![n] = tombstone[n]] ELSE keyFile
          /\ UNCHANGED <<storeAt, change>>
       \/ /\ Refused(n) \/ May(IF keyRows[n] # None THEN "rename" ELSE "remove")
          /\ Goto("down", NoChange)
          /\ UNCHANGED <<keyFile, tombstone>>
    /\ UNCHANGED <<tables, staged, sshConfig>>

RecoverStage(n, k) ==
    /\ storeAt = "recover"
    /\ tombstone = NoRows
    /\ <<n, k>> \in staged
    /\ \/ /\ staged' = staged \ {<<n, k>>}
          /\ keyFile' = IF keyRows[n] = k THEN [keyFile EXCEPT ![n] = k] ELSE keyFile
          /\ UNCHANGED <<storeAt, change>>
       \/ /\ May(IF keyRows[n] = k THEN "rename" ELSE "remove")
          /\ Goto("down", NoChange)
          /\ UNCHANGED <<keyFile, staged>>
    /\ UNCHANGED <<tables, tombstone, sshConfig>>

reconcileConfigs ==
    /\ storeAt = "recover"
    /\ tombstone = NoRows
    /\ staged = {}
    /\ \E o \in ReplaceFile(sshConfig, renderConfig(hostRows)) :
          /\ sshConfig' = o[1]
          /\ Goto(IF o[2] = "ok" THEN "idle" ELSE "down", NoChange)
    /\ UNCHANGED <<tables, files>>

StoreStep ==
    \/ InsertKey \/ Unstage \/ PromoteKey
    \/ Unrename \/ deleteSSHKey \/ ReplaceConfig \/ Tx
    \/ RestoreConfig \/ RollbackDelete \/ DiscardTombstone
    \/ Start \/ reconcileConfigs
    \/ \E n \in Names : RecoverTombstone(n)
    \/ \E n \in Names, k \in Keys : RecoverStage(n, k)

StoreRequest ==
    \/ \E n \in Names, k \in Keys : putSSHKey(n, k)
    \/ \E n \in Names : stageSSHDelete(n)
    \/ \E a \in Aliases, key \in Names \cup {NoKey} : addHost(a, key) \/ updateHost(a, key)
    \/ \E a \in Aliases : deleteHost(a)

StoreNext == StoreStep \/ StoreRequest \/ Crash

StoreSpec == StoreInit /\ [][StoreNext]_storeVars

----------------------------------------------------------------------------
Changes == [name : Names \cup {None}, key : Keys \cup {None},
            rows : [Names -> Keys \cup {None}],
            hosts : [Aliases -> Names \cup {NoKey, None}], previous : Configs]

(* The types of the rows, the files and the flow that holds the lock.      *)
StoreTypeOK ==
    /\ keyRows \in [Names -> Keys \cup {None}]
    /\ hostRows \in [Aliases -> Names \cup {NoKey, None}]
    /\ keyFile \in [Names -> Keys \cup {None}]
    /\ tombstone \in [Names -> Keys \cup {None}]
    /\ staged \in SUBSET (Names \X Keys)
    /\ sshConfig \in Configs
    /\ unanswered \subseteq Names
    /\ storeAt \in StoreSteps
    /\ change \in Changes

(* No committed key loses its bytes: whatever failed and wherever the      *)
(* process died, the bytes of a row of ssh_keys are in the key file, in    *)
(* the tombstone or in the stage that carries the row's digest.  Only a    *)
(* row whose own commit was reported as failed can be without them.        *)
KeyBytesKept ==
    \A n \in Names \ unanswered : keyRows[n] # None =>
        keyRows[n] \in {keyFile[n], tombstone[n]} \/ <<n, keyRows[n]>> \in staged

(* A key file is only ever the committed key of its name: an interrupted   *)
(* put or delete never leaves bytes that no row lists and that putSSHKey   *)
(* would take for an existing key.                                         *)
KeyFileCommitted ==
    \A n \in Names \ unanswered : keyFile[n] # None => keyFile[n] = keyRows[n]

(* The tables have no foreign key and the config is a file, yet no host    *)
(* row ever names a key that was deleted, and no stanza of the config one  *)
(* whose deletion was reported as done.                                    *)
HostsNameStoredKeys ==
    /\ \A a \in Aliases : hostRows[a] \in Names => keyRows[hostRows[a]] # None
    /\ sshConfig # None =>
          \A s \in sshConfig :
              s.identityFile \notin unanswered \cup {NoKey} => keyRows[s.identityFile] # None

(* Startup always settles the directory: it never finds a key beside its   *)
(* own deletion tombstone, which recoverSSHChanges refuses to start with,  *)
(* unless the deletion was committed and reported as failed.               *)
StartupNotRefused == storeAt = "recover" => \A n \in Names \ unanswered : ~Refused(n)

(* When NewService returns, every row has its key file, nothing is pending *)
(* and the config is the one its hosts render to.                          *)
StartupSettles ==
    [][storeAt = "recover" /\ storeAt' = "idle" =>
         /\ \A n \in Names \ unanswered : keyFile'[n] = keyRows'[n]
         /\ tombstone' = NoRows /\ staged' = {}
         /\ sshConfig' = renderConfig(hostRows')]_storeVars
============================================================================
