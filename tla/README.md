# Verification of the cs-plane control plane

TLA+ models of cs-plane, the control plane that launches, watches and stops
interactive sessions on Slurm clusters, checked with TLC on small instances and,
where marked, proved with TLAPS for every instance. The code is the reference:
`PROJECT.json` maps each definition to the lines it models.

## 1. The system

| Part | State it owns | Operations that change it | Talks to |
|---|---|---|---|
| Session lifecycle (`subsystems/session/lifecycle.go`) | session rows, idempotency keys | Define, AdoptRuns, Start, Attach, Stop, Delete | database, Dev Tunnels, Slurm, capability files |
| Reconciliation (`reconcile.go`) | one pass at a time (`sessionRuntime.refreshing`) | background pass every 30 s, and inside Stop | Slurm, links, run records |
| Capabilities and tunnels of a run (`tunnel.go`) | one token file per (session, seq), one Dev Tunnel | issueSession, releaseTunnel | files, provider |
| Links (`link.go`) | `links`: session -> (seq, connection) | Link; Stop drops one | rows |
| Telemetry (`telemetry.go`) | log and sample buffers, run records (200 at most) | tail, sample, freeze, account | Slurm, rows |
| Service runtime (`service.go`) | operations in flight, closing flag | begin, start, every, close | all of the above |
| Preparation (`preparation.go`) | hosts being prepared | provisionSession | remote files |
| Slurm client (`internal/slurm`) | none; the queue and accounting are Slurm's | Submit, Cancel, Observe | ssh |
| Database (`internal/db`) | Postgres, process mutex, directory lock | Locked, Tx | |
| SSH hosts and keys (`subsystems/ssh`) | host and key rows, key files, rendered config | host and key changes, startup recovery | database, files |
| Control masters (`internal/ssh/control.go`) | logins in progress, owned masters | admit, finish, expire, Close | ssh processes |
| Dev Tunnels account (`subsystems/tunnel`) | pending authorizations, sealed tokens | start, poll, Credential (refresh) | provider, files |
| Identity (`internal/identity`) | signing-key cache, user cache | refresh | issuer |
| OAuth boundary, security, router, `main.go` | none shared | | |

What is hard about it:

* A launch is a dozen steps (retire the old run, serialise, claim a seq, create a
  tunnel, write a token, persist the row, provision, `sbatch`, record the job) with
  compensation at each; only single database sections are atomic.
* Stop, Delete, a second launch, the background pass and a connecting Linkspan run
  between any two of them, each on a copy of the row read earlier. Copies are
  checked by `UpdatedAt`, by seq, by job, or not at all, depending on the place.
* `sbatch` may queue a job and not say so; the process may stop at any step; the
  scheduler, the provider, a file or the database may fail at any step.
* Everything outside the row (records, job names, tunnels, files) is keyed by seq.
* Keys and hosts live in tables, in a directory and in a rendered config, which
  cannot change together; startup repairs what a crash left.
* Logins, background passes and operations must all have ended before the database
  and the control masters are closed, and must not keep `cs serve` from returning.
* Caches and pending authorizations are shared by requests that ask a provider
  outside their lock.

## 2. Modules

| Module | Contents |
|---|---|
| `SchedulerPolicy` | the session states and the pure policy of `reconcile.go`: `NextState`, `ApplyObservation`, `MissingFromScheduler`, `UnreachableScheduler` |
| `SessionLifecycle` | one session with everything that belongs to it, under all requests |
| `SessionAbstract` | what a client is promised of a session |
| `SessionInvariant` | the inductive invariant |
| `MCSessionLifecycle` | the root of the runs of the lifecycle |
| `SessionInvariant_proofs` | the types, `SeqInv` step by step, the refinement of `SessionAbstract`, and the parts of the invariant about capabilities, links and tunnels |
| `SessionJobs_proofs` | jobs and records, and with them the whole invariant |
| `SessionTraffic` | links of several runs, and the requests that are sent through them or through the tunnel (`link.go`, `tunnel.go`) |
| `RunRecords` | sample windows, the bounded list of records and accounting, for several sessions (`telemetry.go`) |
| `ServiceRuntime` | `cs serve` from construction to return; operations, background passes and host marks (`main.go`, `service.go`) |
| `Provisioning` | the provisioning script on a host (`preparation.go`) |
| `SlurmClient` | a submission and a status round against a moving cluster (`internal/slurm`) |
| `SSHKeyStore` | keys, hosts and the config of one principal (`subsystems/ssh`) |
| `ControlMasters` | logins to one alias and the masters they leave (`internal/ssh`) |
| `TunnelBroker` | pending authorizations and the linked account (`subsystems/tunnel`, `internal/devtunnel/authorization.go`) |
| `SigningKeys`, `CustosUsers` | the two caches of `internal/identity` |
| `MCProcesses`, `MCStores`, `MCHosts` | the roots of three runs over these components |
| `Processes_proofs` | about `ControlMasters`, `ServiceRuntime` and both beside each other |
| `SlurmClient_proofs` | about `SlurmClient` |
| `Hosts_proofs` | about `SessionTraffic` and `Provisioning`; a behaviour of `MCHosts` is one of all three |
| `Stores_proofs`, `Accounts_proofs` | about `SSHKeyStore` and `RunRecords`; about `TunnelBroker`, `SigningKeys` and `CustosUsers` |
| `Composition_proofs` | the parts of `MCStores` and of `MCHosts` beside each other |

### SessionLifecycle and the code

State: `row` is the session's row; `runs` the seqs with a run record; `caps` the
token files; `tunnels` and `jobs` what exists at the provider and at Slurm;
`registry` the entry of `Service.links`; `lock` the holder of `Service.serialized`.
`pc`, `snap` and `cand` are the local variables of each request: where it is, the
row it read, the row it will write. `fresh` stands for the comparison of
`UpdatedAt`, `age` for the time since it.

A `Store.locked` section is one step, since `internal/db` runs one at a time over
all goroutines and processes; a remote call or a file operation between two sections
is a step too. The steps of a launch (`LaunchBegin` ... `LaunchAbandoned`) follow
`Start`/`Attach` through `retireFinished`, `serialized`, `claimRun`, `issueSession`,
`persistSubmitIntent`, `recordSubmittedJob`, `cancelSupersededJob` and
`abandonSubmitIntent`; those of Stop follow its five parts; the background pass
reads, observes and merges; `Delete` and `Link` likewise. `JobStep`, `Tick` and
`Crash` are Slurm, the clock and a restart.

Abstractions:

* A job is identified by the seq in its name, which is what Slurm is asked for when
  no job ID is known. How a finished job ended is chosen when it is observed; a
  finished job may be in neither queue nor accounting.
* `age` has three values: within the propagation window, within `provisionTimeout`,
  later. `StartedAt` is a flag, and "walltime has passed" is chosen, except that a
  job that is alive and was never requeued is within its walltime.
* `err` says that the row shows a diagnostic; `Rewordings` keeps the case that only
  its text changes, because that too restamps the row.
* Node, the requested resources and all texts are left out: no decision reads them.
* A failed save in Define, AdoptRuns, the first section of Stop or of Delete changes
  nothing and ends the request, so it is not a step.
* `Faults` selects the failures of an instance: `unreachable`, `cancel` (scancel
  fails), `ambiguous` (no usable answer of `sbatch`), `devtunnel`, `credential`,
  `file`, `save`, `crash`, `requeue`, and `slow`: a launch that is still between
  persisting its row and recording its job when `provisionTimeout` has passed.

Definitions named after a mistake (`NextStateUnnormalized`, `NeverLocked`, ...) are
variants of the definition below them and are used by nothing; each shows that some
property would notice that mistake.

### The other components and the code

Each module has one action per step that other goroutines, processes or a crash can
come between: a section under a mutex, a call to a provider, an ssh command, a
rename. What a handler holds in its variables is a record (`change`, `caller[c]`,
`request[r]`, ...) whose field `at` says how far it is.

* `SSHKeyStore`: the flows hold the database lock (`storeAt`), so they do not
  interleave; what is hard is that every step may fail (`StoreFaults`) and the
  process may die between any two. A file replacement fails before the rename or, in
  the directory sync, after it. `Start`, `RecoverTombstone`, `RecoverStage` and
  `reconcileConfigs` are `NewService`. A key stands for its type, fingerprint and
  bytes, a host for its alias and key.
* `ControlMasters`: `loginAt` follows `Handle` from admission through the lock file
  and the ssh process to ownership; `Close` cancels, marks, waits and kills. Control
  paths are per configuration, which may be edited meanwhile. The ssh client, other
  processes' masters and locks are the environment.
* `ServiceRuntime`: components are opened and closed in the order of `main.go`;
  `begin`/`done` are the wait group, `inFlight` the compare-and-swap flags of the
  loops, `hostPreparations` the marks of `provisionSession`. What an operation does
  to a row is in `SessionLifecycle`.
* `TunnelBroker`: `credentialLock` is the per-principal file lock, held across the
  calls to the provider; the table of pending authorizations is not. The provider
  redeems a device code once and accepts only the last refresh token it issued.
* `SigningKeys`: times are abstracted to what they make true (`keysFresh`,
  `cooldown`); the issuer publishes and retires keys while requests wait.
* `CustosUsers`: has a clock, because its property is about ages; `lastTrue` is a
  history variable.
* `RunRecords`: a sample is represented by the run it was taken of, so that one which
  lands in the wrong record shows.
* `SlurmClient`: the output of a round is a sequence of marked lines, parsed the way
  `parseStatuses` does; the queue moves between scancel, squeue and sacct. `seen` and
  the set of jobs the target had are history variables of the round.
* `Provisioning`: one action per command of the script. A version is a release number
  and whether it is a build ahead of it. A file is named by the script that created
  it, so a script that still writes to a file which was moved is represented.
* `SessionTraffic`: links and requests of one session across its runs. The lifecycle
  only moves the row here (`issueSession`, `probeTunnel`, `reconcileAll`, the steps of
  Stop); pooled connections are kept by host name, which carries the seq.

These components share no state with each other that their properties need.
`MCProcesses`, `MCStores` and `MCHosts` therefore put several of them side by side: a
variable `part`, chosen initially, says which one moves. Their state spaces are added,
not multiplied, and fairness is stated per part.

### SessionAbstract

Runs numbered one after the other, one at a time; a stopped run does not come back;
a record only for a run that is over, and never lost. `Reopen` is in the promise
because the code does it: when removing the token file of a finished run fails, the
row returns to STOPPING. `KeepsPromise` reads the abstract state off the row and the
records.

## 3. Runs

| Run | Instance | Shows |
|---|---|---|
| `core` | a launcher, a stopper, two seqs; unreachable scheduler, failing scancel, lost answers, crashes | no job is forgotten, no live run loses its token file, a run without record never had a job, the promise is kept |
| `launches` | two launchers of both kinds, AdoptRuns, Delete, a Linkspan, two seqs | the lock and the freshness check keep two launches apart; no early record; seqs are not reused; a linked READY run is not demoted (no requeued jobs); the inductive invariant holds |
| `tunnels` | runs with and without a tunnel, a stopper, two seqs | every tunnel is known to a row or a request that will delete it |
| `failures` | tunnel mode, both kinds, one seq; every local and provider failure, requeue, slow launches | compensation leaves no job behind |
| `progress` | a launcher, a stopper, lost answers, fairness | a stop completes, a submission settles |
| `processes` | two logins to a host whose configuration changes; `cs serve` with two operations on one host, a read, a stream and its passes; fairness | no ssh process without an owner, one login per socket, Close reaps and returns; work never uses a closed component; flags and marks have owners; an interrupted server returns |
| `stores` | two key names and two keys with every fault but `remove`; two callers, principals and authorizations; two bearers and two signing keys; two users in a cache of one; two sessions of two runs with a limit of two records | keys keep their bytes, hosts name stored keys, startup is not refused; an authorization is exchanged once for its principal and the refresh token is the last issued; one shared key refresh, known keys are accepted; no stale identity; at most one stray sample |
| `hosts` | two jobs of one name with every fault of the dialogue; two links and a request over two runs; two scripts and two releases | a refusal means no job, reported states held, a live job is found, no cancellation is lost; traffic reaches its run and no connection leaks; an undisturbed script leaves what its session needs |

Each component run also checks the types of its parts (`MCTypeOK`, `HostsTypeOK`), which include
the bounds the code promises: the wait groups stay above zero, the tables, caches,
windows and the list of records within their limits, no run has two records, and the
Linkspan at its path is never a partial download.

Bounds. Two seqs are needed for a request of one run to meet the next run; a third
adds nothing a property tells apart, since each relates the current run to *some*
earlier one. Two launchers are needed for the lock. A request slot is reused when a
request ends, so an instance has any number of requests in sequence; the bound is on
those in flight at once. Failures are unlimited in number. The same holds for logins,
callers, bearers and scripts: two at once are what every race in that code needs, and
a cache or table of one or two entries is at its limit after one or two steps.
`MaxMoves` (changes of the queue during a round), `MaxRotations`, `MaxClock`,
`MaxSamples`, `MaxRelease`, `MaxIdle` bound counters the code does not bound, or
bounds much higher. Symmetry is used where callers, jobs or scripts are interchangeable and
no liveness is checked. The proofs below have none of these bounds.

Deadlock is checked where something always remains to be done: a stopper exists, or
the login manager waits for logins. `launches`, `stores` and `hosts` switch it off:
a deleted session or a store nobody calls rests.

Fairness. `progress`: a request in flight goes on, since every remote call has
a timeout; the background pass runs every 30 s; time passes. Nothing is assumed of
users, jobs or links. `StopCompletes` assumes that the user does not press Stop for
ever, because each Stop restamps the row and restarts its window. `processes`: after
Close has cancelled the context every step of a login ends, because its commands have
timeouts, its writes deadlines and its waits watch the context; the operations and
passes of the server likewise; Shutdown returns after its own timeout. A loop's select
may prefer a tick to the cancelled context, but not for ever (strong fairness). No
client, read or stream is given any fairness.

### Disagreements between code and documentation

Each row names a configuration in which TLC finds the shortest behaviour; the first
four are runs.

| Configuration | The text | What the code does |
|---|---|---|
| `LinkRace` | "reconciliation never demotes a linked READY session" | the link is looked for at observation; one that registers before the merge is missed |
| `Ambiguous` | an ambiguous submission "stays durable for reconciliation" | a pass that observed a slow launch before its job appeared gives the row up, and the job is forgotten |
| `TunnelRace` | a relaunch releases the finished run's tunnel | with two launches, the run retired need not be the run replaced |
| `LateAnswer` | "A submission that returns after the session was stopped cancels its job." | it also cancels a job the background pass has already adopted and shows as STARTING or READY |
| `SeqReuse` | "A seq is never reused." | Delete and Define of one idempotency key start at seq 1 again, with the old records in place |
| `Records` | a record is frozen when a session first becomes terminal | a refused submission makes the session FAILED without a record |
| `Tombstone` (of `MCStores`) | "Startup resolves either interruption from committed metadata." | when removing the tombstone of a deleted key failed and its name is used again, a restart refuses with "SSH key and deletion tombstone both exist" |

## 4. Proofs

`TypeCorrect`: `Spec => []TypeOK`, from `ConstantsAssumption` alone: any sets of
requests, any number of seqs, any faults, with or without redefinition.

`SeqInvariant`: `Spec => []SeqInv` when a deleted session is not defined again.
`SeqReuse.cfg` shows why that premise is needed. Consequences:

* `NoEarlyRecord`: `Spec => []LiveRunUnrecorded`;
* `JobIsOfCurrentRun`: `Spec => []JobOfCurrentRun`;
* `SeqIsNeverReused`: `Spec => SeqNeverReused`;
* `Refinement`: `Spec => KeepsPromise`, the lifecycle implements `SessionAbstract`.

The two invariants are not inductive. A record is written by requests that remember a run
(`retireFinished` does not even read the row), so one must know that a remembered
finished run stays finished: `Past(n)`, kept because seqs only grow. The job is
written by a launch that finds the row by ID alone, so one must know that the row
is still that launch's run: `LaunchInv`, kept because the launch holds
`Service.serialized` from claim to record and everybody else leaves seq alone. A
merge copies the job of a candidate, so `MergeInv` says what a candidate can be
(`Follows`) and that a fresh snapshot is of the current seq. The proof has one step
per action.

The last two theorems come from the same proof. It shows that every step keeps the
session at its run (`KeepsRun`: the row stays or is written for the same run, a
finished run does not live again, at most one run is recorded) or is one of the four
that change it (`Defined`, `Adopted`, `NextRun`, `Forgotten`). Only `NextRun` revives
a finished session, under a seq above every record and job by `RowInv`. A `KeepsRun`
step is a stutter, `RequestStop`, `End`, `Reopen` or `Record` of the abstract
specification, and the other four are its remaining actions.

### Capabilities, links, tunnels, jobs and records of a session

`SessionInductiveInvariant`: `Spec => []IInv`. `IInv` adds five parts to `SeqInv`,
four of which hold only under some failures; the hypotheses are part of `IInv` itself,
so that the `launches` run checks what is proved (all but `TunnelInv`, whose hypotheses
that instance does not meet; the `tunnels` run checks what follows from it).

* `RecordInv`, under every failure, gives `UnrecordedRunNeverSubmitted`
  (`UnrecordedNeverRan`). Needed beside it: a row that ended while its launch has yet
  to submit was recorded, because only a merge can have ended it.
* `CapabilityInv`, when `RowsAreSaved`, gives `LiveRunKeepsCapability`
  (`LiveHasCapability`). Requests remove the capability of a run they remember, outside
  any lock; by `PastInv` that run is over. The part adds where the file of a run that is
  being launched is. `freezeIfTerminal` removes the file before the save, so a failing
  save leaves a live row without it: that is why saves are assumed to succeed.
* `ReadyInv`, when `JobsAreNotRequeued`, gives the action property `LinkedReadyStays`
  (`LinkedStaysReady`). The property is about one merge, and the merge does not look at the
  link: a link may register after the pass observed the job. It holds because a run is shown
  as STARTING or READY, and a connection is accepted, only once its job has begun, and a begun
  job is pending again only when it is requeued. The part says so of the row, of every
  connection (`DialInv`) and of every observation still to be merged (`MergeReadyInv`). With
  requeued jobs the property fails (`LinkRace.cfg`).
* `TunnelInv`, when `TunnelsAreReleased`, gives `TunnelIsAccountedFor` (`TunnelAccounted`). A
  tunnel is the row's, or that of the launch between creating it and persisting the row.
  Needed beside it: where the finished run's tunnel is at each step of a relaunch, which
  retires it by what it read of the row (`LaunchTunnelInv`), and that a Stop drops the
  tunnel from the row only after it released the tunnel of that same run (`StopTunnelInv`).
  `AdoptRuns` may move the row past the number a launch has claimed, but only when the row has
  no tunnel (`NoTunnelRead`). `TunnelsAreReleased` excludes what makes the code leave a tunnel to
  expire: two launches at a time (`TunnelRace.cfg`), Delete, a launch that dies between
  creating its tunnel and saving the row, and a release that fails or finds no credential.
  Stops, links and background passes are any number.
* `JobInv`, when `JobsAreFound`, gives `JobIsNotForgotten` (`NoOrphanJob`). A job in the
  queue is named by the row or tended by its launch. What makes this inductive is
  `MergeJobInv`: a merge that would end the run, and whose snapshot is still current, has
  seen the job gone, and no launch can submit one behind it, because a launch between
  persist and `sbatch` keeps the row within its window. `JobsAreFound` excludes two
  situations in which the code does lose a job: an unreachable scheduler that judges a
  requeued job by its old walltime, and a launch slower than `provisionTimeout` that also
  dies, gets no answer or cannot cancel (`Ambiguous.cfg` is the second).

### The other components

Each goes by an inductive invariant with one lemma per action, from the assumption that
model values differ and bounds are numbers, for any sets of callers, connections, names,
keys, jobs, scripts and sessions.

* Broker, `LockInv`. Whoever is between loading and saving holds the credential lock of
  its principal, and an authorization is only polled under the lock of the principal that
  started it; so what a request learnt of a link or an authorization is still true when it
  writes. Gives `RedeemedForItsPrincipal`, `RefreshTokenKept` and the action property
  `UnlinkHolds`. `PendingTableBounded` (`BrokerTypeOK`) adds the table: several starts are
  admitted before one reaches it, and only the second look at its size keeps the limit.
* Signing keys, `KeysInv`. There is one refresh or none and nobody waits without one; what
  it fetched holds every cached key that is still published, because a retired key does
  not come back. Gives `OneKeyRefresh` and `KnownKeyAccepted`.
* Custos users, `CustosInv`. An answer was true no earlier than the request read the clock,
  so a cached user was true at most its lifetime before its expiry, whichever answer was
  stored last. Gives `IdentityNotStale` and the bound of the cache.
* Keys and hosts, `StoreInv`: what each flow has established by the step it is at. Gives
  `KeyBytesKept` and `HostsNameStoredKeys` for every set of faults. A tombstone counts as
  the key's bytes only while there is no key file, since a rename back would replace the
  file; that is the strengthening `BytesOf`. `SettledInv` adds that a tombstone outlives
  its row only until the flow or startup removed it; it needs `"remove" \notin StoreFaults`
  (`Tombstone.cfg` shows why) and gives `KeyFileCommitted`, `StartupNotRefused` and the
  action property `StartupSettles`.
* Run records, `RecordsInv`. Records are of runs that began and an open run has none, so
  no step makes a duplicate that every later save would refuse; the buffer of a session
  that is not READY holds at most one sample, and none while a collection is under way.
  Gives `RecordsTypeOK` (limits and unique keys) and `AtMostOneStraySample`.
* Logins, `ControlInv`. The wait group is the number of admitted logins, an admitted login
  is the active one of its path, and whoever runs ssh holds the lock file until an owned
  master takes it over. Gives `ProcessAttended`, `OneLoginPerSocket` and `CloseReaps`.
* Server, `RuntimeInv`. `begun` is the number of operations, provisionings, loops and
  passes; it is zero unless all four components are open, because `close` takes the session
  service first and only at zero, and nothing begins after `closing`. Gives
  `WorkKeepsComponents` and `MarksHaveOwners`.
* Slurm, `SlurmInv`. It describes the text a round has printed so far: its three sections,
  and of every row that it was true of its job at some moment of the round. The lemmas about
  `Sections` and `parseStatuses` then show that parsing finds the rows of the target and no
  others. Gives `DefiniteRefusal`, `ReportedStateHeld`, `LiveJobFound`, `CancelNotLost`.
* Traffic, `TrafficInv`. A request is given a connection and uses it later: one must know
  that a handler keeps its run from registration until its connection is closed, that a
  closed connection is never opened again (`Aimed`), and that whoever displaced a connection
  remembers it until it is closed (`Attended`). Gives `TrafficReachesItsRun`,
  `OpenLinkRegistered` and `RegisteredHasHandler`.
* Provisioning, `ProvisionInv`: what a script has established by itself (`ScriptInv`), and
  what it may rely on while nobody else has written (`AloneInv`). Gives `UndisturbedProvision`.

`HostsCompose` and `StoresCompose` show that a behaviour of the composed specification is
one of every component, so that each of these theorems also holds of the root module its
run checks. `StoreTypesCompose`, `HostTypesCompose` and `ProcessTypes` state the type
invariant of each of the three roots.

Assumptions on constants: those of each module (`ConstantsAssumption`, `BrokerAssumption`,
...). `Jobs` is finite because a listing has finitely many rows, and `MaxRelease` positive
because a release may exist before the first script.

Induction. The library's induction theorems cannot be instantiated here, but a nonempty
set of naturals has a least element (`LeastIndex` and `LeastNat`, from `WFMin`), which
serves where a recursive function or a scan must be followed: the last marker of a
section, and the list AdoptRuns builds (`AdoptedList`: the shortest prefix for which the
claim fails would extend a prefix for which it holds).

Every invariant and action property that a passing run checks is stated by a theorem. Only
model-checked: the liveness properties `StopCompletes`, `SubmissionSettles`, `CloseCompletes`
and `ServeReturns`. Liveness under fairness and `ENABLED` are beyond the prover.

## 5. Not modelled

* The OAuth boundary (`subsystems/oauth`), the HTTP adapters (`wire.go` files,
  `internal/security/api.go`, `client.go`, `origin.go`, `internal/router`): each request
  is handled on its own, without state shared with another.
* Text: the batch script and the workflow, OpenSSH options, the parsing of pasted `ssh`
  commands, metrics and log lines. No decision of the modelled steps reads it.
* The vendor's JSON (`internal/devtunnel/devtunnel.go`), token contents and sealing: a
  call succeeds, fails, or has an unknown outcome; a token is valid for its run or not.
* Generated SQL and the opening of the database: a section commits or fails.
* Listing hosts, partitions and nodes of a cluster, which reads and keeps nothing.
* Several sessions in one lifecycle: `Service.serialized` and the rows are per session;
  what sessions share (records, host marks, background flags) is in `RunRecords` and
  `ServiceRuntime`.
* The lifecycle and the components are not composed into one specification: where
  they meet, one uses what the other promises. `SessionLifecycle` takes submissions
  as `SlurmClient` classifies them, and its requests are the operations that
  `ServiceRuntime` counts; `SessionTraffic` takes from the lifecycle only how a row moves.

`hazards` in `PROJECT.json` lists what can go wrong where, with the property that
covers it or the reason none does.
