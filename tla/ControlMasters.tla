--------------------------- MODULE ControlMasters ---------------------------
(***************************************************************************)
(* SSH logins (internal/ssh/control.go) to one alias of one configuration. *)
(* A login runs an ssh process until a control master answers on the       *)
(* alias's control socket, then leaves that process to the manager, which  *)
(* kills it when it closes.  Three things keep two logins apart: the       *)
(* manager's map of active logins, its map of owned masters, and a lock    *)
(* file that other cs-plane processes take as well.  Control paths differ  *)
(* between configurations, so a host edited during a login gets another    *)
(* one.  The ssh client, other processes and batch commands (which leave a *)
(* ControlPersist master behind) are the environment.                      *)
(***************************************************************************)
EXTENDS Naturals, FiniteSets

CONSTANTS
    Logins,        \* WebSocket requests, each with at most one ssh process
    Paths,         \* control paths the alias can resolve to
    NoLogin,       \* no login, no socket, a free lock
    Foreign        \* another cs-plane process or a batch command

ASSUME ControlAssumption == NoLogin \notin Logins \cup {Foreign} /\ Foreign \notin Logins

VARIABLES
    loginAt,       \* where ServeWebSocket stands
    loginPath,     \* attempt.controlPath
    process,       \* attempt.cmd: the ssh process of the login
    socket,        \* whose process answers on a control socket
    lockFile,      \* who holds path.lock
    active, owned, \* the manager's maps
    unfinished,    \* the manager's wait group
    effective,     \* the control path of the effective configuration
    managerAt      \* how far Close has come

controlVars == <<loginAt, loginPath, process, socket, lockFile, active, owned,
                 unfinished, effective, managerAt>>

LoginSteps == {"new", "resolving", "resolved", "admitted", "reclaim", "lock", "command",
               "start", "waiting", "claim", "ready", "refused", "failed", "done"}

Admitted == {"admitted", "reclaim", "lock", "command", "start", "waiting", "claim", "ready"}

Attached == {"prompt", "master", "extra"}

Cancelled == managerAt # "open"
Closed == managerAt \in {"closing", "closed"}

ControlInit ==
    /\ loginAt = [a \in Logins |-> "new"]
    /\ loginPath = [a \in Logins |-> NoLogin]
    /\ process = [a \in Logins |-> "none"]
    /\ socket = [p \in Paths |-> NoLogin]
    /\ lockFile = [p \in Paths |-> NoLogin]
    /\ active = [p \in Paths |-> NoLogin]
    /\ owned = [p \in Paths |-> NoLogin]
    /\ unfinished = 0
    /\ effective \in Paths
    /\ managerAt = "open"

At(a, step) == loginAt' = [loginAt EXCEPT ![a] = step]

(* ssh -O check answers for any live master; a cancelled or slow check     *)
(* reports an unhealthy one.                                               *)
masterHealthy(p) == IF socket[p] # NoLogin /\ ~Cancelled THEN BOOLEAN ELSE {FALSE}

Without(f, p, a) == [f EXCEPT ![p] = IF @ = a THEN NoLogin ELSE @]

LeavesRunning(a) == UNCHANGED <<process, socket>>

(* Killing a process group frees its socket.                               *)
killGroup(a) ==
    /\ process' = [process EXCEPT ![a] = IF @ = "none" THEN "none" ELSE "gone"]
    /\ socket' = Without(socket, loginPath[a], a)

----------------------------------------------------------------------------
(* admit looks for an active login twice, around the resolution of the     *)
(* control path: by alias, then by path.                                   *)

CheckAlias(a) ==
    /\ loginAt[a] = "new"
    /\ At(a, IF Closed \/ \E p \in Paths : active[p] # NoLogin THEN "refused" ELSE "resolving")
    /\ UNCHANGED <<loginPath, process, socket, lockFile, active, owned, unfinished, effective, managerAt>>

resolvedControlPath(a) ==
    /\ loginAt[a] = "resolving"
    /\ \/ /\ ~Cancelled
          /\ loginPath' = [loginPath EXCEPT ![a] = effective]
          /\ At(a, "resolved")
       \/ At(a, "refused") /\ UNCHANGED loginPath
    /\ UNCHANGED <<process, socket, lockFile, active, owned, unfinished, effective, managerAt>>

admit(a) ==
    /\ loginAt[a] = "resolved"
    /\ IF Closed \/ active[loginPath[a]] # NoLogin
         THEN At(a, "refused") /\ UNCHANGED <<active, unfinished>>
         ELSE /\ At(a, "admitted")
              /\ active' = [active EXCEPT ![loginPath[a]] = a]
              /\ unfinished' = unfinished + 1
    /\ UNCHANGED <<loginPath, process, socket, lockFile, owned, effective, managerAt>>

FinishUncounted(a) == active' = Without(active, loginPath[a], a) /\ UNCHANGED unfinished

(* finish(attempt, false): the login leaves the manager and its lock.      *)
finish(a) ==
    /\ active' = Without(active, loginPath[a], a)
    /\ unfinished' = unfinished - 1

(* An error return: the deferred cleanup kills the process, unlocks and    *)
(* finishes.                                                               *)
cleanupFailedAttempt(a) ==
    /\ killGroup(a)
    /\ lockFile' = Without(lockFile, loginPath[a], a)
    /\ finish(a)
    /\ At(a, "failed")
    /\ UNCHANGED <<loginPath, owned, effective, managerAt>>

Upgrade(a) ==
    /\ loginAt[a] = "admitted"
    /\ At(a, "reclaim")
    /\ UNCHANGED <<loginPath, process, socket, lockFile, active, owned, unfinished, effective, managerAt>>

(* A healthy owned master makes the login ready; a dead or silent one is   *)
(* dropped from the map, killed and unlocked.                              *)
reclaimExpiredOwned(a) ==
    /\ loginAt[a] = "reclaim"
    /\ LET p == loginPath[a]
           o == owned[p]
       IN  \/ /\ o = NoLogin
              /\ At(a, "lock")
              /\ UNCHANGED <<process, socket, lockFile, owned>>
           \/ /\ o # NoLogin
              /\ process[o] # "gone"
              /\ TRUE \in masterHealthy(p)
              /\ At(a, "ready")
              /\ UNCHANGED <<process, socket, lockFile, owned>>
           \/ /\ o # NoLogin
              /\ process[o] = "gone" \/ FALSE \in masterHealthy(p)
              /\ killGroup(o)
              /\ lockFile' = Without(lockFile, p, o)
              /\ owned' = [owned EXCEPT ![p] = NoLogin]
              /\ At(a, "lock")
    /\ UNCHANGED <<loginPath, active, unfinished, effective, managerAt>>

acquireControlLock(a) ==
    /\ loginAt[a] = "lock"
    /\ LET p == loginPath[a]
       IN  \/ /\ lockFile[p] = NoLogin
              /\ lockFile' = [lockFile EXCEPT ![p] = a]
              /\ \E healthy \in masterHealthy(p) : At(a, IF healthy THEN "ready" ELSE "command")
           \/ /\ lockFile[p] # NoLogin
              /\ TRUE \in masterHealthy(p)
              /\ At(a, "ready")
              /\ UNCHANGED lockFile
    /\ UNCHANGED <<loginPath, process, socket, active, owned, unfinished, effective, managerAt>>

(* The configuration is read again; a stale socket file is removed.        *)
interactiveCommand(a) ==
    /\ loginAt[a] = "command"
    /\ effective = loginPath[a]
    /\ socket' = [socket EXCEPT ![loginPath[a]] = NoLogin]
    /\ At(a, "start")
    /\ UNCHANGED <<loginPath, process, lockFile, active, owned, unfinished, effective, managerAt>>

StartMaster(a) ==
    /\ loginAt[a] = "start"
    /\ process' = [process EXCEPT ![a] = "prompt"]
    /\ At(a, "waiting")
    /\ UNCHANGED <<loginPath, socket, lockFile, active, owned, unfinished, effective, managerAt>>

SeeHealthy(a) ==
    /\ loginAt[a] = "waiting"
    /\ TRUE \in masterHealthy(loginPath[a])
    /\ At(a, "claim")
    /\ UNCHANGED <<loginPath, process, socket, lockFile, active, owned, unfinished, effective, managerAt>>

(* finish(attempt, true): the process and its lock pass to the manager,    *)
(* unless Close has begun since the check.                                 *)
Own(a) ==
    /\ loginAt[a] = "claim"
    /\ ~Closed
    /\ owned' = [owned EXCEPT ![loginPath[a]] = a]
    /\ finish(a)
    /\ At(a, "done")
    /\ UNCHANGED <<loginPath, process, socket, lockFile, effective, managerAt>>

AlreadyReady(a) ==
    /\ loginAt[a] = "ready"
    /\ lockFile' = Without(lockFile, loginPath[a], a)
    /\ finish(a)
    /\ At(a, "done")
    /\ UNCHANGED <<loginPath, process, socket, owned, effective, managerAt>>

(* Every step before ready may fail: the upgrade, the configuration read,  *)
(* the start, the process, a write to the client, the client itself.       *)
Fail(a) ==
    /\ loginAt[a] \in {"admitted", "reclaim", "lock", "command", "start", "waiting"}
    /\ cleanupFailedAttempt(a)

OwnRefused(a) ==
    /\ loginAt[a] = "claim"
    /\ Closed
    /\ cleanupFailedAttempt(a)

LoginStep(a) ==
    \/ CheckAlias(a) \/ resolvedControlPath(a) \/ admit(a) \/ Upgrade(a)
    \/ reclaimExpiredOwned(a) \/ acquireControlLock(a) \/ interactiveCommand(a)
    \/ StartMaster(a) \/ SeeHealthy(a) \/ Own(a) \/ AlreadyReady(a)
    \/ Fail(a) \/ OwnRefused(a)

----------------------------------------------------------------------------
(* Close cancels, refuses new logins, waits for the admitted ones and then *)
(* kills what the manager owns.                                            *)

CloseCancel ==
    /\ managerAt = "open"
    /\ managerAt' = "cancelled"
    /\ UNCHANGED <<loginAt, loginPath, process, socket, lockFile, active, owned, unfinished, effective>>

CloseMark ==
    /\ managerAt = "cancelled"
    /\ managerAt' = "closing"
    /\ UNCHANGED <<loginAt, loginPath, process, socket, lockFile, active, owned, unfinished, effective>>

NotAwaited == TRUE

AllFinished == unfinished = 0

CloseMasters ==
    /\ managerAt = "closing"
    /\ AllFinished
    /\ LET mine == {owned[p] : p \in Paths} \ {NoLogin}
       IN  /\ process' = [a \in Logins |-> IF a \in mine THEN "gone" ELSE process[a]]
           /\ socket' = [p \in Paths |-> IF socket[p] \in mine THEN NoLogin ELSE socket[p]]
           /\ lockFile' = [p \in Paths |-> IF lockFile[p] \in mine THEN NoLogin ELSE lockFile[p]]
    /\ owned' = [p \in Paths |-> NoLogin]
    /\ managerAt' = "closed"
    /\ UNCHANGED <<loginAt, loginPath, active, unfinished, effective>>

CloseStep == CloseMark \/ CloseMasters

----------------------------------------------------------------------------
(* ssh: it becomes the master only of a socket nobody answers on, and may  *)
(* end at any time.                                                        *)
Authenticate(a) ==
    /\ process[a] = "prompt"
    /\ LET free == socket[loginPath[a]] = NoLogin
       IN  /\ process' = [process EXCEPT ![a] = IF free THEN "master" ELSE "extra"]
           /\ socket' = IF free THEN [socket EXCEPT ![loginPath[a]] = a] ELSE socket
    /\ UNCHANGED <<loginAt, loginPath, lockFile, active, owned, unfinished, effective, managerAt>>

Exit(a) ==
    /\ process[a] \in Attached
    /\ killGroup(a)
    /\ UNCHANGED <<loginAt, loginPath, lockFile, active, owned, unfinished, effective, managerAt>>

ForeignMaster(p) ==
    /\ socket[p] \in {NoLogin, Foreign}
    /\ socket' = [socket EXCEPT ![p] = IF @ = NoLogin THEN Foreign ELSE NoLogin]
    /\ UNCHANGED <<loginAt, loginPath, process, lockFile, active, owned, unfinished, effective, managerAt>>

ForeignLock(p) ==
    /\ lockFile[p] \in {NoLogin, Foreign}
    /\ lockFile' = [lockFile EXCEPT ![p] = IF @ = NoLogin THEN Foreign ELSE NoLogin]
    /\ UNCHANGED <<loginAt, loginPath, process, socket, active, owned, unfinished, effective, managerAt>>

Reconfigure ==
    /\ effective' \in Paths \ {effective}
    /\ UNCHANGED <<loginAt, loginPath, process, socket, lockFile, active, owned, unfinished, managerAt>>

Environment ==
    \/ \E a \in Logins : Authenticate(a) \/ Exit(a)
    \/ \E p \in Paths : ForeignMaster(p) \/ ForeignLock(p)
    \/ Reconfigure

ControlNext == (\E a \in Logins : LoginStep(a)) \/ CloseCancel \/ CloseStep \/ Environment

(* Every blocking call of a login ends: commands and checks have timeouts, *)
(* writes have deadlines, waits watch the cancelled context.  A client may *)
(* stay at the prompt, and a lock may stay taken, until Close.             *)
ControlFairness ==
    /\ WF_controlVars(CloseStep)
    /\ \A a \in Logins : WF_controlVars(Cancelled /\ LoginStep(a))

ControlSpec == ControlInit /\ [][ControlNext]_controlVars /\ ControlFairness

----------------------------------------------------------------------------
(* The types of the state; the wait group never drops below zero, which    *)
(* would panic: no path of a login finishes it twice.                      *)
ControlTypeOK ==
    /\ loginAt \in [Logins -> LoginSteps]
    /\ loginPath \in [Logins -> Paths \cup {NoLogin}]
    /\ process \in [Logins -> {"none", "gone"} \cup Attached]
    /\ socket \in [Paths -> Logins \cup {Foreign, NoLogin}]
    /\ lockFile \in [Paths -> Logins \cup {Foreign, NoLogin}]
    /\ active \in [Paths -> Logins \cup {NoLogin}]
    /\ owned \in [Paths -> Logins \cup {NoLogin}]
    /\ unfinished \in Nat
    /\ effective \in Paths
    /\ managerAt \in {"open", "cancelled", "closing", "closed"}

(* Every live ssh process has somebody who will reap it: the login that    *)
(* started it, still admitted, or the manager that owns it.                *)
ProcessAttended ==
    \A a \in Logins : process[a] \in Attached =>
        loginAt[a] \in {"waiting", "claim"} \/ owned[loginPath[a]] = a

(* Two logins never run ssh on the same control socket, whatever the maps  *)
(* and the lock file said when each of them looked.                        *)
OneLoginPerSocket ==
    \A a, b \in Logins :
        process[a] \in Attached /\ process[b] \in Attached /\ loginPath[a] = loginPath[b] => a = b

(* When Close returns, no login runs, no process a login started is alive  *)
(* and no lock is held: a login that raced Close was turned away or reaped.*)
CloseReaps ==
    managerAt = "closed" =>
        /\ \A a \in Logins : process[a] \notin Attached /\ loginAt[a] \notin Admitted
        /\ \A p \in Paths : owned[p] = NoLogin /\ lockFile[p] \notin Logins

(* Close returns, however many logins wait for a lock or a client.         *)
CloseCompletes == managerAt = "cancelled" ~> managerAt = "closed"
============================================================================
