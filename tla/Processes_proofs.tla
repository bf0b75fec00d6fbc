-------------------------- MODULE Processes_proofs --------------------------
(***************************************************************************)
(* Proofs about the components whose goroutines wait for each other: the   *)
(* logins of ControlMasters and the server of ServiceRuntime, for any      *)
(* number of logins, paths, requests and hosts.                            *)
(***************************************************************************)
EXTENDS MCProcesses, FiniteSetTheorems, SequenceTheorems, TLAPS

-----------------------------------------------------------------------------
(* Logins.  The wait group counts the admitted logins; an admitted login   *)
(* is the active one of its path; whoever runs ssh holds the lock file.    *)
AdmittedLogins == {a \in Logins : loginAt[a] \in Admitted}

Holding == {"command", "start", "waiting", "claim"}

LoginInv(a) ==
    /\ loginAt[a] \in Admitted \cup {"resolved"} => loginPath[a] \in Paths
    /\ loginAt[a] \in Admitted => active[loginPath[a]] = a
    /\ loginAt[a] \in Holding => lockFile[loginPath[a]] = a
    /\ process[a] \in Attached =>
         \/ loginAt[a] \in {"waiting", "claim"}
         \/ loginAt[a] = "done" /\ loginPath[a] \in Paths /\ owned[loginPath[a]] = a

PathInv(p) ==
    /\ owned[p] \in Logins =>
         loginAt[owned[p]] = "done" /\ loginPath[owned[p]] = p /\ lockFile[p] = owned[p]
    /\ lockFile[p] \in Logins =>
         /\ loginPath[lockFile[p]] = p
         /\ loginAt[lockFile[p]] \in Holding \cup {"ready"} \/ owned[p] = lockFile[p]

LockInv == (\A a \in Logins : LoginInv(a)) /\ (\A p \in Paths : PathInv(p))

CountInv == IsFiniteSet(AdmittedLogins) /\ unfinished = Cardinality(AdmittedLogins)

ClosedInv ==
    managerAt = "closed" =>
        /\ \A a \in Logins : loginAt[a] \notin Admitted
        /\ \A p \in Paths : owned[p] = NoLogin

ControlInv == ControlTypeOK /\ CountInv /\ LockInv /\ ClosedInv

-----------------------------------------------------------------------------
(* Types.                                                                  *)

LEMMA WithoutType ==
  ASSUME NEW S, NEW f \in [Paths -> S], NoLogin \in S, NEW p, NEW a
  PROVE  /\ Without(f, p, a) \in [Paths -> S]
         /\ \A q \in Paths : Without(f, p, a)[q] = IF q = p /\ f[q] = a THEN NoLogin ELSE f[q]
BY Zenon DEF Without

LEMMA KillType ==
  ASSUME ControlTypeOK, NEW a \in Logins, killGroup(a)
  PROVE  /\ process' \in [Logins -> {"none", "gone"} \cup Attached]
         /\ socket' \in [Paths -> Logins \cup {Foreign, NoLogin}]
         /\ process'[a] \notin Attached /\ \A b \in Logins \ {a} : process'[b] = process[b]
<1>1. process' \in [Logins -> {"none", "gone"} \cup Attached]
  BY Zenon DEF killGroup, ControlTypeOK
<1>2. socket' \in [Paths -> Logins \cup {Foreign, NoLogin}]
  BY Zenon, WithoutType DEF killGroup, ControlTypeOK
<1>3. process'[a] \notin Attached /\ \A b \in Logins \ {a} : process'[b] = process[b]
  BY Zenon DEF killGroup, ControlTypeOK, Attached
<1>4. QED
  BY Zenon, <1>1, <1>2, <1>3

LEMMA AtType ==
  ASSUME ControlTypeOK, NEW a \in Logins, NEW s \in LoginSteps, At(a, s)
  PROVE  /\ loginAt' \in [Logins -> LoginSteps] /\ loginAt'[a] = s
         /\ \A b \in Logins \ {a} : loginAt'[b] = loginAt[b]
BY Zenon DEF At, ControlTypeOK

(* The wait group.                                                         *)
LEMMA SameCount ==
  ASSUME ControlTypeOK, CountInv, UNCHANGED unfinished,
         \A a \in Logins : loginAt'[a] \in Admitted <=> loginAt[a] \in Admitted
  PROVE  CountInv'
<1>1. AdmittedLogins' = AdmittedLogins
  BY Zenon DEF AdmittedLogins
<1>2. QED
  BY Zenon, <1>1 DEF CountInv

LEMMA AddOne ==
  ASSUME NEW S, NEW x, IsFiniteSet(S), x \notin S
  PROVE  /\ IsFiniteSet(S \cup {x}) /\ Cardinality(S) \in Nat
         /\ Cardinality(S \cup {x}) = Cardinality(S) + 1
BY FS_AddElement, FS_CardinalityType

LEMMA TakeOne ==
  ASSUME NEW S, NEW x, IsFiniteSet(S), x \in S
  PROVE  /\ IsFiniteSet(S \ {x}) /\ Cardinality(S \ {x}) \in Nat
         /\ Cardinality(S \ {x}) = Cardinality(S) - 1
BY FS_RemoveElement, FS_CardinalityType

LEMMA AdmitCount ==
  ASSUME CountInv, unfinished' = unfinished + 1, NEW a \in Logins,
         loginAt[a] \notin Admitted, loginAt'[a] \in Admitted,
         \A b \in Logins \ {a} : loginAt'[b] = loginAt[b]
  PROVE  CountInv'
<1>1. AdmittedLogins' = AdmittedLogins \cup {a} /\ a \notin AdmittedLogins
  BY SMTT(20) DEF AdmittedLogins
<1>2. QED
  BY Zenon, <1>1, AddOne DEF CountInv

LEMMA FinishCount ==
  ASSUME CountInv, unfinished' = unfinished - 1, NEW a \in Logins,
         loginAt[a] \in Admitted, loginAt'[a] \notin Admitted,
         \A b \in Logins \ {a} : loginAt'[b] = loginAt[b]
  PROVE  CountInv' /\ unfinished' \in Nat
<1>1. AdmittedLogins' = AdmittedLogins \ {a} /\ a \in AdmittedLogins
  BY SMTT(20) DEF AdmittedLogins
<1>2. QED
  BY Zenon, <1>1, TakeOne DEF CountInv

-----------------------------------------------------------------------------
(* The steps of a login up to the lock.                                    *)

LEMMA AdmissionStep ==
  ASSUME ControlInv, NEW a \in Logins,
         CheckAlias(a) \/ resolvedControlPath(a) \/ admit(a) \/ Upgrade(a)
  PROVE  ControlInv'
<1>0. ControlTypeOK /\ LoginInv(a) /\ LockInv /\ CountInv /\ ClosedInv
  BY Zenon DEF ControlInv, LockInv
<1>1. ControlTypeOK'
  <2>1. CASE CheckAlias(a) \/ Upgrade(a)
    BY Zenon, <1>0, <2>1 DEF CheckAlias, Upgrade, At, ControlTypeOK, LoginSteps
  <2>2. CASE resolvedControlPath(a)
    BY ZenonT(40), <1>0, <2>2 DEF resolvedControlPath, At, ControlTypeOK, LoginSteps
  <2>3. CASE admit(a)
    <3>1. unfinished' \in Nat
      BY <1>0, <2>3 DEF admit, ControlTypeOK
    <3>2. loginAt' \in [Logins -> LoginSteps] /\ active' \in [Paths -> Logins \cup {NoLogin}]
      BY ZenonT(40), <1>0, <2>3 DEF admit, At, ControlTypeOK, LoginSteps
    <3>3. QED
      BY Zenon, <1>0, <2>3, <3>1, <3>2 DEF admit, ControlTypeOK
  <2>4. QED
    BY Zenon, <2>1, <2>2, <2>3
<1>2. /\ loginAt[a] \in {"new", "resolving", "resolved", "admitted"}
      /\ loginAt'[a] \in {"resolving", "resolved", "admitted", "reclaim", "refused"}
      /\ \A b \in Logins \ {a} : loginAt'[b] = loginAt[b] /\ loginPath'[b] = loginPath[b]
      /\ UNCHANGED <<process, lockFile, owned, managerAt>>
  BY Zenon, <1>0 DEF CheckAlias, resolvedControlPath, admit, Upgrade, At, ControlTypeOK
<1>3. /\ loginAt'[a] \in {"resolved", "admitted", "reclaim"} => loginPath'[a] \in Paths
      /\ loginAt'[a] \in {"admitted", "reclaim"} => active'[loginPath'[a]] = a
  <2>1. CASE CheckAlias(a) \/ Upgrade(a)
    BY Zenon, <1>0, <2>1 DEF CheckAlias, Upgrade, At, ControlTypeOK, LoginInv, Admitted
  <2>2. CASE resolvedControlPath(a)
    BY Zenon, <1>0, <2>2 DEF resolvedControlPath, At, ControlTypeOK
  <2>3. CASE admit(a)
    BY Zenon, <1>0, <2>3 DEF admit, At, ControlTypeOK, LoginInv, Admitted
  <2>4. QED
    BY Zenon, <2>1, <2>2, <2>3
<1>4. \A p \in Paths : active[p] \in Logins => active'[p] = active[p]
  BY Zenon, <1>0, ControlAssumption DEF CheckAlias, resolvedControlPath, admit, Upgrade, ControlTypeOK
<1>5. ASSUME NEW b \in Logins
      PROVE  LoginInv(b)'
  <2>1. LoginInv(b)
    BY Zenon, <1>0 DEF LockInv
  <2>2. CASE b = a
    BY Zenon, <1>2, <1>3, <2>1, <2>2 DEF LoginInv, Admitted, Holding
  <2>3. CASE b # a
    BY Zenon, <1>2, <1>4, <2>1, <2>3 DEF LoginInv
  <2>4. QED
    BY Zenon, <2>2, <2>3
<1>6. ASSUME NEW p \in Paths
      PROVE  PathInv(p)'
  <2>1. PathInv(p)
    BY Zenon, <1>0 DEF LockInv
  <2>2. owned[p] # a /\ lockFile[p] # a
    BY Zenon, <1>2, <2>1 DEF PathInv, Holding
  <2>3. QED
    BY Zenon, <1>2, <2>1, <2>2 DEF PathInv
<1>7. CountInv'
  <2>1. CASE CheckAlias(a) \/ resolvedControlPath(a) \/ Upgrade(a)
    <3>1. UNCHANGED unfinished /\ (loginAt'[a] \in Admitted <=> loginAt[a] \in Admitted)
      BY Zenon, <1>0, <2>1 DEF CheckAlias, resolvedControlPath, Upgrade, At, ControlTypeOK, Admitted
    <3>2. QED
      BY Zenon, <1>0, <1>2, <3>1, SameCount
  <2>2. CASE admit(a)
    <3>1. CASE loginAt'[a] = "refused" /\ UNCHANGED unfinished
      BY Zenon, <1>0, <1>2, <2>2, <3>1, SameCount DEF admit, Admitted
    <3>2. CASE loginAt'[a] = "admitted" /\ unfinished' = unfinished + 1
      BY Zenon, <1>0, <1>2, <2>2, <3>2, AdmitCount DEF admit, Admitted
    <3>3. QED
      BY Zenon, <1>0, <2>2, <3>1, <3>2 DEF admit, At, ControlTypeOK
  <2>3. QED
    BY Zenon, <2>1, <2>2
<1>8. ClosedInv'
  <2>1. managerAt = "closed" => loginAt'[a] \notin Admitted
    BY Zenon, <1>0 DEF CheckAlias, resolvedControlPath, admit, Upgrade, At, ControlTypeOK,
       Admitted, Closed, ClosedInv
  <2>2. QED
    BY Zenon, <1>0, <1>2, <2>1 DEF ClosedInv
<1>9. QED
  BY Zenon, <1>1, <1>5, <1>6, <1>7, <1>8 DEF ControlInv, LockInv

-----------------------------------------------------------------------------
(* The steps of an admitted login.                                         *)

(* What such a step leaves to the other logins.                            *)
Apart(a) ==
    /\ UNCHANGED loginPath
    /\ \A b \in Logins \ {a} : loginAt'[b] = loginAt[b]
    /\ \A b \in Logins \ {a} : process'[b] \in Attached => process[b] \in Attached
    /\ \A p \in Paths : active[p] \in Logins \ {a} => active'[p] = active[p]
    /\ \A p \in Paths : lockFile[p] \in Logins \ {a} =>
          lockFile'[p] = lockFile[p] \/ owned[p] = lockFile[p]
    /\ \A p \in Paths : owned[p] \in Logins \ {a} =>
          owned'[p] = owned[p] \/ process'[owned[p]] \notin Attached

LEMMA HoldsNothing ==
  ASSUME ControlInv, NEW a \in Logins, loginAt[a] \notin Holding \cup {"ready", "done"}
  PROVE  \A p \in Paths : lockFile[p] # a /\ owned[p] # a
<1> SUFFICES ASSUME NEW p \in Paths PROVE lockFile[p] # a /\ owned[p] # a
  OBVIOUS
<1>1. PathInv(p)
  BY Zenon DEF ControlInv, LockInv
<1>2. owned[p] # a
  BY Zenon, <1>1 DEF PathInv
<1>3. QED
  BY Zenon, <1>1, <1>2 DEF PathInv

LEMMA OthersKept ==
  ASSUME ControlInv, NEW a \in Logins, Apart(a), NEW b \in Logins \ {a}
  PROVE  LoginInv(b)'
<1>1. /\ LoginInv(b) /\ \A p \in Paths : PathInv(p)
      /\ loginAt'[b] = loginAt[b] /\ loginPath'[b] = loginPath[b]
  BY Zenon DEF ControlInv, LockInv, Apart
<1>2. loginAt[b] \in Admitted => active'[loginPath[b]] = b
  BY Zenon, <1>1 DEF LoginInv, Apart
<1>3. loginAt[b] \in Holding => lockFile'[loginPath[b]] = b
  <2> SUFFICES ASSUME loginAt[b] \in Holding PROVE lockFile'[loginPath[b]] = b
    OBVIOUS
  <2>1. PICK p \in Paths : p = loginPath[b]
    BY Zenon, <1>1 DEF LoginInv, Holding, Admitted
  <2>2. lockFile[p] = b /\ loginAt[b] # "done"
    BY Zenon, <1>1, <2>1 DEF LoginInv, Holding
  <2>3. owned[p] # b
    BY Zenon, <1>1, <2>2 DEF PathInv
  <2>4. QED
    BY Zenon, <2>1, <2>2, <2>3 DEF Apart
<1>4. process'[b] \in Attached =>
        \/ loginAt[b] \in {"waiting", "claim"}
        \/ loginAt[b] = "done" /\ loginPath[b] \in Paths /\ owned'[loginPath[b]] = b
  BY Zenon, <1>1 DEF LoginInv, Apart
<1>5. QED
  BY Zenon, <1>1, <1>2, <1>3, <1>4 DEF LoginInv

(* Nobody new holds the lock or owns a master.                             *)
LEMMA PathKept ==
  ASSUME ControlInv, NEW a \in Logins, loginAt[a] # "done", Apart(a), NEW p \in Paths,
         lockFile'[p] \in {lockFile[p], NoLogin}, owned'[p] \in {owned[p], NoLogin},
         owned'[p] \in Logins => lockFile'[p] = lockFile[p],
         lockFile'[p] \in Logins /\ owned[p] = lockFile[p] => owned'[p] = owned[p],
         lockFile'[p] = a => loginAt'[a] \in Holding \cup {"ready"}
  PROVE  PathInv(p)'
<1>1. PathInv(p) /\ UNCHANGED loginPath /\ \A b \in Logins \ {a} : loginAt'[b] = loginAt[b]
  BY Zenon DEF ControlInv, LockInv, Apart
<1>2. owned[p] # a
  BY Zenon, <1>1 DEF PathInv
<1>3. owned'[p] \in Logins =>
        loginAt'[owned'[p]] = "done" /\ loginPath'[owned'[p]] = p /\ lockFile'[p] = owned'[p]
  BY Zenon, <1>1, <1>2, ControlAssumption DEF PathInv
<1>4. lockFile'[p] \in Logins =>
        /\ loginPath'[lockFile'[p]] = p
        /\ loginAt'[lockFile'[p]] \in Holding \cup {"ready"} \/ owned'[p] = lockFile'[p]
  BY Zenon, <1>1, <1>2, ControlAssumption DEF PathInv
<1>5. QED
  BY Zenon, <1>3, <1>4 DEF PathInv

(* The step of an admitted login that stays admitted or finishes.          *)
LEMMA StillAdmitted ==
  ASSUME ControlInv, NEW a \in Logins, loginAt[a] \in Admitted, Apart(a),
         loginAt'[a] \in Admitted, UNCHANGED <<unfinished, managerAt>>
  PROVE  CountInv' /\ ClosedInv'
<1>1. \A b \in Logins : loginAt'[b] \in Admitted <=> loginAt[b] \in Admitted
  BY Zenon DEF Apart
<1>2. CountInv'
  BY Zenon, <1>1, SameCount DEF ControlInv
<1>3. ClosedInv'
  BY Zenon DEF ClosedInv, ControlInv
<1>4. QED
  BY Zenon, <1>2, <1>3

LEMMA Finished ==
  ASSUME ControlInv, NEW a \in Logins, loginAt[a] \in Admitted, Apart(a),
         loginAt'[a] \in LoginSteps \ Admitted, finish(a), UNCHANGED managerAt
  PROVE  /\ CountInv' /\ ClosedInv' /\ unfinished' \in Nat
         /\ active' \in [Paths -> Logins \cup {NoLogin}]
<1>1. CountInv' /\ unfinished' \in Nat
  BY Zenon, FinishCount DEF ControlInv, Apart, finish
<1>2. ClosedInv'
  BY Zenon DEF ClosedInv, ControlInv
<1>3. active' \in [Paths -> Logins \cup {NoLogin}]
  BY Zenon, WithoutType DEF finish, ControlInv, ControlTypeOK
<1>4. QED
  BY Zenon, <1>1, <1>2, <1>3

LEMMA ReclaimStep ==
  ASSUME ControlInv, NEW a \in Logins, reclaimExpiredOwned(a)
  PROVE  ControlInv'
<1>0. /\ ControlTypeOK /\ LoginInv(a) /\ loginAt[a] = "reclaim"
      /\ UNCHANGED <<loginPath, active, unfinished, effective, managerAt>>
  BY Zenon DEF ControlInv, LockInv, reclaimExpiredOwned
<1>1. PICK p \in Paths : p = loginPath[a] /\ PathInv(p)
  BY Zenon, <1>0 DEF LoginInv, Admitted, ControlInv, LockInv
<1>2. /\ loginAt' \in [Logins -> LoginSteps] /\ loginAt'[a] \in {"lock", "ready"}
      /\ \A b \in Logins \ {a} : loginAt'[b] = loginAt[b]
  BY Zenon, <1>0, AtType DEF reclaimExpiredOwned, LoginSteps
<1>3. CASE UNCHANGED <<process, socket, lockFile, owned>>
  <2>1. ControlTypeOK'
    BY Zenon, <1>0, <1>2, <1>3 DEF ControlTypeOK
  <2>2. Apart(a)
    BY Zenon, <1>0, <1>2, <1>3 DEF Apart
  <2>3. LoginInv(a)'
    BY Zenon, <1>0, <1>2, <1>3 DEF LoginInv, Admitted, Holding
  <2>4. \A q \in Paths : lockFile[q] # a
    BY Zenon, <1>0, HoldsNothing DEF Holding
  <2>5. \A q \in Paths : PathInv(q)'
    BY Zenon, <1>0, <1>3, <2>2, <2>4, PathKept
  <2>6. QED
    BY ZenonT(40), <1>0, <1>2, <2>1, <2>2, <2>3, <2>5, OthersKept, StillAdmitted
       DEF ControlInv, LockInv, Admitted
<1>4. CASE ~UNCHANGED <<process, socket, lockFile, owned>>
  <2>1. PICK o \in Logins :
          /\ o = owned[p] /\ killGroup(o) /\ lockFile' = Without(lockFile, p, o)
          /\ owned' = [owned EXCEPT ![p] = NoLogin]
    BY Zenon, <1>0, <1>1, <1>4 DEF reclaimExpiredOwned, ControlTypeOK
  <2>2. o # a /\ lockFile[p] = o
    BY Zenon, <1>0, <1>1, <2>1 DEF PathInv
  <2>3. /\ lockFile' \in [Paths -> Logins \cup {Foreign, NoLogin}] /\ lockFile'[p] = NoLogin
        /\ \A q \in Paths \ {p} : lockFile'[q] = lockFile[q]
    BY Zenon, <1>0, <1>1, <2>1, <2>2 DEF ControlTypeOK, Without
  <2>4. /\ owned' \in [Paths -> Logins \cup {NoLogin}] /\ owned'[p] = NoLogin
        /\ \A q \in Paths \ {p} : owned'[q] = owned[q]
    BY Zenon, <1>0, <1>1, <2>1 DEF ControlTypeOK
  <2>5. ControlTypeOK'
    BY Zenon, <1>0, <1>2, <2>1, <2>3, <2>4, KillType DEF ControlTypeOK
  <2>6. process'[o] \notin Attached /\ \A b \in Logins \ {o} : process'[b] = process[b]
    BY Zenon, <1>0, <2>1, KillType
  <2>7. Apart(a)
    BY Zenon, <1>0, <1>2, <2>1, <2>2, <2>3, <2>4, <2>6 DEF Apart
  <2>8. LoginInv(a)'
    BY Zenon, <1>0, <1>2, <2>2, <2>6 DEF LoginInv, Admitted, Holding
  <2>9. \A q \in Paths : lockFile[q] # a
    BY Zenon, <1>0, HoldsNothing DEF Holding
  <2>10. ASSUME NEW q \in Paths PROVE PathInv(q)'
    BY ZenonT(40), <1>0, <2>3, <2>4, <2>7, <2>9, PathKept, ControlAssumption
  <2>11. QED
    BY ZenonT(40), <1>0, <1>2, <2>5, <2>7, <2>8, <2>10, OthersKept, StillAdmitted
       DEF ControlInv, LockInv, Admitted
<1>5. QED
  BY Zenon, <1>3, <1>4

(* The lock file is free: no master of the path is owned.                  *)
LEMMA LockStep ==
  ASSUME ControlInv, NEW a \in Logins, acquireControlLock(a)
  PROVE  ControlInv'
<1>0. /\ ControlTypeOK /\ LoginInv(a) /\ loginAt[a] = "lock"
      /\ UNCHANGED <<loginPath, process, socket, active, owned, unfinished, effective, managerAt>>
  BY Zenon DEF ControlInv, LockInv, acquireControlLock
<1>1. PICK p \in Paths : p = loginPath[a] /\ PathInv(p)
  BY Zenon, <1>0 DEF LoginInv, Admitted, ControlInv, LockInv
<1>2. /\ loginAt' \in [Logins -> LoginSteps] /\ loginAt'[a] \in {"command", "ready"}
      /\ \A b \in Logins \ {a} : loginAt'[b] = loginAt[b]
      /\ loginAt'[a] = "command" => lockFile[p] = NoLogin /\ lockFile' = [lockFile EXCEPT ![p] = a]
  <2>1. \E s \in {"command", "ready"} :
          At(a, s) /\ (s = "command" => lockFile[p] = NoLogin /\ lockFile' = [lockFile EXCEPT ![p] = a])
    BY Zenon, <1>1 DEF acquireControlLock
  <2>2. QED
    BY Zenon, <1>0, <2>1, AtType DEF LoginSteps
<1>3. \A q \in Paths : lockFile[q] # a /\ owned[q] # a
  BY Zenon, <1>0, HoldsNothing DEF Holding
<1>4. \/ UNCHANGED lockFile
      \/ lockFile[p] = NoLogin /\ lockFile' = [lockFile EXCEPT ![p] = a]
  BY Zenon, <1>1 DEF acquireControlLock
<1>5. CASE UNCHANGED lockFile
  <2>1. Apart(a)
    BY Zenon, <1>0, <1>2, <1>5 DEF Apart
  <2>2. lockFile[p] # NoLogin => loginAt'[a] = "ready"
    BY Zenon, <1>2
  <2>3. loginAt'[a] = "ready"
    BY ZenonT(40), <1>0, <1>1, <1>2, <1>3, <1>5, <2>2, ControlAssumption DEF ControlTypeOK
  <2>4. LoginInv(a)'
    BY Zenon, <1>0, <1>5, <2>3 DEF LoginInv, Admitted, Holding
  <2>5. \A q \in Paths : PathInv(q)'
    BY Zenon, <1>0, <1>3, <1>5, <2>1, PathKept
  <2>6. ControlTypeOK'
    BY Zenon, <1>0, <1>2, <1>5 DEF ControlTypeOK
  <2>7. QED
    BY ZenonT(40), <1>0, <1>2, <2>1, <2>4, <2>5, <2>6, OthersKept, StillAdmitted
       DEF ControlInv, LockInv, Admitted
<1>6. CASE lockFile[p] = NoLogin /\ lockFile' = [lockFile EXCEPT ![p] = a]
  <2>1. /\ lockFile' \in [Paths -> Logins \cup {Foreign, NoLogin}] /\ lockFile'[p] = a
        /\ \A q \in Paths \ {p} : lockFile'[q] = lockFile[q]
    BY Zenon, <1>0, <1>6 DEF ControlTypeOK
  <2>2. Apart(a)
    BY Zenon, <1>0, <1>2, <1>6, <2>1, ControlAssumption DEF Apart
  <2>3. LoginInv(a)'
    BY Zenon, <1>0, <1>1, <1>2, <2>1 DEF LoginInv, Admitted, Holding
  <2>4. owned[p] \notin Logins
    BY Zenon, <1>1, <1>6, ControlAssumption DEF PathInv
  <2>5. PathInv(p)'
    BY Zenon, <1>0, <1>1, <1>2, <2>1, <2>4 DEF PathInv, Holding
  <2>6. ASSUME NEW q \in Paths, q # p PROVE PathInv(q)'
    BY Zenon, <1>0, <1>3, <2>1, <2>2, <2>6, PathKept
  <2>7. ControlTypeOK'
    BY Zenon, <1>0, <1>2, <2>1 DEF ControlTypeOK
  <2>8. QED
    BY ZenonT(40), <1>0, <1>2, <2>2, <2>3, <2>5, <2>6, <2>7, OthersKept, StillAdmitted
       DEF ControlInv, LockInv, Admitted
<1>7. QED
  BY Zenon, <1>4, <1>5, <1>6

(* From the lock to a healthy master.                                      *)
LEMMA MasterStep ==
  ASSUME ControlInv, NEW a \in Logins, interactiveCommand(a) \/ StartMaster(a) \/ SeeHealthy(a)
  PROVE  ControlInv'
<1>0. /\ ControlTypeOK /\ LoginInv(a)
      /\ UNCHANGED <<loginPath, lockFile, active, owned, unfinished, effective, managerAt>>
  BY Zenon DEF ControlInv, LockInv, interactiveCommand, StartMaster, SeeHealthy
<1>1. /\ loginAt[a] \in {"command", "start", "waiting"}
      /\ loginAt' \in [Logins -> LoginSteps] /\ loginAt'[a] \in {"start", "waiting", "claim"}
      /\ loginAt[a] \in {"start", "waiting"} => loginAt'[a] \in {"waiting", "claim"}
      /\ loginAt[a] = "command" => UNCHANGED process
      /\ \A b \in Logins \ {a} : loginAt'[b] = loginAt[b]
  <2>1. CASE interactiveCommand(a)
    BY Zenon, <1>0, <2>1, AtType DEF interactiveCommand, LoginSteps
  <2>2. CASE StartMaster(a)
    BY Zenon, <1>0, <2>2, AtType DEF StartMaster, LoginSteps
  <2>3. CASE SeeHealthy(a)
    BY Zenon, <1>0, <2>3, AtType DEF SeeHealthy, LoginSteps
  <2>4. QED
    BY Zenon, <2>1, <2>2, <2>3
<1>2. /\ process' \in [Logins -> {"none", "gone"} \cup Attached]
      /\ socket' \in [Paths -> Logins \cup {Foreign, NoLogin}]
      /\ \A b \in Logins \ {a} : process'[b] = process[b]
  BY Zenon, <1>0 DEF interactiveCommand, StartMaster, SeeHealthy, ControlTypeOK, Attached
<1>3. Apart(a)
  BY Zenon, <1>0, <1>1, <1>2 DEF Apart
<1>4. LoginInv(a)'
  <2>1. loginAt[a] \in Holding \cap Admitted /\ loginAt'[a] \in Holding \cap Admitted
    BY Zenon, <1>1 DEF Holding, Admitted
  <2>2. process'[a] \in Attached => loginAt'[a] \in {"waiting", "claim"}
    BY Zenon, <1>0, <1>1 DEF LoginInv
  <2>3. QED
    BY Zenon, <1>0, <2>1, <2>2 DEF LoginInv
<1>5. loginAt[a] # "done" /\ loginAt'[a] \in Holding \cup {"ready"}
  BY Zenon, <1>1 DEF Holding
<1>6. \A q \in Paths : PathInv(q)'
  BY Zenon, <1>0, <1>3, <1>5, PathKept
<1>7. ControlTypeOK'
  BY Zenon, <1>0, <1>1, <1>2 DEF ControlTypeOK
<1>8. loginAt[a] \in Admitted /\ loginAt'[a] \in Admitted
  BY Zenon, <1>1 DEF Admitted
<1>9. QED
  BY ZenonT(40), <1>0, <1>3, <1>4, <1>6, <1>7, <1>8, OthersKept, StillAdmitted DEF ControlInv, LockInv

LEMMA FinishApart ==
  ASSUME ControlTypeOK, NEW a \in Logins, finish(a)
  PROVE  \A p \in Paths : active[p] \in Logins \ {a} => active'[p] = active[p]
BY ZenonT(40), WithoutType DEF finish, ControlTypeOK, Without

(* The process and its lock pass to the manager.                           *)
LEMMA OwnStep ==
  ASSUME ControlInv, NEW a \in Logins, Own(a)
  PROVE  ControlInv'
<1>0. /\ ControlTypeOK /\ LoginInv(a) /\ loginAt[a] = "claim" /\ finish(a)
      /\ UNCHANGED <<loginPath, process, socket, lockFile, effective, managerAt>>
  BY Zenon DEF ControlInv, LockInv, Own
<1>1. PICK p \in Paths : /\ p = loginPath[a] /\ PathInv(p) /\ lockFile[p] = a
                         /\ owned' = [owned EXCEPT ![p] = a]
  BY Zenon, <1>0 DEF LoginInv, Admitted, Holding, ControlInv, LockInv, Own
<1>2. /\ loginAt' \in [Logins -> LoginSteps] /\ loginAt'[a] = "done"
      /\ \A b \in Logins \ {a} : loginAt'[b] = loginAt[b]
  BY Zenon, <1>0, AtType DEF Own, LoginSteps
<1>3. /\ owned' \in [Paths -> Logins \cup {NoLogin}] /\ owned'[p] = a
      /\ \A q \in Paths \ {p} : owned'[q] = owned[q]
  BY Zenon, <1>0, <1>1 DEF ControlTypeOK
<1>4. owned[p] \notin Logins
  BY Zenon, <1>0, <1>1 DEF PathInv
<1>5. Apart(a)
  BY Zenon, <1>0, <1>2, <1>3, <1>4, FinishApart DEF Apart
<1>6. LoginInv(a)'
  BY Zenon, <1>0, <1>1, <1>2, <1>3 DEF LoginInv, Admitted, Holding
<1>7. PathInv(p)'
  BY Zenon, <1>0, <1>1, <1>2, <1>3 DEF PathInv
<1>8. ASSUME NEW q \in Paths, q # p PROVE PathInv(q)'
  <2>1. PathInv(q)
    BY Zenon DEF ControlInv, LockInv
  <2>2. owned[q] # a /\ lockFile[q] # a
    BY Zenon, <1>0, <1>1, <1>8, <2>1 DEF PathInv
  <2>3. QED
    BY Zenon, <1>0, <1>3, <1>5, <1>8, <2>2, PathKept
<1>9. loginAt[a] \in Admitted /\ loginAt'[a] \in LoginSteps \ Admitted
  BY Zenon, <1>0, <1>2 DEF Admitted, LoginSteps
<1>10. /\ CountInv' /\ ClosedInv' /\ unfinished' \in Nat
       /\ active' \in [Paths -> Logins \cup {NoLogin}]
  <2>1. managerAt # "closed"
    BY Zenon DEF Own, Closed
  <2>2. QED
    BY Zenon, <1>0, <1>5, <1>9, <2>1, Finished
<1>11. ControlTypeOK'
  BY Zenon, <1>0, <1>2, <1>3, <1>10 DEF ControlTypeOK
<1>12. QED
  BY Zenon, <1>5, <1>6, <1>7, <1>8, <1>10, <1>11, OthersKept DEF ControlInv, LockInv

(* A login that found a healthy master gives the lock back; one that fails *)
(* takes its process with it.                                              *)
LEMMA EndStep ==
  ASSUME ControlInv, NEW a \in Logins, AlreadyReady(a) \/ Fail(a) \/ OwnRefused(a)
  PROVE  ControlInv'
<1>0. /\ ControlTypeOK /\ LoginInv(a) /\ finish(a)
      /\ lockFile' = Without(lockFile, loginPath[a], a)
      /\ UNCHANGED <<loginPath, owned, effective, managerAt>>
  BY Zenon DEF ControlInv, LockInv, AlreadyReady, Fail, OwnRefused, cleanupFailedAttempt
<1>1. /\ loginAt[a] \in Admitted /\ loginAt[a] # "done"
      /\ loginAt' \in [Logins -> LoginSteps] /\ loginAt'[a] \in {"done", "failed"}
      /\ \A b \in Logins \ {a} : loginAt'[b] = loginAt[b]
  <2>1. CASE AlreadyReady(a)
    BY Zenon, <1>0, <2>1, AtType DEF AlreadyReady, LoginSteps, Admitted
  <2>2. CASE Fail(a) \/ OwnRefused(a)
    BY Zenon, <1>0, <2>2, AtType DEF Fail, OwnRefused, cleanupFailedAttempt, LoginSteps, Admitted
  <2>3. QED
    BY Zenon, <2>1, <2>2
<1>2. PICK p \in Paths : p = loginPath[a]
  BY Zenon, <1>0, <1>1 DEF LoginInv
<1>3. /\ process' \in [Logins -> {"none", "gone"} \cup Attached]
      /\ socket' \in [Paths -> Logins \cup {Foreign, NoLogin}]
      /\ process'[a] \notin Attached /\ \A b \in Logins \ {a} : process'[b] = process[b]
  <2>1. CASE AlreadyReady(a)
    BY Zenon, <1>0, <2>1 DEF AlreadyReady, LoginInv, ControlTypeOK
  <2>2. CASE Fail(a) \/ OwnRefused(a)
    BY Zenon, <1>0, <2>2, KillType DEF Fail, OwnRefused, cleanupFailedAttempt
  <2>3. QED
    BY Zenon, <2>1, <2>2
<1>4. /\ lockFile' \in [Paths -> Logins \cup {Foreign, NoLogin}] /\ lockFile'[p] # a
      /\ lockFile[p] # a => lockFile'[p] = lockFile[p]
      /\ lockFile'[p] \in {lockFile[p], NoLogin}
      /\ \A q \in Paths \ {p} : lockFile'[q] = lockFile[q]
  BY Zenon, <1>0, <1>2, ControlAssumption DEF ControlTypeOK, Without
<1>5. \A q \in Paths : owned[q] # a /\ lockFile'[q] # a
  <2> SUFFICES ASSUME NEW q \in Paths PROVE owned[q] # a /\ lockFile'[q] # a
    OBVIOUS
  <2>1. PathInv(q)
    BY Zenon DEF ControlInv, LockInv
  <2>2. QED
    BY Zenon, <1>1, <1>2, <1>4, <2>1 DEF PathInv
<1>6. Apart(a)
  BY Zenon, <1>0, <1>1, <1>3, <1>4, FinishApart DEF Apart
<1>7. LoginInv(a)'
  BY Zenon, <1>1, <1>3 DEF LoginInv, Admitted, Holding
<1>8. ASSUME NEW q \in Paths PROVE PathInv(q)'
  <2>1. lockFile'[q] \in {lockFile[q], NoLogin} /\ (lockFile[q] # a => lockFile'[q] = lockFile[q])
    BY Zenon, <1>4
  <2>2. owned[q] \in Logins => lockFile'[q] = lockFile[q]
    <3>1. PathInv(q)
      BY Zenon DEF ControlInv, LockInv
    <3>2. QED
      BY Zenon, <1>5, <2>1, <3>1 DEF PathInv
  <2>3. QED
    BY ZenonT(40), <1>0, <1>1, <1>5, <1>6, <2>1, <2>2, PathKept
<1>9. loginAt'[a] \in LoginSteps \ Admitted
  BY Zenon, <1>1 DEF Admitted, LoginSteps
<1>10. /\ CountInv' /\ ClosedInv' /\ unfinished' \in Nat
       /\ active' \in [Paths -> Logins \cup {NoLogin}]
  BY Zenon, <1>0, <1>1, <1>6, <1>9, Finished
<1>11. ControlTypeOK'
  BY Zenon, <1>0, <1>1, <1>3, <1>4, <1>10 DEF ControlTypeOK
<1>12. QED
  BY Zenon, <1>6, <1>7, <1>8, <1>10, <1>11, OthersKept DEF ControlInv, LockInv

-----------------------------------------------------------------------------
(* Close, and the environment.                                             *)

(* No login is left when Close comes to the masters: what runs is owned.   *)
LEMMA CloseMastersStep ==
  ASSUME ControlInv, CloseMasters
  PROVE  ControlInv'
<1> DEFINE mine == {owned[p] : p \in Paths} \ {NoLogin}
<1>0. /\ ControlTypeOK /\ CountInv /\ LockInv /\ unfinished = 0
      /\ UNCHANGED <<loginAt, loginPath, active, unfinished, effective>>
      /\ process' = [a \in Logins |-> IF a \in mine THEN "gone" ELSE process[a]]
      /\ socket' = [p \in Paths |-> IF socket[p] \in mine THEN NoLogin ELSE socket[p]]
      /\ lockFile' = [p \in Paths |-> IF lockFile[p] \in mine THEN NoLogin ELSE lockFile[p]]
      /\ owned' = [p \in Paths |-> NoLogin]
  BY Zenon DEF ControlInv, CloseMasters, AllFinished
<1> HIDE DEF mine
<1>1. AdmittedLogins = {}
  BY Zenon, <1>0, FS_EmptySet DEF CountInv
<1>2. \A a \in Logins : loginAt[a] \notin Admitted
  BY Zenon, <1>1 DEF AdmittedLogins
<1>3. \A a \in Logins : loginAt[a] \notin {"waiting", "claim"} /\ loginAt[a] \notin Holding \cup {"ready"}
  BY Zenon, <1>2 DEF Admitted, Holding
<1>4. \A a \in Logins : process[a] \in Attached => a \in mine
  <2> SUFFICES ASSUME NEW a \in Logins, process[a] \in Attached PROVE a \in mine
    OBVIOUS
  <2>1. loginPath[a] \in Paths /\ owned[loginPath[a]] = a /\ a # NoLogin
    BY Zenon, <1>0, <1>3, ControlAssumption DEF LockInv, LoginInv
  <2>2. QED
    BY Zenon, <2>1 DEF mine
<1>5. \A p \in Paths : lockFile[p] \in Logins => lockFile[p] \in mine
  <2> SUFFICES ASSUME NEW p \in Paths, lockFile[p] \in Logins PROVE lockFile[p] \in mine
    OBVIOUS
  <2>1. owned[p] = lockFile[p] /\ lockFile[p] # NoLogin
    BY Zenon, <1>0, <1>3, ControlAssumption DEF LockInv, PathInv
  <2>2. QED
    BY Zenon, <2>1 DEF mine
<1>6. \A a \in Logins : process'[a] \notin Attached
  BY Zenon, <1>0, <1>4 DEF Attached
<1>7. \A p \in Paths : lockFile'[p] \notin Logins /\ owned'[p] = NoLogin
  BY Zenon, <1>0, <1>5, ControlAssumption
<1>8. \A a \in Logins : LoginInv(a)'
  BY Zenon, <1>0, <1>2, <1>3, <1>6 DEF LockInv, LoginInv
<1>9. \A p \in Paths : PathInv(p)'
  BY Zenon, <1>7, ControlAssumption DEF PathInv
<1>10. ControlTypeOK'
  <2>1. process' \in [Logins -> {"none", "gone"} \cup Attached]
    BY Zenon, <1>0 DEF ControlTypeOK
  <2>2. socket' \in [Paths -> Logins \cup {Foreign, NoLogin}]
    BY Zenon, <1>0 DEF ControlTypeOK
  <2>3. lockFile' \in [Paths -> Logins \cup {Foreign, NoLogin}]
    BY Zenon, <1>0 DEF ControlTypeOK
  <2>4. owned' \in [Paths -> Logins \cup {NoLogin}] /\ managerAt' = "closed"
    BY Zenon, <1>0 DEF CloseMasters
  <2>5. QED
    BY Zenon, <1>0, <2>1, <2>2, <2>3, <2>4 DEF ControlTypeOK
<1>11. CountInv'
  BY Zenon, <1>0, SameCount
<1>12. ClosedInv'
  BY Zenon, <1>0, <1>2, <1>7 DEF ClosedInv
<1>13. QED
  BY ZenonT(40), <1>8, <1>9, <1>10, <1>11, <1>12 DEF ControlInv, LockInv

(* Steps that change no login, no owner and no lock of a login.            *)
LEMMA EnvironmentStep ==
  ASSUME ControlInv, CloseCancel \/ CloseMark \/ Environment \/ UNCHANGED controlVars
  PROVE  ControlInv'
<1>0. ControlTypeOK /\ CountInv /\ LockInv /\ ClosedInv
  BY Zenon DEF ControlInv
<1>1. /\ UNCHANGED <<loginAt, loginPath, active, owned, unfinished>>
      /\ managerAt' # "closed" \/ managerAt = "closed"
  BY Zenon DEF CloseCancel, CloseMark, Environment, Authenticate, Exit, ForeignMaster, ForeignLock,
     Reconfigure, controlVars
<1>2. /\ lockFile' \in [Paths -> Logins \cup {Foreign, NoLogin}]
      /\ \A p \in Paths : lockFile[p] \in Logins \/ lockFile'[p] \in Logins => lockFile'[p] = lockFile[p]
  <2>1. UNCHANGED lockFile \/ \E p \in Paths : ForeignLock(p)
    BY Zenon DEF CloseCancel, CloseMark, Environment, Authenticate, Exit, ForeignMaster, Reconfigure, controlVars
  <2>2. CASE UNCHANGED lockFile
    BY Zenon, <1>0, <2>2 DEF ControlTypeOK
  <2>3. ASSUME NEW p \in Paths, ForeignLock(p)
        PROVE  /\ lockFile' \in [Paths -> Logins \cup {Foreign, NoLogin}]
               /\ \A q \in Paths : lockFile[q] \in Logins \/ lockFile'[q] \in Logins => lockFile'[q] = lockFile[q]
    <3>1. lockFile[p] \in {NoLogin, Foreign} /\ \E l \in {NoLogin, Foreign} : lockFile' = [lockFile EXCEPT ![p] = l]
      BY Zenon, <2>3 DEF ForeignLock
    <3>2. QED
      BY ZenonT(40), <1>0, <3>1, ControlAssumption DEF ControlTypeOK
  <2>4. QED
    BY ZenonT(40), <2>1, <2>2, <2>3
<1>3. /\ process' \in [Logins -> {"none", "gone"} \cup Attached]
      /\ socket' \in [Paths -> Logins \cup {Foreign, NoLogin}]
      /\ \A a \in Logins : process'[a] \in Attached => process[a] \in Attached
  <2>1. \/ UNCHANGED <<process, socket>>
        \/ UNCHANGED process /\ \E p \in Paths : ForeignMaster(p)
        \/ \E a \in Logins : Authenticate(a) \/ Exit(a)
    BY Zenon DEF CloseCancel, CloseMark, Environment, ForeignLock, ForeignMaster, Reconfigure, controlVars
  <2>2. CASE UNCHANGED <<process, socket>>
    BY Zenon, <1>0, <2>2 DEF ControlTypeOK
  <2>3. ASSUME NEW p \in Paths, ForeignMaster(p), UNCHANGED process
        PROVE  socket' \in [Paths -> Logins \cup {Foreign, NoLogin}]
    BY Zenon, <1>0, <2>3 DEF ControlTypeOK, ForeignMaster
  <2>4. ASSUME NEW a \in Logins, Authenticate(a)
        PROVE  /\ process' \in [Logins -> {"none", "gone"} \cup Attached]
               /\ socket' \in [Paths -> Logins \cup {Foreign, NoLogin}]
               /\ \A b \in Logins : process'[b] \in Attached => process[b] \in Attached
    BY Zenon, <1>0, <2>4 DEF ControlTypeOK, Authenticate, Attached
  <2>5. ASSUME NEW a \in Logins, Exit(a)
        PROVE  /\ process' \in [Logins -> {"none", "gone"} \cup Attached]
               /\ socket' \in [Paths -> Logins \cup {Foreign, NoLogin}]
               /\ \A b \in Logins : process'[b] \in Attached => process[b] \in Attached
    BY Zenon, <1>0, <2>5, KillType DEF Exit
  <2>6. QED
    BY Zenon, <1>0, <2>1, <2>2, <2>3, <2>4, <2>5 DEF ControlTypeOK
<1>4. effective' \in Paths /\ managerAt' \in {"open", "cancelled", "closing", "closed"}
  BY Zenon, <1>0 DEF CloseCancel, CloseMark, Environment, Authenticate, Exit, ForeignMaster, ForeignLock,
     Reconfigure, controlVars, ControlTypeOK
<1>5. ControlTypeOK'
  BY ZenonT(40), <1>0, <1>1, <1>2, <1>3, <1>4 DEF ControlTypeOK
<1>6. ASSUME NEW a \in Logins PROVE LoginInv(a)'
  <2>1. LoginInv(a)
    BY Zenon, <1>0 DEF LockInv
  <2>2. loginAt[a] \in Holding => loginPath[a] \in Paths
    BY Zenon, <2>1 DEF LoginInv, Holding, Admitted
  <2>3. QED
    BY Zenon, <1>1, <1>2, <1>3, <2>1, <2>2 DEF LoginInv
<1>7. ASSUME NEW p \in Paths PROVE PathInv(p)'
  <2>1. PathInv(p)
    BY Zenon, <1>0 DEF LockInv
  <2>2. QED
    BY Zenon, <1>1, <1>2, <2>1 DEF PathInv
<1>8. CountInv' /\ ClosedInv'
  BY Zenon, <1>0, <1>1, SameCount DEF ClosedInv
<1>9. QED
  BY Zenon, <1>5, <1>6, <1>7, <1>8 DEF ControlInv, LockInv

LEMMA ControlStart ==
  ASSUME ControlInit
  PROVE  ControlInv
<1>1. ControlTypeOK
  BY DEF ControlInit, ControlTypeOK, LoginSteps
<1>2. \A a \in Logins : loginAt[a] = "new" /\ process[a] = "none"
  BY Zenon DEF ControlInit
<1>3. CountInv
  <2>1. AdmittedLogins = {}
    BY Zenon, <1>2 DEF AdmittedLogins, Admitted
  <2>2. QED
    BY Zenon, <2>1, FS_EmptySet DEF CountInv, ControlInit
<1>4. \A a \in Logins : LoginInv(a)
  BY Zenon, <1>2 DEF LoginInv, Admitted, Holding, Attached
<1>5. \A p \in Paths : PathInv(p)
  BY Zenon, ControlAssumption DEF PathInv, ControlInit
<1>6. QED
  BY Zenon, <1>1, <1>3, <1>4, <1>5 DEF ControlInv, LockInv, ClosedInv, ControlInit

LEMMA ControlStep == ControlInv /\ [ControlNext]_controlVars => ControlInv'
BY ZenonT(40), AdmissionStep, ReclaimStep, LockStep, MasterStep, OwnStep, EndStep, CloseMastersStep,
   EnvironmentStep DEF ControlNext, LoginStep, CloseStep

(* ControlInv is inductive.                                                *)
THEOREM ControlInvariant == ControlSpec => []ControlInv
BY ControlStart, ControlStep, PTL DEF ControlSpec

(* The wait group of the manager counts its admitted logins: no login      *)
(* finishes twice, so the group is never taken below zero.                 *)
THEOREM ControlTypes == ControlSpec => []ControlTypeOK
<1>1. ControlInv => ControlTypeOK
  BY Zenon DEF ControlInv
<1>2. QED
  BY <1>1, ControlInvariant, PTL

(* Every live ssh process is waited for by its login or owned by the       *)
(* manager, whatever other logins, Close and ssh itself do.                *)
THEOREM EveryProcessAttended == ControlSpec => []ProcessAttended
<1>1. ControlInv => ProcessAttended
  BY Zenon DEF ControlInv, LockInv, LoginInv, ProcessAttended
<1>2. QED
  BY <1>1, ControlInvariant, PTL

(* Of two logins that race through the checks, the lock file lets one run  *)
(* ssh on the control path.                                                *)
THEOREM OneProcessPerPath == ControlSpec => []OneLoginPerSocket
<1>1. ControlInv => OneLoginPerSocket
  <2> SUFFICES ASSUME ControlInv PROVE OneLoginPerSocket
    OBVIOUS
  <2>1. ASSUME NEW a \in Logins, process[a] \in Attached
        PROVE  lockFile[loginPath[a]] = a
    <3>1. LoginInv(a)
      BY Zenon DEF ControlInv, LockInv
    <3>2. CASE loginAt[a] \in {"waiting", "claim"}
      BY Zenon, <3>1, <3>2 DEF LoginInv, Holding
    <3>3. CASE loginPath[a] \in Paths /\ owned[loginPath[a]] = a
      BY Zenon, <3>3 DEF ControlInv, LockInv, PathInv
    <3>4. QED
      BY Zenon, <2>1, <3>1, <3>2, <3>3 DEF LoginInv
  <2>2. QED
    BY Zenon, <2>1 DEF OneLoginPerSocket
<1>2. QED
  BY <1>1, ControlInvariant, PTL

(* When Close has returned no login is left, every process a login started *)
(* is dead and no lock is held.                                            *)
THEOREM CloseLeavesNothing == ControlSpec => []CloseReaps
<1>1. ControlInv => CloseReaps
  <2> SUFFICES ASSUME ControlInv, managerAt = "closed"
               PROVE  /\ \A a \in Logins : process[a] \notin Attached /\ loginAt[a] \notin Admitted
                      /\ \A p \in Paths : owned[p] = NoLogin /\ lockFile[p] \notin Logins
    BY Zenon DEF CloseReaps
  <2>1. /\ \A a \in Logins : loginAt[a] \notin Admitted /\ LoginInv(a)
        /\ \A p \in Paths : owned[p] = NoLogin /\ PathInv(p)
    BY Zenon DEF ControlInv, ClosedInv, LockInv
  <2>2. \A a \in Logins : loginAt[a] \notin {"waiting", "claim"} /\ loginAt[a] \notin Holding \cup {"ready"}
    BY Zenon, <2>1 DEF Admitted, Holding
  <2>3. \A a \in Logins : process[a] \notin Attached
    <3> SUFFICES ASSUME NEW a \in Logins, process[a] \in Attached PROVE FALSE
      OBVIOUS
    <3>1. loginPath[a] \in Paths /\ owned[loginPath[a]] = a
      BY Zenon, <2>1, <2>2 DEF LoginInv
    <3>2. QED
      BY Zenon, <2>1, <3>1, ControlAssumption
  <2>4. \A p \in Paths : lockFile[p] \notin Logins
    <3> SUFFICES ASSUME NEW p \in Paths, lockFile[p] \in Logins PROVE FALSE
      OBVIOUS
    <3>1. owned[p] = lockFile[p]
      BY Zenon, <2>1, <2>2 DEF PathInv
    <3>2. QED
      BY Zenon, <2>1, <3>1, ControlAssumption
  <2>5. QED
    BY Zenon, <2>1, <2>3, <2>4
<1>2. QED
  BY <1>1, ControlInvariant, PTL

-----------------------------------------------------------------------------
(* The server.  The wait group counts the operations, those of them that   *)
(* provision a host a second time, the loops and the passes; while it is   *)
(* not zero every component is open, because closeComponent takes the      *)
(* session service first and only at zero, and nothing begins afterwards.  *)
OperatingSet == {r \in Operations : Operating(r)}

ProvisioningSet == {r \in Operations : requestAt[r] = "provisioning"}

Looping(p) == IF loopAt[p] \in {"waiting", "starting"} THEN 1 ELSE 0

Background == Looping("refresh") + Looping("stats") + running["refresh"] + running["stats"]

WorkInv ==
    /\ IsFiniteSet(OperatingSet) /\ IsFiniteSet(ProvisioningSet)
    /\ begun = Cardinality(OperatingSet) + Cardinality(ProvisioningSet) + Background

StageInv ==
    /\ serveAt = "constructing" => ~closing /\ \A r \in ServeRequests : requestAt[r] = "none"
    /\ serveAt \in {"serving", "draining"} => ~closing /\ Len(components) = 4
    /\ Len(components) < 4 => begun = 0 /\ (closing \/ \A r \in ServeRequests : requestAt[r] = "none")

(* A pass is started only when none of its kind runs.                      *)
PassInv(p) ==
    /\ running[p] \in {0, 1}
    /\ inFlight[p] <=> running[p] = 1 \/ loopAt[p] = "starting"
    /\ loopAt[p] = "starting" => running[p] = 0

HostInv ==
    /\ hostPreparations = {preparing[r] : r \in Operations} \ {NoHost}
    /\ \A q, r \in Operations : preparing[q] = preparing[r] /\ preparing[q] # NoHost => q = r
    /\ \A r \in Operations : preparing[r] # NoHost <=> requestAt[r] \in {"claimed", "provisioning"}

RuntimeInv == RuntimeTypeOK /\ WorkInv /\ StageInv /\ (\A p \in Passes : PassInv(p)) /\ HostInv

(* The components are closed in the reverse order of their construction.   *)
LEMMA Prefixes ==
  /\ Len(Construction) = 4
  /\ \A n \in 0 .. 4 : Len(SubSeq(Construction, 1, n)) = n
  /\ \A n \in 0 .. 3 : Append(SubSeq(Construction, 1, n), Construction[n + 1]) = SubSeq(Construction, 1, n + 1)
  /\ \A n \in 1 .. 4 : SubSeq(SubSeq(Construction, 1, n), 1, n - 1) = SubSeq(Construction, 1, n - 1)
  /\ \A n \in 1 .. 4 : SubSeq(Construction, 1, n)[n] = "session" <=> n = 4
  /\ \A n \in 0 .. 3 : Construction[n + 1] = "session" <=> n = 3
  /\ \A i \in 1 .. 4 : SubSeq(Construction, 1, 4)[i] = Construction[i]
<1>1. Construction \in Seq({"database", "control", "tunnel", "session"}) /\ Len(Construction) = 4
  BY SMTT(20) DEF Construction
<1>2. \A n \in 0 .. 4 : Len(SubSeq(Construction, 1, n)) = n
  BY SMTT(20), <1>1
<1>3. \A n \in 0 .. 3 : Append(SubSeq(Construction, 1, n), Construction[n + 1]) = SubSeq(Construction, 1, n + 1)
  BY SMTT(20), <1>1
<1>4. \A n \in 1 .. 4 : SubSeq(SubSeq(Construction, 1, n), 1, n - 1) = SubSeq(Construction, 1, n - 1)
  BY SMTT(20), <1>1
<1>5. \A n \in 1 .. 4 : SubSeq(Construction, 1, n)[n] = Construction[n]
  BY SMTT(20), <1>1
<1>6. \A n \in 1 .. 4 : Construction[n] = "session" <=> n = 4
  BY SMT DEF Construction
<1>7. \A i \in 1 .. 4 : SubSeq(Construction, 1, 4)[i] = Construction[i]
  BY SMTT(20), <1>1
<1>8. \A n \in 0 .. 3 : Construction[n + 1] = "session" <=> n = 3
  BY SMT DEF Construction
<1>9. \A n \in 1 .. 4 : SubSeq(Construction, 1, n)[n] = "session" <=> n = 4
  <2> SUFFICES ASSUME NEW n \in 1 .. 4 PROVE SubSeq(Construction, 1, n)[n] = "session" <=> n = 4
    OBVIOUS
  <2>1. SubSeq(Construction, 1, n)[n] = Construction[n]
    BY Zenon, <1>5
  <2>2. QED
    BY Zenon, <2>1, <1>6
<1>10. QED
  BY ZenonT(40), <1>1, <1>2, <1>3, <1>4, <1>7, <1>8, <1>9

LEMMA Stages ==
  ASSUME RuntimeTypeOK
  PROVE  \E n \in 0 .. 4 : components = SubSeq(Construction, 1, n) /\ Len(components) = n
<1>1. PICK n \in 0 .. Len(Construction) : components = SubSeq(Construction, 1, n)
  BY Zenon DEF RuntimeTypeOK
<1>2. n \in 0 .. 4
  BY Zenon, Prefixes
<1>3. Len(components) = n
  BY Zenon, <1>1, <1>2, Prefixes
<1>4. QED
  BY Zenon, <1>1, <1>2, <1>3

LEMMA BackgroundType ==
  ASSUME RuntimeTypeOK
  PROVE  /\ \A p \in Passes : Looping(p) \in {0, 1} /\ running[p] \in Nat
         /\ Background \in Nat
<1>1. \A p \in Passes : Looping(p) \in {0, 1}
  BY Zenon DEF Looping
<1>2. \A p \in Passes : running[p] \in Nat
  BY Zenon DEF RuntimeTypeOK
<1>3. QED
  BY SMTT(20), <1>1, <1>2 DEF Background, Passes

LEMMA WorkType ==
  ASSUME WorkInv
  PROVE  Cardinality(OperatingSet) \in Nat /\ Cardinality(ProvisioningSet) \in Nat
BY Zenon, FS_CardinalityType DEF WorkInv

(* An empty wait group means that nothing runs.                            *)
LEMMA NothingBegun ==
  ASSUME RuntimeTypeOK, WorkInv, begun = 0
  PROVE  /\ \A r \in Operations : ~Operating(r)
         /\ \A p \in Passes : Looping(p) = 0 /\ running[p] = 0
         /\ Background = 0
<1>1. Cardinality(OperatingSet) = 0 /\ Background = 0
  <2>1. begun = Cardinality(OperatingSet) + Cardinality(ProvisioningSet) + Background
    BY Zenon DEF WorkInv
  <2>2. QED
    BY SMTT(20), <2>1, BackgroundType, WorkType
<1>2. OperatingSet = {}
  BY Zenon, <1>1, FS_EmptySet DEF WorkInv
<1>3. \A p \in Passes : Looping(p) = 0 /\ running[p] = 0
  BY SMTT(20), <1>1, BackgroundType DEF Background, Passes
<1>4. QED
  BY Zenon, <1>1, <1>2, <1>3 DEF OperatingSet

LEMMA SameRequests ==
  ASSUME UNCHANGED requestAt
  PROVE  UNCHANGED <<OperatingSet, ProvisioningSet>>
BY Zenon DEF OperatingSet, ProvisioningSet, Operating

LEMMA SameBackground ==
  ASSUME UNCHANGED <<loopAt, running>>
  PROVE  UNCHANGED Background
BY Zenon DEF Background, Looping

(* Steps of the serve command.                                             *)
LEMMA ServeFrame ==
  ASSUME RuntimeInv, UNCHANGED requests, UNCHANGED loops, UNCHANGED begun,
         serveAt' \in {"constructing", "serving", "draining", "closing", "returned"},
         components' \in {SubSeq(Construction, 1, n) : n \in 0 .. Len(Construction)},
         closing' \in BOOLEAN, drainExpired' \in BOOLEAN, blocked' \in BOOLEAN, StageInv'
  PROVE  RuntimeInv'
<1>1. RuntimeTypeOK /\ WorkInv /\ (\A p \in Passes : PassInv(p)) /\ HostInv
  BY Zenon DEF RuntimeInv
<1>2. UNCHANGED <<requestAt, preparing, hostPreparations>> /\ UNCHANGED <<loopAt, inFlight, running, refreshRecent>>
  BY Zenon DEF requests, loops
<1>3. RuntimeTypeOK'
  BY Zenon, <1>1, <1>2 DEF RuntimeTypeOK
<1>4. WorkInv'
  BY Zenon, <1>1, <1>2, SameRequests, SameBackground DEF WorkInv
<1>5. (\A p \in Passes : PassInv(p))'
  BY Zenon, <1>1, <1>2 DEF PassInv
<1>6. HostInv'
  BY Zenon, <1>1, <1>2 DEF HostInv
<1>7. QED
  BY Zenon, <1>3, <1>4, <1>5, <1>6 DEF RuntimeInv

LEMMA StagesStep ==
  ASSUME RuntimeInv, ConstructionFails \/ Listen \/ Interrupt \/ Shutdown \/ ShutdownTimeout \/ EndServe
  PROVE  RuntimeInv'
<1>0. RuntimeTypeOK /\ StageInv /\ Len(Construction) = 4
  BY Zenon, Prefixes DEF RuntimeInv
<1>1. /\ UNCHANGED requests /\ UNCHANGED loops /\ UNCHANGED <<begun, closing, components, blocked>>
      /\ drainExpired' \in {drainExpired, TRUE}
  BY Zenon DEF ConstructionFails, Listen, Interrupt, Shutdown, ShutdownTimeout, EndServe
<1>2. \/ serveAt' \in {"closing", "returned"}
      \/ serveAt' = "serving" /\ serveAt = "constructing" /\ Len(components) = 4
      \/ serveAt' = "draining" /\ serveAt = "serving"
  BY Zenon, <1>0 DEF ConstructionFails, Listen, Interrupt, Shutdown, ShutdownTimeout, EndServe
<1>3. UNCHANGED requestAt
  BY Zenon, <1>1 DEF requests
<1>4. StageInv'
  BY Zenon, <1>0, <1>1, <1>2, <1>3 DEF StageInv
<1>5. QED
  BY Zenon, <1>0, <1>1, <1>2, <1>4, ServeFrame DEF RuntimeTypeOK

LEMMA TeardownStages ==
  ASSUME RuntimeInv, CancelRuntime \/ closeComponent
  PROVE  RuntimeInv'
<1>0. RuntimeTypeOK /\ StageInv /\ Len(Construction) = 4
  BY Zenon, Prefixes DEF RuntimeInv
<1>1. PICK n \in 0 .. 4 : components = SubSeq(Construction, 1, n) /\ Len(components) = n
  BY Zenon, <1>0, Stages
<1>2. CASE CancelRuntime
  <2>1. /\ UNCHANGED requests /\ UNCHANGED loops /\ UNCHANGED <<begun, components, serveAt, drainExpired, blocked>>
        /\ serveAt = "closing" /\ closing' = TRUE
    BY Zenon, <1>2 DEF CancelRuntime, serve
  <2>2. UNCHANGED requestAt
    BY Zenon, <2>1 DEF requests
  <2>3. StageInv'
    BY Zenon, <1>0, <2>1, <2>2 DEF StageInv
  <2>4. QED
    BY Zenon, <1>0, <2>1, <2>3, ServeFrame DEF RuntimeTypeOK
<1>3. CASE closeComponent
  <2>1. /\ UNCHANGED requests /\ UNCHANGED loops /\ UNCHANGED <<begun, closing, serveAt, drainExpired, blocked>>
        /\ serveAt = "closing" /\ components # <<>>
        /\ components[n] = "session" => closing /\ begun = 0
        /\ components' = SubSeq(components, 1, n - 1)
    BY Zenon, <1>1, <1>3 DEF closeComponent
  <2>2. n \in 1 .. 4 /\ n - 1 \in 0 .. 4 /\ n - 1 < 4 /\ (n < 4 \/ n = 4)
    <3>1. n # 0
      BY SMTT(20), <1>0, <1>1, <2>1
    <3>2. QED
      BY SMTT(20), <3>1
  <2>3. components' = SubSeq(Construction, 1, n - 1)
    BY Zenon, <1>1, <2>1, <2>2, Prefixes
  <2>4. begun = 0 /\ (closing \/ \A r \in ServeRequests : requestAt[r] = "none")
    <3>1. CASE n < 4
      BY Zenon, <1>0, <1>1, <3>1 DEF StageInv
    <3>2. CASE n = 4
      BY ZenonT(40), <1>1, <2>1, <2>2, <3>2, Prefixes
    <3>3. QED
      BY Zenon, <2>2, <3>1, <3>2
  <2>5. UNCHANGED requestAt
    BY Zenon, <2>1 DEF requests
  <2>6. StageInv'
    BY ZenonT(40), <2>1, <2>4, <2>5 DEF StageInv
  <2>7. components' \in {SubSeq(Construction, 1, m) : m \in 0 .. Len(Construction)}
    BY Zenon, <1>0, <2>2, <2>3
  <2>8. QED
    BY ZenonT(40), <1>0, <2>1, <2>6, <2>7, ServeFrame DEF RuntimeTypeOK
<1>4. QED
  BY Zenon, <1>2, <1>3

(* The session service is the last component; it starts the two loops.     *)
LEMMA ConstructionStep ==
  ASSUME RuntimeInv, newServeComponents
  PROVE  RuntimeInv'
<1>0. RuntimeTypeOK /\ WorkInv /\ StageInv /\ (\A p \in Passes : PassInv(p)) /\ HostInv /\ Len(Construction) = 4
  BY Zenon, Prefixes DEF RuntimeInv
<1>1. PICK n \in 0 .. 4 : components = SubSeq(Construction, 1, n) /\ Len(components) = n
  BY Zenon, <1>0, Stages
<1>2. /\ UNCHANGED requests /\ UNCHANGED <<serveAt, drainExpired, blocked, closing, inFlight, running, refreshRecent>>
      /\ serveAt = "constructing" /\ n < 4
      /\ components' = Append(components, Construction[n + 1])
      /\ IF Construction[n + 1] = "session"
           THEN loopAt' = [p \in Passes |-> "waiting"] /\ begun' = begun + 2
           ELSE UNCHANGED <<loopAt, begun>>
  BY ZenonT(40), <1>0, <1>1 DEF newServeComponents
<1>3. n \in 0 .. 3 /\ n + 1 \in 0 .. 4
  BY SMTT(20), <1>2
<1>4. components' = SubSeq(Construction, 1, n + 1) /\ Len(components') = n + 1
  BY Zenon, <1>1, <1>2, <1>3, Prefixes
<1>5. components' \in {SubSeq(Construction, 1, m) : m \in 0 .. Len(Construction)}
  BY Zenon, <1>0, <1>3, <1>4
<1>6. begun = 0 /\ ~closing /\ \A r \in ServeRequests : requestAt[r] = "none"
  BY Zenon, <1>0, <1>1, <1>2 DEF StageInv
<1>7. UNCHANGED <<requestAt, preparing, hostPreparations>>
  BY Zenon, <1>2 DEF requests
<1>8. CASE n # 3
  <2>1. UNCHANGED <<loopAt, begun>>
    BY ZenonT(40), <1>2, <1>3, <1>8, Prefixes
  <2>2. StageInv'
    BY Zenon, <1>2, <1>6, <1>7, <2>1 DEF StageInv
  <2>3. UNCHANGED loops
    BY Zenon, <1>2, <2>1 DEF loops
  <2>4. QED
    BY ZenonT(40), <1>0, <1>2, <1>5, <2>1, <2>2, <2>3, ServeFrame DEF RuntimeTypeOK
<1>9. CASE n = 3
  <2>1. loopAt' = [p \in Passes |-> "waiting"] /\ begun' = begun + 2
    BY ZenonT(40), <1>2, <1>3, <1>9, Prefixes
  <2>2. ~(Len(components') < 4)
    BY SMTT(20), <1>4, <1>9
  <2>3. StageInv'
    BY ZenonT(40), <1>2, <1>6, <1>7, <2>2 DEF StageInv
  <2>4. RuntimeTypeOK'
    <3>1. begun' \in Nat
      BY SMTT(20), <1>6, <2>1
    <3>2. loopAt' \in [Passes -> {"none", "waiting", "starting", "stopped"}]
      BY Zenon, <2>1
    <3>3. QED
      BY ZenonT(40), <1>0, <1>2, <1>5, <1>7, <3>1, <3>2 DEF RuntimeTypeOK
  <2>5. \A p \in Passes : Looping(p) = 0 /\ running[p] = 0
    BY ZenonT(40), <1>0, <1>6, NothingBegun
  <2>6. Background = 0 /\ Background' = 2
    <3>1. \A p \in Passes : Looping(p)' = 1 /\ running'[p] = 0
      BY Zenon, <1>2, <2>1, <2>5 DEF Looping
    <3>2. Looping("refresh")' = 1 /\ Looping("stats")' = 1 /\ running'["refresh"] = 0 /\ running'["stats"] = 0
      BY Zenon, <3>1 DEF Passes
    <3>3. QED
      BY SMTT(20), <3>2, <2>5 DEF Background, Passes
  <2>7. WorkInv'
    <3>1. UNCHANGED <<OperatingSet, ProvisioningSet>>
      BY Zenon, <1>7, SameRequests
    <3>2. begun = Cardinality(OperatingSet) + Cardinality(ProvisioningSet) + Background
      BY Zenon, <1>0 DEF WorkInv
    <3>3. begun' = Cardinality(OperatingSet) + Cardinality(ProvisioningSet) + Background'
      BY SMTT(20), <1>0, <2>1, <2>6, <3>2, WorkType
    <3>4. QED
      BY Zenon, <1>0, <3>1, <3>3 DEF WorkInv
  <2>8. ASSUME NEW p \in Passes PROVE PassInv(p)'
    <3>1. loopAt'[p] = "waiting" /\ loopAt[p] # "starting" /\ UNCHANGED <<inFlight, running>>
      BY SMTT(20), <1>2, <2>1, <2>5 DEF Looping
    <3>2. QED
      BY Zenon, <1>0, <3>1 DEF PassInv
  <2>9. HostInv'
    BY ZenonT(40), <1>0, <1>7 DEF HostInv
  <2>10. QED
    BY ZenonT(40), <2>3, <2>4, <2>7, <2>8, <2>9 DEF RuntimeInv
<1>10. QED
  BY Zenon, <1>8, <1>9

(* Requests.  A request moves; what remains is the count and the hosts.    *)
LEMMA RequestFrame ==
  ASSUME RuntimeInv, NEW r \in ServeRequests,
         NEW v \in {"none", "handling", "operating", "claimed", "provisioning", "ending", "done"},
         requestAt' = [requestAt EXCEPT ![r] = v],
         requestAt[r] # "none" \/ serveAt = "serving",
         UNCHANGED serve, UNCHANGED closing, UNCHANGED loops,
         preparing' \in [Operations -> HostNames \cup {NoHost}],
         hostPreparations' \in SUBSET HostNames,
         begun' \in Nat, begun' = begun \/ ~closing \/ begun # 0,
         WorkInv', HostInv'
  PROVE  RuntimeInv'
<1>1. RuntimeTypeOK /\ StageInv /\ (\A p \in Passes : PassInv(p))
  BY Zenon DEF RuntimeInv
<1>2. UNCHANGED <<serveAt, components, drainExpired, blocked>> /\ UNCHANGED <<loopAt, inFlight, running, refreshRecent>>
  BY Zenon DEF serve, loops
<1>3. requestAt' \in [ServeRequests -> {"none", "handling", "operating", "claimed", "provisioning", "ending", "done"}]
  BY Zenon, <1>1 DEF RuntimeTypeOK
<1>4. RuntimeTypeOK'
  BY Zenon, <1>1, <1>2, <1>3 DEF RuntimeTypeOK
<1>5. StageInv'
  <2>1. serveAt # "constructing"
    BY Zenon, <1>1 DEF StageInv
  <2>2. Len(components) < 4 => closing /\ begun = 0 /\ begun' = 0
    <3> SUFFICES ASSUME Len(components) < 4 PROVE closing /\ begun = 0 /\ begun' = 0
      OBVIOUS
    <3>1. ~(Len(components) = 4)
      <4>1. PICK n \in 0 .. 4 : Len(components) = n
        BY Zenon, <1>1, Stages
      <4>2. QED
        BY SMTT(20), <4>1
    <3>2. requestAt[r] # "none"
      BY Zenon, <1>1, <3>1 DEF StageInv
    <3>3. QED
      BY Zenon, <1>1, <3>2 DEF StageInv
  <2>3. QED
    BY Zenon, <1>1, <1>2, <2>1, <2>2 DEF StageInv
<1>6. (\A p \in Passes : PassInv(p))'
  BY Zenon, <1>1, <1>2 DEF PassInv
<1>7. QED
  BY Zenon, <1>4, <1>5, <1>6 DEF RuntimeInv

LEMMA SameWork ==
  ASSUME WorkInv, UNCHANGED begun, UNCHANGED loops,
         \A q \in Operations : Operating(q)' <=> Operating(q),
         \A q \in Operations : requestAt'[q] = "provisioning" <=> requestAt[q] = "provisioning"
  PROVE  WorkInv'
<1>1. OperatingSet' = OperatingSet /\ ProvisioningSet' = ProvisioningSet
  BY Zenon DEF OperatingSet, ProvisioningSet
<1>2. UNCHANGED Background
  BY Zenon, SameBackground DEF loops
<1>3. QED
  BY Zenon, <1>1, <1>2 DEF WorkInv

LEMMA MovedRequest ==
  ASSUME RuntimeTypeOK, NEW r \in Operations, NEW v, requestAt' = [requestAt EXCEPT ![r] = v]
  PROVE  /\ v \in {"operating", "claimed", "provisioning", "ending"} => OperatingSet' = OperatingSet \cup {r}
         /\ v \notin {"operating", "claimed", "provisioning", "ending"} => OperatingSet' = OperatingSet \ {r}
         /\ v = "provisioning" => ProvisioningSet' = ProvisioningSet \cup {r}
         /\ v # "provisioning" => ProvisioningSet' = ProvisioningSet \ {r}
<1>1. r \in ServeRequests /\ requestAt'[r] = v /\ \A q \in Operations \ {r} : requestAt'[q] = requestAt[q]
  BY Zenon DEF RuntimeTypeOK, ServeRequests
<1>2. /\ Operating(r)' <=> v \in {"operating", "claimed", "provisioning", "ending"}
      /\ \A q \in Operations \ {r} : Operating(q)' <=> Operating(q)
  BY Zenon, <1>1 DEF Operating
<1>3. /\ v \in {"operating", "claimed", "provisioning", "ending"} => OperatingSet' = OperatingSet \cup {r}
      /\ v \notin {"operating", "claimed", "provisioning", "ending"} => OperatingSet' = OperatingSet \ {r}
  BY SMTT(20), <1>2 DEF OperatingSet
<1>4. /\ v = "provisioning" => ProvisioningSet' = ProvisioningSet \cup {r}
      /\ v # "provisioning" => ProvisioningSet' = ProvisioningSet \ {r}
  BY SMTT(20), <1>1 DEF ProvisioningSet
<1>5. QED
  BY Zenon, <1>3, <1>4

LEMMA RequestBegins ==
  ASSUME RuntimeTypeOK, WorkInv, UNCHANGED loops, begun' = begun + 1,
         \/ \E r \in Operations : r \notin OperatingSet /\ OperatingSet' = OperatingSet \cup {r} /\ UNCHANGED ProvisioningSet
         \/ \E r \in Operations : r \notin ProvisioningSet /\ ProvisioningSet' = ProvisioningSet \cup {r} /\ UNCHANGED OperatingSet
  PROVE  WorkInv' /\ begun' \in Nat
<1>1. /\ IsFiniteSet(OperatingSet') /\ IsFiniteSet(ProvisioningSet')
      /\ Cardinality(OperatingSet') + Cardinality(ProvisioningSet')
           = Cardinality(OperatingSet) + Cardinality(ProvisioningSet) + 1
  <2>1. \/ /\ IsFiniteSet(OperatingSet') /\ UNCHANGED ProvisioningSet
           /\ Cardinality(OperatingSet') = Cardinality(OperatingSet) + 1
        \/ /\ IsFiniteSet(ProvisioningSet') /\ UNCHANGED OperatingSet
           /\ Cardinality(ProvisioningSet') = Cardinality(ProvisioningSet) + 1
    <3>1. IsFiniteSet(OperatingSet) /\ IsFiniteSet(ProvisioningSet)
      BY Zenon DEF WorkInv
    <3>2. ASSUME NEW r \in Operations, r \notin OperatingSet, OperatingSet' = OperatingSet \cup {r}
          PROVE  IsFiniteSet(OperatingSet') /\ Cardinality(OperatingSet') = Cardinality(OperatingSet) + 1
      BY ZenonT(40), <3>1, <3>2, AddOne
    <3>3. ASSUME NEW r \in Operations, r \notin ProvisioningSet, ProvisioningSet' = ProvisioningSet \cup {r}
          PROVE  IsFiniteSet(ProvisioningSet') /\ Cardinality(ProvisioningSet') = Cardinality(ProvisioningSet) + 1
      BY ZenonT(40), <3>1, <3>3, AddOne
    <3>4. QED
      BY Zenon, <3>2, <3>3
  <2>2. IsFiniteSet(OperatingSet') /\ IsFiniteSet(ProvisioningSet')
    BY Zenon, <2>1 DEF WorkInv
  <2>3. QED
    BY SMTT(20), <2>1, <2>2, WorkType
<1>2. UNCHANGED Background
  BY Zenon, SameBackground DEF loops
<1>3. begun = Cardinality(OperatingSet) + Cardinality(ProvisioningSet) + Background
  BY Zenon DEF WorkInv
<1>4. begun' \in Nat
  BY SMTT(20) DEF RuntimeTypeOK
<1>5. begun' = Cardinality(OperatingSet') + Cardinality(ProvisioningSet') + Background
  BY SMTT(20), <1>1, <1>3, BackgroundType, WorkType
<1>6. QED
  BY Zenon, <1>1, <1>2, <1>4, <1>5 DEF WorkInv

LEMMA RequestEnds ==
  ASSUME RuntimeTypeOK, WorkInv, UNCHANGED loops, begun' = begun - 1,
         \/ \E r \in OperatingSet : OperatingSet' = OperatingSet \ {r} /\ UNCHANGED ProvisioningSet
         \/ \E r \in ProvisioningSet : ProvisioningSet' = ProvisioningSet \ {r} /\ UNCHANGED OperatingSet
  PROVE  WorkInv' /\ begun' \in Nat /\ begun # 0
<1>1. /\ IsFiniteSet(OperatingSet') /\ IsFiniteSet(ProvisioningSet')
      /\ Cardinality(OperatingSet') \in Nat /\ Cardinality(ProvisioningSet') \in Nat
      /\ Cardinality(OperatingSet') + Cardinality(ProvisioningSet')
           = Cardinality(OperatingSet) + Cardinality(ProvisioningSet) - 1
  <2>1. \/ /\ IsFiniteSet(OperatingSet') /\ UNCHANGED ProvisioningSet
           /\ Cardinality(OperatingSet') = Cardinality(OperatingSet) - 1
        \/ /\ IsFiniteSet(ProvisioningSet') /\ UNCHANGED OperatingSet
           /\ Cardinality(ProvisioningSet') = Cardinality(ProvisioningSet) - 1
    <3>1. IsFiniteSet(OperatingSet) /\ IsFiniteSet(ProvisioningSet)
      BY Zenon DEF WorkInv
    <3>2. ASSUME NEW r \in OperatingSet, OperatingSet' = OperatingSet \ {r}
          PROVE  IsFiniteSet(OperatingSet') /\ Cardinality(OperatingSet') = Cardinality(OperatingSet) - 1
      BY Zenon, <3>1, <3>2, TakeOne
    <3>3. ASSUME NEW r \in ProvisioningSet, ProvisioningSet' = ProvisioningSet \ {r}
          PROVE  IsFiniteSet(ProvisioningSet') /\ Cardinality(ProvisioningSet') = Cardinality(ProvisioningSet) - 1
      BY Zenon, <3>1, <3>3, TakeOne
    <3>4. QED
      BY Zenon, <3>2, <3>3
  <2>2. IsFiniteSet(OperatingSet') /\ IsFiniteSet(ProvisioningSet')
    BY Zenon, <2>1 DEF WorkInv
  <2>3. Cardinality(OperatingSet') \in Nat /\ Cardinality(ProvisioningSet') \in Nat
    BY Zenon, <2>2, FS_CardinalityType
  <2>4. QED
    BY SMTT(20), <2>1, <2>2, <2>3, WorkType
<1>2. UNCHANGED Background
  BY Zenon, SameBackground DEF loops
<1>3. begun = Cardinality(OperatingSet) + Cardinality(ProvisioningSet) + Background
  BY Zenon DEF WorkInv
<1>4. /\ begun' = Cardinality(OperatingSet') + Cardinality(ProvisioningSet') + Background
      /\ begun' \in Nat /\ begun # 0
  BY SMTT(20), <1>1, <1>3, BackgroundType, WorkType
<1>5. QED
  BY Zenon, <1>1, <1>2, <1>4 DEF WorkInv

LEMMA SameHosts ==
  ASSUME HostInv, UNCHANGED <<preparing, hostPreparations>>,
         \A q \in Operations : requestAt'[q] \in {"claimed", "provisioning"} <=> requestAt[q] \in {"claimed", "provisioning"}
  PROVE  HostInv'
BY Zenon DEF HostInv

LEMMA MovedHost ==
  ASSUME RuntimeTypeOK, NEW r \in Operations, NEW h, preparing' = [preparing EXCEPT ![r] = h]
  PROVE  preparing'[r] = h /\ \A q \in Operations \ {r} : preparing'[q] = preparing[q]
BY Zenon DEF RuntimeTypeOK

LEMMA ReleasedHost ==
  ASSUME RuntimeTypeOK, HostInv, NEW r \in Operations, ReleaseHost(r),
         requestAt'[r] \notin {"claimed", "provisioning"},
         \A q \in Operations \ {r} : requestAt'[q] = requestAt[q]
  PROVE  /\ HostInv'
         /\ preparing' \in [Operations -> HostNames \cup {NoHost}]
         /\ hostPreparations' \in SUBSET HostNames
<1>1. /\ hostPreparations' = hostPreparations \ {preparing[r]}
      /\ preparing' = [preparing EXCEPT ![r] = NoHost]
  BY Zenon DEF ReleaseHost
<1>2. preparing'[r] = NoHost /\ \A q \in Operations \ {r} : preparing'[q] = preparing[q]
  BY Zenon, <1>1, MovedHost
<1>3. hostPreparations' = {preparing'[q] : q \in Operations} \ {NoHost}
  <2>1. /\ hostPreparations = {preparing[q] : q \in Operations} \ {NoHost}
        /\ \A q \in Operations : preparing[q] = preparing[r] /\ preparing[q] # NoHost => q = r
    BY Zenon DEF HostInv
  <2>2. QED
    BY SMTT(20), <1>1, <1>2, <2>1
<1>4. HostInv'
  BY ZenonT(40), <1>2, <1>3 DEF HostInv
<1>5. QED
  BY ZenonT(40), <1>1, <1>4 DEF RuntimeTypeOK

LEMMA ClaimedHost ==
  ASSUME RuntimeTypeOK, HostInv, NEW r \in Operations, NEW h \in HostNames, h \notin hostPreparations,
         preparing' = [preparing EXCEPT ![r] = h], hostPreparations' = hostPreparations \cup {h},
         requestAt[r] = "operating", requestAt'[r] = "claimed",
         \A q \in Operations \ {r} : requestAt'[q] = requestAt[q]
  PROVE  /\ HostInv'
         /\ preparing' \in [Operations -> HostNames \cup {NoHost}]
         /\ hostPreparations' \in SUBSET HostNames
<1>1. preparing'[r] = h /\ (\A q \in Operations \ {r} : preparing'[q] = preparing[q]) /\ h # NoHost
  BY Zenon, MovedHost, RuntimeAssumption
<1>2. preparing[r] = NoHost
  BY Zenon DEF HostInv
<1>3. \A q \in Operations : preparing[q] # h
  BY ZenonT(40), <1>1 DEF HostInv
<1>4. hostPreparations' = {preparing'[q] : q \in Operations} \ {NoHost}
  <2>1. hostPreparations = {preparing[q] : q \in Operations} \ {NoHost}
    BY Zenon DEF HostInv
  <2>2. QED
    BY SMTT(20), <1>1, <1>2, <2>1
<1>5. HostInv'
  <2>1. ASSUME NEW q \in Operations, NEW u \in Operations, preparing'[q] = preparing'[u], preparing'[q] # NoHost
        PROVE  q = u
    <3>1. CASE q # r /\ u # r
      <4>1. preparing[q] = preparing[u] /\ preparing[q] # NoHost
        BY Zenon, <1>1, <2>1, <3>1
      <4>2. QED
        BY Zenon, <4>1 DEF HostInv
    <3>2. CASE q = r
      BY ZenonT(40), <1>1, <1>3, <2>1, <3>2
    <3>3. CASE u = r
      BY ZenonT(40), <1>1, <1>3, <2>1, <3>3
    <3>4. QED
      BY Zenon, <3>1, <3>2, <3>3
  <2>2. \A q \in Operations : preparing'[q] # NoHost <=> requestAt'[q] \in {"claimed", "provisioning"}
    BY Zenon, <1>1 DEF HostInv
  <2>3. QED
    BY Zenon, <1>4, <2>1, <2>2 DEF HostInv
<1>6. QED
  BY Zenon, <1>5 DEF RuntimeTypeOK

LEMMA ReadStep ==
  ASSUME RuntimeInv, (\E r \in ServeRequests : Arrive(r)) \/ (\E r \in Reads \cup Streams : Answer(r))
  PROVE  RuntimeInv'
<1>0. RuntimeTypeOK /\ WorkInv /\ HostInv
  BY Zenon DEF RuntimeInv
<1>1. PICK r \in ServeRequests, v \in {"handling", "done"} :
        /\ requestAt' = [requestAt EXCEPT ![r] = v]
        /\ requestAt[r] # "none" \/ serveAt = "serving"
        /\ requestAt[r] \in {"none", "handling"}
  BY Zenon DEF Arrive, Answer, ServeRequests
<1>2. /\ UNCHANGED serve /\ UNCHANGED closing /\ UNCHANGED loops /\ UNCHANGED begun
      /\ UNCHANGED <<preparing, hostPreparations>>
  BY Zenon DEF Arrive, Answer
<1>3. \A q \in Operations : requestAt'[q] = requestAt[q] \/ (requestAt[q] \in {"none", "handling"} /\ requestAt'[q] \in {"handling", "done"})
  BY Zenon, <1>0, <1>1 DEF RuntimeTypeOK, ServeRequests
<1>4. WorkInv'
  <2>1. \A q \in Operations : Operating(q)' <=> Operating(q)
    BY Zenon, <1>3 DEF Operating
  <2>2. \A q \in Operations : requestAt'[q] = "provisioning" <=> requestAt[q] = "provisioning"
    BY Zenon, <1>3
  <2>3. QED
    BY ZenonT(40), <1>0, <1>2, <2>1, <2>2, SameWork
<1>5. HostInv'
  <2>1. \A q \in Operations : requestAt'[q] \in {"claimed", "provisioning"} <=> requestAt[q] \in {"claimed", "provisioning"}
    BY Zenon, <1>3
  <2>2. QED
    BY ZenonT(40), <1>0, <1>2, <2>1, SameHosts
<1>6. QED
  BY ZenonT(40), <1>0, <1>1, <1>2, <1>4, <1>5, RequestFrame DEF RuntimeTypeOK

LEMMA OperationBegins ==
  ASSUME RuntimeInv, NEW r \in Operations, beginOperation(r)
  PROVE  RuntimeInv'
<1>0. RuntimeTypeOK /\ WorkInv /\ HostInv /\ r \in ServeRequests
  BY Zenon DEF RuntimeInv, ServeRequests
<1>1. /\ UNCHANGED serve /\ UNCHANGED closing /\ UNCHANGED loops /\ UNCHANGED <<preparing, hostPreparations>>
      /\ requestAt[r] = "handling"
  BY Zenon DEF beginOperation
<1>2. r \notin OperatingSet /\ r \notin ProvisioningSet
  BY Zenon, <1>1 DEF OperatingSet, ProvisioningSet, Operating
<1>3. PICK v \in {"operating", "done"} :
        /\ requestAt' = [requestAt EXCEPT ![r] = v]
        /\ v = "operating" => ~closing /\ begun' = begun + 1
        /\ v = "done" => begun' = begun
  BY Zenon DEF beginOperation, begin, beginRefused
<1>4. requestAt'[r] = v /\ \A q \in Operations \ {r} : requestAt'[q] = requestAt[q]
  BY Zenon, <1>0, <1>3 DEF RuntimeTypeOK, ServeRequests
<1>5. HostInv'
  <2>1. \A q \in Operations : requestAt'[q] \in {"claimed", "provisioning"} <=> requestAt[q] \in {"claimed", "provisioning"}
    BY Zenon, <1>1, <1>4
  <2>2. QED
    BY ZenonT(40), <1>0, <1>1, <2>1, SameHosts
<1>6. WorkInv' /\ begun' \in Nat /\ (begun' = begun \/ ~closing)
  <2>1. CASE v = "operating"
    <3>1. OperatingSet' = OperatingSet \cup {r} /\ ProvisioningSet' = ProvisioningSet \ {r}
      BY ZenonT(40), <1>0, <1>3, <2>1, MovedRequest
    <3>2. UNCHANGED ProvisioningSet
      BY SMTT(20), <1>2, <3>1
    <3>3. QED
      BY ZenonT(40), <1>0, <1>1, <1>2, <1>3, <2>1, <3>1, <3>2, RequestBegins
  <2>2. CASE v = "done"
    <3>1. \A q \in Operations : Operating(q)' <=> Operating(q)
      BY Zenon, <1>1, <1>4, <2>2 DEF Operating
    <3>2. \A q \in Operations : requestAt'[q] = "provisioning" <=> requestAt[q] = "provisioning"
      BY Zenon, <1>1, <1>4, <2>2
    <3>3. QED
      BY ZenonT(40), <1>0, <1>1, <1>3, <2>2, <3>1, <3>2, SameWork DEF RuntimeTypeOK
  <2>3. QED
    BY Zenon, <2>1, <2>2
<1>7. QED
  BY ZenonT(40), <1>0, <1>1, <1>3, <1>5, <1>6, RequestFrame DEF RuntimeTypeOK

LEMMA HostClaimStep ==
  ASSUME RuntimeInv, NEW r \in Operations, NEW h \in HostNames, ClaimHost(r, h)
  PROVE  RuntimeInv'
<1>0. RuntimeTypeOK /\ WorkInv /\ HostInv /\ r \in ServeRequests
  BY Zenon DEF RuntimeInv, ServeRequests
<1>1. UNCHANGED serve /\ UNCHANGED closing /\ UNCHANGED loops /\ UNCHANGED begun /\ requestAt[r] = "operating"
  BY Zenon DEF ClaimHost
<1>2. PICK v \in {"ending", "claimed"} :
        /\ requestAt' = [requestAt EXCEPT ![r] = v]
        /\ v = "ending" => UNCHANGED <<preparing, hostPreparations>>
        /\ v = "claimed" => /\ h \notin hostPreparations
                            /\ preparing' = [preparing EXCEPT ![r] = h]
                            /\ hostPreparations' = hostPreparations \cup {h}
  BY Zenon DEF ClaimHost
<1>3. requestAt'[r] = v /\ \A q \in Operations \ {r} : requestAt'[q] = requestAt[q]
  BY Zenon, <1>0, <1>2 DEF RuntimeTypeOK, ServeRequests
<1>4. WorkInv'
  <2>1. \A q \in Operations : Operating(q)' <=> Operating(q)
    BY Zenon, <1>1, <1>3 DEF Operating
  <2>2. \A q \in Operations : requestAt'[q] = "provisioning" <=> requestAt[q] = "provisioning"
    BY Zenon, <1>1, <1>3
  <2>3. QED
    BY ZenonT(40), <1>0, <1>1, <2>1, <2>2, SameWork
<1>5. /\ HostInv'
      /\ preparing' \in [Operations -> HostNames \cup {NoHost}]
      /\ hostPreparations' \in SUBSET HostNames
  <2>1. CASE v = "ending"
    <3>1. \A q \in Operations : requestAt'[q] \in {"claimed", "provisioning"} <=> requestAt[q] \in {"claimed", "provisioning"}
      BY Zenon, <1>1, <1>3, <2>1
    <3>2. QED
      BY ZenonT(40), <1>0, <1>2, <2>1, <3>1, SameHosts DEF RuntimeTypeOK
  <2>2. CASE v = "claimed"
    BY ZenonT(40), <1>0, <1>1, <1>2, <1>3, <2>2, ClaimedHost
  <2>3. QED
    BY Zenon, <2>1, <2>2
<1>6. begun' \in Nat
  BY Zenon, <1>0, <1>1 DEF RuntimeTypeOK
<1>7. QED
  BY ZenonT(40), <1>0, <1>1, <1>2, <1>4, <1>5, <1>6, RequestFrame

LEMMA ProvisionStep ==
  ASSUME RuntimeInv, NEW r \in Operations, provisionSession(r)
  PROVE  RuntimeInv'
<1>0. RuntimeTypeOK /\ WorkInv /\ HostInv /\ r \in ServeRequests
  BY Zenon DEF RuntimeInv, ServeRequests
<1>1. UNCHANGED serve /\ UNCHANGED closing /\ UNCHANGED loops /\ requestAt[r] = "claimed"
  BY Zenon DEF provisionSession
<1>2. r \in OperatingSet /\ r \notin ProvisioningSet
  BY Zenon, <1>1 DEF OperatingSet, ProvisioningSet, Operating
<1>3. CASE begin /\ requestAt' = [requestAt EXCEPT ![r] = "provisioning"] /\ UNCHANGED <<preparing, hostPreparations>>
  <2>1. requestAt'[r] = "provisioning" /\ \A q \in Operations \ {r} : requestAt'[q] = requestAt[q]
    BY Zenon, <1>0, <1>3 DEF RuntimeTypeOK, ServeRequests
  <2>2. OperatingSet' = OperatingSet \cup {r} /\ ProvisioningSet' = ProvisioningSet \cup {r}
    BY Zenon, <1>0, <1>3, MovedRequest
  <2>3. UNCHANGED OperatingSet
    BY SMTT(20), <1>2, <2>2
  <2>4. WorkInv' /\ begun' \in Nat
    BY ZenonT(40), <1>0, <1>1, <1>2, <1>3, <2>2, <2>3, RequestBegins DEF begin
  <2>5. \A q \in Operations : requestAt'[q] \in {"claimed", "provisioning"} <=> requestAt[q] \in {"claimed", "provisioning"}
    BY Zenon, <1>1, <2>1
  <2>6. HostInv'
    BY ZenonT(40), <1>0, <1>3, <2>5, SameHosts
  <2>7. QED
    BY ZenonT(40), <1>0, <1>1, <1>3, <2>4, <2>6, RequestFrame DEF RuntimeTypeOK, begin
<1>4. CASE beginRefused /\ requestAt' = [requestAt EXCEPT ![r] = "ending"] /\ ReleaseHost(r)
  <2>1. requestAt'[r] = "ending" /\ \A q \in Operations \ {r} : requestAt'[q] = requestAt[q]
    BY Zenon, <1>0, <1>4 DEF RuntimeTypeOK, ServeRequests
  <2>2. /\ HostInv'
        /\ preparing' \in [Operations -> HostNames \cup {NoHost}]
        /\ hostPreparations' \in SUBSET HostNames
    BY ZenonT(40), <1>0, <1>4, <2>1, ReleasedHost
  <2>3. WorkInv'
    <3>1. \A q \in Operations : Operating(q)' <=> Operating(q)
      BY Zenon, <1>1, <2>1 DEF Operating
    <3>2. \A q \in Operations : requestAt'[q] = "provisioning" <=> requestAt[q] = "provisioning"
      BY Zenon, <1>1, <2>1
    <3>3. QED
      BY ZenonT(40), <1>0, <1>1, <1>4, <3>1, <3>2, SameWork DEF beginRefused
  <2>4. QED
    BY ZenonT(40), <1>0, <1>1, <1>4, <2>2, <2>3, RequestFrame DEF RuntimeTypeOK, beginRefused
<1>5. QED
  BY Zenon, <1>3, <1>4 DEF provisionSession

LEMMA OperationEnds ==
  ASSUME RuntimeInv, NEW r \in Operations, Provisioned(r) \/ EndOperation(r)
  PROVE  RuntimeInv'
<1>0. RuntimeTypeOK /\ WorkInv /\ HostInv /\ r \in ServeRequests
  BY Zenon DEF RuntimeInv, ServeRequests
<1>1. UNCHANGED serve /\ UNCHANGED closing /\ UNCHANGED loops /\ begun' = begun - 1
  BY Zenon DEF Provisioned, EndOperation, done
<1>2. CASE Provisioned(r)
  <2>1. requestAt[r] = "provisioning" /\ requestAt' = [requestAt EXCEPT ![r] = "ending"] /\ ReleaseHost(r)
    BY Zenon, <1>2 DEF Provisioned
  <2>2. requestAt'[r] = "ending" /\ \A q \in Operations \ {r} : requestAt'[q] = requestAt[q]
    BY Zenon, <1>0, <2>1 DEF RuntimeTypeOK, ServeRequests
  <2>3. /\ HostInv'
        /\ preparing' \in [Operations -> HostNames \cup {NoHost}]
        /\ hostPreparations' \in SUBSET HostNames
    BY ZenonT(40), <1>0, <2>1, <2>2, ReleasedHost
  <2>4. r \in OperatingSet /\ r \in ProvisioningSet
    BY Zenon, <2>1 DEF OperatingSet, ProvisioningSet, Operating
  <2>5. OperatingSet' = OperatingSet \cup {r} /\ ProvisioningSet' = ProvisioningSet \ {r}
    <3>1. PICK v : v = "ending" /\ requestAt' = [requestAt EXCEPT ![r] = v]
      BY Zenon, <2>1
    <3>2. v \in {"operating", "claimed", "provisioning", "ending"} /\ v # "provisioning"
      BY Zenon, <3>1
    <3>3. QED
      BY ZenonT(40), <1>0, <3>1, <3>2, MovedRequest
  <2>6. UNCHANGED OperatingSet
    BY SMTT(20), <2>4, <2>5
  <2>7. WorkInv' /\ begun' \in Nat /\ begun # 0
    BY ZenonT(40), <1>0, <1>1, <2>4, <2>5, <2>6, RequestEnds
  <2>8. requestAt[r] # "none" /\ "ending" \in {"none", "handling", "operating", "claimed", "provisioning", "ending", "done"}
    BY Zenon, <2>1
  <2>9. QED
    BY ZenonT(40), <1>0, <1>1, <2>1, <2>3, <2>7, <2>8, RequestFrame
<1>3. CASE EndOperation(r)
  <2>1. /\ requestAt[r] \in {"operating", "ending"} /\ requestAt' = [requestAt EXCEPT ![r] = "done"]
        /\ UNCHANGED <<preparing, hostPreparations>>
    BY Zenon, <1>3 DEF EndOperation
  <2>2. requestAt'[r] = "done" /\ \A q \in Operations \ {r} : requestAt'[q] = requestAt[q]
    BY Zenon, <1>0, <2>1 DEF RuntimeTypeOK, ServeRequests
  <2>3. HostInv'
    <3>1. \A q \in Operations : requestAt'[q] \in {"claimed", "provisioning"} <=> requestAt[q] \in {"claimed", "provisioning"}
      BY Zenon, <2>1, <2>2
    <3>2. QED
      BY ZenonT(40), <1>0, <2>1, <3>1, SameHosts
  <2>4. r \in OperatingSet /\ r \notin ProvisioningSet
    BY Zenon, <2>1 DEF OperatingSet, ProvisioningSet, Operating
  <2>5. OperatingSet' = OperatingSet \ {r} /\ ProvisioningSet' = ProvisioningSet \ {r}
    <3>1. PICK v : v = "done" /\ requestAt' = [requestAt EXCEPT ![r] = v]
      BY Zenon, <2>1
    <3>2. v \notin {"operating", "claimed", "provisioning", "ending"} /\ v # "provisioning"
      BY Zenon, <3>1
    <3>3. QED
      BY ZenonT(40), <1>0, <3>1, <3>2, MovedRequest
  <2>6. UNCHANGED ProvisioningSet
    BY SMTT(20), <2>4, <2>5
  <2>7. WorkInv' /\ begun' \in Nat /\ begun # 0
    BY ZenonT(40), <1>0, <1>1, <2>4, <2>5, <2>6, RequestEnds
  <2>8. /\ requestAt[r] # "none" /\ "done" \in {"none", "handling", "operating", "claimed", "provisioning", "ending", "done"}
        /\ preparing' \in [Operations -> HostNames \cup {NoHost}]
        /\ hostPreparations' \in SUBSET HostNames
    BY ZenonT(40), <1>0, <2>1 DEF RuntimeTypeOK
  <2>9. QED
    BY ZenonT(40), <1>0, <1>1, <2>1, <2>3, <2>7, <2>8, RequestFrame
<1>4. QED
  BY Zenon, <1>2, <1>3

(* The loops and their passes.                                             *)
LEMMA PassFrame ==
  ASSUME RuntimeInv, NEW p \in Passes, NEW d \in {-1, 0, 1},
         UNCHANGED serve, UNCHANGED requests, UNCHANGED closing,
         loopAt' \in [Passes -> {"none", "waiting", "starting", "stopped"}],
         inFlight' \in [Passes -> BOOLEAN],
         running' \in [Passes -> Nat],
         refreshRecent' \in BOOLEAN,
         \A q \in Passes \ {p} :
            loopAt'[q] = loopAt[q] /\ inFlight'[q] = inFlight[q] /\ running'[q] = running[q],
         Looping(p)' + running'[p] = Looping(p) + running[p] + d,
         begun' = begun + d, d = 0 \/ Looping(p) = 1 \/ running[p] > 0,
         PassInv(p)'
  PROVE  RuntimeInv'
<1>1. RuntimeTypeOK /\ WorkInv /\ StageInv /\ (\A q \in Passes : PassInv(q)) /\ HostInv
  BY Zenon DEF RuntimeInv
<1>2. UNCHANGED <<serveAt, components, drainExpired, blocked>> /\ UNCHANGED <<requestAt, preparing, hostPreparations>>
  BY Zenon DEF serve, requests
<1>3. \A q \in Passes : Looping(q) \in {0, 1} /\ running[q] \in Nat /\ Looping(q)' \in {0, 1} /\ running'[q] \in Nat
  BY Zenon, <1>1, BackgroundType DEF Looping
<1>4. \A q \in Passes \ {p} : Looping(q)' = Looping(q) /\ running'[q] = running[q]
  BY Zenon DEF Looping
<1>5. Background' = Background + d /\ Background \in Nat /\ Background' \in Nat /\ (d = 0 \/ Background # 0)
  <2>1. CASE p = "refresh"
    <3>1. Looping("stats")' = Looping("stats") /\ running'["stats"] = running["stats"]
      BY SMTT(20), <1>4, <2>1 DEF Passes
    <3>2. QED
      BY SMTT(20), <1>3, <2>1, <3>1 DEF Background, Passes
  <2>2. CASE p = "stats"
    <3>1. Looping("refresh")' = Looping("refresh") /\ running'["refresh"] = running["refresh"]
      BY SMTT(20), <1>4, <2>2 DEF Passes
    <3>2. QED
      BY SMTT(20), <1>3, <2>2, <3>1 DEF Background, Passes
  <2>3. QED
    BY Zenon, <2>1, <2>2 DEF Passes
<1>6. begun = Cardinality(OperatingSet) + Cardinality(ProvisioningSet) + Background
  BY ZenonT(40), <1>1 DEF WorkInv
<1>7. /\ begun' = Cardinality(OperatingSet) + Cardinality(ProvisioningSet) + Background'
      /\ begun' \in Nat /\ (begun' = begun \/ begun # 0)
  BY SMTT(20), <1>1, <1>5, <1>6, WorkType
<1>8. WorkInv'
  BY ZenonT(40), <1>1, <1>2, <1>7, SameRequests DEF WorkInv
<1>9. RuntimeTypeOK'
  BY ZenonT(40), <1>1, <1>2, <1>7 DEF RuntimeTypeOK
<1>10. StageInv'
  BY ZenonT(40), <1>1, <1>2, <1>7 DEF StageInv
<1>11. ASSUME NEW q \in Passes PROVE PassInv(q)'
  <2>1. CASE q = p
    BY Zenon, <2>1
  <2>2. CASE q # p
    BY ZenonT(40), <1>1, <2>2 DEF PassInv
  <2>3. QED
    BY Zenon, <2>1, <2>2
<1>12. HostInv'
  BY Zenon, <1>1, <1>2, SameHosts
<1>13. QED
  BY ZenonT(40), <1>8, <1>9, <1>10, <1>11, <1>12 DEF RuntimeInv

LEMMA PassSteps ==
  ASSUME RuntimeInv, NEW p \in Passes,
         \/ p = "refresh" /\ (triggerRefresh \/ EndRefresh)
         \/ p = "stats" /\ (sampleAndAccount \/ EndStats)
         \/ start(p) \/ every(p)
  PROVE  RuntimeInv'
<1>0. RuntimeTypeOK /\ PassInv(p)
  BY Zenon DEF RuntimeInv
<1>1. /\ loopAt \in [Passes -> {"none", "waiting", "starting", "stopped"}] /\ inFlight \in [Passes -> BOOLEAN]
      /\ running \in [Passes -> Nat] /\ refreshRecent \in BOOLEAN /\ begun \in Nat /\ running[p] \in Nat
  BY Zenon, <1>0 DEF RuntimeTypeOK
<1>2. UNCHANGED serve /\ UNCHANGED requests /\ UNCHANGED closing
  BY Zenon DEF triggerRefresh, EndRefresh, sampleAndAccount, EndStats, start, every
<1>3. PICK l \in {"waiting", "starting", "stopped", loopAt[p]}, f \in BOOLEAN, n \in Nat, d \in {-1, 0, 1} :
        /\ loopAt' = [loopAt EXCEPT ![p] = l]
        /\ inFlight' = [inFlight EXCEPT ![p] = f]
        /\ running' = [running EXCEPT ![p] = n]
        /\ begun' = begun + d
        /\ \/ loopAt[p] = "waiting" /\ ~inFlight[p] /\ l = "starting" /\ f /\ n = running[p] /\ d = 0
           \/ loopAt[p] = "starting" /\ l = "waiting" /\ f = inFlight[p] /\ n = running[p] + 1 /\ d = 1
           \/ loopAt[p] = "starting" /\ l = "waiting" /\ ~f /\ n = running[p] /\ d = 0
           \/ running[p] > 0 /\ l = loopAt[p] /\ ~f /\ n = running[p] - 1 /\ d = -1
           \/ loopAt[p] = "waiting" /\ l = "stopped" /\ f = inFlight[p] /\ n = running[p] /\ d = -1
  <2>1. /\ loopAt = [loopAt EXCEPT ![p] = loopAt[p]] /\ inFlight = [inFlight EXCEPT ![p] = inFlight[p]]
        /\ running = [running EXCEPT ![p] = running[p]] /\ inFlight[p] \in BOOLEAN
    BY ZenonT(40), <1>1
  <2>2. begun + 0 = begun /\ begun + -1 = begun - 1 /\ running[p] + 1 \in Nat /\ (running[p] > 0 => running[p] - 1 \in Nat)
    BY SMTT(20), <1>1
  <2>3. CASE p = "refresh" /\ triggerRefresh
    BY ZenonT(40), <2>1, <2>2, <2>3, <1>1 DEF triggerRefresh
  <2>4. CASE p = "stats" /\ sampleAndAccount
    BY ZenonT(40), <2>1, <2>2, <2>4, <1>1 DEF sampleAndAccount
  <2>5. CASE start(p) /\ begin
    BY ZenonT(40), <2>1, <2>2, <2>5, <1>1 DEF start, begin, beginRefused
  <2>6. CASE start(p) /\ beginRefused
    BY ZenonT(40), <2>1, <2>2, <2>6, <1>1 DEF start, begin, beginRefused
  <2>7. CASE p = "refresh" /\ EndRefresh
    BY ZenonT(40), <2>1, <2>2, <2>7, <1>1 DEF EndRefresh, done
  <2>8. CASE p = "stats" /\ EndStats
    BY ZenonT(40), <2>1, <2>2, <2>8, <1>1 DEF EndStats, done
  <2>9. CASE every(p)
    BY ZenonT(40), <2>1, <2>2, <2>9, <1>1 DEF every, done
  <2>10. QED
    BY ZenonT(40), <2>3, <2>4, <2>5, <2>6, <2>7, <2>8, <2>9 DEF start
<1>4. refreshRecent' \in BOOLEAN
  BY Zenon, <1>1 DEF triggerRefresh, EndRefresh, sampleAndAccount, EndStats, start, every
<1>5. /\ loopAt' \in [Passes -> {"none", "waiting", "starting", "stopped"}] /\ loopAt'[p] = l
      /\ inFlight' \in [Passes -> BOOLEAN] /\ inFlight'[p] = f
      /\ running' \in [Passes -> Nat] /\ running'[p] = n
  BY ZenonT(40), <1>1, <1>3
<1>6. \A q \in Passes \ {p} : loopAt'[q] = loopAt[q] /\ inFlight'[q] = inFlight[q] /\ running'[q] = running[q]
  BY ZenonT(40), <1>1, <1>3
<1>7. /\ Looping(p)' + running'[p] = Looping(p) + running[p] + d
      /\ d = 0 \/ Looping(p) = 1 \/ running[p] > 0
  BY SMTT(20), <1>1, <1>3, <1>5 DEF Looping
<1>8. PassInv(p)'
  BY SMTT(20), <1>0, <1>1, <1>3, <1>5 DEF PassInv
<1>9. QED
  BY ZenonT(40), <1>2, <1>3, <1>4, <1>5, <1>6, <1>7, <1>8, PassFrame

LEMMA IdleStep ==
  ASSUME RuntimeInv, SecondPasses \/ UNCHANGED runtimeVars
  PROVE  RuntimeInv'
<1>1. RuntimeTypeOK /\ WorkInv /\ StageInv /\ (\A p \in Passes : PassInv(p)) /\ HostInv
  BY Zenon DEF RuntimeInv
<1>2. UNCHANGED serve /\ UNCHANGED requests /\ UNCHANGED <<closing, begun, loopAt, inFlight, running>>
      /\ refreshRecent' \in BOOLEAN
  BY Zenon, <1>1 DEF SecondPasses, runtimeVars, loops, RuntimeTypeOK
<1>3. UNCHANGED <<serveAt, components, drainExpired, blocked>> /\ UNCHANGED <<requestAt, preparing, hostPreparations>>
  BY Zenon, <1>2 DEF serve, requests
<1>4. RuntimeTypeOK'
  BY ZenonT(40), <1>1, <1>2, <1>3 DEF RuntimeTypeOK
<1>5. WorkInv'
  BY ZenonT(40), <1>1, <1>2, <1>3, SameRequests, SameBackground DEF WorkInv
<1>6. StageInv'
  BY ZenonT(40), <1>1, <1>2, <1>3 DEF StageInv
<1>7. (\A p \in Passes : PassInv(p))'
  BY Zenon, <1>1, <1>2 DEF PassInv
<1>8. HostInv'
  BY ZenonT(40), <1>1, <1>3, SameHosts
<1>9. QED
  BY ZenonT(40), <1>4, <1>5, <1>6, <1>7, <1>8 DEF RuntimeInv

LEMMA BlockStep ==
  ASSUME RuntimeInv, Block \/ Unblock
  PROVE  RuntimeInv'
<1>1. RuntimeTypeOK /\ StageInv
  BY Zenon DEF RuntimeInv
<1>2. /\ UNCHANGED requests /\ UNCHANGED loops /\ UNCHANGED <<serveAt, components, drainExpired, closing, begun>>
      /\ blocked' \in BOOLEAN
  BY Zenon DEF Block, Unblock
<1>3. UNCHANGED requestAt
  BY Zenon, <1>2 DEF requests
<1>4. StageInv'
  BY ZenonT(40), <1>1, <1>2, <1>3 DEF StageInv
<1>5. QED
  BY ZenonT(40), <1>1, <1>2, <1>4, ServeFrame DEF RuntimeTypeOK

LEMMA RuntimeStart ==
  ASSUME RuntimeInit
  PROVE  RuntimeInv
<1>1. \A r \in Operations : requestAt[r] = "none" /\ preparing[r] = NoHost
  BY Zenon DEF RuntimeInit, ServeRequests
<1>2. RuntimeTypeOK
  <2>1. components = SubSeq(Construction, 1, 0) /\ 0 \in 0 .. Len(Construction)
    <3>1. Len(Construction) = 4 /\ Len(SubSeq(Construction, 1, 0)) = 0
      BY SMTT(20), Prefixes
    <3>2. SubSeq(Construction, 1, 0) = <<>>
      BY SMTT(20) DEF Construction
    <3>3. QED
      BY SMTT(20), <3>1, <3>2 DEF RuntimeInit
  <2>2. components \in {SubSeq(Construction, 1, n) : n \in 0 .. Len(Construction)}
    BY Zenon, <2>1
  <2>3. begun \in Nat /\ running \in [Passes -> Nat]
    BY SMTT(20) DEF RuntimeInit
  <2>4. QED
    BY ZenonT(40), <2>2, <2>3 DEF RuntimeInit, RuntimeTypeOK
<1>3. WorkInv
  <2>1. OperatingSet = {} /\ ProvisioningSet = {}
    BY ZenonT(40), <1>1 DEF OperatingSet, ProvisioningSet, Operating
  <2>2. IsFiniteSet(OperatingSet) /\ IsFiniteSet(ProvisioningSet)
        /\ Cardinality(OperatingSet) = 0 /\ Cardinality(ProvisioningSet) = 0
    BY ZenonT(40), <2>1, FS_EmptySet
  <2>3. \A p \in Passes : Looping(p) = 0 /\ running[p] = 0
    BY Zenon DEF RuntimeInit, Looping
  <2>4. Background = 0
    BY SMTT(20), <2>3 DEF Background, Passes
  <2>5. begun = Cardinality(OperatingSet) + Cardinality(ProvisioningSet) + Background
    BY SMTT(20), <2>2, <2>4 DEF RuntimeInit
  <2>6. QED
    BY ZenonT(40), <2>2, <2>5 DEF WorkInv
<1>4. StageInv
  BY Zenon DEF RuntimeInit, StageInv
<1>5. \A p \in Passes : PassInv(p)
  BY SMTT(20) DEF RuntimeInit, PassInv
<1>6. HostInv
  <2>1. hostPreparations = {preparing[r] : r \in Operations} \ {NoHost}
    BY SMTT(20), <1>1 DEF RuntimeInit
  <2>2. QED
    BY ZenonT(40), <1>1, <2>1 DEF HostInv
<1>7. QED
  BY ZenonT(40), <1>2, <1>3, <1>4, <1>5, <1>6 DEF RuntimeInv

LEMMA RuntimeStep == RuntimeInv /\ [RuntimeNext]_runtimeVars => RuntimeInv'
<1> SUFFICES ASSUME RuntimeInv, [RuntimeNext]_runtimeVars PROVE RuntimeInv'
  OBVIOUS
<1>1. CASE ServeStep
  BY ZenonT(40), <1>1, StagesStep, TeardownStages, ConstructionStep DEF ServeStep, TeardownStep
<1>2. CASE (\E r \in ServeRequests : Arrive(r)) \/ (\E r \in Reads \cup Streams : Answer(r))
  BY ZenonT(40), <1>2, ReadStep
<1>3. CASE \E r \in Operations : OperationStep(r)
  BY ZenonT(40), <1>3, OperationBegins, HostClaimStep, ProvisionStep, OperationEnds DEF OperationStep
<1>4. CASE triggerRefresh
  BY ZenonT(40), <1>4, PassSteps DEF Passes
<1>5. CASE sampleAndAccount
  BY ZenonT(40), <1>5, PassSteps DEF Passes
<1>6. CASE \E p \in Passes : PassStep(p) \/ every(p)
  BY ZenonT(40), <1>6, PassSteps DEF PassStep
<1>7. CASE SecondPasses \/ UNCHANGED runtimeVars
  BY ZenonT(40), <1>7, IdleStep
<1>8. CASE Block \/ Unblock
  BY ZenonT(40), <1>8, BlockStep
<1>9. QED
  BY ZenonT(40), <1>1, <1>2, <1>3, <1>4, <1>5, <1>6, <1>7, <1>8 DEF RuntimeNext

(* RuntimeInv is inductive.                                                *)
THEOREM RuntimeInvariant == RuntimeSpec => []RuntimeInv
BY RuntimeStart, RuntimeStep, PTL DEF RuntimeSpec

(* The closers are a prefix of the order of construction, and no operation *)
(* or pass takes the wait group below zero.                                *)
THEOREM RuntimeTypes == RuntimeSpec => []RuntimeTypeOK
<1>1. RuntimeInv => RuntimeTypeOK
  BY ZenonT(40) DEF RuntimeInv
<1>2. QED
  BY <1>1, RuntimeInvariant, PTL

(* A loop's flag and a host's mark are set exactly while one pass or one   *)
(* operation is there to clear it, however many operations there are.      *)
THEOREM MarksAreOwned == RuntimeSpec => []MarksHaveOwners
<1>1. RuntimeInv => MarksHaveOwners
  <2> SUFFICES ASSUME RuntimeInv PROVE MarksHaveOwners
    OBVIOUS
  <2>1. ASSUME NEW p \in Passes
        PROVE  running[p] <= 1 /\ (inFlight[p] <=> running[p] = 1 \/ loopAt[p] = "starting")
    <3>1. PassInv(p)
      BY ZenonT(40) DEF RuntimeInv
    <3>2. running[p] <= 1
      BY SMTT(20), <3>1 DEF PassInv
    <3>3. QED
      BY ZenonT(40), <3>1, <3>2 DEF PassInv
  <2>2. QED
    BY Zenon, <2>1 DEF RuntimeInv, HostInv, MarksHaveOwners
<1>2. QED
  BY <1>1, RuntimeInvariant, PTL

(* While an operation, a loop or a pass runs, the database, the control    *)
(* masters and the broker are open, even when the drain timed out.         *)
THEOREM WorkHasComponents == RuntimeSpec => []WorkKeepsComponents
<1>1. RuntimeInv => WorkKeepsComponents
  <2> SUFFICES ASSUME RuntimeInv,
                      \/ \E r \in Operations : Operating(r)
                      \/ \E p \in Passes : running[p] > 0 \/ loopAt[p] \in {"waiting", "starting"}
               PROVE  {"database", "control", "tunnel"} \subseteq Open
    BY Zenon DEF WorkKeepsComponents
  <2>0. RuntimeTypeOK /\ WorkInv /\ StageInv
    BY Zenon DEF RuntimeInv
  <2>1. begun # 0
    <3> SUFFICES ASSUME begun = 0 PROVE FALSE
      OBVIOUS
    <3>1. /\ \A r \in Operations : ~Operating(r)
          /\ \A p \in Passes : Looping(p) = 0 /\ running[p] = 0
      BY Zenon, <2>0, NothingBegun
    <3>2. PICK p \in Passes : running[p] > 0 \/ loopAt[p] \in {"waiting", "starting"}
      BY Zenon, <3>1
    <3>3. Looping(p) = 0 /\ running[p] = 0
      BY ZenonT(40), <3>1
    <3>4. QED
      BY SMTT(20), <3>2, <3>3 DEF Looping
  <2>2. PICK n \in 0 .. 4 : components = SubSeq(Construction, 1, n) /\ Len(components) = n
    BY ZenonT(40), <2>0, Stages
  <2>3. n = 4
    <3>1. ~(n < 4)
      BY ZenonT(40), <2>0, <2>1, <2>2 DEF StageInv
    <3>2. QED
      BY SMTT(20), <3>1
  <2>4. components = SubSeq(Construction, 1, 4) /\ Len(components) = 4
    BY ZenonT(40), <2>2, <2>3
  <2>5. components[1] = "database" /\ components[2] = "control" /\ components[3] = "tunnel"
    <3>1. \A i \in 1 .. 4 : components[i] = Construction[i]
      BY ZenonT(40), <2>4, Prefixes
    <3>2. QED
      BY SMTT(20), <3>1 DEF Construction
  <2>6. DOMAIN components = 1 .. 4
    <3>1. components \in Seq({"database", "control", "tunnel", "session"})
      <4>1. \A i \in 1 .. 4 : Construction[i] \in {"database", "control", "tunnel", "session"}
        BY SMTT(20) DEF Construction
      <4>2. QED
        BY SMTT(20), <2>4, <4>1, SubSeqProperties
    <3>2. QED
      BY SMTT(20), <2>4, <3>1
  <2>7. 1 \in DOMAIN components /\ 2 \in DOMAIN components /\ 3 \in DOMAIN components
    BY SMTT(20), <2>6
  <2>8. QED
    BY ZenonT(40), <2>5, <2>7 DEF Open
<1>2. QED
  BY <1>1, RuntimeInvariant, PTL

(* The two components share no state: a step of their composition is one   *)
(* of each, or leaves it alone, and so both keep their types beside each   *)
(* other; no wait group drops below zero.                                  *)
THEOREM ProcessTypes == MCSpec => []MCTypeOK
<1>1. MCInit => ControlInv /\ RuntimeInv
  BY Zenon, ControlStart, RuntimeStart DEF MCInit
<1>2. ControlInv /\ RuntimeInv /\ [MCNext]_processVars => (ControlInv /\ RuntimeInv)'
  <2>1. [MCNext]_processVars => [ControlNext]_controlVars /\ [RuntimeNext]_runtimeVars
    BY Zenon DEF MCNext, Logging, Serving, Returned, processVars
  <2>2. QED
    BY Zenon, <2>1, ControlStep, RuntimeStep
<1>3. ControlInv /\ RuntimeInv => MCTypeOK
  BY Zenon DEF ControlInv, RuntimeInv, MCTypeOK
<1>4. QED
  BY <1>1, <1>2, <1>3, PTL DEF MCSpec
=============================================================================
