-------------------------- MODULE Accounts_proofs ---------------------------
(***************************************************************************)
(* Who a request acts for, for any number of requests, principals,         *)
(* authorizations, keys and users: the account broker, the cache of the    *)
(* issuer's signing keys and the cache of Custos users.                    *)
(*                                                                         *)
(* The broker's argument is about the credential lock: whoever is between  *)
(* loading, asking and saving holds the lock of its principal, an          *)
(* authorization is only ever polled under the lock of the principal that  *)
(* started it, and so everything that is learnt about a link or an         *)
(* authorization under the lock is still true when it is used.             *)
(***************************************************************************)
EXTENDS TunnelBroker, SigningKeys, CustosUsers, FiniteSetTheorems, TLAPS

Polling == {"lookup", "asking", "pending", "error", "tokens", "saving"}
Steps == {"idle", "starting", "load", "refresh", "refreshed"} \cup Polling
Holding == Steps \ {"idle", "starting"}

CallerState ==
    [at : Steps, principal : Principals \cup {NoBody}, handle : Handles \cup {NoBody},
     link : (Handles \cup {NoBody}) \X Nat]

(* Types, as far as the argument needs them.                               *)
Shape ==
    /\ entries \in SUBSET Handles
    /\ startedBy \in [Handles -> Principals \cup {NoBody}]
    /\ credentialLock \in [Principals -> Callers \cup {NoBody}]
    /\ tunnelLinks \in [Principals -> (Handles \cup {NoBody}) \X Nat]
    /\ unsaved \in SUBSET Principals
    /\ caller \in [Callers -> CallerState]
    /\ redeemed \in [Handles -> Nat]
    /\ issued \in [Handles -> Nat]

(* What a request knows: it holds the lock of its principal, the           *)
(* authorization it polls is its principal's, the tokens it was given are  *)
(* the last ones, and the link it refreshes is still the stored one.       *)
CallerHolds(c) ==
    /\ caller[c].at # "idle" => caller[c].principal \in Principals
    /\ caller[c].at \in Holding => credentialLock[caller[c].principal] = c

CallerPolls(c) ==
    /\ caller[c].at \in Polling => caller[c].handle \in Handles
    /\ caller[c].at \in Polling \ {"lookup"} => startedBy[caller[c].handle] = caller[c].principal
    /\ caller[c].at = "asking" => redeemed[caller[c].handle] = 0
    /\ caller[c].at \in {"tokens", "saving"} =>
          caller[c].link = <<caller[c].handle, 1>> /\ redeemed[caller[c].handle] = 1 /\ issued[caller[c].handle] = 1

CallerRefreshes(c) ==
    /\ caller[c].at \in {"refresh", "refreshed"} =>
          tunnelLinks[caller[c].principal] # NoLink /\ caller[c].link[1] = tunnelLinks[caller[c].principal][1]
    /\ caller[c].at = "refresh" => caller[c].link = tunnelLinks[caller[c].principal]
    /\ caller[c].at = "refreshed" => caller[c].link[2] = issued[caller[c].link[1]]

(* An authorization is exchanged once: while it is in the table afterwards,*)
(* the request that exchanged it still holds the lock.                     *)
HandleOnce(h) ==
    /\ redeemed[h] \in {0, 1}
    /\ startedBy[h] = NoBody => redeemed[h] = 0 /\ h \notin entries
    /\ redeemed[h] = 1 /\ h \in entries =>
          /\ credentialLock[startedBy[h]] \in Callers
          /\ caller[credentialLock[startedBy[h]]].at = "tokens"
          /\ caller[credentialLock[startedBy[h]]].handle = h

Refreshed(p) ==
    /\ credentialLock[p] \in Callers
    /\ caller[credentialLock[p]].at = "refreshed"
    /\ caller[credentialLock[p]].principal = p

LinkOwned(p) ==
    tunnelLinks[p] # NoLink => tunnelLinks[p][1] \in Handles /\ startedBy[tunnelLinks[p][1]] = p /\ redeemed[tunnelLinks[p][1]] = 1

LinkGood(p) ==
    tunnelLinks[p] # NoLink /\ p \notin unsaved /\ ~Refreshed(p) => tunnelLinks[p][2] = issued[tunnelLinks[p][1]]

LockInv ==
    /\ Shape
    /\ \A c \in Callers : CallerHolds(c) /\ CallerPolls(c) /\ CallerRefreshes(c)
    /\ \A h \in Handles : HandleOnce(h)
    /\ \A p \in Principals : LinkOwned(p) /\ LinkGood(p)

----------------------------------------------------------------------------
LEMMA NothingHeld == BrokerInit => LockInv
BY BrokerAssumption
DEF BrokerInit, LockInv, Shape, CallerHolds, CallerPolls, CallerRefreshes, HandleOnce, Refreshed, LinkOwned, LinkGood,
    CallerState, Polling, Steps, Holding, Calling, Idle, NoLink

LEMMA StateTypes ==
    ASSUME NEW step \in Steps, NEW p \in Principals \cup {NoBody}, NEW h \in Handles \cup {NoBody},
           NEW link \in (Handles \cup {NoBody}) \X Nat
    PROVE  Calling(step, p, h, link) \in CallerState
BY Zenon DEF Calling, CallerState

LEMMA IdleType == Idle \in CallerState /\ Idle.at = "idle" /\ NoLink \in (Handles \cup {NoBody}) \X Nat
BY Zenon DEF Idle, Calling, CallerState, NoLink, Steps

LEMMA FieldTypes ==
    ASSUME Shape, NEW c \in Callers
    PROVE  /\ caller[c] \in CallerState
           /\ caller[c].at \in Steps
           /\ caller[c].principal \in Principals \cup {NoBody}
           /\ caller[c].handle \in Handles \cup {NoBody}
           /\ caller[c].link \in (Handles \cup {NoBody}) \X Nat
BY Zenon DEF Shape, CallerState

(* Two requests never hold the lock of one principal.                      *)
LEMMA Exclusive ==
    ASSUME LockInv, NEW c \in Callers, NEW d \in Callers, caller[c].at \in Holding, caller[d].at \in Holding,
           caller[c].principal = caller[d].principal
    PROVE  c = d
BY Zenon DEF LockInv, CallerHolds

(* A request goes from one step to the next and leaves what is stored      *)
(* alone.                                                                  *)
LEMMA Advance ==
    ASSUME LockInv, NEW c \in Callers, NEW next \in CallerState,
           caller' = [caller EXCEPT ![c] = next],
           entries' \in SUBSET entries,
           UNCHANGED <<startedBy, credentialLock, tunnelLinks, unsaved, redeemed, issued>>,
           caller[c].at # "refreshed",
           caller[c].at = "tokens" => caller[c].handle \notin entries',
           (CallerHolds(c) /\ CallerPolls(c) /\ CallerRefreshes(c))'
    PROVE  LockInv'
<1>1. Shape'
  BY Zenon DEF LockInv, Shape
<1>2. caller'[c] = next /\ \A d \in Callers \ {c} : caller'[d] = caller[d]
  BY ZenonT(40) DEF LockInv, Shape
<1>3. ASSUME NEW d \in Callers PROVE (CallerHolds(d) /\ CallerPolls(d) /\ CallerRefreshes(d))'
  BY SMTT(20), <1>2 DEF LockInv, CallerHolds, CallerPolls, CallerRefreshes
<1>4. ASSUME NEW h \in Handles PROVE HandleOnce(h)'
  BY <1>2 DEF LockInv, HandleOnce
<1>5. ASSUME NEW q \in Principals PROVE LinkOwned(q)'
  BY Zenon DEF LockInv, LinkOwned
<1>6. ASSUME NEW q \in Principals PROVE LinkGood(q)'
  BY <1>2 DEF LockInv, LinkGood, Refreshed
<1> QED BY Zenon, <1>1, <1>3, <1>4, <1>5, <1>6 DEF LockInv

(* A request that gives its principal's lock back, having stored nothing.  *)
LEMMA LetsGo ==
    ASSUME LockInv, NEW c \in Callers,
           caller' = [caller EXCEPT ![c] = Idle],
           caller[c].at \in Holding \ {"tokens", "refreshed"},
           credentialLock' = [credentialLock EXCEPT ![caller[c].principal] = NoBody],
           entries' \in SUBSET entries,
           UNCHANGED <<startedBy, tunnelLinks, unsaved, redeemed, issued>>
    PROVE  LockInv'
<1>1. Shape'
  BY Zenon, IdleType DEF LockInv, Shape
<1>2. /\ caller'[c] = Idle
      /\ \A d \in Callers \ {c} : caller'[d] = caller[d]
      /\ caller[c].principal \in Principals
      /\ credentialLock[caller[c].principal] = c
  BY Zenon DEF LockInv, Shape, CallerHolds, Holding
<1>3. \A q \in Principals : credentialLock'[q] = IF q = caller[c].principal THEN NoBody ELSE credentialLock[q]
  BY Zenon DEF LockInv, Shape
<1>4. ASSUME NEW d \in Callers PROVE CallerHolds(d)'
  BY SMTT(20), <1>2, <1>3, IdleType DEF LockInv, CallerHolds, Holding
<1>5. ASSUME NEW d \in Callers PROVE (CallerPolls(d) /\ CallerRefreshes(d))'
  BY SMTT(20), <1>2, IdleType DEF LockInv, CallerPolls, CallerRefreshes, Polling
<1>6. ASSUME NEW h \in Handles PROVE HandleOnce(h)'
  <2>1. startedBy[h] # NoBody => startedBy[h] \in Principals
    BY Zenon DEF LockInv, Shape
  <2> QED BY <1>2, <1>3, <2>1 DEF LockInv, HandleOnce, Holding
<1>7. ASSUME NEW q \in Principals PROVE LinkOwned(q)'
  BY Zenon DEF LockInv, LinkOwned
<1>8. ASSUME NEW q \in Principals PROVE LinkGood(q)'
  BY SMTT(20), <1>2, <1>3, IdleType DEF LockInv, LinkGood, Refreshed
<1> QED BY Zenon, <1>1, <1>4, <1>5, <1>6, <1>7, <1>8 DEF LockInv

----------------------------------------------------------------------------
(* One lemma per action.                                                   *)

LEMMA StartKeeps ==
    ASSUME LockInv, NEW c \in Callers, NEW p \in Principals, start(c, p) \/ StartFails(c)
    PROVE  LockInv'
<1>1. /\ entries' \in SUBSET entries
      /\ UNCHANGED <<startedBy, credentialLock, tunnelLinks, unsaved, redeemed, issued>>
  BY Zenon DEF start, StartFails, table, stored, provider
<1>2. caller[c].at \in {"idle", "starting"}
  BY ZenonT(40), IdleType DEF start, StartFails
<1>3. CASE caller' = caller
  BY <1>1, <1>3 DEF LockInv, Shape, CallerHolds, CallerPolls, CallerRefreshes, HandleOnce, LinkOwned, LinkGood, Refreshed
<1>4. ASSUME NEW next \in CallerState, next.at = "idle" \/ (next.at = "starting" /\ next.principal \in Principals),
             caller' = [caller EXCEPT ![c] = next]
      PROVE  LockInv'
  <2>1. caller'[c] = next
    BY Zenon, <1>4 DEF LockInv, Shape
  <2>2. (CallerHolds(c) /\ CallerPolls(c) /\ CallerRefreshes(c))'
    BY Zenon, <1>4, <2>1 DEF CallerHolds, CallerPolls, CallerRefreshes, Holding, Polling
  <2> QED BY Zenon, <1>1, <1>2, <1>4, <2>2, Advance
<1>5. /\ Calling("starting", p, NoBody, NoLink) \in CallerState
      /\ Calling("starting", p, NoBody, NoLink).at = "starting"
      /\ Calling("starting", p, NoBody, NoLink).principal = p
  BY Zenon, StateTypes, IdleType DEF Steps, Calling
<1> QED BY Zenon, <1>3, <1>4, <1>5, IdleType DEF start, StartFails, Becomes

LEMMA AddEntryKeeps ==
    ASSUME LockInv, NEW c \in Callers, NEW g \in Handles, AddEntry(c, g)
    PROVE  LockInv'
<1>1. /\ caller' = [caller EXCEPT ![c] = Idle]
      /\ startedBy' = [startedBy EXCEPT ![g] = caller[c].principal]
      /\ entries' \in SUBSET (entries \cup {g})
      /\ UNCHANGED <<credentialLock, tunnelLinks, unsaved, redeemed, issued>>
      /\ caller[c].at = "starting"
      /\ startedBy[g] = NoBody
  BY Zenon DEF AddEntry, Becomes, stored, provider
<1>2. caller'[c] = Idle /\ \A d \in Callers \ {c} : caller'[d] = caller[d]
  BY Zenon, <1>1 DEF LockInv, Shape
<1>3. \A h \in Handles : startedBy'[h] = IF h = g THEN caller[c].principal ELSE startedBy[h]
  BY Zenon, <1>1 DEF LockInv, Shape
<1>4. Shape'
  BY ZenonT(40), <1>1, IdleType, FieldTypes DEF LockInv, Shape
<1>5. ASSUME NEW d \in Callers PROVE (CallerHolds(d) /\ CallerRefreshes(d))'
  BY <1>1, <1>2, IdleType DEF LockInv, CallerHolds, CallerRefreshes, Holding
<1>6. ASSUME NEW d \in Callers PROVE CallerPolls(d)'
  <2>1. CASE d = c
    BY ZenonT(40), <1>2, <2>1, IdleType DEF CallerPolls, Polling
  <2>2. CASE d # c
    <3>1. caller[d].at \in Polling \ {"lookup"} => caller[d].handle # g
      BY ZenonT(40), <1>1, BrokerAssumption DEF LockInv, CallerPolls, CallerHolds, Polling
    <3> QED BY SMTT(20), <1>1, <1>2, <1>3, <2>2, <3>1 DEF LockInv, CallerPolls, Polling
  <2> QED BY Zenon, <2>1, <2>2
<1>7. ASSUME NEW h \in Handles PROVE HandleOnce(h)'
  <2>1. redeemed[g] = 0
    BY ZenonT(40), <1>1 DEF LockInv, HandleOnce
  <2>2. CASE h = g
    BY SMTT(20), <1>1, <1>3, <2>1, <2>2, BrokerAssumption DEF LockInv, CallerHolds, HandleOnce
  <2>3. CASE h # g
    BY SMTT(20), <1>1, <1>2, <1>3, <2>3 DEF LockInv, HandleOnce
  <2> QED BY Zenon, <2>2, <2>3
<1>8. ASSUME NEW q \in Principals PROVE LinkOwned(q)'
  BY SMTT(20), <1>1, <1>3, BrokerAssumption DEF LockInv, LinkOwned
<1>9. ASSUME NEW q \in Principals PROVE LinkGood(q)'
  BY ZenonT(40), <1>1, <1>2, IdleType DEF LockInv, LinkGood, Refreshed
<1> QED BY Zenon, <1>4, <1>5, <1>6, <1>7, <1>8, <1>9 DEF LockInv

(* poll and Credential take the lock.                                      *)
LEMMA TakesLock ==
    ASSUME LockInv, NEW c \in Callers, NEW p \in Principals, NEW next \in CallerState,
           next.at = "load" \/ (next.at = "lookup" /\ next.handle \in Handles), next.principal = p,
           caller[c].at = "idle", caller' = [caller EXCEPT ![c] = next],
           withCredentialLock(c, p),
           UNCHANGED <<entries, startedBy, tunnelLinks, unsaved, redeemed, issued>>
    PROVE  LockInv'
<1>1. caller'[c] = next /\ \A d \in Callers \ {c} : caller'[d] = caller[d]
  BY Zenon DEF LockInv, Shape
<1>2. /\ credentialLock[p] = NoBody
      /\ \A q \in Principals : credentialLock'[q] = IF q = p THEN c ELSE credentialLock[q]
  BY Zenon DEF LockInv, Shape, withCredentialLock
<1>3. Shape'
  BY Zenon DEF LockInv, Shape, withCredentialLock
<1>4. ASSUME NEW d \in Callers PROVE CallerHolds(d)'
  BY SMTT(20), <1>1, <1>2, BrokerAssumption DEF LockInv, CallerHolds, Holding
<1>5. ASSUME NEW d \in Callers PROVE (CallerPolls(d) /\ CallerRefreshes(d))'
  BY SMTT(20), <1>1 DEF LockInv, CallerPolls, CallerRefreshes, Polling
<1>6. ASSUME NEW h \in Handles PROVE HandleOnce(h)'
  <2>1. startedBy[h] # NoBody => startedBy[h] \in Principals
    BY Zenon DEF LockInv, Shape
  <2> QED BY SMTT(20), <1>1, <1>2, <2>1, BrokerAssumption DEF LockInv, HandleOnce
<1>7. ASSUME NEW q \in Principals PROVE LinkOwned(q)'
  BY Zenon DEF LockInv, LinkOwned
<1>8. ASSUME NEW q \in Principals PROVE LinkGood(q)'
  BY <1>1, <1>2, BrokerAssumption DEF LockInv, LinkGood, Refreshed
<1> QED BY Zenon, <1>3, <1>4, <1>5, <1>6, <1>7, <1>8 DEF LockInv

LEMMA PollKeeps ==
    ASSUME LockInv, NEW c \in Callers, NEW p \in Principals, NEW g \in Handles, poll(c, p, g)
    PROVE  LockInv'
<1> DEFINE next == Calling("lookup", p, g, NoLink)
<1>1. next \in CallerState /\ next.at = "lookup" /\ next.handle \in Handles /\ next.principal = p
  BY Zenon, StateTypes, IdleType DEF Steps, Polling, Calling
<1>2. /\ caller[c].at = "idle" /\ withCredentialLock(c, p) /\ caller' = [caller EXCEPT ![c] = next]
      /\ UNCHANGED <<entries, startedBy, tunnelLinks, unsaved, redeemed, issued>>
  BY Zenon, IdleType DEF poll, Becomes, table, provider
<1> HIDE DEF next
<1> QED BY Zenon, <1>1, <1>2, TakesLock

LEMMA CredentialKeeps ==
    ASSUME LockInv, NEW c \in Callers, NEW p \in Principals, Credential(c, p)
    PROVE  LockInv'
<1> DEFINE next == Calling("load", p, NoBody, NoLink)
<1>1. next \in CallerState /\ next.at = "load" /\ next.principal = p
  BY Zenon, StateTypes, IdleType DEF Steps, Calling
<1>2. /\ caller[c].at = "idle" /\ withCredentialLock(c, p) /\ caller' = [caller EXCEPT ![c] = next]
      /\ UNCHANGED <<entries, startedBy, tunnelLinks, unsaved, redeemed, issued>>
  BY Zenon, IdleType DEF Credential, Becomes, table, provider
<1> HIDE DEF next
<1> QED BY Zenon, <1>1, <1>2, TakesLock

(* An authorization found in the table was not exchanged before: whoever   *)
(* exchanged it would still hold the lock.                                 *)
LEMMA LookupKeeps ==
    ASSUME LockInv, NEW c \in Callers, pollCredentialLocked(c)
    PROVE  LockInv'
<1>1. /\ entries' \in SUBSET entries /\ caller[c].at = "lookup"
      /\ UNCHANGED <<startedBy, tunnelLinks, unsaved, redeemed, issued>>
  BY Zenon DEF pollCredentialLocked, provider
<1>2. CASE Unlock(c) /\ Becomes(c, Idle)
  BY Zenon, <1>1, <1>2, LetsGo DEF Unlock, Becomes, Holding, Steps, Polling
<1>3. CASE Found(c) /\ Moves(c, "asking") /\ credentialLock' = credentialLock
  <2> DEFINE next == [caller[c] EXCEPT !.at = "asking"]
  <2>1. /\ next \in CallerState /\ next.at = "asking" /\ next.principal = caller[c].principal
        /\ next.handle = caller[c].handle
    BY Zenon, FieldTypes DEF LockInv, CallerState, Steps, Polling
  <2>2. caller' = [caller EXCEPT ![c] = next] /\ caller'[c] = next
    BY ZenonT(40), <1>3 DEF Moves, Becomes, LockInv, Shape
  <2> HIDE DEF next
  <2>3. CallerHolds(c)' /\ CallerRefreshes(c)'
    BY SMTT(20), <1>1, <1>3, <2>1, <2>2 DEF LockInv, CallerHolds, CallerRefreshes, Holding, Steps, Polling
  <2>4. redeemed[caller[c].handle] = 0
    BY <1>1, <1>3 DEF LockInv, Found, CallerHolds, CallerPolls, HandleOnce, Holding, Steps, Polling
  <2>5. CallerPolls(c)'
    BY ZenonT(40), <1>1, <1>3, <2>1, <2>2, <2>4 DEF LockInv, CallerPolls, Found, Polling
  <2> QED BY Zenon, <1>1, <1>3, <2>1, <2>2, <2>3, <2>5, Advance
<1> QED BY Zenon, <1>2, <1>3 DEF pollCredentialLocked

LEMMA PollUnansweredKeeps ==
    ASSUME LockInv, NEW c \in Callers, PollPending(c) \/ PollError(c)
    PROVE  LockInv'
<1>1. PICK step \in {"pending", "error"} : Moves(c, step)
  BY Zenon DEF PollPending, PollError
<1>2. /\ entries' \in SUBSET entries /\ caller[c].at = "asking"
      /\ UNCHANGED <<startedBy, credentialLock, tunnelLinks, unsaved, redeemed, issued>>
  BY Zenon DEF PollPending, PollError, table, stored, provider
<1> DEFINE next == [caller[c] EXCEPT !.at = step]
<1>3. /\ next \in CallerState /\ next.at = step /\ next.principal = caller[c].principal
      /\ next.handle = caller[c].handle
  BY ZenonT(40), FieldTypes DEF LockInv, CallerState, Steps, Polling
<1>4. caller' = [caller EXCEPT ![c] = next] /\ caller'[c] = next
  BY Zenon, <1>1 DEF Moves, Becomes, LockInv, Shape
<1> HIDE DEF next
<1>5. (CallerHolds(c) /\ CallerPolls(c) /\ CallerRefreshes(c))'
  BY SMTT(20), <1>2, <1>3, <1>4 DEF LockInv, CallerHolds, CallerPolls, CallerRefreshes, Holding, Steps, Polling
<1> QED BY Zenon, <1>2, <1>3, <1>4, <1>5, Advance

(* The exchange.  Nobody else polls the authorization and no link came     *)
(* from it yet.                                                            *)
LEMMA PollTokensKeeps ==
    ASSUME LockInv, NEW c \in Callers, PollTokens(c)
    PROVE  LockInv'
<1> DEFINE g == caller[c].handle
           next == Calling("tokens", caller[c].principal, g, <<g, 1>>)
<1>1. /\ caller[c].at = "asking" /\ g \in Handles /\ startedBy[g] = caller[c].principal /\ redeemed[g] = 0
      /\ caller[c].principal \in Principals /\ credentialLock[caller[c].principal] = c
  BY Zenon DEF PollTokens, LockInv, CallerHolds, CallerPolls, Holding, Steps, Polling
<1>2. /\ redeemed' = [redeemed EXCEPT ![g] = @ + 1] /\ issued' = [issued EXCEPT ![g] = 1]
      /\ caller' = [caller EXCEPT ![c] = next]
      /\ UNCHANGED <<entries, startedBy, credentialLock, tunnelLinks, unsaved>>
  BY Zenon DEF PollTokens, Becomes, stored
<1>3. /\ next \in CallerState /\ next.at = "tokens" /\ next.principal = caller[c].principal /\ next.handle = g
      /\ next.link = <<g, 1>>
  BY Zenon, <1>1, StateTypes DEF Calling, Steps, Polling
<1> HIDE DEF next
<1>4. caller'[c] = next /\ \A d \in Callers \ {c} : caller'[d] = caller[d]
  BY Zenon, <1>2 DEF LockInv, Shape
<1>5. /\ redeemed'[g] = 1 /\ issued'[g] = 1
      /\ \A h \in Handles \ {g} : redeemed'[h] = redeemed[h] /\ issued'[h] = issued[h]
  BY SMTT(20), <1>1, <1>2 DEF LockInv, Shape
<1>6. Shape'
  BY SMTT(20), <1>1, <1>2, <1>3 DEF LockInv, Shape
<1>7. ASSUME NEW q \in Principals, tunnelLinks[q] # NoLink PROVE tunnelLinks[q][1] \in Handles \ {g}
  BY <1>1, <1>7 DEF LockInv, LinkOwned
<1>8. ASSUME NEW d \in Callers, d # c PROVE (CallerHolds(d) /\ CallerPolls(d) /\ CallerRefreshes(d))'
  <2>1. caller[d].at \in Polling \ {"lookup"} => caller[d].handle \in Handles \ {g}
    BY <1>1, <1>8 DEF LockInv, CallerHolds, CallerPolls, Holding, Steps, Polling
  <2>2. CallerHolds(d)'
    BY ZenonT(40), <1>2, <1>4, <1>8 DEF LockInv, CallerHolds
  <2>3. CallerPolls(d)'
    BY SMTT(20), <1>2, <1>4, <1>5, <1>8, <2>1 DEF LockInv, CallerPolls, Polling
  <2>4. caller[d].at \in {"refresh", "refreshed"} => caller[d].principal \in Principals /\ caller[d].link[1] \in Handles \ {g}
    BY ZenonT(40), <1>7, <1>8 DEF LockInv, CallerHolds, CallerRefreshes
  <2>5. CallerRefreshes(d)'
    BY SMTT(20), <1>2, <1>4, <1>5, <1>8, <2>4 DEF LockInv, CallerRefreshes
  <2> QED BY Zenon, <2>2, <2>3, <2>5
<1>9. (CallerHolds(c) /\ CallerPolls(c) /\ CallerRefreshes(c))'
  BY ZenonT(40), <1>1, <1>2, <1>3, <1>4, <1>5 DEF CallerHolds, CallerPolls, CallerRefreshes
<1>10. ASSUME NEW h \in Handles PROVE HandleOnce(h)'
  <2>1. CASE h = g
    BY SMTT(20), <1>1, <1>2, <1>3, <1>4, <1>5, <2>1, BrokerAssumption DEF HandleOnce
  <2>2. CASE h # g
    BY SMTT(20), <1>1, <1>2, <1>4, <1>5, <2>2 DEF LockInv, HandleOnce
  <2> QED BY Zenon, <2>1, <2>2
<1>11. ASSUME NEW q \in Principals PROVE LinkOwned(q)'
  BY ZenonT(40), <1>2, <1>5, <1>7 DEF LockInv, LinkOwned
<1>12. ASSUME NEW q \in Principals PROVE LinkGood(q)'
  BY SMTT(20), <1>1, <1>2, <1>4, <1>5, <1>7 DEF LockInv, LinkGood, Refreshed
<1> QED BY Zenon, <1>6, <1>8, <1>9, <1>10, <1>11, <1>12 DEF LockInv

LEMMA FinishPollKeeps ==
    ASSUME LockInv, NEW c \in Callers, finishPoll(c)
    PROVE  LockInv'
<1>1. /\ entries' \in SUBSET entries /\ caller[c].at \in {"pending", "error", "tokens"}
      /\ UNCHANGED <<startedBy, tunnelLinks, unsaved, redeemed, issued>>
  BY Zenon DEF finishPoll, provider
<1>2. CASE caller[c].at # "tokens"
  BY Zenon, <1>1, <1>2, LetsGo DEF finishPoll, Unlock, Becomes, Holding, Steps, Polling
<1>3. CASE caller[c].at = "tokens"
  <2> DEFINE next == [caller[c] EXCEPT !.at = "saving"]
  <2>1. /\ next \in CallerState /\ next.at = "saving" /\ next.principal = caller[c].principal
        /\ next.handle = caller[c].handle /\ next.link = caller[c].link
    BY ZenonT(40), FieldTypes DEF LockInv, CallerState, Steps, Polling
  <2>2. caller' = [caller EXCEPT ![c] = next] /\ caller'[c] = next /\ UNCHANGED credentialLock
    BY Zenon, <1>3 DEF finishPoll, Moves, Becomes, LockInv, Shape
  <2>3. caller[c].handle \notin entries'
    BY ZenonT(40), <1>3 DEF finishPoll
  <2> HIDE DEF next
  <2>4. (CallerHolds(c) /\ CallerPolls(c) /\ CallerRefreshes(c))'
    BY SMTT(20), <1>1, <1>3, <2>1, <2>2 DEF LockInv, CallerHolds, CallerPolls, CallerRefreshes, Holding, Steps, Polling
  <2> QED BY Zenon, <1>1, <1>3, <2>1, <2>2, <2>3, <2>4, Advance
<1> QED BY Zenon, <1>2, <1>3

(* saveLink and SaveRefreshed: the link that is written came from an       *)
(* authorization of this principal, and holds its last token.              *)
LEMMA SavesKeep ==
    ASSUME LockInv, NEW c \in Callers, NEW p \in Principals, p = caller[c].principal,
           caller[c].at \in {"saving", "refreshed"},
           tunnelLinks' = [tunnelLinks EXCEPT ![p] = caller[c].link],
           unsaved' \in SUBSET Principals, unsaved \ {p} = unsaved' \ {p},
           Unlock(c), Becomes(c, Idle),
           UNCHANGED <<entries, startedBy, redeemed, issued>>
    PROVE  LockInv'
<1>1. /\ caller[c].link[1] \in Handles /\ startedBy[caller[c].link[1]] = p /\ redeemed[caller[c].link[1]] = 1
      /\ caller[c].link[2] = issued[caller[c].link[1]]
  BY DEF LockInv, CallerPolls, CallerRefreshes, LinkOwned, Polling
<1>2. caller'[c] = Idle /\ \A d \in Callers \ {c} : caller'[d] = caller[d]
  BY Zenon DEF Becomes, LockInv, Shape
<1>3. \A q \in Principals : /\ credentialLock'[q] = IF q = p THEN NoBody ELSE credentialLock[q]
                            /\ tunnelLinks'[q] = IF q = p THEN caller[c].link ELSE tunnelLinks[q]
  BY Zenon DEF Unlock, LockInv, Shape
<1>4. credentialLock[p] = c
  BY Zenon DEF LockInv, CallerHolds, Holding, Steps, Polling
<1>5. Shape'
  BY ZenonT(40), IdleType, FieldTypes DEF LockInv, Shape, Unlock, Becomes
<1>6. ASSUME NEW d \in Callers PROVE CallerHolds(d)'
  BY SMTT(20), <1>2, <1>3, <1>4, IdleType DEF LockInv, CallerHolds, Holding
<1>7. ASSUME NEW d \in Callers PROVE CallerPolls(d)'
  BY SMTT(20), <1>2, IdleType DEF LockInv, CallerPolls, Polling
<1>8. ASSUME NEW d \in Callers PROVE CallerRefreshes(d)'
  BY SMTT(20), <1>2, <1>3, <1>4, IdleType DEF LockInv, CallerHolds, CallerRefreshes, Holding, Steps
<1>9. ASSUME NEW h \in Handles PROVE HandleOnce(h)'
  <2>1. startedBy[h] # NoBody => startedBy[h] \in Principals
    BY ZenonT(40) DEF LockInv, Shape
  <2> QED BY SMTT(20), <1>2, <1>3, <1>4, <2>1 DEF LockInv, HandleOnce
<1>10. ASSUME NEW q \in Principals PROVE LinkOwned(q)'
  BY SMTT(20), <1>1, <1>3 DEF LockInv, LinkOwned
<1>11. ASSUME NEW q \in Principals PROVE LinkGood(q)'
  BY SMTT(20), <1>1, <1>2, <1>3, <1>4 DEF LockInv, LinkGood, Refreshed
<1> QED BY ZenonT(40), <1>5, <1>6, <1>7, <1>8, <1>9, <1>10, <1>11 DEF LockInv

LEMMA SaveLinkKeeps ==
    ASSUME LockInv, NEW c \in Callers, saveLink(c)
    PROVE  LockInv'
<1> DEFINE p == caller[c].principal
<1>1. /\ caller[c].at = "saving" /\ p \in Principals /\ Unlock(c) /\ Becomes(c, Idle)
      /\ UNCHANGED <<entries, startedBy, redeemed, issued>>
  BY Zenon DEF saveLink, table, provider, LockInv, CallerHolds
<1>2. CASE tunnelLinks' = [tunnelLinks EXCEPT ![p] = caller[c].link] /\ unsaved' = unsaved \ {p}
  <2>1. unsaved' \in SUBSET Principals /\ unsaved \ {p} = unsaved' \ {p}
    BY Zenon, <1>2 DEF LockInv, Shape
  <2> QED BY Zenon, <1>1, <1>2, <2>1, SavesKeep
<1>3. CASE UNCHANGED <<tunnelLinks, unsaved>>
  BY Zenon, <1>1, <1>3, LetsGo DEF Unlock, Becomes, Holding, Steps, Polling
<1> QED BY Zenon, <1>2, <1>3 DEF saveLink

LEMMA LoadLinkKeeps ==
    ASSUME LockInv, NEW c \in Callers, loadLink(c)
    PROVE  LockInv'
<1> DEFINE p == caller[c].principal
           next == Calling("refresh", p, NoBody, tunnelLinks[p])
<1>1. /\ caller[c].at = "load" /\ p \in Principals
      /\ UNCHANGED <<entries, startedBy, tunnelLinks, unsaved, redeemed, issued>>
  BY Zenon DEF loadLink, table, provider, LockInv, CallerHolds
<1>2. CASE Becomes(c, Idle) /\ Unlock(c)
  BY Zenon, <1>1, <1>2, LetsGo DEF Unlock, Becomes, Holding, Steps
<1>3. CASE tunnelLinks[p] # NoLink /\ Becomes(c, next) /\ UNCHANGED credentialLock
  <2>1. next \in CallerState /\ next.at = "refresh" /\ next.principal = p /\ next.link = tunnelLinks[p]
    BY Zenon, <1>1, StateTypes DEF LockInv, Shape, Calling, Steps
  <2>2. caller' = [caller EXCEPT ![c] = next] /\ caller'[c] = next
    BY ZenonT(40), <1>3 DEF Becomes, LockInv, Shape
  <2> HIDE DEF next
  <2>3. credentialLock[p] = c
    BY Zenon, <1>1 DEF LockInv, CallerHolds, Holding, Steps
  <2>4. caller'[c].at = "refresh" /\ caller'[c].principal = p /\ caller'[c].link = tunnelLinks[p]
    BY Zenon, <2>1, <2>2
  <2>5. (CallerHolds(c))'
    BY Zenon, <1>1, <1>3, <2>3, <2>4 DEF CallerHolds
  <2>6. (CallerPolls(c))' /\ (CallerRefreshes(c))'
    BY Zenon, <1>1, <1>3, <2>4 DEF CallerPolls, CallerRefreshes, Polling
  <2> QED BY Zenon, <1>1, <1>3, <2>1, <2>2, <2>5, <2>6, Advance
<1> QED BY Zenon, <1>2, <1>3 DEF loadLink

(* The provider rotates the token and its answer is lost: the stored one   *)
(* is superseded, and is counted as unsaved.                               *)
LEMMA LostAnswerKeeps ==
    ASSUME LockInv, NEW c \in Callers, NEW p \in Principals, NEW g \in Handles, NEW token \in Nat,
           caller[c].at = "refresh", caller[c].principal = p, credentialLock[p] = c,
           tunnelLinks[p] # NoLink, tunnelLinks[p][1] = g, startedBy[g] = p, redeemed[g] = 1,
           issued' = [issued EXCEPT ![g] = token], unsaved' = unsaved \cup {p},
           Becomes(c, Idle), Unlock(c), UNCHANGED <<entries, startedBy, tunnelLinks, redeemed>>
    PROVE  LockInv'
<1>1. caller'[c] = Idle /\ \A d \in Callers \ {c} : caller'[d] = caller[d]
  BY Zenon DEF Becomes, LockInv, Shape
<1>2. \A q \in Principals : credentialLock'[q] = IF q = p THEN NoBody ELSE credentialLock[q]
  BY Zenon DEF Unlock, LockInv, Shape
<1>3. \A h \in Handles \ {g} : issued'[h] = issued[h]
  BY Zenon DEF LockInv, Shape
<1>4. Shape'
  BY ZenonT(40), IdleType DEF LockInv, Shape, Unlock, Becomes
<1>5. ASSUME NEW q \in Principals \ {p}, tunnelLinks[q] # NoLink PROVE tunnelLinks[q][1] \in Handles \ {g}
  BY Zenon, <1>5 DEF LockInv, LinkOwned
<1>6. ASSUME NEW d \in Callers PROVE (CallerHolds(d) /\ CallerPolls(d) /\ CallerRefreshes(d))'
  <2>1. CASE d = c
    BY Zenon, <1>1, <2>1, IdleType DEF CallerHolds, CallerPolls, CallerRefreshes, Holding, Polling
  <2>2. CASE d # c
    <3>1. CallerHolds(d) /\ CallerPolls(d) /\ CallerRefreshes(d) /\ caller'[d] = caller[d]
      BY Zenon, <1>1, <2>2 DEF LockInv
    <3>2. caller[d].at \in Holding => caller[d].principal \in Principals \ {p}
      BY Zenon, <2>2, <3>1 DEF CallerHolds, Holding
    <3>3. caller[d].at \in Polling \ {"lookup"} => caller[d].handle \in Handles \ {g}
      BY ZenonT(40), <3>1, <3>2 DEF CallerPolls, Polling, Holding, Steps
    <3>4. caller[d].at \in {"refresh", "refreshed"} => caller[d].link[1] \in Handles \ {g}
      <4>1. caller[d].at \in {"refresh", "refreshed"} => caller[d].principal \in Principals \ {p}
        BY Zenon, <3>2 DEF Holding, Steps
      <4> QED BY Zenon, <1>5, <3>1, <4>1 DEF CallerRefreshes
    <3>5. CallerHolds(d)'
      BY ZenonT(40), <1>2, <3>1, <3>2 DEF CallerHolds
    <3>6. CallerPolls(d)'
      BY Zenon, <1>3, <3>1, <3>3 DEF CallerPolls, Polling
    <3>7. CallerRefreshes(d)'
      BY ZenonT(40), <1>3, <3>1, <3>4 DEF CallerRefreshes
    <3> QED BY Zenon, <3>5, <3>6, <3>7
  <2> QED BY Zenon, <2>1, <2>2
<1>7. ASSUME NEW h \in Handles PROVE HandleOnce(h)'
  <2>1. startedBy[h] # NoBody => startedBy[h] \in Principals
    BY ZenonT(40) DEF LockInv, Shape
  <2> QED BY SMTT(20), <1>1, <1>2, <2>1 DEF LockInv, HandleOnce
<1>8. ASSUME NEW q \in Principals PROVE (LinkOwned(q) /\ LinkGood(q))'
  <2>1. LinkOwned(q)'
    BY Zenon DEF LockInv, LinkOwned
  <2>2. CASE q = p
    BY Zenon, <2>1, <2>2 DEF LinkGood
  <2>3. CASE q # p
    <3>1. LinkGood(q) /\ (q \in unsaved' <=> q \in unsaved) /\ credentialLock'[q] = credentialLock[q]
      BY Zenon, <1>2, <2>3 DEF LockInv
    <3>2. Refreshed(q) => (Refreshed(q))'
      BY Zenon, <1>1, <2>3, <3>1 DEF Refreshed
    <3>3. tunnelLinks[q] # NoLink => tunnelLinks[q][1] \in Handles \ {g}
      BY Zenon, <1>5, <2>3
    <3>4. tunnelLinks' = tunnelLinks
      BY Zenon
    <3>5. LinkGood(q)'
      BY Zenon, <1>3, <3>1, <3>2, <3>3, <3>4 DEF LinkGood
    <3> QED BY Zenon, <2>1, <3>5
  <2> QED BY Zenon, <2>2, <2>3
<1> QED BY Zenon, <1>4, <1>6, <1>7, <1>8 DEF LockInv

(* The provider rotates the token: until it is saved the stored one is     *)
(* superseded, which only the holder of the lock can observe.              *)
LEMMA RefreshKeeps ==
    ASSUME LockInv, NEW c \in Callers, Refresh(c)
    PROVE  LockInv'
<1> DEFINE p == caller[c].principal
           g == caller[c].link[1]
           t == caller[c].link[2]
<1>1. /\ caller[c].at = "refresh" /\ p \in Principals /\ credentialLock[p] = c
      /\ tunnelLinks[p] # NoLink /\ caller[c].link = tunnelLinks[p] /\ g \in Handles /\ startedBy[g] = p /\ redeemed[g] = 1
      /\ UNCHANGED <<entries, startedBy, tunnelLinks, redeemed>>
  <2>1. caller[c].at = "refresh" /\ UNCHANGED <<entries, startedBy, tunnelLinks, redeemed>>
    BY Zenon DEF Refresh, table
  <2>2. CallerHolds(c) /\ CallerRefreshes(c)
    BY Zenon DEF LockInv
  <2>3. p \in Principals /\ credentialLock[p] = c
    BY Zenon, <2>1, <2>2 DEF CallerHolds, Holding, Steps
  <2>4. tunnelLinks[p] # NoLink /\ caller[c].link = tunnelLinks[p]
    BY Zenon, <2>1, <2>2 DEF CallerRefreshes
  <2>5. LinkOwned(p)
    BY Zenon, <2>3 DEF LockInv
  <2>6. g \in Handles /\ startedBy[g] = p /\ redeemed[g] = 1
    BY Zenon, <2>4, <2>5 DEF LinkOwned
  <2> QED BY Zenon, <2>1, <2>3, <2>4, <2>6
<1>2. CASE issued' = issued /\ unsaved' = unsaved /\ Becomes(c, Idle) /\ Unlock(c)
  BY Zenon, <1>1, <1>2, LetsGo DEF Unlock, Becomes, Holding, Steps
<1>3. ASSUME NEW token \in {t, t + 1}, issued' = [issued EXCEPT ![g] = token],
             Becomes(c, Calling("refreshed", p, NoBody, <<g, token>>)), UNCHANGED <<credentialLock, unsaved>>
      PROVE  LockInv'
  <2> DEFINE next == Calling("refreshed", p, NoBody, <<g, token>>)
  <2>1. token \in Nat
    BY <1>3, FieldTypes DEF LockInv
  <2>2. /\ next \in CallerState /\ next.at = "refreshed" /\ next.principal = p /\ next.link[1] = g /\ next.link[2] = token
    BY Zenon, <1>1, <2>1, StateTypes DEF Calling, Steps
  <2>3. caller' = [caller EXCEPT ![c] = next] /\ caller'[c] = next /\ \A d \in Callers \ {c} : caller'[d] = caller[d]
    BY Zenon, <1>3 DEF Becomes, LockInv, Shape
  <2> HIDE DEF next
  <2>4. issued'[g] = token /\ \A h \in Handles \ {g} : issued'[h] = issued[h]
    BY Zenon, <1>1, <1>3 DEF LockInv, Shape
  <2>5. Shape'
    BY Zenon, <1>1, <1>3, <2>1, <2>2, <2>3 DEF LockInv, Shape
  <2>6. ASSUME NEW q \in Principals \ {p}, tunnelLinks[q] # NoLink PROVE tunnelLinks[q][1] \in Handles \ {g}
    BY Zenon, <1>1, <2>6 DEF LockInv, LinkOwned
  <2>7. ASSUME NEW d \in Callers, d # c PROVE (CallerHolds(d) /\ CallerPolls(d) /\ CallerRefreshes(d))'
    <3>1. CallerHolds(d) /\ CallerPolls(d) /\ CallerRefreshes(d) /\ caller'[d] = caller[d]
      BY Zenon, <2>3, <2>7 DEF LockInv
    <3>2. UNCHANGED <<startedBy, credentialLock, tunnelLinks, redeemed>>
      BY Zenon, <1>1, <1>3
    <3>3. caller[d].at \in Holding => caller[d].principal \in Principals \ {p}
      BY Zenon, <1>1, <2>7, <3>1 DEF CallerHolds, Holding
    <3>4. caller[d].at \in Polling \ {"lookup"} => caller[d].handle \in Handles \ {g}
      BY ZenonT(40), <1>1, <3>1, <3>3 DEF CallerPolls, Polling, Holding, Steps
    <3>5. caller[d].at \in {"refresh", "refreshed"} => caller[d].link[1] \in Handles \ {g}
      <4>1. caller[d].at \in {"refresh", "refreshed"} => caller[d].principal \in Principals \ {p}
        BY Zenon, <3>3 DEF Holding, Steps
      <4> QED BY Zenon, <2>6, <3>1, <4>1 DEF CallerRefreshes
    <3>6. CallerHolds(d)'
      BY ZenonT(40), <3>1, <3>2 DEF CallerHolds
    <3>7. CallerPolls(d)'
      BY Zenon, <2>4, <3>1, <3>2, <3>4 DEF CallerPolls, Polling
    <3>8. CallerRefreshes(d)'
      BY ZenonT(40), <2>4, <3>1, <3>2, <3>5 DEF CallerRefreshes
    <3> QED BY Zenon, <3>6, <3>7, <3>8
  <2>8. (CallerHolds(c) /\ CallerPolls(c) /\ CallerRefreshes(c))'
    <3>1. tunnelLinks'[p] = tunnelLinks[p] /\ credentialLock'[p] = c
      BY ZenonT(40), <1>1, <1>3
    <3>2. caller'[c].at = "refreshed" /\ caller'[c].principal = p /\ caller'[c].link[1] = g /\ caller'[c].link[2] = token
      BY Zenon, <2>2, <2>3
    <3>3. (CallerHolds(c))' /\ (CallerPolls(c))'
      BY Zenon, <1>1, <3>1, <3>2 DEF CallerHolds, CallerPolls, Polling
    <3>4. (CallerRefreshes(c))'
      BY Zenon, <1>1, <2>4, <3>1, <3>2 DEF CallerRefreshes
    <3> QED BY Zenon, <3>3, <3>4
  <2>9. ASSUME NEW h \in Handles PROVE HandleOnce(h)'
    <3>1. HandleOnce(h) /\ UNCHANGED <<entries, startedBy, redeemed, credentialLock>>
      BY Zenon, <1>1, <1>3 DEF LockInv
    <3>2. CASE ~(redeemed[h] = 1 /\ h \in entries)
      BY Zenon, <3>1, <3>2 DEF HandleOnce
    <3>3. CASE redeemed[h] = 1 /\ h \in entries
      <4>1. PICK d \in Callers : d = credentialLock[startedBy[h]] /\ caller[d].at = "tokens" /\ caller[d].handle = h
        BY Zenon, <3>1, <3>3 DEF HandleOnce
      <4>2. caller'[d] = caller[d]
        BY Zenon, <1>1, <2>3, <4>1
      <4> QED BY Zenon, <3>1, <4>1, <4>2 DEF HandleOnce
    <3> QED BY Zenon, <3>2, <3>3
  <2>10. ASSUME NEW q \in Principals PROVE LinkOwned(q)'
    BY Zenon, <1>1 DEF LockInv, LinkOwned
  <2>11. ASSUME NEW q \in Principals PROVE LinkGood(q)'
    <3>1. CASE q = p
      BY ZenonT(40), <1>1, <1>3, <2>2, <2>3, <3>1 DEF LinkGood, Refreshed
    <3>2. CASE q # p
      <4>1. tunnelLinks[q] # NoLink => tunnelLinks[q][1] \in Handles \ {g}
        BY Zenon, <2>6, <3>2
      <4>2. LinkGood(q) /\ UNCHANGED <<tunnelLinks, unsaved, credentialLock>>
        BY Zenon, <1>1, <1>3 DEF LockInv
      <4>3. Refreshed(q) => (Refreshed(q))'
        BY Zenon, <1>1, <2>3, <4>2 DEF Refreshed
      <4> QED BY Zenon, <2>4, <4>1, <4>2, <4>3 DEF LinkGood
    <3> QED BY Zenon, <3>1, <3>2
  <2> QED BY Zenon, <2>5, <2>7, <2>8, <2>9, <2>10, <2>11 DEF LockInv
<1>4. CASE issued' = [issued EXCEPT ![g] = t + 1] /\ unsaved' = unsaved \cup {p} /\ Becomes(c, Idle) /\ Unlock(c)
  <2>1. PICK token \in Nat : token = t + 1
    BY FieldTypes DEF LockInv
  <2> QED BY Zenon, <1>1, <1>4, <2>1, LostAnswerKeeps
<1>5. t = issued[g] /\ issued' = issued => issued' = [issued EXCEPT ![g] = t]
  BY Zenon DEF LockInv, Shape
<1> QED BY Zenon, <1>2, <1>3, <1>4, <1>5 DEF Refresh

LEMMA SaveRefreshedKeeps ==
    ASSUME LockInv, NEW c \in Callers, SaveRefreshed(c)
    PROVE  LockInv'
<1> DEFINE p == caller[c].principal
<1>1. /\ caller[c].at = "refreshed" /\ p \in Principals /\ Unlock(c) /\ Becomes(c, Idle)
      /\ UNCHANGED <<entries, startedBy, redeemed, issued>>
  BY Zenon DEF SaveRefreshed, table, provider, LockInv, CallerHolds
<1>2. CASE tunnelLinks' = [tunnelLinks EXCEPT ![p] = caller[c].link] /\ unsaved' = unsaved \ {p}
  <2>1. unsaved' \in SUBSET Principals /\ unsaved \ {p} = unsaved' \ {p}
    BY Zenon, <1>2 DEF LockInv, Shape
  <2> QED BY Zenon, <1>1, <1>2, <2>1, SavesKeep
<1>3. CASE tunnelLinks' = tunnelLinks /\ unsaved' = unsaved \cup {p}
  <2>1. caller'[c] = Idle /\ \A d \in Callers \ {c} : caller'[d] = caller[d]
    BY Zenon, <1>1 DEF Becomes, LockInv, Shape
  <2>2. \A q \in Principals : credentialLock'[q] = IF q = p THEN NoBody ELSE credentialLock[q]
    BY Zenon, <1>1 DEF Unlock, LockInv, Shape
  <2>3. credentialLock[p] = c
    BY Zenon, <1>1 DEF LockInv, CallerHolds, Holding, Steps
  <2>4. Shape'
    BY ZenonT(40), <1>1, <1>3, IdleType DEF LockInv, Shape, Unlock, Becomes
  <2>5. ASSUME NEW d \in Callers PROVE CallerHolds(d)'
    BY SMTT(20), <2>1, <2>2, <2>3, IdleType DEF LockInv, CallerHolds, Holding
  <2>6. ASSUME NEW d \in Callers PROVE (CallerPolls(d) /\ CallerRefreshes(d))'
    <3>1. CASE d = c
      BY Zenon, <2>1, <3>1, IdleType DEF CallerPolls, CallerRefreshes, Polling
    <3>2. CASE d # c
      <4>1. caller'[d] = caller[d] /\ CallerPolls(d) /\ CallerRefreshes(d)
        BY Zenon, <2>1, <3>2 DEF LockInv
      <4> QED BY Zenon, <1>1, <1>3, <4>1 DEF CallerPolls, CallerRefreshes
    <3> QED BY Zenon, <3>1, <3>2
  <2>7. ASSUME NEW h \in Handles PROVE HandleOnce(h)'
    <3>1. startedBy[h] # NoBody => startedBy[h] \in Principals
      BY ZenonT(40) DEF LockInv, Shape
    <3> QED BY SMTT(20), <1>1, <2>1, <2>2, <2>3, <3>1 DEF LockInv, HandleOnce
  <2>8. ASSUME NEW q \in Principals PROVE (LinkOwned(q) /\ LinkGood(q))'
    BY SMTT(20), <1>1, <1>3, <2>1, <2>2, <2>3 DEF LockInv, LinkOwned, LinkGood, Refreshed
  <2> QED BY Zenon, <2>4, <2>5, <2>6, <2>7, <2>8 DEF LockInv
<1> QED BY Zenon, <1>2, <1>3 DEF SaveRefreshed

(* An account is unlinked only while nobody loads, refreshes or saves it.  *)
LEMMA DeleteKeeps ==
    ASSUME LockInv, NEW p \in Principals, delete(p)
    PROVE  LockInv'
<1>1. /\ credentialLock[p] = NoBody /\ tunnelLinks' = [tunnelLinks EXCEPT ![p] = NoLink] /\ unsaved' = unsaved \ {p}
      /\ UNCHANGED <<entries, startedBy, credentialLock, caller, redeemed, issued>>
  BY Zenon DEF delete, table, provider
<1>2. \A q \in Principals : tunnelLinks'[q] = IF q = p THEN NoLink ELSE tunnelLinks[q]
  BY Zenon, <1>1 DEF LockInv, Shape
<1>3. Shape'
  BY Zenon, <1>1, IdleType DEF LockInv, Shape
<1>4. ASSUME NEW d \in Callers PROVE (CallerHolds(d) /\ CallerPolls(d))'
  BY ZenonT(40), <1>1 DEF LockInv, CallerHolds, CallerPolls
<1>5. ASSUME NEW d \in Callers PROVE CallerRefreshes(d)'
  <2>1. caller[d].at \in Holding => caller[d].principal \in Principals \ {p}
    BY Zenon, <1>1, BrokerAssumption DEF LockInv, CallerHolds, Holding
  <2> QED BY SMTT(20), <1>1, <1>2, <2>1 DEF LockInv, CallerRefreshes, Holding, Steps
<1>6. ASSUME NEW h \in Handles PROVE HandleOnce(h)'
  BY ZenonT(40), <1>1 DEF LockInv, HandleOnce
<1>7. ASSUME NEW q \in Principals PROVE (LinkOwned(q) /\ LinkGood(q))'
  BY SMTT(20), <1>1, <1>2 DEF LockInv, LinkOwned, LinkGood, Refreshed
<1> QED BY Zenon, <1>3, <1>4, <1>5, <1>6, <1>7 DEF LockInv

LEMMA TableShrinks ==
    ASSUME LockInv, entries' \in SUBSET entries,
           UNCHANGED <<startedBy, credentialLock, tunnelLinks, unsaved, caller, redeemed, issued>>
    PROVE  LockInv'
BY DEF LockInv, Shape, CallerHolds, CallerPolls, CallerRefreshes, HandleOnce, LinkOwned, LinkGood, Refreshed

LEMMA Inductive ==
    ASSUME LockInv, [BrokerNext]_brokerVars
    PROVE  LockInv'
<1>1. CASE UNCHANGED brokerVars \/ Close \/ Elapse
  BY Zenon, <1>1, TableShrinks DEF brokerVars, Close, Elapse, table, stored, provider
<1>2. ASSUME NEW c \in Callers, NEW p \in Principals, start(c, p) \/ Credential(c, p) PROVE LockInv'
  BY Zenon, <1>2, StartKeeps, CredentialKeeps
<1>3. ASSUME NEW c \in Callers, NEW p \in Principals, NEW h \in Handles, poll(c, p, h) PROVE LockInv'
  BY Zenon, <1>3, PollKeeps
<1>4. ASSUME NEW c \in Callers, CallerStep(c) PROVE LockInv'
  <2>1. CASE StartFails(c)
    <3>1. caller[c].principal \in Principals
      BY Zenon, <2>1 DEF StartFails, LockInv, CallerHolds
    <3> QED BY Zenon, <2>1, <3>1, StartKeeps
  <2> QED BY ZenonT(40), <1>4, <2>1, AddEntryKeeps, LookupKeeps, PollUnansweredKeeps, PollTokensKeeps, FinishPollKeeps,
             SaveLinkKeeps, LoadLinkKeeps, RefreshKeeps, SaveRefreshedKeeps DEF CallerStep
<1>5. ASSUME NEW p \in Principals, delete(p) PROVE LockInv'
  BY Zenon, <1>5, DeleteKeeps
<1> QED BY Zenon, <1>1, <1>2, <1>3, <1>4, <1>5 DEF BrokerNext

----------------------------------------------------------------------------
LEMMA LockInvariant == BrokerSpec => []LockInv
BY NothingHeld, Inductive, PTL DEF BrokerSpec

(* However many requests of however many principals run at once, every     *)
(* device code is exchanged at most once, for the principal that started   *)
(* the authorization (poll, pollCredentialLocked, saveLink).               *)
THEOREM RedeemedOnceForItsPrincipal == BrokerSpec => []RedeemedForItsPrincipal
<1>1. LockInv => RedeemedForItsPrincipal
  BY SMTT(20) DEF LockInv, HandleOnce, LinkOwned, RedeemedForItsPrincipal
<1> QED BY <1>1, LockInvariant, PTL

(* Concurrent calls of Credential never leave a superseded refresh token   *)
(* in the stored link, unless saving a rotated one failed.                 *)
THEOREM RefreshTokenIsKept == BrokerSpec => []RefreshTokenKept
<1>1. LockInv => RefreshTokenKept
  BY DEF LockInv, LinkGood, Refreshed, RefreshTokenKept
<1> QED BY <1>1, LockInvariant, PTL

(* A refresh that began before an account was unlinked does not write the  *)
(* link back: only a new authorization does.                               *)
THEOREM UnlinkIsKept == BrokerSpec => UnlinkHolds
<1> DEFINE Back == \A p \in Principals :
             tunnelLinks[p] = NoLink /\ tunnelLinks'[p] # NoLink =>
                \E c \in Callers : caller[c].at = "saving" /\ caller[c].principal = p
<1>1. ASSUME LockInv, [BrokerNext]_brokerVars PROVE [Back]_brokerVars
  <2> SUFFICES ASSUME BrokerNext, NEW p \in Principals, tunnelLinks[p] = NoLink, tunnelLinks'[p] # NoLink
               PROVE  \E c \in Callers : caller[c].at = "saving" /\ caller[c].principal = p
    BY Zenon, <1>1
  <2>1. PICK c \in Callers : saveLink(c) \/ SaveRefreshed(c)
    <3>1. ASSUME NEW q \in Principals, delete(q) PROVE FALSE
      BY Zenon, <1>1, <3>1 DEF delete, LockInv, Shape
    <3> QED BY ZenonT(40), <3>1 DEF BrokerNext, CallerStep, start, Credential, poll, StartFails, AddEntry, pollCredentialLocked,
               PollPending, PollError, PollTokens, finishPoll, loadLink, Refresh, Close, Elapse, stored
  <2>2. caller[c].principal = p
    BY Zenon, <1>1, <2>1 DEF saveLink, SaveRefreshed, LockInv, Shape
  <2>3. ~SaveRefreshed(c)
    BY Zenon, <1>1, <2>2 DEF SaveRefreshed, LockInv, CallerRefreshes
  <2> QED BY Zenon, <2>1, <2>2, <2>3 DEF saveLink
<1>2. BrokerSpec => [][Back]_brokerVars
  BY <1>1, LockInvariant, PTL DEF BrokerSpec
<1> QED BY Zenon, <1>2 DEF UnlinkHolds

-----------------------------------------------------------------------------
(* The issuer's keys.  There is one refresh or none, and what it fetched   *)
(* holds every cached key that is still published: a key published after   *)
(* the fetch was never cached, because a retired key does not come back.   *)
RefreshInv ==
    /\ \A f, g \in refreshes : f = g
    /\ refreshCall <=> refreshes # {}
    /\ \A r \in Bearers : bearerAt[r] \in Waiting => refreshCall

FetchedInv == \A f \in refreshes \ {Started} : keyCache \cap published \subseteq f

SteadyInv ==
    \A r \in steady :
        /\ bearerKid[r] \in keyCache \cap published
        /\ bearerAt[r] \in {"keys", "wait", "woken", "first", "verified", "rejected"}
        /\ bearerAt[r] = "first" => bearerKid[r] \in keyCopy[r]

KeysInv == KeyTypeOK /\ RefreshInv /\ FetchedInv /\ SteadyInv

LEMMA FirstIsAKid == FirstKid \in Kids
BY Zenon, KeysAssumption DEF FirstKid

LEMMA KeysStart ==
  ASSUME KeyInit
  PROVE  KeysInv
<1>1. KeyTypeOK
  BY Zenon, FirstIsAKid DEF KeyInit, KeyTypeOK, BearerSteps
<1>2. RefreshInv /\ FetchedInv /\ SteadyInv
  BY Zenon DEF KeyInit, RefreshInv, FetchedInv, SteadyInv, Waiting
<1>3. QED
  BY Zenon, <1>1, <1>2 DEF KeysInv

(* Steps of one request; at most it starts the refresh.                    *)
LEMMA Stepped ==
  ASSUME KeyTypeOK, NEW r \in Bearers, NEW at \in BearerSteps, Step(r, at)
  PROVE  /\ bearerAt' \in [Bearers -> BearerSteps] /\ bearerAt'[r] = at
         /\ \A q \in Bearers \ {r} : bearerAt'[q] = bearerAt[q]
BY Zenon DEF KeyTypeOK, Step

LEMMA ValidateStep ==
  ASSUME KeysInv, NEW r \in Bearers, NEW k \in Kids, Validate(r, k)
  PROVE  KeysInv'
<1>0. KeyTypeOK /\ RefreshInv /\ FetchedInv /\ SteadyInv
  BY Zenon DEF KeysInv
<1>1. /\ UNCHANGED <<published, everPublished>> /\ UNCHANGED <<keyCache, keysFresh, cooldown, refreshCall, refreshes>>
      /\ UNCHANGED keyCopy /\ Step(r, "keys") /\ bearerKid' = [bearerKid EXCEPT ![r] = k]
      /\ steady' = IF k \in keyCache \cap published THEN steady \cup {r} ELSE steady \ {r}
  BY Zenon DEF Validate, issuer, keyState
<1>2. /\ bearerAt' \in [Bearers -> BearerSteps] /\ bearerAt'[r] = "keys"
      /\ \A q \in Bearers \ {r} : bearerAt'[q] = bearerAt[q]
  BY Zenon, <1>0, <1>1, Stepped DEF BearerSteps
<1>3. /\ bearerKid' \in [Bearers -> Kids] /\ bearerKid'[r] = k
      /\ \A q \in Bearers \ {r} : bearerKid'[q] = bearerKid[q]
  BY Zenon, <1>0, <1>1 DEF KeyTypeOK
<1>4. KeyTypeOK'
  BY Zenon, <1>0, <1>1, <1>2, <1>3 DEF KeyTypeOK
<1>5. RefreshInv'
  BY Zenon, <1>0, <1>1, <1>2 DEF RefreshInv, Waiting
<1>6. FetchedInv'
  BY Zenon, <1>0, <1>1 DEF FetchedInv
<1>7. SteadyInv'
  <2> SUFFICES ASSUME NEW q \in steady'
               PROVE  /\ bearerKid'[q] \in keyCache \cap published
                      /\ bearerAt'[q] \in {"keys", "wait", "woken", "first", "verified", "rejected"}
                      /\ bearerAt'[q] = "first" => bearerKid'[q] \in keyCopy[q]
    BY Zenon, <1>1 DEF SteadyInv
  <2>1. CASE q = r
    BY Zenon, <1>1, <1>2, <1>3, <2>1
  <2>2. CASE q # r
    <3>1. q \in steady /\ q \in Bearers \ {r}
      BY Zenon, <1>0, <1>1, <2>2 DEF KeyTypeOK
    <3>2. QED
      BY Zenon, <1>0, <1>2, <1>3, <3>1 DEF SteadyInv
  <2>3. QED
    BY Zenon, <2>1, <2>2
<1>8. QED
  BY Zenon, <1>4, <1>5, <1>6, <1>7 DEF KeysInv

(* A request that moves without touching the cache or its key.             *)
LEMMA RequestMoves ==
  ASSUME KeysInv, NEW r \in Bearers, NEW at \in BearerSteps, Step(r, at),
         UNCHANGED <<published, everPublished, keyCache, bearerKid, steady>>,
         keysFresh' \in BOOLEAN, cooldown' \in BOOLEAN,
         keyCopy' \in [Bearers -> SUBSET Kids],
         \A q \in Bearers \ {r} : keyCopy'[q] = keyCopy[q],
         \/ UNCHANGED <<refreshCall, refreshes>>
         \/ ~refreshCall /\ refreshCall' = TRUE /\ refreshes' = refreshes \cup {Started},
         at \in Waiting => refreshCall',
         r \in steady => /\ at \in {"keys", "wait", "woken", "first", "verified", "rejected"}
                         /\ at = "first" => bearerKid[r] \in keyCopy'[r]
  PROVE  KeysInv'
<1>0. KeyTypeOK /\ RefreshInv /\ FetchedInv /\ SteadyInv
  BY Zenon DEF KeysInv
<1>2. /\ bearerAt' \in [Bearers -> BearerSteps] /\ bearerAt'[r] = at
      /\ \A q \in Bearers \ {r} : bearerAt'[q] = bearerAt[q]
  BY Zenon, <1>0, Stepped
<1>3. KeyTypeOK'
  <2>1. refreshes' \in SUBSET ({Started} \cup SUBSET everPublished) /\ refreshCall' \in BOOLEAN
    BY Zenon, <1>0 DEF KeyTypeOK
  <2>2. QED
    BY Zenon, <1>0, <1>2, <2>1 DEF KeyTypeOK
<1>4. refreshCall => refreshCall'
  <2>1. CASE UNCHANGED <<refreshCall, refreshes>>
    BY Zenon, <2>1
  <2>2. CASE refreshCall' = TRUE
    BY Zenon, <2>2
  <2>3. QED
    BY Zenon, <2>1, <2>2
<1>5. (\A f, g \in refreshes' : f = g) /\ (refreshCall' <=> refreshes' # {})
  <2>1. CASE UNCHANGED <<refreshCall, refreshes>>
    BY Zenon, <1>0, <2>1 DEF RefreshInv
  <2>2. CASE ~refreshCall /\ refreshCall' = TRUE /\ refreshes' = refreshes \cup {Started}
    <3>1. refreshes' = {Started}
      BY Zenon, <1>0, <2>2 DEF RefreshInv
    <3>2. QED
      BY Zenon, <2>2, <3>1
  <2>3. QED
    BY Zenon, <2>1, <2>2
<1>6. \A q \in Bearers : bearerAt'[q] \in Waiting => refreshCall'
  BY Zenon, <1>0, <1>2, <1>4 DEF RefreshInv
<1>7. FetchedInv'
  BY Zenon, <1>0 DEF FetchedInv
<1>8. SteadyInv'
  <2> SUFFICES ASSUME NEW q \in steady
               PROVE  /\ bearerKid[q] \in keyCache \cap published
                      /\ bearerAt'[q] \in {"keys", "wait", "woken", "first", "verified", "rejected"}
                      /\ bearerAt'[q] = "first" => bearerKid[q] \in keyCopy'[q]
    BY Zenon DEF SteadyInv
  <2>1. CASE q = r
    BY Zenon, <1>0, <1>2, <2>1 DEF SteadyInv
  <2>2. CASE q # r
    <3>1. q \in Bearers \ {r}
      BY Zenon, <1>0, <2>2 DEF KeyTypeOK
    <3>2. QED
      BY Zenon, <1>0, <1>2, <3>1 DEF SteadyInv
  <2>3. QED
    BY Zenon, <2>1, <2>2
<1>9. QED
  BY Zenon, <1>3, <1>5, <1>6, <1>7, <1>8 DEF KeysInv, RefreshInv

LEMMA ReadCacheStep ==
  ASSUME KeysInv, NEW r \in Bearers, ReadCache(r),
         bearerAt[r] \in {"keys", "woken", "missing", "woken missing"},
         UNCHANGED <<published, everPublished, keyCache, keysFresh, cooldown, refreshCall, refreshes, bearerKid, steady>>
  PROVE  KeysInv'
<1>0. KeyTypeOK /\ SteadyInv
  BY Zenon DEF KeysInv
<1>1. /\ keyCopy' \in [Bearers -> SUBSET Kids] /\ keyCopy'[r] = keyCache
      /\ \A q \in Bearers \ {r} : keyCopy'[q] = keyCopy[q]
  <2>1. keyCopy' = [keyCopy EXCEPT ![r] = keyCache] /\ keyCache \in SUBSET Kids
    BY Zenon, <1>0 DEF ReadCache, KeyTypeOK
  <2>2. QED
    BY Zenon, <1>0, <2>1 DEF KeyTypeOK
<1>2. PICK at \in {"first", "second"} : Step(r, at) /\ (bearerAt[r] \in {"keys", "woken"} => at = "first")
  BY Zenon DEF ReadCache
<1>3. at \in BearerSteps /\ at \notin Waiting
  BY Zenon DEF BearerSteps, Waiting
<1>4. r \in steady => at = "first" /\ bearerKid[r] \in keyCopy'[r]
  BY Zenon, <1>0, <1>1, <1>2 DEF SteadyInv
<1>5. keysFresh' \in BOOLEAN /\ cooldown' \in BOOLEAN
  BY Zenon, <1>0 DEF KeyTypeOK
<1>6. QED
  BY Zenon, <1>1, <1>2, <1>3, <1>4, <1>5, RequestMoves

LEMMA keysStep ==
  ASSUME KeysInv, NEW r \in Bearers, keys(r)
  PROVE  KeysInv'
<1>0. KeyTypeOK /\ SteadyInv
  BY Zenon DEF KeysInv
<1>1. /\ bearerAt[r] \in {"keys", "missing"}
      /\ UNCHANGED <<published, everPublished, keyCache, keysFresh, bearerKid, steady>>
  BY Zenon DEF keys, issuer
<1>2. CASE cached(r)
  BY Zenon, <1>1, <1>2, ReadCacheStep DEF keys
<1>3. CASE ~cached(r)
  <2>1. PICK at \in {"wait", "wait missing"} : Step(r, at) /\ (bearerAt[r] = "keys" => at = "wait")
    BY Zenon, <1>3 DEF keys
  <2>2. /\ UNCHANGED keyCopy
        /\ IF refreshCall
             THEN UNCHANGED <<refreshCall, refreshes, cooldown>>
             ELSE /\ refreshCall' = TRUE
                  /\ refreshes' = refreshes \cup {Started}
                  /\ cooldown' = (cooldown \/ bearerAt[r] = "missing")
    BY Zenon, <1>3 DEF keys
  <2>3. at \in BearerSteps /\ refreshCall'
    BY Zenon, <2>2 DEF BearerSteps, Waiting
  <2>4. r \in steady => at = "wait"
    BY Zenon, <1>0, <1>1, <2>1 DEF SteadyInv
  <2>5. keysFresh' \in BOOLEAN /\ cooldown' \in BOOLEAN /\ keyCopy' \in [Bearers -> SUBSET Kids]
    BY Zenon, <1>0, <1>1, <2>2 DEF KeyTypeOK
  <2>6. \/ UNCHANGED <<refreshCall, refreshes>>
        \/ ~refreshCall /\ refreshCall' = TRUE /\ refreshes' = refreshes \cup {Started}
    BY Zenon, <2>2
  <2>7. r \in steady => at \in {"keys", "wait", "woken", "first", "verified", "rejected"} /\ at # "first"
    BY Zenon, <2>4
  <2>8. QED
    BY Zenon, <1>1, <2>1, <2>2, <2>3, <2>5, <2>6, <2>7, RequestMoves
<1>4. QED
  BY Zenon, <1>2, <1>3

LEMMA RequestStep ==
  ASSUME KeysInv, NEW r \in Bearers, Wake(r) \/ WaitCancelled(r) \/ Verify(r)
  PROVE  KeysInv'
<1>0. KeyTypeOK /\ SteadyInv
  BY Zenon DEF KeysInv
<1>1. UNCHANGED <<published, everPublished, keyCache, keysFresh, cooldown, refreshCall, refreshes, bearerKid, steady>>
  BY Zenon DEF Wake, WaitCancelled, Verify, issuer, keyState
<1>2. CASE Wake(r)
  BY Zenon, <1>1, <1>2, ReadCacheStep DEF Wake
<1>3. CASE WaitCancelled(r) \/ Verify(r)
  <2>1. UNCHANGED keyCopy
    BY Zenon, <1>3 DEF WaitCancelled, Verify
  <2>2. PICK at \in {"rejected", "verified", "missing", "unknown key"} :
          /\ Step(r, at)
          /\ r \in steady => at \in {"rejected", "verified"}
    <3>1. CASE WaitCancelled(r)
      BY Zenon, <3>1 DEF WaitCancelled
    <3>2. CASE Verify(r)
      <4>1. bearerAt[r] \in {"first", "second"}
        BY Zenon, <3>2 DEF Verify
      <4>2. CASE bearerKid[r] \in keyCopy[r]
        BY Zenon, <3>2, <4>2 DEF Verify
      <4>3. CASE bearerKid[r] \notin keyCopy[r]
        <5>1. r \notin steady
          BY Zenon, <1>0, <4>1, <4>3 DEF SteadyInv
        <5>2. QED
          BY Zenon, <3>2, <4>1, <4>3, <5>1 DEF Verify
      <4>4. QED
        BY Zenon, <4>2, <4>3
    <3>3. QED
      BY Zenon, <1>3, <3>1, <3>2
  <2>3. at \in BearerSteps /\ at \notin Waiting
    BY Zenon DEF BearerSteps, Waiting
  <2>4. keysFresh' \in BOOLEAN /\ cooldown' \in BOOLEAN /\ keyCopy' \in [Bearers -> SUBSET Kids]
    BY Zenon, <1>0, <1>1, <2>1 DEF KeyTypeOK
  <2>5. r \in steady => at \in {"keys", "wait", "woken", "first", "verified", "rejected"} /\ at # "first"
    BY Zenon, <2>2
  <2>6. QED
    BY Zenon, <1>1, <2>1, <2>2, <2>3, <2>4, <2>5, RequestMoves
<1>4. QED
  BY Zenon, <1>2, <1>3

LEMMA FinishStep ==
  ASSUME KeysInv, NEW r \in Bearers, Finish(r)
  PROVE  KeysInv'
<1>0. KeyTypeOK /\ RefreshInv /\ FetchedInv /\ SteadyInv
  BY Zenon DEF KeysInv
<1>1. /\ UNCHANGED <<published, everPublished>> /\ UNCHANGED <<keyCache, keysFresh, cooldown, refreshCall, refreshes>>
      /\ Step(r, "idle") /\ bearerKid' = [bearerKid EXCEPT ![r] = FirstKid]
      /\ keyCopy' = [keyCopy EXCEPT ![r] = {}] /\ steady' = steady \ {r}
  BY Zenon DEF Finish, issuer, keyState
<1>2. /\ bearerAt' \in [Bearers -> BearerSteps] /\ bearerAt'[r] = "idle"
      /\ \A q \in Bearers \ {r} : bearerAt'[q] = bearerAt[q]
  BY Zenon, <1>0, <1>1, Stepped DEF BearerSteps
<1>3. /\ bearerKid' \in [Bearers -> Kids] /\ keyCopy' \in [Bearers -> SUBSET Kids]
      /\ \A q \in Bearers \ {r} : bearerKid'[q] = bearerKid[q] /\ keyCopy'[q] = keyCopy[q]
  BY Zenon, <1>0, <1>1, FirstIsAKid DEF KeyTypeOK
<1>4. KeyTypeOK'
  BY Zenon, <1>0, <1>1, <1>2, <1>3 DEF KeyTypeOK
<1>5. RefreshInv'
  BY Zenon, <1>0, <1>1, <1>2 DEF RefreshInv, Waiting
<1>6. FetchedInv'
  BY Zenon, <1>0, <1>1 DEF FetchedInv
<1>7. SteadyInv'
  <2> SUFFICES ASSUME NEW q \in steady'
               PROVE  /\ bearerKid'[q] \in keyCache \cap published
                      /\ bearerAt'[q] \in {"keys", "wait", "woken", "first", "verified", "rejected"}
                      /\ bearerAt'[q] = "first" => bearerKid'[q] \in keyCopy'[q]
    BY Zenon, <1>1 DEF SteadyInv
  <2>1. q \in steady /\ q \in Bearers \ {r}
    BY Zenon, <1>0, <1>1 DEF KeyTypeOK
  <2>2. QED
    BY Zenon, <1>0, <1>2, <1>3, <2>1 DEF SteadyInv
<1>8. QED
  BY Zenon, <1>4, <1>5, <1>6, <1>7 DEF KeysInv

(* The refresh.                                                            *)
LEMMA FetchStep ==
  ASSUME KeysInv, fetchKeys
  PROVE  KeysInv'
<1>0. KeyTypeOK /\ RefreshInv /\ FetchedInv /\ SteadyInv
  BY Zenon DEF KeysInv
<1>1. /\ UNCHANGED <<published, everPublished>> /\ UNCHANGED <<keyCache, keysFresh, cooldown, refreshCall>>
      /\ UNCHANGED <<bearerAt, bearerKid, keyCopy, steady>>
      /\ Started \in refreshes /\ refreshes' = (refreshes \ {Started}) \cup {published}
  BY Zenon DEF fetchKeys, issuer, bearer
<1>2. refreshes' = {published}
  BY Zenon, <1>0, <1>1 DEF RefreshInv
<1>3. KeyTypeOK'
  BY Zenon, <1>0, <1>1, <1>2 DEF KeyTypeOK
<1>4. RefreshInv'
  BY Zenon, <1>0, <1>1, <1>2 DEF RefreshInv
<1>5. FetchedInv'
  BY Zenon, <1>1, <1>2 DEF FetchedInv
<1>6. SteadyInv'
  BY Zenon, <1>0, <1>1 DEF SteadyInv
<1>7. QED
  BY Zenon, <1>3, <1>4, <1>5, <1>6 DEF KeysInv

LEMMA WokenTo ==
  ASSUME KeyTypeOK, NEW outcome \in BOOLEAN, bearerAt' = Woken(outcome)
  PROVE  /\ bearerAt' \in [Bearers -> BearerSteps]
         /\ \A r \in Bearers : bearerAt'[r] \notin Waiting
         /\ \A r \in Bearers : \/ bearerAt[r] \notin Waiting /\ bearerAt'[r] = bearerAt[r]
                               \/ bearerAt[r] = "wait" /\ bearerAt'[r] \in {"woken", "rejected"}
                               \/ bearerAt[r] = "wait missing"
<1>1. ASSUME NEW r \in Bearers
      PROVE  /\ bearerAt'[r] \in BearerSteps \ Waiting
             /\ \/ bearerAt[r] \notin Waiting /\ bearerAt'[r] = bearerAt[r]
                \/ bearerAt[r] = "wait" /\ bearerAt'[r] \in {"woken", "rejected"}
                \/ bearerAt[r] = "wait missing"
  <2>1. bearerAt'[r] = CASE bearerAt[r] = "wait"         -> IF outcome THEN "woken" ELSE "rejected"
                         [] bearerAt[r] = "wait missing" -> IF outcome THEN "woken missing" ELSE "rejected"
                         [] OTHER                        -> bearerAt[r]
    BY Zenon DEF Woken
  <2>2. CASE bearerAt[r] = "wait"
    <3>1. bearerAt'[r] \in {"woken", "rejected"}
      BY Zenon, <2>1, <2>2
    <3>2. QED
      BY Zenon, <2>2, <3>1 DEF BearerSteps, Waiting
  <2>3. CASE bearerAt[r] = "wait missing"
    <3>1. bearerAt'[r] \in {"woken missing", "rejected"}
      BY Zenon, <2>1, <2>3
    <3>2. QED
      BY Zenon, <2>3, <3>1 DEF BearerSteps, Waiting
  <2>4. CASE bearerAt[r] \notin Waiting
    <3>1. bearerAt'[r] = bearerAt[r]
      BY Zenon, <2>1, <2>4 DEF Waiting
    <3>2. QED
      BY Zenon, <2>4, <3>1 DEF KeyTypeOK
  <2>5. QED
    BY Zenon, <2>2, <2>3, <2>4 DEF Waiting
<1>2. bearerAt' = [r \in Bearers |-> bearerAt'[r]]
  BY Zenon DEF Woken
<1>3. QED
  BY Zenon, <1>1, <1>2

(* The refresh ends: what it installs still holds the key of every steady  *)
(* request.                                                                *)
LEMMA RefreshStep ==
  ASSUME KeysInv, runRefresh
  PROVE  KeysInv'
<1>0. KeyTypeOK /\ RefreshInv /\ FetchedInv /\ SteadyInv
  BY Zenon DEF KeysInv
<1>1. PICK f \in refreshes :
        /\ refreshes' = refreshes \ {f}
        /\ \/ f # Started /\ keyCache' = f /\ keysFresh' = TRUE /\ bearerAt' = Woken(TRUE)
           \/ f = Started /\ bearerAt' = Woken(FALSE) /\ UNCHANGED <<keyCache, keysFresh>>
  BY Zenon DEF runRefresh
<1>2. /\ UNCHANGED <<published, everPublished>> /\ UNCHANGED <<cooldown, bearerKid, keyCopy, steady>>
      /\ refreshCall' = FALSE
  BY Zenon DEF runRefresh, issuer
<1>3. refreshes' = {}
  BY Zenon, <1>0, <1>1 DEF RefreshInv
<1>4. /\ bearerAt' \in [Bearers -> BearerSteps]
      /\ \A r \in Bearers : bearerAt'[r] \notin Waiting
      /\ \A r \in Bearers : \/ bearerAt[r] \notin Waiting /\ bearerAt'[r] = bearerAt[r]
                            \/ bearerAt[r] = "wait" /\ bearerAt'[r] \in {"woken", "rejected"}
                            \/ bearerAt[r] = "wait missing"
  <2>1. bearerAt' = Woken(TRUE) \/ bearerAt' = Woken(FALSE)
    BY Zenon, <1>1
  <2>2. QED
    BY Zenon, <1>0, <2>1, WokenTo
<1>5. /\ keyCache' \in SUBSET everPublished /\ keysFresh' \in BOOLEAN
      /\ keyCache \cap published \subseteq keyCache'
  <2>1. CASE f # Started /\ keyCache' = f /\ keysFresh' = TRUE
    <3>1. f \in SUBSET everPublished
      BY Zenon, <1>0, <2>1 DEF KeyTypeOK
    <3>2. keyCache \cap published \subseteq f
      BY Zenon, <1>0, <1>1, <2>1 DEF FetchedInv
    <3>3. QED
      BY Zenon, <2>1, <3>1, <3>2
  <2>2. CASE UNCHANGED <<keyCache, keysFresh>>
    BY Zenon, <1>0, <2>2 DEF KeyTypeOK
  <2>3. QED
    BY Zenon, <1>1, <2>1, <2>2
<1>6. KeyTypeOK'
  <2>1. refreshes' \in SUBSET ({Started} \cup SUBSET everPublished) /\ refreshCall' \in BOOLEAN
    BY Zenon, <1>2, <1>3
  <2>2. QED
    BY Zenon, <1>0, <1>2, <1>4, <1>5, <2>1 DEF KeyTypeOK
<1>7. RefreshInv'
  BY Zenon, <1>2, <1>3, <1>4 DEF RefreshInv
<1>8. FetchedInv'
  BY Zenon, <1>3 DEF FetchedInv
<1>9. SteadyInv'
  <2> SUFFICES ASSUME NEW q \in steady
               PROVE  /\ bearerKid[q] \in keyCache' \cap published
                      /\ bearerAt'[q] \in {"keys", "wait", "woken", "first", "verified", "rejected"}
                      /\ bearerAt'[q] = "first" => bearerKid[q] \in keyCopy[q]
    BY Zenon, <1>2 DEF SteadyInv
  <2>1. q \in Bearers
    BY Zenon, <1>0 DEF KeyTypeOK
  <2>2. bearerKid[q] \in keyCache' \cap published
    BY Zenon, <1>0, <1>5 DEF SteadyInv
  <2>3. bearerAt'[q] = bearerAt[q] \/ bearerAt'[q] \in {"woken", "rejected"}
    BY Zenon, <1>0, <1>4, <2>1 DEF SteadyInv
  <2>4. QED
    BY Zenon, <1>0, <2>2, <2>3 DEF SteadyInv
<1>10. QED
  BY Zenon, <1>6, <1>7, <1>8, <1>9 DEF KeysInv

(* The issuer and the clock.                                               *)
LEMMA IssuerStep ==
  ASSUME KeysInv,
         (\E k \in Kids : Publish(k) \/ Retire(k)) \/ KeysExpire \/ CooldownEnds \/ UNCHANGED keyVars
  PROVE  KeysInv'
<1>0. KeyTypeOK /\ RefreshInv /\ FetchedInv /\ SteadyInv
  BY Zenon DEF KeysInv
<1>1. UNCHANGED <<keyCache, refreshCall, refreshes, bearerAt, bearerKid, keyCopy>>
  BY Zenon DEF Publish, Retire, KeysExpire, CooldownEnds, keyVars, keyState, bearer
<1>2. /\ keysFresh' \in BOOLEAN /\ cooldown' \in BOOLEAN
  BY Zenon, <1>0 DEF Publish, Retire, KeysExpire, CooldownEnds, keyVars, keyState, KeyTypeOK
<1>3. /\ everPublished \subseteq everPublished' /\ everPublished' \in SUBSET Kids
      /\ published' \in SUBSET everPublished' /\ steady' \in SUBSET steady
      /\ keyCache \cap published' \subseteq keyCache \cap published
      /\ \A q \in steady' : bearerKid[q] \in published'
  <2>1. ASSUME NEW k \in Kids, Publish(k)
        PROVE  /\ everPublished' = everPublished \cup {k} /\ published' = published \cup {k}
               /\ k \notin keyCache /\ UNCHANGED steady
    BY Zenon, <1>0, <2>1 DEF Publish, bearer, KeyTypeOK
  <2>2. ASSUME NEW k \in Kids, Retire(k)
        PROVE  /\ UNCHANGED everPublished /\ published' = published \ {k}
               /\ steady' = {r \in steady : bearerKid[r] # k}
    BY Zenon, <2>2 DEF Retire
  <2>3. ASSUME KeysExpire \/ CooldownEnds \/ UNCHANGED keyVars
        PROVE  UNCHANGED <<published, everPublished, steady>>
    BY Zenon, <2>3 DEF KeysExpire, CooldownEnds, keyVars, issuer, bearer
  <2>4. \A q \in steady : bearerKid[q] \in published
    BY Zenon, <1>0 DEF SteadyInv
  <2>5. CASE \E k \in Kids : Publish(k)
    <3>1. PICK k \in Kids : /\ everPublished' = everPublished \cup {k} /\ published' = published \cup {k}
                            /\ k \notin keyCache /\ UNCHANGED steady
      BY Zenon, <2>1, <2>5
    <3>2. published \in SUBSET everPublished /\ everPublished \in SUBSET Kids
      BY Zenon, <1>0 DEF KeyTypeOK
    <3>3. QED
      BY Zenon, <2>4, <3>1, <3>2
  <2>6. CASE \E k \in Kids : Retire(k)
    BY Zenon, <1>0, <2>2, <2>4, <2>6 DEF KeyTypeOK
  <2>7. CASE KeysExpire \/ CooldownEnds \/ UNCHANGED keyVars
    BY Zenon, <1>0, <2>3, <2>4, <2>7 DEF KeyTypeOK
  <2>8. QED
    BY Zenon, <2>5, <2>6, <2>7
<1>4. KeyTypeOK'
  <2>1. refreshes' \in SUBSET ({Started} \cup SUBSET everPublished')
    BY Zenon, <1>0, <1>1, <1>3 DEF KeyTypeOK
  <2>2. QED
    BY Zenon, <1>0, <1>1, <1>2, <1>3, <2>1 DEF KeyTypeOK
<1>5. RefreshInv'
  BY Zenon, <1>0, <1>1 DEF RefreshInv
<1>6. FetchedInv'
  BY Zenon, <1>0, <1>1, <1>3 DEF FetchedInv
<1>7. SteadyInv'
  BY Zenon, <1>0, <1>1, <1>3 DEF SteadyInv
<1>8. QED
  BY Zenon, <1>4, <1>5, <1>6, <1>7 DEF KeysInv

(* KeysInv is inductive.                                                   *)
THEOREM KeysInvariant == KeySpec => []KeysInv
<1>1. KeysInv /\ [KeyNext]_keyVars => KeysInv'
  BY Zenon, ValidateStep, keysStep, RequestStep, FinishStep, FetchStep, RefreshStep, IssuerStep
     DEF KeyNext, BearerStep
<1>2. QED
  BY <1>1, KeysStart, PTL DEF KeySpec

(* What is cached or fetched was published by the issuer.                  *)
THEOREM KeyTypes == KeySpec => []KeyTypeOK
<1>1. KeysInv => KeyTypeOK
  BY Zenon DEF KeysInv
<1>2. QED
  BY <1>1, KeysInvariant, PTL

(* Any number of requests that miss the cache share one refresh, and none  *)
(* waits for a refresh that does not run.                                  *)
THEOREM RefreshIsShared == KeySpec => []OneKeyRefresh
<1>1. KeysInv => OneKeyRefresh
  <2> SUFFICES ASSUME KeysInv PROVE OneKeyRefresh
    OBVIOUS
  <2>1. RefreshInv
    BY Zenon DEF KeysInv
  <2>2. refreshes = {} \/ \E f : refreshes = {f}
    <3>1. \A f \in refreshes : refreshes = {f}
      BY Zenon, <2>1 DEF RefreshInv
    <3>2. QED
      BY Zenon, <3>1
  <2>3. Cardinality(refreshes) \in {0, 1}
    BY Zenon, <2>2, FS_EmptySet, FS_Singleton
  <2>4. Cardinality(refreshes) <= 1
    BY SMTT(20), <2>3
  <2>5. QED
    BY Zenon, <2>1, <2>4 DEF RefreshInv, OneKeyRefresh
<1>2. QED
  BY <1>1, KeysInvariant, PTL

(* A token whose key was cached and published when it came is not rejected *)
(* for an unknown key while the issuer publishes the key.                  *)
THEOREM SteadyKeyIsKnown == KeySpec => []KnownKeyAccepted
<1>1. KeysInv => KnownKeyAccepted
  BY Zenon DEF KeysInv, SteadyInv, KnownKeyAccepted
<1>2. QED
  BY <1>1, KeysInvariant, PTL

-----------------------------------------------------------------------------
LEMMA AddOne ==
  ASSUME NEW S, NEW x, IsFiniteSet(S), x \notin S
  PROVE  /\ IsFiniteSet(S \cup {x}) /\ Cardinality(S) \in Nat
         /\ Cardinality(S \cup {x}) = Cardinality(S) + 1
BY FS_AddElement, FS_CardinalityType

(* The users Custos names.  An answer was true when it was given, which is *)
(* not before the request read the clock; a cached user was true no longer *)
(* ago than its lifetime before its expiry.                                *)
ResolverState ==
    [at : {"idle", "asking", "answered"}, token : IDTokens \cup {Unknown},
     asked : 0 .. MaxClock, user : Users \cup {Unknown}]

Entries == [user : Users \cup {Unknown}, expires : 0 .. MaxClock + UserTTL]

NamedInv ==
    /\ \A t \in IDTokens : userOf[t] \in Users => lastTrue[t][userOf[t]] = clock
    /\ \A t \in IDTokens, u \in Users : lastTrue[t][u] <= clock

AnswerInv(r) ==
    /\ resolver[r].at # "idle" => resolver[r].token \in IDTokens /\ resolver[r].asked <= clock
    /\ resolver[r].at = "answered" =>
         resolver[r].user \in Users /\ resolver[r].asked <= lastTrue[resolver[r].token][resolver[r].user]

EntryInv(t) ==
    t \in Cached => /\ userCache[t].user \in Users
                    /\ userCache[t].expires <= lastTrue[t][userCache[t].user] + UserTTL

CustosInv ==
    /\ CustosTypeOK /\ IsFiniteSet(Cached)
    /\ NamedInv
    /\ \A r \in Resolvers : AnswerInv(r)
    /\ \A t \in IDTokens : EntryInv(t)

LEMMA CustosTypes ==
  ASSUME CustosTypeOK
  PROVE  /\ clock \in 0 .. MaxClock /\ clock \in Nat
         /\ userOf \in [IDTokens -> Users \cup {Unknown}]
         /\ lastTrue \in [IDTokens -> [Users -> {Never} \cup (0 .. MaxClock)]]
         /\ \A t \in IDTokens, u \in Users : lastTrue[t][u] \in Int
         /\ userCache \in [IDTokens -> Entries]
         /\ resolver \in [Resolvers -> ResolverState]
         /\ Never \in Int /\ Never < 0
<1>1. /\ clock \in 0 .. MaxClock /\ userOf \in [IDTokens -> Users \cup {Unknown}]
      /\ lastTrue \in [IDTokens -> [Users -> {Never} \cup (0 .. MaxClock)]]
      /\ userCache \in [IDTokens -> Entries] /\ resolver \in [Resolvers -> ResolverState]
  BY Zenon DEF CustosTypeOK, Entries, ResolverState
<1>2. Never \in Int /\ Never < 0 /\ MaxClock \in Nat
  BY CustosAssumption DEF Never
<1>3. \A t \in IDTokens, u \in Users : lastTrue[t][u] \in {Never} \cup (0 .. MaxClock)
  BY Zenon, <1>1
<1>4. \A x \in {Never} \cup (0 .. MaxClock) : x \in Int
  BY <1>2
<1>5. clock \in Nat
  BY <1>1, <1>2
<1>6. QED
  BY Zenon, <1>1, <1>2, <1>3, <1>4, <1>5

LEMMA SameCached ==
  ASSUME UNCHANGED userCache
  PROVE  UNCHANGED Cached
BY Zenon DEF Cached

LEMMA CustosStart ==
  ASSUME CustosInit
  PROVE  CustosInv
<1>0. /\ clock = 0 /\ userOf \in [IDTokens -> Users \cup {Unknown}]
      /\ lastTrue = [t \in IDTokens |-> [u \in Users |-> IF u = userOf[t] THEN 0 ELSE Never]]
      /\ userCache = [t \in IDTokens |-> NoEntry]
      /\ resolver = [r \in Resolvers |-> Resting]
  BY Zenon DEF CustosInit
<1>1. Never \in Int /\ Never < 0 /\ 0 \in 0 .. MaxClock /\ 0 \in 0 .. MaxClock + UserTTL /\ MaxUsers \in Nat
  BY CustosAssumption DEF Never
<1>2. Cached = {} /\ IsFiniteSet(Cached) /\ Cardinality(Cached) = 0
  <2>1. Cached = {}
    BY Zenon, <1>0 DEF Cached
  <2>2. QED
    BY Zenon, <2>1, FS_EmptySet
<1>3. \A t \in IDTokens, u \in Users : lastTrue[t][u] = IF u = userOf[t] THEN 0 ELSE Never
  BY Zenon, <1>0
<1>4. CustosTypeOK
  <2>1. Cardinality(Cached) <= MaxUsers
    BY SMTT(20), <1>1, <1>2
  <2>2. lastTrue \in [IDTokens -> [Users -> {Never} \cup (0 .. MaxClock)]]
    BY Zenon, <1>0, <1>1
  <2>3. NoEntry \in Entries /\ Resting \in ResolverState
    BY Zenon, <1>1 DEF NoEntry, Resting, Entries, ResolverState
  <2>4. userCache \in [IDTokens -> Entries] /\ resolver \in [Resolvers -> ResolverState]
    BY Zenon, <1>0, <2>3
  <2>5. QED
    BY Zenon, <1>0, <1>1, <2>1, <2>2, <2>4 DEF CustosTypeOK, Entries, ResolverState
<1>5. NamedInv
  <2>1. \A t \in IDTokens, u \in Users : lastTrue[t][u] <= clock
    BY SMTT(20), <1>0, <1>1, <1>3
  <2>2. QED
    BY Zenon, <1>0, <1>3, <2>1 DEF NamedInv
<1>6. ASSUME NEW r \in Resolvers PROVE AnswerInv(r)
  <2>1. resolver[r].at = "idle"
    BY Zenon, <1>0 DEF Resting
  <2>2. QED
    BY Zenon, <2>1 DEF AnswerInv
<1>7. QED
  BY Zenon, <1>2, <1>4, <1>5, <1>6 DEF CustosInv, EntryInv

LEMMA AskStep ==
  ASSUME CustosInv, NEW r \in Resolvers, (\E t \in IDTokens : Resolve(r, t)) \/ CustosAnswers(r)
  PROVE  CustosInv'
<1>0. /\ CustosTypeOK /\ IsFiniteSet(Cached) /\ NamedInv
      /\ (\A q \in Resolvers : AnswerInv(q)) /\ \A t \in IDTokens : EntryInv(t)
  BY Zenon DEF CustosInv
<1>1. UNCHANGED <<clock, userOf, lastTrue, userCache>>
  BY Zenon DEF Resolve, CustosAnswers
<1>2. PICK v \in ResolverState :
        /\ resolver' = [resolver EXCEPT ![r] = v]
        /\ v.at # "idle" => v.token \in IDTokens /\ v.asked <= clock
        /\ v.at = "answered" => v.user \in Users /\ v.asked <= lastTrue[v.token][v.user]
  <2>1. ASSUME NEW t \in IDTokens, Resolve(r, t)
        PROVE  \E v \in ResolverState :
                  /\ resolver' = [resolver EXCEPT ![r] = v]
                  /\ v.at # "idle" => v.token \in IDTokens /\ v.asked <= clock
                  /\ v.at = "answered" => v.user \in Users /\ v.asked <= lastTrue[v.token][v.user]
    <3>1. PICK v : v = [at |-> "asking", token |-> t, asked |-> clock, user |-> Unknown]
      BY Zenon
    <3>2. v.at = "asking" /\ v.token = t /\ v.asked = clock
      BY Zenon, <3>1
    <3>3. v \in ResolverState
      BY Zenon, <1>0, <3>1, CustosTypes DEF ResolverState
    <3>4. clock <= clock
      BY SMTT(20), <1>0, CustosTypes
    <3>5. QED
      BY Zenon, <2>1, <3>1, <3>2, <3>3, <3>4 DEF Resolve
  <2>2. ASSUME CustosAnswers(r)
        PROVE  \E v \in ResolverState :
                  /\ resolver' = [resolver EXCEPT ![r] = v]
                  /\ v.at # "idle" => v.token \in IDTokens /\ v.asked <= clock
                  /\ v.at = "answered" => v.user \in Users /\ v.asked <= lastTrue[v.token][v.user]
    <3>1. PICK user \in {userOf[resolver[r].token], Unknown} :
             resolver' = [resolver EXCEPT ![r] =
                 IF user = Unknown THEN Resting ELSE [@ EXCEPT !.user = user, !.at = "answered"]]
      BY Zenon, <2>2 DEF CustosAnswers
    <3>2. /\ resolver[r] \in ResolverState /\ resolver[r].at = "asking"
          /\ resolver[r].token \in IDTokens /\ resolver[r].asked <= clock
      BY Zenon, <1>0, <2>2, CustosTypes DEF CustosAnswers, AnswerInv
    <3>3. CASE user = Unknown
      <4>1. Resting \in ResolverState /\ Resting.at = "idle"
        <5>1. 0 \in 0 .. MaxClock
          BY CustosAssumption
        <5>2. QED
          BY Zenon, <5>1 DEF Resting, ResolverState
      <4>2. resolver' = [resolver EXCEPT ![r] = Resting]
        BY Zenon, <3>1, <3>3
      <4>3. QED
        BY Zenon, <4>1, <4>2
    <3>4. CASE user # Unknown
      <4>1. user = userOf[resolver[r].token] /\ user \in Users
        BY Zenon, <1>0, <3>1, <3>2, <3>4, CustosTypes
      <4>2. lastTrue[resolver[r].token][user] = clock
        BY Zenon, <1>0, <3>2, <4>1 DEF NamedInv
      <4>3. PICK v : v = [resolver[r] EXCEPT !.user = user, !.at = "answered"]
        BY Zenon
      <4>4. v.at = "answered" /\ v.user = user /\ v.token = resolver[r].token /\ v.asked = resolver[r].asked
        BY Zenon, <3>2, <4>3 DEF ResolverState
      <4>5. v \in ResolverState
        BY Zenon, <3>2, <4>1, <4>3 DEF ResolverState
      <4>6. resolver' = [resolver EXCEPT ![r] = v]
        BY Zenon, <3>1, <3>4, <4>3
      <4>7. QED
        BY Zenon, <3>2, <4>1, <4>2, <4>4, <4>5, <4>6
    <3>5. QED
      BY Zenon, <3>3, <3>4
  <2>3. QED
    BY Zenon, <2>1, <2>2
<1>3. /\ resolver' \in [Resolvers -> ResolverState] /\ resolver'[r] = v
      /\ \A q \in Resolvers \ {r} : resolver'[q] = resolver[q]
  BY Zenon, <1>0, <1>2, CustosTypes
<1>4. UNCHANGED Cached
  BY Zenon, <1>1, SameCached
<1>5. CustosTypeOK' /\ NamedInv' /\ \A t \in IDTokens : EntryInv(t)'
  BY Zenon, <1>0, <1>1, <1>3, <1>4 DEF CustosTypeOK, ResolverState, NamedInv, EntryInv
<1>6. ASSUME NEW q \in Resolvers PROVE AnswerInv(q)'
  <2>1. CASE q = r
    BY Zenon, <1>1, <1>2, <1>3, <2>1 DEF AnswerInv
  <2>2. CASE q # r
    <3>1. resolver'[q] = resolver[q] /\ AnswerInv(q)
      BY Zenon, <1>0, <1>3, <2>2
    <3>2. QED
      BY Zenon, <1>1, <3>1 DEF AnswerInv
  <2>3. QED
    BY Zenon, <2>1, <2>2
<1>7. QED
  BY Zenon, <1>0, <1>4, <1>5, <1>6 DEF CustosInv

(* The cache is emptied at its limit, and a stored answer expires by the   *)
(* time its request read before it asked.                                  *)
LEMMA StoreUserStep ==
  ASSUME CustosInv, NEW r \in Resolvers, StoreUser(r)
  PROVE  CustosInv'
<1> DEFINE kept == IF Cardinality(Cached) >= MaxUsers THEN [t \in IDTokens |-> NoEntry] ELSE userCache
           entry == [user |-> resolver[r].user, expires |-> Expiry(r)]
           full == Cardinality(Cached) >= MaxUsers
<1>0. /\ CustosTypeOK /\ IsFiniteSet(Cached) /\ NamedInv
      /\ (\A q \in Resolvers : AnswerInv(q)) /\ \A t \in IDTokens : EntryInv(t)
  BY Zenon DEF CustosInv
<1>1. /\ resolver[r].at = "answered" /\ UNCHANGED <<clock, userOf, lastTrue>>
      /\ userCache' = [kept EXCEPT ![resolver[r].token] = entry]
      /\ resolver' = [resolver EXCEPT ![r] = Resting]
  BY Zenon DEF StoreUser
<1>2. PICK t0 \in IDTokens : t0 = resolver[r].token
  BY Zenon, <1>0, <1>1 DEF AnswerInv
<1>3. /\ resolver[r] \in ResolverState /\ resolver[r].user \in Users
      /\ resolver[r].asked <= lastTrue[t0][resolver[r].user] /\ lastTrue[t0][resolver[r].user] \in Int
  BY Zenon, <1>0, <1>1, <1>2, CustosTypes DEF AnswerInv
<1>4. resolver[r].asked \in 0 .. MaxClock
  BY Zenon, <1>3 DEF ResolverState
<1>5. /\ Expiry(r) \in 0 .. MaxClock + UserTTL
      /\ Expiry(r) <= lastTrue[t0][resolver[r].user] + UserTTL
  BY SMTT(20), <1>3, <1>4, CustosAssumption DEF Expiry
<1>6. /\ entry \in Entries /\ entry.user = resolver[r].user /\ entry.expires = Expiry(r) /\ entry # NoEntry
  <2>1. entry \in Entries /\ entry.user = resolver[r].user /\ entry.expires = Expiry(r)
    BY Zenon, <1>3, <1>5 DEF Entries
  <2>2. NoEntry.user = Unknown /\ Unknown \notin Users
    BY Zenon, CustosAssumption DEF NoEntry
  <2>3. QED
    BY Zenon, <1>3, <2>1, <2>2
<1>7. NoEntry \in Entries /\ Resting \in ResolverState /\ Resting.at = "idle"
  <2>1. 0 \in 0 .. MaxClock /\ 0 \in 0 .. MaxClock + UserTTL
    BY CustosAssumption
  <2>2. QED
    BY Zenon, <2>1 DEF NoEntry, Entries, Resting, ResolverState
<1>8. kept \in [IDTokens -> Entries] /\ \A t \in IDTokens : kept[t] \in {NoEntry, userCache[t]}
  BY Zenon, <1>0, <1>7, CustosTypes
<1>9. /\ full => Cardinality(Cached) >= MaxUsers /\ \A t \in IDTokens : kept[t] = NoEntry
      /\ ~full => ~(Cardinality(Cached) >= MaxUsers) /\ kept = userCache
  BY Zenon
<1> HIDE DEF kept, entry, full
<1>10. /\ userCache' \in [IDTokens -> Entries] /\ userCache'[t0] = entry
       /\ \A t \in IDTokens \ {t0} : userCache'[t] = kept[t]
  BY Zenon, <1>1, <1>2, <1>6, <1>8
<1>11. IsFiniteSet(Cached') /\ Cardinality(Cached') <= MaxUsers
  <2>1. Cardinality(Cached) \in Nat /\ Cardinality(Cached) <= MaxUsers /\ MaxUsers \in Nat \ {0}
    BY Zenon, <1>0, FS_CardinalityType, CustosAssumption DEF CustosTypeOK
  <2>2. CASE full
    <3>1. Cached' = {t0}
      BY Zenon, <1>6, <1>9, <1>10, <2>2 DEF Cached
    <3>2. IsFiniteSet(Cached') /\ Cardinality(Cached') = 1
      BY Zenon, <3>1, FS_Singleton
    <3>3. QED
      BY SMTT(20), <2>1, <3>2
  <2>3. CASE ~full /\ t0 \in Cached
    <3>1. Cached' = Cached
      BY Zenon, <1>6, <1>9, <1>10, <2>3 DEF Cached
    <3>2. QED
      BY Zenon, <1>0, <2>1, <3>1
  <2>4. CASE ~full /\ t0 \notin Cached
    <3>1. Cached' = Cached \cup {t0}
      BY Zenon, <1>6, <1>9, <1>10, <2>4 DEF Cached
    <3>2. IsFiniteSet(Cached') /\ Cardinality(Cached') = Cardinality(Cached) + 1
      BY Zenon, <1>0, <2>4, <3>1, AddOne
    <3>3. QED
      BY SMTT(20), <1>9, <2>1, <2>4, <3>2
  <2>5. QED
    BY Zenon, <2>2, <2>3, <2>4
<1>12. /\ resolver' \in [Resolvers -> ResolverState] /\ resolver'[r].at = "idle"
       /\ \A q \in Resolvers \ {r} : resolver'[q] = resolver[q]
  BY Zenon, <1>0, <1>1, <1>7, CustosTypes
<1>13. CustosTypeOK' /\ NamedInv'
  BY Zenon, <1>0, <1>1, <1>10, <1>11, <1>12 DEF CustosTypeOK, Entries, ResolverState, NamedInv
<1>14. ASSUME NEW q \in Resolvers PROVE AnswerInv(q)'
  <2>1. CASE q = r
    BY Zenon, <1>12, <2>1 DEF AnswerInv
  <2>2. CASE q # r
    <3>1. resolver'[q] = resolver[q] /\ AnswerInv(q)
      BY Zenon, <1>0, <1>12, <2>2
    <3>2. QED
      BY Zenon, <1>1, <3>1 DEF AnswerInv
  <2>3. QED
    BY Zenon, <2>1, <2>2
<1>15. ASSUME NEW t \in IDTokens PROVE EntryInv(t)'
  <2>1. CASE t = t0
    BY Zenon, <1>1, <1>3, <1>5, <1>6, <1>10, <2>1 DEF EntryInv
  <2>2. CASE t # t0
    <3>1. userCache'[t] \in {NoEntry, userCache[t]} /\ EntryInv(t)
      BY Zenon, <1>0, <1>8, <1>10, <2>2
    <3>2. t \in Cached' => t \in Cached /\ userCache'[t] = userCache[t]
      BY Zenon, <3>1 DEF Cached
    <3>3. QED
      BY Zenon, <1>1, <3>1, <3>2 DEF EntryInv
  <2>3. QED
    BY Zenon, <2>1, <2>2
<1>16. QED
  BY Zenon, <1>11, <1>13, <1>14, <1>15 DEF CustosInv

(* Custos and the clock only move the time a user was named forward.       *)
LEMMA CustosMoves ==
  ASSUME CustosInv, (\E t \in IDTokens, u \in Users \cup {Unknown} : Relink(t, u)) \/ Tick \/ UNCHANGED custosVars
  PROVE  CustosInv'
<1>0. /\ CustosTypeOK /\ IsFiniteSet(Cached) /\ NamedInv
      /\ (\A q \in Resolvers : AnswerInv(q)) /\ \A t \in IDTokens : EntryInv(t)
  BY Zenon DEF CustosInv
<1>1. UNCHANGED <<userCache, resolver>>
  BY Zenon DEF Relink, Tick, custosVars
<1>2. /\ clock' \in 0 .. MaxClock /\ clock <= clock' /\ userOf' \in [IDTokens -> Users \cup {Unknown}]
      /\ lastTrue' \in [IDTokens -> [Users -> {Never} \cup (0 .. MaxClock)]]
      /\ \A t \in IDTokens, u \in Users : lastTrue'[t][u] \in {lastTrue[t][u], clock'}
      /\ \A t \in IDTokens : userOf'[t] \in Users => lastTrue'[t][userOf'[t]] = clock'
  <2>1. ASSUME NEW t \in IDTokens, NEW u \in Users \cup {Unknown}, Relink(t, u)
        PROVE  /\ clock' \in 0 .. MaxClock /\ clock <= clock' /\ userOf' \in [IDTokens -> Users \cup {Unknown}]
               /\ lastTrue' \in [IDTokens -> [Users -> {Never} \cup (0 .. MaxClock)]]
               /\ \A s \in IDTokens, v \in Users : lastTrue'[s][v] \in {lastTrue[s][v], clock'}
               /\ \A s \in IDTokens : userOf'[s] \in Users => lastTrue'[s][userOf'[s]] = clock'
    <3>1. /\ UNCHANGED clock /\ userOf' = [userOf EXCEPT ![t] = u]
          /\ lastTrue' = IF u = Unknown THEN lastTrue ELSE [lastTrue EXCEPT ![t][u] = clock]
      BY Zenon, <2>1 DEF Relink
    <3>2. /\ clock \in 0 .. MaxClock /\ userOf \in [IDTokens -> Users \cup {Unknown}]
          /\ lastTrue \in [IDTokens -> [Users -> {Never} \cup (0 .. MaxClock)]]
          /\ clock <= clock /\ Unknown \notin Users
      BY SMTT(20), <1>0, CustosTypes, CustosAssumption
    <3>3. userOf' \in [IDTokens -> Users \cup {Unknown}] /\ userOf'[t] = u /\ \A s \in IDTokens \ {t} : userOf'[s] = userOf[s]
      BY Zenon, <3>1, <3>2
    <3>4. CASE u = Unknown
      BY Zenon, <1>0, <3>1, <3>2, <3>3, <3>4 DEF NamedInv
    <3>5. CASE u \in Users
      <4>1. lastTrue' = [lastTrue EXCEPT ![t] = [lastTrue[t] EXCEPT ![u] = clock]]
        BY Zenon, <3>1, <3>2, <3>5
      <4>2. /\ lastTrue' \in [IDTokens -> [Users -> {Never} \cup (0 .. MaxClock)]]
            /\ lastTrue'[t][u] = clock /\ (\A v \in Users \ {u} : lastTrue'[t][v] = lastTrue[t][v])
            /\ \A s \in IDTokens \ {t} : lastTrue'[s] = lastTrue[s]
        BY Zenon, <3>2, <3>5, <4>1
      <4>3. \A s \in IDTokens, v \in Users : lastTrue'[s][v] \in {lastTrue[s][v], clock}
        BY Zenon, <4>2
      <4>4. \A s \in IDTokens : userOf'[s] \in Users => lastTrue'[s][userOf'[s]] = clock
        BY ZenonT(40), <1>0, <3>3, <4>2 DEF NamedInv
      <4>5. QED
        BY Zenon, <3>1, <3>2, <3>3, <4>2, <4>3, <4>4
    <3>6. QED
      BY Zenon, <3>4, <3>5
  <2>2. ASSUME Tick
        PROVE  /\ clock' \in 0 .. MaxClock /\ clock <= clock' /\ userOf' \in [IDTokens -> Users \cup {Unknown}]
               /\ lastTrue' \in [IDTokens -> [Users -> {Never} \cup (0 .. MaxClock)]]
               /\ \A s \in IDTokens, v \in Users : lastTrue'[s][v] \in {lastTrue[s][v], clock'}
               /\ \A s \in IDTokens : userOf'[s] \in Users => lastTrue'[s][userOf'[s]] = clock'
    <3>1. /\ clock < MaxClock /\ clock' = clock + 1 /\ UNCHANGED userOf
          /\ lastTrue' = [t \in IDTokens |-> [u \in Users |-> IF u = userOf[t] THEN clock' ELSE lastTrue[t][u]]]
      BY Zenon, <2>2 DEF Tick
    <3>2. clock' \in 0 .. MaxClock /\ clock <= clock'
      BY SMTT(20), <1>0, <3>1, CustosTypes, CustosAssumption
    <3>3. /\ userOf \in [IDTokens -> Users \cup {Unknown}]
          /\ \A s \in IDTokens, v \in Users : lastTrue[s][v] \in {Never} \cup (0 .. MaxClock)
      BY Zenon, <1>0, CustosTypes
    <3>4. lastTrue' \in [IDTokens -> [Users -> {Never} \cup (0 .. MaxClock)]]
      BY Zenon, <3>1, <3>2, <3>3
    <3>5. \A s \in IDTokens, v \in Users : lastTrue'[s][v] = IF v = userOf[s] THEN clock' ELSE lastTrue[s][v]
      BY Zenon, <3>1
    <3>6. QED
      BY Zenon, <3>1, <3>2, <3>3, <3>4, <3>5
  <2>3. ASSUME UNCHANGED custosVars
        PROVE  /\ clock' \in 0 .. MaxClock /\ clock <= clock' /\ userOf' \in [IDTokens -> Users \cup {Unknown}]
               /\ lastTrue' \in [IDTokens -> [Users -> {Never} \cup (0 .. MaxClock)]]
               /\ \A s \in IDTokens, v \in Users : lastTrue'[s][v] \in {lastTrue[s][v], clock'}
               /\ \A s \in IDTokens : userOf'[s] \in Users => lastTrue'[s][userOf'[s]] = clock'
    <3>1. UNCHANGED <<clock, userOf, lastTrue>>
      BY Zenon, <2>3 DEF custosVars
    <3>2. clock <= clock
      BY SMTT(20), <1>0, CustosTypes
    <3>3. QED
      BY Zenon, <1>0, <3>1, <3>2, CustosTypes DEF NamedInv
  <2>4. QED
    BY Zenon, <2>1, <2>2, <2>3
<1>3. \A t \in IDTokens, u \in Users :
         /\ lastTrue[t][u] \in Int /\ lastTrue'[t][u] \in Int /\ lastTrue[t][u] <= lastTrue'[t][u]
         /\ lastTrue'[t][u] <= clock'
  <2> SUFFICES ASSUME NEW t \in IDTokens, NEW u \in Users
               PROVE  /\ lastTrue[t][u] \in Int /\ lastTrue'[t][u] \in Int /\ lastTrue[t][u] <= lastTrue'[t][u]
                      /\ lastTrue'[t][u] <= clock'
    OBVIOUS
  <2>1. /\ lastTrue[t][u] \in Int /\ lastTrue[t][u] <= clock /\ clock \in Nat
        /\ lastTrue'[t][u] \in {lastTrue[t][u], clock'} /\ clock' \in 0 .. MaxClock /\ clock <= clock'
    BY Zenon, <1>0, <1>2, CustosTypes DEF NamedInv
  <2>2. QED
    BY SMTT(20), <2>1, CustosAssumption
<1>4. UNCHANGED Cached
  BY Zenon, <1>1, SameCached
<1>5. CustosTypeOK' /\ NamedInv'
  BY Zenon, <1>0, <1>1, <1>2, <1>3, <1>4 DEF CustosTypeOK, NamedInv
<1>6. ASSUME NEW q \in Resolvers PROVE AnswerInv(q)'
  <2>1. AnswerInv(q) /\ resolver[q] \in ResolverState /\ resolver'[q] = resolver[q]
    BY Zenon, <1>0, <1>1, CustosTypes
  <2>2. resolver[q].asked \in 0 .. MaxClock
    BY Zenon, <2>1 DEF ResolverState
  <2>3. resolver[q].at # "idle" => resolver[q].token \in IDTokens /\ resolver[q].asked <= clock'
    <3>1. resolver[q].asked <= clock => resolver[q].asked <= clock'
      BY SMTT(20), <1>0, <1>2, <2>2, CustosTypes, CustosAssumption
    <3>2. QED
      BY Zenon, <2>1, <3>1 DEF AnswerInv
  <2>4. ASSUME resolver[q].at = "answered"
        PROVE  resolver[q].user \in Users /\ resolver[q].asked <= lastTrue'[resolver[q].token][resolver[q].user]
    <3>1. PICK t \in IDTokens, u \in Users : t = resolver[q].token /\ u = resolver[q].user
      BY Zenon, <2>1, <2>4 DEF AnswerInv
    <3>2. resolver[q].asked <= lastTrue[t][u]
      BY Zenon, <2>1, <2>4, <3>1 DEF AnswerInv
    <3>3. resolver[q].asked <= lastTrue'[t][u]
      BY SMTT(20), <1>3, <2>2, <3>2, CustosAssumption
    <3>4. QED
      BY Zenon, <3>1, <3>3
  <2>5. QED
    BY Zenon, <2>1, <2>3, <2>4 DEF AnswerInv
<1>7. ASSUME NEW t \in IDTokens PROVE EntryInv(t)'
  <2> SUFFICES ASSUME t \in Cached
               PROVE  userCache[t].user \in Users /\ userCache[t].expires <= lastTrue'[t][userCache[t].user] + UserTTL
    BY Zenon, <1>1, <1>4 DEF EntryInv
  <2>1. PICK u \in Users : u = userCache[t].user
    BY Zenon, <1>0 DEF EntryInv
  <2>2. userCache[t].expires <= lastTrue[t][u] + UserTTL
    BY Zenon, <1>0, <2>1 DEF EntryInv
  <2>3. userCache[t].expires \in 0 .. MaxClock + UserTTL
    BY ZenonT(40), <1>0, CustosTypes DEF Entries
  <2>4. userCache[t].expires <= lastTrue'[t][u] + UserTTL
    BY SMTT(20), <1>3, <2>2, <2>3, CustosAssumption
  <2>5. QED
    BY Zenon, <2>1, <2>4
<1>8. QED
  BY Zenon, <1>0, <1>4, <1>5, <1>6, <1>7 DEF CustosInv

(* CustosInv is inductive.                                                 *)
THEOREM CustosInvariant == CustosSpec => []CustosInv
<1>1. CustosInv /\ [CustosNext]_custosVars => CustosInv'
  BY Zenon, AskStep, StoreUserStep, CustosMoves DEF CustosNext
<1>2. QED
  BY <1>1, CustosStart, PTL DEF CustosSpec

(* Requests that store their answers beside each other never take the      *)
(* cache past maxCustosUsers.                                              *)
THEOREM CustosCacheBounded == CustosSpec => []CustosTypeOK
<1>1. CustosInv => CustosTypeOK
  BY Zenon DEF CustosInv
<1>2. QED
  BY <1>1, CustosInvariant, PTL

(* A cached user that is served was the token's user less than             *)
(* custosUserTTL ago, in whatever order answers arrive.                    *)
THEOREM ServedIdentityIsRecent == CustosSpec => []IdentityNotStale
<1>1. CustosInv => IdentityNotStale
  <2> SUFFICES ASSUME CustosInv, NEW t \in Cached, clock < userCache[t].expires
               PROVE  clock - lastTrue[t][userCache[t].user] <= UserTTL
    BY Zenon DEF IdentityNotStale
  <2>1. CustosTypeOK /\ t \in IDTokens /\ EntryInv(t)
    BY Zenon DEF CustosInv, Cached
  <2>2. PICK u \in Users : u = userCache[t].user /\ userCache[t].expires <= lastTrue[t][u] + UserTTL
    BY Zenon, <2>1 DEF EntryInv
  <2>3. userCache[t].expires \in 0 .. MaxClock + UserTTL /\ clock \in Nat /\ lastTrue[t][u] \in Int
    BY Zenon, <2>1, CustosTypes DEF Entries
  <2>4. clock - lastTrue[t][u] <= UserTTL
    BY SMTT(20), <2>2, <2>3, CustosAssumption
  <2>5. QED
    BY Zenon, <2>2, <2>4
<1>2. QED
  BY <1>1, CustosInvariant, PTL
-----------------------------------------------------------------------------
(* The table of pending authorizations: several starts may be admitted     *)
(* before one of them reaches it, so that AddEntry looks at its size again.*)
TableInv ==
    /\ entries \in SUBSET Handles /\ IsFiniteSet(entries) /\ Cardinality(entries) <= MaxEntries
    /\ expired \in SUBSET Handles /\ due \in SUBSET Handles
    /\ deviceCode \in SUBSET entries
    /\ limited \in SUBSET Principals

Rotations == 1 .. MaxRotations + 1

TokenInv ==
    /\ expiring \in SUBSET Principals
    /\ \A p \in Principals : tunnelLinks[p] # NoLink => tunnelLinks[p][2] \in Rotations
    /\ \A c \in Callers : caller[c].at = "refreshed" => caller[c].link[2] \in Rotations

LEMMA TableStarts == BrokerInit => TableInv /\ TokenInv
<1> SUFFICES ASSUME BrokerInit PROVE TableInv /\ TokenInv
  OBVIOUS
<1>1. IsFiniteSet({}) /\ Cardinality({}) = 0
  BY FS_EmptySet
<1>2. TableInv
  BY <1>1, BrokerAssumption DEF BrokerInit, TableInv
<1>3. TokenInv
  BY IdleType, Zenon DEF BrokerInit, TokenInv
<1> QED BY Zenon, <1>2, <1>3

(* A table that loses entries stays within its bound.                      *)
LEMMA FewerEntries ==
    ASSUME TableInv, NEW S \in SUBSET entries
    PROVE  S \in SUBSET Handles /\ IsFiniteSet(S) /\ Cardinality(S) <= MaxEntries
<1>1. IsFiniteSet(S) /\ Cardinality(S) <= Cardinality(entries)
  BY FS_Subset DEF TableInv
<1>2. Cardinality(S) \in Nat /\ Cardinality(entries) \in Nat /\ MaxEntries \in Nat
  BY <1>1, FS_CardinalityType, BrokerAssumption DEF TableInv
<1> QED BY <1>1, <1>2 DEF TableInv

LEMMA TableLoses ==
    ASSUME TableInv, entries' \in SUBSET entries, deviceCode' \in SUBSET entries', due' \in SUBSET due,
           UNCHANGED expired, limited' \in SUBSET Principals
    PROVE  TableInv'
<1>1. entries' \in SUBSET Handles /\ IsFiniteSet(entries') /\ Cardinality(entries') <= MaxEntries
  BY Zenon, FewerEntries
<1> QED BY Zenon, <1>1 DEF TableInv

LEMMA TableUnchanged ==
    ASSUME TableInv, UNCHANGED table
    PROVE  TableInv'
<1>1. UNCHANGED <<entries, expired, due, deviceCode, limited>>
  BY Zenon DEF table
<1> QED BY Zenon, <1>1, TableLoses DEF TableInv

LEMMA TableStart ==
    ASSUME TableInv, NEW c \in Callers, NEW p \in Principals, start(c, p)
    PROVE  TableInv'
<1>1. entries' = entries \ expired /\ deviceCode' = deviceCode \ (entries \cap expired) /\ UNCHANGED <<expired, due>>
  BY Zenon DEF start
<1>2. limited' \in SUBSET Principals
  <2>1. limited' = limited \/ limited' = limited \cup {p}
    BY Zenon DEF start
  <2> QED BY Zenon, <2>1 DEF TableInv
<1>3. deviceCode' \in SUBSET entries'
  BY Zenon, <1>1 DEF TableInv
<1> QED BY Zenon, <1>1, <1>2, <1>3, TableLoses

LEMMA TableAdd ==
    ASSUME TableInv, NEW c \in Callers, NEW h \in Handles, AddEntry(c, h)
    PROVE  TableInv'
<1>1. UNCHANGED <<expired, due, limited>>
  BY Zenon DEF AddEntry
<1>2. CASE entries' = entries /\ deviceCode' = deviceCode
  BY Zenon, <1>1, <1>2, TableLoses DEF TableInv
<1>3. CASE ~(Cardinality(entries) >= MaxEntries) /\ entries' = entries \cup {h} /\ deviceCode' = deviceCode \cup {h}
  <2>1. IsFiniteSet(entries') /\ Cardinality(entries') <= MaxEntries
    <3>1. CASE h \in entries
      <4>1. entries' = entries
        BY Zenon, <1>3, <3>1
      <4> QED BY Zenon, <4>1 DEF TableInv
    <3>2. CASE h \notin entries
      <4>1. IsFiniteSet(entries \cup {h}) /\ Cardinality(entries) \in Nat /\ Cardinality(entries \cup {h}) = Cardinality(entries) + 1
        BY Zenon, <3>2, AddOne DEF TableInv
      <4> QED BY <4>1, <1>3, BrokerAssumption
    <3> QED BY Zenon, <3>1, <3>2
  <2> QED BY Zenon, <1>1, <1>3, <2>1 DEF TableInv
<1> QED BY Zenon, <1>2, <1>3 DEF AddEntry

LEMMA TableLookup ==
    ASSUME TableInv, NEW c \in Callers, pollCredentialLocked(c)
    PROVE  TableInv'
<1>1. UNCHANGED <<expired, due, limited>>
  BY Zenon DEF pollCredentialLocked
<1>2. \/ entries' = entries /\ deviceCode' = deviceCode
      \/ entries' = entries \ {caller[c].handle} /\ deviceCode' = deviceCode \ {caller[c].handle}
  BY Zenon DEF pollCredentialLocked
<1>3. entries' \in SUBSET entries /\ deviceCode' \in SUBSET entries'
  BY Zenon, <1>2 DEF TableInv
<1> QED BY Zenon, <1>1, <1>3, TableLoses DEF TableInv

LEMMA TableAnswer ==
    ASSUME TableInv, NEW c \in Callers, PollError(c) \/ PollTokens(c)
    PROVE  TableInv'
<1>1. UNCHANGED <<entries, expired, due, limited>> /\ deviceCode' = deviceCode \ {caller[c].handle}
  BY Zenon DEF PollError, PollTokens
<1> QED BY Zenon, <1>1, TableLoses DEF TableInv

LEMMA TableFinish ==
    ASSUME TableInv, NEW c \in Callers, finishPoll(c)
    PROVE  TableInv'
<1>1. UNCHANGED <<expired, limited>>
  BY Zenon DEF finishPoll
<1>2. \/ entries' = entries /\ deviceCode' = deviceCode
      \/ entries' = entries \ {caller[c].handle} /\ deviceCode' = deviceCode \ {caller[c].handle}
  BY Zenon DEF finishPoll
<1>3. due' = due \/ due' = due \ {caller[c].handle}
  BY Zenon DEF finishPoll
<1>4. entries' \in SUBSET entries /\ deviceCode' \in SUBSET entries' /\ due' \in SUBSET due
  BY Zenon, <1>2, <1>3 DEF TableInv
<1> QED BY Zenon, <1>1, <1>4, TableLoses DEF TableInv

LEMMA TableElapse ==
    ASSUME TableInv, Elapse
    PROVE  TableInv'
<1>1. UNCHANGED <<entries, deviceCode>>
  BY Zenon DEF Elapse
<1>2. expired' = expired \/ \E h \in entries : expired' = expired \cup {h}
  BY Zenon DEF Elapse, TimePasses
<1>3. due' = due \/ \E h \in entries : due' = due \cup {h}
  BY Zenon DEF Elapse, TimePasses
<1>4. limited' = limited \/ \E p \in limited : limited' = limited \ {p}
  BY Zenon DEF Elapse, TimePasses
<1>5. expired' \in SUBSET Handles
  BY Zenon, <1>2 DEF TableInv
<1>6. due' \in SUBSET Handles
  BY Zenon, <1>3 DEF TableInv
<1>7. limited' \in SUBSET Principals
  BY Zenon, <1>4 DEF TableInv
<1> QED BY Zenon, <1>1, <1>5, <1>6, <1>7 DEF TableInv

LEMMA TableStep ==
    ASSUME TableInv, [BrokerNext]_brokerVars
    PROVE  TableInv'
<1>1. CASE UNCHANGED brokerVars
  BY Zenon, <1>1, TableUnchanged DEF brokerVars
<1>2. ASSUME NEW c \in Callers, NEW p \in Principals, start(c, p) \/ Credential(c, p) PROVE TableInv'
  BY Zenon, <1>2, TableStart, TableUnchanged DEF Credential
<1>3. ASSUME NEW c \in Callers, NEW p \in Principals, NEW h \in Handles, poll(c, p, h) PROVE TableInv'
  BY Zenon, <1>3, TableUnchanged DEF poll
<1>4. ASSUME NEW c \in Callers, CallerStep(c) PROVE TableInv'
  <2>1. CASE StartFails(c) \/ PollPending(c) \/ saveLink(c) \/ loadLink(c) \/ Refresh(c) \/ SaveRefreshed(c)
    <3>1. UNCHANGED table
      BY Zenon, <2>1 DEF StartFails, PollPending, saveLink, loadLink, Refresh, SaveRefreshed
    <3> QED BY Zenon, <3>1, TableUnchanged
  <2> QED BY Zenon, <1>4, <2>1, TableAdd, TableLookup, TableAnswer, TableFinish DEF CallerStep
<1>5. ASSUME NEW p \in Principals, delete(p) PROVE TableInv'
  BY Zenon, <1>5, TableUnchanged DEF delete
<1>6. CASE Close
  <2>1. entries' = {} /\ deviceCode' = deviceCode \ entries /\ limited' = {} /\ UNCHANGED <<expired, due>>
    BY Zenon, <1>6 DEF Close
  <2>2. entries' \in SUBSET entries /\ deviceCode' \in SUBSET entries' /\ limited' \in SUBSET Principals
    BY Zenon, <2>1 DEF TableInv
  <2> QED BY Zenon, <2>1, <2>2, TableLoses
<1>7. CASE Elapse
  BY Zenon, <1>7, TableElapse
<1> QED BY Zenon, <1>1, <1>2, <1>3, <1>4, <1>5, <1>6, <1>7 DEF BrokerNext

----------------------------------------------------------------------------
(* The tokens: a stored link is the first one of its authorization, or one *)
(* that replaced a stored one.                                             *)
LEMMA TokenKept ==
    ASSUME LockInv, TokenInv, NEW c \in Callers, NEW next, caller' = [caller EXCEPT ![c] = next],
           next.at # "refreshed", UNCHANGED <<tunnelLinks, expiring>>
    PROVE  TokenInv'
<1>1. \A d \in Callers : caller'[d] = IF d = c THEN next ELSE caller[d]
  BY Zenon DEF LockInv, Shape
<1>2. ASSUME NEW d \in Callers, caller'[d].at = "refreshed" PROVE caller'[d] = caller[d]
  <2>1. CASE d = c
    BY Zenon, <1>1, <1>2, <2>1
  <2> QED BY Zenon, <1>1, <2>1
<1> QED BY Zenon, <1>2 DEF TokenInv

LEMMA TokenSaved ==
    ASSUME LockInv, TokenInv, NEW c \in Callers, NEW p \in Principals, NEW link, caller' = [caller EXCEPT ![c] = Idle],
           \/ UNCHANGED <<tunnelLinks, expiring>>
           \/ tunnelLinks' = [tunnelLinks EXCEPT ![p] = link] /\ link[2] \in Rotations /\ expiring' = expiring \ {p}
    PROVE  TokenInv'
<1>1. CASE UNCHANGED <<tunnelLinks, expiring>>
  <2>1. Idle.at # "refreshed"
    BY Zenon, IdleType
  <2> QED BY Zenon, <1>1, <2>1, TokenKept
<1>2. CASE tunnelLinks' = [tunnelLinks EXCEPT ![p] = link] /\ link[2] \in Rotations /\ expiring' = expiring \ {p}
  <2>1. \A q \in Principals : tunnelLinks'[q] = IF q = p THEN link ELSE tunnelLinks[q]
    BY Zenon, <1>2 DEF LockInv, Shape
  <2>2. \A d \in Callers : caller'[d] = IF d = c THEN Idle ELSE caller[d]
    BY Zenon DEF LockInv, Shape
  <2>3. ASSUME NEW q \in Principals, tunnelLinks'[q] # NoLink PROVE tunnelLinks'[q][2] \in Rotations
    <3>1. CASE q = p
      BY Zenon, <2>1, <1>2, <3>1
    <3>2. CASE q # p
      BY Zenon, <2>1, <2>3, <3>2 DEF TokenInv
    <3> QED BY Zenon, <3>1, <3>2
  <2>4. ASSUME NEW d \in Callers, caller'[d].at = "refreshed" PROVE caller'[d].link[2] \in Rotations
    <3>1. d # c
      BY Zenon, <2>2, <2>4, IdleType
    <3> QED BY Zenon, <2>2, <2>4, <3>1 DEF TokenInv
  <2>5. expiring' \in SUBSET Principals
    BY Zenon, <1>2 DEF TokenInv
  <2> QED BY Zenon, <2>3, <2>4, <2>5 DEF TokenInv
<1> QED BY Zenon, <1>1, <1>2

LEMMA MovedAt ==
    ASSUME LockInv, NEW c \in Callers, NEW step, Moves(c, step)
    PROVE  step # "refreshed" => \E next : caller' = [caller EXCEPT ![c] = next] /\ next.at # "refreshed"
<1>1. caller[c] \in CallerState
  BY Zenon, FieldTypes DEF LockInv
<1>2. [caller[c] EXCEPT !.at = step].at = step
  BY <1>1 DEF CallerState
<1> QED BY Zenon, <1>2 DEF Moves, Becomes

(* A request that does not end a refresh.                                  *)
LEMMA TokenStep ==
    ASSUME LockInv, TokenInv, NEW c \in Callers,
           \/ \E p \in Principals : start(c, p) \/ Credential(c, p)
           \/ \E p \in Principals, h \in Handles : poll(c, p, h)
           \/ \E h \in Handles : AddEntry(c, h)
           \/ StartFails(c) \/ pollCredentialLocked(c) \/ PollPending(c) \/ PollError(c) \/ PollTokens(c)
           \/ finishPoll(c) \/ loadLink(c)
    PROVE  TokenInv'
<1>1. UNCHANGED <<tunnelLinks, expiring>>
  BY Zenon DEF start, Credential, poll, AddEntry, StartFails, pollCredentialLocked, PollPending, PollError, PollTokens,
               finishPoll, loadLink, stored
<1>2. UNCHANGED caller \/ \E next : caller' = [caller EXCEPT ![c] = next] /\ next.at # "refreshed"
  <2>1. ASSUME NEW step, NEW p, NEW h, NEW link, step # "refreshed", Becomes(c, Calling(step, p, h, link))
        PROVE  \E next : caller' = [caller EXCEPT ![c] = next] /\ next.at # "refreshed"
    <3>1. Calling(step, p, h, link).at = step
      BY Zenon DEF Calling
    <3> QED BY Zenon, <3>1, <2>1 DEF Becomes
  <2>2. ASSUME Becomes(c, Idle)
        PROVE  \E next : caller' = [caller EXCEPT ![c] = next] /\ next.at # "refreshed"
    BY Zenon, <2>2, IdleType DEF Becomes
  <2>3. CASE \E p \in Principals : start(c, p)
    <3>1. PICK step : step = "starting"
      OBVIOUS
    <3> QED BY Zenon, <2>1, <2>3, <3>1 DEF start
  <2>4. CASE \E p \in Principals : Credential(c, p)
    <3>1. PICK step : step = "load"
      OBVIOUS
    <3> QED BY Zenon, <2>1, <2>4, <3>1 DEF Credential
  <2>5. CASE \E p \in Principals, h \in Handles : poll(c, p, h)
    <3>1. PICK step : step = "lookup"
      OBVIOUS
    <3> QED BY Zenon, <2>1, <2>5, <3>1 DEF poll
  <2>6. CASE (\E h \in Handles : AddEntry(c, h)) \/ StartFails(c)
    BY Zenon, <2>2, <2>6 DEF AddEntry, StartFails
  <2>7. CASE pollCredentialLocked(c)
    <3>1. PICK step : step = "asking" /\ step # "refreshed"
      OBVIOUS
    <3> QED BY Zenon, <2>2, <2>7, <3>1, MovedAt DEF pollCredentialLocked
  <2>8. CASE PollPending(c)
    <3>1. PICK step : step = "pending" /\ step # "refreshed"
      OBVIOUS
    <3> QED BY Zenon, <2>8, <3>1, MovedAt DEF PollPending
  <2>9. CASE PollError(c)
    <3>1. PICK step : step = "error" /\ step # "refreshed"
      OBVIOUS
    <3> QED BY Zenon, <2>9, <3>1, MovedAt DEF PollError
  <2>10. CASE PollTokens(c)
    <3>1. PICK step : step = "tokens"
      OBVIOUS
    <3> QED BY Zenon, <2>1, <2>10, <3>1 DEF PollTokens
  <2>11. CASE finishPoll(c)
    <3>1. PICK step : step = "saving" /\ step # "refreshed"
      OBVIOUS
    <3> QED BY Zenon, <2>2, <2>11, <3>1, MovedAt DEF finishPoll
  <2>12. CASE loadLink(c)
    <3>1. PICK step : step = "refresh"
      OBVIOUS
    <3> QED BY Zenon, <2>1, <2>2, <2>12, <3>1 DEF loadLink
  <2> QED BY Zenon, <2>3, <2>4, <2>5, <2>6, <2>7, <2>8, <2>9, <2>10, <2>11, <2>12
<1> QED BY Zenon, <1>1, <1>2, TokenKept DEF TokenInv

LEMMA TokenRefresh ==
    ASSUME LockInv, TokenInv, NEW c \in Callers, Refresh(c)
    PROVE  TokenInv'
<1>1. UNCHANGED <<tunnelLinks, expiring>> /\ caller[c].at = "refresh"
  BY Zenon DEF Refresh
<1>2. CASE Becomes(c, Idle)
  BY Zenon, <1>1, <1>2, IdleType, TokenKept DEF Becomes
<1>3. CASE \E next \in {caller[c].link[2], caller[c].link[2] + 1} :
              /\ next = caller[c].link[2] \/ caller[c].link[2] <= MaxRotations
              /\ Becomes(c, Calling("refreshed", caller[c].principal, NoBody, <<caller[c].link[1], next>>))
  <2>1. PICK next \in {caller[c].link[2], caller[c].link[2] + 1} :
              /\ next = caller[c].link[2] \/ caller[c].link[2] <= MaxRotations
              /\ Becomes(c, Calling("refreshed", caller[c].principal, NoBody, <<caller[c].link[1], next>>))
    BY Zenon, <1>3
  <2>2. caller[c].principal \in Principals /\ tunnelLinks[caller[c].principal] # NoLink /\ caller[c].link = tunnelLinks[caller[c].principal]
    BY Zenon, <1>1 DEF LockInv, CallerHolds, CallerRefreshes
  <2>3. caller[c].link[2] \in Rotations
    BY Zenon, <2>2 DEF TokenInv
  <2>4. next \in Rotations
    BY <2>1, <2>3, BrokerAssumption DEF Rotations
  <2>5. PICK link : link = <<caller[c].link[1], next>>
    BY Zenon
  <2>6. link[2] = next
    BY Zenon, <2>5
  <2>7. PICK rec : rec = Calling("refreshed", caller[c].principal, NoBody, link)
    BY Zenon
  <2>8. rec.link = link
    BY Zenon, <2>7 DEF Calling
  <2>9. \A d \in Callers : caller'[d] = IF d = c THEN rec ELSE caller[d]
    BY Zenon, <2>1, <2>5, <2>7 DEF Becomes, LockInv, Shape
  <2>10. ASSUME NEW d \in Callers, caller'[d].at = "refreshed" PROVE caller'[d].link[2] \in Rotations
    <3>1. CASE d = c
      BY Zenon, <2>4, <2>6, <2>8, <2>9, <3>1
    <3>2. CASE d # c
      BY Zenon, <2>9, <2>10, <3>2 DEF TokenInv
    <3> QED BY Zenon, <3>1, <3>2
  <2> QED BY Zenon, <1>1, <2>10 DEF TokenInv
<1> QED BY Zenon, <1>2, <1>3 DEF Refresh

LEMMA TokenSaves ==
    ASSUME LockInv, TokenInv, NEW c \in Callers, saveLink(c) \/ SaveRefreshed(c)
    PROVE  TokenInv'
<1>1. caller[c].principal \in Principals
  BY Zenon DEF LockInv, CallerHolds, saveLink, SaveRefreshed
<1>2. caller[c].link[2] \in Rotations
  <2>1. CASE saveLink(c)
    <3>1. caller[c].link = <<caller[c].handle, 1>>
      BY Zenon, <2>1 DEF LockInv, CallerPolls, saveLink
    <3>2. \A x : <<x, 1>>[2] = 1
      BY Zenon
    <3>3. caller[c].link[2] = 1
      BY Zenon, <3>1, <3>2
    <3> QED BY <3>3, BrokerAssumption DEF Rotations
  <2>2. CASE SaveRefreshed(c)
    BY Zenon, <2>2 DEF TokenInv, SaveRefreshed
  <2> QED BY Zenon, <2>1, <2>2
<1>3. PICK p, link : p \in Principals /\ p = caller[c].principal /\ link = caller[c].link
  BY Zenon, <1>1
<1>4. caller' = [caller EXCEPT ![c] = Idle] /\ p \in Principals
  BY Zenon, <1>3 DEF saveLink, SaveRefreshed, Becomes
<1>5. \/ UNCHANGED <<tunnelLinks, expiring>>
      \/ tunnelLinks' = [tunnelLinks EXCEPT ![p] = link] /\ link[2] \in Rotations /\ expiring' = expiring \ {p}
  BY Zenon, <1>2, <1>3 DEF saveLink, SaveRefreshed
<1> QED BY Zenon, <1>4, <1>5, TokenSaved

LEMMA TokenOthers ==
    ASSUME LockInv, TokenInv, UNCHANGED brokerVars \/ Close \/ Elapse \/ \E p \in Principals : delete(p)
    PROVE  TokenInv'
<1>1. UNCHANGED caller
  BY Zenon DEF brokerVars, Close, Elapse, delete
<1>2. expiring' \in SUBSET Principals
  <2>1. \/ expiring' = expiring
        \/ \E p \in Principals : expiring' = expiring \cup {p} \/ expiring' = expiring \ {p}
    BY Zenon DEF brokerVars, Close, Elapse, TimePasses, delete, stored
  <2> QED BY Zenon, <2>1 DEF TokenInv
<1>3. UNCHANGED tunnelLinks \/ \E p \in Principals : tunnelLinks' = [tunnelLinks EXCEPT ![p] = NoLink]
  BY Zenon DEF brokerVars, Close, Elapse, delete, stored
<1>4. ASSUME NEW q \in Principals, tunnelLinks'[q] # NoLink PROVE tunnelLinks'[q] = tunnelLinks[q]
  BY Zenon, <1>3, <1>4 DEF LockInv, Shape
<1> QED BY Zenon, <1>1, <1>2, <1>4 DEF TokenInv

(* The table of pending authorizations never holds more than               *)
(* maxLinkBrokerEntries, however many starts were admitted before one of   *)
(* them reached it, and no device code outlives its entry; every other     *)
(* variable of the broker has its type.                                    *)
THEOREM PendingTableBounded == BrokerSpec => []BrokerTypeOK
<1>1. LockInv /\ TableInv /\ TokenInv => BrokerTypeOK
  <2> SUFFICES ASSUME LockInv, TableInv, TokenInv PROVE BrokerTypeOK
    OBVIOUS
  <2>1. ASSUME NEW p \in Principals PROVE tunnelLinks[p] \in (Handles \X (1 .. MaxRotations + 1)) \cup {NoLink}
    <3>1. CASE tunnelLinks[p] # NoLink
      <4>1. tunnelLinks[p] = <<tunnelLinks[p][1], tunnelLinks[p][2]>>
        <5>1. tunnelLinks[p] \in (Handles \cup {NoBody}) \X Nat
          BY Zenon DEF LockInv, Shape
        <5> QED BY <5>1
      <4>2. tunnelLinks[p][1] \in Handles /\ tunnelLinks[p][2] \in Rotations
        BY Zenon, <3>1 DEF LockInv, LinkOwned, TokenInv
      <4> QED BY Zenon, <4>1, <4>2 DEF Rotations
    <3> QED BY Zenon, <3>1
  <2>2. ASSUME NEW c \in Callers PROVE caller[c].principal \in Principals \cup {NoBody}
    BY Zenon, FieldTypes DEF LockInv
  <2> QED BY Zenon, <2>1, <2>2 DEF BrokerTypeOK, LockInv, Shape, TableInv, TokenInv
<1>2. LockInv /\ TokenInv /\ [BrokerNext]_brokerVars => TokenInv'
  BY Zenon, TokenStep, TokenRefresh, TokenSaves, TokenOthers DEF BrokerNext, CallerStep
<1>3. LockInv /\ TableInv /\ TokenInv /\ [BrokerNext]_brokerVars => (TableInv /\ TokenInv)'
  BY Zenon, <1>2, TableStep
<1> QED BY <1>1, <1>3, LockInvariant, TableStarts, PTL DEF BrokerSpec
=============================================================================
