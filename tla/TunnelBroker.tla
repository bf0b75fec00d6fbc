---------------------------- MODULE TunnelBroker ----------------------------
(***************************************************************************)
(* The Dev Tunnels account broker (subsystems/tunnel/tunnel.go) with the   *)
(* device grants and refresh tokens of its providers                       *)
(* (internal/devtunnel/authorization.go).  Requests of any principal run   *)
(* beside each other: the table of pending authorizations is guarded by a  *)
(* mutex that is not held across a call to the provider, the stored link   *)
(* of a principal by a file lock that is.  A provider redeems a device     *)
(* code once and rotates refresh tokens: only the last one it issued is    *)
(* good.  Time is abstracted to what it makes true: an authorization has   *)
(* expired, a poll is due, a start is allowed again, a link is about to    *)
(* expire.                                                                 *)
(***************************************************************************)
EXTENDS Naturals, FiniteSets

CONSTANTS
    Callers,        \* requests in progress
    Principals,
    Handles,        \* authorization handles, drawn at random and never again
    NoBody,         \* no principal, no handle, a free lock
    MaxEntries,     \* maxLinkBrokerEntries
    MaxRotations    \* bound: refreshes of one link

ASSUME BrokerAssumption ==
    /\ MaxEntries \in Nat \ {0}
    /\ MaxRotations \in Nat
    /\ NoBody \notin Callers \cup Principals \cup Handles

VARIABLES
    entries,        \* handles in the table
    startedBy,      \* the principal of an authorization, NoBody if unused
    expired, due,   \* authorizations that expired, and that may be polled
    deviceCode,     \* authorizations whose device code is not cleared
    limited,        \* principals whose nextPrincipalStart is ahead
    credentialLock, \* the holder of .tunnel-link-<principal>.lock
    tunnelLinks,    \* tunnel-link: <<handle it came from, refresh token>>
    expiring,       \* principals whose link is in the refresh window
    caller,         \* where a request stands and what it holds
    redeemed,       \* provider: how often a device code was exchanged
    issued,         \* provider: the last refresh token of an authorization
    unsaved         \* history: principals whose rotated token was not saved

table == <<entries, startedBy, expired, due, deviceCode, limited>>
provider == <<redeemed, issued>>
stored == <<credentialLock, tunnelLinks, expiring, unsaved>>
brokerVars == <<table, stored, caller, provider>>

NoLink == <<NoBody, 0>>
Calling(step, p, h, link) == [at |-> step, principal |-> p, handle |-> h, link |-> link]
Idle == Calling("idle", NoBody, NoBody, NoLink)

BrokerInit ==
    /\ entries = {}
    /\ startedBy = [h \in Handles |-> NoBody]
    /\ expired = {}
    /\ due = {}
    /\ deviceCode = {}
    /\ limited = {}
    /\ credentialLock = [p \in Principals |-> NoBody]
    /\ tunnelLinks = [p \in Principals |-> NoLink]
    /\ expiring = {}
    /\ caller = [c \in Callers |-> Idle]
    /\ redeemed = [h \in Handles |-> 0]
    /\ issued = [h \in Handles |-> 0]
    /\ unsaved = {}

Becomes(c, state) == caller' = [caller EXCEPT ![c] = state]
Moves(c, step) == Becomes(c, [caller[c] EXCEPT !.at = step])

----------------------------------------------------------------------------
(* start: admission, then the provider's answer, then the table once more. *)

start(c, p) ==
    /\ caller[c] = Idle
    /\ entries' = entries \ expired
    /\ deviceCode' = deviceCode \ (entries \cap expired)
    /\ IF p \in limited \/ Cardinality(entries') >= MaxEntries
         THEN UNCHANGED <<limited, caller>>
         ELSE /\ limited' = limited \cup {p}
              /\ Becomes(c, Calling("starting", p, NoBody, NoLink))
    /\ UNCHANGED <<startedBy, expired, due, stored, provider>>

StartFails(c) ==
    /\ caller[c].at = "starting"
    /\ Becomes(c, Idle)
    /\ UNCHANGED <<table, stored, provider>>

AddEntry(c, h) ==
    /\ caller[c].at = "starting"
    /\ startedBy[h] = NoBody
    /\ startedBy' = [startedBy EXCEPT ![h] = caller[c].principal]
    /\ IF Cardinality(entries) >= MaxEntries
         THEN UNCHANGED <<entries, deviceCode>>
         ELSE entries' = entries \cup {h} /\ deviceCode' = deviceCode \cup {h}
    /\ Becomes(c, Idle)
    /\ UNCHANGED <<expired, due, limited, stored, provider>>

----------------------------------------------------------------------------
(* The credential lock of a principal, held by poll, Credential and delete.*)

WithoutLock(c, p) == UNCHANGED credentialLock

withCredentialLock(c, p) ==
    /\ credentialLock[p] = NoBody
    /\ credentialLock' = [credentialLock EXCEPT ![p] = c]

Unlock(c) == credentialLock' = [credentialLock EXCEPT ![caller[c].principal] = NoBody]

(* poll, from the lock to the provider's answer: a handle that is unknown, *)
(* another principal's, expired or polled too early ends it at once.       *)
poll(c, p, h) ==
    /\ caller[c] = Idle
    /\ startedBy[h] # NoBody
    /\ withCredentialLock(c, p)
    /\ Becomes(c, Calling("lookup", p, h, NoLink))
    /\ UNCHANGED <<table, tunnelLinks, expiring, unsaved, provider>>

FoundByHandle(c) == caller[c].handle \in entries

Found(c) == caller[c].handle \in entries /\ startedBy[caller[c].handle] = caller[c].principal

pollCredentialLocked(c) ==
    /\ caller[c].at = "lookup"
    /\ LET h == caller[c].handle
       IN  \/ /\ Found(c) /\ h \notin expired /\ h \in due
              /\ Moves(c, "asking")
              /\ UNCHANGED <<entries, deviceCode, credentialLock>>
           \/ /\ ~Found(c) \/ h \in expired \/ h \notin due
              /\ IF Found(c) /\ h \in expired
                   THEN entries' = entries \ {h} /\ deviceCode' = deviceCode \ {h}
                   ELSE UNCHANGED <<entries, deviceCode>>
              /\ Unlock(c)
              /\ Becomes(c, Idle)
    /\ UNCHANGED <<startedBy, expired, due, limited, tunnelLinks, expiring, unsaved, provider>>

(* The provider answers: pending, a terminal error, or tokens.             *)
PollPending(c) ==
    /\ caller[c].at = "asking"
    /\ Moves(c, "pending")
    /\ UNCHANGED <<table, stored, provider>>

PollError(c) ==
    /\ caller[c].at = "asking"
    /\ deviceCode' = deviceCode \ {caller[c].handle}
    /\ Moves(c, "error")
    /\ UNCHANGED <<entries, startedBy, expired, due, limited, stored, provider>>

PollTokens(c) ==
    /\ caller[c].at = "asking"
    /\ LET h == caller[c].handle
       IN  /\ redeemed' = [redeemed EXCEPT ![h] = @ + 1]
           /\ issued' = [issued EXCEPT ![h] = 1]
           /\ deviceCode' = deviceCode \ {h}
           /\ Becomes(c, Calling("tokens", caller[c].principal, h, <<h, 1>>))
    /\ UNCHANGED <<entries, startedBy, expired, due, limited, stored>>

(* finishPoll: the entry may have gone since.                              *)
finishPoll(c) ==
    /\ caller[c].at \in {"pending", "error", "tokens"}
    /\ IF caller[c].at = "pending"
         THEN due' = due \ {caller[c].handle} /\ UNCHANGED <<entries, deviceCode>>
         ELSE /\ entries' = entries \ {caller[c].handle}
              /\ deviceCode' = deviceCode \ {caller[c].handle}
              /\ UNCHANGED due
    /\ IF caller[c].at = "tokens"
         THEN Moves(c, "saving") /\ UNCHANGED credentialLock
         ELSE Becomes(c, Idle) /\ Unlock(c)
    /\ UNCHANGED <<startedBy, expired, limited, tunnelLinks, expiring, unsaved, provider>>

saveLink(c) ==
    /\ caller[c].at = "saving"
    /\ LET p == caller[c].principal
       IN  \/ /\ tunnelLinks' = [tunnelLinks EXCEPT ![p] = caller[c].link]
              /\ expiring' = expiring \ {p}
              /\ unsaved' = unsaved \ {p}
           \/ UNCHANGED <<tunnelLinks, expiring, unsaved>>
    /\ Unlock(c)
    /\ Becomes(c, Idle)
    /\ UNCHANGED <<table, provider>>

----------------------------------------------------------------------------
(* Credential: a link about to expire is refreshed and saved first.        *)

Credential(c, p) ==
    /\ caller[c] = Idle
    /\ withCredentialLock(c, p)
    /\ Becomes(c, Calling("load", p, NoBody, NoLink))
    /\ UNCHANGED <<table, tunnelLinks, expiring, unsaved, provider>>

loadLink(c) ==
    /\ caller[c].at = "load"
    /\ LET p == caller[c].principal
       IN  IF tunnelLinks[p] # NoLink /\ p \in expiring
             THEN /\ Becomes(c, Calling("refresh", p, NoBody, tunnelLinks[p]))
                  /\ UNCHANGED credentialLock
             ELSE Becomes(c, Idle) /\ Unlock(c)
    /\ UNCHANGED <<table, tunnelLinks, expiring, unsaved, provider>>

(* A rotated token is the only good one from then on; a provider may also  *)
(* return no new one, and the old token stays.  Without a usable answer    *)
(* (a timeout, a cancelled request, a bad body) nothing is saved, although *)
(* the provider may have rotated.                                          *)
Refresh(c) ==
    /\ caller[c].at = "refresh"
    /\ LET p == caller[c].principal
           h == caller[c].link[1]
           t == caller[c].link[2]
           Rotates == t = issued[h] /\ t <= MaxRotations /\ issued' = [issued EXCEPT ![h] = t + 1]
       IN  \/ /\ t = issued[h] /\ issued' = issued
              /\ Becomes(c, Calling("refreshed", p, NoBody, <<h, t>>))
              /\ UNCHANGED <<credentialLock, unsaved>>
           \/ /\ Rotates
              /\ Becomes(c, Calling("refreshed", p, NoBody, <<h, t + 1>>))
              /\ UNCHANGED <<credentialLock, unsaved>>
           \/ /\ issued' = issued /\ unsaved' = unsaved
              /\ Becomes(c, Idle) /\ Unlock(c)
           \/ /\ Rotates
              /\ unsaved' = unsaved \cup {p}
              /\ Becomes(c, Idle) /\ Unlock(c)
    /\ UNCHANGED <<table, tunnelLinks, expiring, redeemed>>

SaveRefreshed(c) ==
    /\ caller[c].at = "refreshed"
    /\ LET p == caller[c].principal
       IN  \/ /\ tunnelLinks' = [tunnelLinks EXCEPT ![p] = caller[c].link]
              /\ expiring' = expiring \ {p}
              /\ unsaved' = unsaved \ {p}
           \/ /\ unsaved' = unsaved \cup {p}
              /\ UNCHANGED <<tunnelLinks, expiring>>
    /\ Unlock(c)
    /\ Becomes(c, Idle)
    /\ UNCHANGED <<table, provider>>

delete(p) ==
    /\ credentialLock[p] = NoBody
    /\ tunnelLinks' = [tunnelLinks EXCEPT ![p] = NoLink]
    /\ expiring' = expiring \ {p}
    /\ unsaved' = unsaved \ {p}
    /\ UNCHANGED <<table, credentialLock, caller, provider>>

(* Close drops every pending authorization.                                *)
Close ==
    /\ entries # {}
    /\ entries' = {}
    /\ deviceCode' = deviceCode \ entries
    /\ limited' = {}
    /\ UNCHANGED <<startedBy, expired, due, stored, caller, provider>>

----------------------------------------------------------------------------
(* Time.                                                                   *)
TimePasses ==
    \/ /\ \E h \in entries \ expired : expired' = expired \cup {h}
       /\ UNCHANGED <<due, limited, expiring>>
    \/ /\ \E h \in entries \ due : due' = due \cup {h}
       /\ UNCHANGED <<expired, limited, expiring>>
    \/ /\ \E p \in limited : limited' = limited \ {p}
       /\ UNCHANGED <<expired, due, expiring>>
    \/ /\ \E p \in Principals \ expiring : tunnelLinks[p] # NoLink /\ expiring' = expiring \cup {p}
       /\ UNCHANGED <<expired, due, limited>>

Elapse ==
    /\ TimePasses
    /\ UNCHANGED <<entries, startedBy, deviceCode, credentialLock, tunnelLinks, unsaved, caller, provider>>

CallerStep(c) ==
    \/ StartFails(c)
    \/ \E h \in Handles : AddEntry(c, h)
    \/ pollCredentialLocked(c) \/ PollPending(c) \/ PollError(c) \/ PollTokens(c)
    \/ finishPoll(c) \/ saveLink(c)
    \/ loadLink(c) \/ Refresh(c) \/ SaveRefreshed(c)

BrokerNext ==
    \/ \E c \in Callers, p \in Principals : start(c, p) \/ Credential(c, p)
    \/ \E c \in Callers, p \in Principals, h \in Handles : poll(c, p, h)
    \/ \E c \in Callers : CallerStep(c)
    \/ \E p \in Principals : delete(p)
    \/ Close \/ Elapse

BrokerSpec == BrokerInit /\ [][BrokerNext]_brokerVars

----------------------------------------------------------------------------
(* The types of the state; the table stays within maxLinkBrokerEntries     *)
(* although several starts may be admitted before one reaches it, and no   *)
(* device code outlives its entry.                                         *)
BrokerTypeOK ==
    /\ entries \in SUBSET Handles /\ Cardinality(entries) <= MaxEntries
    /\ startedBy \in [Handles -> Principals \cup {NoBody}]
    /\ expired \in SUBSET Handles
    /\ due \in SUBSET Handles
    /\ deviceCode \in SUBSET entries
    /\ limited \in SUBSET Principals
    /\ credentialLock \in [Principals -> Callers \cup {NoBody}]
    /\ \A p \in Principals : tunnelLinks[p] \in (Handles \X (1 .. MaxRotations + 1)) \cup {NoLink}
    /\ expiring \in SUBSET Principals
    /\ \A c \in Callers : caller[c].principal \in Principals \cup {NoBody}
    /\ redeemed \in [Handles -> Nat]
    /\ issued \in [Handles -> Nat]
    /\ unsaved \in SUBSET Principals

(* An authorization is exchanged at most once and becomes the link of the  *)
(* principal that started it, never of another one that polls its handle.  *)
RedeemedForItsPrincipal ==
    /\ \A h \in Handles : redeemed[h] <= 1
    /\ \A p \in Principals : tunnelLinks[p] # NoLink => startedBy[tunnelLinks[p][1]] = p

(* The stored refresh token is the one the provider will accept, however   *)
(* many requests refresh at once: only a save that failed, an answer that  *)
(* was lost after the provider rotated, or a request that is about to save *)
(* leaves a superseded one behind.                                         *)
RefreshTokenKept ==
    \A p \in Principals :
        /\ tunnelLinks[p] # NoLink /\ p \notin unsaved
        /\ \A c \in Callers : caller[c].principal = p => caller[c].at # "refreshed"
        => tunnelLinks[p][2] = issued[tunnelLinks[p][1]]

(* An account that was unlinked stays unlinked until its owner authorizes  *)
(* again: no refresh that began before writes the link back.               *)
UnlinkHolds ==
    [][\A p \in Principals :
         tunnelLinks[p] = NoLink /\ tunnelLinks'[p] # NoLink =>
            \E c \in Callers : caller[c].at = "saving" /\ caller[c].principal = p]_brokerVars
============================================================================
