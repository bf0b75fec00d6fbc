---------------------------- MODULE SigningKeys ----------------------------
(***************************************************************************)
(* The cache of the OIDC issuer's signing keys (internal/identity/oidc.go).*)
(* Validation looks a token's key up, and once more by name when it is     *)
(* missing; requests that find the cache expired, or the key missing,      *)
(* share one refresh that outlives the request that started it.  The       *)
(* issuer publishes new keys and retires old ones, a fetch may fail, and a *)
(* request may be cancelled while it waits.  The cache's times are         *)
(* abstracted to what they make true.                                      *)
(***************************************************************************)
EXTENDS Naturals, FiniteSets

CONSTANTS
    Bearers,       \* requests, each with a token
    Kids           \* key IDs

ASSUME KeysAssumption == Kids # {}

VARIABLES
    published,     \* issuer: the keys it publishes
    everPublished, \* issuer: a retired key does not come back
    keyCache,      \* v.cache.keys; {} before the first refresh
    keysFresh,     \* now is before v.cache.expires
    cooldown,      \* now is before v.nextUnknownRefresh
    refreshCall,   \* v.refresh is set
    refreshes,     \* the runRefresh goroutines: Started, or what was fetched
    bearerAt,      \* where a request stands
    bearerKid,     \* the key ID of its token
    keyCopy,       \* the cache it was given
    steady         \* history: requests whose key was cached and published
                   \* when they came and has not been retired since

issuer == <<published, everPublished>>
keyState == <<keyCache, keysFresh, cooldown, refreshCall, refreshes>>
bearer == <<bearerAt, bearerKid, keyCopy, steady>>
keyVars == <<issuer, keyState, bearer>>

Started == {"started"}

FirstKid == CHOOSE k \in Kids : TRUE

KeyInit ==
    /\ published = {FirstKid}
    /\ everPublished = published
    /\ keyCache = {}
    /\ keysFresh = FALSE
    /\ cooldown = FALSE
    /\ refreshCall = FALSE
    /\ refreshes = {}
    /\ bearerAt = [r \in Bearers |-> "idle"]
    /\ bearerKid = [r \in Bearers |-> FirstKid]
    /\ keyCopy = [r \in Bearers |-> {}]
    /\ steady = {}

Step(r, at) == bearerAt' = [bearerAt EXCEPT ![r] = at]

----------------------------------------------------------------------------
Validate(r, k) ==
    /\ bearerAt[r] = "idle"
    /\ Step(r, "keys")
    /\ bearerKid' = [bearerKid EXCEPT ![r] = k]
    /\ steady' = IF k \in keyCache \cap published THEN steady \cup {r} ELSE steady \ {r}
    /\ UNCHANGED <<issuer, keyState, keyCopy>>

(* keys(ctx, unknownKID): answer from the cache, or join the refresh in    *)
(* flight, or start one.  The second call names the key that was missing.  *)
cached(r) ==
    IF bearerAt[r] = "keys"
      THEN keyCache # {} /\ keysFresh
      ELSE bearerKid[r] \in keyCache \/ (~refreshCall /\ cooldown)

ReadCache(r) ==
    /\ keyCopy' = [keyCopy EXCEPT ![r] = keyCache]
    /\ Step(r, IF bearerAt[r] \in {"keys", "woken"} THEN "first" ELSE "second")

keys(r) ==
    /\ bearerAt[r] \in {"keys", "missing"}
    /\ \/ /\ cached(r)
          /\ ReadCache(r)
          /\ UNCHANGED <<refreshCall, refreshes, cooldown>>
       \/ /\ ~cached(r)
          /\ IF refreshCall
               THEN UNCHANGED <<refreshCall, refreshes, cooldown>>
               ELSE /\ refreshCall' = TRUE
                    /\ refreshes' = refreshes \cup {Started}
                    /\ cooldown' = (cooldown \/ bearerAt[r] = "missing")
          /\ Step(r, IF bearerAt[r] = "keys" THEN "wait" ELSE "wait missing")
          /\ UNCHANGED keyCopy
    /\ UNCHANGED <<issuer, keyCache, keysFresh, bearerKid, steady>>

WaitCancelled(r) ==
    /\ bearerAt[r] \in {"wait", "wait missing"}
    /\ Step(r, "rejected")
    /\ UNCHANGED <<issuer, keyState, bearerKid, keyCopy, steady>>

Wake(r) ==
    /\ bearerAt[r] \in {"woken", "woken missing"}
    /\ ReadCache(r)
    /\ UNCHANGED <<issuer, keyState, bearerKid, steady>>

FetchOneKey ==
    /\ Started \in refreshes
    /\ \E k \in published : refreshes' = (refreshes \ {Started}) \cup {{k}}
    /\ UNCHANGED <<issuer, keyCache, keysFresh, cooldown, refreshCall, bearer>>

(* runRefresh, on its own context: fetch, then install and wake everybody. *)
fetchKeys ==
    /\ Started \in refreshes
    /\ refreshes' = (refreshes \ {Started}) \cup {published}
    /\ UNCHANGED <<issuer, keyCache, keysFresh, cooldown, refreshCall, bearer>>

WokenBySuccess(outcome) ==
    [r \in Bearers |-> CASE outcome /\ bearerAt[r] = "wait"         -> "woken"
                         [] outcome /\ bearerAt[r] = "wait missing" -> "woken missing"
                         [] OTHER                                  -> bearerAt[r]]

Woken(outcome) ==
    [r \in Bearers |-> CASE bearerAt[r] = "wait"         -> IF outcome THEN "woken" ELSE "rejected"
                         [] bearerAt[r] = "wait missing" -> IF outcome THEN "woken missing" ELSE "rejected"
                         [] OTHER                        -> bearerAt[r]]

runRefresh ==
    /\ \E f \in refreshes :
          /\ refreshes' = refreshes \ {f}
          /\ \/ /\ f # Started
                /\ keyCache' = f
                /\ keysFresh' = TRUE
                /\ bearerAt' = Woken(TRUE)
             \/ /\ f = Started
                /\ bearerAt' = Woken(FALSE)
                /\ UNCHANGED <<keyCache, keysFresh>>
    /\ refreshCall' = FALSE
    /\ UNCHANGED <<issuer, cooldown, bearerKid, keyCopy, steady>>

(* The signature and claims of a token whose key is known may still fail;  *)
(* nothing here depends on which.                                          *)
Verify(r) ==
    /\ bearerAt[r] \in {"first", "second"}
    /\ LET found == IF bearerKid[r] \in keyCopy[r] THEN "verified"
                    ELSE IF bearerAt[r] = "first" THEN "missing" ELSE "unknown key"
       IN  Step(r, found)
    /\ UNCHANGED <<issuer, keyState, bearerKid, keyCopy, steady>>

Finish(r) ==
    /\ bearerAt[r] \in {"verified", "rejected", "unknown key"}
    /\ Step(r, "idle")
    /\ bearerKid' = [bearerKid EXCEPT ![r] = FirstKid]
    /\ keyCopy' = [keyCopy EXCEPT ![r] = {}]
    /\ steady' = steady \ {r}
    /\ UNCHANGED <<issuer, keyState>>

----------------------------------------------------------------------------
(* The issuer and time.                                                    *)
Publish(k) ==
    /\ k \notin everPublished
    /\ published' = published \cup {k}
    /\ everPublished' = everPublished \cup {k}
    /\ UNCHANGED <<keyState, bearer>>

Retire(k) ==
    /\ k \in published
    /\ published # {k}
    /\ published' = published \ {k}
    /\ steady' = {r \in steady : bearerKid[r] # k}
    /\ UNCHANGED <<everPublished, keyState, bearerAt, bearerKid, keyCopy>>

KeysExpire ==
    /\ keysFresh
    /\ keysFresh' = FALSE
    /\ UNCHANGED <<issuer, keyCache, cooldown, refreshes, refreshCall, bearer>>

CooldownEnds ==
    /\ cooldown
    /\ cooldown' = FALSE
    /\ UNCHANGED <<issuer, keyCache, keysFresh, refreshes, refreshCall, bearer>>

BearerStep(r) == keys(r) \/ Wake(r) \/ Verify(r)

KeyNext ==
    \/ \E r \in Bearers : BearerStep(r) \/ WaitCancelled(r) \/ Finish(r)
    \/ \E r \in Bearers, k \in Kids : Validate(r, k)
    \/ fetchKeys \/ runRefresh
    \/ \E k \in Kids : Publish(k) \/ Retire(k)
    \/ KeysExpire \/ CooldownEnds

KeySpec == KeyInit /\ [][KeyNext]_keyVars

----------------------------------------------------------------------------
Waiting == {"wait", "wait missing"}

BearerSteps == Waiting \cup {"idle", "keys", "woken", "first", "missing", "woken missing",
                             "second", "verified", "rejected", "unknown key"}

(* The types of the state: what is cached or fetched was published.        *)
KeyTypeOK ==
    /\ published \in SUBSET everPublished
    /\ everPublished \in SUBSET Kids
    /\ keyCache \in SUBSET everPublished
    /\ keysFresh \in BOOLEAN /\ cooldown \in BOOLEAN /\ refreshCall \in BOOLEAN
    /\ refreshes \in SUBSET ({Started} \cup SUBSET everPublished)
    /\ bearerAt \in [Bearers -> BearerSteps]
    /\ bearerKid \in [Bearers -> Kids]
    /\ keyCopy \in [Bearers -> SUBSET Kids]
    /\ steady \in SUBSET Bearers

(* Requests that miss the cache together share one refresh: never do two   *)
(* run at once, v.refresh says whether one does, and nobody waits for one  *)
(* that does not run, also when the request that started it was cancelled  *)
(* or the refresh failed: every waiter will be answered.                   *)
OneKeyRefresh ==
    /\ Cardinality(refreshes) <= 1
    /\ refreshCall <=> refreshes # {}
    /\ \A r \in Bearers : bearerAt[r] \in Waiting => refreshCall

(* A token whose key was cached and published when the request came is not *)
(* rejected as signed by an unknown key, whatever expires, fails or is     *)
(* refreshed meanwhile, unless the issuer retires the key.                 *)
KnownKeyAccepted == \A r \in Bearers : bearerAt[r] = "unknown key" => r \notin steady
============================================================================
