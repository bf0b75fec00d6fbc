---------------------------- MODULE CustosUsers ----------------------------
(***************************************************************************)
(* The cache of the users Custos names for ID tokens                       *)
(* (internal/identity/custos.go).  Requests ask Custos beside each other,  *)
(* an answer may arrive after a later one, and Custos may link a token to  *)
(* another user or unlink it at any time.                                  *)
(***************************************************************************)
EXTENDS Integers, FiniteSets

CONSTANTS
    Resolvers,     \* requests
    IDTokens,
    Users,
    Unknown,       \* no token; a token Custos has no user for
    MaxUsers,      \* maxCustosUsers
    UserTTL,       \* custosUserTTL, in ticks of the clock
    MaxClock       \* bound

ASSUME CustosAssumption ==
    /\ MaxUsers \in Nat \ {0}
    /\ UserTTL \in Nat
    /\ MaxClock \in Nat
    /\ Unknown \notin Users \cup IDTokens

VARIABLES
    clock,
    userOf,        \* Custos: the user of a token
    lastTrue,      \* history: when Custos last named a user for a token
    userCache,     \* r.cache: the user and the expiry of a token
    resolver       \* a request: where it stands, its token, the time it read
                   \* before it asked, and the user it was given

custosVars == <<clock, userOf, lastTrue, userCache, resolver>>

NoEntry == [user |-> Unknown, expires |-> 0]
Resting == [at |-> "idle", token |-> Unknown, asked |-> 0, user |-> Unknown]
Cached == {t \in IDTokens : userCache[t] # NoEntry}
Never == -UserTTL - 1

CustosInit ==
    /\ clock = 0
    /\ userOf \in [IDTokens -> Users \cup {Unknown}]
    /\ lastTrue = [t \in IDTokens |-> [u \in Users |-> IF u = userOf[t] THEN 0 ELSE Never]]
    /\ userCache = [t \in IDTokens |-> NoEntry]
    /\ resolver = [r \in Resolvers |-> Resting]

(* A cached user answers at once, which changes nothing; otherwise the     *)
(* request has read the time and asks.                                     *)
Resolve(r, t) ==
    /\ resolver[r].at = "idle"
    /\ ~(t \in Cached /\ clock < userCache[t].expires)
    /\ resolver' = [resolver EXCEPT ![r] = [at |-> "asking", token |-> t, asked |-> clock, user |-> Unknown]]
    /\ UNCHANGED <<clock, userOf, lastTrue, userCache>>

(* Custos names a user, refuses the token, or cannot be reached; only the  *)
(* first is cached.                                                        *)
CustosAnswers(r) ==
    /\ resolver[r].at = "asking"
    /\ \E user \in {userOf[resolver[r].token], Unknown} :
          resolver' = [resolver EXCEPT ![r] =
              IF user = Unknown THEN Resting ELSE [@ EXCEPT !.user = user, !.at = "answered"]]
    /\ UNCHANGED <<clock, userOf, lastTrue, userCache>>

ExpiryWhenStored(r) == clock + UserTTL

Expiry(r) == resolver[r].asked + UserTTL

(* A full cache is emptied first.                                          *)
StoreUser(r) ==
    /\ resolver[r].at = "answered"
    /\ LET kept == IF Cardinality(Cached) >= MaxUsers THEN [t \in IDTokens |-> NoEntry] ELSE userCache
       IN  userCache' = [kept EXCEPT ![resolver[r].token] =
                            [user |-> resolver[r].user, expires |-> Expiry(r)]]
    /\ resolver' = [resolver EXCEPT ![r] = Resting]
    /\ UNCHANGED <<clock, userOf, lastTrue>>

----------------------------------------------------------------------------
(* Custos and time.                                                        *)
Relink(t, u) ==
    /\ userOf[t] # u
    /\ userOf' = [userOf EXCEPT ![t] = u]
    /\ lastTrue' = IF u = Unknown THEN lastTrue ELSE [lastTrue EXCEPT ![t][u] = clock]
    /\ UNCHANGED <<clock, userCache, resolver>>

Tick ==
    /\ clock < MaxClock
    /\ clock' = clock + 1
    /\ lastTrue' = [t \in IDTokens |-> [u \in Users |-> IF u = userOf[t] THEN clock' ELSE lastTrue[t][u]]]
    /\ UNCHANGED <<userOf, userCache, resolver>>

CustosNext ==
    \/ \E r \in Resolvers, t \in IDTokens : Resolve(r, t)
    \/ \E r \in Resolvers : CustosAnswers(r) \/ StoreUser(r)
    \/ \E t \in IDTokens, u \in Users \cup {Unknown} : Relink(t, u)
    \/ Tick

CustosSpec == CustosInit /\ [][CustosNext]_custosVars

----------------------------------------------------------------------------
(* The types of the state; the cache stays within maxCustosUsers, also     *)
(* when several requests store their answers at the limit.                 *)
CustosTypeOK ==
    /\ clock \in 0 .. MaxClock
    /\ userOf \in [IDTokens -> Users \cup {Unknown}]
    /\ lastTrue \in [IDTokens -> [Users -> {Never} \cup (0 .. MaxClock)]]
    /\ Cardinality(Cached) <= MaxUsers
    /\ userCache \in [IDTokens -> [user : Users \cup {Unknown}, expires : 0 .. MaxClock + UserTTL]]
    /\ resolver \in [Resolvers -> [at : {"idle", "asking", "answered"}, token : IDTokens \cup {Unknown},
                                   asked : 0 .. MaxClock, user : Users \cup {Unknown}]]

(* No cached user is served that Custos stopped naming for the token more  *)
(* than custosUserTTL ago: an answer that was slow to arrive, or that      *)
(* overwrote a newer one, does not stretch the cache's lifetime.           *)
IdentityNotStale ==
    \A t \in Cached :
        clock < userCache[t].expires => clock - lastTrue[t][userCache[t].user] <= UserTTL
============================================================================
