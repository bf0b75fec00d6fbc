--------------------------- MODULE ServiceRuntime ---------------------------
(***************************************************************************)
(* The life of a cs serve process (main.go) and of the runtime the session *)
(* service shares between its operations and its background loops          *)
(* (subsystems/session/service.go).  The process constructs its components *)
(* one after the other, serves, drains the HTTP server for a bounded time  *)
(* and then closes the components in reverse order.  Session operations    *)
(* and background passes are counted by a wait group that Close waits for; *)
(* reads and hijacked streams are not.  What an operation does to a        *)
(* session is the subject of SessionLifecycle.                             *)
(***************************************************************************)
EXTENDS Naturals, Sequences, FiniteSets

CONSTANTS
    Operations,    \* requests that begin an operation (Start, Attach, Stop)
    Reads,         \* requests that only use the database
    Streams,       \* hijacked connections: links, forwards, logins
    HostNames      \* SSH hosts an operation may prepare

NoHost == "no host"

ASSUME RuntimeAssumption ==
    /\ Operations \cap Reads = {}
    /\ Operations \cap Streams = {}
    /\ Reads \cap Streams = {}
    /\ NoHost \notin HostNames

ServeRequests == Operations \cup Reads \cup Streams

Construction == <<"database", "control", "tunnel", "session">>

Passes == {"refresh", "stats"}

VARIABLES
    serveAt,           \* where runServe stands
    components,        \* serveComponents.closers, by name
    requestAt,         \* where each request stands
    preparing,         \* the host an operation prepares
    hostPreparations,  \* hosts being prepared
    closing,           \* sessionRuntime.closing, set with the cancellation
    begun,             \* sessionRuntime.wg
    loopAt,            \* the two every() loops
    inFlight,          \* refreshing and statsInFlight
    running,           \* passes that run, of each kind
    refreshRecent,     \* refreshCompleted is less than a second old
    drainExpired,      \* Shutdown returned an error
    blocked            \* the store or a lock file is not to be had

serve == <<serveAt, components, drainExpired, blocked>>
requests == <<requestAt, preparing, hostPreparations>>
loops == <<loopAt, inFlight, running, refreshRecent>>
runtimeVars == <<serve, requests, closing, begun, loops>>

RuntimeInit ==
    /\ serveAt = "constructing"
    /\ components = <<>>
    /\ requestAt = [r \in ServeRequests |-> "none"]
    /\ preparing = [r \in Operations |-> NoHost]
    /\ hostPreparations = {}
    /\ closing = FALSE
    /\ begun = 0
    /\ loopAt = [p \in Passes |-> "none"]
    /\ inFlight = [p \in Passes |-> FALSE]
    /\ running = [p \in Passes |-> 0]
    /\ refreshRecent = FALSE
    /\ drainExpired = FALSE
    /\ blocked = FALSE

Open == {components[i] : i \in DOMAIN components}

InProgress(r) == requestAt[r] \notin {"none", "done"}

----------------------------------------------------------------------------
BeginAlways == begun' = begun + 1

(* sessionRuntime.begin and the function it returns.                       *)
begin == ~closing /\ begun' = begun + 1
beginRefused == closing /\ begun' = begun
DoneTwice == begun' = begun - 2

done == begun' = begun - 1

----------------------------------------------------------------------------
(* newServeComponents: the session service starts its loops as it is       *)
(* constructed.  A failure closes what has been constructed.               *)

newServeComponents ==
    /\ serveAt = "constructing"
    /\ Len(components) < Len(Construction)
    /\ LET next == Construction[Len(components) + 1]
       IN  /\ components' = Append(components, next)
           /\ IF next = "session"
                THEN loopAt' = [p \in Passes |-> "waiting"] /\ begun' = begun + 2
                ELSE UNCHANGED <<loopAt, begun>>
    /\ UNCHANGED <<serveAt, drainExpired, blocked, requests, closing, inFlight, running, refreshRecent>>

ConstructionFails ==
    /\ serveAt = "constructing"
    /\ serveAt' = "closing"
    /\ UNCHANGED <<components, drainExpired, blocked, requests, closing, begun, loops>>

Listen ==
    /\ serveAt = "constructing"
    /\ Len(components) = Len(Construction)
    /\ serveAt' = "serving"
    /\ UNCHANGED <<components, drainExpired, blocked, requests, closing, begun, loops>>

(* A signal or a failed listener: Shutdown stops accepting.                *)
Interrupt ==
    /\ serveAt = "serving"
    /\ serveAt' = "draining"
    /\ UNCHANGED <<components, drainExpired, blocked, requests, closing, begun, loops>>

Shutdown ==
    /\ serveAt = "draining"
    /\ \A r \in Operations \cup Reads : ~InProgress(r)
    /\ serveAt' = "closing"
    /\ UNCHANGED <<components, drainExpired, blocked, requests, closing, begun, loops>>

ShutdownTimeout ==
    /\ serveAt = "draining"
    /\ \E r \in Operations \cup Reads : InProgress(r)
    /\ serveAt' = "closing"
    /\ drainExpired' = TRUE
    /\ UNCHANGED <<components, blocked, requests, closing, begun, loops>>

(* serveComponents.close, in reverse order; the session service's closer   *)
(* cancels, refuses further operations and waits.                          *)
CancelRuntime ==
    /\ serveAt = "closing"
    /\ components # <<>>
    /\ components[Len(components)] = "session"
    /\ ~closing
    /\ closing' = TRUE
    /\ UNCHANGED <<serve, requests, begun, loops>>

closeComponent ==
    /\ serveAt = "closing"
    /\ components # <<>>
    /\ components[Len(components)] = "session" => closing /\ begun = 0
    /\ components' = SubSeq(components, 1, Len(components) - 1)
    /\ UNCHANGED <<serveAt, drainExpired, blocked, requests, closing, begun, loops>>

EndServe ==
    /\ serveAt = "closing"
    /\ components = <<>>
    /\ serveAt' = "returned"
    /\ UNCHANGED <<components, drainExpired, blocked, requests, closing, begun, loops>>

----------------------------------------------------------------------------
(* Requests.  A read or a stream may run on after the server was closed.   *)

Arrive(r) ==
    /\ serveAt = "serving"
    /\ requestAt[r] = "none"
    /\ requestAt' = [requestAt EXCEPT ![r] = "handling"]
    /\ UNCHANGED <<serve, preparing, hostPreparations, closing, begun, loops>>

Answer(r) ==
    /\ requestAt[r] = "handling"
    /\ requestAt' = [requestAt EXCEPT ![r] = "done"]
    /\ UNCHANGED <<serve, preparing, hostPreparations, closing, begun, loops>>

beginOperation(r) ==
    /\ requestAt[r] = "handling"
    /\ \/ begin /\ requestAt' = [requestAt EXCEPT ![r] = "operating"]
       \/ beginRefused /\ requestAt' = [requestAt EXCEPT ![r] = "done"]
    /\ UNCHANGED <<serve, preparing, hostPreparations, closing, loops>>

(* provisionSession: claim the host, begin again, run, release.            *)
ClaimHost(r, h) ==
    /\ requestAt[r] = "operating"
    /\ IF h \in hostPreparations
         THEN requestAt' = [requestAt EXCEPT ![r] = "ending"] /\ UNCHANGED <<preparing, hostPreparations>>
         ELSE /\ requestAt' = [requestAt EXCEPT ![r] = "claimed"]
              /\ preparing' = [preparing EXCEPT ![r] = h]
              /\ hostPreparations' = hostPreparations \cup {h}
    /\ UNCHANGED <<serve, closing, begun, loops>>

HostStaysMarked(r) ==
    /\ preparing' = [preparing EXCEPT ![r] = NoHost]
    /\ UNCHANGED hostPreparations

ReleaseHost(r) ==
    /\ hostPreparations' = hostPreparations \ {preparing[r]}
    /\ preparing' = [preparing EXCEPT ![r] = NoHost]

provisionSession(r) ==
    /\ requestAt[r] = "claimed"
    /\ \/ /\ begin
          /\ requestAt' = [requestAt EXCEPT ![r] = "provisioning"]
          /\ UNCHANGED <<preparing, hostPreparations>>
       \/ /\ beginRefused
          /\ requestAt' = [requestAt EXCEPT ![r] = "ending"]
          /\ ReleaseHost(r)
    /\ UNCHANGED <<serve, closing, loops>>

Provisioned(r) ==
    /\ requestAt[r] = "provisioning"
    /\ done
    /\ ReleaseHost(r)
    /\ requestAt' = [requestAt EXCEPT ![r] = "ending"]
    /\ UNCHANGED <<serve, closing, loops>>

EndOperation(r) ==
    /\ requestAt[r] \in {"operating", "ending"}
    /\ done
    /\ requestAt' = [requestAt EXCEPT ![r] = "done"]
    /\ UNCHANGED <<serve, preparing, hostPreparations, closing, loops>>

----------------------------------------------------------------------------
(* The background loops: a tick takes the flag, starts a pass and leaves   *)
(* it to run beside the loop; the pass gives the flag back.                *)

triggerRefresh ==
    /\ loopAt["refresh"] = "waiting"
    /\ ~inFlight["refresh"]
    /\ ~refreshRecent
    /\ inFlight' = [inFlight EXCEPT !["refresh"] = TRUE]
    /\ loopAt' = [loopAt EXCEPT !["refresh"] = "starting"]
    /\ UNCHANGED <<serve, requests, closing, begun, running, refreshRecent>>

sampleAndAccount ==
    /\ loopAt["stats"] = "waiting"
    /\ ~inFlight["stats"]
    /\ inFlight' = [inFlight EXCEPT !["stats"] = TRUE]
    /\ loopAt' = [loopAt EXCEPT !["stats"] = "starting"]
    /\ UNCHANGED <<serve, requests, closing, begun, running, refreshRecent>>

start(p) ==
    /\ loopAt[p] = "starting"
    /\ \/ begin /\ running' = [running EXCEPT ![p] = @ + 1] /\ UNCHANGED inFlight
       \/ beginRefused /\ inFlight' = [inFlight EXCEPT ![p] = FALSE] /\ UNCHANGED running
    /\ loopAt' = [loopAt EXCEPT ![p] = "waiting"]
    /\ UNCHANGED <<serve, requests, closing, refreshRecent>>

EndRefresh ==
    /\ running["refresh"] > 0
    /\ done
    /\ running' = [running EXCEPT !["refresh"] = @ - 1]
    /\ inFlight' = [inFlight EXCEPT !["refresh"] = FALSE]
    /\ refreshRecent' = TRUE
    /\ UNCHANGED <<serve, requests, closing, loopAt>>

EndStats ==
    /\ running["stats"] > 0
    /\ done
    /\ running' = [running EXCEPT !["stats"] = @ - 1]
    /\ inFlight' = [inFlight EXCEPT !["stats"] = FALSE]
    /\ UNCHANGED <<serve, requests, closing, loopAt, refreshRecent>>

IgnoresCancellation(p) == FALSE

every(p) ==
    /\ closing
    /\ loopAt[p] = "waiting"
    /\ done
    /\ loopAt' = [loopAt EXCEPT ![p] = "stopped"]
    /\ UNCHANGED <<serve, requests, closing, inFlight, running, refreshRecent>>

SecondPasses ==
    /\ refreshRecent
    /\ refreshRecent' = FALSE
    /\ UNCHANGED <<serve, requests, closing, begun, loopAt, inFlight, running>>

----------------------------------------------------------------------------
(* What an operation or a pass may wait for without a timeout: the one     *)
(* connection to the database, while a statement on it, a read's perhaps,  *)
(* gets no answer (the statements run on context.Background), and a lock   *)
(* file another process holds (WithFileLock waits in flock).               *)
Block ==
    /\ ~blocked
    /\ blocked' = TRUE
    /\ UNCHANGED <<serveAt, components, drainExpired, requests, closing, begun, loops>>

Unblock ==
    /\ blocked
    /\ blocked' = FALSE
    /\ UNCHANGED <<serveAt, components, drainExpired, requests, closing, begun, loops>>

----------------------------------------------------------------------------
OperationStep(r) ==
    \/ beginOperation(r) \/ provisionSession(r) \/ Provisioned(r) \/ EndOperation(r)
    \/ \E h \in HostNames : ClaimHost(r, h)

PassStep(p) == start(p) \/ (p = "refresh" /\ EndRefresh) \/ (p = "stats" /\ EndStats)

TeardownStep == Shutdown \/ ShutdownTimeout \/ CancelRuntime \/ closeComponent \/ EndServe

ServeStep == newServeComponents \/ ConstructionFails \/ Listen \/ Interrupt \/ TeardownStep

RuntimeNext ==
    \/ ServeStep
    \/ \E r \in ServeRequests : Arrive(r)
    \/ \E r \in Reads \cup Streams : Answer(r)
    \/ \E r \in Operations : OperationStep(r)
    \/ triggerRefresh \/ sampleAndAccount \/ SecondPasses
    \/ \E p \in Passes : PassStep(p) \/ every(p)
    \/ Block \/ Unblock

(* An operation or pass goes on while the store and the locks are to be    *)
(* had: its calls of ssh and of Dev Tunnels have timeouts, its statements  *)
(* and its locks have none.  Shutdown returns after its own timeout, and a *)
(* loop's select takes the cancelled context or a tick, whichever it       *)
(* finds, so it cannot pass over the context for ever.  Nothing is assumed *)
(* of reads, streams and arrivals, or of Unblock.                          *)
RuntimeFairness ==
    /\ WF_runtimeVars(TeardownStep)
    /\ \A r \in Operations : WF_runtimeVars(~blocked /\ OperationStep(r))
    /\ \A p \in Passes : WF_runtimeVars(~blocked /\ PassStep(p)) /\ SF_runtimeVars(every(p))

RuntimeSpec == RuntimeInit /\ [][RuntimeNext]_runtimeVars /\ RuntimeFairness

----------------------------------------------------------------------------
(* The types of the state: the closers are always a prefix of the order of *)
(* construction, and the wait group never drops below zero.                *)
RuntimeTypeOK ==
    /\ serveAt \in {"constructing", "serving", "draining", "closing", "returned"}
    /\ components \in {SubSeq(Construction, 1, n) : n \in 0 .. Len(Construction)}
    /\ requestAt \in [ServeRequests -> {"none", "handling", "operating", "claimed", "provisioning", "ending", "done"}]
    /\ preparing \in [Operations -> HostNames \cup {NoHost}]
    /\ hostPreparations \in SUBSET HostNames
    /\ closing \in BOOLEAN
    /\ begun \in Nat
    /\ loopAt \in [Passes -> {"none", "waiting", "starting", "stopped"}]
    /\ inFlight \in [Passes -> BOOLEAN]
    /\ running \in [Passes -> Nat]
    /\ refreshRecent \in BOOLEAN
    /\ drainExpired \in BOOLEAN
    /\ blocked \in BOOLEAN

Operating(r) == requestAt[r] \in {"operating", "claimed", "provisioning", "ending"}

(* Whatever an operation or a background pass uses is open while it runs:  *)
(* the database, the control masters and the Dev Tunnels broker are closed *)
(* only after the last of them has ended, even when the drain timed out.   *)
WorkKeepsComponents ==
    (\/ \E r \in Operations : Operating(r)
     \/ \E p \in Passes : running[p] > 0 \/ loopAt[p] \in {"waiting", "starting"})
    => {"database", "control", "tunnel"} \subseteq Open

(* What keeps others out is set exactly while somebody is there to clear   *)
(* it.  A loop's flag belongs to the one pass that runs or is being        *)
(* started, so that no refused start leaves reconciliation switched off; a *)
(* host is marked while one operation prepares it, so that one that found  *)
(* it busy does not release it and one that Close refused does.            *)
MarksHaveOwners ==
    /\ \A p \in Passes :
          /\ running[p] <= 1
          /\ inFlight[p] <=> running[p] = 1 \/ loopAt[p] = "starting"
    /\ hostPreparations = {preparing[r] : r \in Operations} \ {NoHost}
    /\ \A q, r \in Operations : preparing[q] = preparing[r] /\ preparing[q] # NoHost => q = r

(* An interrupted or failed cs serve returns, whatever reads and streams   *)
(* do, provided that the store and the locks are out of reach only for a   *)
(* time, however long and however often: an outage without end, a read     *)
(* Postgres never answers among them, leaves wg.Wait without an end.       *)
ServeReturns == <>[]~blocked => (serveAt \in {"draining", "closing"} ~> serveAt = "returned")
============================================================================
