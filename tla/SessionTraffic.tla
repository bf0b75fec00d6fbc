--------------------------- MODULE SessionTraffic ---------------------------
(***************************************************************************)
(* Traffic to one session (subsystems/session/link.go, tunnel.go): the     *)
(* connections Linkspans keep to cs-plane, and the requests that are       *)
(* authorised against the row and then dialled through the registered      *)
(* connection or the run's Dev Tunnel, possibly after the row has moved to *)
(* another run.  How a run starts and ends is the subject of               *)
(* SessionLifecycle; here it only moves the row.                           *)
(***************************************************************************)
EXTENDS Naturals, FiniteSets

CONSTANTS
    Muxes,         \* connections from Linkspans; each is made once
    Requests,      \* Forward, Jupyter and Linkspan API calls
    Nobody,        \* no connection
    Tunnel,        \* the Dev Tunnel, as the way a connection takes
    MaxRuns,       \* bound: runs of the session
    MaxIdle        \* bound: idle connections the transport keeps

ASSUME TrafficAssumption ==
    /\ Nobody \notin Muxes /\ Tunnel \notin Muxes /\ Nobody # Tunnel
    /\ MaxRuns \in Nat /\ MaxIdle \in Nat

VARIABLES
    row,           \* the stored Session: Seq, State, whether it has a Tunnel
    capability,    \* runs whose capability file exists
    links,         \* Service.links[id]
    open,          \* connections that are not closed
    linker,        \* the Link handler of a connection
    stop,          \* the Stop in progress
    request,       \* the handler of a request
    idle           \* the transport's idle connections, by the host they were dialled for

trafficVars == <<row, capability, links, open, linker, stop, request, idle>>

Runs == 1 .. MaxRuns
Row(seq, state, tunnel) == [seq |-> seq, state |-> state, tunnel |-> tunnel]
Stopping(at, seq, mux) == [at |-> at, seq |-> seq, mux |-> mux]
NoStop == Stopping("none", 0, Nobody)
Handling(at, pooled, seq, tunnel, way, run) ==
    [at |-> at, pooled |-> pooled, seq |-> seq, tunnel |-> tunnel, way |-> way, run |-> run]
NoRequest == Handling("none", FALSE, 0, FALSE, Nobody, 0)
Linking(at, seq, previous) == [at |-> at, seq |-> seq, previous |-> previous]

TrafficInit ==
    /\ row = Row(0, "STOPPED", FALSE)
    /\ capability = {}
    /\ links = Nobody
    /\ open = {}
    /\ linker = [c \in Muxes |-> Linking("none", 0, Nobody)]
    /\ stop = NoStop
    /\ request = [r \in Requests |-> NoRequest]
    /\ idle = {}

----------------------------------------------------------------------------
(* The row.                                                                *)

issueSession ==
    /\ row.state = "STOPPED"
    /\ row.seq < MaxRuns
    /\ \E t \in BOOLEAN : row' = Row(row.seq + 1, "QUEUED", t)
    /\ capability' = capability \cup {row.seq + 1}
    /\ UNCHANGED <<links, open, linker, stop, request, idle>>

(* A pass finds the Dev Tunnel of the run answering.                       *)
probeTunnel ==
    /\ row.state = "QUEUED"
    /\ row.tunnel
    /\ row' = Row(row.seq, "READY", TRUE)
    /\ UNCHANGED <<capability, links, open, linker, stop, request, idle>>

(* A pass finds the job gone; the freeze drops the capability.  The link   *)
(* is left to its handler.                                                 *)
reconcileAll ==
    /\ row.state # "STOPPED"
    /\ row' = Row(row.seq, "STOPPED", row.tunnel)
    /\ capability' = capability \ {row.seq}
    /\ UNCHANGED <<links, open, linker, stop, request, idle>>

----------------------------------------------------------------------------
(* Stop: mark the row, release tunnel and capability of the run it marked, *)
(* drop whichever link the session has now, and merge: the scheduler may   *)
(* leave the run STOPPING, and the tunnel's deletion may have failed.      *)

StopMark ==
    /\ stop.at = "none"
    /\ row.seq > 0
    /\ stop' = Stopping("release", row.seq, Nobody)
    /\ row' = IF row.state = "STOPPED" THEN row ELSE Row(row.seq, "STOPPING", row.tunnel)
    /\ UNCHANGED <<capability, links, open, linker, request, idle>>

releaseTunnel ==
    /\ stop.at = "release"
    /\ stop' = Stopping("unlink", stop.seq, Nobody)
    /\ capability' = capability \ {stop.seq}
    /\ UNCHANGED <<row, links, open, linker, request, idle>>

LoadAndDelete ==
    /\ stop.at = "unlink"
    /\ stop' = Stopping("close", stop.seq, links)
    /\ links' = Nobody
    /\ UNCHANGED <<row, capability, open, linker, request, idle>>

StopClose ==
    /\ stop.at = "close"
    /\ stop' = Stopping("merge", stop.seq, Nobody)
    /\ open' = open \ {stop.mux}
    /\ UNCHANGED <<row, capability, links, linker, request, idle>>

StopMerge ==
    /\ stop.at = "merge"
    /\ stop' = NoStop
    /\ \/ UNCHANGED <<row, capability>>
       \/ /\ row.seq = stop.seq
          /\ row' = Row(row.seq, row.state, FALSE)
          /\ UNCHANGED capability
       \/ /\ row.seq = stop.seq
          /\ \E t \in {row.tunnel, FALSE} : row' = Row(row.seq, "STOPPED", t)
          /\ capability' = capability \ {stop.seq}
    /\ UNCHANGED <<links, open, linker, request, idle>>

----------------------------------------------------------------------------
(* Link.                                                                   *)

(* The token offered is compared with the one of the row's run: the        *)
(* connection that passes is of that run.                                  *)
linkedSession(c) ==
    /\ linker[c].at = "none"
    /\ row.state # "STOPPED"
    /\ row.seq \in capability
    /\ linker' = [linker EXCEPT ![c] = Linking("upgrade", row.seq, Nobody)]
    /\ UNCHANGED <<row, capability, links, open, stop, request, idle>>

UpgradeFails(c) ==
    /\ linker[c].at = "upgrade"
    /\ linker' = [linker EXCEPT ![c] = Linking("done", 0, Nobody)]
    /\ UNCHANGED <<row, capability, links, open, stop, request, idle>>

Swap(c) ==
    /\ linker[c].at = "upgrade"
    /\ linker' = [linker EXCEPT ![c] = Linking("displace", linker[c].seq, links)]
    /\ links' = c
    /\ open' = open \cup {c}
    /\ UNCHANGED <<row, capability, stop, request, idle>>

Displace(c) ==
    /\ linker[c].at = "displace"
    /\ linker' = [linker EXCEPT ![c] = Linking("announce", linker[c].seq, Nobody)]
    /\ open' = open \ {linker[c].previous}
    /\ UNCHANGED <<row, capability, links, stop, request, idle>>

Announce(c) ==
    /\ linker[c].at = "announce"
    /\ linker' = [linker EXCEPT ![c] = Linking("wait", linker[c].seq, Nobody)]
    /\ row' = IF row.seq = linker[c].seq /\ row.state = "QUEUED" THEN Row(row.seq, "READY", row.tunnel) ELSE row
    /\ UNCHANGED <<capability, links, open, stop, request, idle>>

DeleteAny(c) == Nobody

CompareAndDelete(c) == IF links = c THEN Nobody ELSE links

LinkReturns(c) ==
    /\ linker[c].at = "wait"
    /\ c \notin open
    /\ linker' = [linker EXCEPT ![c] = Linking("done", 0, Nobody)]
    /\ links' = CompareAndDelete(c)
    /\ UNCHANGED <<row, capability, open, stop, request, idle>>

(* The Linkspan exits or the network breaks.                               *)
LinkBreaks(c) ==
    /\ c \in open
    /\ open' = open \ {c}
    /\ UNCHANGED <<row, capability, links, linker, stop, request, idle>>

----------------------------------------------------------------------------
(* A request.  A connection reaches the run of the Linkspan at its end.    *)

LinkOfAnyRun(seq) == links

link(seq) == IF links # Nobody /\ linker[links].seq = seq THEN links ELSE Nobody

reachable ==
    /\ row.state = "READY"
    /\ link(row.seq) # Nobody \/ row.tunnel
    /\ row.seq \in capability

(* Forward dials itself; Jupyter and the Linkspan API go through the       *)
(* transport, which keeps connections by host name.                        *)
authorizedSession(r) ==
    /\ request[r].at = "none"
    /\ reachable
    /\ \E pooled \in BOOLEAN :
          request' = [request EXCEPT ![r] =
              Handling(IF pooled THEN "transport" ELSE "dial", pooled, row.seq, row.tunnel, Nobody, 0)]
    /\ UNCHANGED <<row, capability, links, open, linker, stop, idle>>

Reuse(r) ==
    /\ request[r].at = "transport"
    /\ \E conn \in idle :
          /\ conn.host = request[r].seq
          /\ conn.way = Tunnel \/ conn.way \in open
          /\ request' = [request EXCEPT ![r] =
              Handling("reached", TRUE, request[r].seq, request[r].tunnel, conn.way, conn.run)]
          /\ idle' = idle \ {conn}
    /\ UNCHANGED <<row, capability, links, open, linker, stop>>

(* dialHost reads the row again: a host name of another run has no route.  *)
Routed(r) == row.seq = request[r].seq

dialHost(r) ==
    /\ request[r].at = "transport"
    /\ request' = [request EXCEPT ![r] =
          IF Routed(r) THEN Handling("dial", TRUE, row.seq, row.tunnel, Nobody, 0) ELSE NoRequest]
    /\ UNCHANGED <<row, capability, links, open, linker, stop, idle>>

Streaming(r, way) == Handling("stream", request[r].pooled, request[r].seq, request[r].tunnel, way, 0)

dial(r) ==
    /\ request[r].at = "dial"
    /\ request' = [request EXCEPT ![r] =
          IF link(request[r].seq) # Nobody THEN Streaming(r, link(request[r].seq))
          ELSE IF request[r].seq \in capability /\ request[r].tunnel THEN Streaming(r, Tunnel)
          ELSE NoRequest]
    /\ UNCHANGED <<row, capability, links, open, linker, stop, idle>>

Reached(r, run) ==
    Handling("reached", request[r].pooled, request[r].seq, request[r].tunnel, request[r].way, run)

OpenStream(r) ==
    /\ request[r].at = "stream"
    /\ request' = [request EXCEPT ![r] =
          IF request[r].way = Tunnel THEN Reached(r, request[r].seq)
          ELSE IF request[r].way \in open THEN Reached(r, linker[request[r].way].seq)
          ELSE NoRequest]
    /\ UNCHANGED <<row, capability, links, open, linker, stop, idle>>

(* The response is complete, or the dial failed at the far end.  The       *)
(* transport drops idle connections whose way is closed.                   *)
RequestReturns(r) ==
    /\ request[r].at \in {"stream", "reached"}
    /\ request' = [request EXCEPT ![r] = NoRequest]
    /\ LET alive == {conn \in idle : conn.way = Tunnel \/ conn.way \in open}
           conn == [host |-> request[r].seq, way |-> request[r].way, run |-> request[r].run]
       IN  idle' = IF request[r].pooled /\ request[r].at = "reached" /\ Cardinality(alive) < MaxIdle
                   THEN alive \cup {conn} ELSE alive
    /\ UNCHANGED <<row, capability, links, open, linker, stop>>

TrafficNext ==
    \/ issueSession \/ probeTunnel \/ reconcileAll
    \/ StopMark \/ releaseTunnel \/ LoadAndDelete \/ StopClose \/ StopMerge
    \/ \E c \in Muxes : linkedSession(c) \/ UpgradeFails(c) \/ Swap(c) \/ Displace(c) \/ Announce(c) \/ LinkReturns(c) \/ LinkBreaks(c)
    \/ \E r \in Requests : authorizedSession(r) \/ Reuse(r) \/ dialHost(r) \/ dial(r) \/ OpenStream(r) \/ RequestReturns(r)

TrafficSpec == TrafficInit /\ [][TrafficNext]_trafficVars

----------------------------------------------------------------------------
(* The types of the row, the links and what every handler holds.           *)
TrafficTypeOK ==
    /\ row \in [seq : 0 .. MaxRuns, state : {"STOPPED", "QUEUED", "READY", "STOPPING"}, tunnel : BOOLEAN]
    /\ capability \subseteq Runs
    /\ links \in Muxes \cup {Nobody}
    /\ open \subseteq Muxes
    /\ linker \in [Muxes -> [at : {"none", "upgrade", "displace", "announce", "wait", "done"},
                             seq : 0 .. MaxRuns, previous : Muxes \cup {Nobody}]]
    /\ stop \in [at : {"none", "release", "unlink", "close", "merge"}, seq : 0 .. MaxRuns,
                 mux : Muxes \cup {Nobody}]
    /\ request \in [Requests -> [at : {"none", "transport", "dial", "stream", "reached"}, pooled : BOOLEAN,
                                 seq : 0 .. MaxRuns, tunnel : BOOLEAN, way : Muxes \cup {Nobody, Tunnel},
                                 run : 0 .. MaxRuns]]
    /\ idle \subseteq [host : Runs, way : Muxes \cup {Tunnel}, run : Runs]

(* Traffic authorised with the token of one run only ever reaches the      *)
(* Linkspan of that run, however long its dial takes, whichever run has    *)
(* linked since, and whoever dialled the pooled connection it is given.    *)
TrafficReachesItsRun ==
    /\ \A r \in Requests : request[r].at = "reached" => request[r].run = request[r].seq
    /\ \A conn \in idle : conn.run = conn.host

(* No connection leaks: one that is open is the registered one, or a       *)
(* handler that displaced it is about to close it.  An open connection     *)
(* nobody knows would keep its handler waiting until the Linkspan exits.   *)
OpenLinkRegistered ==
    \A c \in open :
        \/ links = c
        \/ stop.at = "close" /\ stop.mux = c
        \/ \E d \in Muxes : linker[d].at = "displace" /\ linker[d].previous = c

(* A registered connection has a handler that will remove it: when it      *)
(* breaks, the entry does not stay behind.                                 *)
RegisteredHasHandler == links # Nobody => linker[links].at \in {"displace", "announce", "wait"}
=============================================================================
