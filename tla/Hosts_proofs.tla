---------------------------- MODULE Hosts_proofs ----------------------------
(***************************************************************************)
(* What happens around a run on its host, for any number of connections,   *)
(* requests, runs, scripts and releases: the traffic of a run, the         *)
(* provisioning of a host, and both beside the dialogue with Slurm.        *)
(*                                                                         *)
(* Traffic: a request that was given a connection uses it later, when the  *)
(* connection may have been displaced, closed or left by its handler; what *)
(* makes that safe is that a handler keeps its run from registration until *)
(* its connection is closed, and that a connection that was closed is      *)
(* never opened again.                                                     *)
(***************************************************************************)
EXTENDS MCHosts, Integers, TLAPS

Registered == {"displace", "announce", "wait"}

LinkerState ==
    [at : {"none", "upgrade", "displace", "announce", "wait", "done"}, seq : 0 .. MaxRuns,
     previous : Muxes \cup {Nobody}]

RequestState ==
    [at : {"none", "transport", "dial", "stream", "reached"}, pooled : BOOLEAN, seq : 0 .. MaxRuns,
     tunnel : BOOLEAN, way : Muxes \cup {Nobody, Tunnel}, run : 0 .. MaxRuns]

RowState == [seq : 0 .. MaxRuns, state : {"STOPPED", "QUEUED", "READY", "STOPPING"}, tunnel : BOOLEAN]

StopState == [at : {"none", "release", "unlink", "close", "merge"}, seq : 0 .. MaxRuns, mux : Muxes \cup {Nobody}]

RowType ==
    /\ row \in RowState
    /\ capability \subseteq Runs
    /\ stop \in StopState

LinkType ==
    /\ links \in Muxes \cup {Nobody}
    /\ open \subseteq Muxes
    /\ linker \in [Muxes -> LinkerState]

RequestType ==
    /\ request \in [Requests -> RequestState]
    /\ idle \subseteq [host : Runs, way : Muxes \cup {Tunnel}, run : Runs]

(* Connections: whoever is registered or open has a handler, and OpenLink- *)
(* Registered.                                                             *)
Attended ==
    /\ RegisteredHasHandler
    /\ \A c \in open : linker[c].at \in Registered
    /\ OpenLinkRegistered

(* The connection a request was given is of its run while its handler has  *)
(* not left.                                                               *)
Aimed(r) ==
    /\ request[r].at # "none" => request[r].seq \in Runs
    /\ request[r].at \in {"stream", "reached"} => request[r].way # Nobody
    /\ request[r].at = "stream" /\ request[r].way \in Muxes =>
          /\ linker[request[r].way].at \in Registered \cup {"done"}
          /\ linker[request[r].way].at \in Registered => linker[request[r].way].seq = request[r].seq
    /\ request[r].at = "reached" => request[r].run = request[r].seq

TrafficInv ==
    /\ RowType
    /\ LinkType
    /\ RequestType
    /\ Attended
    /\ \A r \in Requests : Aimed(r)
    /\ \A conn \in idle : conn.run = conn.host

----------------------------------------------------------------------------
LEMMA NothingLinked == TrafficInit => TrafficInv
BY TrafficAssumption
DEF TrafficInit, TrafficInv, RowType, LinkType, RequestType, Attended, Aimed, RowState, StopState, Row, NoStop, Stopping, NoRequest, Handling,
    Linking, LinkerState, RequestState, RegisteredHasHandler, OpenLinkRegistered, Runs

LEMMA LinkingType ==
    ASSUME NEW at \in {"none", "upgrade", "displace", "announce", "wait", "done"}, NEW seq \in 0 .. MaxRuns,
           NEW previous \in Muxes \cup {Nobody}
    PROVE  /\ Linking(at, seq, previous) \in LinkerState
           /\ Linking(at, seq, previous).at = at
           /\ Linking(at, seq, previous).seq = seq
           /\ Linking(at, seq, previous).previous = previous
BY Zenon DEF Linking, LinkerState

(* The row moves, and a Stop that neither drops nor closes a link.         *)
RowStep ==
    \/ issueSession \/ probeTunnel \/ reconcileAll
    \/ StopMark \/ releaseTunnel \/ StopMerge

LEMMA RowTypes ==
    ASSUME NEW seq \in 0 .. MaxRuns, NEW state \in {"STOPPED", "QUEUED", "READY", "STOPPING"}, NEW tunnel \in BOOLEAN
    PROVE  Row(seq, state, tunnel) \in RowState
BY Zenon DEF Row, RowState

LEMMA StopTypes ==
    ASSUME NEW at \in {"none", "release", "unlink", "close", "merge"}, NEW seq \in 0 .. MaxRuns,
           NEW mux \in Muxes \cup {Nobody}
    PROVE  Stopping(at, seq, mux) \in StopState
BY Zenon DEF Stopping, StopState

LEMMA RowTypeKept ==
    ASSUME TrafficInv, RowStep \/ LoadAndDelete \/ StopClose
    PROVE  RowType'
<1>1. /\ row \in RowState /\ capability \subseteq Runs /\ stop \in StopState
      /\ row.seq \in 0 .. MaxRuns /\ row.state \in {"STOPPED", "QUEUED", "READY", "STOPPING"} /\ row.tunnel \in BOOLEAN
      /\ stop.seq \in 0 .. MaxRuns /\ links \in Muxes \cup {Nobody}
  BY Zenon DEF TrafficInv, RowType, RowState, StopState, LinkType
<1>2. ASSUME row.seq < MaxRuns
      PROVE  row.seq + 1 \in 0 .. MaxRuns /\ row.seq + 1 \in Runs
  BY <1>1, <1>2, TrafficAssumption DEF Runs
<1>3. 0 \in 0 .. MaxRuns
  BY TrafficAssumption
<1>4. CASE issueSession
  BY Zenon, <1>1, <1>2, <1>4, RowTypes DEF issueSession, RowType
<1>5. CASE probeTunnel \/ reconcileAll
  BY Zenon, <1>1, <1>5, RowTypes DEF probeTunnel, reconcileAll, RowType
<1>6. CASE StopMark \/ releaseTunnel
  BY ZenonT(40), <1>1, <1>6, RowTypes, StopTypes DEF StopMark, releaseTunnel, RowType
<1>7. CASE LoadAndDelete \/ StopClose
  BY ZenonT(40), <1>1, <1>7, StopTypes DEF LoadAndDelete, StopClose, RowType
<1>8. CASE StopMerge
  BY Zenon, <1>1, <1>3, <1>8, RowTypes, StopTypes DEF StopMerge, NoStop, RowType
<1> QED BY Zenon, <1>4, <1>5, <1>6, <1>7, <1>8 DEF RowStep

LEMMA RowStepKeeps ==
    ASSUME TrafficInv, RowStep
    PROVE  TrafficInv'
<1>1. RowType'
  BY Zenon, RowTypeKept
<1>2. UNCHANGED <<links, open, linker, request, idle>> /\ (stop.at # "close" \/ stop' = stop)
  BY Zenon DEF RowStep, issueSession, probeTunnel, reconcileAll, StopMark, releaseTunnel, StopMerge
<1>3. UNCHANGED <<links, open, linker, request, idle>>
  BY Zenon, <1>2
<1>4. OpenLinkRegistered'
  BY Zenon, <1>2 DEF TrafficInv, Attended, OpenLinkRegistered
<1> QED BY Zenon, <1>1, <1>3, <1>4 DEF TrafficInv, LinkType, RequestType, Attended, RegisteredHasHandler, Aimed

(* Stop drops whichever link there is and closes it a step later.          *)
LEMMA LoadAndDeleteKeeps ==
    ASSUME TrafficInv, LoadAndDelete
    PROVE  TrafficInv'
<1>1. RowType'
  BY Zenon, RowTypeKept
<1>2. /\ links' = Nobody /\ UNCHANGED <<open, linker, request, idle>>
      /\ stop.at = "unlink" /\ stop'.at = "close" /\ stop'.mux = links
  BY Zenon DEF LoadAndDelete, Stopping
<1>3. OpenLinkRegistered'
  BY Zenon, <1>2 DEF TrafficInv, Attended, OpenLinkRegistered
<1> QED BY Zenon, <1>1, <1>2, <1>3 DEF TrafficInv, LinkType, RequestType, Attended, RegisteredHasHandler, Aimed

LEMMA StopCloseKeeps ==
    ASSUME TrafficInv, StopClose
    PROVE  TrafficInv'
<1>1. RowType'
  BY Zenon, RowTypeKept
<1>2. open' = open \ {stop.mux} /\ UNCHANGED <<links, linker, request, idle>>
  BY Zenon DEF StopClose
<1>3. OpenLinkRegistered'
  BY Zenon, <1>2 DEF TrafficInv, Attended, OpenLinkRegistered
<1> QED BY Zenon, <1>1, <1>2, <1>3 DEF TrafficInv, LinkType, RequestType, Attended, RegisteredHasHandler, Aimed

----------------------------------------------------------------------------
(* A handler goes on: what its step may change, and what follows for the   *)
(* requests.  A handler never returns to before its registration, and      *)
(* keeps its run while it is registered.                                   *)
LEMMA HandlerMoves ==
    ASSUME TrafficInv, NEW c \in Muxes, NEW next \in LinkerState,
           linker' = [linker EXCEPT ![c] = next],
           linker[c].at \in Registered => next.at \in Registered \cup {"done"},
           linker[c].at \in Registered /\ next.at \in Registered => next.seq = linker[c].seq,
           linker[c].at # "done",
           UNCHANGED <<request, idle>>
    PROVE  /\ linker' \in [Muxes -> LinkerState]
           /\ RequestType'
           /\ \A r \in Requests : Aimed(r)'
           /\ \A conn \in idle' : conn.run = conn.host
<1>1. linker' \in [Muxes -> LinkerState] /\ RequestType'
  BY Zenon DEF TrafficInv, LinkType, RequestType
<1>2. ASSUME NEW r \in Requests
      PROVE  Aimed(r)'
  <2>1. Aimed(r) /\ request' = request
    BY Zenon DEF TrafficInv
  <2>2. CASE request[r].way = c
    BY Zenon, <2>1, <2>2 DEF TrafficInv, LinkType, Aimed
  <2>3. CASE request[r].way # c
    BY Zenon, <2>1, <2>3 DEF TrafficInv, LinkType, Aimed
  <2> QED BY Zenon, <2>2, <2>3
<1> QED BY Zenon, <1>1, <1>2 DEF TrafficInv

LEMMA linkedSessionKeeps ==
    ASSUME TrafficInv, NEW c \in Muxes, linkedSession(c)
    PROVE  TrafficInv'
<1> DEFINE next == Linking("upgrade", row.seq, Nobody)
<1>1. /\ next \in LinkerState /\ next.at = "upgrade"
      /\ linker' = [linker EXCEPT ![c] = next] /\ linker[c].at = "none"
      /\ UNCHANGED <<row, capability, stop, links, open, request, idle>>
  BY LinkingType DEF linkedSession, TrafficInv, RowType, RowState
<1> HIDE DEF next
<1>2. /\ linker' \in [Muxes -> LinkerState] /\ RequestType'
      /\ (\A r \in Requests : Aimed(r)') /\ \A conn \in idle' : conn.run = conn.host
  BY Zenon, <1>1, HandlerMoves DEF Registered
<1>3. Attended'
  BY Zenon, <1>1 DEF TrafficInv, LinkType, Attended, RegisteredHasHandler, OpenLinkRegistered, Registered
<1> QED BY Zenon, <1>1, <1>2, <1>3 DEF TrafficInv, RowType, LinkType

LEMMA UpgradeFailsKeeps ==
    ASSUME TrafficInv, NEW c \in Muxes, UpgradeFails(c)
    PROVE  TrafficInv'
<1> DEFINE next == Linking("done", 0, Nobody)
<1>1. /\ next \in LinkerState /\ next.at = "done"
      /\ linker' = [linker EXCEPT ![c] = next] /\ linker[c].at = "upgrade"
      /\ UNCHANGED <<row, capability, stop, links, open, request, idle>>
  BY LinkingType, TrafficAssumption DEF UpgradeFails
<1> HIDE DEF next
<1>2. /\ linker' \in [Muxes -> LinkerState] /\ RequestType'
      /\ (\A r \in Requests : Aimed(r)') /\ \A conn \in idle' : conn.run = conn.host
  BY Zenon, <1>1, HandlerMoves DEF Registered
<1>3. Attended'
  BY ZenonT(40), <1>1 DEF TrafficInv, LinkType, Attended, RegisteredHasHandler, OpenLinkRegistered, Registered
<1> QED BY Zenon, <1>1, <1>2, <1>3 DEF TrafficInv, RowType, LinkType

(* The new connection is registered; the one it displaces is remembered by *)
(* its handler until it is closed.                                         *)
LEMMA SwapKeeps ==
    ASSUME TrafficInv, NEW c \in Muxes, Swap(c)
    PROVE  TrafficInv'
<1> DEFINE next == Linking("displace", linker[c].seq, links)
<1>1. /\ next \in LinkerState /\ next.at = "displace" /\ next.previous = links
      /\ linker' = [linker EXCEPT ![c] = next] /\ linker[c].at = "upgrade"
      /\ links' = c /\ open' = open \cup {c}
      /\ UNCHANGED <<row, capability, stop, request, idle>>
  BY LinkingType DEF Swap, TrafficInv, LinkType, LinkerState
<1> HIDE DEF next
<1>2. /\ linker' \in [Muxes -> LinkerState] /\ RequestType'
      /\ (\A r \in Requests : Aimed(r)') /\ \A conn \in idle' : conn.run = conn.host
  BY Zenon, <1>1, HandlerMoves DEF Registered
<1>3. RegisteredHasHandler' /\ \A d \in open' : linker'[d].at \in Registered
  BY Zenon, <1>1 DEF TrafficInv, LinkType, Attended, RegisteredHasHandler, Registered
<1>4. OpenLinkRegistered'
  BY Zenon, <1>1 DEF TrafficInv, LinkType, Attended, OpenLinkRegistered
<1> QED BY Zenon, <1>1, <1>2, <1>3, <1>4 DEF TrafficInv, RowType, LinkType, Attended

LEMMA DisplaceKeeps ==
    ASSUME TrafficInv, NEW c \in Muxes, Displace(c)
    PROVE  TrafficInv'
<1> DEFINE next == Linking("announce", linker[c].seq, Nobody)
<1>1. /\ next \in LinkerState /\ next.at = "announce" /\ next.seq = linker[c].seq
      /\ linker' = [linker EXCEPT ![c] = next] /\ linker[c].at = "displace"
      /\ open' = open \ {linker[c].previous}
      /\ UNCHANGED <<row, capability, stop, links, request, idle>>
  BY LinkingType DEF Displace, TrafficInv, LinkType, LinkerState
<1> HIDE DEF next
<1>2. /\ linker' \in [Muxes -> LinkerState] /\ RequestType'
      /\ (\A r \in Requests : Aimed(r)') /\ \A conn \in idle' : conn.run = conn.host
  BY Zenon, <1>1, HandlerMoves DEF Registered
<1>3. RegisteredHasHandler' /\ \A d \in open' : linker'[d].at \in Registered
  BY Zenon, <1>1 DEF TrafficInv, LinkType, Attended, RegisteredHasHandler, Registered
<1>4. OpenLinkRegistered'
  BY Zenon, <1>1 DEF TrafficInv, LinkType, Attended, OpenLinkRegistered
<1> QED BY Zenon, <1>1, <1>2, <1>3, <1>4 DEF TrafficInv, RowType, LinkType, Attended

LEMMA AnnounceKeeps ==
    ASSUME TrafficInv, NEW c \in Muxes, Announce(c)
    PROVE  TrafficInv'
<1> DEFINE next == Linking("wait", linker[c].seq, Nobody)
<1>1. /\ next \in LinkerState /\ next.at = "wait" /\ next.seq = linker[c].seq
      /\ linker' = [linker EXCEPT ![c] = next] /\ linker[c].at = "announce"
      /\ UNCHANGED <<capability, stop, links, open, request, idle>>
  BY LinkingType DEF Announce, TrafficInv, LinkType, LinkerState
<1>2. RowType'
  <2>1. /\ row \in RowState /\ row.seq \in 0 .. MaxRuns /\ row.tunnel \in BOOLEAN
        /\ capability \subseteq Runs /\ stop \in StopState
    BY Zenon DEF TrafficInv, RowType, RowState
  <2> QED BY Zenon, <2>1, RowTypes DEF Announce, RowType
<1> HIDE DEF next
<1>3. /\ linker' \in [Muxes -> LinkerState] /\ RequestType'
      /\ (\A r \in Requests : Aimed(r)') /\ \A conn \in idle' : conn.run = conn.host
  BY Zenon, <1>1, HandlerMoves DEF Registered
<1>4. Attended'
  BY Zenon, <1>1 DEF TrafficInv, LinkType, Attended, RegisteredHasHandler, OpenLinkRegistered, Registered
<1> QED BY Zenon, <1>1, <1>2, <1>3, <1>4 DEF TrafficInv, LinkType

(* The handler returns after its connection is closed, and removes only    *)
(* its own entry.                                                          *)
LEMMA LinkReturnsKeeps ==
    ASSUME TrafficInv, NEW c \in Muxes, LinkReturns(c)
    PROVE  TrafficInv'
<1> DEFINE next == Linking("done", 0, Nobody)
<1>1. /\ next \in LinkerState /\ next.at = "done"
      /\ linker' = [linker EXCEPT ![c] = next] /\ linker[c].at = "wait" /\ c \notin open
      /\ links' = IF links = c THEN Nobody ELSE links
      /\ UNCHANGED <<row, capability, stop, open, request, idle>>
  BY LinkingType, TrafficAssumption DEF LinkReturns, CompareAndDelete
<1> HIDE DEF next
<1>2. /\ linker' \in [Muxes -> LinkerState] /\ RequestType'
      /\ (\A r \in Requests : Aimed(r)') /\ \A conn \in idle' : conn.run = conn.host
  BY Zenon, <1>1, HandlerMoves DEF Registered
<1>3. RegisteredHasHandler' /\ \A d \in open' : linker'[d].at \in Registered
  BY Zenon, <1>1 DEF TrafficInv, LinkType, Attended, RegisteredHasHandler, Registered
<1>4. OpenLinkRegistered'
  BY <1>1 DEF TrafficInv, LinkType, Attended, OpenLinkRegistered
<1> QED BY Zenon, <1>1, <1>2, <1>3, <1>4 DEF TrafficInv, RowType, LinkType, Attended

LEMMA LinkBreaksKeeps ==
    ASSUME TrafficInv, NEW c \in Muxes, LinkBreaks(c)
    PROVE  TrafficInv'
<1>1. open' = open \ {c} /\ UNCHANGED <<row, capability, stop, links, linker, request, idle>>
  BY Zenon DEF LinkBreaks
<1>2. OpenLinkRegistered'
  BY Zenon, <1>1 DEF TrafficInv, Attended, OpenLinkRegistered
<1> QED BY Zenon, <1>1, <1>2 DEF TrafficInv, RowType, LinkType, RequestType, Attended, RegisteredHasHandler, Aimed

----------------------------------------------------------------------------
(* A request goes on: only its own handler and the idle connections move.  *)
LEMMA TrafficRequestMoves ==
    ASSUME TrafficInv, NEW r \in Requests, NEW next \in RequestState,
           request' = [request EXCEPT ![r] = next],
           Aimed(r)',
           idle' \subseteq [host : Runs, way : Muxes \cup {Tunnel}, run : Runs],
           \A conn \in idle' : conn.run = conn.host,
           UNCHANGED <<row, capability, stop, links, open, linker>>
    PROVE  TrafficInv'
<1>1. RequestType'
  BY Zenon DEF TrafficInv, RequestType
<1>2. ASSUME NEW q \in Requests
      PROVE  Aimed(q)'
  <2>1. CASE q = r
    BY Zenon, <2>1
  <2>2. CASE q # r
    BY Zenon, <2>2 DEF TrafficInv, RequestType, Aimed
  <2> QED BY Zenon, <2>1, <2>2
<1> QED BY Zenon, <1>1, <1>2 DEF TrafficInv, RowType, LinkType, Attended, RegisteredHasHandler, OpenLinkRegistered

LEMMA RequestField ==
    ASSUME RequestType, NEW r \in Requests, NEW next, request' = [request EXCEPT ![r] = next]
    PROVE  request'[r] = next /\ request[r] \in RequestState
BY Zenon DEF RequestType

LEMMA NoRequestType == NoRequest \in RequestState /\ NoRequest.at = "none"
<1>1. 0 \in 0 .. MaxRuns
  BY TrafficAssumption
<1> QED BY Zenon, <1>1 DEF NoRequest, Handling, RequestState

LEMMA authorizedSessionKeeps ==
    ASSUME TrafficInv, NEW r \in Requests, authorizedSession(r)
    PROVE  TrafficInv'
<1>1. PICK pooled \in BOOLEAN : request' = [request EXCEPT ![r] =
              Handling(IF pooled THEN "transport" ELSE "dial", pooled, row.seq, row.tunnel, Nobody, 0)]
  BY Zenon DEF authorizedSession
<1> DEFINE next == Handling(IF pooled THEN "transport" ELSE "dial", pooled, row.seq, row.tunnel, Nobody, 0)
<1>2. row.seq \in Runs /\ row.seq \in 0 .. MaxRuns /\ row.tunnel \in BOOLEAN /\ 0 \in 0 .. MaxRuns
  BY TrafficAssumption DEF authorizedSession, reachable, TrafficInv, RowType, RowState
<1>3. next \in RequestState /\ next.at \in {"transport", "dial"} /\ next.seq = row.seq
  BY Zenon, <1>2 DEF Handling, RequestState
<1> HIDE DEF next
<1>4. request' = [request EXCEPT ![r] = next] /\ UNCHANGED <<row, capability, links, open, linker, stop, idle>>
  BY Zenon, <1>1 DEF authorizedSession, next
<1>5. request'[r] = next
  BY Zenon, <1>4, RequestField DEF TrafficInv
<1>6. Aimed(r)'
  BY Zenon, <1>2, <1>3, <1>5 DEF Aimed
<1> QED BY Zenon, <1>3, <1>4, <1>6, TrafficRequestMoves DEF TrafficInv, RequestType

LEMMA ReuseKeeps ==
    ASSUME TrafficInv, NEW r \in Requests, Reuse(r)
    PROVE  TrafficInv'
<1>1. PICK conn \in idle :
          /\ conn.host = request[r].seq
          /\ request' = [request EXCEPT ![r] =
              Handling("reached", TRUE, request[r].seq, request[r].tunnel, conn.way, conn.run)]
          /\ idle' = idle \ {conn}
  BY Zenon DEF Reuse
<1> DEFINE next == Handling("reached", TRUE, request[r].seq, request[r].tunnel, conn.way, conn.run)
<1>2. /\ conn.way \in Muxes \cup {Tunnel} /\ conn.run \in Runs /\ conn.run = conn.host
      /\ conn.run \in 0 .. MaxRuns
      /\ request[r].seq \in 0 .. MaxRuns /\ request[r].tunnel \in BOOLEAN
  BY TrafficAssumption DEF TrafficInv, RequestType, RequestState, Runs
<1>3. next \in RequestState /\ next.at = "reached" /\ next.seq = conn.host /\ next.run = conn.host /\ next.way = conn.way
  BY Zenon, <1>1, <1>2 DEF Handling, RequestState
<1> HIDE DEF next
<1>4. request' = [request EXCEPT ![r] = next] /\ UNCHANGED <<row, capability, links, open, linker, stop>>
  BY Zenon, <1>1 DEF Reuse, next
<1>5. request'[r] = next
  BY Zenon, <1>4, RequestField DEF TrafficInv
<1>6. Aimed(r)'
  BY Zenon, <1>2, <1>3, <1>5, TrafficAssumption DEF Aimed
<1>7. idle' \subseteq idle
  BY Zenon, <1>1
<1> QED BY Zenon, <1>3, <1>4, <1>6, <1>7, TrafficRequestMoves DEF TrafficInv, RequestType

LEMMA dialHostKeeps ==
    ASSUME TrafficInv, NEW r \in Requests, dialHost(r)
    PROVE  TrafficInv'
<1> DEFINE next == IF Routed(r) THEN Handling("dial", TRUE, row.seq, row.tunnel, Nobody, 0) ELSE NoRequest
<1>1. row.seq \in 0 .. MaxRuns /\ row.tunnel \in BOOLEAN /\ 0 \in 0 .. MaxRuns
  BY TrafficAssumption DEF TrafficInv, RowType, RowState
<1>2. request[r].seq \in Runs
  BY Zenon DEF dialHost, TrafficInv, Aimed
<1>3. next \in RequestState /\ (next.at = "none" \/ (next.at = "dial" /\ next.seq = request[r].seq))
  BY Zenon, <1>1, NoRequestType DEF Routed, Handling, RequestState
<1> HIDE DEF next
<1>4. request' = [request EXCEPT ![r] = next] /\ UNCHANGED <<row, capability, links, open, linker, stop, idle>>
  BY Zenon DEF dialHost, next
<1>5. request'[r] = next
  BY Zenon, <1>4, RequestField DEF TrafficInv
<1>6. Aimed(r)'
  BY Zenon, <1>2, <1>3, <1>5 DEF Aimed
<1> QED BY Zenon, <1>3, <1>4, <1>6, TrafficRequestMoves DEF TrafficInv, RequestType

LEMMA RequestFields ==
    ASSUME TrafficInv, NEW r \in Requests
    PROVE  /\ request[r].pooled \in BOOLEAN
           /\ request[r].seq \in 0 .. MaxRuns
           /\ request[r].tunnel \in BOOLEAN
           /\ request[r].way \in Muxes \cup {Nobody, Tunnel}
           /\ request[r].run \in 0 .. MaxRuns
           /\ 0 \in 0 .. MaxRuns
BY TrafficAssumption DEF TrafficInv, RequestType, RequestState

(* The connection dial is given is registered for the run of the request.  *)
LEMMA dialKeeps ==
    ASSUME TrafficInv, NEW r \in Requests, dial(r)
    PROVE  TrafficInv'
<1> DEFINE seq == request[r].seq
           next == IF link(seq) # Nobody THEN Streaming(r, link(seq))
                   ELSE IF seq \in capability /\ request[r].tunnel THEN Streaming(r, Tunnel)
                   ELSE NoRequest
<1>1. ASSUME NEW way \in Muxes \cup {Nobody, Tunnel}
      PROVE  /\ Streaming(r, way) \in RequestState /\ Streaming(r, way).at = "stream"
             /\ Streaming(r, way).seq = seq /\ Streaming(r, way).way = way
  BY Zenon, RequestFields DEF Handling, RequestState, Streaming
<1>2. link(seq) # Nobody =>
         link(seq) \in Muxes /\ linker[link(seq)].at \in Registered /\ linker[link(seq)].seq = seq
  BY Zenon DEF link, TrafficInv, LinkType, Attended, RegisteredHasHandler, Registered
<1>3. seq \in Runs
  BY Zenon DEF dial, TrafficInv, Aimed
<1>4. /\ next \in RequestState
      /\ \/ next.at = "none"
         \/ next.at = "stream" /\ next.seq = seq /\ next.way = Tunnel
         \/ /\ next.at = "stream" /\ next.seq = seq /\ next.way \in Muxes
            /\ linker[next.way].at \in Registered /\ linker[next.way].seq = seq
  <2>1. CASE link(seq) # Nobody
    BY Zenon, <2>1, <1>1, <1>2
  <2>2. CASE link(seq) = Nobody
    BY Zenon, <2>2, <1>1, NoRequestType
  <2> QED BY Zenon, <2>1, <2>2
<1>5. request' = [request EXCEPT ![r] = next] /\ UNCHANGED <<row, capability, links, open, linker, stop, idle>>
  BY Zenon DEF dial
<1> HIDE DEF next, seq
<1>6. request'[r] = next
  BY Zenon, <1>5, RequestField DEF TrafficInv
<1>7. Aimed(r)'
  BY Zenon, <1>3, <1>4, <1>5, <1>6, TrafficAssumption DEF Aimed
<1> QED BY Zenon, <1>4, <1>5, <1>7, TrafficRequestMoves DEF TrafficInv, RequestType

(* An open connection has its handler, and the handler its run.            *)
LEMMA OpenStreamKeeps ==
    ASSUME TrafficInv, NEW r \in Requests, OpenStream(r)
    PROVE  TrafficInv'
<1> DEFINE seq == request[r].seq
           way == request[r].way
           next == IF way = Tunnel THEN Reached(r, seq)
                   ELSE IF way \in open THEN Reached(r, linker[way].seq)
                   ELSE NoRequest
<1>1. /\ Reached(r, seq) \in RequestState /\ Reached(r, seq).at = "reached" /\ Reached(r, seq).way = way
      /\ Reached(r, seq).seq = seq /\ Reached(r, seq).run = seq
  BY Zenon, RequestFields DEF Handling, RequestState, Reached
<1>2. seq \in Runs /\ way # Nobody
  BY Zenon DEF OpenStream, TrafficInv, Aimed
<1>3. way \in open => linker[way].seq = seq
  BY Zenon DEF OpenStream, TrafficInv, LinkType, Attended, Aimed
<1>4. next = Reached(r, seq) \/ next = NoRequest
  BY Zenon, <1>3
<1>5. request' = [request EXCEPT ![r] = next] /\ UNCHANGED <<row, capability, links, open, linker, stop, idle>>
  BY Zenon DEF OpenStream
<1> HIDE DEF next, seq, way
<1>6. request'[r] = next
  BY Zenon, <1>5, RequestField DEF TrafficInv
<1>7. next \in RequestState
  BY Zenon, <1>1, <1>4, NoRequestType
<1>8. Aimed(r)'
  BY Zenon, <1>1, <1>2, <1>4, <1>6, NoRequestType DEF Aimed
<1> QED BY Zenon, <1>5, <1>7, <1>8, TrafficRequestMoves DEF TrafficInv, RequestType

LEMMA RequestReturnsKeeps ==
    ASSUME TrafficInv, NEW r \in Requests, RequestReturns(r)
    PROVE  TrafficInv'
<1> DEFINE conn == [host |-> request[r].seq, way |-> request[r].way, run |-> request[r].run]
<1>1. /\ idle' \subseteq idle \/ (request[r].at = "reached" /\ idle' \subseteq idle \cup {conn})
      /\ request' = [request EXCEPT ![r] = NoRequest]
      /\ UNCHANGED <<row, capability, links, open, linker, stop>>
  BY Zenon DEF RequestReturns
<1>2. request[r].at = "reached" =>
         conn \in [host : Runs, way : Muxes \cup {Tunnel}, run : Runs] /\ conn.run = conn.host
  BY Zenon, RequestFields DEF TrafficInv, Aimed
<1> HIDE DEF conn
<1>3. /\ idle' \subseteq [host : Runs, way : Muxes \cup {Tunnel}, run : Runs]
      /\ \A held \in idle' : held.run = held.host
  BY Zenon, <1>1, <1>2 DEF TrafficInv, RequestType
<1>4. request'[r] = NoRequest
  BY Zenon, <1>1, RequestField DEF TrafficInv
<1>5. Aimed(r)'
  BY Zenon, <1>4, NoRequestType DEF Aimed
<1> QED BY Zenon, <1>1, <1>3, <1>5, NoRequestType, TrafficRequestMoves

----------------------------------------------------------------------------
LEMMA TrafficStep == TrafficInv /\ [TrafficNext]_trafficVars => TrafficInv'
<1> SUFFICES ASSUME TrafficInv, [TrafficNext]_trafficVars
             PROVE  TrafficInv'
  OBVIOUS
<1>1. CASE RowStep
  BY Zenon, <1>1, RowStepKeeps
<1>2. CASE LoadAndDelete \/ StopClose
  BY Zenon, <1>2, LoadAndDeleteKeeps, StopCloseKeeps
<1>3. ASSUME NEW c \in Muxes,
             linkedSession(c) \/ UpgradeFails(c) \/ Swap(c) \/ Displace(c) \/ Announce(c) \/ LinkReturns(c) \/ LinkBreaks(c)
      PROVE  TrafficInv'
  BY Zenon, <1>3, linkedSessionKeeps, UpgradeFailsKeeps, SwapKeeps, DisplaceKeeps, AnnounceKeeps, LinkReturnsKeeps, LinkBreaksKeeps
<1>4. ASSUME NEW r \in Requests,
             authorizedSession(r) \/ Reuse(r) \/ dialHost(r) \/ dial(r) \/ OpenStream(r) \/ RequestReturns(r)
      PROVE  TrafficInv'
  BY Zenon, <1>4, authorizedSessionKeeps, ReuseKeeps, dialHostKeeps, dialKeeps, OpenStreamKeeps, RequestReturnsKeeps
<1>5. CASE UNCHANGED trafficVars
  BY ZenonT(40), <1>5 DEF trafficVars, TrafficInv, RowType, LinkType, RequestType, Attended, RegisteredHasHandler, OpenLinkRegistered, Aimed
<1> QED BY Zenon, <1>1, <1>2, <1>3, <1>4, <1>5 DEF TrafficNext, RowStep

(* TrafficInv holds throughout: the row, the links and the handlers        *)
(* described in link.go stay in the states the arguments above start from. *)
LEMMA TrafficInvariant == TrafficSpec => []TrafficInv
BY NothingLinked, TrafficStep, PTL DEF TrafficSpec

(* The types of the state of a run's traffic.                              *)
THEOREM TrafficTypes == TrafficSpec => []TrafficTypeOK
<1>1. TrafficInv => TrafficTypeOK
  BY Zenon DEF TrafficInv, TrafficTypeOK, RowType, LinkType, RequestType, RowState, StopState, LinkerState, RequestState
<1>2. QED
  BY <1>1, TrafficInvariant, PTL

(* Traffic authorised for a run only reaches the Linkspan of that run      *)
(* (link, dial, dialHost and OpenStream in link.go), for any number of     *)
(* connections, requests and runs.                                         *)
THEOREM TrafficStaysWithItsRun == TrafficSpec => []TrafficReachesItsRun
<1>1. TrafficInv => TrafficReachesItsRun
  BY DEF TrafficInv, Aimed, TrafficReachesItsRun
<1> QED BY <1>1, TrafficInvariant, PTL

(* No connection is left open that neither the registry nor a handler      *)
(* about to close it knows (Swap, LoadAndDelete and CompareAndDelete on    *)
(* Service.links).                                                         *)
THEOREM NoLinkLeaks == TrafficSpec => []OpenLinkRegistered
<1>1. TrafficInv => OpenLinkRegistered
  BY DEF TrafficInv, Attended
<1> QED BY <1>1, TrafficInvariant, PTL

(* A registered connection has a handler that removes the entry when the   *)
(* connection breaks (Link in link.go).                                    *)
THEOREM LinksAreAttended == TrafficSpec => []RegisteredHasHandler
<1>1. TrafficInv => RegisteredHasHandler
  BY DEF TrafficInv, Attended
<1> QED BY <1>1, TrafficInvariant, PTL

-----------------------------------------------------------------------------
(* Provisioning. A script reads, decides and writes while other scripts    *)
(* may do the same; what it has read stays true as long as nobody else has *)
(* written.                                                                *)

Stages == {"none", "look", "latest", "decide", "download", "check", "install", "floor",
           "stage", "write", "move", "complete", "error", "killed"}

VersionState == [release : 0 .. MaxRelease, build : BOOLEAN, whole : BOOLEAN]

ScriptState ==
    [at : Stages, installed : Versions, latest : 0 .. MaxRelease, download : Versions, file : Scripts \cup {NoFile}]

TextState == [of : Scripts \cup {NoFile}, whole : BOOLEAN]

(* What a script has established by itself, whoever works beside it.       *)
ScriptInv(s) ==
    /\ script[s].latest <= publishedRelease
    /\ script[s].at \in {"download", "check", "install"} => ~Keep(script[s].installed, script[s].latest)
    /\ script[s].at \in {"check", "install"} /\ script[s].download.whole =>
          ~script[s].download.build /\ script[s].download.release >= script[s].latest
    /\ script[s].at = "install" => script[s].download.whole

(* The Linkspan at its path is what script s should leave there.           *)
Chosen(s) == binary.release >= script[s].latest /\ ~Older(binary, script[s].installed)

(* What a script may rely on while nobody else changes the host.           *)
AloneInv(s) ==
    /\ script[s].at \in {"latest", "decide", "download", "check", "install"} => script[s].installed = binary
    /\ script[s].at \in {"floor", "stage", "write", "move", "complete"} => Chosen(s)
    /\ script[s].at \in {"stage", "write", "move", "complete"} => Supported(binary)
    /\ script[s].at = "write" => workflowStaged # NoFile /\ script[s].file = workflowStaged
    /\ script[s].at = "move" => workflowStaged # NoFile /\ text[workflowStaged] = [of |-> s, whole |-> TRUE]
    /\ script[s].at = "complete" => workflow # NoFile /\ text[workflow] = [of |-> s, whole |-> TRUE]

ProvisionInv ==
    /\ ProvisionTypeOK
    /\ \A s \in Scripts : ScriptInv(s)
    /\ \A s \in Scripts \ disturbed : AloneInv(s)

----------------------------------------------------------------------------
LEMMA VersionFacts ==
  /\ \A v \in Versions : v \in VersionState /\ (v # Partial => v.whole)
  /\ NoVersion \in Versions \ {Partial} /\ Partial \in Versions /\ ~Partial.whole
  /\ \A n \in 0 .. MaxRelease, b \in BOOLEAN :
        Version(n, b) \in Versions \ {Partial} /\ Version(n, b).release = n /\ Version(n, b).build = b
<1>1. PICK w : w = Partial
  BY Zenon
<1>2. Partial \in Versions /\ ~Partial.whole /\ Partial \in VersionState
  <2>1. PICK v : v = NoVersion /\ w = [v EXCEPT !.whole = FALSE]
    BY Zenon, <1>1 DEF Partial
  <2>2. v = [release |-> 0, build |-> FALSE, whole |-> TRUE]
    BY Zenon, <2>1 DEF NoVersion, Version
  <2>3. 0 \in 0 .. MaxRelease
    BY ProvisionAssumption
  <2>4. v \in VersionState
    BY <2>2, <2>3 DEF VersionState
  <2>5. w.whole = FALSE /\ w \in VersionState
    BY <2>1, <2>4 DEF VersionState
  <2>6. Partial \in Versions
    BY SMTT(20) DEF Versions
  <2>7. QED
    BY Zenon, <1>1, <2>5, <2>6
<1>3. ASSUME NEW n \in 0 .. MaxRelease, NEW b \in BOOLEAN
      PROVE  /\ Version(n, b) \in VersionState /\ Version(n, b).whole
             /\ Version(n, b) \in Versions \ {Partial} /\ Version(n, b).release = n /\ Version(n, b).build = b
  <2>1. PICK v : v = Version(n, b)
    BY Zenon
  <2>2. v = [release |-> n, build |-> b, whole |-> TRUE]
    BY Zenon, <2>1 DEF Version
  <2>3. v \in VersionState /\ v.whole /\ v.release = n /\ v.build = b
    BY <2>2 DEF VersionState
  <2>4. v \in Versions
    BY SMTT(20), <2>1 DEF Versions
  <2>5. QED
    BY Zenon, <1>2, <2>1, <2>3, <2>4
<1>4. ASSUME NEW v \in Versions
      PROVE  v \in VersionState /\ (v # Partial => v.whole)
  <2>1. CASE v = Partial
    BY Zenon, <1>2, <2>1
  <2>2. CASE v # Partial
    <3>1. PICK n \in 0 .. MaxRelease, b \in BOOLEAN : v = Version(n, b)
      BY SMTT(20), <2>2 DEF Versions
    <3>2. QED
      BY Zenon, <1>3, <3>1
  <2>3. QED
    BY Zenon, <2>1, <2>2
<1>5. NoVersion \in Versions \ {Partial}
  <2>1. 0 \in 0 .. MaxRelease /\ FALSE \in BOOLEAN
    BY ProvisionAssumption
  <2>2. QED
    BY Zenon, <1>3, <2>1 DEF NoVersion
<1>6. QED
  BY Zenon, <1>2, <1>3, <1>4, <1>5

LEMMA ProvisionShape ==
  ASSUME ProvisionTypeOK
  PROVE  script \in [Scripts -> ScriptState] /\ text \in [Scripts -> TextState] /\ binary \in Versions \ {Partial}
  BY Zenon DEF ProvisionTypeOK, ScriptState, TextState, Stages

LEMMA ScriptMoves ==
  ASSUME ProvisionTypeOK, NEW s \in Scripts, NEW state \in ScriptState, script' = [script EXCEPT ![s] = state]
  PROVE  script' \in [Scripts -> ScriptState] /\ script'[s] = state /\ \A q \in Scripts \ {s} : script'[q] = script[q]
  BY Zenon, ProvisionShape

(* Nothing happened to script q.                                           *)
LEMMA ScriptInvKept ==
  ASSUME NEW q \in Scripts, ScriptInv(q), script'[q] = script[q], script[q].latest <= publishedRelease'
  PROVE  (ScriptInv(q))'
  BY Zenon DEF ScriptInv

LEMMA AloneKept ==
  ASSUME NEW q \in Scripts, AloneInv(q), script'[q] = script[q], UNCHANGED <<binary, workflow, workflowStaged, text>>
  PROVE  (AloneInv(q))'
<1>1. Chosen(q) => (Chosen(q))'
  BY Zenon DEF Chosen
<1>2. QED
  BY Zenon, <1>1 DEF AloneInv

LEMMA NotBegunIsAlone ==
  ASSUME NEW q \in Scripts, script'[q].at \in {"none", "look", "error", "killed"}
  PROVE  (AloneInv(q))'
  BY Zenon DEF AloneInv

(* A step of script s that leaves the files of the host alone.             *)
LEMMA QuietStep ==
  ASSUME ProvisionInv, NEW s \in Scripts, NEW state \in ScriptState, ScriptBecomes(s, state),
         UNCHANGED <<binary, workflow, workflowStaged, text>>,
         (ScriptInv(s))', s \notin disturbed => (AloneInv(s))'
  PROVE  ProvisionInv'
<1>1. ProvisionTypeOK
  BY Zenon DEF ProvisionInv
<1>2. script' = [script EXCEPT ![s] = state] /\ UNCHANGED <<publishedRelease, hostPreparation, disturbed>>
  BY Zenon DEF ScriptBecomes
<1>3. script' \in [Scripts -> ScriptState] /\ \A q \in Scripts \ {s} : script'[q] = script[q]
  BY Zenon, <1>1, <1>2, ScriptMoves
<1>4. ProvisionTypeOK'
  BY Zenon, <1>1, <1>2, <1>3 DEF ProvisionTypeOK, ScriptState, Stages
<1>5. ASSUME NEW q \in Scripts \ {s}
      PROVE  (ScriptInv(q))' /\ (q \notin disturbed => (AloneInv(q))')
  <2>1. script'[q] = script[q] /\ ScriptInv(q) /\ (q \notin disturbed => AloneInv(q))
    BY Zenon, <1>3 DEF ProvisionInv
  <2>2. script[q].latest <= publishedRelease'
    BY Zenon, <1>2, <2>1 DEF ScriptInv
  <2>3. QED
    BY Zenon, <2>1, <2>2, ScriptInvKept, AloneKept
<1>6. QED
  BY Zenon, <1>2, <1>4, <1>5 DEF ProvisionInv

(* A step of script s that changes a file: whoever has begun is disturbed. *)
LEMMA LoudStep ==
  ASSUME ProvisionInv, NEW s \in Scripts, NEW state \in ScriptState, script' = [script EXCEPT ![s] = state],
         Disturbs(s), UNCHANGED <<publishedRelease, hostPreparation>>, binary' \in Versions \ {Partial},
         {workflow', workflowStaged'} \subseteq Scripts \cup {NoFile}, text' \in [Scripts -> TextState],
         (ScriptInv(s))', s \notin disturbed => (AloneInv(s))'
  PROVE  ProvisionInv'
<1>1. ProvisionTypeOK
  BY Zenon DEF ProvisionInv
<1>2. disturbed' = disturbed \cup {t \in Scripts \ {s} : script[t].at # "none"}
  BY Zenon DEF Disturbs
<1>3. script' \in [Scripts -> ScriptState] /\ \A q \in Scripts \ {s} : script'[q] = script[q]
  BY Zenon, <1>1, ScriptMoves
<1>4. ProvisionTypeOK'
  <2>1. disturbed' \subseteq Scripts
    BY Zenon, <1>1, <1>2 DEF ProvisionTypeOK
  <2>2. {workflow', workflowStaged', hostPreparation'} \subseteq Scripts \cup {NoFile}
    BY Zenon, <1>1 DEF ProvisionTypeOK
  <2>3. QED
    BY Zenon, <1>1, <1>3, <2>1, <2>2 DEF ProvisionTypeOK, ScriptState, TextState, Stages
<1>5. ASSUME NEW q \in Scripts \ {s}
      PROVE  (ScriptInv(q))' /\ (q \notin disturbed' => (AloneInv(q))')
  <2>1. script'[q] = script[q] /\ ScriptInv(q)
    BY Zenon, <1>3 DEF ProvisionInv
  <2>2. script[q].latest <= publishedRelease'
    BY Zenon, <2>1 DEF ScriptInv
  <2>3. q \notin disturbed' => script'[q].at = "none"
    BY Zenon, <1>2, <2>1
  <2>4. QED
    BY Zenon, <2>1, <2>2, <2>3, ScriptInvKept, NotBegunIsAlone
<1>6. s \notin disturbed' => s \notin disturbed
  BY Zenon, <1>2
<1>7. QED
  BY Zenon, <1>4, <1>5, <1>6 DEF ProvisionInv

LEMMA ProvisionStart == ProvisionInit => ProvisionInv
<1> SUFFICES ASSUME ProvisionInit
             PROVE  ProvisionInv
  BY Zenon
<1>1. publishedRelease \in 0 .. MaxRelease
  BY ProvisionAssumption DEF ProvisionInit
<1>2. NotBegun \in ScriptState /\ NotBegun.at = "none" /\ NotBegun.latest = 0 /\ NoText \in TextState
  <2>0. NoVersion \in Versions
    BY Zenon, VersionFacts
  <2>1. 0 \in 0 .. MaxRelease /\ NoVersion \in Versions
    BY <2>0, ProvisionAssumption
  <2>2. QED
    BY <2>1 DEF NotBegun, NoText, ScriptState, TextState, Stages
<1>3. ProvisionTypeOK
  BY Zenon, <1>1, <1>2, VersionFacts DEF ProvisionInit, ProvisionTypeOK, ScriptState, TextState, Stages
<1>4. \A s \in Scripts : script[s] = NotBegun
  BY Zenon DEF ProvisionInit
<1>5. 0 <= publishedRelease
  BY <1>1, ProvisionAssumption
<1>6. \A s \in Scripts : ScriptInv(s) /\ AloneInv(s)
  BY Zenon, <1>2, <1>4, <1>5 DEF ScriptInv, AloneInv
<1>7. QED
  BY Zenon, <1>3, <1>6 DEF ProvisionInv

----------------------------------------------------------------------------
(* The steps of a script.                                                  *)

Fields(state, at, installed, latest, download, file) ==
    /\ state \in ScriptState
    /\ state.at = at /\ state.installed = installed /\ state.latest = latest
    /\ state.download = download /\ state.file = file

LEMMA AtFields ==
  ASSUME ProvisionTypeOK, NEW s \in Scripts, NEW at \in Stages
  PROVE  Fields(At(s, at), at, script[s].installed, script[s].latest, script[s].download, script[s].file)
<1>1. PICK c, state : c = script[s] /\ c \in ScriptState /\ state = At(s, at)
  BY Zenon, ProvisionShape
<1>2. state = [c EXCEPT !.at = at]
  BY Zenon, <1>1 DEF At
<1>3. /\ state \in ScriptState /\ state.at = at /\ state.installed = c.installed /\ state.latest = c.latest
      /\ state.download = c.download /\ state.file = c.file
  BY <1>2, <1>1 DEF ScriptState
<1>4. QED
  BY Zenon, <1>1, <1>3 DEF Fields

LEMMA InstalledField ==
  ASSUME NEW c \in ScriptState, NEW v \in Versions
  PROVE  Fields([c EXCEPT !.installed = v], c.at, v, c.latest, c.download, c.file)
  BY DEF Fields, ScriptState

LEMMA LatestField ==
  ASSUME NEW c \in ScriptState, NEW n \in 0 .. MaxRelease
  PROVE  Fields([c EXCEPT !.latest = n], c.at, c.installed, n, c.download, c.file)
  BY DEF Fields, ScriptState

LEMMA DownloadField ==
  ASSUME NEW c \in ScriptState, NEW v \in Versions
  PROVE  Fields([c EXCEPT !.download = v], c.at, c.installed, c.latest, v, c.file)
  BY DEF Fields, ScriptState

LEMMA FileField ==
  ASSUME NEW c \in ScriptState, NEW f \in Scripts \cup {NoFile}
  PROVE  Fields([c EXCEPT !.file = f], c.at, c.installed, c.latest, c.download, f)
  BY DEF Fields, ScriptState

LEMMA LookStep ==
  ASSUME ProvisionInv, NEW s \in Scripts, Look(s)
  PROVE  ProvisionInv'
<1>1. ProvisionTypeOK /\ ScriptInv(s)
  BY Zenon DEF ProvisionInv
<1>2. PICK at \in Stages, v \in Versions : at = "latest" /\ v = binary
  BY Zenon, <1>1, ProvisionShape DEF Stages
<1>3. PICK c, state : c = At(s, at) /\ state = [c EXCEPT !.installed = v]
  BY Zenon
<1>4. Fields(c, at, script[s].installed, script[s].latest, script[s].download, script[s].file)
  BY Zenon, <1>1, <1>3, AtFields
<1>5. Fields(state, c.at, v, c.latest, c.download, c.file)
  BY Zenon, <1>3, <1>4, InstalledField DEF Fields
<1>6. state \in ScriptState /\ state.at = "latest" /\ state.latest = script[s].latest /\ state.installed = binary
  BY Zenon, <1>2, <1>4, <1>5 DEF Fields
<1>7. ScriptBecomes(s, state) /\ UNCHANGED <<binary, workflow, workflowStaged, text>>
  BY Zenon, <1>2, <1>3 DEF Look
<1>8. script'[s] = state /\ publishedRelease' = publishedRelease
  BY Zenon, <1>1, <1>6, <1>7, ScriptMoves DEF ScriptBecomes
<1>9. (ScriptInv(s))'
  BY Zenon, <1>1, <1>6, <1>8 DEF ScriptInv
<1>10. (AloneInv(s))'
  BY Zenon, <1>6, <1>7, <1>8 DEF AloneInv
<1>11. QED
  BY Zenon, <1>6, <1>7, <1>9, <1>10, QuietStep

LEMMA AskLatestStep ==
  ASSUME ProvisionInv, NEW s \in Scripts, AskLatest(s)
  PROVE  ProvisionInv'
<1>1. ProvisionTypeOK /\ ScriptInv(s) /\ (s \notin disturbed => AloneInv(s)) /\ script[s].at = "latest"
  BY Zenon DEF ProvisionInv, AskLatest
<1>2. PICK n \in {0, publishedRelease} : ScriptBecomes(s, [At(s, "decide") EXCEPT !.latest = n])
  BY Zenon DEF AskLatest
<1>3. n \in 0 .. MaxRelease /\ n <= publishedRelease
  <2>1. publishedRelease \in 0 .. MaxRelease
    BY Zenon, <1>1 DEF ProvisionTypeOK
  <2>2. QED
    BY <2>1, ProvisionAssumption
<1>4. PICK at \in Stages : at = "decide"
  BY Zenon DEF Stages
<1>5. PICK c, state : c = At(s, at) /\ state = [c EXCEPT !.latest = n]
  BY Zenon
<1>6. Fields(c, at, script[s].installed, script[s].latest, script[s].download, script[s].file)
  BY Zenon, <1>1, <1>5, AtFields
<1>7. Fields(state, c.at, c.installed, n, c.download, c.file)
  BY Zenon, <1>3, <1>5, <1>6, LatestField DEF Fields
<1>8. state \in ScriptState /\ state.at = "decide" /\ state.latest = n /\ state.installed = script[s].installed
  BY Zenon, <1>4, <1>6, <1>7 DEF Fields
<1>9. ScriptBecomes(s, state) /\ UNCHANGED <<binary, workflow, workflowStaged, text>>
  BY Zenon, <1>2, <1>4, <1>5 DEF AskLatest
<1>10. script'[s] = state /\ publishedRelease' = publishedRelease
  BY Zenon, <1>1, <1>8, <1>9, ScriptMoves DEF ScriptBecomes
<1>11. (ScriptInv(s))'
  BY Zenon, <1>3, <1>8, <1>10 DEF ScriptInv
<1>12. s \notin disturbed => (AloneInv(s))'
  BY Zenon, <1>1, <1>8, <1>9, <1>10 DEF AloneInv
<1>13. QED
  BY Zenon, <1>8, <1>9, <1>11, <1>12, QuietStep

(* What a kept Linkspan and what a fresh release are worth.                *)
LEMMA KeepIsChosen ==
  ASSUME ProvisionTypeOK, NEW s \in Scripts, script[s].installed = binary, Keep(script[s].installed, script[s].latest)
  PROVE  Chosen(s)
<1>1. PICK v, n : v = binary /\ n = script[s].latest
  BY Zenon
<1>2. v \in VersionState /\ n \in 0 .. MaxRelease
  BY Zenon, <1>1, ProvisionShape, VersionFacts DEF ScriptState
<1>3. v.release \in 0 .. MaxRelease
  BY Zenon, <1>2 DEF VersionState
<1>4. v.release > 0 /\ (n = 0 \/ v.release > n \/ v.release = n)
  BY Zenon, <1>1 DEF Keep
<1>5. v.release >= n /\ ~(v.release < v.release)
  BY <1>2, <1>3, <1>4, ProvisionAssumption
<1>6. QED
  BY Zenon, <1>1, <1>5 DEF Chosen, Older

LEMMA FreshIsChosen ==
  ASSUME NEW old \in VersionState, NEW new \in VersionState, NEW n \in 0 .. MaxRelease,
         ~Keep(old, n), ~new.build, new.release >= n
  PROVE  new.release >= n /\ ~Older(new, old)
<1>1. old.release \in 0 .. MaxRelease /\ new.release \in 0 .. MaxRelease
  BY Zenon DEF VersionState
<1>2. ~(old.release > 0) \/ ~(old.release > n)
  BY Zenon DEF Keep
<1>3. ~(new.release < old.release)
  BY <1>1, <1>2, ProvisionAssumption
<1>4. QED
  BY Zenon, <1>3 DEF Older

(* A script that only goes to its next command.                            *)
LEMMA GoesTo ==
  ASSUME ProvisionTypeOK, NEW s \in Scripts, NEW at \in Stages, script' = [script EXCEPT ![s] = At(s, at)]
  PROVE  /\ At(s, at) \in ScriptState
         /\ script'[s].at = at
         /\ script'[s].installed = script[s].installed /\ script'[s].latest = script[s].latest
         /\ script'[s].download = script[s].download /\ script'[s].file = script[s].file
<1>1. Fields(At(s, at), at, script[s].installed, script[s].latest, script[s].download, script[s].file)
  BY Zenon, AtFields
<1>2. At(s, at) \in ScriptState
  BY Zenon, <1>1 DEF Fields
<1>3. script'[s] = At(s, at)
  BY Zenon, <1>2, ScriptMoves
<1>4. QED
  BY Zenon, <1>1, <1>2, <1>3 DEF Fields

Same(s) ==
    /\ script'[s].installed = script[s].installed /\ script'[s].latest = script[s].latest
    /\ script'[s].download = script[s].download

LEMMA GoStep ==
  ASSUME ProvisionInv, NEW s \in Scripts, NEW at \in Stages, ScriptBecomes(s, At(s, at)), UNCHANGED <<binary, workflow, workflowStaged, text>>,
         script'[s].at = at /\ Same(s) /\ UNCHANGED publishedRelease => (ScriptInv(s))',
         script'[s].at = at /\ Same(s) /\ AloneInv(s) => (AloneInv(s))'
  PROVE  ProvisionInv'
<1>1. ProvisionTypeOK /\ (s \notin disturbed => AloneInv(s))
  BY Zenon DEF ProvisionInv
<1>2. script' = [script EXCEPT ![s] = At(s, at)] /\ publishedRelease' = publishedRelease
  BY Zenon DEF ScriptBecomes
<1>3. At(s, at) \in ScriptState /\ script'[s].at = at /\ Same(s)
  BY Zenon, <1>1, <1>2, GoesTo DEF Same
<1>4. QED
  BY Zenon, <1>1, <1>2, <1>3, QuietStep

LEMMA DecideStep ==
  ASSUME ProvisionInv, NEW s \in Scripts, Decide(s)
  PROVE  ProvisionInv'
<1>1. ProvisionTypeOK /\ ScriptInv(s) /\ (s \notin disturbed => AloneInv(s)) /\ script[s].at = "decide"
  BY Zenon DEF ProvisionInv, Decide
<1>2. UNCHANGED <<binary, workflow, workflowStaged, text>>
  BY Zenon DEF Decide
<1>3. CASE Keep(script[s].installed, script[s].latest)
  <2>1. PICK at \in Stages : at = "floor" /\ ScriptBecomes(s, At(s, at))
    BY Zenon, <1>3 DEF Decide, Stages
  <2>2. ASSUME script'[s].at = at, Same(s), publishedRelease' = publishedRelease
        PROVE  (ScriptInv(s))'
    BY Zenon, <1>1, <2>1, <2>2 DEF ScriptInv, Same
  <2>3. ASSUME script'[s].at = at, Same(s), AloneInv(s)
        PROVE  (AloneInv(s))'
    <3>1. Chosen(s)
      BY Zenon, <1>1, <1>3, <2>3, KeepIsChosen DEF AloneInv
    <3>2. (Chosen(s))'
      BY Zenon, <1>2, <2>3, <3>1 DEF Chosen, Same
    <3>3. QED
      BY Zenon, <2>1, <2>3, <3>2 DEF AloneInv
  <2>4. QED
    BY Zenon, <1>2, <2>1, <2>2, <2>3, GoStep
<1>4. CASE ~Keep(script[s].installed, script[s].latest)
  <2>1. PICK at \in Stages : at = "download" /\ ScriptBecomes(s, At(s, at))
    BY Zenon, <1>4 DEF Decide, Stages
  <2>2. ASSUME script'[s].at = at, Same(s), publishedRelease' = publishedRelease
        PROVE  (ScriptInv(s))'
    BY Zenon, <1>1, <1>4, <2>1, <2>2 DEF ScriptInv, Same
  <2>3. ASSUME script'[s].at = at, Same(s), AloneInv(s)
        PROVE  (AloneInv(s))'
    BY Zenon, <1>1, <1>2, <2>1, <2>3 DEF AloneInv, Same
  <2>4. QED
    BY Zenon, <1>2, <2>1, <2>2, <2>3, GoStep
<1>5. QED
  BY Zenon, <1>3, <1>4

LEMMA DownloadStep ==
  ASSUME ProvisionInv, NEW s \in Scripts, Download(s)
  PROVE  ProvisionInv'
<1>1. ProvisionTypeOK /\ ScriptInv(s) /\ (s \notin disturbed => AloneInv(s)) /\ script[s].at = "download"
  BY Zenon DEF ProvisionInv, Download
<1>2. UNCHANGED <<binary, workflow, workflowStaged, text>>
  BY Zenon DEF Download
<1>3. publishedRelease \in 0 .. MaxRelease /\ script[s].latest <= publishedRelease /\ script[s].latest \in 0 .. MaxRelease
  BY Zenon, <1>1, ProvisionShape DEF ProvisionTypeOK, ScriptInv, ScriptState
<1>4. PICK v \in Versions : /\ ScriptBecomes(s, [At(s, "check") EXCEPT !.download = v])
                            /\ v.whole => ~v.build /\ v.release >= script[s].latest
  <2>1. publishedRelease >= script[s].latest
    BY <1>3, ProvisionAssumption
  <2>2. PICK w : w = Version(publishedRelease, FALSE)
    BY Zenon
  <2>3. w \in Versions /\ w.release = publishedRelease /\ w.build = FALSE
    BY Zenon, <1>3, <2>2, VersionFacts
  <2>4. CASE ScriptBecomes(s, [At(s, "check") EXCEPT !.download = w])
    BY Zenon, <2>1, <2>3, <2>4
  <2>5. CASE ScriptBecomes(s, [At(s, "check") EXCEPT !.download = Partial])
    BY Zenon, <2>5, VersionFacts
  <2>6. QED
    BY Zenon, <2>2, <2>4, <2>5 DEF Download
<1>5. PICK at \in Stages : at = "check"
  BY Zenon DEF Stages
<1>6. PICK c, state : c = At(s, at) /\ state = [c EXCEPT !.download = v]
  BY Zenon
<1>7. Fields(c, at, script[s].installed, script[s].latest, script[s].download, script[s].file)
  BY Zenon, <1>1, <1>6, AtFields
<1>8. Fields(state, c.at, c.installed, c.latest, v, c.file)
  BY Zenon, <1>6, <1>7, DownloadField DEF Fields
<1>9. /\ state \in ScriptState /\ state.at = "check" /\ state.latest = script[s].latest
      /\ state.installed = script[s].installed /\ state.download = v
  BY Zenon, <1>5, <1>7, <1>8 DEF Fields
<1>10. ScriptBecomes(s, state)
  BY Zenon, <1>4, <1>5, <1>6
<1>11. script'[s] = state /\ publishedRelease' = publishedRelease
  BY Zenon, <1>1, <1>9, <1>10, ScriptMoves DEF ScriptBecomes
<1>12. (ScriptInv(s))'
  BY Zenon, <1>1, <1>4, <1>9, <1>11 DEF ScriptInv
<1>13. s \notin disturbed => (AloneInv(s))'
  BY Zenon, <1>1, <1>2, <1>9, <1>11 DEF AloneInv
<1>14. QED
  BY Zenon, <1>2, <1>9, <1>10, <1>12, <1>13, QuietStep

LEMMA CheckDownloadStep ==
  ASSUME ProvisionInv, NEW s \in Scripts, CheckDownload(s)
  PROVE  ProvisionInv'
<1>1. ProvisionTypeOK /\ ScriptInv(s) /\ script[s].at = "check"
  BY Zenon DEF ProvisionInv, CheckDownload
<1>2. UNCHANGED <<binary, workflow, workflowStaged, text>>
  BY Zenon DEF CheckDownload
<1>3. PICK at \in Stages : at \in {"install", "error"} /\ (at = "install" => script[s].download.whole) /\ ScriptBecomes(s, At(s, at))
  BY Zenon DEF CheckDownload, Installable, Stages
<1>4. ASSUME script'[s].at = at, Same(s), publishedRelease' = publishedRelease
      PROVE  (ScriptInv(s))'
  BY Zenon, <1>1, <1>3, <1>4 DEF ScriptInv, Same
<1>5. ASSUME script'[s].at = at, Same(s), AloneInv(s)
      PROVE  (AloneInv(s))'
  BY Zenon, <1>1, <1>2, <1>3, <1>5 DEF AloneInv, Same
<1>6. QED
  BY Zenon, <1>2, <1>3, <1>4, <1>5, GoStep

LEMMA CheckFloorStep ==
  ASSUME ProvisionInv, NEW s \in Scripts, CheckFloor(s)
  PROVE  ProvisionInv'
<1>1. ProvisionTypeOK /\ ScriptInv(s) /\ script[s].at = "floor"
  BY Zenon DEF ProvisionInv, CheckFloor
<1>2. UNCHANGED <<binary, workflow, workflowStaged, text>>
  BY Zenon DEF CheckFloor
<1>3. PICK at \in Stages : at \in {"stage", "error"} /\ (at = "stage" => Supported(binary)) /\ ScriptBecomes(s, At(s, at))
  BY Zenon DEF CheckFloor, Stages
<1>4. ASSUME script'[s].at = at, Same(s), publishedRelease' = publishedRelease
      PROVE  (ScriptInv(s))'
  BY Zenon, <1>1, <1>3, <1>4 DEF ScriptInv, Same
<1>5. ASSUME script'[s].at = at, Same(s), AloneInv(s)
      PROVE  (AloneInv(s))'
  <2>1. Chosen(s)
    BY Zenon, <1>1, <1>5 DEF AloneInv
  <2>2. (Chosen(s))'
    BY Zenon, <1>2, <1>5, <2>1 DEF Chosen, Same
  <2>3. Supported(binary') \/ at = "error"
    BY Zenon, <1>2, <1>3
  <2>4. QED
    BY Zenon, <1>3, <1>5, <2>2, <2>3 DEF AloneInv
<1>6. QED
  BY Zenon, <1>2, <1>3, <1>4, <1>5, GoStep

LEMMA DiesStep ==
  ASSUME ProvisionInv, NEW s \in Scripts, Dies(s)
  PROVE  ProvisionInv'
<1>1. ProvisionTypeOK /\ ScriptInv(s)
  BY Zenon DEF ProvisionInv
<1>2. PICK at \in Stages, f \in Scripts \cup {NoFile} : at = "killed" /\ f = NoFile
  BY Zenon DEF Stages
<1>3. PICK c, state : c = At(s, at) /\ state = [c EXCEPT !.file = f]
  BY Zenon
<1>4. Fields(c, at, script[s].installed, script[s].latest, script[s].download, script[s].file)
  BY Zenon, <1>1, <1>3, AtFields
<1>5. Fields(state, c.at, c.installed, c.latest, c.download, f)
  BY Zenon, <1>3, <1>4, FileField DEF Fields
<1>6. state \in ScriptState /\ state.at = "killed" /\ state.latest = script[s].latest
  BY Zenon, <1>2, <1>4, <1>5 DEF Fields
<1>7. ScriptBecomes(s, state) /\ UNCHANGED <<binary, workflow, workflowStaged, text>>
  BY Zenon, <1>2, <1>3 DEF Dies
<1>8. script'[s] = state /\ publishedRelease' = publishedRelease
  BY Zenon, <1>1, <1>6, <1>7, ScriptMoves DEF ScriptBecomes
<1>9. (ScriptInv(s))'
  BY Zenon, <1>1, <1>6, <1>8 DEF ScriptInv
<1>10. (AloneInv(s))'
  BY Zenon, <1>6, <1>8, NotBegunIsAlone
<1>11. QED
  BY Zenon, <1>6, <1>7, <1>9, <1>10, QuietStep

LEMMA InstallStep ==
  ASSUME ProvisionInv, NEW s \in Scripts, Install(s)
  PROVE  ProvisionInv'
<1>1. ProvisionTypeOK /\ ScriptInv(s) /\ (s \notin disturbed => AloneInv(s)) /\ script[s].at = "install"
  BY Zenon DEF ProvisionInv, Install
<1>2. /\ binary' = script[s].download /\ Disturbs(s)
      /\ UNCHANGED <<publishedRelease, hostPreparation, workflow, workflowStaged, text>>
  BY Zenon DEF Install
<1>3. PICK at \in Stages : at = "floor"
  BY Zenon DEF Stages
<1>4. script' = [script EXCEPT ![s] = At(s, at)]
  BY Zenon, <1>3 DEF Install, At
<1>5. At(s, at) \in ScriptState /\ script'[s].at = at /\ Same(s)
  BY Zenon, <1>1, <1>4, GoesTo DEF Same
<1>6. PICK old, new, n : old = script[s].installed /\ new = script[s].download /\ n = script[s].latest
  BY Zenon
<1>7. old \in Versions /\ new \in Versions /\ n \in 0 .. MaxRelease
  BY Zenon, <1>1, <1>6, ProvisionShape DEF ScriptState
<1>8. ~Keep(old, n) /\ ~new.build /\ new.release >= n /\ new.whole
  BY Zenon, <1>1, <1>6 DEF ScriptInv
<1>9. old \in VersionState /\ new \in VersionState /\ new # Partial
  BY Zenon, <1>7, <1>8, VersionFacts
<1>10. ~Older(new, old)
  BY Zenon, <1>7, <1>8, <1>9, FreshIsChosen
<1>11. (Chosen(s))'
  BY Zenon, <1>2, <1>5, <1>6, <1>8, <1>10 DEF Chosen, Same
<1>12. (AloneInv(s))'
  BY Zenon, <1>3, <1>5, <1>11 DEF AloneInv
<1>13. (ScriptInv(s))'
  BY Zenon, <1>1, <1>2, <1>3, <1>5 DEF ScriptInv, Same
<1>14. {workflow', workflowStaged'} \subseteq Scripts \cup {NoFile} /\ text' \in [Scripts -> TextState] /\ binary' \in Versions \ {Partial}
  BY Zenon, <1>1, <1>2, <1>6, <1>7, <1>9, ProvisionShape DEF ProvisionTypeOK
<1>15. QED
  BY Zenon, <1>2, <1>4, <1>5, <1>12, <1>13, <1>14, LoudStep

LEMMA TextMoves ==
  ASSUME ProvisionTypeOK, NEW f \in Scripts \cup {NoFile}, NEW s \in Scripts, NEW b \in BOOLEAN,
         text' = [text EXCEPT ![f] = [of |-> s, whole |-> b]]
  PROVE  text' \in [Scripts -> TextState] /\ (f # NoFile => text'[f] = [of |-> s, whole |-> b])
<1>1. text \in [Scripts -> TextState]
  BY Zenon, ProvisionShape
<1>2. PICK t : t = [of |-> s, whole |-> b]
  BY Zenon
<1>3. t \in TextState
  BY <1>2 DEF TextState
<1>4. text' = [text EXCEPT ![f] = t]
  BY Zenon, <1>2
<1>5. text' \in [Scripts -> TextState] /\ (f # NoFile => text'[f] = t)
  BY <1>1, <1>3, <1>4
<1>6. QED
  BY Zenon, <1>2, <1>5

LEMMA FileFields ==
  ASSUME ProvisionTypeOK, NEW s \in Scripts, NEW at \in Stages, NEW f \in Scripts \cup {NoFile},
         script' = [script EXCEPT ![s].at = at, ![s].file = f]
  PROVE  \E state \in ScriptState :
            /\ script' = [script EXCEPT ![s] = state]
            /\ Fields(state, at, script[s].installed, script[s].latest, script[s].download, f)
<1>1. PICK c, state : c = At(s, at) /\ state = [c EXCEPT !.file = f]
  BY Zenon
<1>2. Fields(c, at, script[s].installed, script[s].latest, script[s].download, script[s].file)
  BY Zenon, <1>1, AtFields
<1>3. Fields(state, c.at, c.installed, c.latest, c.download, f)
  BY Zenon, <1>1, <1>2, FileField DEF Fields
<1>4. Fields(state, at, script[s].installed, script[s].latest, script[s].download, f) /\ state \in ScriptState
  BY Zenon, <1>2, <1>3 DEF Fields
<1>5. script' = [script EXCEPT ![s] = state]
  BY ProvisionShape, <1>1 DEF At
<1>6. QED
  BY Zenon, <1>4, <1>5

LEMMA StageStep ==
  ASSUME ProvisionInv, NEW s \in Scripts, Stage(s)
  PROVE  ProvisionInv'
<1>1. ProvisionTypeOK /\ ScriptInv(s) /\ (s \notin disturbed => AloneInv(s)) /\ script[s].at = "stage"
  BY Zenon DEF ProvisionInv, Stage
<1>2. /\ Disturbs(s) /\ UNCHANGED <<publishedRelease, hostPreparation, binary, workflow>>
      /\ workflowStaged' = IF workflowStaged = NoFile THEN s ELSE workflowStaged
  BY Zenon DEF Stage
<1>3. binary \in Versions \ {Partial} /\ {workflow, workflowStaged} \subseteq Scripts \cup {NoFile}
  BY Zenon, <1>1 DEF ProvisionTypeOK
<1>4. PICK f \in Scripts \cup {NoFile}, at \in Stages : f = workflowStaged' /\ at = "write" /\ f # NoFile
  <2>1. workflowStaged' \in Scripts \cup {NoFile} /\ workflowStaged' # NoFile
    BY Zenon, <1>2, <1>3, ProvisionAssumption
  <2>2. QED
    BY Zenon, <2>1 DEF Stages
<1>5. PICK b \in BOOLEAN : b = FALSE
  BY Zenon
<1>6. text' = [text EXCEPT ![f] = [of |-> s, whole |-> b]]
  BY Zenon, <1>4, <1>5 DEF Stage
<1>7. text' \in [Scripts -> TextState]
  BY Zenon, <1>1, <1>6, TextMoves
<1>8. script' = [script EXCEPT ![s].at = at, ![s].file = f]
  BY Zenon, <1>4 DEF Stage
<1>9. PICK state \in ScriptState :
         /\ script' = [script EXCEPT ![s] = state]
         /\ Fields(state, at, script[s].installed, script[s].latest, script[s].download, f)
  BY Zenon, <1>1, <1>8, FileFields
<1>10. script'[s] = state
  BY Zenon, <1>1, <1>9, ScriptMoves
<1>11. /\ script'[s].at = "write" /\ script'[s].file = f /\ script'[s].latest = script[s].latest
       /\ script'[s].installed = script[s].installed
  BY Zenon, <1>4, <1>9, <1>10 DEF Fields
<1>12. (ScriptInv(s))'
  BY Zenon, <1>1, <1>2, <1>11 DEF ScriptInv
<1>13. s \notin disturbed => (AloneInv(s))'
  BY Zenon, <1>1, <1>2, <1>4, <1>11 DEF AloneInv, Chosen
<1>14. {workflow', workflowStaged'} \subseteq Scripts \cup {NoFile} /\ binary' \in Versions \ {Partial}
  BY Zenon, <1>2, <1>3, <1>4
<1>15. QED
  BY Zenon, <1>2, <1>7, <1>9, <1>12, <1>13, <1>14, LoudStep

LEMMA WriteStep ==
  ASSUME ProvisionInv, NEW s \in Scripts, Write(s)
  PROVE  ProvisionInv'
<1>1. ProvisionTypeOK /\ ScriptInv(s) /\ (s \notin disturbed => AloneInv(s)) /\ script[s].at = "write"
  BY Zenon DEF ProvisionInv, Write
<1>2. Disturbs(s) /\ UNCHANGED <<publishedRelease, hostPreparation, binary, workflow, workflowStaged>>
  BY Zenon DEF Write
<1>3. binary \in Versions \ {Partial} /\ {workflow, workflowStaged} \subseteq Scripts \cup {NoFile}
  BY Zenon, <1>1 DEF ProvisionTypeOK
<1>4. script[s].file \in Scripts \cup {NoFile}
  BY Zenon, <1>1, ProvisionShape DEF ScriptState
<1>5. PICK f \in Scripts \cup {NoFile}, g \in Scripts \cup {NoFile}, at \in Stages, b \in BOOLEAN :
         f = script[s].file /\ g = NoFile /\ at = "move" /\ b = TRUE
  BY Zenon, <1>4 DEF Stages
<1>6. text' = [text EXCEPT ![f] = [of |-> s, whole |-> b]]
  BY Zenon, <1>5 DEF Write
<1>7. text' \in [Scripts -> TextState] /\ (f # NoFile => text'[f] = [of |-> s, whole |-> b])
  BY Zenon, <1>1, <1>6, TextMoves
<1>8. script' = [script EXCEPT ![s].at = at, ![s].file = g]
  BY Zenon, <1>5 DEF Write
<1>9. PICK state \in ScriptState :
         /\ script' = [script EXCEPT ![s] = state]
         /\ Fields(state, at, script[s].installed, script[s].latest, script[s].download, g)
  BY Zenon, <1>1, <1>8, FileFields
<1>10. script'[s] = state
  BY Zenon, <1>1, <1>9, ScriptMoves
<1>11. /\ script'[s].at = "move" /\ script'[s].latest = script[s].latest
       /\ script'[s].installed = script[s].installed
  BY Zenon, <1>5, <1>9, <1>10 DEF Fields
<1>12. (ScriptInv(s))'
  BY Zenon, <1>1, <1>2, <1>11 DEF ScriptInv
<1>13. s \notin disturbed => (AloneInv(s))'
  <2>1. SUFFICES ASSUME s \notin disturbed
                 PROVE  (AloneInv(s))'
    BY Zenon
  <2>2. workflowStaged # NoFile /\ f = workflowStaged /\ Chosen(s) /\ Supported(binary)
    BY Zenon, <1>1, <1>5, <2>1 DEF AloneInv
  <2>3. text'[workflowStaged'] = [of |-> s, whole |-> TRUE]
    BY Zenon, <1>2, <1>5, <1>7, <2>2
  <2>4. (Chosen(s))'
    BY Zenon, <1>2, <1>11, <2>2 DEF Chosen
  <2>5. QED
    BY Zenon, <1>2, <1>11, <2>2, <2>3, <2>4 DEF AloneInv
<1>14. {workflow', workflowStaged'} \subseteq Scripts \cup {NoFile} /\ binary' \in Versions \ {Partial}
  BY Zenon, <1>2, <1>3
<1>15. QED
  BY Zenon, <1>2, <1>7, <1>9, <1>12, <1>13, <1>14, LoudStep

LEMMA MoveWorkflowStep ==
  ASSUME ProvisionInv, NEW s \in Scripts, MoveWorkflow(s)
  PROVE  ProvisionInv'
<1>1. ProvisionTypeOK /\ ScriptInv(s) /\ (s \notin disturbed => AloneInv(s)) /\ script[s].at = "move"
  BY Zenon DEF ProvisionInv, MoveWorkflow
<1>2. Disturbs(s) /\ UNCHANGED <<publishedRelease, hostPreparation, binary, text>> /\ workflowStaged' = NoFile
  BY Zenon DEF MoveWorkflow
<1>3. /\ binary \in Versions \ {Partial} /\ {workflow, workflowStaged} \subseteq Scripts \cup {NoFile}
      /\ text \in [Scripts -> TextState]
  BY Zenon, <1>1, ProvisionShape DEF ProvisionTypeOK
<1>4. workflowStaged # NoFile /\ workflow' = workflowStaged
  BY Zenon DEF MoveWorkflow
<1>5. PICK at \in Stages : at = "complete"
  BY Zenon DEF Stages
<1>6. script' = [script EXCEPT ![s] = At(s, at)]
  BY Zenon, <1>5 DEF MoveWorkflow, At
<1>7. At(s, at) \in ScriptState /\ script'[s].at = at /\ Same(s)
  BY Zenon, <1>1, <1>6, GoesTo DEF Same
<1>8. (ScriptInv(s))'
  BY Zenon, <1>1, <1>2, <1>5, <1>7 DEF ScriptInv, Same
<1>9. s \notin disturbed => (AloneInv(s))'
  <2>1. SUFFICES ASSUME s \notin disturbed
                 PROVE  (AloneInv(s))'
    BY Zenon
  <2>2. workflowStaged # NoFile /\ text[workflowStaged] = [of |-> s, whole |-> TRUE] /\ Chosen(s) /\ Supported(binary)
    BY Zenon, <1>1, <2>1 DEF AloneInv
  <2>3. workflow' # NoFile /\ text'[workflow'] = [of |-> s, whole |-> TRUE] /\ script'[s].at = "complete"
    BY Zenon, <1>2, <1>4, <1>5, <1>7, <2>2
  <2>4. (Chosen(s))'
    BY Zenon, <1>2, <1>7, <2>2 DEF Chosen, Same
  <2>5. QED
    BY Zenon, <1>2, <2>2, <2>3, <2>4 DEF AloneInv
<1>10. /\ {workflow', workflowStaged'} \subseteq Scripts \cup {NoFile} /\ binary' \in Versions \ {Partial}
       /\ text' \in [Scripts -> TextState]
  BY Zenon, <1>2, <1>3, <1>4
<1>11. QED
  BY Zenon, <1>2, <1>6, <1>7, <1>8, <1>9, <1>10, LoudStep

LEMMA WorkflowErrorStep ==
  ASSUME ProvisionInv, NEW s \in Scripts, WorkflowError(s)
  PROVE  ProvisionInv'
<1>1. ProvisionTypeOK /\ ScriptInv(s)
  BY Zenon DEF ProvisionInv
<1>2. Disturbs(s) /\ UNCHANGED <<publishedRelease, hostPreparation, binary, workflow, text>> /\ workflowStaged' = NoFile
  BY Zenon DEF WorkflowError
<1>3. /\ binary \in Versions \ {Partial} /\ {workflow, workflowStaged} \subseteq Scripts \cup {NoFile}
      /\ text \in [Scripts -> TextState]
  BY Zenon, <1>1, ProvisionShape DEF ProvisionTypeOK
<1>4. PICK g \in Scripts \cup {NoFile}, at \in Stages : g = NoFile /\ at = "error"
  BY Zenon DEF Stages
<1>5. script' = [script EXCEPT ![s].at = at, ![s].file = g]
  BY Zenon, <1>4 DEF WorkflowError
<1>6. PICK state \in ScriptState :
         /\ script' = [script EXCEPT ![s] = state]
         /\ Fields(state, at, script[s].installed, script[s].latest, script[s].download, g)
  BY Zenon, <1>1, <1>5, FileFields
<1>7. script'[s] = state
  BY Zenon, <1>1, <1>6, ScriptMoves
<1>8. script'[s].at = "error" /\ script'[s].latest = script[s].latest
  BY Zenon, <1>4, <1>6, <1>7 DEF Fields
<1>9. (ScriptInv(s))'
  BY Zenon, <1>1, <1>2, <1>8 DEF ScriptInv
<1>10. (AloneInv(s))'
  BY Zenon, <1>8, NotBegunIsAlone
<1>11. /\ {workflow', workflowStaged'} \subseteq Scripts \cup {NoFile} /\ binary' \in Versions \ {Partial}
       /\ text' \in [Scripts -> TextState]
  BY Zenon, <1>2, <1>3
<1>12. QED
  BY Zenon, <1>2, <1>6, <1>9, <1>10, <1>11, LoudStep

LEMMA BeginStep ==
  ASSUME ProvisionInv, NEW s \in Scripts, provisionSession(s)
  PROVE  ProvisionInv'
<1>1. ProvisionTypeOK /\ ScriptInv(s) /\ disturbed \subseteq Scripts
  BY Zenon DEF ProvisionInv, ProvisionTypeOK
<1>2. /\ hostPreparation' = s /\ UNCHANGED <<publishedRelease, binary, workflow, workflowStaged, text>>
      /\ disturbed' = IF \E t \in Scripts : Running(t) THEN disturbed \cup {s} ELSE disturbed
  BY Zenon DEF provisionSession
<1>3. PICK at \in Stages : at = "look"
  BY Zenon DEF Stages
<1>4. script' = [script EXCEPT ![s] = At(s, at)]
  BY Zenon, <1>3 DEF provisionSession, At
<1>5. At(s, at) \in ScriptState /\ script'[s].at = at /\ Same(s)
  BY Zenon, <1>1, <1>4, GoesTo DEF Same
<1>6. script' \in [Scripts -> ScriptState] /\ \A q \in Scripts \ {s} : script'[q] = script[q]
  BY Zenon, <1>1, <1>4, <1>5, ScriptMoves
<1>7. disturbed \subseteq disturbed' /\ disturbed' \subseteq Scripts
  BY Zenon, <1>1, <1>2
<1>8. ProvisionTypeOK'
  BY Zenon, <1>1, <1>2, <1>6, <1>7 DEF ProvisionTypeOK, ScriptState, Stages
<1>9. (ScriptInv(s))' /\ (AloneInv(s))'
  BY Zenon, <1>1, <1>2, <1>3, <1>5, NotBegunIsAlone DEF ScriptInv, Same
<1>10. ASSUME NEW q \in Scripts \ {s}
       PROVE  (ScriptInv(q))' /\ (q \notin disturbed' => (AloneInv(q))')
  <2>1. script'[q] = script[q] /\ ScriptInv(q) /\ (q \notin disturbed' => AloneInv(q))
    BY Zenon, <1>6, <1>7 DEF ProvisionInv
  <2>2. script[q].latest <= publishedRelease'
    BY Zenon, <1>2, <2>1 DEF ScriptInv
  <2>3. QED
    BY Zenon, <1>2, <2>1, <2>2, ScriptInvKept, AloneKept
<1>11. QED
  BY Zenon, <1>8, <1>9, <1>10 DEF ProvisionInv

LEMMA ReturnStep ==
  ASSUME ProvisionInv, NEW s \in Scripts, Return(s)
  PROVE  ProvisionInv'
<1>1. hostPreparation' = NoFile /\ UNCHANGED <<publishedRelease, binary, workflow, workflowStaged, text, script, disturbed>>
  BY Zenon DEF Return
<1>2. ProvisionTypeOK'
  BY Zenon, <1>1 DEF ProvisionInv, ProvisionTypeOK
<1>3. QED
  BY Zenon, <1>1, <1>2 DEF ProvisionInv, ScriptInv, AloneInv, Chosen

LEMMA PublishStep ==
  ASSUME ProvisionInv, PublishRelease
  PROVE  ProvisionInv'
<1>1. ProvisionTypeOK /\ UNCHANGED <<binary, workflow, workflowStaged, text, script, hostPreparation, disturbed>>
  BY Zenon DEF ProvisionInv, PublishRelease
<1>2. publishedRelease' \in 0 .. MaxRelease /\ publishedRelease \in 0 .. MaxRelease /\ publishedRelease' = publishedRelease + 1
  BY ProvisionAssumption DEF PublishRelease, ProvisionInv, ProvisionTypeOK
<1>3. ProvisionTypeOK'
  BY Zenon, <1>1, <1>2 DEF ProvisionTypeOK
<1>4. ASSUME NEW q \in Scripts
      PROVE  (ScriptInv(q))' /\ (q \notin disturbed' => (AloneInv(q))')
  <2>1. script'[q] = script[q] /\ ScriptInv(q) /\ (q \notin disturbed' => AloneInv(q))
    BY Zenon, <1>1 DEF ProvisionInv
  <2>2. PICK n \in 0 .. MaxRelease : n = script[q].latest
    BY Zenon, <1>1, ProvisionShape DEF ScriptState
  <2>3. n <= publishedRelease
    BY Zenon, <2>1, <2>2 DEF ScriptInv
  <2>4. n <= publishedRelease'
    BY <1>2, <2>3
  <2>5. QED
    BY Zenon, <1>1, <2>1, <2>2, <2>4, ScriptInvKept, AloneKept
<1>5. QED
  BY Zenon, <1>3, <1>4 DEF ProvisionInv

LEMMA HandBuildStep ==
  ASSUME ProvisionInv, NEW n \in 1 .. MaxRelease, HandBuild(n)
  PROVE  ProvisionInv'
<1>1. /\ ProvisionTypeOK /\ binary' = Version(n, TRUE) /\ Disturbs(NoFile)
      /\ UNCHANGED <<publishedRelease, workflow, workflowStaged, text, script, hostPreparation>>
  BY Zenon DEF ProvisionInv, HandBuild
<1>2. PICK b \in BOOLEAN : b = TRUE
  BY Zenon
<1>3. n \in 0 .. MaxRelease
  BY ProvisionAssumption
<1>4. binary' \in Versions \ {Partial}
  BY Zenon, <1>1, <1>2, <1>3, VersionFacts
<1>5. disturbed' = disturbed \cup {t \in Scripts \ {NoFile} : script[t].at # "none"}
  BY Zenon, <1>1 DEF Disturbs
<1>6. disturbed' \subseteq Scripts /\ \A q \in Scripts : q \notin disturbed' => script[q].at = "none"
  BY Zenon, <1>1, <1>5, ProvisionAssumption DEF ProvisionTypeOK
<1>7. ProvisionTypeOK'
  BY Zenon, <1>1, <1>4, <1>6 DEF ProvisionTypeOK
<1>8. ASSUME NEW q \in Scripts
      PROVE  (ScriptInv(q))' /\ (q \notin disturbed' => (AloneInv(q))')
  <2>1. script'[q] = script[q] /\ ScriptInv(q)
    BY Zenon, <1>1 DEF ProvisionInv
  <2>2. script[q].latest <= publishedRelease'
    BY Zenon, <1>1, <2>1 DEF ScriptInv
  <2>3. QED
    BY Zenon, <1>6, <2>1, <2>2, ScriptInvKept, NotBegunIsAlone
<1>9. QED
  BY Zenon, <1>7, <1>8 DEF ProvisionInv

LEMMA ProvisionStep ==
  ASSUME ProvisionInv, [ProvisionNext]_provisionVars
  PROVE  ProvisionInv'
<1>1. CASE UNCHANGED provisionVars
  BY Zenon, <1>1 DEF provisionVars, ProvisionInv, ProvisionTypeOK, ScriptInv, AloneInv, Chosen
<1>2. ASSUME NEW s \in Scripts, provisionSession(s) \/ Return(s) \/ ScriptStep(s) \/ Dies(s)
      PROVE  ProvisionInv'
  BY Zenon, <1>2, BeginStep, ReturnStep, DiesStep, LookStep, AskLatestStep, DecideStep, DownloadStep,
     CheckDownloadStep, InstallStep, CheckFloorStep, StageStep, WriteStep, MoveWorkflowStep, WorkflowErrorStep DEF ScriptStep
<1>3. CASE PublishRelease
  BY Zenon, <1>3, PublishStep
<1>4. CASE \E n \in 1 .. MaxRelease : HandBuild(n)
  BY Zenon, <1>4, HandBuildStep
<1>5. QED
  BY Zenon, <1>1, <1>2, <1>3, <1>4 DEF ProvisionNext

(* The inductive invariant of the host's files: what each script has       *)
(* established, and what it may rely on while nobody else changes them.    *)
THEOREM ProvisionInvariant == ProvisionSpec => []ProvisionInv
<1>1. ProvisionInit => ProvisionInv
  BY Zenon, ProvisionStart
<1>2. ProvisionInv /\ [ProvisionNext]_provisionVars => ProvisionInv'
  BY Zenon, ProvisionStep
<1>3. QED
  BY <1>1, <1>2, PTL DEF ProvisionSpec

(* The types of the state: the binary a job execs is never a partial       *)
(* download, however many scripts overlap and wherever one of them dies.   *)
THEOREM ProvisionTypes == ProvisionSpec => []ProvisionTypeOK
<1>1. ProvisionInv => ProvisionTypeOK
  BY Zenon DEF ProvisionInv
<1>2. QED
  BY <1>1, ProvisionInvariant, PTL

(* A provisioning script that completes undisturbed leaves a supported     *)
(* Linkspan, no older than the release it saw and the one it found, and    *)
(* its own workflow document, whole.                                       *)
THEOREM UndisturbedScriptProvisions == ProvisionSpec => []UndisturbedProvision
<1>1. ProvisionInv => UndisturbedProvision
  BY Zenon DEF ProvisionInv, AloneInv, Chosen, UndisturbedProvision
<1>2. QED
  BY <1>1, ProvisionInvariant, PTL
----------------------------------------------------------------------------
(* Slurm, traffic and provisioning share no state: a behaviour of their    *)
(* composition is one of each of them, so that what was proved of one      *)
(* holds beside the others.                                                *)
THEOREM HostsCompose == HostsSpec => SlurmSpec /\ TrafficSpec /\ ProvisionSpec
<1>1. HostsInit => SlurmInit /\ TrafficInit /\ ProvisionInit
  BY Zenon DEF HostsInit
<1>2. [HostsNext]_hostVars => [SlurmNext]_slurmVars
  BY Zenon DEF HostsNext, hostVars
<1>3. [HostsNext]_hostVars => [TrafficNext]_trafficVars
  BY Zenon DEF HostsNext, hostVars
<1>4. [HostsNext]_hostVars => [ProvisionNext]_provisionVars
  BY Zenon DEF HostsNext, hostVars
<1> QED BY <1>1, <1>2, <1>3, <1>4, PTL DEF HostsSpec, SlurmSpec, TrafficSpec, ProvisionSpec
=============================================================================
