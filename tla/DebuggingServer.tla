-------------------------- MODULE DebuggingServer --------------------------
(***************************************************************************)
(* The remote (debugging) plugin server: gnet callbacks OnOpen, OnTraffic  *)
(* (onMessage and its registration handlers), OnClose, the 10 s handshake  *)
(* timer, the heartbeat monitor, the shared currentConn counter, and the   *)
(* control panel's debuggingPluginRuntime map fed by the connected and     *)
(* disconnected notifiers.                                                 *)
(*                                                                         *)
(* A connection's frames are chosen by the remote plugin, which may send   *)
(* anything in any order; payload contents are abstracted to the outcome   *)
(* of parsing and validating them. The tenant bound by the handshake and   *)
(* the manifest's name are folded into one identity per connection.        *)
(***************************************************************************)
EXTENDS Integers, FiniteSets

CONSTANTS
    Conns,          \* TCP connections accepted by the engine
    Idents,         \* plugin identities a manifest may declare
    CapKinds,       \* tool, model, endpoint, ... declaration kinds
    MaxConn,        \* PluginRemoteInstallingMaxConn
    MaxFrames,      \* bound: registration frames handled per connection
    InvalidManifests, \* identities whose manifest ManifestValidate rejects
    NoConn,         \* model value: no runtime stored
    NoIdent         \* model value: no manifest received

ASSUME
    /\ MaxConn \in Nat
    /\ MaxFrames \in Nat
    /\ InvalidManifests \subseteq Idents

VARIABLES
    phase,            \* idle, open, closing (Close requested), gone (OnClose ran)
    handshake,        \* runtime.handshake
    handshakeFailed,  \* runtime.handshakeFailed
    registered,       \* runtime.registrationTransferred (manifest received)
    ident,            \* identity of the received manifest
    caps,             \* capability kinds whose *RegistrationTransferred is set
    checksumSet,      \* runtime.checksum computed by END over the manifest
    initialized,      \* runtime.initialized
    alive,            \* runtime.alive
    closed,           \* runtime.closed, set by closeConn's CAS and by cleanup
    reply,            \* the line closeConn wrote before closing
    timerFired,       \* the time.AfterFunc handshake timer has run
    frames,           \* registration frames handled so far
    currentConn,      \* DifyServer.currentConn
    debugMap          \* ControlPanel.debuggingPluginRuntime

vars == <<phase, handshake, handshakeFailed, registered, ident, caps, checksumSet,
          initialized, alive, closed, reply, timerFired, frames, currentConn, debugMap>>

-----------------------------------------------------------------------------
(* Helpers                                                                 *)

\* Identity(): the tenant replaces the author and the checksum is appended;
\* NewPluginUniqueIdentifier rejects an empty author or checksum.  A
\* checksum END computed before any manifest arrived binds no manifest: the
\* identity built from it is shared with no other connection, which for the
\* map is the same as having none, so checksumSet is only set over one.
IdentityValid(c) == handshake[c] /\ registered[c] /\ checksumSet[c]

\* closeConn: only the first caller wins the CAS on closed, writes its line
\* and closes the connection; gnet runs OnClose later.
CloseConn(c, msg) ==
    IF closed[c]
    THEN UNCHANGED <<closed, reply, phase>>
    ELSE /\ closed' = [closed EXCEPT ![c] = TRUE]
         /\ reply' = [reply EXCEPT ![c] = msg]
         /\ phase' = [phase EXCEPT ![c] = IF @ = "open" THEN "closing" ELSE @]

\* gnet.Conn.Close() called directly (timer, heartbeat monitor)
ConnClose(c) == phase' = [phase EXCEPT ![c] = IF @ = "open" THEN "closing" ELSE @]

\* onMessage for a connection not yet initialized: frames of a batch are
\* still handled after Close was requested, until OnClose runs; nothing is
\* done once the handshake failed.
Handling(c) ==
    /\ phase[c] \in {"open", "closing"}
    /\ ~handshakeFailed[c]
    /\ ~initialized[c]
    /\ frames[c] < MaxFrames
    /\ frames' = [frames EXCEPT ![c] = @ + 1]

-----------------------------------------------------------------------------
(* gnet callbacks and onMessage                                            *)

\* OnOpen: store the runtime in s.plugins, arm the 10 s handshake timer
OnOpen(c) ==
    /\ phase[c] = "idle"
    /\ phase' = [phase EXCEPT ![c] = "open"]
    /\ UNCHANGED <<handshake, handshakeFailed, registered, ident, caps, checksumSet,
                   initialized, alive, closed, reply, timerFired, frames,
                   currentConn, debugMap>>

\* a frame that is not a register payload
RecvGarbage(c) ==
    /\ Handling(c)
    /\ CloseConn(c, "error")
    /\ handshakeFailed' = [handshakeFailed EXCEPT ![c] = TRUE]
    /\ UNCHANGED <<handshake, registered, ident, caps, checksumSet, initialized,
                   alive, timerFired, currentConn, debugMap>>

\* HAND_SHAKE: handleHandleShake fails if already done, on a bad payload, an
\* unknown key or a cache error
RecvHandshake(c) ==
    /\ Handling(c)
    /\ \/ /\ ~handshake[c]
          /\ handshake' = [handshake EXCEPT ![c] = TRUE]
          /\ UNCHANGED <<handshakeFailed, closed, reply, phase>>
       \/ /\ handshakeFailed' = [handshakeFailed EXCEPT ![c] = TRUE]
          /\ CloseConn(c, "error")
          /\ UNCHANGED handshake
    /\ UNCHANGED <<registered, ident, caps, checksumSet, initialized, alive,
                   timerFired, currentConn, debugMap>>

\* ASSET_CHUNK: appended, or closed for bad JSON, > 50 MB or bad base64
RecvAssetChunk(c) ==
    /\ Handling(c)
    /\ \/ UNCHANGED <<closed, reply, phase>>
       \/ CloseConn(c, "error")
    /\ UNCHANGED <<handshake, handshakeFailed, registered, ident, caps, checksumSet,
                   initialized, alive, timerFired, currentConn, debugMap>>

\* MANIFEST_DECLARATION: handleDeclarationRegister
RecvManifest(c) ==
    /\ Handling(c)
    /\ \/ /\ ~registered[c]
          /\ \E i \in Idents : ident' = [ident EXCEPT ![c] = i]
          /\ registered' = [registered EXCEPT ![c] = TRUE]
          /\ UNCHANGED <<closed, reply, phase>>
       \/ /\ CloseConn(c, "error")
          /\ UNCHANGED <<registered, ident>>
    /\ UNCHANGED <<handshake, handshakeFailed, caps, checksumSet, initialized, alive,
                   timerFired, currentConn, debugMap>>

\* TOOL/MODEL/..._DECLARATION: handle<Kind>DeclarationRegister
RecvCapability(c, k) ==
    /\ Handling(c)
    /\ \/ /\ k \notin caps[c]
          /\ caps' = [caps EXCEPT ![c] = @ \cup {k}]
          /\ UNCHANGED <<closed, reply, phase>>
       \/ /\ CloseConn(c, "error")
          /\ UNCHANGED caps
    /\ UNCHANGED <<handshake, handshakeFailed, registered, ident, checksumSet,
                   initialized, alive, timerFired, currentConn, debugMap>>

\* onDebuggingRuntimeConnected, right after the checksum was computed: store
\* by identity, if Identity() succeeds
OnRuntimeConnected(c) ==
    debugMap' = IF handshake[c] /\ registered[c]
                THEN [debugMap EXCEPT ![ident[c]] = c] ELSE debugMap

\* ManifestValidate on runtime.Config.  The checksum in the identity binds
\* the manifest's content, so the result is a function of the identity;
\* without a manifest the zero Config always fails.
ManifestValidate(c) == registered[c] /\ ident[c] \notin InvalidManifests

\* handleInitializationEndEvent, then closeConn on its error: no declaration
\* flag; RemapAssets fails; the checksum is computed and ManifestValidate
\* fails; or initialized, SpawnCore and HeartbeatMonitor submitted, and the
\* connected notifier
HandleInitializationEndEvent(c) ==
    \/ /\ caps[c] = {}
       /\ CloseConn(c, "error")
       /\ UNCHANGED <<checksumSet, initialized, debugMap>>
    \/ /\ caps[c] # {}
       /\ CloseConn(c, "error")
       /\ UNCHANGED <<checksumSet, initialized, debugMap>>
    \/ /\ caps[c] # {}
       /\ ~ManifestValidate(c)
       /\ checksumSet' = [checksumSet EXCEPT ![c] = registered[c]]
       /\ CloseConn(c, "error")
       /\ UNCHANGED <<initialized, debugMap>>
    \/ /\ caps[c] # {}
       /\ ManifestValidate(c)
       /\ checksumSet' = [checksumSet EXCEPT ![c] = TRUE]
       /\ initialized' = [initialized EXCEPT ![c] = TRUE]
       /\ OnRuntimeConnected(c)
       /\ UNCHANGED <<closed, reply, phase>>

\* END: AddInt32(&currentConn, 1), then "server is busy" above maxConn
RecvEnd(c) ==
    /\ Handling(c)
    /\ currentConn' = currentConn + 1
    /\ IF currentConn + 1 > MaxConn
       THEN /\ CloseConn(c, "busy")
            /\ UNCHANGED <<checksumSet, initialized, debugMap>>
       ELSE HandleInitializationEndEvent(c)
    /\ UNCHANGED <<handshake, handshakeFailed, registered, ident, caps, alive, timerFired>>

\* the remote plugin or the network closes the connection
PeerDisconnect(c) ==
    /\ phase[c] = "open"
    /\ phase' = [phase EXCEPT ![c] = "closing"]
    /\ UNCHANGED <<handshake, handshakeFailed, registered, ident, caps, checksumSet,
                   initialized, alive, closed, reply, timerFired, frames,
                   currentConn, debugMap>>

\* mutation variant: the timer tests the flag the wrong way round
HandshakeTimeoutInverted(c) ==
    /\ phase[c] # "idle"
    /\ ~timerFired[c]
    /\ timerFired' = [timerFired EXCEPT ![c] = TRUE]
    /\ IF handshake[c] THEN ConnClose(c) ELSE UNCHANGED phase
    /\ UNCHANGED <<handshake, handshakeFailed, registered, ident, caps, checksumSet,
                   initialized, alive, closed, reply, frames, currentConn, debugMap>>

\* the handshake timer: close the connection if the handshake is not done
HandshakeTimeout(c) ==
    /\ phase[c] # "idle"
    /\ ~timerFired[c]
    /\ timerFired' = [timerFired EXCEPT ![c] = TRUE]
    /\ IF ~handshake[c] THEN ConnClose(c) ELSE UNCHANGED phase
    /\ UNCHANGED <<handshake, handshakeFailed, registered, ident, caps, checksumSet,
                   initialized, alive, closed, reply, frames, currentConn, debugMap>>

\* HeartbeatMonitor: no frame for 60 s, Stop(): alive = false, Close()
HeartbeatTimeout(c) ==
    /\ initialized[c]
    /\ alive[c]
    /\ alive' = [alive EXCEPT ![c] = FALSE]
    /\ ConnClose(c)
    /\ UNCHANGED <<handshake, handshakeFailed, registered, ident, caps, checksumSet,
                   initialized, closed, reply, timerFired, frames, currentConn, debugMap>>

\* mutation variant: the disconnected notifier leaves the map alone
OnRuntimeDisconnectedUnwired(c) == debugMap' = debugMap

\* onDebuggingRuntimeDisconnected: delete the identity's entry, whichever
\* connection it holds, if Identity() succeeds
OnRuntimeDisconnected(c) ==
    debugMap' = IF IdentityValid(c) THEN [debugMap EXCEPT ![ident[c]] = NoConn]
                ELSE debugMap

\* mutation variant: OnClose runs again for a connection already released
OnCloseRepeated(c) ==
    /\ phase[c] \in {"closing", "gone"}
    /\ phase' = [phase EXCEPT ![c] = "gone"]
    /\ closed' = [closed EXCEPT ![c] = TRUE]
    /\ alive' = [alive EXCEPT ![c] = FALSE]
    /\ OnRuntimeDisconnected(c)
    /\ currentConn' = currentConn - 1
    /\ UNCHANGED <<handshake, handshakeFailed, registered, ident, caps, checksumSet,
                   initialized, reply, timerFired, frames>>

\* OnClose: drop from s.plugins, cleanupResources (closed, alive), the
\* disconnected notifier, and decrement currentConn
OnClose(c) ==
    /\ phase[c] = "closing"
    /\ phase' = [phase EXCEPT ![c] = "gone"]
    /\ closed' = [closed EXCEPT ![c] = TRUE]
    /\ alive' = [alive EXCEPT ![c] = FALSE]
    /\ OnRuntimeDisconnected(c)
    /\ currentConn' = currentConn - 1
    /\ UNCHANGED <<handshake, handshakeFailed, registered, ident, caps, checksumSet,
                   initialized, reply, timerFired, frames>>

-----------------------------------------------------------------------------

\* NewDebuggingPluginServer: no connection, counter 0, empty map
Init ==
    /\ phase = [c \in Conns |-> "idle"]
    /\ handshake = [c \in Conns |-> FALSE]
    /\ handshakeFailed = [c \in Conns |-> FALSE]
    /\ registered = [c \in Conns |-> FALSE]
    /\ ident = [c \in Conns |-> NoIdent]
    /\ caps = [c \in Conns |-> {}]
    /\ checksumSet = [c \in Conns |-> FALSE]
    /\ initialized = [c \in Conns |-> FALSE]
    /\ alive = [c \in Conns |-> TRUE]
    /\ closed = [c \in Conns |-> FALSE]
    /\ reply = [c \in Conns |-> "none"]
    /\ timerFired = [c \in Conns |-> FALSE]
    /\ frames = [c \in Conns |-> 0]
    /\ currentConn = 0
    /\ debugMap = [i \in Idents |-> NoConn]

RemotePluginStep(c) ==
    \/ OnOpen(c)
    \/ RecvGarbage(c)
    \/ RecvHandshake(c)
    \/ RecvAssetChunk(c)
    \/ RecvManifest(c)
    \/ \E k \in CapKinds : RecvCapability(c, k)
    \/ RecvEnd(c)
    \/ PeerDisconnect(c)

Next ==
    \E c \in Conns :
        \/ RemotePluginStep(c)
        \/ HandshakeTimeout(c)
        \/ HeartbeatTimeout(c)
        \/ OnClose(c)

\* The timer goroutine and gnet's event loop run; the remote plugin's frames,
\* its silence and its disconnects are the environment.
Fairness ==
    \A c \in Conns : WF_vars(HandshakeTimeout(c)) /\ WF_vars(OnClose(c))

Spec == Init /\ [][Next]_vars /\ Fairness

-----------------------------------------------------------------------------
(* Properties                                                              *)

TypeOK ==
    /\ phase \in [Conns -> {"idle", "open", "closing", "gone"}]
    /\ handshake \in [Conns -> BOOLEAN]
    /\ handshakeFailed \in [Conns -> BOOLEAN]
    /\ registered \in [Conns -> BOOLEAN]
    /\ ident \in [Conns -> Idents \cup {NoIdent}]
    /\ caps \in [Conns -> SUBSET CapKinds]
    /\ checksumSet \in [Conns -> BOOLEAN]
    /\ initialized \in [Conns -> BOOLEAN]
    /\ alive \in [Conns -> BOOLEAN]
    /\ closed \in [Conns -> BOOLEAN]
    /\ reply \in [Conns -> {"none", "error", "busy"}]
    /\ timerFired \in [Conns -> BOOLEAN]
    /\ frames \in [Conns -> 0..MaxFrames]
    /\ currentConn \in -Cardinality(Conns)..(Cardinality(Conns) * MaxFrames)
    /\ debugMap \in [Idents -> Conns \cup {NoConn}]

\* debugging runtimes that completed END and whose OnClose has not run
ConnectedSessions == {c \in Conns : initialized[c] /\ phase[c] # "gone"}

\* The debugging runtime map never hands out a connection that is gone: an
\* entry stored by the connected notifier is removed by the disconnected
\* notifier of the same connection before gnet forgets it.
DebugMapNoStale ==
    \A i \in Idents :
        debugMap[i] # NoConn => debugMap[i] \in ConnectedSessions /\ ident[debugMap[i]] = i

\* A connection that has not completed the handshake is closed by the 10 s
\* handshake timer and released by OnClose.
UnhandshakenClosed ==
    \A c \in Conns :
        (phase[c] = "open" /\ ~handshake[c]) ~> (phase[c] = "gone" \/ handshake[c])

\* At most PluginRemoteInstallingMaxConn debugging runtimes are connected at
\* once: END refuses a connection that would exceed it (spec scenario 6).
AdmissionBounded == Cardinality(ConnectedSessions) <= MaxConn

\* Every connected debugging runtime with a valid identity can be found in
\* the control panel's map under that identity.
DebugMapTracksLive ==
    \A c \in ConnectedSessions :
        IdentityValid(c) /\ alive[c] => debugMap[ident[c]] # NoConn

====
