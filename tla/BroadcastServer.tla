-------------------------- MODULE BroadcastServer --------------------------
(***************************************************************************)
(* The life cycle of a broadcast server and of its client sessions:        *)
(* server/server.go (AcceptConnections, Close), the RunClient loop of the  *)
(* three protocols, NetworkClient.Close, and the goroutines that the main  *)
(* function of broadcast-server starts around them.                        *)
(*                                                                         *)
(* Goroutines: the accept loop, one RunClient loop and one exit watcher    *)
(* per accepted connection, the handler goroutines of the redis and line   *)
(* protocols, the event logger, the goroutine that turns a signal into     *)
(* app.Close, and the goroutine that waits for app.Quit.  They share       *)
(* app.clients without a lock and report over the unbuffered channel       *)
(* ctx.Events, which only the logger reads.                                *)
(*                                                                         *)
(* A send on an unbuffered channel and its receive are one joint action,   *)
(* and an access to app.clients or app.Closed is an action of its own.     *)
(* ctx.ClientSize, which the same goroutines count up and down and which   *)
(* decides nothing here, is the subject of module ClientSize.              *)
(***************************************************************************)
EXTENDS Integers, FiniteSets

CONSTANTS
    Conn,           \* TCP connections, each used at most once
    Addr,           \* remote addresses; a later connection may reuse one
    None,           \* no connection, no address
    MaxRequests,    \* bound: requests the peers send
    Protocols       \* protocols the server may be started with: "spawning"
                    \* (redis and line) and "inline" (interface)

ASSUME ConstantsAssumption ==
    /\ None \notin Conn
    /\ None \notin Addr
    /\ MaxRequests \in Nat
    /\ Protocols \subseteq {"spawning", "inline"}

VARIABLES
    proc,        \* the process: "running", "exited", "panicked" (channel
                 \* closed twice, or a send on it) or "threw" (map race)
    protocol,    \* the protocol the server was started with
    closed,      \* app.Closed
    quit,        \* app.Quit has been closed
    listening,   \* app.listener is open
    clients,     \* app.clients: address -> client
    sock,        \* server end of each connection
    peer,        \* remote end of each connection
    addr,        \* client.Addr, set when the connection is made
    requests,    \* number of requests the peers have still to send
    exit,        \* client.RequestError and client.Quit have been closed
    acc,         \* control state of AcceptConnections
    cur,         \* its local variable client
    closer,      \* control state of app.Close
    visited,     \* keys its range loop has produced
    ranged,      \* keys its range loop has still to produce
    logger,      \* control state of the event logger
    runner,      \* control state of each RunClient loop
    hrun,        \* number of handler goroutines running for each client
    hsend,       \* number of those blocked in reqErr <- err
    watcher      \* control state of each exit watcher

appVars   == <<protocol, closed, quit, listening>>
accVars   == <<acc, cur>>
closeVars == <<closer, visited, ranged>>
netVars   == <<peer, addr, requests>>
chanVars  == <<sock, exit>>
runVars   == <<runner, hrun, hsend>>
mainVars  == <<appVars, clients, accVars, closeVars>>
sessVars  == <<netVars, chanVars, runVars, watcher>>
vars      == <<proc, mainVars, logger, sessVars>>

ProcStates   == {"running", "exited", "panicked", "threw"}
SockStates   == {"free", "backlog", "open", "closed"}
AccStates    == {"info1", "info2", "info3", "test", "accept", "event",
                 "register", "start"}
CloserStates == {"idle", "event", "set", "range", "unload",
                 "quit", "done"}
LoggerStates == {"test", "receive", "done"}
RunnerStates == {"off", "read", "handle", "await", "evRead", "evAccept",
                 "evFatal", "close", "done"}
WatcherStates == {"off", "wait", "delete", "done"}

TypeOK ==
    /\ proc \in ProcStates
    /\ protocol \in Protocols
    /\ closed \in BOOLEAN
    /\ quit \in BOOLEAN
    /\ listening \in BOOLEAN
    /\ clients \in [Addr -> Conn \cup {None}]
    /\ sock \in [Conn -> SockStates]
    /\ peer \in [Conn -> {"up", "gone"}]
    /\ addr \in [Conn -> Addr \cup {None}]
    /\ requests \in 0..MaxRequests
    /\ exit \in [Conn -> BOOLEAN]
    /\ acc \in AccStates
    /\ cur \in Conn \cup {None}
    /\ closer \in CloserStates
    /\ visited \in SUBSET Addr
    /\ ranged \in SUBSET Addr
    /\ logger \in LoggerStates
    /\ runner \in [Conn -> RunnerStates]
    /\ hrun \in [Conn -> Nat]
    /\ hsend \in [Conn -> Nat]
    /\ watcher \in [Conn -> WatcherStates]

Init ==
    /\ proc = "running"
    /\ protocol \in Protocols
    /\ closed = FALSE /\ quit = FALSE /\ listening = TRUE
    /\ clients = [a \in Addr |-> None]
    /\ sock = [c \in Conn |-> "free"]
    /\ peer = [c \in Conn |-> "up"]
    /\ addr = [c \in Conn |-> None]
    /\ requests = MaxRequests
    /\ exit = [c \in Conn |-> FALSE]
    /\ acc = "info1" /\ cur = None
    /\ closer = "idle" /\ visited = {} /\ ranged = {}
    /\ logger = "test"
    /\ runner = [c \in Conn |-> "off"]
    /\ hrun = [c \in Conn |-> 0] /\ hsend = [c \in Conn |-> 0]
    /\ watcher = [c \in Conn |-> "off"]

Running == proc = "running"

-----------------------------------------------------------------------------
(* The peers (external): they connect, send requests (ReadRequest below)   *)
(* and hang up or reset the connection.  A remote address can be used      *)
(* again once the connection that used it was closed or its peer is gone,  *)
(* the server having noticed or not.  (Two connections of an address may   *)
(* also wait in the accept queue, which keeps their order: as if the       *)
(* second dialled when the first has left it.)                             *)

Vacated(c) == sock[c] = "closed" \/ (sock[c] = "open" /\ peer[c] = "gone")

Dial(c, a) ==
    /\ Running /\ listening
    /\ sock[c] = "free"
    /\ \A d \in Conn : addr[d] = a => Vacated(d)
    /\ sock' = [sock EXCEPT ![c] = "backlog"]
    /\ addr' = [addr EXCEPT ![c] = a]
    /\ UNCHANGED <<proc, mainVars, logger, peer, requests, exit, runVars,
                   watcher>>

HangUp(c) ==
    /\ Running
    /\ sock[c] \in {"backlog", "open"} /\ peer[c] = "up"
    /\ peer' = [peer EXCEPT ![c] = "gone"]
    /\ UNCHANGED <<proc, mainVars, logger, addr, requests, chanVars, runVars,
                   watcher>>

-----------------------------------------------------------------------------
(* The logger goroutine of main: for !app.Closed { event := <-app.Events } *)

LoggerTest ==
    /\ Running
    /\ logger = "test"
    /\ logger' = IF closed THEN "done" ELSE "receive"
    /\ UNCHANGED <<proc, mainVars, sessVars>>

\* The receiving half of every app.Events <- event.
LoggerReceive == logger = "receive" /\ logger' = "test"

-----------------------------------------------------------------------------
(* AcceptConnections                                                       *)

AcceptInfo ==
    /\ Running
    /\ acc \in {"info1", "info2", "info3"}
    /\ LoggerReceive
    /\ acc' = IF acc = "info1" THEN "info2"
              ELSE IF acc = "info2" THEN "info3" ELSE "test"
    /\ UNCHANGED <<proc, appVars, clients, cur, closeVars, sessVars>>

\* The loop condition of AcceptConnections; when it fails, main returns and the process exits.
AcceptTest ==
    /\ Running
    /\ acc = "test"
    /\ IF closed THEN proc' = "exited" /\ UNCHANGED acc
                 ELSE acc' = "accept" /\ UNCHANGED proc
    /\ UNCHANGED <<appVars, clients, cur, closeVars, logger, sessVars>>

\* AcceptTCP returns a connection; HandleConnection makes its client (and,
\* in the three protocols, never fails).
AcceptTCP(c) ==
    /\ Running
    /\ acc = "accept" /\ listening
    /\ sock[c] = "backlog"
    /\ sock' = [sock EXCEPT ![c] = "open"]
    /\ cur' = c
    /\ acc' = "register"
    /\ UNCHANGED <<proc, appVars, clients, closeVars, logger, netVars, exit,
                   runVars, watcher>>

\* AcceptTCP returns an error: a transient one, or the listener is closed.
AcceptFails ==
    /\ Running
    /\ acc = "accept"
    /\ acc' = "event"
    /\ UNCHANGED <<proc, appVars, clients, cur, closeVars, logger, sessVars>>

AcceptEvent ==
    /\ Running
    /\ acc = "event"
    /\ LoggerReceive
    /\ acc' = "test"
    /\ UNCHANGED <<proc, appVars, clients, cur, closeVars, sessVars>>

\* app.clients[client.Address()] = client
RegisterClient ==
    /\ Running
    /\ acc = "register"
    /\ clients' = [clients EXCEPT ![addr[cur]] = cur]
    /\ acc' = "start"
    /\ UNCHANGED <<proc, appVars, cur, closeVars, logger, sessVars>>

\* Variant: no exit watcher.
StartClientUnwatched ==
    /\ Running
    /\ acc = "start"
    /\ runner' = [runner EXCEPT ![cur] = "read"]
    /\ watcher' = [watcher EXCEPT ![cur] = "done"]
    /\ cur' = None
    /\ acc' = "test"
    /\ UNCHANGED <<proc, appVars, clients, closeVars, logger, netVars,
                   chanVars, hrun, hsend>>

\* The exit watcher and RunClient are started.
StartClient ==
    /\ Running
    /\ acc = "start"
    /\ watcher' = [watcher EXCEPT ![cur] = "wait"]
    /\ runner' = [runner EXCEPT ![cur] = "read"]
    /\ cur' = None
    /\ acc' = "test"
    /\ UNCHANGED <<proc, appVars, clients, closeVars, logger, netVars,
                   chanVars, hrun, hsend>>

-----------------------------------------------------------------------------
(* NetworkClient.Close.  Its receiver is a copy of the client, so the      *)
(* client keeps its Conn: a second call passes the nil test, closes the    *)
(* connection again (harmless) and panics in close(RequestError).          *)

NetworkClientClose(c) ==
    /\ sock' = [sock EXCEPT ![c] = "closed"]
    /\ exit' = [exit EXCEPT ![c] = TRUE]
    /\ proc' = IF exit[c] THEN "panicked" ELSE proc

-----------------------------------------------------------------------------
(* RunClient of the three protocols, one loop per client                   *)

\* Variant: RunClient does not wait for the handler's answer.
ReadRequestNoWait(c) ==
    /\ Running
    /\ runner[c] = "read" /\ requests > 0
    /\ requests' = requests - 1
    /\ protocol = "spawning"
    /\ hrun' = [hrun EXCEPT ![c] = @ + 1]
    /\ UNCHANGED <<proc, mainVars, logger, peer, addr, chanVars, runner, hsend,
                   watcher>>

\* A request has been read (perhaps from the buffer of a connection that is
\* closed by now) and handleData looks at it: QUIT; no such command; a panic
\* of the parser that is recovered; a value that is not an array (interface
\* protocol only); or a command, whose handler the interface protocol calls
\* and the others run in a goroutine of its own.
ReadRequest(c) ==
    /\ Running
    /\ runner[c] = "read" /\ requests > 0
    /\ requests' = requests - 1
    /\ \/ /\ runner' \in {[runner EXCEPT ![c] = s] :
                            s \in {"close", "evAccept", "evFatal"}}
          /\ UNCHANGED hrun
       \/ /\ protocol = "inline"
          /\ runner' \in {[runner EXCEPT ![c] = s] : s \in {"handle", "read"}}
          /\ UNCHANGED hrun
       \/ /\ protocol = "spawning"
          /\ runner' = [runner EXCEPT ![c] = "await"]
          /\ hrun' = [hrun EXCEPT ![c] = @ + 1]
    /\ UNCHANGED <<proc, mainVars, logger, peer, addr, chanVars, hsend,
                   watcher>>

\* Variant: the client is closed on EOF and closed again by the defer.
ReadEOFCloses(c) ==
    /\ Running
    /\ runner[c] = "read" /\ sock[c] = "open" /\ peer[c] = "gone"
    /\ NetworkClientClose(c)
    /\ runner' = [runner EXCEPT ![c] = "close"]
    /\ UNCHANGED <<mainVars, logger, netVars, hrun, hsend, watcher>>

\* io.EOF ends the loop without an event.
ReadEOF(c) ==
    /\ Running
    /\ runner[c] = "read" /\ sock[c] = "open" /\ peer[c] = "gone"
    /\ runner' = [runner EXCEPT ![c] = "close"]
    /\ UNCHANGED <<proc, mainVars, logger, netVars, chanVars, hrun, hsend,
                   watcher>>

\* Reading from a connection the server itself has closed is an error.
ReadClosed(c) ==
    /\ Running
    /\ runner[c] = "read" /\ sock[c] = "closed"
    /\ runner' = [runner EXCEPT ![c] = "evRead"]
    /\ UNCHANGED <<proc, mainVars, logger, netVars, chanVars, hrun, hsend,
                   watcher>>

\* Any other read error: a malformed or too long line, a reset connection.
ReadError(c) ==
    /\ Running
    /\ runner[c] = "read" /\ sock[c] = "open"
    /\ runner' = [runner EXCEPT ![c] = "evRead"]
    /\ UNCHANGED <<proc, mainVars, logger, netVars, chanVars, hrun, hsend,
                   watcher>>

\* The handler called by the interface protocol returns nil or an error.
InlineHandler(c) ==
    /\ Running
    /\ runner[c] = "handle"
    /\ runner' \in {[runner EXCEPT ![c] = s] : s \in {"read", "evAccept"}}
    /\ UNCHANGED <<proc, mainVars, logger, netVars, chanVars, hrun, hsend,
                   watcher>>

\* ctx.Events <- event: after a read error or a panic the loop is left, after
\* the error of a command it goes on (the reply to the peer is written).
RunnerEvent(c) ==
    /\ Running
    /\ runner[c] \in {"evRead", "evAccept", "evFatal"}
    /\ LoggerReceive
    /\ runner' = [runner EXCEPT ![c] =
                    IF @ = "evAccept" THEN "read" ELSE "close"]
    /\ UNCHANGED <<proc, mainVars, netVars, chanVars, hrun, hsend, watcher>>

\* Variant: the connection is closed but client.Quit is not.
RunnerCloseNoQuit(c) ==
    /\ Running
    /\ runner[c] = "close"
    /\ sock' = [sock EXCEPT ![c] = "closed"]
    /\ runner' = [runner EXCEPT ![c] = "done"]
    /\ UNCHANGED <<proc, mainVars, logger, netVars, exit, hrun, hsend, watcher>>

\* The deferred client.Close().
RunnerClose(c) ==
    /\ Running
    /\ runner[c] = "close"
    /\ NetworkClientClose(c)
    /\ runner' = [runner EXCEPT ![c] = "done"]
    /\ UNCHANGED <<mainVars, logger, netVars, hrun, hsend, watcher>>

\* err = <-reqErr on the closed channel yields nil at once.
AwaitClosed(c) ==
    /\ Running
    /\ runner[c] = "await" /\ exit[c]
    /\ runner' = [runner EXCEPT ![c] = "read"]
    /\ UNCHANGED <<proc, mainVars, logger, netVars, chanVars, hrun, hsend,
                   watcher>>

-----------------------------------------------------------------------------
(* Handler goroutines of the redis and line protocols:                     *)
(* go func() { reqErr <- handler(data[1:], client) }()                     *)

\* Variant: an answer without a running handler.
HandlerReturnsTwice(c) ==
    /\ Running
    /\ hrun[c] > 0 \/ hsend[c] > 0
    /\ hrun' = [hrun EXCEPT ![c] = @ - 1]
    /\ hsend' = [hsend EXCEPT ![c] = @ + 1]
    /\ UNCHANGED <<proc, mainVars, logger, netVars, chanVars, runner, watcher>>

HandlerReturns(c) ==
    /\ Running
    /\ hrun[c] > 0
    /\ hrun' = [hrun EXCEPT ![c] = @ - 1]
    /\ hsend' = [hsend EXCEPT ![c] = @ + 1]
    /\ UNCHANGED <<proc, mainVars, logger, netVars, chanVars, runner,
                   watcher>>

\* The send and RunClient's receive; the value is nil or an error.
HandlerReply(c) ==
    /\ Running
    /\ hsend[c] > 0 /\ runner[c] = "await" /\ ~exit[c]
    /\ hsend' = [hsend EXCEPT ![c] = @ - 1]
    /\ runner' \in {[runner EXCEPT ![c] = s] : s \in {"read", "evAccept"}}
    /\ UNCHANGED <<proc, mainVars, logger, netVars, chanVars, hrun, watcher>>

\* A send on a closed channel panics; nothing in this goroutine recovers.
HandlerSendPanics(c) ==
    /\ Running
    /\ hsend[c] > 0 /\ exit[c]
    /\ proc' = "panicked"
    /\ UNCHANGED <<mainVars, logger, sessVars>>

-----------------------------------------------------------------------------
(* The goroutine AcceptConnections starts for each client:                 *)
(* <-client.WaitExit(); delete(app.clients, client.Address())              *)

\* Variant: the watcher does not wait for the client's exit.
WatchExitEarly(c) ==
    /\ Running
    /\ watcher[c] = "wait"
    /\ watcher' = [watcher EXCEPT ![c] = "delete"]
    /\ UNCHANGED <<proc, mainVars, logger, netVars, chanVars, runVars>>

WatchExit(c) ==
    /\ Running
    /\ watcher[c] = "wait" /\ exit[c]
    /\ watcher' = [watcher EXCEPT ![c] = "delete"]
    /\ UNCHANGED <<proc, mainVars, logger, netVars, chanVars, runVars>>

\* The entry goes by address, whichever client it holds by now; the range
\* loop of app.Close will not produce a key that was deleted.
WatchDelete(c) ==
    /\ Running
    /\ watcher[c] = "delete"
    /\ clients' = [clients EXCEPT ![addr[c]] = None]
    /\ visited' = visited \ {addr[c]}
    /\ ranged' = ranged \ {addr[c]}
    /\ watcher' = [watcher EXCEPT ![c] = "done"]
    /\ UNCHANGED <<proc, appVars, accVars, closer, logger, netVars, chanVars,
                   runVars>>

-----------------------------------------------------------------------------
(* app.Close, called once, by the goroutine of main that waits for a       *)
(* signal                                                                  *)

\* The signal arrives; Close finds app.Closed false.
Signal ==
    /\ Running
    /\ closer = "idle" /\ ~closed
    /\ closer' = "event"
    /\ UNCHANGED <<proc, appVars, clients, accVars, visited, ranged, logger,
                   sessVars>>

CloseEvent ==
    /\ Running
    /\ closer = "event"
    /\ LoggerReceive
    /\ closer' = "set"
    /\ UNCHANGED <<proc, appVars, clients, accVars, visited, ranged,
                   sessVars>>

\* app.Closed = true, and the range loop over app.clients begins.
SetClosed ==
    /\ Running
    /\ closer = "set"
    /\ closed' = TRUE
    /\ ranged' = {a \in Addr : clients[a] # None}
    /\ closer' = "range"
    /\ UNCHANGED <<proc, protocol, quit, listening, clients, accVars, visited,
                   logger, sessVars>>

\* The loop produces a key, perhaps one added since it began, and closes the
\* client stored there now.
CloseNext(a) ==
    /\ Running
    /\ closer = "range"
    /\ clients[a] # None /\ a \notin visited
    /\ NetworkClientClose(clients[a])
    /\ visited' = visited \cup {a}
    /\ ranged' = ranged \ {a}
    /\ UNCHANGED <<appVars, clients, accVars, closer, logger, netVars, runVars,
                   watcher>>

\* The loop ends once every key it owes is produced or deleted; keys added
\* since it began may be skipped.
RangeDone ==
    /\ Running
    /\ closer = "range" /\ ranged = {}
    /\ closer' = "unload"
    /\ UNCHANGED <<proc, appVars, clients, accVars, visited, ranged, logger,
                   sessVars>>

\* The backends are unloaded (for the stats backend: its flush goroutine is
\* told to stop) and the listener is closed, which resets its backlog.
UnloadAndCloseListener ==
    /\ Running
    /\ closer = "unload"
    /\ listening' = FALSE
    /\ sock' = [c \in Conn |-> IF sock[c] = "backlog" THEN "closed"
                                                      ELSE sock[c]]
    /\ closer' = "quit"
    /\ UNCHANGED <<proc, protocol, closed, quit, clients, accVars, visited,
                   ranged, logger, netVars, exit, runVars, watcher>>

\* Variant: app.Quit is never closed; Close waits instead.
CloseQuitMissing ==
    /\ Running
    /\ closer = "quit"
    /\ UNCHANGED vars

CloseQuit ==
    /\ Running
    /\ closer = "quit"
    /\ quit' = TRUE
    /\ closer' = "done"
    /\ UNCHANGED <<proc, protocol, closed, listening, clients, accVars,
                   visited, ranged, logger, sessVars>>

\* The goroutine of main that waits for app.Quit: os.Exit(0).
QuitExit ==
    /\ Running /\ quit
    /\ proc' = "exited"
    /\ UNCHANGED <<mainVars, logger, sessVars>>

-----------------------------------------------------------------------------
(* app.clients is a plain map.  Two goroutines that use it at once, one of *)
(* them writing, are a data race: either order (the actions above), or the *)
(* runtime notices and throws.                                             *)

\* Goroutines whose next step writes app.clients, and those that read it:
\* the range loop, and the handlers, of which PUBLISH calls GetClient.
MapWriters == (IF acc = "register" THEN {"accept"} ELSE {})
              \cup {c \in Conn : watcher[c] = "delete"}
MapRead == \/ closer = "range"
           \/ \E c \in Conn : hrun[c] > 0 \/ runner[c] = "handle"

MapRace ==
    /\ Running
    /\ \E w \in MapWriters : MapRead \/ MapWriters # {w}
    /\ proc' = "threw"
    /\ UNCHANGED <<mainVars, logger, sessVars>>

-----------------------------------------------------------------------------
\* The process is over: nothing happens any more.
Terminated == ~Running /\ UNCHANGED vars

Accepting == \/ AcceptInfo \/ AcceptTest \/ AcceptFails \/ AcceptEvent
             \/ RegisterClient \/ StartClient
             \/ \E c \in Conn : AcceptTCP(c)

Session(c) == \/ ReadRequest(c) \/ ReadEOF(c) \/ ReadClosed(c)
              \/ ReadError(c) \/ InlineHandler(c) \/ RunnerEvent(c)
              \/ RunnerClose(c) \/ AwaitClosed(c)
              \/ HandlerReturns(c) \/ HandlerReply(c) \/ HandlerSendPanics(c)
              \/ WatchExit(c) \/ WatchDelete(c)

Closing == \/ Signal \/ CloseEvent \/ SetClosed
           \/ RangeDone \/ UnloadAndCloseListener \/ CloseQuit \/ QuitExit
           \/ \E a \in Addr : CloseNext(a)

Next == \/ LoggerTest
        \/ Accepting
        \/ Closing
        \/ MapRace
        \/ Terminated
        \/ \E c \in Conn : Session(c) \/ HangUp(c)
        \/ \E c \in Conn, a \in Addr : Dial(c, a)

Spec == Init /\ [][Next]_vars

(* Fairness is what the Go scheduler gives a goroutine that can run: each  *)
(* conjunct below is one goroutine.  Senders blocked on app.Events are     *)
(* served in FIFO order, so a send that competes with others is strongly   *)
(* fair.  Peers and signals owe nothing, AcceptTCP may block or fail, and  *)
(* a handler is sure to return only when its peer is gone: it may block    *)
(* writing to a peer that does not read.                                   *)
SessionFairness(c) ==
    /\ WF_vars(\/ ReadEOF(c) \/ ReadClosed(c) \/ RunnerClose(c)
               \/ AwaitClosed(c) \/ (peer[c] = "gone" /\ InlineHandler(c)))
    /\ SF_vars(RunnerEvent(c))
    /\ WF_vars(peer[c] = "gone" /\ HandlerReturns(c))
    /\ WF_vars(HandlerReply(c) \/ HandlerSendPanics(c))
    /\ WF_vars(WatchExit(c) \/ WatchDelete(c))

CloseFairness ==
    /\ SF_vars(CloseEvent)
    /\ WF_vars(\/ SetClosed \/ RangeDone \/ UnloadAndCloseListener
               \/ CloseQuit \/ (\E a \in Addr : CloseNext(a)))
    /\ WF_vars(QuitExit)

AcceptFairness ==
    /\ SF_vars(AcceptInfo \/ AcceptEvent)
    /\ WF_vars(AcceptTest \/ RegisterClient \/ StartClient)

FairSpec == /\ Spec
            /\ WF_vars(LoggerTest)
            /\ AcceptFairness /\ CloseFairness
            /\ \A c \in Conn : SessionFairness(c)

-----------------------------------------------------------------------------
(* Properties                                                              *)

Registered(c) == \E a \in Addr : clients[a] = c

\* Until app.Close begins to close clients, no session panics on a channel:
\* every path out of RunClient closes its client exactly once, and no handler
\* goroutine is left that would send on the closed reqErr.  (The runtime may
\* still throw because of app.clients: MapRace.)
PanicOnlyInShutdown == proc = "panicked" => closed

\* Before shutdown a client's requests are handled one at a time: a handler
\* goroutine exists exactly while RunClient waits for its answer.
HandlersSerialized ==
    ~closed => \A c \in Conn :
                 hrun[c] + hsend[c] = IF runner[c] = "await" THEN 1 ELSE 0

\* A client that has been closed stays in app.clients only as long as its
\* watcher has still to delete it: no dead entry is left for PUBLISH to find.
ClosedClientsReaped ==
    \A c \in Conn :
        /\ exit[c] /\ Registered(c)
             => watcher[c] \in {"wait", "delete"} \/ cur = c
        /\ watcher[c] = "done"
             => ~Registered(c)

\* A session that has not been closed is found under its address unless
\* another connection had that address too.
SessionsRegistered ==
    \A c \in Conn :
        /\ runner[c] # "off" /\ ~exit[c]
        /\ \A d \in Conn \ {c} : addr[d] # addr[c]
        => clients[addr[c]] = c

\* Once a signal has arrived the process ends, by whatever way.
ShutdownTerminates == closer # "idle" ~> ~Running

\* When a peer of a running session hangs up, its session notices, and the
\* watcher takes its entry out of app.clients.
HangupReaped ==
    \A c \in Conn : (peer[c] = "gone" /\ runner[c] # "off")
                      ~> (~Registered(c) \/ closed \/ ~Running)

-----------------------------------------------------------------------------
(* The abstract registry that the accept loop, the sessions and the        *)
(* watchers implement (proofs: module BroadcastServerProofs)               *)

\* A connection counts from the moment it is registered until its watcher has
\* deleted its entry; its peer hangs up at some time, and its end is the close
\* of its channels.
phaseBar == [c \in Conn |->
    IF watcher[c] = "done" THEN "gone"
    ELSE IF exit[c] THEN "ended"
    ELSE IF runner[c] = "off" /\ ~(cur = c /\ acc = "start") THEN "off"
    ELSE IF peer[c] = "up" THEN "up" ELSE "lost"]

addrBar == [c \in Conn |-> IF phaseBar[c] = "off" THEN None ELSE addr[c]]

Reg == INSTANCE Registry WITH phase <- phaseBar, addr <- addrBar

\* The server implements Registry: registering, closing and deleting a client
\* are its only steps on app.clients, in this order for each client, however
\* the goroutines interleave and whoever closes the client; and the accept
\* loop never registers an address whose client still has its peer (given that
\* the kernel reuses addresses as Dial says).
RegistrySpec == Reg!RegSpec

-----------------------------------------------------------------------------
(* What a comment in the code says and the code does not do                *)

\* client.go, Close "will shutdown any latent network connections and clear
\* the client out", and returns early when that has been done.  The value
\* receiver defeats the guard, and the second of app.Close and RunClient to
\* close a client panics; the only other panic is that of a handler that
\* sends on a closed reqErr.
CloseIsIdempotent ==
    proc = "panicked" => \E c \in Conn : hsend[c] > 0 /\ exit[c]
=============================================================================
